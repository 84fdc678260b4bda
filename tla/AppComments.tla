---------------------------- MODULE AppComments -----------------------------
(***************************************************************************)
(* The comment upserts of src/github_app_comments.py.  Each webhook        *)
(* delivery is processed by a thread of its own; a worker lists the first  *)
(* page of a thread's comments, looks for the app's marker (and, for an    *)
(* inline comment, its line), then PATCHes what it found or POSTs a new    *)
(* comment.  Every request runs in the retry loop of _request_json.        *)
(*                                                                         *)
(* GitHub's side is a list of comments in creation order, external to the  *)
(* repository.  A key stands for the summary marker or for the inline      *)
(* marker with one path and line; comments of people have the key NoKey.   *)
(***************************************************************************)
EXTENDS Naturals, Sequences, FiniteSets

CONSTANTS
  Workers,                  \* deliveries; each is processed by one worker
  Keys, KeyOf,              \* what marks a comment as the one to update
  NoKey, Nobody,            \* a comment of a person; who wrote it
  MaxRetries,               \* GitHubAppCommentClient.max_retries
  PageSize,                 \* per_page
  Chatter,                  \* bound: how many comments people write
  MaxActive,                \* bound: deliveries processed at the same time
  RepliesGetLost            \* can a request that was served seem to fail?

ASSUME CommentsAssumption ==
  /\ KeyOf \in [Workers -> Keys] /\ NoKey \notin Keys /\ Nobody \notin Workers
  /\ MaxRetries \in Nat /\ PageSize \in Nat \ {0} /\ Chatter \in Nat
  /\ MaxActive \in Nat \ {0} /\ RepliesGetLost \in BOOLEAN

VARIABLES
  comments,                 \* GitHub: the comments of the thread, oldest first
  pc,                       \* what each worker is doing, or how it ended
  attempt,                  \* the retry loop's counter, of its current request
  existing,                 \* the comment the worker found (0: none)
  sent                      \* how many HTTP requests the worker has sent

vars == <<comments, pc, attempt, existing, sent>>

(* Its body is one worker's report; by is who posted it and said, which    *)
(* only properties read, whose reports have been its body.                 *)
Comment == [key : Keys \union {NoKey}, body : Workers \union {Nobody},
            by : Workers \union {Nobody}, said : SUBSET Workers]

Requesting == {"listing", "patching", "posting"}
Ended == {"updated", "created", "error", "raised"}
Active == {w \in Workers : pc[w] \in Requesting}

Init ==
  /\ comments = <<>>
  /\ pc = [w \in Workers |-> "waiting"]
  /\ attempt = [w \in Workers |-> 0]
  /\ existing = [w \in Workers |-> 0]
  /\ sent = [w \in Workers |-> 0]

-----------------------------------------------------------------------------

(* A delivery arrives and its worker starts an upsert. *)
Begin(w) ==
  /\ pc[w] = "waiting" /\ Cardinality(Active) < MaxActive
  /\ pc' = [pc EXCEPT ![w] = "listing"]
  /\ UNCHANGED <<comments, attempt, existing, sent>>

(* People comment too. *)
SomeoneComments ==
  /\ Cardinality({i \in DOMAIN comments : comments[i].key = NoKey}) < Chatter
  /\ comments' = Append(comments,
                        [key |-> NoKey, body |-> Nobody, by |-> Nobody, said |-> {}])
  /\ UNCHANGED <<pc, attempt, existing, sent>>

(* The first comment of the first page that carries the key, or 0. *)
Page == {i \in DOMAIN comments : i <= PageSize}
Marked(k) == {i \in Page : comments[i].key = k}

Bug_FindSummaryOnly(k, i) ==
  LET found == {j \in Page : comments[j].key \in Keys}
  IN  IF found = {} THEN i = 0 ELSE i \in found /\ \A j \in found : i <= j

Bug_FindLast(k, i) ==
  IF Marked(k) = {} THEN i = 0 ELSE i \in Marked(k) /\ \A j \in Marked(k) : i >= j

Find(k, i) ==
  IF Marked(k) = {} THEN i = 0 ELSE i \in Marked(k) /\ \A j \in Marked(k) : i <= j

(* What GitHub does with the worker's current request. *)
Effect(w) ==
  comments' =
    CASE pc[w] = "patching" -> [comments EXCEPT ![existing[w]].body = w,
                                                ![existing[w]].said = @ \union {w}]
      [] pc[w] = "posting"  ->
           Append(comments, [key |-> KeyOf[w], body |-> w, by |-> w, said |-> {w}])
      [] OTHER              -> comments

(* One pass of the loop over range(max_retries + 1); every way to use up   *)
(* the range ends the upsert, so the loop's else is never reached.         *)
Send(w) ==
  /\ w \in Active /\ attempt[w] <= MaxRetries
  /\ sent' = [sent EXCEPT ![w] = @ + 1]

-----------------------------------------------------------------------------
(* One pass of the retry loop, by what comes back. *)

Bug_AfterReply(w) ==
  /\ attempt' = [attempt EXCEPT ![w] = 0]
  /\ existing' = existing
  /\ pc' = [pc EXCEPT ![w] = IF pc[w] = "listing" THEN "posting" ELSE "created"]

(* A reply: go on to the write, or report the comment as posted. *)
AfterReply(w) ==
  /\ attempt' = [attempt EXCEPT ![w] = 0]
  /\ IF pc[w] = "listing"
     THEN \E i \in Page \union {0} :
            /\ Find(KeyOf[w], i) /\ existing' = [existing EXCEPT ![w] = i]
            /\ pc' = [pc EXCEPT ![w] = IF i = 0 THEN "posting" ELSE "patching"]
     ELSE /\ pc' = [pc EXCEPT ![w] = IF pc[w] = "patching" THEN "updated" ELSE "created"]
          /\ UNCHANGED existing

Served(w) == Send(w) /\ Effect(w) /\ AfterReply(w)

Bug_RetryOnce(w) ==
  IF attempt[w] > MaxRetries
  THEN pc' = [pc EXCEPT ![w] = "error"] /\ UNCHANGED attempt
  ELSE attempt' = [attempt EXCEPT ![w] = @ + 1] /\ UNCHANGED pc

Bug_RetryForever(w) == UNCHANGED <<pc, attempt>>

Bug_GiveUpAsUpdated(w) ==
  IF attempt[w] >= MaxRetries
  THEN /\ pc' = [pc EXCEPT ![w] = IF pc[w] = "patching" THEN "updated" ELSE "error"]
       /\ UNCHANGED attempt
  ELSE attempt' = [attempt EXCEPT ![w] = @ + 1] /\ UNCHANGED pc

(* A rate limit, a 5xx or a network error: again, unless this was the last *)
(* attempt.                                                                *)
RetryOrGiveUp(w) ==
  IF attempt[w] >= MaxRetries
  THEN pc' = [pc EXCEPT ![w] = "error"] /\ UNCHANGED attempt
  ELSE attempt' = [attempt EXCEPT ![w] = @ + 1] /\ UNCHANGED pc

Unserved(w) == Send(w) /\ RetryOrGiveUp(w) /\ UNCHANGED <<comments, existing>>

(* GitHub did what was asked, but the reply is a 502 or never comes.  The  *)
(* loop repeats POST like any other method.                                *)
LostReply(w) ==
  /\ RepliesGetLost
  /\ Send(w) /\ Effect(w) /\ RetryOrGiveUp(w)
  /\ UNCHANGED existing

(* Any other HTTP error ends the upsert. *)
Rejected(w) ==
  /\ Send(w)
  /\ pc' = [pc EXCEPT ![w] = "error"]
  /\ UNCHANGED <<comments, attempt, existing>>

(* The reply cannot be used: reading it times out, a TimeoutError the loop *)
(* does not catch, or it is not the JSON expected.  Either ends the upsert. *)
UnusableReply(w) ==
  /\ RepliesGetLost
  /\ Send(w) /\ Effect(w)
  /\ \E end \in {"raised", "error"} : pc' = [pc EXCEPT ![w] = end]
  /\ UNCHANGED <<attempt, existing>>

Request(w) ==
  Served(w) \/ Unserved(w) \/ LostReply(w) \/ Rejected(w) \/ UnusableReply(w)

Next ==
  \/ \E w \in Workers : Begin(w) \/ Request(w)
  \/ SomeoneComments

Spec == Init /\ [][Next]_vars

(* A worker thread that has started keeps running; urlopen has a timeout,  *)
(* so every request it sends comes back in some way.                       *)
FairSpec == Spec /\ \A w \in Workers : WF_vars(Request(w))

-----------------------------------------------------------------------------
(* Properties *)

TypeOK ==
  /\ comments \in Seq(Comment)
  /\ pc \in [Workers -> {"waiting"} \union Requesting \union Ended]
  /\ attempt \in [Workers -> 0..MaxRetries]
  /\ existing \in [Workers -> Nat]
  /\ sent \in [Workers -> Nat]

Of(k) == {i \in DOMAIN comments : comments[i].key = k}

(* One comment per pull request or commit (and per line): redelivering an  *)
(* event updates the comment that is there, it adds none.                  *)
SingleComment == \A k \in Keys : Cardinality(Of(k)) <= 1

First(k) == CHOOSE i \in Of(k) : \A j \in Of(k) : i <= j

(* The app never touches what people wrote, whatever goes wrong, and never *)
(* writes one key's report into the comment of another.                    *)
OthersUntouched ==
  [][\A i \in DOMAIN comments :
       comments'[i] # comments[i] =>
         /\ comments[i].key \in Keys
         /\ comments'[i].key = comments[i].key
         /\ KeyOf[comments'[i].body] = comments[i].key]_vars

(* Deliveries processed one at a time add comments under a key only while  *)
(* there is none: all duplicates come from the retries of a single POST.   *)
DuplicatesHaveOneAuthor ==
  \A k \in Keys : \A i, j \in Of(k) : comments[i].by = comments[j].by

(* No worker can flood a thread or the API: a request is sent at most      *)
(* MaxRetries + 1 times and an upsert has two requests, so a worker that   *)
(* is given only errors still adds no more than MaxRetries + 1 comments.   *)
FloodBounded ==
  \A w \in Workers :
    /\ sent[w] <= 2 * (MaxRetries + 1)
    /\ Cardinality({i \in DOMAIN comments : comments[i].by = w}) <= MaxRetries + 1

(* A worker reports a comment as posted only if its report did get there:  *)
(* one it says it created is its own, and the one it says it updated, the  *)
(* comment it found, has had its report for a body, though another         *)
(* worker may have written over it since.                                  *)
PostedMeansWritten ==
  \A w \in Workers :
    /\ pc[w] = "created" => \E i \in Of(KeyOf[w]) : comments[i].by = w
    /\ pc[w] = "updated" =>
         existing[w] \in Of(KeyOf[w]) /\ w \in comments[existing[w]].said

(* Every upsert that starts ends. *)
UpsertEnds == \A w \in Workers : w \in Active ~> pc[w] \in Ended

(* Deliveries keep one note per key: the first comment under the key, the  *)
(* one every later upsert finds, shows the report of a delivery at the     *)
(* moment that delivery reports its comment as posted.                     *)
Note == INSTANCE PinnedNote WITH
  note <- [k \in Keys |-> IF Of(k) = {} THEN Nobody ELSE comments[First(k)].body],
  posted <- {w \in Workers : pc[w] \in {"created", "updated"}}
KeepsOneNote == Note!Spec
=============================================================================
