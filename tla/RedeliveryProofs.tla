-------------------------- MODULE RedeliveryProofs ---------------------------
(***************************************************************************)
(* Theorems about deliveries that are processed one at a time, in threads  *)
(* whose comments fit on the page the upserts search: however many replies *)
(* get lost, a later delivery updates the comment of the first one.        *)
(* Without either condition both theorems fail (SingleComment shows the    *)
(* first with two workers; behind a full page no marker is found).         *)
(***************************************************************************)
EXTENDS AppCommentsProofs

Fits == Len(comments) <= PageSize

Least(S, i) == i \in S /\ \A j \in S : i <= j

(* One worker is active.  All comments under a key have one author; while  *)
(* a worker is posting, all those under its key are its own and say what   *)
(* it has to say; while it is patching, it has found the first.            *)
RInv ==
  /\ \A v, w \in Active : v = w
  /\ \A k \in Keys : Of(k) # {} => \E i \in Of(k) : Least(Of(k), i)
  /\ DuplicatesHaveOneAuthor
  /\ \A w \in Workers : pc[w] = "posting" =>
       \A i \in Of(KeyOf[w]) : comments[i].by = w /\ comments[i].body = w
  /\ \A w \in Workers : pc[w] = "patching" => Least(Of(KeyOf[w]), existing[w])

LEMMA InitRInv == Init => RInv
  BY DEF Init, RInv, Active, Requesting, Of, DuplicatesHaveOneAuthor

-----------------------------------------------------------------------------
(* What a step does to the comments of a key. *)

LEMMA Appended ==
  ASSUME comments \in Seq(Comment), NEW c \in Comment, comments' = Append(comments, c)
  PROVE  LET n == Len(comments) + 1
         IN  /\ \A i \in DOMAIN comments : i <= n /\ i # n /\ comments'[i] = comments[i]
             /\ comments'[n] = c /\ n <= n
             /\ \A k : Of(k)' = IF c.key = k THEN Of(k) \union {n} ELSE Of(k)
  <1> DEFINE n == Len(comments) + 1
  <1>1. /\ DOMAIN comments = 1 .. Len(comments) /\ Len(comments) \in Nat
        /\ DOMAIN comments' = 1 .. n
        /\ comments'[n] = c /\ \A i \in DOMAIN comments : comments'[i] = comments[i]
    OBVIOUS
  <1>2. DOMAIN comments' = DOMAIN comments \union {n} /\ n \notin DOMAIN comments
    BY <1>1
  <1>3. ASSUME NEW k PROVE Of(k)' = IF c.key = k THEN Of(k) \union {n} ELSE Of(k)
    BY <1>1, <1>2 DEF Of
  <1> QED
    BY <1>1, <1>2, <1>3

LEMMA Patched ==
  ASSUME IInv, NEW w \in Workers, pc[w] = "patching", Effect(w)
  PROVE  /\ DOMAIN comments' = DOMAIN comments
         /\ \A i \in DOMAIN comments :
              /\ comments'[i].by = comments[i].by
              /\ i # existing[w] => comments'[i] = comments[i]
         /\ comments'[existing[w]].body = w
         /\ \A k : Of(k)' = Of(k)
  <1> DEFINE i == existing[w]
  <1>1. i \in DOMAIN comments /\ comments \in Seq(Comment) /\ comments[i] \in Comment
    BY DEF IInv, TypeOK, WInv, FoundInv
  <1> DEFINE c == [comments[i] EXCEPT !.body = w, !.said = @ \union {w}]
  <1>2. comments' = [comments EXCEPT ![i] = c]
    BY <1>1 DEF Effect
  <1>3. /\ DOMAIN comments' = DOMAIN comments
        /\ comments'[i] = c
        /\ \A j \in DOMAIN comments \ {i} : comments'[j] = comments[j]
    BY <1>1, <1>2
  <1>4. /\ comments'[i].key = comments[i].key /\ comments'[i].by = comments[i].by
        /\ comments'[i].body = w
    BY <1>1, <1>3 DEF Comment
  <1>5. ASSUME NEW k PROVE Of(k)' = Of(k)
    BY <1>3, <1>4 DEF Of
  <1> QED
    BY <1>3, <1>4, <1>5

(* Where a request of a worker leads.                                      *)
LEMMA Moves ==
  ASSUME IInv, NEW w \in Workers, Request(w)
  PROVE  /\ pc[w] \in Requesting
         /\ \A v \in Workers \ {w} : pc'[v] = pc[v] /\ existing'[v] = existing[v]
         /\ Effect(w) \/ UNCHANGED comments
         /\ pc'[w] \in {"created", "updated"} => Effect(w)
         /\ pc[w] = "listing" =>
              \/ pc'[w] = "posting" /\ Marked(KeyOf[w]) = {}
              \/ pc'[w] = "patching" /\ Least(Marked(KeyOf[w]), existing'[w])
              \/ pc'[w] \in {"listing", "error", "raised"}
         /\ pc[w] = "patching" =>
              /\ existing'[w] = existing[w]
              /\ pc'[w] \in {"patching", "updated", "error", "raised"}
         /\ pc[w] = "posting" => pc'[w] \in {"posting", "created", "error", "raised"}
  <1>0. TypeOK /\ pc[w] \in Requesting /\ w \in Active
    BY DEF IInv, Request, Served, Unserved, LostReply, Rejected, UnusableReply, Send, Active
  <1>1. CASE Served(w)
    <2>1. Effect(w) /\ AfterReply(w)
      BY <1>1 DEF Served
    <2>2. CASE pc[w] = "listing"
      <3>1. PICK i \in Page \union {0} :
              /\ Find(KeyOf[w], i) /\ existing' = [existing EXCEPT ![w] = i]
              /\ pc' = [pc EXCEPT ![w] = IF i = 0 THEN "posting" ELSE "patching"]
        BY <2>1, <2>2 DEF AfterReply
      <3>2. 0 \notin Page
        BY <1>0 DEF TypeOK, Page
      <3>3. CASE i = 0
        <4>1. Marked(KeyOf[w]) = {}
          BY <3>1, <3>2, <3>3 DEF Find, Marked
        <4> QED
          BY <1>0, <2>1, <2>2, <3>1, <3>3, <4>1 DEF TypeOK
      <3>4. CASE i # 0
        <4>1. Least(Marked(KeyOf[w]), i)
          BY <3>1, <3>4 DEF Find, Least
        <4> QED
          BY <1>0, <2>1, <2>2, <3>1, <3>4, <4>1 DEF TypeOK
      <3> QED
        BY <3>3, <3>4
    <2>3. CASE pc[w] # "listing"
      <3>0. pc[w] = "patching" \/ pc[w] = "posting"
        BY <1>0, <2>3 DEF Requesting
      <3>1. /\ pc' = [pc EXCEPT ![w] = IF pc[w] = "patching" THEN "updated" ELSE "created"]
            /\ UNCHANGED existing
        BY <2>1, <2>3 DEF AfterReply
      <3> QED
        BY <1>0, <2>1, <2>3, <3>0, <3>1 DEF TypeOK
    <2> QED
      BY <2>2, <2>3
  <1>2. CASE ~ Served(w)
    <2>1. /\ UNCHANGED existing
          /\ Effect(w) \/ UNCHANGED comments
          /\ \/ RetryOrGiveUp(w)
             \/ \E end \in {"error", "raised"} : pc' = [pc EXCEPT ![w] = end]
      BY <1>2 DEF Request, Unserved, LostReply, Rejected, UnusableReply
    <2>2. pc' = pc \/ \E end \in {"error", "raised"} : pc' = [pc EXCEPT ![w] = end]
      BY <2>1 DEF RetryOrGiveUp
    <2>3. /\ pc'[w] = pc[w] \/ pc'[w] \in {"error", "raised"}
          /\ \A v \in Workers \ {w} : pc'[v] = pc[v]
      BY <1>0, <2>2 DEF TypeOK
    <2> QED
      BY <1>0, <2>1, <2>3 DEF Requesting
  <1> QED
    BY <1>1, <1>2

-----------------------------------------------------------------------------
(* The invariant, step by step. *)

LEMMA RequestRInv ==
  ASSUME IInv, RInv, Fits, NEW w \in Workers, Request(w)
  PROVE  RInv'
  <1>0. /\ comments \in Seq(Comment) /\ Len(comments) \in Nat /\ w \in Active
        /\ KeyOf[w] \in Keys /\ \A v \in Workers \ {w} : pc[v] \notin Requesting
    BY CommentsAssumption, Moves DEF IInv, TypeOK, RInv, Active
  <1>1. \A k \in Keys : Marked(k) = Of(k)
    <2>1. DOMAIN comments = 1 .. Len(comments) /\ PageSize \in Nat
      BY <1>0, CommentsAssumption
    <2>2. Page = DOMAIN comments
      BY <1>0, <2>1 DEF Fits, Page
    <2> QED
      BY <2>2 DEF Marked, Of
  <1>2. \A v, u \in Active' : v = u
    BY <1>0, Moves DEF Active
  <1>3. \A v \in Workers : pc'[v] \in {"posting", "patching"} => v = w
    BY <1>0, Moves DEF Requesting
  <1>4. CASE UNCHANGED comments
    <2>1. \A k : Of(k)' = Of(k)
      BY <1>4 DEF Of
    <2>2. /\ \A k \in Keys : Of(k)' # {} => \E i \in Of(k)' : Least(Of(k)', i)
          /\ DuplicatesHaveOneAuthor'
      BY <1>4, <2>1 DEF RInv, DuplicatesHaveOneAuthor
    <2>3. pc'[w] = "posting" =>
            \A i \in Of(KeyOf[w])' : comments'[i].by = w /\ comments'[i].body = w
      BY <1>0, <1>1, <1>4, <2>1, Moves DEF RInv, Requesting
    <2>4. pc'[w] = "patching" => Least(Of(KeyOf[w])', existing'[w])
      BY <1>0, <1>1, <2>1, Moves DEF RInv, Requesting
    <2> QED
      BY <1>2, <1>3, <2>2, <2>3, <2>4 DEF RInv
  <1>5. CASE pc[w] = "patching" /\ Effect(w)
    <2>1. \A k : Of(k)' = Of(k)
      BY <1>5, Patched
    <2>2. \A k : \A i \in Of(k) : comments'[i].by = comments[i].by
      BY <1>5, Patched DEF Of
    <2>3. /\ \A k \in Keys : Of(k)' # {} => \E i \in Of(k)' : Least(Of(k)', i)
          /\ DuplicatesHaveOneAuthor'
      BY <2>1, <2>2 DEF RInv, DuplicatesHaveOneAuthor
    <2>4. /\ pc'[w] # "posting"
          /\ pc'[w] = "patching" => Least(Of(KeyOf[w])', existing'[w])
      BY <1>5, <2>1, Moves DEF RInv
    <2> QED
      BY <1>2, <1>3, <2>3, <2>4 DEF RInv
  <1>6. CASE pc[w] = "posting" /\ Effect(w)
    <2> DEFINE c == [key |-> KeyOf[w], body |-> w, by |-> w, said |-> {w}]
               n == Len(comments) + 1
    <2>1. c \in Comment /\ comments' = Append(comments, c)
      BY <1>0, <1>6 DEF Effect, Comment
    <2>2. /\ \A i \in DOMAIN comments : i <= n /\ i # n /\ comments'[i] = comments[i]
          /\ comments'[n] = c /\ n <= n
          /\ \A k : Of(k)' = IF c.key = k THEN Of(k) \union {n} ELSE Of(k)
      BY <1>0, <2>1, Appended
    <2>3. \A k : Of(k) \subseteq DOMAIN comments
      BY DEF Of
    <2>4. \A i \in Of(KeyOf[w]) : comments[i].by = w /\ comments[i].body = w
      BY <1>6 DEF RInv
    <2> HIDE DEF c, n
    <2>5. ASSUME NEW k \in Keys, Of(k)' # {}
          PROVE  \E i \in Of(k)' : Least(Of(k)', i)
      <3>1. CASE Of(k) = {}
        BY <2>2, <2>5, <3>1 DEF Least
      <3>2. CASE Of(k) # {}
        BY <2>2, <2>3, <3>2 DEF Least, RInv
      <3> QED
        BY <3>1, <3>2
    <2>6. c.key = KeyOf[w] /\ c.by = w /\ c.body = w
      BY DEF c
    <2>7. /\ \A i \in Of(KeyOf[w])' : comments'[i].by = w /\ comments'[i].body = w
          /\ \A k \in Keys \ {KeyOf[w]} : Of(k)' = Of(k)
      BY <2>2, <2>3, <2>4, <2>6
    <2>8. DuplicatesHaveOneAuthor'
      BY <2>2, <2>3, <2>7 DEF RInv, DuplicatesHaveOneAuthor
    <2>9. pc'[w] # "patching"
      BY <1>6, Moves
    <2> QED
      BY <1>2, <1>3, <2>5, <2>7, <2>8, <2>9 DEF RInv
  <1>7. CASE pc[w] = "listing" /\ Effect(w)
    BY <1>4, <1>7 DEF Effect
  <1> QED
    BY <1>0, <1>4, <1>5, <1>6, <1>7, Moves DEF Requesting

(* With room for one worker, one begins only when no other is active.      *)
LEMMA BeginRInv ==
  ASSUME MaxActive = 1, IsFiniteSet(Workers), IInv, RInv, NEW w \in Workers, Begin(w)
  PROVE  RInv'
  <1>1. IsFiniteSet(Active)
    BY FS_Subset DEF Active
  <1>2. Cardinality(Active) = 0
    BY <1>1, FS_CardinalityType DEF Begin
  <1>3. Active = {}
    BY <1>1, <1>2, FS_EmptySet
  <1>4. /\ comments' = comments /\ existing' = existing
        /\ \A v \in Workers \ {w} : pc'[v] = pc[v]
        /\ pc'[w] = "listing"
    BY DEF IInv, TypeOK, Begin
  <1>5. /\ \A u, v \in Active' : u = v
        /\ \A v \in Workers : pc'[v] \notin {"posting", "patching"}
    BY <1>3, <1>4 DEF Active, Requesting
  <1>6. \A k : Of(k)' = Of(k)
    BY <1>4 DEF Of
  <1> QED
    BY <1>4, <1>5, <1>6 DEF RInv, DuplicatesHaveOneAuthor

LEMMA SomeoneRInv == ASSUME IInv, RInv, SomeoneComments PROVE RInv'
  <1> DEFINE c == [key |-> NoKey, body |-> Nobody, by |-> Nobody, said |-> {}]
             n == Len(comments) + 1
  <1>1. /\ comments \in Seq(Comment) /\ c \in Comment /\ comments' = Append(comments, c)
        /\ UNCHANGED <<pc, existing>>
    BY DEF IInv, TypeOK, SomeoneComments, Comment
  <1>2. /\ \A i \in DOMAIN comments : i <= n /\ i # n /\ comments'[i] = comments[i]
        /\ \A k : Of(k)' = IF c.key = k THEN Of(k) \union {n} ELSE Of(k)
    BY <1>1, Appended
  <1>3. /\ \A k \in Keys : Of(k)' = Of(k)
        /\ \A k \in Keys : \A i \in Of(k) : comments'[i] = comments[i]
    BY <1>2, CommentsAssumption DEF Of
  <1>4. \A v \in Workers : KeyOf[v] \in Keys
    BY CommentsAssumption
  <1>5. Active' = Active
    BY <1>1 DEF Active
  <1> HIDE DEF c, n
  <1>6. /\ \A k \in Keys : Of(k)' # {} => \E i \in Of(k)' : Least(Of(k)', i)
        /\ DuplicatesHaveOneAuthor'
    BY <1>3 DEF RInv, DuplicatesHaveOneAuthor
  <1>7. ASSUME NEW v \in Workers
        PROVE  /\ pc'[v] = "posting" =>
                    \A i \in Of(KeyOf[v])' : comments'[i].by = v /\ comments'[i].body = v
               /\ pc'[v] = "patching" => Least(Of(KeyOf[v])', existing'[v])
    <2>1. pc'[v] = pc[v] /\ existing'[v] = existing[v] /\ Of(KeyOf[v])' = Of(KeyOf[v])
      BY <1>1, <1>3, <1>4
    <2>2. CASE pc[v] = "posting"
      BY <1>3, <1>4, <2>1, <2>2 DEF RInv
    <2>3. CASE pc[v] = "patching"
      BY <2>1, <2>3 DEF RInv
    <2> QED
      BY <2>1, <2>2, <2>3
  <1> QED
    BY <1>5, <1>6, <1>7 DEF RInv

LEMMA NextRInv ==
  ASSUME MaxActive = 1, IsFiniteSet(Workers)
  PROVE  IInv /\ RInv /\ Fits /\ [Next]_vars => RInv'
  <1> SUFFICES ASSUME IInv, RInv, Fits, [Next]_vars PROVE RInv'
    OBVIOUS
  <1>1. ASSUME NEW w \in Workers, Begin(w) PROVE RInv'
    BY <1>1, BeginRInv
  <1>2. ASSUME NEW w \in Workers, Request(w) PROVE RInv'
    BY <1>2, RequestRInv
  <1>3. CASE SomeoneComments
    BY <1>3, SomeoneRInv
  <1>4. CASE UNCHANGED vars
    BY <1>4 DEF vars, RInv, Active, Of, DuplicatesHaveOneAuthor
  <1> QED
    BY <1>1, <1>2, <1>3, <1>4 DEF Next

LEMMA OneAtATime ==
  ASSUME MaxActive = 1, IsFiniteSet(Workers)
  PROVE  Spec /\ []Fits => [](IInv /\ RInv)
  <1>1. Init => RInv
    BY InitRInv
  <1>2. IInv /\ RInv /\ Fits /\ [Next]_vars => RInv'
    BY NextRInv
  <1> QED
    BY <1>1, <1>2, CommentsInvariance, PTL DEF Spec

-----------------------------------------------------------------------------
(* The theorems. *)

(* Deliveries of a thread that fits on the page, processed one at a time,  *)
(* add duplicates only by the retries of a single POST: the later ones     *)
(* find its first comment (upsert_summary_comment and the inline upsert).  *)
THEOREM DuplicatesShareAnAuthor ==
  ASSUME MaxActive = 1, IsFiniteSet(Workers)
  PROVE  Spec /\ []Fits => []DuplicatesHaveOneAuthor
  <1>1. RInv => DuplicatesHaveOneAuthor
    BY DEF RInv
  <1> QED
    BY <1>1, OneAtATime, PTL

(* Which comment the app's later upserts find: the first under the key.    *)
LEMMA FirstIsLeast ==
  ASSUME NEW k, NEW i
  PROVE  /\ comments \in Seq(Comment) /\ Least(Of(k), i) =>
              First(k) = i /\ Of(k) # {}
         /\ comments' \in Seq(Comment) /\ Least(Of(k)', i) =>
              First(k)' = i /\ Of(k)' # {}
  <1>1. ASSUME comments \in Seq(Comment), Least(Of(k), i)
        PROVE  First(k) = i /\ Of(k) # {}
    <2>1. i \in Of(k) /\ \A j \in Of(k) : i <= j /\ j \in Nat
      BY <1>1 DEF Least, Of
    <2>2. First(k) \in Of(k) /\ \A j \in Of(k) : First(k) <= j
      BY <2>1 DEF First
    <2> QED
      BY <2>1, <2>2
  <1>2. ASSUME comments' \in Seq(Comment), Least(Of(k)', i)
        PROVE  First(k)' = i /\ Of(k)' # {}
    <2>1. i \in Of(k)' /\ \A j \in Of(k)' : i <= j /\ j \in Nat
      BY <1>2 DEF Least, Of
    <2>2. First(k)' \in Of(k)' /\ \A j \in Of(k)' : First(k)' <= j
      BY <2>1 DEF First
    <2> QED
      BY <2>1, <2>2
  <1> QED
    BY <1>1, <1>2

(* The note under a key, and who reports a comment as posted: the state of *)
(* PinnedNote that KeepsOneNote maps the upserts to.                       *)
NoteOf(k) == IF Of(k) = {} THEN Nobody ELSE comments[First(k)].body
NoteMap == [k \in Keys |-> NoteOf(k)]
AllPosted == {w \in Workers : pc[w] \in {"created", "updated"}}

LEMMA StaysPinned ==
  ASSUME comments \in Seq(Comment), comments' \in Seq(Comment), RInv, NEW k \in Keys,
         Of(k)' = Of(k), \A i \in Of(k) : comments'[i] = comments[i]
  PROVE  NoteOf(k)' = NoteOf(k)
  <1>1. CASE Of(k) = {}
    BY <1>1 DEF NoteOf
  <1>2. CASE Of(k) # {}
    <2>1. PICK i \in Of(k) : Least(Of(k), i)
      BY <1>2 DEF RInv
    <2>2. First(k) = i /\ First(k)' = i
      BY <2>1, FirstIsLeast
    <2> QED
      BY <1>2, <2>1, <2>2 DEF NoteOf
  <1> QED
    BY <1>1, <1>2

(* Having its say, a worker leaves its report in the note of its key and   *)
(* the notes of the other keys as they were.                               *)
LEMMA SaysItsOwn ==
  ASSUME IInv, RInv, IInv', NEW w \in Workers, pc[w] \in {"patching", "posting"}, Effect(w)
  PROVE  NoteMap' = [NoteMap EXCEPT ![KeyOf[w]] = w]
  <1>0. comments \in Seq(Comment) /\ comments' \in Seq(Comment) /\ KeyOf[w] \in Keys
    BY CommentsAssumption DEF IInv, TypeOK
  <1>1. CASE pc[w] = "patching"
    <2> DEFINE i == existing[w]
    <2>1. Least(Of(KeyOf[w]), i) /\ Of(KeyOf[w])' = Of(KeyOf[w]) /\ comments'[i].body = w
      BY <1>1, Patched DEF RInv
    <2>2. First(KeyOf[w])' = i /\ Of(KeyOf[w])' # {}
      BY <1>0, <2>1, FirstIsLeast
    <2>3. NoteOf(KeyOf[w])' = w
      BY <2>1, <2>2 DEF NoteOf
    <2>4. ASSUME NEW k \in Keys \ {KeyOf[w]} PROVE NoteOf(k)' = NoteOf(k)
      <3>1. i \notin Of(k) /\ Of(k) \subseteq DOMAIN comments
        BY <2>1 DEF Of, Least
      <3>2. Of(k)' = Of(k) /\ \A j \in Of(k) : comments'[j] = comments[j]
        BY <1>1, <3>1, Patched
      <3> QED
        BY <1>0, <3>2, StaysPinned
    <2> QED
      BY <1>0, <2>3, <2>4 DEF NoteMap
  <1>2. CASE pc[w] = "posting"
    <2> DEFINE c == [key |-> KeyOf[w], body |-> w, by |-> w, said |-> {w}]
               n == Len(comments) + 1
    <2>1. c \in Comment /\ comments' = Append(comments, c)
      BY <1>0, <1>2 DEF Effect, Comment
    <2>2. /\ \A i \in DOMAIN comments : i <= n /\ i # n /\ comments'[i] = comments[i]
          /\ comments'[n] = c /\ n <= n
          /\ \A k : Of(k)' = IF c.key = k THEN Of(k) \union {n} ELSE Of(k)
      BY <1>0, <2>1, Appended
    <2>3. \A k : Of(k) \subseteq DOMAIN comments
      BY DEF Of
    <2>4. c.key = KeyOf[w] /\ c.body = w
      OBVIOUS
    <2> HIDE DEF c, n
    <2>5. NoteOf(KeyOf[w])' = w
      <3>1. CASE Of(KeyOf[w]) = {}
        <4>1. Least(Of(KeyOf[w])', n)
          BY <2>2, <2>4, <3>1 DEF Least
        <4>2. First(KeyOf[w])' = n /\ Of(KeyOf[w])' # {}
          BY <1>0, <4>1, FirstIsLeast
        <4> QED
          BY <2>2, <2>4, <4>2 DEF NoteOf
      <3>2. CASE Of(KeyOf[w]) # {}
        <4>1. PICK i \in Of(KeyOf[w]) : Least(Of(KeyOf[w]), i)
          BY <1>0, <3>2 DEF RInv
        <4>2. Least(Of(KeyOf[w])', i)
          BY <2>2, <2>3, <2>4, <4>1 DEF Least
        <4>3. First(KeyOf[w])' = i /\ Of(KeyOf[w])' # {}
          BY <1>0, <4>2, FirstIsLeast
        <4>4. comments'[i].body = w
          BY <1>2, <2>2, <2>3, <4>1 DEF RInv
        <4> QED
          BY <4>3, <4>4 DEF NoteOf
      <3> QED
        BY <3>1, <3>2
    <2>6. ASSUME NEW k \in Keys \ {KeyOf[w]} PROVE NoteOf(k)' = NoteOf(k)
      <3>1. Of(k)' = Of(k) /\ \A j \in Of(k) : comments'[j] = comments[j]
        BY <2>2, <2>3, <2>4
      <3> QED
        BY <1>0, <3>1, StaysPinned
    <2> QED
      BY <1>0, <2>5, <2>6 DEF NoteMap
  <1> QED
    BY <1>1, <1>2

LEMMA NotesUnchanged ==
  ASSUME IInv, IInv', RInv, \A k \in Keys : Of(k)' = Of(k),
         \A k \in Keys : \A i \in Of(k) : comments'[i] = comments[i]
  PROVE  NoteMap' = NoteMap
  <1>1. ASSUME NEW k \in Keys PROVE NoteOf(k)' = NoteOf(k)
    BY StaysPinned DEF IInv, TypeOK
  <1> QED
    BY <1>1 DEF NoteMap

LEMMA InitRefines == Init => Note!Init
  BY DEF Init, Note!Init, Of

LEMMA StepRefines ==
  ASSUME IInv, RInv, IInv', [Next]_vars
  PROVE  \/ UNCHANGED <<NoteMap, AllPosted>>
         \/ \E w \in Workers :
              /\ NoteMap' = [NoteMap EXCEPT ![KeyOf[w]] = w]
              /\ AllPosted' = AllPosted \/ AllPosted' = AllPosted \union {w}
  <1>1. ASSUME NEW w \in Workers, Begin(w) PROVE UNCHANGED <<NoteMap, AllPosted>>
    <2>1. comments' = comments /\ pc[w] = "waiting" /\ pc' = [pc EXCEPT ![w] = "listing"]
      BY <1>1 DEF Begin
    <2>2. AllPosted' = AllPosted
      BY <2>1 DEF AllPosted, IInv, TypeOK
    <2>3. NoteMap' = NoteMap
      BY <2>1, NotesUnchanged DEF Of
    <2> QED
      BY <2>2, <2>3
  <1>2. CASE SomeoneComments
    <2> DEFINE c == [key |-> NoKey, body |-> Nobody, by |-> Nobody, said |-> {}]
    <2>1. /\ comments \in Seq(Comment) /\ c \in Comment /\ comments' = Append(comments, c)
          /\ pc' = pc /\ c.key \notin Keys
      BY <1>2, CommentsAssumption DEF IInv, TypeOK, SomeoneComments, Comment
    <2>2. /\ \A k \in Keys : Of(k)' = Of(k)
          /\ \A i \in DOMAIN comments : comments'[i] = comments[i]
      BY <2>1, Appended
    <2>3. NoteMap' = NoteMap
      BY <2>2, NotesUnchanged DEF Of
    <2> QED
      BY <2>1, <2>3 DEF AllPosted
  <1>3. ASSUME NEW w \in Workers, Request(w)
        PROVE  \/ UNCHANGED <<NoteMap, AllPosted>>
               \/ /\ NoteMap' = [NoteMap EXCEPT ![KeyOf[w]] = w]
                  /\ AllPosted' = AllPosted \/ AllPosted' = AllPosted \union {w}
    <2>0. pc[w] \in Requesting /\ \A v \in Workers \ {w} : pc'[v] = pc[v]
      BY <1>3, Moves
    <2>1. AllPosted' = AllPosted \/ AllPosted' = AllPosted \union {w}
      BY <2>0 DEF AllPosted, Requesting
    <2>2. CASE pc[w] # "listing" /\ Effect(w)
      BY <2>0, <2>1, <2>2, SaysItsOwn DEF Requesting
    <2>3. CASE pc[w] = "listing" \/ ~ Effect(w)
      <3>1. comments' = comments /\ pc'[w] \notin {"created", "updated"}
        BY <1>3, <2>0, <2>3, Moves DEF Effect, Requesting
      <3>2. AllPosted' = AllPosted
        BY <2>0, <3>1 DEF AllPosted, Requesting
      <3>3. NoteMap' = NoteMap
        BY <3>1, NotesUnchanged DEF Of
      <3> QED
        BY <3>2, <3>3
    <2> QED
      BY <2>2, <2>3
  <1>4. CASE UNCHANGED vars
    <2>1. NoteMap' = NoteMap
      BY <1>4, NotesUnchanged DEF vars, Of
    <2> QED
      BY <1>4, <2>1 DEF vars, AllPosted
  <1> QED
    BY <1>1, <1>2, <1>3, <1>4 DEF Next

(* The upserts implement PinnedNote: under each key the first comment, the *)
(* one later deliveries update, is the note, and a delivery that reports   *)
(* its comment as posted has just had its say there.                       *)
THEOREM UpsertsKeepOneNote ==
  ASSUME MaxActive = 1, IsFiniteSet(Workers)
  PROVE  Spec /\ []Fits => KeepsOneNote
  <1>1. Init => Note!Init
    BY InitRefines
  <1>2. IInv /\ RInv /\ IInv' /\ [Next]_vars => [Note!Next]_(Note!vars)
    <2> SUFFICES ASSUME IInv, RInv, IInv', [Next]_vars PROVE [Note!Next]_(Note!vars)
      OBVIOUS
    <2> QED
      BY StepRefines DEF NoteMap, NoteOf, AllPosted, Note!Next, Note!vars, Note!Write,
         Note!WriteAndReport, Note!Say
  <1> QED
    BY <1>1, <1>2, OneAtATime, PTL DEF Spec, KeepsOneNote, Note!Spec
=============================================================================
