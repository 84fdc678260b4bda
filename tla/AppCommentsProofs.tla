-------------------------- MODULE AppCommentsProofs ---------------------------
(***************************************************************************)
(* Theorems about the comment upserts, for any number of deliveries, keys, *)
(* retries and comments, whatever the page size and whatever replies get   *)
(* lost.                                                                   *)
(***************************************************************************)
EXTENDS AppComments, FiniteSetTheorems, TLAPS

-----------------------------------------------------------------------------
(* The inductive invariant. *)

ByOf(list, w) == {i \in DOMAIN list : list[i].by = w}
By(w) == ByOf(comments, w)

(* The comment a worker updates carries the worker's key, and holds or has *)
(* held its report once the worker says it is updated.                     *)
FoundInv(w) ==
  /\ pc[w] \in {"patching", "updated"} =>
       existing[w] \in DOMAIN comments /\ comments[existing[w]].key = KeyOf[w]
  /\ pc[w] = "updated" => w \in comments[existing[w]].said

(* A worker posts under its own key. *)
OwnInv(w) == \A i \in By(w) : comments[i].key = KeyOf[w]

(* Requests are counted by the attempts at the listing and at the write.   *)
SentInv(w) ==
  /\ pc[w] = "waiting" => sent[w] = 0 /\ attempt[w] = 0
  /\ pc[w] = "listing" => sent[w] = attempt[w]
  /\ pc[w] \in {"patching", "posting"} => sent[w] <= MaxRetries + 1 + attempt[w]
  /\ sent[w] <= 2 * (MaxRetries + 1)

(* A worker adds a comment at most once per attempt at posting it. *)
AddedInv(w) ==
  /\ pc[w] \in {"waiting", "listing", "patching"} => Cardinality(By(w)) = 0
  /\ pc[w] = "posting" => Cardinality(By(w)) <= attempt[w]
  /\ Cardinality(By(w)) <= MaxRetries + 1
  /\ pc[w] = "created" => By(w) # {}

WInv(w) == FoundInv(w) /\ SentInv(w) /\ AddedInv(w)
IInv == TypeOK /\ \A w \in Workers : WInv(w) /\ OwnInv(w)

LEMMA InitIInv == Init => IInv
  <1> SUFFICES ASSUME Init PROVE IInv
    OBVIOUS
  <1>1. TypeOK
    BY CommentsAssumption DEF Init, TypeOK, Requesting, Ended
  <1>2. ASSUME NEW w \in Workers PROVE WInv(w) /\ OwnInv(w)
    <2>1. By(w) = {}
      BY DEF Init, By, ByOf
    <2>2. Cardinality(By(w)) = 0
      BY <2>1, FS_EmptySet
    <2> QED
      BY <2>1, <2>2, CommentsAssumption DEF Init, WInv, FoundInv, SentInv, AddedInv, OwnInv
  <1> QED
    BY <1>1, <1>2 DEF IInv

-----------------------------------------------------------------------------
(* What a request does to the thread. *)

LEMMA ByIsFinite ==
  ASSUME NEW list \in Seq(Comment), NEW w
  PROVE  IsFiniteSet(ByOf(list, w)) /\ Cardinality(ByOf(list, w)) \in Nat
  <1>1. ByOf(list, w) \subseteq 1 .. Len(list) /\ Len(list) \in Nat
    BY DEF ByOf
  <1>2. IsFiniteSet(1 .. Len(list))
    BY <1>1, FS_Interval
  <1>3. IsFiniteSet(ByOf(list, w))
    BY <1>1, <1>2, FS_Subset
  <1> QED
    BY <1>3, FS_CardinalityType

(* A new comment counts for its author alone. *)
LEMMA AppendBy ==
  ASSUME NEW list \in Seq(Comment), NEW c \in Comment, NEW w
  PROVE  /\ Append(list, c) \in Seq(Comment)
         /\ DOMAIN list \subseteq DOMAIN Append(list, c)
         /\ \A i \in DOMAIN list : Append(list, c)[i] = list[i]
         /\ c.by # w => ByOf(Append(list, c), w) = ByOf(list, w)
         /\ c.by = w => /\ ByOf(Append(list, c), w) # {}
                        /\ Cardinality(ByOf(Append(list, c), w))
                             = Cardinality(ByOf(list, w)) + 1
  <1> DEFINE n == Len(list) + 1
             longer == Append(list, c)
  <1>1. /\ longer \in Seq(Comment) /\ DOMAIN longer = 1 .. n /\ DOMAIN list = 1 .. Len(list)
        /\ longer[n] = c /\ \A i \in DOMAIN list : longer[i] = list[i]
        /\ Len(list) \in Nat
    OBVIOUS
  <1>2. c.by # w => ByOf(longer, w) = ByOf(list, w)
    BY <1>1 DEF ByOf
  <1>3. ASSUME c.by = w
        PROVE  ByOf(longer, w) = ByOf(list, w) \union {n} /\ n \notin ByOf(list, w)
    BY <1>1, <1>3 DEF ByOf
  <1> QED
    BY <1>1, <1>2, <1>3, ByIsFinite, FS_AddElement

LEMMA EffectFacts ==
  ASSUME IInv, NEW w \in Workers, Send(w), Effect(w)
  PROVE  /\ comments' \in Seq(Comment) /\ DOMAIN comments \subseteq DOMAIN comments'
         /\ \A i \in DOMAIN comments :
              /\ comments'[i].key = comments[i].key
              /\ comments[i].said \subseteq comments'[i].said
              /\ comments'[i] # comments[i] =>
                   comments[i].key = KeyOf[w] /\ comments'[i].body = w
         /\ pc[w] = "patching" => w \in comments'[existing[w]].said
         /\ \A v \in Workers : OwnInv(v)'
         /\ \A v \in Workers : v # w \/ pc[w] # "posting" => By(v)' = By(v)
         /\ pc[w] = "posting" => /\ By(w)' # {}
                                 /\ Cardinality(By(w)') = Cardinality(By(w)) + 1
  <1>0. /\ comments \in Seq(Comment) /\ KeyOf[w] \in Keys /\ pc[w] \in Requesting
    BY CommentsAssumption DEF IInv, TypeOK, Send, Active
  <1>1. CASE pc[w] = "listing"
    <2>1. comments' = comments
      BY <1>1 DEF Effect
    <2> QED
      BY <1>0, <1>1, <2>1 DEF By, OwnInv, IInv
  <1>2. CASE pc[w] = "patching"
    <2> DEFINE i == existing[w]
    <2>1. i \in DOMAIN comments /\ comments[i].key = KeyOf[w] /\ comments[i] \in Comment
      BY <1>0, <1>2 DEF IInv, WInv, FoundInv
    <2> DEFINE c == [comments[i] EXCEPT !.body = w, !.said = @ \union {w}]
    <2>2. comments' = [comments EXCEPT ![i] = c]
      BY <1>2, <2>1 DEF Effect
    <2>3. c \in Comment
      BY <2>1 DEF Comment
    <2>4. comments' \in Seq(Comment) /\ DOMAIN comments' = DOMAIN comments
      BY <1>0, <2>1, <2>2, <2>3
    <2>5. /\ comments'[i].key = comments[i].key /\ comments'[i].by = comments[i].by
          /\ comments'[i].body = w /\ comments'[i].said = comments[i].said \union {w}
          /\ \A j \in DOMAIN comments \ {i} : comments'[j] = comments[j]
      BY <1>0, <2>1, <2>2 DEF Comment
    <2>6. \A v \in Workers : By(v)' = By(v)
      BY <2>4, <2>5 DEF By, ByOf
    <2>7. ASSUME NEW v \in Workers PROVE OwnInv(v)'
      <3>1. By(v) \subseteq DOMAIN comments /\ OwnInv(v)
        BY DEF By, ByOf, IInv
      <3> QED
        BY <2>5, <2>6, <3>1 DEF OwnInv
    <2> HIDE DEF c
    <2> QED
      BY <1>2, <2>1, <2>4, <2>5, <2>6, <2>7
  <1>3. CASE pc[w] = "posting"
    <2> DEFINE c == [key |-> KeyOf[w], body |-> w, by |-> w, said |-> {w}]
    <2>1. c \in Comment /\ c.by = w /\ c.key = KeyOf[w] /\ comments' = Append(comments, c)
      BY <1>0, <1>3 DEF Effect, Comment
    <2> HIDE DEF c
    <2>2. ASSUME NEW v \in Workers PROVE OwnInv(v)'
      <3>1. \A i \in DOMAIN comments' : i \in DOMAIN comments \/ comments'[i] = c
        BY <1>0, <2>1
      <3>2. \A i \in DOMAIN comments : comments'[i] = comments[i]
        BY <1>0, <2>1
      <3>3. ASSUME NEW i \in By(v)' PROVE i \in By(v) \/ (comments'[i] = c /\ v = w)
        <4>1. i \in DOMAIN comments' /\ comments'[i].by = v
          BY DEF By, ByOf
        <4>2. CASE i \in DOMAIN comments
          BY <3>2, <4>1, <4>2 DEF By, ByOf
        <4>3. CASE comments'[i] = c
          <5>1. c.by = w
            BY <2>1
          <5> QED
            BY <4>1, <4>3, <5>1
        <4> QED
          BY <3>1, <4>1, <4>2, <4>3
      <3>4. By(v) \subseteq DOMAIN comments /\ OwnInv(v)
        BY DEF By, ByOf, IInv
      <3> QED
        BY <2>1, <3>2, <3>3, <3>4 DEF OwnInv
    <2>3. \A i \in DOMAIN comments : comments'[i] = comments[i]
      BY <1>0, <2>1
    <2> QED
      BY <1>0, <1>3, <2>1, <2>2, <2>3, AppendBy DEF By
  <1> QED
    BY <1>0, <1>1, <1>2, <1>3 DEF Requesting

-----------------------------------------------------------------------------
(* Requests. *)

(* A request of one worker leaves what is known of the others. *)
LEMMA Frame ==
  ASSUME IInv, NEW w \in Workers, Send(w), Effect(w), WInv(w)',
         pc' \in [Workers -> {"waiting"} \union Requesting \union Ended],
         attempt' \in [Workers -> 0 .. MaxRetries], existing' \in [Workers -> Nat],
         \A v \in Workers \ {w} :
           pc'[v] = pc[v] /\ attempt'[v] = attempt[v] /\ existing'[v] = existing[v]
  PROVE  IInv'
  <1>0. comments' \in Seq(Comment)
    BY EffectFacts
  <1>1. sent' \in [Workers -> Nat]
    BY DEF IInv, TypeOK, Send
  <1>3. TypeOK'
    BY <1>0, <1>1 DEF TypeOK
  <1>2. ASSUME NEW v \in Workers \ {w} PROVE WInv(v)'
    <2>1. /\ WInv(v) /\ sent'[v] = sent[v] /\ By(v)' = By(v)
          /\ pc'[v] = pc[v] /\ attempt'[v] = attempt[v] /\ existing'[v] = existing[v]
      BY EffectFacts DEF IInv, TypeOK, Send
    <2>2. FoundInv(v)'
      BY <2>1, EffectFacts DEF WInv, FoundInv, Ended
    <2> QED
      BY <2>1, <2>2 DEF WInv, SentInv, AddedInv
  <1> QED
    BY <1>2, <1>3, EffectFacts DEF IInv

(* The same for a request that leaves the thread as it is. *)
LEMMA Untouched ==
  ASSUME IInv, NEW w \in Workers, Send(w), UNCHANGED comments, WInv(w)',
         pc' \in [Workers -> {"waiting"} \union Requesting \union Ended],
         attempt' \in [Workers -> 0 .. MaxRetries], existing' \in [Workers -> Nat],
         \A v \in Workers \ {w} :
           pc'[v] = pc[v] /\ attempt'[v] = attempt[v] /\ existing'[v] = existing[v]
  PROVE  IInv'
  <1>1. sent' \in [Workers -> Nat]
    BY DEF IInv, TypeOK, Send
  <1>2. TypeOK'
    BY <1>1 DEF IInv, TypeOK
  <1>4. \A v \in Workers : OwnInv(v)'
    BY DEF IInv, OwnInv, By
  <1>3. ASSUME NEW v \in Workers \ {w} PROVE WInv(v)'
    <2>1. /\ WInv(v) /\ sent'[v] = sent[v] /\ By(v)' = By(v)
          /\ pc'[v] = pc[v] /\ attempt'[v] = attempt[v] /\ existing'[v] = existing[v]
      BY DEF IInv, TypeOK, Send, By
    <2> QED
      BY <2>1 DEF WInv, FoundInv, SentInv, AddedInv
  <1> QED
    BY <1>2, <1>3, <1>4 DEF IInv

LEMMA FindFacts ==
  ASSUME NEW k, NEW i \in Page \union {0}, Find(k, i), comments \in Seq(Comment)
  PROVE  i \in Nat /\ (i # 0 => i \in DOMAIN comments /\ comments[i].key = k)
  BY DEF Find, Marked, Page

LEMMA ServedIInv == ASSUME IInv, NEW w \in Workers, Served(w) PROVE IInv'
  <1>0. /\ TypeOK /\ WInv(w) /\ Send(w) /\ Effect(w) /\ AfterReply(w)
        /\ pc[w] \in Requesting /\ attempt[w] \in 0 .. MaxRetries
        /\ MaxRetries \in Nat /\ comments \in Seq(Comment) /\ sent'[w] = sent[w] + 1
        /\ sent[w] \in Nat /\ Cardinality(By(w)) \in Nat
    BY CommentsAssumption, ByIsFinite DEF IInv, TypeOK, Served, Send, Active, By
  <1>1. CASE pc[w] = "listing"
    <2>1. PICK i \in Page \union {0} :
            /\ Find(KeyOf[w], i) /\ existing' = [existing EXCEPT ![w] = i]
            /\ pc' = [pc EXCEPT ![w] = IF i = 0 THEN "posting" ELSE "patching"]
      BY <1>0, <1>1 DEF AfterReply
    <2>2. i \in Nat /\ (i # 0 => i \in DOMAIN comments /\ comments[i].key = KeyOf[w])
      BY <1>0, <2>1, FindFacts
    <2>3. /\ pc'[w] \in {"posting", "patching"} /\ existing'[w] = i /\ attempt'[w] = 0
          /\ pc'[w] = "patching" => i # 0
          /\ attempt' = [attempt EXCEPT ![w] = 0]
          /\ comments' = comments /\ By(w)' = By(w)
      BY <1>0, <1>1, <2>1 DEF AfterReply, Effect, TypeOK, By
    <2>4. FoundInv(w)'
      BY <2>2, <2>3 DEF FoundInv
    <2>5. SentInv(w)'
      <3>1. sent[w] = attempt[w]
        BY <1>0, <1>1 DEF WInv, SentInv
      <3>2. sent'[w] <= MaxRetries + 1 /\ sent'[w] <= 2 * (MaxRetries + 1)
        BY <1>0, <3>1
      <3> QED
        BY <1>0, <2>3, <3>2 DEF SentInv
    <2>6. AddedInv(w)'
      <3>1. Cardinality(By(w)) = 0
        BY <1>0, <1>1 DEF WInv, AddedInv
      <3> QED
        BY <1>0, <2>3, <3>1 DEF AddedInv
    <2>7. /\ pc' \in [Workers -> {"waiting"} \union Requesting \union Ended]
          /\ attempt' \in [Workers -> 0 .. MaxRetries] /\ existing' \in [Workers -> Nat]
          /\ \A v \in Workers \ {w} :
               pc'[v] = pc[v] /\ attempt'[v] = attempt[v] /\ existing'[v] = existing[v]
      BY <1>0, <2>1, <2>2, <2>3 DEF TypeOK, Requesting
    <2> QED
      BY <1>0, <2>4, <2>5, <2>6, <2>7, Frame DEF WInv
  <1>2. CASE pc[w] \in {"patching", "posting"}
    <2>1. /\ pc' = [pc EXCEPT ![w] = IF pc[w] = "patching" THEN "updated" ELSE "created"]
          /\ attempt' = [attempt EXCEPT ![w] = 0] /\ existing' = existing
      BY <1>0, <1>2 DEF AfterReply
    <2>2. /\ pc'[w] = IF pc[w] = "patching" THEN "updated" ELSE "created"
          /\ attempt'[w] = 0 /\ existing'[w] = existing[w]
          /\ pc' \in [Workers -> {"waiting"} \union Requesting \union Ended]
          /\ attempt' \in [Workers -> 0 .. MaxRetries] /\ existing' \in [Workers -> Nat]
          /\ \A v \in Workers \ {w} :
               pc'[v] = pc[v] /\ attempt'[v] = attempt[v] /\ existing'[v] = existing[v]
      BY <1>0, <2>1 DEF TypeOK, Ended
    <2>3. FoundInv(w)'
      BY <1>0, <1>2, <2>2, EffectFacts DEF WInv, FoundInv
    <2>4. SentInv(w)'
      <3>1. sent[w] <= MaxRetries + 1 + attempt[w]
        BY <1>0, <1>2 DEF WInv, SentInv
      <3>2. sent'[w] <= 2 * (MaxRetries + 1)
        BY <1>0, <3>1
      <3> QED
        BY <2>2, <3>2 DEF SentInv
    <2>5. AddedInv(w)'
      <3>1. CASE pc[w] = "posting"
        <4>1. Cardinality(By(w)) <= attempt[w]
          BY <1>0, <3>1 DEF WInv, AddedInv
        <4>2. By(w)' # {} /\ Cardinality(By(w)') = Cardinality(By(w)) + 1
          BY <1>0, <3>1, EffectFacts
        <4>3. Cardinality(By(w)') <= MaxRetries + 1
          BY <1>0, <4>1, <4>2
        <4> QED
          BY <2>2, <3>1, <4>2, <4>3 DEF AddedInv
      <3>2. CASE pc[w] = "patching"
        <4>1. By(w)' = By(w) /\ Cardinality(By(w)) = 0
          BY <1>0, <3>2, EffectFacts DEF WInv, AddedInv
        <4> QED
          BY <1>0, <2>2, <3>2, <4>1 DEF AddedInv
      <3> QED
        BY <1>2, <3>1, <3>2
    <2> QED
      BY <1>0, <2>2, <2>3, <2>4, <2>5, Frame DEF WInv
  <1> QED
    BY <1>0, <1>1, <1>2 DEF Requesting

(* Requests that are repeated or given up, served or not. *)
LEMMA RepeatedIInv ==
  ASSUME IInv, NEW w \in Workers, Send(w), Effect(w) \/ UNCHANGED comments,
         existing' = existing,
         \/ RetryOrGiveUp(w)
         \/ \E end \in {"raised", "error"} :
              pc' = [pc EXCEPT ![w] = end] /\ attempt' = attempt
  PROVE  IInv'
  <1>0. /\ TypeOK /\ WInv(w)
        /\ pc[w] \in Requesting /\ attempt[w] \in 0 .. MaxRetries
        /\ MaxRetries \in Nat /\ comments \in Seq(Comment) /\ sent'[w] = sent[w] + 1
        /\ sent[w] \in Nat /\ Cardinality(By(w)) \in Nat
    BY CommentsAssumption, ByIsFinite DEF IInv, TypeOK, Send, Active, By
  <1>1. \E p \in Requesting \union Ended, a \in 0 .. MaxRetries :
          /\ pc' = [pc EXCEPT ![w] = p] /\ attempt' = [attempt EXCEPT ![w] = a]
          /\ \/ p = pc[w] /\ attempt[w] < MaxRetries /\ a = attempt[w] + 1
             \/ p \in {"raised", "error"} /\ a = attempt[w]
    <2>1. pc = [pc EXCEPT ![w] = pc[w]] /\ attempt = [attempt EXCEPT ![w] = attempt[w]]
      BY <1>0 DEF TypeOK
    <2>2. {"raised", "error"} \subseteq Ended
      BY DEF Ended
    <2>3. CASE RetryOrGiveUp(w) /\ attempt[w] >= MaxRetries
      <3>1. pc' = [pc EXCEPT ![w] = "error"] /\ attempt' = attempt
        BY <2>3 DEF RetryOrGiveUp
      <3> QED
        BY <1>0, <2>1, <2>2, <3>1
    <2>4. CASE RetryOrGiveUp(w) /\ ~ attempt[w] >= MaxRetries
      <3>1. pc' = pc /\ attempt' = [attempt EXCEPT ![w] = attempt[w] + 1]
        BY <2>4 DEF RetryOrGiveUp
      <3>2. attempt[w] < MaxRetries /\ attempt[w] + 1 \in 0 .. MaxRetries
        BY <1>0, <2>4
      <3> QED
        BY <1>0, <2>1, <3>1, <3>2
    <2>5. CASE \E end \in {"raised", "error"} :
                 pc' = [pc EXCEPT ![w] = end] /\ attempt' = attempt
      <3>1. PICK end \in {"raised", "error"} :
              pc' = [pc EXCEPT ![w] = end] /\ attempt' = attempt
        BY <2>5
      <3> QED
        BY <1>0, <2>1, <2>2, <3>1
    <2> QED
      BY <2>3, <2>4, <2>5
  <1>2. PICK p \in Requesting \union Ended, a \in 0 .. MaxRetries :
          /\ pc' = [pc EXCEPT ![w] = p] /\ attempt' = [attempt EXCEPT ![w] = a]
          /\ \/ p = pc[w] /\ attempt[w] < MaxRetries /\ a = attempt[w] + 1
             \/ p \in {"raised", "error"} /\ a = attempt[w]
    BY <1>1
  <1>3. /\ pc'[w] = p /\ attempt'[w] = a /\ existing'[w] = existing[w]
        /\ pc' \in [Workers -> {"waiting"} \union Requesting \union Ended]
        /\ attempt' \in [Workers -> 0 .. MaxRetries] /\ existing' \in [Workers -> Nat]
        /\ \A v \in Workers \ {w} :
             pc'[v] = pc[v] /\ attempt'[v] = attempt[v] /\ existing'[v] = existing[v]
    BY <1>0, <1>2 DEF TypeOK
  <1>4. /\ comments' \in Seq(Comment) /\ DOMAIN comments \subseteq DOMAIN comments'
        /\ \A i \in DOMAIN comments : /\ comments'[i].key = comments[i].key
                                      /\ comments[i].said \subseteq comments'[i].said
        /\ \A v \in Workers : v # w \/ pc[w] # "posting" => By(v)' = By(v)
        /\ \/ By(w)' = By(w)
           \/ By(w)' # {} /\ Cardinality(By(w)') = Cardinality(By(w)) + 1
    <2>1. CASE Effect(w)
      BY <2>1, EffectFacts
    <2>2. CASE UNCHANGED comments
      BY <1>0, <2>2 DEF By
    <2> QED
      BY <2>1, <2>2
  <1>5. FoundInv(w)'
    <2>1. (p = "patching" => pc[w] = "patching") /\ p # "updated"
      BY <1>0, <1>2 DEF Requesting
    <2> QED
      BY <1>0, <1>3, <1>4, <2>1 DEF WInv, FoundInv
  <1>6. SentInv(w)'
    <2>1. CASE p = pc[w] /\ attempt[w] < MaxRetries /\ a = attempt[w] + 1
      <3>1. CASE pc[w] = "listing"
        <4>1. sent[w] = attempt[w]
          BY <1>0, <3>1 DEF WInv, SentInv
        <4>2. sent'[w] = a /\ sent'[w] <= 2 * (MaxRetries + 1)
          BY <1>0, <2>1, <4>1
        <4> QED
          BY <1>3, <2>1, <3>1, <4>2 DEF SentInv
      <3>2. CASE pc[w] \in {"patching", "posting"}
        <4>1. sent[w] <= MaxRetries + 1 + attempt[w]
          BY <1>0, <3>2 DEF WInv, SentInv
        <4>2. sent'[w] <= MaxRetries + 1 + a /\ sent'[w] <= 2 * (MaxRetries + 1)
          BY <1>0, <2>1, <4>1
        <4> QED
          BY <1>3, <2>1, <3>2, <4>2 DEF SentInv
      <3> QED
        BY <1>0, <3>1, <3>2 DEF Requesting
    <2>2. CASE p \in {"raised", "error"} /\ a = attempt[w]
      <3>1. sent[w] <= MaxRetries + 1 + attempt[w]
        BY <1>0 DEF WInv, SentInv, Requesting
      <3>2. sent'[w] <= 2 * (MaxRetries + 1)
        BY <1>0, <3>1
      <3> QED
        BY <1>3, <2>2, <3>2 DEF SentInv
    <2> QED
      BY <1>2, <2>1, <2>2
  <1>7. AddedInv(w)'
    <2>1. CASE pc[w] = "posting"
      <3>1. Cardinality(By(w)) <= attempt[w]
        BY <1>0, <2>1 DEF WInv, AddedInv
      <3>2. Cardinality(By(w)') <= attempt[w] + 1
        BY <1>0, <1>4, <3>1
      <3>3. CASE p = pc[w] /\ attempt[w] < MaxRetries /\ a = attempt[w] + 1
        <4>1. Cardinality(By(w)') <= a /\ Cardinality(By(w)') <= MaxRetries + 1
          BY <1>0, <1>4, <3>1, <3>3
        <4> QED
          BY <1>3, <2>1, <3>3, <4>1 DEF AddedInv
      <3>4. CASE p \in {"raised", "error"} /\ a = attempt[w]
        <4>1. Cardinality(By(w)') <= MaxRetries + 1
          BY <1>0, <1>4, <3>1
        <4> QED
          BY <1>3, <3>4, <4>1 DEF AddedInv
      <3> QED
        BY <1>2, <3>3, <3>4
    <2>2. CASE pc[w] # "posting"
      <3>1. By(w)' = By(w) /\ Cardinality(By(w)) = 0
        BY <1>0, <1>4, <2>2 DEF WInv, AddedInv, Requesting
      <3>2. p \notin {"posting", "created"}
        BY <1>0, <1>2, <2>2 DEF Requesting
      <3> QED
        BY <1>0, <1>3, <3>1, <3>2 DEF AddedInv
    <2> QED
      BY <2>1, <2>2
  <1>8. CASE Effect(w)
    BY <1>3, <1>5, <1>6, <1>7, <1>8, Frame DEF WInv
  <1>9. CASE UNCHANGED comments
    BY <1>3, <1>5, <1>6, <1>7, <1>9, Untouched DEF WInv
  <1> QED
    BY <1>8, <1>9

-----------------------------------------------------------------------------
(* The other actions. *)

LEMMA BeginIInv == ASSUME IInv, NEW w \in Workers, Begin(w) PROVE IInv'
  <1>1. TypeOK'
    BY DEF IInv, TypeOK, Begin, Requesting
  <1>2. ASSUME NEW v \in Workers PROVE WInv(v)' /\ OwnInv(v)'
    <2>1. By(v)' = By(v)
      BY DEF Begin, By
    <2>2. /\ WInv(v) /\ comments' = comments /\ attempt'[v] = attempt[v]
          /\ sent'[v] = sent[v] /\ existing'[v] = existing[v]
          /\ \/ pc'[v] = pc[v]
             \/ pc'[v] = "listing" /\ pc[v] = "waiting"
      BY DEF IInv, TypeOK, Begin
    <2>3. FoundInv(v)' /\ SentInv(v)'
      BY <2>2 DEF WInv, FoundInv, SentInv
    <2>4. AddedInv(v)'
      BY <2>1, <2>2 DEF WInv, AddedInv
    <2> QED
      BY <2>1, <2>2, <2>3, <2>4 DEF WInv, OwnInv, IInv
  <1> QED
    BY <1>1, <1>2 DEF IInv

LEMMA SomeoneIInv == ASSUME IInv, SomeoneComments PROVE IInv'
  <1> DEFINE c == [key |-> NoKey, body |-> Nobody, by |-> Nobody, said |-> {}]
  <1>1. /\ comments \in Seq(Comment) /\ c \in Comment /\ comments' = Append(comments, c)
        /\ pc' = pc /\ attempt' = attempt /\ existing' = existing /\ sent' = sent
    BY DEF IInv, TypeOK, SomeoneComments, Comment
  <1>2. ASSUME NEW v \in Workers PROVE By(v)' = By(v)
    <2>1. c.by # v
      BY CommentsAssumption
    <2> QED
      BY <1>1, <2>1, AppendBy DEF By
  <1>3. /\ comments' \in Seq(Comment) /\ DOMAIN comments \subseteq DOMAIN comments'
        /\ \A i \in DOMAIN comments : comments'[i] = comments[i]
    BY <1>1, AppendBy
  <1>4. ASSUME NEW v \in Workers PROVE WInv(v)' /\ OwnInv(v)'
    <2>1. WInv(v) /\ OwnInv(v) /\ By(v) \subseteq DOMAIN comments
      BY DEF IInv, By, ByOf
    <2>2. FoundInv(v)' /\ SentInv(v)'
      BY <1>1, <1>3, <2>1 DEF WInv, FoundInv, SentInv
    <2>3. AddedInv(v)'
      BY <1>1, <1>2, <2>1 DEF WInv, AddedInv
    <2>4. OwnInv(v)'
      BY <1>2, <1>3, <2>1 DEF OwnInv
    <2> QED
      BY <2>2, <2>3, <2>4 DEF WInv
  <1>5. TypeOK'
    BY <1>1, <1>3 DEF IInv, TypeOK
  <1> QED
    BY <1>4, <1>5 DEF IInv

LEMMA RequestIInv == ASSUME IInv, NEW w \in Workers, Request(w) PROVE IInv'
  <1>1. CASE Served(w)
    BY <1>1, ServedIInv
  <1>2. CASE Unserved(w)
    BY <1>2, RepeatedIInv DEF Unserved
  <1>3. CASE LostReply(w)
    BY <1>3, RepeatedIInv DEF LostReply
  <1>4. CASE Rejected(w)
    <2>1. "error" \in {"raised", "error"}
      OBVIOUS
    <2> QED
      BY <1>4, <2>1, RepeatedIInv DEF Rejected
  <1>5. CASE UnusableReply(w)
    BY <1>5, RepeatedIInv DEF UnusableReply
  <1> QED
    BY <1>1, <1>2, <1>3, <1>4, <1>5 DEF Request

LEMMA NextIInv == IInv /\ [Next]_vars => IInv'
  <1> SUFFICES ASSUME IInv, [Next]_vars PROVE IInv'
    OBVIOUS
  <1>1. ASSUME NEW w \in Workers, Begin(w) \/ Request(w) PROVE IInv'
    BY <1>1, BeginIInv, RequestIInv
  <1>2. CASE SomeoneComments
    BY <1>2, SomeoneIInv
  <1>3. CASE UNCHANGED vars
    <2>1. TypeOK'
      BY <1>3 DEF vars, IInv, TypeOK
    <2>2. ASSUME NEW v \in Workers PROVE WInv(v)' /\ OwnInv(v)'
      BY <1>3 DEF vars, IInv, WInv, FoundInv, SentInv, AddedInv, OwnInv, By
    <2> QED
      BY <2>1, <2>2 DEF IInv
  <1> QED
    BY <1>1, <1>2, <1>3 DEF Next

-----------------------------------------------------------------------------
(* The theorems. *)

(* Types, and what every worker knows of its comment, its requests and the *)
(* comments it added, in every state the upserts of                        *)
(* src/github_app_comments.py can reach.                                   *)
THEOREM CommentsInvariance == Spec => []IInv
  <1>1. Init => IInv
    BY InitIInv
  <1>2. IInv /\ [Next]_vars => IInv'
    BY NextIInv
  <1> QED
    BY <1>1, <1>2, PTL DEF Spec

(* The thread's comments and the workers' counters stay of their types.    *)
THEOREM TypeCorrect == Spec => []TypeOK
  <1>1. IInv => TypeOK
    BY DEF IInv
  <1> QED
    BY <1>1, CommentsInvariance, PTL

(* The retry loop of _request_json bounds what one delivery sends and adds, *)
(* whatever fails and however many replies are lost.                       *)
THEOREM FloodIsBounded == Spec => []FloodBounded
  <1>1. IInv => FloodBounded
    BY DEF IInv, WInv, SentInv, AddedInv, By, ByOf, FloodBounded
  <1> QED
    BY <1>1, CommentsInvariance, PTL

(* What the upsert reports as posted is in the thread.                     *)
THEOREM PostedIsWritten == Spec => []PostedMeansWritten
  <1>1. IInv => PostedMeansWritten
    BY DEF IInv, WInv, FoundInv, AddedInv, OwnInv, By, ByOf, PostedMeansWritten, Of
  <1> QED
    BY <1>1, CommentsInvariance, PTL

(* An upsert writes over comments of its own key only.                     *)
THEOREM OthersStayUntouched == Spec => OthersUntouched
  <1> DEFINE Step ==
        \A i \in DOMAIN comments :
          comments'[i] # comments[i] =>
            /\ comments[i].key \in Keys
            /\ comments'[i].key = comments[i].key
            /\ KeyOf[comments'[i].body] = comments[i].key
  <1>1. IInv /\ [Next]_vars => [Step]_vars
    <2> SUFFICES ASSUME IInv, [Next]_vars PROVE Step
      OBVIOUS
    <2>1. ASSUME NEW w \in Workers, Send(w), Effect(w) PROVE Step
      <3>1. KeyOf[w] \in Keys
        BY CommentsAssumption
      <3> QED
        BY <2>1, <3>1, EffectFacts
    <2>2. ASSUME NEW w \in Workers, Begin(w) \/ Request(w) PROVE Step
      BY <2>1, <2>2 DEF Begin, Request, Served, Unserved, LostReply, Rejected,
                        UnusableReply
    <2>3. CASE SomeoneComments
      BY <2>3 DEF SomeoneComments, IInv, TypeOK
    <2>4. CASE UNCHANGED vars
      BY <2>4 DEF vars
    <2> QED
      BY <2>2, <2>3, <2>4 DEF Next
  <1> QED
    BY <1>1, CommentsInvariance, PTL DEF Spec, OthersUntouched
=============================================================================
