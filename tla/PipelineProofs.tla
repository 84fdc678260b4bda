--------------------------- MODULE PipelineProofs ---------------------------
(***************************************************************************)
(* Theorems about the orchestrator, for every set of names, every set of   *)
(* registration plans (cyclic and malformed ones included), with and       *)
(* without ADK and fail-fast.                                              *)
(***************************************************************************)
EXTENDS RcaRegistry, DataProofs

Elements(s) == {s[i] : i \in DOMAIN s}

LEMMA AppendElements ==
  ASSUME NEW S, NEW s \in Seq(S), NEW x \in S
  PROVE  /\ Append(s, x) \in Seq(S)
         /\ Len(Append(s, x)) = Len(s) + 1
         /\ DOMAIN Append(s, x) = 1 .. (Len(s) + 1)
         /\ DOMAIN s = 1 .. Len(s)
         /\ \A i \in DOMAIN s : Append(s, x)[i] = s[i]
         /\ Append(s, x)[Len(s) + 1] = x
         /\ Elements(Append(s, x)) = Elements(s) \union {x}
  <1>1. /\ Append(s, x) \in Seq(S)
        /\ Len(Append(s, x)) = Len(s) + 1
        /\ DOMAIN Append(s, x) = 1 .. (Len(s) + 1)
        /\ DOMAIN s = 1 .. Len(s)
        /\ \A i \in DOMAIN s : Append(s, x)[i] = s[i]
        /\ Append(s, x)[Len(s) + 1] = x
    OBVIOUS
  <1>2. Elements(Append(s, x)) = Elements(s) \union {x}
    <2> DEFINE t == Append(s, x)
    <2>1. ASSUME NEW y \in Elements(t) PROVE y \in Elements(s) \union {x}
      <3>1. PICK i \in 1 .. (Len(s) + 1) : y = t[i]
        BY <1>1, <2>1 DEF Elements
      <3>2. CASE i = Len(s) + 1
        BY <3>1, <3>2, <1>1
      <3>3. CASE i \in 1 .. Len(s)
        BY <3>1, <3>3, <1>1 DEF Elements
      <3> QED
        BY <3>1, <3>2, <3>3, <1>1
    <2>2. ASSUME NEW y \in Elements(s) PROVE y \in Elements(t)
      BY <1>1, <2>2 DEF Elements
    <2>3. x \in Elements(t)
      BY <1>1 DEF Elements
    <2> QED
      BY <2>1, <2>2, <2>3
  <1> QED
    BY <1>1, <1>2

-----------------------------------------------------------------------------
(* The inductive invariant. *)

(* What is fixed in each phase. *)
PhaseInv ==
  /\ phase \in {"building", "refused"} =>
       /\ order = <<>> /\ runtime = "none"
       /\ \A n \in Names : calls[n] = 0
  /\ phase \in {"building", "refused", "resolving"} =>
       at = 1 /\ status = NoStatus /\ failures = {}
  /\ phase = "running" => Pending = {}
  /\ phase # "done" => outcome = "pending"
  /\ runtime = "adk" => adk /\ ~fail_fast

(* The order lists registered agents, none twice, dependencies first. *)
OrderInv ==
  /\ \A i \in DOMAIN order :
       /\ order[i] \in Registered
       /\ \A d \in deps[order[i]] : \E j \in 1 .. (i - 1) : order[j] = d
  /\ \A i, j \in DOMAIN order : order[i] = order[j] => i = j

(* The agents that have settled are those the loop has passed. *)
LoopInv ==
  /\ at <= Len(order) + 1
  /\ \A i \in DOMAIN order : status[order[i]] # "none" <=> i < at
  /\ \A n \in Names : status[n] # "none" => n \in Resolved
  /\ failures = {n \in Names : status[n] = "failed"}

(* A verdict is given only when every agent has settled. *)
DoneInv ==
  outcome \notin {"pending", "raised"} =>
    /\ outcome = PipelineStatus
    /\ \A n \in Registered : status[n] # "none"

IInv == TypeOK /\ PhaseInv /\ OrderInv /\ LoopInv /\ SettledSoundly /\ DoneInv

LEMMA InitIInv == Init => IInv
  <1> SUFFICES ASSUME Init PROVE IInv
    OBVIOUS
  <1>1. TypeOK
    BY PlansAssumption DEF Init, TypeOK, NoStatus, Statuses
  <1>2. PhaseInv
    BY DEF Init, PhaseInv
  <1>3. OrderInv
    BY DEF Init, OrderInv
  <1>4. LoopInv
    BY DEF Init, LoopInv, NoStatus
  <1>5. SettledSoundly
    BY DEF Init, SettledSoundly, NoStatus
  <1>6. DoneInv
    BY DEF Init, DoneInv
  <1> QED
    BY <1>1, <1>2, <1>3, <1>4, <1>5, <1>6 DEF IInv

LEMMA RegisterIInv == IInv /\ Register => IInv'
  <1> SUFFICES ASSUME IInv, Register PROVE IInv'
    OBVIOUS
  <1> USE DEF IInv
  <1> DEFINE r == plan[Len(regs) + 1]
  <1>1. /\ phase = "building" /\ regs' = Append(regs, r.name)
        /\ deps' = [deps EXCEPT ![r.name] = r.depends_on]
        /\ r \in Registration /\ r.name \in Names /\ r.depends_on \in SUBSET Names
        /\ UNCHANGED <<plan, fail_fast, adk, run>>
    <2>1. r \in Registration
      BY DEF Register, TypeOK
    <2> QED
      BY <2>1 DEF Register, Registration
  <1>2. order = <<>> /\ status = NoStatus /\ outcome = "pending" /\ at = 1
    BY <1>1 DEF PhaseInv
  <1>3. TypeOK'
    BY <1>1, AppendElements DEF TypeOK, run
  <1>4. PhaseInv'
    BY <1>1 DEF PhaseInv, run
  <1>5. OrderInv'
    BY <1>1, <1>2 DEF OrderInv, run
  <1>6. LoopInv'
    BY <1>1 DEF LoopInv, run, Resolved
  <1>7. SettledSoundly'
    BY <1>1, <1>2 DEF SettledSoundly, run, NoStatus
  <1>8. DoneInv'
    BY <1>1, <1>2 DEF DoneInv, run
  <1> QED
    BY <1>3, <1>4, <1>5, <1>6, <1>7, <1>8

(* Resolving an agent keeps the order topological and free of repetition. *)
LEMMA ResolveIInv == IInv /\ ResolveNext => IInv'
  <1> SUFFICES ASSUME IInv, ResolveNext PROVE IInv'
    OBVIOUS
  <1> USE DEF IInv
  <1>1. PICK a \in Names : FirstReady(a) /\ order' = Append(order, a)
    BY DEF ResolveNext
  <1>2. /\ phase = "resolving" /\ at = 1 /\ status = NoStatus /\ failures = {}
        /\ outcome = "pending"
        /\ UNCHANGED <<registry, phase, runtime, at, status, failures, calls, outcome>>
    BY DEF ResolveNext, PhaseInv
  <1>3. a \in Registered /\ a \notin Resolved /\ deps[a] \subseteq Resolved
    BY <1>1 DEF FirstReady, Ready, Pending
  <1>4. /\ order' \in Seq(Names) /\ Len(order') = Len(order) + 1
        /\ DOMAIN order' = 1 .. (Len(order) + 1) /\ DOMAIN order = 1 .. Len(order)
        /\ \A i \in DOMAIN order : order'[i] = order[i]
        /\ order'[Len(order) + 1] = a
        /\ Elements(order') = Elements(order) \union {a}
    BY <1>1, AppendElements DEF TypeOK
  <1>5. TypeOK'
    BY <1>2, <1>4 DEF TypeOK, registry
  <1>6. PhaseInv'
    BY <1>2 DEF PhaseInv, registry, NoStatus
  <1>7. OrderInv'
    <2>1. ASSUME NEW i \in DOMAIN order'
          PROVE  /\ order'[i] \in Registered'
                 /\ \A d \in deps'[order'[i]] : \E j \in 1 .. (i - 1) : order'[j] = d
      <3> USE DEF Registered, registry
      <3>1. CASE i \in DOMAIN order
        <4>1. order'[i] = order[i] /\ order[i] \in Registered
          BY <1>4, <3>1 DEF OrderInv
        <4>2. ASSUME NEW d \in deps[order[i]]
              PROVE  \E j \in 1 .. (i - 1) : order'[j] = d
          <5>1. PICK j \in 1 .. (i - 1) : order[j] = d
            BY <3>1, <4>2 DEF OrderInv
          <5>2. j \in DOMAIN order
            BY <1>4, <3>1, <5>1 DEF TypeOK
          <5> QED
            BY <1>4, <5>1, <5>2
        <4> QED
          BY <1>2, <4>1, <4>2
      <3>2. CASE i = Len(order) + 1
        <4>1. ASSUME NEW d \in deps[a]
              PROVE  \E j \in 1 .. (i - 1) : order'[j] = d
          <5>1. PICK j \in DOMAIN order : order[j] = d
            BY <1>3, <4>1 DEF Resolved
          <5>2. j \in 1 .. (i - 1)
            BY <1>4, <3>2, <5>1 DEF TypeOK
          <5> QED
            BY <1>4, <5>1, <5>2
        <4> QED
          BY <1>2, <1>3, <1>4, <3>2, <4>1
      <3> QED
        BY <1>4, <2>1, <3>1, <3>2 DEF TypeOK
    <2>2. ASSUME NEW i \in DOMAIN order', NEW j \in DOMAIN order',
                 order'[i] = order'[j]
          PROVE  i = j
      <3>1. CASE i \in DOMAIN order /\ j \in DOMAIN order
        BY <1>4, <2>2, <3>1 DEF OrderInv
      <3>2. ASSUME NEW k \in DOMAIN order PROVE order'[k] # a
        BY <1>3, <1>4, <3>2 DEF Resolved
      <3>3. i \in DOMAIN order \/ i = Len(order) + 1
        BY <1>4, <2>2 DEF TypeOK
      <3>4. j \in DOMAIN order \/ j = Len(order) + 1
        BY <1>4, <2>2 DEF TypeOK
      <3> QED
        BY <1>4, <2>2, <3>1, <3>2, <3>3, <3>4
    <2> QED
      BY <2>1, <2>2 DEF OrderInv
  <1>8. LoopInv'
    BY <1>2, <1>4 DEF LoopInv, NoStatus, TypeOK
  <1>9. SettledSoundly'
    BY <1>2 DEF SettledSoundly, registry
  <1>10. DoneInv'
    BY <1>2 DEF DoneInv
  <1> QED
    BY <1>5, <1>6, <1>7, <1>8, <1>9, <1>10

(* Starting over forgets the abandoned run. *)
LEMMA FallBackIInv ==
  IInv /\ phase \in {"resolving", "running"} /\ FallBack => IInv'
  <1> SUFFICES ASSUME IInv, phase \in {"resolving", "running"}, FallBack
               PROVE  IInv'
    OBVIOUS
  <1> USE DEF IInv
  <1>1. /\ phase' = "resolving" /\ order' = <<>> /\ at' = 1 /\ status' = NoStatus
        /\ failures' = {} /\ runtime' = "local" /\ outcome' = "pending"
        /\ UNCHANGED <<plan, regs, deps, fail_fast, adk, calls>>
    BY DEF FallBack, PhaseInv, registry
  <1>2. TypeOK'
    BY <1>1 DEF TypeOK, NoStatus, Statuses
  <1>3. PhaseInv'
    BY <1>1 DEF PhaseInv, NoStatus
  <1>4. OrderInv' /\ LoopInv'
    BY <1>1 DEF OrderInv, LoopInv, NoStatus
  <1>5. SettledSoundly' /\ DoneInv'
    BY <1>1 DEF SettledSoundly, DoneInv, NoStatus
  <1> QED
    BY <1>2, <1>3, <1>4, <1>5

(* What every action of the agent loop starts from: the loop is at an      *)
(* agent that has not settled, and all the agent's dependencies have.      *)
LEMMA AtAgentFacts ==
  ASSUME IInv, NEW a \in Names, AtAgent(a)
  PROVE  /\ status[a] = "none" /\ a \in Registered
         /\ \A d \in deps[a] : d \in Registered /\ status[d] # "none" /\ d # a
         /\ at \in 1 .. Len(order) /\ DOMAIN order = 1 .. Len(order)
         /\ order[at] = a /\ phase = "running" /\ outcome = "pending"
  <1> USE DEF IInv
  <1>1. /\ at \in 1 .. Len(order) /\ DOMAIN order = 1 .. Len(order)
        /\ order[at] = a /\ phase = "running" /\ outcome = "pending"
    BY DEF AtAgent, TypeOK, PhaseInv
  <1>2. status[a] = "none" /\ a \in Registered
    BY <1>1 DEF LoopInv, OrderInv
  <1>3. ASSUME NEW d \in deps[a]
        PROVE  d \in Registered /\ status[d] # "none" /\ d # a
    <2>1. PICK j \in 1 .. (at - 1) : order[j] = d
      BY <1>1, <1>3 DEF OrderInv
    <2>2. j \in DOMAIN order /\ j < at
      BY <1>1, <2>1
    <2>3. status[d] # "none" /\ d \in Registered
      BY <2>1, <2>2 DEF LoopInv, OrderInv
    <2> QED
      BY <2>3, <1>2
  <1> QED
    BY <1>1, <1>2, <1>3

(* Settling the agent the loop is at preserves what is known of the others. *)
LEMMA SettleIInv ==
  ASSUME IInv, NEW a \in Names, AtAgent(a), NEW s \in Statuses \ {"none"},
         SettleAs(a, s), UNCHANGED <<registry, runtime, order>>,
         s = "skipped" <=> BlockedBy(a) # {},
         failures' = (IF s = "failed" THEN failures \union {a} ELSE failures),
         calls' \in [Names -> Nat],
         \/ UNCHANGED <<phase, outcome>>
         \/ phase' = "done" /\ outcome' = "raised"
  PROVE  IInv'
  <1> USE DEF IInv
  <1>1. /\ status[a] = "none" /\ a \in Registered
        /\ \A d \in deps[a] : d \in Registered /\ status[d] # "none" /\ d # a
        /\ at \in 1 .. Len(order) /\ DOMAIN order = 1 .. Len(order)
        /\ order[at] = a /\ phase = "running" /\ outcome = "pending"
    BY AtAgentFacts
  <1>2. /\ at' = at + 1 /\ status' = [status EXCEPT ![a] = s]
        /\ status'[a] = s /\ \A n \in Names \ {a} : status'[n] = status[n]
        /\ status' \in [Names -> Statuses]
    BY DEF SettleAs, TypeOK
  <1>3. TypeOK'
    BY <1>1, <1>2 DEF TypeOK, registry
  <1>4. PhaseInv'
    <2>1. phase' \in {"running", "done"} /\ Pending' = Pending
      BY <1>1 DEF registry, Pending, Registered, Resolved
    <2>2. /\ runtime' = runtime /\ adk' = adk /\ fail_fast' = fail_fast
          /\ phase' # "done" => outcome' = "pending"
      BY <1>1 DEF registry
    <2> QED
      BY <1>1, <2>1, <2>2 DEF PhaseInv
  <1>5. OrderInv'
    BY DEF OrderInv, registry, Registered
  <1>6. LoopInv'
    <2>1. at' <= Len(order') + 1
      BY <1>1, <1>2
    <2>2. ASSUME NEW i \in DOMAIN order'
          PROVE  status'[order'[i]] # "none" <=> i < at'
      <3>1. i \in 1 .. Len(order) /\ order'[i] = order[i] /\ order[i] \in Names
        BY <1>1, <2>2 DEF TypeOK
      <3>2. CASE i = at
        BY <1>1, <1>2, <3>1, <3>2
      <3>3. CASE i # at
        <4>1. order[i] # a
          BY <1>1, <3>1, <3>3 DEF OrderInv
        <4> QED
          BY <1>1, <1>2, <3>1, <3>3, <4>1 DEF LoopInv
      <3> QED
        BY <3>2, <3>3
    <2>3. ASSUME NEW n \in Names, status'[n] # "none" PROVE n \in Resolved'
      BY <1>1, <1>2, <2>3 DEF LoopInv, Resolved
    <2>4. failures' = {n \in Names : status'[n] = "failed"}
      BY <1>1, <1>2 DEF LoopInv
    <2> QED
      BY <2>1, <2>2, <2>3, <2>4 DEF LoopInv
  <1>7. SettledSoundly'
    <2> SUFFICES ASSUME NEW n \in Names
                 PROVE  /\ status'[n] \in {"completed", "failed"} =>
                             \A d \in deps'[n] : status'[d] = "completed"
                        /\ status'[n] = "skipped" =>
                             \E d \in deps'[n] : status'[d] \in {"failed", "skipped"}
      BY DEF SettledSoundly
    <2>1. deps' = deps /\ deps[n] \subseteq Names
      BY DEF registry, TypeOK
    <2>2. CASE n = a
      BY <1>1, <1>2, <2>1, <2>2 DEF BlockedBy, TypeOK, Statuses
    <2>3. CASE n # a
      BY <1>1, <1>2, <2>1, <2>3 DEF SettledSoundly
    <2> QED
      BY <2>2, <2>3
  <1>8. DoneInv'
    BY <1>1 DEF DoneInv
  <1> QED
    BY <1>3, <1>4, <1>5, <1>6, <1>7, <1>8

(* Steps that leave the registry, the order and the loop alone. *)
LEMMA OutsideLoopIInv ==
  ASSUME IInv, UNCHANGED <<plan, regs, deps, fail_fast, adk,
                           order, at, status, failures, calls>>,
         TypeOK', PhaseInv', DoneInv'
  PROVE  IInv'
  <1> USE DEF IInv
  <1>1. OrderInv'
    BY DEF OrderInv, Registered
  <1>2. LoopInv'
    BY DEF LoopInv, Resolved
  <1>3. SettledSoundly'
    BY DEF SettledSoundly
  <1> QED
    BY <1>1, <1>2, <1>3

LEMMA AgentIInv == ASSUME IInv, NEW a \in Names, Agent(a) PROVE IInv'
  <1> USE DEF Statuses, registry
  <1>1. TypeOK
    BY DEF IInv
  <1>2. CASE Skip(a)
    <2>1. /\ AtAgent(a) /\ SettleAs(a, "skipped") /\ BlockedBy(a) # {}
          /\ UNCHANGED <<registry, runtime, order, phase, outcome>>
          /\ failures' = failures /\ calls' \in [Names -> Nat]
      BY <1>1, <1>2 DEF Skip, TypeOK
    <2> QED
      BY <2>1, SettleIInv
  <1>3. CASE Complete(a)
    <2>1. /\ AtAgent(a) /\ SettleAs(a, "completed") /\ BlockedBy(a) = {}
          /\ UNCHANGED <<registry, runtime, order, phase, outcome>>
          /\ failures' = failures /\ calls' \in [Names -> Nat]
      BY <1>1, <1>3 DEF Complete, CallHandler, TypeOK
    <2> QED
      BY <2>1, SettleIInv
  <1>4. CASE Fail(a)
    <2>1. /\ AtAgent(a) /\ SettleAs(a, "failed") /\ BlockedBy(a) = {}
          /\ UNCHANGED <<registry, runtime, order>>
          /\ failures' = failures \union {a} /\ calls' \in [Names -> Nat]
          /\ \/ UNCHANGED <<phase, outcome>>
             \/ phase' = "done" /\ outcome' = "raised"
      BY <1>1, <1>4 DEF Fail, CallHandler, TypeOK
    <2> QED
      BY <2>1, SettleIInv
  <1> QED
    BY <1>2, <1>3, <1>4 DEF Agent

LEMMA NextIInv == IInv /\ [Next]_vars => IInv'
  <1> SUFFICES ASSUME IInv, [Next]_vars PROVE IInv'
    OBVIOUS
  <1>1. CASE Register
    BY <1>1, RegisterIInv
  <1>2. CASE RefuseRegistration
    <2>1. TypeOK'
      BY <1>2 DEF RefuseRegistration, registry, IInv, TypeOK
    <2>2. PhaseInv'
      BY <1>2 DEF RefuseRegistration, registry, IInv, PhaseInv, Pending, Registered, Resolved
    <2>3. DoneInv'
      BY <1>2 DEF RefuseRegistration, IInv, PhaseInv, DoneInv
    <2> QED
      BY <1>2, <2>1, <2>2, <2>3, OutsideLoopIInv DEF RefuseRegistration, registry
  <1>3. CASE Start
    <2>1. TypeOK'
      BY <1>3 DEF Start, registry, IInv, TypeOK
    <2>2. PhaseInv'
      BY <1>3 DEF Start, registry, IInv, PhaseInv, Pending, Registered, Resolved
    <2>3. DoneInv'
      BY <1>3 DEF Start, IInv, PhaseInv, DoneInv
    <2> QED
      BY <1>3, <2>1, <2>2, <2>3, OutsideLoopIInv DEF Start, registry
  <1>4. CASE ResolveNext
    BY <1>4, ResolveIInv
  <1>5. CASE ResolveDone
    <2>1. TypeOK'
      BY <1>5 DEF ResolveDone, registry, IInv, TypeOK
    <2>2. PhaseInv'
      BY <1>5 DEF ResolveDone, registry, IInv, PhaseInv, Pending, Registered, Resolved
    <2>3. DoneInv'
      BY <1>5 DEF ResolveDone, IInv, PhaseInv, DoneInv
    <2> QED
      BY <1>5, <2>1, <2>2, <2>3, OutsideLoopIInv DEF ResolveDone, registry
  <1>6. CASE CyclicOrMissing
    <2>1. CASE runtime = "adk"
      BY <1>6, <2>1, FallBackIInv DEF CyclicOrMissing
    <2>2. CASE runtime # "adk"
      <3>1. Raise
        BY <1>6, <2>2 DEF CyclicOrMissing
      <3>2. TypeOK' /\ PhaseInv' /\ DoneInv'
        BY <3>1 DEF Raise, registry, IInv, TypeOK, PhaseInv, DoneInv
      <3> QED
        BY <3>1, <3>2, OutsideLoopIInv DEF Raise, registry
    <2> QED
      BY <2>1, <2>2
  <1>7. ASSUME NEW a \in Names, Agent(a) PROVE IInv'
    BY <1>7, AgentIInv
  <1>8. CASE Finish
    <2> USE DEF IInv
    <2>1. /\ phase = "running" /\ at > Len(order) /\ outcome' = PipelineStatus
          /\ phase' = "done"
          /\ UNCHANGED <<registry, runtime, order, at, status, failures, calls>>
      BY <1>8 DEF Finish
    <2>2. ASSUME NEW n \in Registered PROVE status[n] # "none"
      <3>1. n \in Resolved
        BY <2>1, <2>2 DEF PhaseInv, Pending
      <3>2. PICK i \in DOMAIN order : order[i] = n
        BY <3>1 DEF Resolved
      <3> QED
        BY <2>1, <3>2 DEF LoopInv, TypeOK
    <2>3. outcome' \in {"completed", "partial", "failed"}
      BY <2>1 DEF PipelineStatus
    <2>4. TypeOK' /\ PhaseInv'
      BY <2>1, <2>3 DEF registry, TypeOK, PhaseInv
    <2>5. DoneInv'
      BY <2>1, <2>2 DEF DoneInv, PipelineStatus, Registered, registry
    <2> QED
      BY <2>1, <2>4, <2>5, OutsideLoopIInv DEF registry
  <1>9. CASE AdkError
    BY <1>9, FallBackIInv DEF AdkError
  <1>10. CASE UNCHANGED vars
    <2>1. TypeOK'
      BY <1>10 DEF vars, IInv, TypeOK
    <2>2. PhaseInv'
      BY <1>10 DEF vars, IInv, PhaseInv, Pending, Registered, Resolved
    <2>3. DoneInv'
      BY <1>10 DEF vars, IInv, DoneInv, PipelineStatus, Registered
    <2> QED
      BY <1>10, <2>1, <2>2, <2>3, OutsideLoopIInv DEF vars
  <1> QED
    BY <1>1, <1>2, <1>3, <1>4, <1>5, <1>6, <1>7, <1>8, <1>9, <1>10 DEF Next, Step

(* The inductive invariant holds in every reachable state. *)
THEOREM Invariance == Spec => []IInv
  BY InitIInv, NextIInv, PTL DEF Spec

(* The registry, the resolved order and the PipelineState stay of their types.*)
THEOREM TypeCorrect == Spec => []TypeOK
  <1>1. IInv => TypeOK
    BY DEF IInv
  <1> QED
    BY <1>1, Invariance, PTL

(* In every run, handlers are called only where every dependency has       *)
(* completed and agents are skipped only behind one that has not.          *)
THEOREM SettlesSoundly == Spec => []SettledSoundly
  <1>1. IInv => SettledSoundly
    BY DEF IInv
  <1> QED
    BY Invariance, <1>1, PTL

-----------------------------------------------------------------------------
(* Skips and failures. *)

LEMMA AncestorsOfDependency ==
  ASSUME TypeOK, NEW a \in Names, NEW d \in deps[a]
  PROVE  d \in Ancestors(a) /\ Ancestors(d) \subseteq Ancestors(a)
  BY DEF Ancestors, TypeOK

(* Behind every skipped agent there is a recorded failure of one of its    *)
(* ancestors: a skip never appears, or spreads, by itself.                 *)
THEOREM SkipsTraced == Spec => []SkipsTraceToFailure
  <1>1. Init => SkipsTraceToFailure
    BY DEF Init, SkipsTraceToFailure, NoStatus
  <1>2. IInv /\ IInv' /\ SkipsTraceToFailure /\ [Next]_vars => SkipsTraceToFailure'
    <2> SUFFICES ASSUME IInv, IInv', SkipsTraceToFailure, [Next]_vars
                 PROVE  SkipsTraceToFailure'
      OBVIOUS
    <2>1. CASE status' = NoStatus
      BY <2>1 DEF SkipsTraceToFailure, NoStatus
    <2>2. CASE UNCHANGED <<deps, status, failures>>
      BY <2>2 DEF SkipsTraceToFailure, Ancestors
    <2>3. ASSUME NEW a \in Names, Agent(a) PROVE SkipsTraceToFailure'
      <3>1. AtAgent(a) /\ UNCHANGED deps /\ failures \subseteq failures'
        BY <2>3 DEF Agent, Skip, Complete, Fail, CallHandler, registry
      <3>2. /\ status[a] = "none" /\ TypeOK
            /\ failures = {n \in Names : status[n] = "failed"}
            /\ failures' = {n \in Names : status'[n] = "failed"}
        BY <3>1, AtAgentFacts DEF IInv, LoopInv
      <3>3. \A n \in Names \ {a} : status'[n] = status[n]
        BY <2>3, <3>2 DEF Agent, Skip, Complete, Fail, CallHandler, SettleAs, TypeOK
      <3> SUFFICES ASSUME NEW n \in Names, status'[n] = "skipped"
                   PROVE  \E f \in failures' : f \in Ancestors(n)' /\ status'[f] = "failed"
        BY DEF SkipsTraceToFailure
      <3>4. Ancestors(n)' = Ancestors(n)
        BY <3>1 DEF Ancestors
      <3>5. CASE n # a
        BY <3>1, <3>2, <3>3, <3>4, <3>5 DEF SkipsTraceToFailure
      <3>6. CASE n = a
        <4>1. Skip(a)
          BY <2>3, <3>2, <3>6 DEF Agent, Complete, Fail, SettleAs, TypeOK
        <4>2. PICK d \in deps[a] : status[d] \in {"failed", "skipped"}
          BY <4>1 DEF Skip, BlockedBy
        <4>3. d \in Names /\ d \in Ancestors(a) /\ Ancestors(d) \subseteq Ancestors(a)
          BY <3>2, AncestorsOfDependency DEF TypeOK
        <4>4. PICK f \in failures : f \in Ancestors(a) /\ status[f] = "failed"
          BY <3>2, <4>2, <4>3 DEF SkipsTraceToFailure
        <4> QED
          BY <3>1, <3>2, <3>4, <3>6, <4>4
      <3> QED
        BY <3>5, <3>6
    <2> QED
      BY <2>1, <2>2, <2>3 DEF Next, Step, Register, RefuseRegistration, Start,
         ResolveNext, ResolveDone, CyclicOrMissing, FallBack, Raise, Finish,
         AdkError, registry, run, vars, IInv, PhaseInv
  <1> QED
    BY Invariance, <1>1, <1>2, PTL DEF Spec

-----------------------------------------------------------------------------
(* Registries that cannot be ordered. *)

(* No member of a stuck set is ever resolved. *)
StuckUnresolved ==
  \A S \in SUBSET Registered : Stuck(S) => S \intersect Resolved = {}

(* A registry with a cycle or a missing dependency never runs a handler.   *)
THEOREM StuckRegistryNeverRuns == Spec => []StuckNeverRuns
  <1> DEFINE J == StuckUnresolved /\ StuckNeverRuns
  <1>1. Init => J
    BY DEF Init, StuckUnresolved, StuckNeverRuns, Registered, NoStatus
  <1>2. IInv /\ IInv' /\ J /\ [Next]_vars => J'
    <2> SUFFICES ASSUME IInv, IInv', J, [Next]_vars PROVE J'
      OBVIOUS
    <2>1. CASE Register
      <3>1. order' = <<>> /\ status' = NoStatus /\ \A n \in Names : calls'[n] = 0
        BY <2>1 DEF Register, IInv, PhaseInv, run
      <3> QED
        BY <3>1 DEF StuckUnresolved, StuckNeverRuns, Resolved, NoStatus
    <2>2. CASE ResolveNext
      <3>1. PICK a \in Names : FirstReady(a) /\ order' = Append(order, a)
        BY <2>2 DEF ResolveNext
      <3>2. a \in Registered /\ deps[a] \subseteq Resolved /\ Resolved \subseteq Registered
        BY <3>1 DEF FirstReady, Ready, Pending, IInv, OrderInv, Resolved
      <3>3. UNCHANGED <<regs, deps, status, calls>>
        BY <2>2 DEF ResolveNext, registry
      <3>4. Resolved' = Resolved \union {a}
        <4>1. order \in Seq(Names)
          BY DEF IInv, TypeOK
        <4>2. Elements(order') = Elements(order) \union {a}
          BY <3>1, <4>1, AppendElements
        <4> QED
          BY <4>2 DEF Resolved, Elements
      <3>5. Registered' = Registered /\ \A S : Stuck(S)' = Stuck(S)
        BY <3>3 DEF Registered, Stuck
      <3>6. ASSUME NEW S \in SUBSET Registered, Stuck(S)
            PROVE  S \intersect (Resolved \union {a}) = {}
        <4>1. S \intersect Resolved = {}
          BY <3>6 DEF StuckUnresolved
        <4>2. a \notin S
          BY <3>2, <3>6, <4>1 DEF Stuck
        <4> QED
          BY <4>1, <4>2
      <3>7. StuckUnresolved'
        BY <3>4, <3>5, <3>6 DEF StuckUnresolved
      <3>8. StuckNeverRuns'
        BY <3>3, <3>5 DEF StuckNeverRuns
      <3> QED
        BY <3>7, <3>8
    <2>3. ASSUME NEW a \in Names, Agent(a) PROVE J'
      <3>1. AtAgent(a) /\ UNCHANGED <<regs, deps, order>>
        BY <2>3 DEF Agent, Skip, Complete, Fail, CallHandler, registry
      <3>2. Registered \subseteq Resolved
        BY <3>1 DEF AtAgent, IInv, PhaseInv, Pending
      <3>3. \A S \in SUBSET Registered : Stuck(S) => S = {}
        BY <3>2 DEF StuckUnresolved
      <3>4. Registered' = Registered /\ \A S : Stuck(S)' = Stuck(S)
        BY <3>1 DEF Registered, Stuck
      <3>5. StuckUnresolved'
        BY <3>3, <3>4 DEF StuckUnresolved
      <3>6. StuckNeverRuns'
        BY <3>3, <3>4 DEF StuckNeverRuns
      <3> QED
        BY <3>5, <3>6
    <2>4. CASE /\ UNCHANGED <<regs, deps, calls>>
               /\ status' = status \/ status' = NoStatus
               /\ order' = order \/ order' = <<>>
      <3>1. Resolved' \subseteq Resolved
        BY <2>4 DEF Resolved
      <3>2. Registered' = Registered /\ \A S : Stuck(S)' = Stuck(S)
        BY <2>4 DEF Registered, Stuck
      <3> QED
        BY <2>4, <3>1, <3>2 DEF StuckUnresolved, StuckNeverRuns, NoStatus
    <2> QED
      BY <2>1, <2>2, <2>3, <2>4 DEF Next, Step, RefuseRegistration, Start,
         ResolveDone, CyclicOrMissing, FallBack, Raise, Finish, AdkError, registry, vars
  <1>3. J => StuckNeverRuns
    OBVIOUS
  <1> QED
    BY Invariance, <1>1, <1>2, <1>3, PTL DEF Spec

-----------------------------------------------------------------------------
(* The verdict. *)

(* pipeline_status is "completed" only if every agent completed, "failed"  *)
(* only if none did, "partial" only if some did and some did not.          *)
THEOREM VerdictIsTruthful == Spec => []VerdictTruthful
  <1>1. IInv /\ SkipsTraceToFailure => VerdictTruthful
    <2> SUFFICES ASSUME IInv, SkipsTraceToFailure PROVE VerdictTruthful
      OBVIOUS
    <2>1. /\ status \in [Names -> Statuses] /\ Registered \subseteq Names
          /\ failures = {n \in Names : status[n] = "failed"}
          /\ \A n \in Names : status[n] # "none" => n \in Registered
      BY DEF IInv, TypeOK, LoopInv, Registered, Resolved, OrderInv
    <2>2. CASE outcome \in {"completed", "partial", "failed"}
      <3>1. outcome = PipelineStatus /\ \A n \in Registered : status[n] # "none"
        BY <2>2 DEF IInv, DoneInv
      <3>2. CASE failures = {}
        <4>1. \A n \in Registered : status[n] = "completed"
          BY <2>1, <3>1, <3>2 DEF SkipsTraceToFailure, Statuses
        <4> QED
          BY <3>1, <3>2, <4>1 DEF VerdictTruthful, PipelineStatus
      <3>3. CASE failures # {}
        <4>1. PICK f \in Registered : status[f] = "failed"
          BY <2>1, <3>3
        <4> QED
          BY <2>1, <3>1, <3>3, <4>1 DEF VerdictTruthful, PipelineStatus
      <3> QED
        BY <3>2, <3>3
    <2> QED
      BY <2>2 DEF VerdictTruthful
  <1> QED
    BY Invariance, SkipsTraced, <1>1, PTL

-----------------------------------------------------------------------------
(* Side effects. *)

(* Each runtime calls a handler at most once, and only a fallback from ADK *)
(* brings a second call.                                                   *)
THEOREM CallsAreBounded == Spec => []CallsBounded
  <1>1. Init => CallsBounded
    BY DEF Init, CallsBounded, NoStatus
  <1>2. IInv /\ CallsBounded /\ [Next]_vars => CallsBounded'
    <2> SUFFICES ASSUME IInv, CallsBounded, [Next]_vars PROVE CallsBounded'
      OBVIOUS
    <2> USE DEF CallsBounded
    <2>1. calls \in [Names -> Nat] /\ status \in [Names -> Statuses]
      BY DEF IInv, TypeOK
    <2>2. CASE phase = "building" /\ UNCHANGED <<status, calls>>
      <3>1. \A n \in Names : calls'[n] = 0
        BY <2>2 DEF IInv, PhaseInv
      <3> QED
        BY <3>1
    <2>3. CASE UNCHANGED <<fail_fast, adk, runtime, status, calls>>
      BY <2>1, <2>3
    <2>4. CASE FallBack /\ runtime = "adk"
      BY <2>1, <2>4 DEF FallBack, registry, NoStatus, IInv, PhaseInv
    <2>5. CASE FallBack /\ phase = "resolving"
      BY <2>1, <2>5 DEF FallBack, registry, NoStatus, IInv, PhaseInv
    <2>6. ASSUME NEW a \in Names, Agent(a) PROVE CallsBounded'
      <3>1. AtAgent(a) /\ UNCHANGED <<fail_fast, adk, runtime>>
        BY <2>6 DEF Agent, Skip, Complete, Fail, CallHandler, registry
      <3>2. status[a] = "none"
        BY <3>1, AtAgentFacts
      <3>3. \/ calls' = calls /\ status' = [status EXCEPT ![a] = "skipped"]
            \/ /\ calls' = [calls EXCEPT ![a] = @ + 1]
               /\ \E s \in {"completed", "failed"} : status' = [status EXCEPT ![a] = s]
        BY <2>6 DEF Agent, Skip, Complete, Fail, CallHandler, SettleAs
      <3> QED
        BY <2>1, <3>1, <3>2, <3>3
    <2> QED
      BY <2>2, <2>3, <2>4, <2>5, <2>6 DEF Next, Step, Register, RefuseRegistration,
         Start, ResolveNext, ResolveDone, CyclicOrMissing, Raise, Finish, AdkError,
         registry, run, vars
  <1> QED
    BY Invariance, <1>1, <1>2, PTL DEF Spec

(* After a failure in a fail-fast run no handler is called any more. *)
THEOREM FailFastIsFinal == Spec => FailFastStops
  <1> DEFINE J == fail_fast /\ failures # {} => phase = "done"
  <1>1. Init => J
    BY DEF Init
  <1>2. IInv /\ J /\ [Next]_vars => J' /\ (fail_fast /\ failures # {} => calls' = calls)
    BY DEF Next, Step, Register, RefuseRegistration, Start, ResolveNext, ResolveDone,
       CyclicOrMissing, FallBack, Raise, Agent, Skip, Complete, Fail, CallHandler,
       AtAgent, Finish, AdkError, registry, run, vars, IInv, PhaseInv
  <1>3. J /\ [Next]_vars => [fail_fast /\ failures # {} => calls' = calls]_vars
    BY DEF Next, Step, Register, RefuseRegistration, Start, ResolveNext, ResolveDone,
       CyclicOrMissing, FallBack, Raise, Agent, Skip, Complete, Fail, CallHandler,
       AtAgent, Finish, AdkError, registry, run, vars
  <1> QED
    BY Invariance, <1>1, <1>2, <1>3, PTL DEF Spec, FailFastStops

-----------------------------------------------------------------------------
(* Refinement: the orchestrator is a run of the dependency graph. *)

LEMMA InitRefines == Init => Dag!Init
  BY DEF Init, Dag!Init, Registered, NoStatus

LEMMA NextRefines == IInv /\ IInv' /\ [Next]_vars => [Dag!Next]_(Dag!vars)
  <1> SUFFICES ASSUME IInv, IInv', [Next]_vars PROVE Dag!Next \/ UNCHANGED Dag!vars
    OBVIOUS
  <1>0. TypeOK /\ TypeOK'
    BY DEF IInv
  <1>1. CASE Register
    <2>1. phase = "building" /\ UNCHANGED run
      BY <1>1 DEF Register
    <2>2. /\ outcome = "pending" /\ runtime = "none" /\ status = NoStatus
          /\ UNCHANGED <<status, runtime, outcome>>
      BY <2>1 DEF run, IInv, PhaseInv
    <2>3. Registered' \in SUBSET Names /\ deps' \in [Names -> SUBSET Names]
      BY <1>0 DEF TypeOK, Registered
    <2>4. Dag!Declare
      BY <2>2, <2>3 DEF Dag!Declare, Dag!Untouched, NoStatus
    <2> QED
      BY <2>4 DEF Dag!Next
  <1>2. CASE Start
    <2>1. /\ status = NoStatus /\ outcome = "pending" /\ runtime = "none"
          /\ UNCHANGED <<regs, deps, status, outcome>>
          /\ runtime' \in {"adk", "local"}
      BY <1>2 DEF Start, IInv, PhaseInv, registry
    <2>2. Registered' = Registered
      BY <2>1 DEF Registered
    <2>3. CASE runtime' = "adk"
      BY <2>1, <2>2, <2>3 DEF Dag!vars
    <2>4. CASE runtime' = "local"
      BY <2>1, <2>2, <2>4 DEF Dag!Next, Dag!Restart, NoStatus
    <2> QED
      BY <2>1, <2>3, <2>4
  <1>3. CASE FallBack /\ runtime = "adk" /\ phase \in {"resolving", "running"}
    <2>1. /\ outcome = "pending" /\ runtime' = "local" /\ status' = NoStatus
          /\ UNCHANGED <<regs, deps, outcome>>
      BY <1>3 DEF FallBack, IInv, PhaseInv, registry
    <2>2. Registered' = Registered
      BY <2>1 DEF Registered
    <2>3. Dag!Restart
      BY <1>3, <2>1, <2>2 DEF Dag!Restart, NoStatus
    <2> QED
      BY <2>3 DEF Dag!Next
  <1>4. CASE CyclicOrMissing /\ runtime # "adk"
    <2>1. /\ outcome = "pending" /\ outcome' = "raised" /\ status = NoStatus
          /\ Pending # {} /\ Ready = {}
          /\ UNCHANGED <<regs, deps, status, runtime>>
      BY <1>4 DEF CyclicOrMissing, Raise, registry, IInv, PhaseInv
    <2>2. Registered' = Registered /\ Registered \in SUBSET Names
      BY <1>0, <2>1 DEF Registered, TypeOK
    <2>3. ASSUME NEW a \in Pending
          PROVE  \E d \in deps[a] : d \in Pending \/ d \notin Registered
      BY <2>1, <2>3 DEF Ready, Pending
    <2>4. Pending \in SUBSET Registered /\ Dag!Stuck(Pending)
      BY <2>3 DEF Pending, Dag!Stuck
    <2>5. Dag!Unresolvable /\ Dag!Untouched
      BY <2>1, <2>4 DEF Dag!Unresolvable, Dag!Untouched, NoStatus
    <2>6. Dag!Refuse
      BY <2>1, <2>2, <2>5 DEF Dag!Refuse
    <2> QED
      BY <2>6 DEF Dag!Next
  <1>5. ASSUME NEW a \in Names, Agent(a) PROVE Dag!Next
    <2>1. AtAgent(a) /\ UNCHANGED <<regs, deps, runtime>>
      BY <1>5 DEF Agent, Skip, Complete, Fail, CallHandler, registry
    <2>2. /\ status[a] = "none" /\ a \in Registered /\ outcome = "pending"
          /\ \A d \in deps[a] : d \in Registered /\ status[d] # "none"
      BY <2>1, AtAgentFacts
    <2>3. Registered' = Registered
      BY <2>1 DEF Registered
    <2>4. BlockedBy(a) # {} <=> \E d \in deps[a] : status[d] \in Dag!Blocking
      BY DEF BlockedBy, Dag!Blocking
    <2>5. CASE Skip(a)
      <3>1. /\ status' = [status EXCEPT ![a] = "skipped"]
            /\ UNCHANGED outcome /\ BlockedBy(a) # {}
        BY <2>5 DEF Skip, SettleAs
      <3>2. Dag!Settle(a, "skipped") /\ UNCHANGED outcome
        BY <2>1, <2>2, <2>3, <2>4, <3>1 DEF Dag!Settle
      <3> QED
        BY <3>2 DEF Dag!Next, Dag!Work
    <2>6. CASE Complete(a)
      <3>1. /\ status' = [status EXCEPT ![a] = "completed"]
            /\ UNCHANGED outcome /\ BlockedBy(a) = {}
        BY <2>6 DEF Complete, CallHandler, SettleAs
      <3>2. Dag!Settle(a, "completed") /\ UNCHANGED outcome
        BY <2>1, <2>2, <2>3, <2>4, <3>1 DEF Dag!Settle
      <3> QED
        BY <3>2 DEF Dag!Next, Dag!Work
    <2>7. CASE Fail(a)
      <3>1. /\ status' = [status EXCEPT ![a] = "failed"] /\ BlockedBy(a) = {}
            /\ outcome' = "raised" \/ UNCHANGED outcome
        BY <2>7 DEF Fail, CallHandler, SettleAs
      <3>2. Dag!Settle(a, "failed")
        BY <2>1, <2>2, <2>3, <2>4, <3>1 DEF Dag!Settle
      <3> QED
        BY <3>1, <3>2 DEF Dag!Next, Dag!Work
    <2> QED
      BY <1>5, <2>5, <2>6, <2>7 DEF Agent
  <1>6. CASE Finish
    <2>1. /\ phase = "running" /\ outcome = "pending" /\ outcome' = PipelineStatus
          /\ UNCHANGED <<regs, deps, status, runtime>>
      BY <1>6 DEF Finish, registry, IInv, PhaseInv
    <2>2. Registered' = Registered
      BY <2>1 DEF Registered
    <2>3. PipelineStatus \in {"completed", "partial", "failed"}
      BY DEF PipelineStatus
    <2>4. \A n \in Registered : status[n] # "none"
      BY <2>1, <2>2, <2>3 DEF IInv, DoneInv
    <2>5. /\ failures = {n \in Names : status[n] = "failed"} /\ Registered \subseteq Names
          /\ \A n \in Names : status[n] # "none" => n \in Registered
      BY DEF IInv, LoopInv, OrderInv, Resolved, TypeOK, Registered
    <2>6. Dag!Verdict = PipelineStatus
      <3>1. failures # {} <=> \E n \in Registered : status[n] = "failed"
        BY <2>5
      <3>2. (\E n \in Names : status[n] = "completed")
              <=> (\E n \in Registered : status[n] = "completed")
        BY <2>5
      <3> QED
        BY <3>1, <3>2 DEF Dag!Verdict, PipelineStatus
    <2>7. Dag!Publish
      BY <2>1, <2>2, <2>4, <2>6 DEF Dag!Publish
    <2> QED
      BY <2>7 DEF Dag!Next
  <1>7. CASE UNCHANGED <<regs, deps, status, runtime, outcome>>
    BY <1>7 DEF Dag!vars, Registered
  <1> QED
    BY <1>1, <1>2, <1>3, <1>4, <1>5, <1>6, <1>7 DEF Next, Step, RefuseRegistration,
       ResolveNext, ResolveDone, CyclicOrMissing, AdkError, registry, vars

(* Every behaviour of the orchestrator is, under the mapping of Dag, a run *)
(* of the abstract dependency graph.                                       *)
THEOREM PipelineRunsTheDag == Spec => RunsTheDag
  <1> QED
    BY Invariance, InitRefines, NextRefines, PTL DEF Spec, RunsTheDag, Dag!Spec

-----------------------------------------------------------------------------
(* The resolved order is the reference order.  The invariant remembers of  *)
(* every choice that no agent that was ready then had been registered      *)
(* before the one that was chosen.                                         *)

Upto(i) == {order[j] : j \in 1 .. i}

GreedyInv ==
  \A i \in DOMAIN order : \A b \in Registered :
    b \notin Upto(i) /\ deps[b] \subseteq Upto(i - 1) => RegisteredBefore(order[i], b)

LEMMA ResolveGreedy == ASSUME IInv, GreedyInv, ResolveNext PROVE GreedyInv'
  <1>1. PICK a \in Names : FirstReady(a) /\ order' = Append(order, a)
    BY DEF ResolveNext
  <1>2. UNCHANGED <<regs, deps>> /\ order \in Seq(Names)
    BY DEF ResolveNext, registry, IInv, TypeOK
  <1>3. /\ DOMAIN order' = 1 .. (Len(order) + 1) /\ DOMAIN order = 1 .. Len(order)
        /\ \A i \in DOMAIN order : order'[i] = order[i]
        /\ order'[Len(order) + 1] = a /\ Len(order) \in Nat
    BY <1>1, <1>2, AppendElements
  <1>4. \A i \in 0 .. Len(order) : Upto(i)' = Upto(i)
    <2>1. \A i \in 0 .. Len(order) : \A j \in 1 .. i : j \in DOMAIN order
      BY <1>3
    <2> QED
      BY <1>3, <2>1 DEF Upto
  <1>5. Upto(Len(order)) = Resolved
    BY <1>3 DEF Upto, Resolved
  <1> SUFFICES ASSUME NEW i \in DOMAIN order', NEW b \in Registered',
                      (b \notin Upto(i) /\ deps[b] \subseteq Upto(i - 1))'
               PROVE  RegisteredBefore(order[i], b)'
    BY DEF GreedyInv
  <1>6. /\ b \in Registered /\ b \notin Upto(i)' /\ deps[b] \subseteq Upto(i - 1)'
        /\ RegisteredBefore(order'[i], b) => RegisteredBefore(order[i], b)'
    BY <1>2 DEF Registered, RegisteredBefore
  <1>7. b \in Names /\ a \in Names
    BY <1>6 DEF IInv, TypeOK, Registered
  <1>8. CASE i \in DOMAIN order
    <2>1. i \in 0 .. Len(order) /\ i - 1 \in 0 .. Len(order)
      BY <1>3, <1>8
    <2>2. b \notin Upto(i) /\ deps[b] \subseteq Upto(i - 1)
      BY <1>4, <1>6, <2>1
    <2>3. RegisteredBefore(order[i], b)
      BY <1>6, <1>8, <2>2 DEF GreedyInv
    <2>4. order'[i] = order[i]
      BY <1>3, <1>8
    <2> QED
      BY <1>6, <2>3, <2>4
  <1>9. CASE i = Len(order) + 1
    <2>1. i - 1 = Len(order) /\ i - 1 \in 0 .. Len(order) /\ order'[i] = a
      BY <1>3, <1>9
    <2>2. deps[b] \subseteq Resolved
      BY <1>4, <1>5, <1>6, <2>1
    <2>3. b \notin Resolved /\ b # a
      <3>1. Resolved \subseteq Upto(i)' /\ a \in Upto(i)'
        BY <1>3, <1>9 DEF Upto, Resolved
      <3> QED
        BY <1>6, <3>1
    <2>4. b \in Ready \ {a}
      BY <1>6, <1>7, <2>2, <2>3 DEF Ready, Pending
    <2>5. RegisteredBefore(a, b)
      BY <1>1, <2>4 DEF FirstReady
    <2> QED
      BY <1>6, <2>1, <2>5
  <1> QED
    BY <1>3, <1>8, <1>9

LEMMA NextGreedy == IInv /\ GreedyInv /\ [Next]_vars => GreedyInv'
  <1> SUFFICES ASSUME IInv, GreedyInv, [Next]_vars PROVE GreedyInv'
    OBVIOUS
  <1>1. CASE ResolveNext
    BY <1>1, ResolveGreedy
  <1>2. CASE order' = <<>>
    BY <1>2 DEF GreedyInv
  <1>3. CASE UNCHANGED <<regs, deps, order>>
    BY <1>3 DEF GreedyInv, Upto, Registered, RegisteredBefore
  <1>4. order' = <<>> \/ ResolveNext \/ UNCHANGED <<regs, deps, order>>
    <2>1. CASE Register
      BY <2>1 DEF Register, run, IInv, PhaseInv
    <2>2. CASE RefuseRegistration \/ Start \/ ResolveDone \/ CyclicOrMissing \/ Finish \/ AdkError
      BY <2>2 DEF RefuseRegistration, Start, ResolveDone, CyclicOrMissing, FallBack, Raise,
         Finish, AdkError, registry
    <2>3. ASSUME NEW a \in Names, Agent(a) PROVE UNCHANGED <<regs, deps, order>>
      BY <2>3 DEF Agent, Skip, Complete, Fail, CallHandler, registry
    <2>4. CASE UNCHANGED vars
      BY <2>4 DEF vars
    <2> QED
      BY <2>1, <2>2, <2>3, <2>4 DEF Next, Step
  <1> QED
    BY <1>1, <1>2, <1>3, <1>4

LEMMA Greedy == Spec => []GreedyInv
  <1>1. Init => GreedyInv
    BY DEF Init, GreedyInv
  <1>2. IInv /\ GreedyInv /\ [Next]_vars => GreedyInv'
    BY NextGreedy
  <1> QED
    BY <1>1, <1>2, Invariance, PTL DEF Spec

(* A resolved order is one of the orders the reference chooses from.       *)
LEMMA OrderIsAnOrder ==
  ASSUME IInv, phase = "running"
  PROVE  order \in SetToSeqs(Registered) /\ RespectsDeps(order)
  <1>1. /\ order \in Seq(Names) /\ Len(order) \in Nat /\ DOMAIN order = 1 .. Len(order)
        /\ \A i \in DOMAIN order : order[i] \in Registered
        /\ \A i, j \in DOMAIN order : order[i] = order[j] => i = j
    BY DEF IInv, TypeOK, OrderInv
  <1>2. \A a \in Registered : \E i \in DOMAIN order : order[i] = a
    BY DEF IInv, PhaseInv, Pending, Resolved
  <1>3. order \in [1 .. Len(order) -> Registered]
    BY <1>1
  <1>4. order \in Bijection(1 .. Len(order), Registered)
    BY <1>1, <1>2, <1>3 DEF Bijection, Injection, Surjection, IsInjective
  <1>5. Cardinality(Registered) = Len(order)
    BY <1>1, <1>4, FS_CountingElements DEF ExistsBijection
  <1>6. order \in SetToSeqs(Registered)
    BY <1>1, <1>3, <1>5 DEF SetToSeqs
  <1>7. RespectsDeps(order)
    BY DEF RespectsDeps, IInv, OrderInv
  <1> QED
    BY <1>6, <1>7

(* Where another order first differs, it names an agent that was ready     *)
(* when the resolved order chose its own.                                  *)
LEMMA OrderIsFirst ==
  ASSUME IInv, GreedyInv, phase = "running",
         NEW s \in SetToSeqs(Registered), RespectsDeps(s)
  PROVE  Earlier(order, s)
  <1> DEFINE n == Cardinality(Registered)
             Differ == {i \in DOMAIN order : order[i] # s[i]}
  <1>1. /\ order \in [1 .. n -> Registered] /\ s \in [1 .. n -> Registered]
        /\ \A i, j \in 1 .. n : i # j => s[i] # s[j]
    BY OrderIsAnOrder DEF SetToSeqs
  <1>2. order \in Seq(Names) /\ DOMAIN order = 1 .. Len(order) /\ Len(order) \in Nat
        /\ DOMAIN order = 1 .. n
    BY <1>1 DEF IInv, TypeOK
  <1>3. CASE Differ = {}
    <2>1. \A i \in 1 .. n : order[i] = s[i]
      BY <1>2, <1>3
    <2>2. order = s
      <3> HIDE DEF n
      <3>1. order = [i \in 1 .. n |-> order[i]] /\ s = [i \in 1 .. n |-> s[i]]
        BY <1>1
      <3>2. [i \in 1 .. n |-> order[i]] = [i \in 1 .. n |-> s[i]]
        BY <2>1
      <3> QED
        BY <3>1, <3>2
    <2> QED
      BY <2>2 DEF Earlier
  <1>4. CASE Differ # {}
    <2>1. PICK k \in Differ : \A m \in Differ : k <= m
      <3>1. Differ \in SUBSET Nat
        BY <1>2
      <3> HIDE DEF Differ
      <3> QED
        BY <1>4, <3>1, LeastNumber
    <2>2. k \in DOMAIN order /\ k \in 1 .. Len(order) /\ order[k] # s[k]
      BY <1>2, <2>1
    <2>3. \A j \in 1 .. (k - 1) : j \in DOMAIN order /\ j # k /\ order[j] = s[j]
      <3> SUFFICES ASSUME NEW j \in 1 .. (k - 1)
                   PROVE  j \in DOMAIN order /\ j # k /\ order[j] = s[j]
        OBVIOUS
      <3>1. j \in DOMAIN order /\ j # k /\ ~ (k <= j)
        BY <1>2, <2>2
      <3>2. j \notin Differ
        <4> HIDE DEF Differ
        <4> QED
          BY <2>1, <3>1
      <3> QED
        BY <3>1, <3>2
    <2>4. s[k] \in Registered /\ deps[s[k]] \subseteq Upto(k - 1)
      <3>1. s[k] \in Registered /\ DOMAIN s = DOMAIN order
        BY <1>1, <1>2, <2>2
      <3>2. deps[s[k]] \subseteq {s[j] : j \in 1 .. (k - 1)}
        BY <2>2, <3>1 DEF RespectsDeps
      <3> QED
        BY <2>3, <3>1, <3>2 DEF Upto
    <2>5. s[k] \notin Upto(k)
      <3> SUFFICES ASSUME NEW j \in 1 .. k, order[j] = s[k] PROVE FALSE
        BY DEF Upto
      <3>1. j # k /\ j \in 1 .. (k - 1)
        BY <1>2, <2>2
      <3>2. s[j] = s[k] /\ j \in 1 .. n /\ k \in 1 .. n
        BY <1>2, <2>2, <2>3, <3>1
      <3> QED
        BY <1>1, <3>1, <3>2
    <2>6. RegisteredBefore(order[k], s[k])
      BY <2>2, <2>4, <2>5 DEF GreedyInv
    <2> QED
      BY <2>2, <2>3, <2>6 DEF Earlier
  <1> QED
    BY <1>3, <1>4

(* Of all the orders in which dependencies come first, resolve_order takes *)
(* the one that is first by registration: whatever the registry, one order. *)
THEOREM OrderIsTheReference == Spec => []ReferenceOrder /\ []OrderIsReference
  <1>1. IInv /\ GreedyInv => ReferenceOrder
    BY OrderIsAnOrder, OrderIsFirst DEF ReferenceOrder
  <1>2. ReferenceOrder => OrderIsReference
    BY DEF OrderIsReference
  <1> QED
    BY <1>1, <1>2, Invariance, Greedy, PTL

-----------------------------------------------------------------------------
(* The registry the pipeline really runs.  What its handlers read rests on *)
(* two things: the invariant above, and that a registry holds what its     *)
(* caller registered, nothing else.                                        *)

(* The registry holds a prefix of the plan, all of it once building is     *)
(* over, each name with the dependencies it was registered with.  A run    *)
(* that is over has an outcome.                                            *)
BuiltInv ==
  /\ Len(regs) <= Len(plan)
  /\ \A i \in DOMAIN regs : regs[i] = plan[i].name /\ deps[regs[i]] = plan[i].depends_on
  /\ phase \notin {"building", "refused"} => Len(regs) = Len(plan)
  /\ phase = "done" => outcome # "pending"

LEMMA RegisterBuilds == ASSUME IInv, BuiltInv, Register PROVE BuiltInv'
  <1> DEFINE n == Len(regs) + 1
             r == plan[n]
  <1>1. /\ regs \in Seq(Names) /\ Len(regs) \in Nat /\ deps \in [Names -> SUBSET Names]
        /\ plan \in Seq(Registration) /\ Len(plan) \in Nat
        /\ phase = "building" /\ phase' = phase /\ outcome' = outcome /\ plan' = plan
      BY DEF IInv, TypeOK, Register, run
  <1>2. /\ Len(regs) < Len(plan) /\ r.name \notin Registered
        /\ regs' = Append(regs, r.name)
        /\ deps' = [deps EXCEPT ![r.name] = r.depends_on]
    BY DEF Register, Refused
  <1>3. n \in DOMAIN plan /\ r.name \in Names
    <2>1. n \in 1 .. Len(plan)
      BY <1>1, <1>2
    <2>2. n \in DOMAIN plan /\ plan[n] \in Registration
      BY <1>1, <2>1
    <2> QED
      BY <2>2 DEF Registration
  <1>4. /\ Len(regs') = n /\ DOMAIN regs' = 1 .. n /\ DOMAIN regs = 1 .. Len(regs)
        /\ regs'[n] = r.name /\ \A i \in DOMAIN regs : regs'[i] = regs[i]
    BY <1>1, <1>2, <1>3, AppendElements
  <1>5. \A i \in DOMAIN regs : regs[i] # r.name
    BY <1>2 DEF Registered
  <1>6. ASSUME NEW i \in 1 .. n
        PROVE  regs'[i] = plan[i].name /\ deps'[regs'[i]] = plan[i].depends_on
    <2>1. CASE i = n
      BY <1>1, <1>2, <1>3, <1>4, <2>1
    <2>2. CASE i # n
      <3>1. i \in DOMAIN regs
        BY <1>1, <1>4, <2>2
      <3>2. regs[i] \in Names /\ regs[i] # r.name
        BY <1>1, <1>5, <3>1
      <3> QED
        BY <1>1, <1>2, <1>4, <3>1, <3>2 DEF BuiltInv
    <2> QED
      BY <2>1, <2>2
  <1> QED
    BY <1>1, <1>2, <1>4, <1>6 DEF BuiltInv

LEMMA NextBuilt == IInv /\ BuiltInv /\ [Next]_vars => BuiltInv'
  <1> SUFFICES ASSUME IInv, BuiltInv, [Next]_vars PROVE BuiltInv'
    OBVIOUS
  <1>1. CASE Register
    BY <1>1, RegisterBuilds
  <1>2. CASE RefuseRegistration
    BY <1>2 DEF RefuseRegistration, registry, BuiltInv
  <1>3. CASE Start
    BY <1>3 DEF Start, registry, BuiltInv, IInv, PhaseInv
  <1>4. CASE FallBack /\ phase \in {"resolving", "running"}
    BY <1>4 DEF FallBack, registry, BuiltInv
  <1>5. CASE Raise /\ phase = "resolving"
    BY <1>5 DEF Raise, registry, BuiltInv
  <1>6. CASE ResolveNext \/ ResolveDone
    BY <1>6 DEF ResolveNext, ResolveDone, registry, BuiltInv
  <1>7. ASSUME NEW a \in Names, Agent(a) PROVE BuiltInv'
    BY <1>7 DEF Agent, Skip, Complete, Fail, CallHandler, AtAgent, registry, BuiltInv
  <1>8. CASE Finish
    BY <1>8 DEF Finish, PipelineStatus, registry, BuiltInv
  <1>9. CASE UNCHANGED vars
    BY <1>9 DEF vars, BuiltInv
  <1> QED
    BY <1>1, <1>2, <1>3, <1>4, <1>5, <1>6, <1>7, <1>8, <1>9
    DEF Next, Step, CyclicOrMissing, AdkError

LEMMA Built == Spec => []BuiltInv
  <1>1. Init => BuiltInv
    <2> SUFFICES ASSUME Init PROVE BuiltInv
      OBVIOUS
    <2>1. Len(plan) \in Nat
      BY PlansAssumption DEF Init
    <2> QED
      BY <2>1 DEF Init, BuiltInv
  <1>2. IInv /\ BuiltInv /\ [Next]_vars => BuiltInv'
    BY NextBuilt
  <1> QED
    BY <1>1, <1>2, Invariance, PTL DEF Spec

-----------------------------------------------------------------------------
(* The default registry. *)

LEMMA Seven ==
  /\ Len(DefaultPlan) = 7
  /\ DefaultPlan[1] = Agt("log_ingest", {})
  /\ DefaultPlan[2] = Agt("diff_analysis", {})
  /\ DefaultPlan[3] = Agt("failure_classification", {"log_ingest", "diff_analysis"})
  /\ DefaultPlan[4] = Agt("root_cause_ranker",
                          {"log_ingest", "diff_analysis", "failure_classification"})
  /\ DefaultPlan[5] = Agt("fix_planner", {"root_cause_ranker", "failure_classification"})
  /\ DefaultPlan[6] = Agt("reporter",
                          {"root_cause_ranker", "failure_classification", "fix_planner"})
  /\ DefaultPlan[7] = Agt("pr_creation",
                          {"root_cause_ranker", "failure_classification", "fix_planner"})
  BY DEF DefaultPlan

LEMMA IsElement ==
  ASSUME NEW S, NEW s \in Seq(S), NEW i \in 1 .. Len(s)
  PROVE  s[i] \in S
  OBVIOUS

LEMMA DefaultNames ==
  ASSUME IInv, plan = DefaultPlan
  PROVE  AgentNames \subseteq Names
  <1>1. plan \in Seq(Registration) /\ Len(plan) = 7
    BY Seven DEF IInv, TypeOK
  <1>2. \A i \in 1 .. 7 : plan[i] \in Registration
    <2>1. \A i \in 1 .. Len(plan) : plan[i] \in Registration
      BY <1>1, IsElement
    <2> QED
      BY <1>1, <2>1
  <1>3. \A i \in 1 .. 7 : plan[i].name \in Names
    BY <1>2 DEF Registration
  <1>4. \A i \in {1, 2, 3, 4, 5, 6, 7} : DefaultPlan[i].name \in Names
    BY <1>3
  <1> QED
    BY <1>4, Seven DEF Agt, AgentNames

(* When the run has begun, the dependencies are the default ones.          *)
LEMMA DefaultDeps ==
  ASSUME IInv, BuiltInv, plan = DefaultPlan, phase \notin {"building", "refused"}
  PROVE  /\ Registered = AgentNames
         /\ deps["log_ingest"] = {} /\ deps["diff_analysis"] = {}
         /\ deps["failure_classification"] = {"log_ingest", "diff_analysis"}
         /\ deps["root_cause_ranker"]
              = {"log_ingest", "diff_analysis", "failure_classification"}
         /\ deps["fix_planner"] = {"root_cause_ranker", "failure_classification"}
         /\ \A n \in {"reporter", "pr_creation"} :
              deps[n] = {"root_cause_ranker", "failure_classification", "fix_planner"}
  <1>1. regs \in Seq(Names) /\ Len(regs) = 7
    BY Seven DEF IInv, TypeOK, BuiltInv
  <1>2. DOMAIN regs = {1, 2, 3, 4, 5, 6, 7}
    BY <1>1
  <1>3. \A i \in {1, 2, 3, 4, 5, 6, 7} :
          regs[i] = DefaultPlan[i].name /\ deps[regs[i]] = DefaultPlan[i].depends_on
    BY <1>2 DEF BuiltInv
  <1>4. /\ regs[1] = "log_ingest" /\ regs[2] = "diff_analysis"
        /\ regs[3] = "failure_classification" /\ regs[4] = "root_cause_ranker"
        /\ regs[5] = "fix_planner" /\ regs[6] = "reporter" /\ regs[7] = "pr_creation"
    BY <1>3, Seven DEF Agt
  <1>5. Registered = AgentNames
    BY <1>2, <1>4 DEF Registered, AgentNames
  <1> QED
    BY <1>3, <1>4, <1>5, Seven DEF Agt

LEMMA SettledIsBuilt ==
  ASSUME IInv, NEW n \in Names, status[n] # "none"
  PROVE  phase \notin {"building", "refused"}
  BY DEF IInv, PhaseInv, NoStatus

(* No handler of the default registry reads the output of an agent that    *)
(* did not complete, the fix planner's undeclared read included.           *)
THEOREM ReadsAreOfCompleted == Spec => []ReadsOfCompleted
  <1>1. IInv /\ BuiltInv => ReadsOfCompleted
    <2> SUFFICES ASSUME IInv, BuiltInv, plan = DefaultPlan, NEW n \in AgentNames,
                        status[n] \in {"completed", "failed"}, NEW m \in Reads[n]
                 PROVE  status[m] = "completed"
      BY DEF ReadsOfCompleted
    <2>1. AgentNames \subseteq Names
      BY DefaultNames
    <2>2. phase \notin {"building", "refused"}
      BY <2>1, SettledIsBuilt
    <2>3. \A a \in AgentNames : status[a] \in {"completed", "failed"} =>
            \A d \in deps[a] : status[d] = "completed"
      BY <2>1 DEF IInv, SettledSoundly
    <2> QED
      BY <2>2, <2>3, DefaultDeps DEF Reads, PrCreationReads, AgentNames
  <1> QED
    BY <1>1, Invariance, Built, PTL

(* A run of the default registry is "failed" exactly when both ingestions  *)
(* failed; any other run that is over and raised nothing has something to  *)
(* report (PipelineState.pipeline_status).                                 *)
THEOREM FailedIsNothingIngested == Spec => []FailedMeansNothingIngested
  <1>1. IInv /\ BuiltInv => FailedMeansNothingIngested
    <2> SUFFICES ASSUME IInv, BuiltInv, plan = DefaultPlan
                 PROVE  outcome = "failed" <=>
                          /\ phase = "done" /\ outcome # "raised"
                          /\ status["log_ingest"] = "failed"
                          /\ status["diff_analysis"] = "failed"
      BY DEF FailedMeansNothingIngested
    <2>1. AgentNames \subseteq Names /\ status \in [Names -> Statuses]
      BY DefaultNames DEF IInv, TypeOK
    <2>2. /\ failures = {n \in Names : status[n] = "failed"}
          /\ \A n \in Names : status[n] # "none" => n \in Registered
      BY DEF IInv, LoopInv, OrderInv, Resolved
    <2>3. \A a \in AgentNames :
            /\ status[a] \in {"completed", "failed"} =>
                 \A d \in deps[a] : status[d] = "completed"
            /\ status[a] = "skipped" => deps[a] # {}
      BY <2>1 DEF IInv, SettledSoundly
    <2>4. ASSUME outcome = "failed"
          PROVE  /\ phase = "done" /\ status["log_ingest"] = "failed"
                 /\ status["diff_analysis"] = "failed"
      <3>1. phase = "done"
        BY <2>4 DEF IInv, PhaseInv
      <3>2. /\ \A n \in Names : status[n] # "completed"
            /\ \A n \in Registered : status[n] # "none"
        BY <2>4 DEF IInv, DoneInv, PipelineStatus
      <3> QED
        BY <2>1, <2>3, <3>1, <3>2, DefaultDeps DEF AgentNames, Statuses
    <2>5. ASSUME phase = "done", outcome # "raised", status["log_ingest"] = "failed",
                 status["diff_analysis"] = "failed"
          PROVE  outcome = "failed"
      <3>1. outcome = PipelineStatus
        BY <2>5 DEF IInv, DoneInv, BuiltInv
      <3>2. failures # {}
        BY <2>1, <2>2, <2>5 DEF AgentNames
      <3>3. \A n \in AgentNames : status[n] # "completed"
        <4>1. status["failure_classification"] # "completed"
          BY <2>3, <2>5, DefaultDeps DEF AgentNames
        <4>2. status["root_cause_ranker"] # "completed"
          BY <2>3, <2>5, DefaultDeps DEF AgentNames
        <4> QED
          BY <2>3, <2>5, <4>1, <4>2, DefaultDeps DEF AgentNames
      <3>4. \A n \in Names : status[n] # "completed"
        BY <2>2, <2>5, <3>3, DefaultDeps
      <3> QED
        BY <3>1, <3>2, <3>4 DEF PipelineStatus
    <2> QED
      BY <2>4, <2>5
  <1> QED
    BY <1>1, Invariance, Built, PTL

-----------------------------------------------------------------------------
(* Termination.  One runtime resolves every agent and then passes every    *)
(* agent; an ADK run has the local run still before it.                    *)

OneRun == 2 * Len(plan) + 3
Spare == IF runtime = "adk" THEN OneRun ELSE 0

Left ==
  CASE phase = "building" -> 2 * OneRun + 1 + Len(plan) - Len(regs)
    [] phase = "resolving" -> Spare + 2 * Len(plan) + 2 - Len(order)
    [] phase = "running" -> Spare + Len(order) + 2 - at
    [] OTHER -> 0

(* An order lists no agent twice, and a registry is part of its plan. *)
Sized ==
  /\ Len(plan) \in Nat /\ Len(regs) \in Nat /\ Len(order) \in Nat /\ at \in Nat
  /\ Len(order) <= Len(plan) /\ Len(regs) <= Len(plan)
  /\ at > 0 /\ at <= Len(order) + 1
  /\ phase \in {"building", "refused", "resolving", "running", "done"}

LEMMA OrderFits == ASSUME IInv, BuiltInv PROVE Sized
  <1>1. /\ plan \in Seq(Registration) /\ regs \in Seq(Names) /\ order \in Seq(Names)
        /\ at \in Nat /\ at > 0 /\ at <= Len(order) + 1 /\ Len(regs) <= Len(plan)
    BY DEF IInv, TypeOK, LoopInv, BuiltInv
  <1>2. /\ Len(plan) \in Nat /\ Len(regs) \in Nat /\ Len(order) \in Nat
        /\ DOMAIN order = 1 .. Len(order) /\ DOMAIN regs = 1 .. Len(regs)
    BY <1>1
  <1> DEFINE place == [i \in 1 .. Len(order) |-> CHOOSE j \in 1 .. Len(regs) : regs[j] = order[i]]
  <1>3. \A i \in 1 .. Len(order) : \E j \in 1 .. Len(regs) : regs[j] = order[i]
    BY <1>2 DEF IInv, OrderInv, Registered
  <1>4. \A i \in 1 .. Len(order) : place[i] \in 1 .. Len(regs) /\ regs[place[i]] = order[i]
    BY <1>3
  <1>5. place \in Injection(1 .. Len(order), 1 .. Len(regs))
    <2>1. place \in [1 .. Len(order) -> 1 .. Len(regs)]
      BY <1>4
    <2>2. ASSUME NEW i \in 1 .. Len(order), NEW j \in 1 .. Len(order), place[i] = place[j]
          PROVE  i = j
      <3>1. order[i] = order[j]
        <4> HIDE DEF place
        <4> QED
          BY <1>4, <2>2
      <3> QED
        BY <1>2, <3>1 DEF IInv, OrderInv
    <2> HIDE DEF place
    <2> QED
      BY <2>1, <2>2 DEF Injection, IsInjective
  <1>6. Len(order) <= Len(regs)
    <2> HIDE DEF place
    <2>1. /\ IsFiniteSet(1 .. Len(regs)) /\ Cardinality(1 .. Len(regs)) = Len(regs)
          /\ Cardinality(1 .. Len(order)) = Len(order)
      <3>1. \A n \in Nat : IsFiniteSet(1 .. n) /\ Cardinality(1 .. n) = n
        <4> SUFFICES ASSUME NEW n \in Nat
                     PROVE  IsFiniteSet(1 .. n) /\ Cardinality(1 .. n) = n
          OBVIOUS
        <4>1. IsFiniteSet(1 .. n) /\ Cardinality(1 .. n) = IF 1 > n THEN 0 ELSE n - 1 + 1
          BY FS_Interval
        <4> QED
          BY <4>1
      <3> QED
        BY <1>2, <3>1
    <2>2. Cardinality(1 .. Len(order)) <= Cardinality(1 .. Len(regs))
      BY <1>5, <2>1, FS_Injection
    <2> QED
      BY <2>1, <2>2
  <1> QED
    BY <1>1, <1>2, <1>6 DEF Sized, IInv, TypeOK

LeftValues ==
  /\ phase = "building" => Left = 2 * OneRun + 1 + Len(plan) - Len(regs)
  /\ phase = "resolving" => Left = Spare + 2 * Len(plan) + 2 - Len(order)
  /\ phase = "running" => Left = Spare + Len(order) + 2 - at
  /\ phase \in {"refused", "done"} => Left = 0

LEMMA LeftIs == LeftValues /\ LeftValues'
  <1>1. LeftValues
    BY Zenon DEF LeftValues, Left
  <1>2. LeftValues'
    BY Zenon DEF LeftValues, Left
  <1> QED
    BY <1>1, <1>2

LEMMA LeftIsBounded ==
  ASSUME Sized
  PROVE  /\ Left \in 0 .. (5 * Len(plan) + 7)
         /\ Left = 0 <=> phase \in {"refused", "done"}
  <1>1. Spare \in Nat /\ Spare <= 2 * Len(plan) + 3
    BY DEF Sized, Spare, OneRun
  <1>2. phase \in {"building", "refused", "resolving", "running", "done"}
    BY DEF Sized
  <1>3. CASE phase = "building"
    BY <1>3, LeftIs DEF LeftValues, Sized, OneRun
  <1>4. CASE phase = "resolving"
    BY <1>1, <1>4, LeftIs DEF LeftValues, Sized
  <1>5. CASE phase = "running"
    BY <1>1, <1>5, LeftIs DEF LeftValues, Sized
  <1>6. CASE phase \in {"refused", "done"}
    BY <1>6, LeftIs DEF LeftValues, Sized
  <1> QED
    BY <1>2, <1>3, <1>4, <1>5, <1>6

LEMMA StepsLeave ==
  ASSUME IInv, Sized, Sized', Next
  PROVE  Left' < Left
  <1>1. Spare \in Nat /\ Spare' \in Nat /\ Left \in Nat
    <2>1. Left \in Nat
      BY LeftIsBounded
    <2> QED
      BY <2>1 DEF Sized, Spare, OneRun
  <1>11. /\ Len(plan) \in Nat /\ Len(regs) \in Nat /\ Len(order) \in Nat /\ at \in Nat
         /\ Len(order) <= Len(plan) /\ Len(regs) <= Len(plan) /\ at <= Len(order) + 1
    BY DEF Sized
  <1>2. CASE Register
    <2>1. /\ phase = "building" /\ phase' = "building" /\ UNCHANGED plan
          /\ Len(regs') = Len(regs) + 1
      BY <1>2 DEF Register, run, IInv, TypeOK
    <2> QED
      BY <2>1, LeftIs DEF LeftValues, Sized, OneRun
  <1>3. CASE phase \notin {"refused", "done"} /\ phase' \in {"refused", "done"}
    <2>1. Left' = 0
      BY <1>3, LeftIs DEF LeftValues
    <2>2. Left \in 0 .. (5 * Len(plan) + 7) /\ Left # 0 /\ Len(plan) \in Nat
      BY <1>3, LeftIsBounded DEF Sized
    <2> QED
      BY <2>1, <2>2
  <1>4. CASE RefuseRegistration \/ Finish
    BY <1>3, <1>4 DEF RefuseRegistration, Finish
  <1>5. CASE Start
    <2>1. phase = "building" /\ phase' = "resolving" /\ order' = order /\ UNCHANGED plan
      BY <1>5 DEF Start, registry
    <2>2. Spare' <= 2 * Len(plan) + 3
      BY <2>1, <1>1 DEF Sized, Spare, OneRun
    <2>3. Left > 4 * Len(plan) + 6
      BY <2>1, LeftIs DEF LeftValues, Sized, OneRun
    <2>4. Left' = Spare' + 2 * Len(plan) + 2 - Len(order)
      BY <2>1, LeftIs DEF LeftValues
    <2>5. Left' \in Int /\ Left' <= 4 * Len(plan) + 5
      <3>1. ASSUME NEW n \in Nat, NEW m \in Nat, NEW k \in Nat, k <= 2 * n + 3
            PROVE  k + 2 * n + 2 - m \in Int /\ k + 2 * n + 2 - m <= 4 * n + 5
        BY <3>1
      <3>2. /\ Spare' + 2 * Len(plan) + 2 - Len(order) \in Int
            /\ Spare' + 2 * Len(plan) + 2 - Len(order) <= 4 * Len(plan) + 5
        BY <1>1, <1>11, <2>2, <3>1
      <3> QED
        BY <2>4, <3>2, Zenon
    <2> QED
      BY <1>1, <1>11, <2>3, <2>5
  <1>6. CASE ResolveNext
    <2>1. PICK a \in Names : order' = Append(order, a)
      BY <1>6 DEF ResolveNext
    <2>2. /\ phase = "resolving" /\ phase' = "resolving" /\ UNCHANGED <<plan, runtime>>
          /\ Len(order') = Len(order) + 1
      BY <1>6, <2>1 DEF ResolveNext, registry, IInv, TypeOK
    <2>3. Spare' = Spare
      BY <2>2 DEF Spare, OneRun
    <2> QED
      BY <1>1, <2>2, <2>3, LeftIs DEF LeftValues, Sized
  <1>7. CASE ResolveDone
    <2>1. /\ phase = "resolving" /\ phase' = "running" /\ at = 1
          /\ UNCHANGED <<plan, runtime, order, at>>
      BY <1>7 DEF ResolveDone, registry, IInv, PhaseInv
    <2>2. Spare' = Spare
      BY <2>1 DEF Spare, OneRun
    <2> QED
      BY <1>1, <2>1, <2>2, LeftIs DEF LeftValues, Sized
  <1>8. CASE FallBack /\ runtime = "adk" /\ phase \in {"resolving", "running"}
    <2>1. /\ phase' = "resolving" /\ runtime' = "local" /\ order' = <<>>
          /\ UNCHANGED plan
      BY <1>8 DEF FallBack, registry
    <2>2. Left' = 2 * Len(plan) + 2
      BY <2>1, LeftIs DEF LeftValues, Sized, Spare
    <2>3. Spare = 2 * Len(plan) + 3
      BY <1>8 DEF Spare, OneRun
    <2>4. Left >= Spare
      <3>1. \/ Left = Spare + 2 * Len(plan) + 2 - Len(order)
            \/ Left = Spare + Len(order) + 2 - at
        BY <1>8, LeftIs DEF LeftValues
      <3> QED
        BY <1>1, <1>11, <3>1
    <2>5. Left >= 2 * Len(plan) + 3
      BY <2>3, <2>4
    <2>6. Left' \in Int
      BY <1>11, <2>2
    <2> QED
      BY <1>1, <1>11, <2>2, <2>5, <2>6
  <1>9. CASE CyclicOrMissing \/ AdkError
    BY <1>3, <1>8, <1>9 DEF CyclicOrMissing, AdkError, Raise
  <1>10. ASSUME NEW a \in Names, Agent(a) PROVE Left' < Left
    <2>1. /\ phase = "running" /\ at' = at + 1 /\ UNCHANGED <<plan, runtime, order>>
          /\ phase' \in {"running", "done"}
      BY <1>10 DEF Agent, Skip, Complete, Fail, CallHandler, AtAgent, SettleAs, registry
    <2>2. Spare' = Spare
      BY <2>1 DEF Spare, OneRun
    <2>3. CASE phase' = "running"
      BY <1>1, <2>1, <2>2, <2>3, LeftIs DEF LeftValues, Sized
    <2> QED
      BY <1>3, <2>1, <2>3
  <1> QED
    BY <1>2, <1>4, <1>5, <1>6, <1>7, <1>9, <1>10 DEF Next, Step

WithinBudget ==
  Left \in 0 .. (5 * Len(plan) + 7) /\ (Left = 0 <=> phase \in {"refused", "done"})
Spends == Left' < Left

(* A run has a budget that its plan fixes, five steps for each agent and   *)
(* seven more: every step uses some of it up, the fallback from ADK and    *)
(* what was registered in vain included, and only a run that was refused   *)
(* or is done has none left.                                               *)
THEOREM RunsAreShort == Spec => []WithinBudget /\ [][Spends]_vars
  <1>1. IInv /\ Sized /\ Sized' /\ [Next]_vars => [Spends]_vars
    BY StepsLeave DEF Spends
  <1>2. Sized => WithinBudget
    BY LeftIsBounded DEF WithinBudget
  <1>3. IInv /\ BuiltInv => Sized
    BY OrderFits
  <1> QED
    BY <1>1, <1>2, <1>3, Invariance, Built, PTL DEF Spec
==================================================
