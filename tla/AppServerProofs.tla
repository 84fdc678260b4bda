--------------------------- MODULE AppServerProofs ----------------------------
(***************************************************************************)
(* Theorems about the App's server, for any number of deliveries, all      *)
(* events and analyses, in both modes and with restarts.                   *)
(***************************************************************************)
EXTENDS AppServer, TLAPS

-----------------------------------------------------------------------------
(* The checks and their verdicts. *)

CheckVerdicts ==
  {<<"error", "WEBHOOK_VALIDATION_FAILED">>, <<"skipped", "UNSUPPORTED_EVENT">>,
   <<"error", "MISSING_FIELD">>, <<"skipped", "WORKFLOW_NOT_COMPLETED">>,
   <<"skipped", "WORKFLOW_NOT_FAILED">>}
PolicyVerdicts ==
  {<<"skipped", "REPOSITORY_NOT_ALLOWED">>, <<"skipped", "MISSING_BASE_SHA">>}

Screening(e) == Checks(e) \o Policy(e)

LEMMA ChecksShape ==
  ASSUME NEW e
  PROVE  /\ DOMAIN Checks(e) = 1 .. 5
         /\ \A i \in 1 .. 5 : Checks(e)[i][2] \in CheckVerdicts
         /\ Len(Checks(e)) = 5 /\ Len(Policy(e)) = 2
  BY DEF Checks, Policy, CheckVerdicts

LEMMA ScreeningShape ==
  ASSUME NEW e
  PROVE  /\ DOMAIN Screening(e) = 1 .. 7
         /\ \A i \in 1 .. 5 : Screening(e)[i] = Checks(e)[i]
         /\ Screening(e)[6] = Policy(e)[1] /\ Screening(e)[7] = Policy(e)[2]
  BY ChecksShape DEF Screening, Checks, Policy

LEMMA VerdictOfOne ==
  ASSUME NEW checks, DOMAIN checks \subseteq 1 .. 7, Applying(checks) # {}
  PROVE  \E i \in Applying(checks) : Verdict(checks) = checks[i][2]
  <1>1. Applying(checks) \subseteq 1 .. 7
    BY DEF Applying
  <1>2. \E i \in Applying(checks) : \A j \in Applying(checks) : i <= j
    BY <1>1
  <1> QED
    BY <1>2 DEF Verdict

(* What gets past the screening is worth an analysis. *)
Worthy(e) == e.signed /\ e.workflowRun /\ e.body = "failed" /\ e.allowed /\ e.base

LEMMA ScreenedIsWorthy ==
  ASSUME NEW e \in Events, Applying(Screening(e)) = {}
  PROVE  Worthy(e)
  <1>1. \A i \in 1 .. 7 : ~Screening(e)[i][1]
    BY ScreeningShape DEF Applying
  <1>2. \A i \in 1 .. 5 : ~Checks(e)[i][1]
    BY <1>1, ScreeningShape
  <1>3. ~Policy(e)[1][1] /\ ~Policy(e)[2][1]
    BY <1>1, ScreeningShape
  <1>4. ~Checks(e)[1][1] /\ ~Checks(e)[2][1] /\ ~Checks(e)[3][1]
        /\ ~Checks(e)[4][1] /\ ~Checks(e)[5][1]
    BY <1>2
  <1>5. e.signed /\ e.body # "garbage"
    BY <1>4 DEF Checks
  <1>6. e.workflowRun
    BY <1>4 DEF Checks
  <1>7. e.body # "incomplete"
    BY <1>4 DEF Checks
  <1>8. e.body # "running"
    BY <1>4 DEF Checks
  <1>9. e.body # "passed"
    BY <1>4 DEF Checks
  <1>10. e.allowed /\ e.base
    BY <1>3 DEF Policy
  <1>11. e.body \in Bodies
    BY AppServerAssumption
  <1> QED
    BY <1>5, <1>6, <1>7, <1>8, <1>9, <1>10, <1>11 DEF Worthy, Bodies

(* What passed the webhook's checks is turned down by the policy only. *)
LEMMA ScreeningVerdict ==
  ASSUME NEW e, Applying(Screening(e)) # {}
  PROVE  /\ Verdict(Screening(e)) \in CheckVerdicts \union PolicyVerdicts
         /\ Applying(Checks(e)) = {} => Verdict(Screening(e)) \in PolicyVerdicts
  <1>1. PICK i \in Applying(Screening(e)) : Verdict(Screening(e)) = Screening(e)[i][2]
    BY VerdictOfOne, ScreeningShape
  <1>2. i \in 1 .. 7 /\ Screening(e)[i][1]
    BY ScreeningShape DEF Applying
  <1>3. CASE i \in 1 .. 5
    BY <1>1, <1>2, <1>3, ScreeningShape, ChecksShape DEF Applying
  <1>4. CASE i = 6 \/ i = 7
    <2>1. Policy(e)[1][2] \in PolicyVerdicts /\ Policy(e)[2][2] \in PolicyVerdicts
      BY DEF Policy, PolicyVerdicts
    <2> QED
      BY <1>1, <1>4, <2>1, ScreeningShape
  <1> QED
    BY <1>2, <1>3, <1>4

-----------------------------------------------------------------------------
(* The inductive invariant. *)

Publishing == {"inlining", "flagging", "concluding"}
PastScreening == {"ingesting", "analysing", "reporting", "rendering", "fixing",
                  "observing", "summarising"} \union Publishing
BeforePublishing == ({"sent"} \union Stages) \ Publishing

(* Work is done, and leaves a trace, only for events worth it. *)
WorthInv(d) ==
  pc[d] \in PastScreening \/ posted[d] # {} \/ pr[d] \/ d \in {json, md, obs}
    => Worthy(event[d])

(* The surfaces tried so far are those that were due so far. *)
SurfaceInv(d) ==
  /\ pc[d] \in BeforePublishing => posted[d] = {} /\ trouble[d] = {}
  /\ pc[d] = "inlining" => posted[d] \union trouble[d] = Due(d) \intersect {"summary"}
  /\ pc[d] = "flagging" =>
       posted[d] \union trouble[d] = Due(d) \intersect {"summary", "inline"}
  /\ pc[d] = "concluding" => posted[d] \union trouble[d] = Due(d)

OkInv(d) ==
  result[d] = Ok =>
    pc[d] = "answered" /\ posted[d] = Due(d) /\ "reporter" \in done[d]

AcceptedInv(d) ==
  /\ pc[d] # "answered" => result[d] = NoResult
  /\ http[d] = 202 =>
       Applying(Checks(event[d])) = {} /\ result[d] \notin CheckVerdicts

DInv(d) == WorthInv(d) /\ SurfaceInv(d) /\ OkInv(d) /\ AcceptedInv(d)
IInv == TypeOK /\ \A d \in Deliveries : DInv(d)

LEMMA InitIInv == Init => IInv
  <1> SUFFICES ASSUME Init PROVE IInv
    OBVIOUS
  <1>1. TypeOK
    BY DEF Init, TypeOK
  <1>2. ASSUME NEW d \in Deliveries PROVE DInv(d)
    <2>1. WorthInv(d)
      BY AppServerAssumption DEF Init, WorthInv, PastScreening, Publishing
    <2>2. SurfaceInv(d)
      BY DEF Init, SurfaceInv
    <2>3. NoResult # Ok
      BY DEF NoResult, Ok
    <2> QED
      BY <2>1, <2>2, <2>3 DEF Init, DInv, OkInv, AcceptedInv
  <1> QED
    BY <1>1, <1>2 DEF IInv

(* The verdicts of a delivery that is answered. *)
LEMMA AnswerFacts ==
  ASSUME TypeOK, NEW d \in Deliveries, NEW outcome,
         outcome \in Results, Answer(d, outcome)
  PROVE  /\ pc' = [pc EXCEPT ![d] = "answered"] /\ result' = [result EXCEPT ![d] = outcome]
         /\ http' \in [Deliveries -> {0, 200, 202, 400, 401, 500}]
         /\ \A q \in Deliveries : http'[q] = 202 => http[q] = 202
         /\ \A q \in Deliveries \ {d} : http'[q] = http[q]
  <1>1. StatusCode(outcome) \in {200, 400, 401, 500}
    BY DEF StatusCode
  <1> QED
    BY <1>1 DEF Answer, Goto, TypeOK

(* The outcomes the code reports. *)
LEMMA VerdictTypes ==
  /\ CheckVerdicts \subseteq Results /\ PolicyVerdicts \subseteq Results /\ Ok \in Results
  /\ Ok \notin CheckVerdicts /\ Ok \notin PolicyVerdicts
  /\ CheckVerdicts \intersect PolicyVerdicts = {}
  <1>1. CheckVerdicts \subseteq Results
    BY DEF CheckVerdicts, Results
  <1>2. PolicyVerdicts \subseteq Results
    BY DEF PolicyVerdicts, Results
  <1>3. Ok \in Results /\ Ok \notin CheckVerdicts /\ Ok \notin PolicyVerdicts
    BY DEF Ok, CheckVerdicts, PolicyVerdicts, Results
  <1>4. CheckVerdicts \intersect PolicyVerdicts = {}
    BY DEF CheckVerdicts, PolicyVerdicts
  <1> QED
    BY <1>1, <1>2, <1>3, <1>4

LEMMA DueFacts ==
  ASSUME NEW d PROVE Due(d) \subseteq Surfaces /\ Surfaces \subseteq {"summary", "inline", "status"}
  BY AppServerAssumption DEF Due

(* A delivery's step leaves the others as they are. *)
LEMMA Frame ==
  ASSUME IInv, TypeOK', NEW d \in Deliveries, DInv(d)', event' = event,
         \A q \in Deliveries \ {d} :
           /\ pc'[q] = pc[q] /\ http'[q] = http[q] /\ result'[q] = result[q]
           /\ found'[q] = found[q] /\ done'[q] = done[q] /\ pr'[q] = pr[q]
           /\ posted'[q] = posted[q] /\ trouble'[q] = trouble[q],
         json' \in {json, d}, md' \in {md, d}, obs' \in {obs, d}
  PROVE  IInv'
  <1>1. ASSUME NEW q \in Deliveries \ {d} PROVE DInv(q)'
    <2>1. /\ pc'[q] = pc[q] /\ http'[q] = http[q] /\ result'[q] = result[q]
          /\ found'[q] = found[q] /\ done'[q] = done[q] /\ pr'[q] = pr[q]
          /\ posted'[q] = posted[q] /\ trouble'[q] = trouble[q] /\ event' = event
          /\ DInv(q)
      BY DEF IInv
    <2>2. Due(q)' = Due(q)
      BY <2>1 DEF Due, ShouldPost
    <2>3. WorthInv(q)'
      BY <2>1 DEF DInv, WorthInv
    <2>4. SurfaceInv(q)' /\ OkInv(q)' /\ AcceptedInv(q)'
      BY <2>1, <2>2 DEF DInv, SurfaceInv, OkInv, AcceptedInv
    <2> QED
      BY <2>3, <2>4 DEF DInv
  <1> QED
    BY <1>1 DEF IInv

-----------------------------------------------------------------------------
(* Answers. *)

LEMMA AnsweringIInv ==
  ASSUME IInv, NEW d \in Deliveries, NEW outcome \in Results, Answer(d, outcome),
         UNCHANGED <<event, work, disk>>,
         outcome = Ok => posted[d] = Due(d) /\ "reporter" \in done[d],
         http[d] = 202 => outcome \notin CheckVerdicts
  PROVE  IInv'
  <1> USE DEF work, disk
  <1>0. TypeOK /\ DInv(d)
    BY DEF IInv
  <1>1. /\ pc' = [pc EXCEPT ![d] = "answered"] /\ result' = [result EXCEPT ![d] = outcome]
        /\ http' \in [Deliveries -> {0, 200, 202, 400, 401, 500}]
        /\ \A q \in Deliveries : http'[q] = 202 => http[q] = 202
        /\ \A q \in Deliveries \ {d} : http'[q] = http[q]
    BY <1>0, AnswerFacts
  <1>2. TypeOK'
    BY <1>0, <1>1 DEF TypeOK, Ended
  <1>3. Due(d)' = Due(d) /\ pc'[d] = "answered" /\ result'[d] = outcome
    BY <1>0, <1>1 DEF Due, ShouldPost, TypeOK
  <1>4. DInv(d)'
    BY <1>0, <1>1, <1>3 DEF DInv, WorthInv, SurfaceInv, OkInv, AcceptedInv, PastScreening,
       BeforePublishing, Publishing, Stages
  <1> QED
    BY <1>0, <1>1, <1>2, <1>4, Frame DEF TypeOK

LEMMA AcceptIInv == ASSUME IInv, NEW d \in Deliveries, Accept(d) PROVE IInv'
  <1> DEFINE checks == Checks(event[d])
  <1>0. TypeOK /\ DInv(d)
    BY DEF IInv
  <1>1. CASE Applying(checks) # {}
    <2> DEFINE verdict == Verdict(checks)
               outcome == IF verdict[2] = "WEBHOOK_VALIDATION_FAILED"
                          THEN verdict ELSE <<"skipped", verdict[2]>>
    <2>1. verdict \in CheckVerdicts
      BY <1>1, VerdictOfOne, ChecksShape DEF Applying
    <2>2. outcome \in Results /\ outcome # Ok
      <3>1. verdict[2] \in {"WEBHOOK_VALIDATION_FAILED", "UNSUPPORTED_EVENT", "MISSING_FIELD",
                            "WORKFLOW_NOT_COMPLETED", "WORKFLOW_NOT_FAILED"}
        BY <2>1 DEF CheckVerdicts
      <3>2. ASSUME verdict[2] # "WEBHOOK_VALIDATION_FAILED"
            PROVE  <<"skipped", verdict[2]>> \in Results /\ <<"skipped", verdict[2]>> # Ok
        BY <3>1, <3>2 DEF Results, Ok
      <3> QED
        BY <2>1, <3>2, VerdictTypes
    <2>3. http[d] # 202
      BY <1>0, <1>1 DEF DInv, AcceptedInv
    <2> QED
      BY <1>1, <2>2, <2>3, AnsweringIInv DEF Accept
  <1>2. CASE Applying(checks) = {}
    <2>1. /\ pc' = [pc EXCEPT ![d] = "accepted"] /\ http' = [http EXCEPT ![d] = 202]
          /\ pc[d] = "sent" /\ UNCHANGED <<result, event, work, disk>>
      BY <1>2 DEF Accept, Goto
    <2>2. TypeOK'
      BY <1>0, <2>1 DEF TypeOK, Stages, work, disk
    <2>3. Due(d)' = Due(d) /\ pc'[d] = "accepted"
      BY <1>0, <2>1 DEF Due, ShouldPost, TypeOK, work
    <2>4. result[d] \notin CheckVerdicts
      <3>1. NoResult \notin CheckVerdicts
        BY DEF NoResult, CheckVerdicts
      <3>2. result[d] = NoResult
        BY <1>0, <2>1 DEF DInv, AcceptedInv
      <3> QED
        BY <3>1, <3>2
    <2>5. DInv(d)'
      <3>1. WorthInv(d)'
        BY <1>0, <2>1, <2>3 DEF DInv, WorthInv, PastScreening, Publishing, work, disk
      <3>2. SurfaceInv(d)'
        BY <1>0, <2>1, <2>3 DEF DInv, SurfaceInv, BeforePublishing, Publishing, Stages, work
      <3>3. OkInv(d)'
        BY <1>0, <2>1 DEF DInv, OkInv
      <3>4. AcceptedInv(d)'
        BY <1>0, <1>2, <2>1, <2>4 DEF DInv, AcceptedInv
      <3> QED
        BY <3>1, <3>2, <3>3, <3>4 DEF DInv
    <2> QED
      BY <1>0, <2>1, <2>2, <2>5, Frame DEF TypeOK, work, disk
  <1> QED
    BY <1>1, <1>2

-----------------------------------------------------------------------------
(* Steps that only move on. *)

LEMMA MovingIInv ==
  ASSUME IInv, NEW d \in Deliveries, NEW stage \in Stages \union Ended,
         Goto(d, stage), UNCHANGED <<event, http, result, work, disk>>,
         pc[d] \in {"sent"} \union Stages, stage \notin Publishing \union {"answered"},
         stage \in BeforePublishing => pc[d] \in BeforePublishing,
         stage \in PastScreening => Worthy(event[d])
  PROVE  IInv'
  <1> USE DEF work, disk, Goto
  <1>0. TypeOK /\ DInv(d) /\ pc[d] # "answered"
    BY DEF IInv, Stages
  <1>1. TypeOK'
    BY <1>0 DEF TypeOK
  <1>2. Due(d)' = Due(d) /\ pc'[d] = stage
    BY <1>0 DEF Due, ShouldPost, TypeOK
  <1>3. DInv(d)'
    BY <1>0, <1>2 DEF DInv, WorthInv, SurfaceInv, OkInv, AcceptedInv, Publishing
  <1> QED
    BY <1>0, <1>1, <1>3, Frame DEF TypeOK

LEMMA ScreeningSteps ==
  ASSUME IInv, NEW d \in Deliveries,
         \/ Receive(d) \/ StartWorker(d) \/ Mint(d) \/ Screen(d) \/ Ingest(d)
         \/ ReporterFails(d) \/ Raise(d)
  PROVE  IInv'
  <1>0. TypeOK /\ DInv(d) /\ event[d] \in Events
    BY DEF IInv, TypeOK
  <1> USE DEF Stages, Ended, Publishing, BeforePublishing, PastScreening
  <1>1. CASE Receive(d)
    BY <1>1, MovingIInv DEF Receive, Process
  <1>2. CASE StartWorker(d)
    BY <1>2, MovingIInv DEF StartWorker, Process
  <1>3. CASE Mint(d)
    <2>1. /\ <<"error", "APP_AUTH_ERROR">> \in Results /\ <<"error", "APP_AUTH_ERROR">> # Ok
          /\ <<"error", "APP_AUTH_ERROR">> \notin CheckVerdicts
      BY DEF Results, Ok, CheckVerdicts
    <2> QED
      BY <1>3, <2>1, MovingIInv, AnsweringIInv DEF Mint
  <1>4. CASE Screen(d)
    <2>1. CASE Applying(Screening(event[d])) = {}
      <3>1. Worthy(event[d])
        BY <1>0, <2>1, ScreenedIsWorthy
      <3> QED
        BY <1>4, <2>1, <3>1, MovingIInv DEF Screen, Screening
    <2>2. CASE Applying(Screening(event[d])) # {}
      <3> DEFINE verdict == Verdict(Screening(event[d]))
      <3>1. /\ verdict \in CheckVerdicts \union PolicyVerdicts
            /\ Applying(Checks(event[d])) = {} => verdict \in PolicyVerdicts
        BY <2>2, ScreeningVerdict
      <3>2. verdict \in Results /\ verdict # Ok
        BY <3>1, VerdictTypes
      <3>3. http[d] = 202 => verdict \notin CheckVerdicts
        BY <1>0, <3>1, VerdictTypes DEF DInv, AcceptedInv
      <3>4. Answer(d, verdict) /\ UNCHANGED <<event, work, disk>>
        BY <1>4, <2>2 DEF Screen, Screening
      <3> QED
        BY <3>2, <3>3, <3>4, AnsweringIInv
    <2> QED
      BY <2>1, <2>2
  <1>5. CASE Ingest(d)
    <2>1. /\ <<"error", "INGESTION">> \in Results /\ <<"error", "INGESTION">> # Ok
          /\ <<"error", "INGESTION">> \notin CheckVerdicts
      BY DEF Results, Ok, CheckVerdicts
    <2>2. pc[d] = "ingesting" => Worthy(event[d])
      BY <1>0 DEF DInv, WorthInv
    <2> QED
      BY <1>5, <2>1, <2>2, MovingIInv, AnsweringIInv DEF Ingest
  <1>6. CASE ReporterFails(d)
    BY <1>0, <1>6, MovingIInv DEF ReporterFails, DInv, WorthInv
  <1>7. CASE Raise(d)
    BY <1>7, MovingIInv DEF Raise
  <1> QED
    BY <1>1, <1>2, <1>3, <1>4, <1>5, <1>6, <1>7

-----------------------------------------------------------------------------
(* The pipeline. *)

LEMMA PipelineSteps ==
  ASSUME IInv, NEW d \in Deliveries,
         \/ Analyse(d) \/ WriteJson(d) \/ WriteMarkdown(d) \/ CreateFixPR(d)
         \/ WriteObservability(d)
  PROVE  IInv'
  <1> USE DEF Goto, Completes, disk
  <1>0. TypeOK /\ DInv(d)
    BY DEF IInv
  <1>1. /\ pc[d] \in {"analysing", "reporting", "rendering", "fixing", "observing"}
        /\ pc' = [pc EXCEPT ![d] = pc'[d]]
        /\ pc'[d] \in {"reporting", "rendering", "fixing", "observing", "summarising"}
        /\ UNCHANGED <<event, http, result, posted, trouble>>
        /\ json' \in {json, d} /\ md' \in {md, d} /\ obs' \in {obs, d}
    BY <1>0 DEF TypeOK, Analyse, WriteJson, WriteMarkdown, CreateFixPR, WriteObservability, work
  <1>2. TypeOK'
    <2>1. CASE Analyse(d)
      BY <1>0, <1>1, <2>1, AppServerAssumption DEF TypeOK, Stages, Analyse
    <2>2. CASE WriteJson(d)
      BY <1>0, <1>1, <2>2 DEF TypeOK, Stages, WriteJson, work
    <2>3. CASE WriteMarkdown(d)
      BY <1>0, <1>1, <2>3 DEF TypeOK, Stages, WriteMarkdown
    <2>4. CASE CreateFixPR(d)
      BY <1>0, <1>1, <2>4 DEF TypeOK, Stages, CreateFixPR
    <2>5. CASE WriteObservability(d)
      BY <1>0, <1>1, <2>5 DEF TypeOK, Stages, WriteObservability, work
    <2> QED
      BY <2>1, <2>2, <2>3, <2>4, <2>5
  <1>3. Worthy(event[d])
    BY <1>0, <1>1 DEF DInv, WorthInv, PastScreening
  <1>4. WorthInv(d)'
    BY <1>1, <1>3 DEF WorthInv
  <1>5. SurfaceInv(d)'
    BY <1>0, <1>1 DEF DInv, SurfaceInv, BeforePublishing, Publishing, Stages
  <1>6. OkInv(d)' /\ AcceptedInv(d)'
    BY <1>0, <1>1 DEF DInv, OkInv, AcceptedInv
  <1>7. \A q \in Deliveries \ {d} :
          pc'[q] = pc[q] /\ found'[q] = found[q] /\ done'[q] = done[q] /\ pr'[q] = pr[q]
    BY <1>0 DEF TypeOK, Analyse, WriteJson, WriteMarkdown, CreateFixPR, WriteObservability, work
  <1> QED
    BY <1>0, <1>1, <1>2, <1>4, <1>5, <1>6, <1>7, Frame DEF DInv

-----------------------------------------------------------------------------
(* Publishing. *)

LEMMA PublishSteps ==
  ASSUME IInv, NEW d \in Deliveries, Summary(d) \/ Inline(d) \/ Status(d)
  PROVE  IInv'
  <1>0. /\ TypeOK /\ DInv(d) /\ Due(d) \subseteq Surfaces
        /\ Surfaces \subseteq {"summary", "inline", "status"}
    BY DueFacts DEF IInv
  <1>1. PICK stage \in {"summarising", "inlining", "flagging"},
             surface \in {"summary", "inline", "status"},
             next \in {"inlining", "flagging", "concluding"} :
          /\ Publish(d, stage, surface, next)
          /\ \/ stage = "summarising" /\ surface = "summary" /\ next = "inlining"
             \/ stage = "inlining" /\ surface = "inline" /\ next = "flagging"
             \/ stage = "flagging" /\ surface = "status" /\ next = "concluding"
    BY DEF Summary, Inline, Status
  <1>2. /\ pc[d] = stage /\ pc' = [pc EXCEPT ![d] = next]
        /\ UNCHANGED <<event, http, result, found, done, pr, disk>>
        /\ \A q \in Deliveries \ {d} : posted'[q] = posted[q] /\ trouble'[q] = trouble[q]
        /\ posted' \in [Deliveries -> SUBSET Surfaces]
        /\ trouble' \in [Deliveries -> SUBSET Surfaces]
        /\ posted'[d] \union trouble'[d] =
             (posted[d] \union trouble[d]) \union (Due(d) \intersect {surface})
    BY <1>0, <1>1 DEF Publish, Goto, TypeOK
  <1>3. TypeOK'
    BY <1>0, <1>2 DEF TypeOK, Stages, disk
  <1>4. Due(d)' = Due(d) /\ pc'[d] = next
    BY <1>0, <1>2 DEF Due, ShouldPost, TypeOK
  <1>5. Worthy(event[d])
    BY <1>0, <1>1, <1>2 DEF DInv, WorthInv, PastScreening, Publishing
  <1>6. WorthInv(d)'
    BY <1>2, <1>5 DEF WorthInv
  <1>7. SurfaceInv(d)'
    <2> DEFINE reached == posted[d] \union trouble[d]
    <2>1. pc'[d] \notin BeforePublishing
      BY <1>1, <1>4 DEF BeforePublishing, Publishing
    <2>2. CASE stage = "summarising"
      <3>1. reached = {} /\ surface = "summary" /\ next = "inlining"
        BY <1>0, <1>1, <1>2, <2>2 DEF DInv, SurfaceInv, BeforePublishing, Publishing, Stages
      <3> QED
        BY <1>2, <1>4, <2>1, <3>1 DEF SurfaceInv
    <2>3. CASE stage = "inlining"
      <3>1. /\ reached = Due(d) \intersect {"summary"}
            /\ surface = "inline" /\ next = "flagging"
        BY <1>0, <1>1, <1>2, <2>3 DEF DInv, SurfaceInv
      <3>2. reached \union (Due(d) \intersect {surface}) = Due(d) \intersect {"summary", "inline"}
        BY <3>1
      <3> QED
        BY <1>2, <1>4, <2>1, <3>1, <3>2 DEF SurfaceInv
    <2>4. CASE stage = "flagging"
      <3>1. /\ reached = Due(d) \intersect {"summary", "inline"}
            /\ surface = "status" /\ next = "concluding"
        BY <1>0, <1>1, <1>2, <2>4 DEF DInv, SurfaceInv
      <3>2. reached \union (Due(d) \intersect {surface}) = Due(d)
        BY <1>0, <3>1
      <3> QED
        BY <1>2, <1>4, <2>1, <3>1, <3>2 DEF SurfaceInv
    <2> QED
      BY <1>1, <2>2, <2>3, <2>4
  <1>8. OkInv(d)' /\ AcceptedInv(d)'
    BY <1>0, <1>1, <1>2 DEF DInv, OkInv, AcceptedInv
  <1> QED
    BY <1>0, <1>2, <1>3, <1>6, <1>7, <1>8, Frame DEF DInv, TypeOK, disk

(* The reason a finding gives is a code the runtime knows. *)
LEMMA AgenticFound ==
  ASSUME TypeOK, NEW d \in Deliveries
  PROVE  found[d].agentic \in {"none"} \union Agentic
  <1>1. found[d] \in Findings \union {NothingFound}
    BY DEF TypeOK
  <1>2. NothingFound.agentic = "none"
    BY DEF NothingFound
  <1> QED
    BY <1>1, <1>2, AppServerAssumption

Partial ==
  {<<"partial", code>> : code \in Agentic \union {"COMMENT_API_ERROR", "STATUS_API_ERROR",
                                                  "ARTIFACT_OUTPUT_MISSING"}}
Delivered == {Ok} \union Partial

LEMMA PairFacts == ASSUME NEW a, NEW b PROVE <<a, b>>[1] = a /\ <<a, b>>[2] = b
  OBVIOUS

LEMMA ListFacts ==
  ASSUME NEW a, NEW b, NEW c, NEW e
  PROVE  /\ DOMAIN <<a, b, c, e>> = {1, 2, 3, 4} /\ {1, 2, 3, 4} \subseteq 1 .. 7
         /\ <<a, b, c, e>>[1] = a /\ <<a, b, c, e>>[2] = b
         /\ <<a, b, c, e>>[3] = c /\ <<a, b, c, e>>[4] = e
  OBVIOUS

LEMMA OkFacts == Ok[1] = "ok" /\ Ok[2] = ""
  BY PairFacts, Zenon DEF Ok

LEMMA DeliveredFacts ==
  ASSUME NEW r \in Delivered
  PROVE  r \in Results /\ r \notin CheckVerdicts /\ (r \in Partial => r # Ok)
         /\ r[1] \in {"ok", "partial"}
  <1>1. ASSUME r \in Partial PROVE r[1] = "partial"
    <2>1. PICK code : r = <<"partial", code>>
      BY <1>1, Zenon DEF Partial
    <2> QED
      BY <2>1
  <1>2. r \in Results
    BY VerdictTypes, Zenon DEF Delivered, Partial, Results
  <1>3. r[1] \in {"ok", "partial"}
    BY <1>1, OkFacts, Zenon DEF Delivered
  <1>4. \A v \in CheckVerdicts : v[1] \in {"error", "skipped"}
    BY DEF CheckVerdicts
  <1>5. r \notin CheckVerdicts
    BY <1>3, <1>4
  <1>6. r \in Partial => r # Ok
    <2>1. "partial" # "ok"
      OBVIOUS
    <2> QED
      BY <1>1, <2>1, OkFacts, Zenon
  <1> QED
    BY <1>2, <1>3, <1>5, <1>6

(* The work to the end is never reported as skipped or as an error, and as *)
(* ok only if nothing on the list went wrong.                              *)
LEMMA OutcomeIs ==
  ASSUME TypeOK, NEW d \in Deliveries
  PROVE  /\ Outcome(d) \in Delivered
         /\ Outcome(d) = Ok => /\ trouble[d] \intersect {"summary", "inline", "status"} = {}
                               /\ "reporter" \in done[d]
  <1> DEFINE a == <<trouble[d] \intersect {"summary", "inline"} # {}, <<"partial", "COMMENT_API_ERROR">>>>
             b == <<"status" \in trouble[d], <<"partial", "STATUS_API_ERROR">>>>
             c == <<found[d].agentic # "none", <<"partial", found[d].agentic>>>>
             e == <<"reporter" \notin done[d], <<"partial", "ARTIFACT_OUTPUT_MISSING">>>>
             causes == <<a, b, c, e>>
  <1>1. Outcome(d) = IF Applying(causes) = {} THEN Ok ELSE Verdict(causes)
    BY Zenon DEF Outcome
  <1>2. /\ a[1] <=> trouble[d] \intersect {"summary", "inline"} # {}
        /\ b[1] <=> "status" \in trouble[d]
        /\ c[1] <=> found[d].agentic # "none"
        /\ e[1] <=> "reporter" \notin done[d]
    BY PairFacts, Zenon
  <1>3. /\ a[2] = <<"partial", "COMMENT_API_ERROR">> /\ b[2] = <<"partial", "STATUS_API_ERROR">>
        /\ c[2] = <<"partial", found[d].agentic>>
        /\ e[2] = <<"partial", "ARTIFACT_OUTPUT_MISSING">>
    BY PairFacts, Zenon
  <1> HIDE DEF a, b, c, e
  <1>4. a[2] \in Partial /\ b[2] \in Partial /\ e[2] \in Partial
    BY <1>3, Zenon DEF Partial
  <1>5. c[1] => c[2] \in Partial
    <2>1. c[1] => found[d].agentic \in Agentic
      BY <1>2, AgenticFound, Zenon
    <2> QED
      BY <1>3, <2>1, Zenon DEF Partial
  <1>6. DOMAIN causes = {1, 2, 3, 4} /\ {1, 2, 3, 4} \subseteq 1 .. 7
        /\ causes[1] = a /\ causes[2] = b /\ causes[3] = c /\ causes[4] = e
    BY ListFacts DEF causes
  <1> HIDE DEF causes
  <1>7. \A i \in DOMAIN causes : causes[i][1] => causes[i][2] \in Partial
    BY <1>4, <1>5, <1>6, Zenon
  <1>8. CASE Applying(causes) = {}
    <2>1. \A i \in DOMAIN causes : ~causes[i][1]
      BY <1>8, Zenon DEF Applying
    <2>2. ~a[1] /\ ~b[1] /\ ~e[1]
      BY <1>6, <2>1, Zenon
    <2>3. trouble[d] \intersect {"summary", "inline", "status"} = {} /\ "reporter" \in done[d]
      BY <1>2, <2>2
    <2> QED
      BY <1>1, <1>8, <2>3, Zenon DEF Delivered
  <1>9. CASE Applying(causes) # {}
    <2>1. PICK i \in Applying(causes) : Verdict(causes) = causes[i][2]
      BY <1>6, <1>9, VerdictOfOne
    <2>2. Verdict(causes) \in Partial
      BY <1>7, <2>1, Zenon DEF Applying
    <2>3. Outcome(d) \in Partial
      BY <1>1, <1>9, <2>2, Zenon
    <2> QED
      BY <2>3, DeliveredFacts, Zenon DEF Delivered
  <1> QED
    BY <1>8, <1>9

(* An ok outcome means that no surface failed: those that were due were    *)
(* reached.                                                                *)
LEMMA ConcludeIInv == ASSUME IInv, NEW d \in Deliveries, Conclude(d) PROVE IInv'
  <1>1. /\ TypeOK /\ DInv(d) /\ Due(d) \subseteq Surfaces
        /\ Surfaces \subseteq {"summary", "inline", "status"}
        /\ posted[d] \subseteq Surfaces /\ trouble[d] \subseteq Surfaces
    BY DueFacts DEF IInv, TypeOK
  <1>2. Outcome(d) \in Results /\ Outcome(d) \notin CheckVerdicts
    BY <1>1, OutcomeIs, DeliveredFacts, Zenon
  <1>3. Outcome(d) = Ok => posted[d] = Due(d) /\ "reporter" \in done[d]
    <2>1. posted[d] \union trouble[d] = Due(d)
      BY <1>1 DEF DInv, SurfaceInv, Conclude
    <2>2. Outcome(d) = Ok => /\ trouble[d] \intersect {"summary", "inline", "status"} = {}
                             /\ "reporter" \in done[d]
      BY <1>1, OutcomeIs, Zenon
    <2>3. trouble[d] \intersect {"summary", "inline", "status"} = {} => trouble[d] = {}
      BY <1>1
    <2> QED
      BY <2>1, <2>2, <2>3
  <1>4. Answer(d, Outcome(d)) /\ UNCHANGED <<event, work, disk>>
    BY Zenon DEF Conclude
  <1> QED
    BY <1>2, <1>3, <1>4, AnsweringIInv

-----------------------------------------------------------------------------

LEMMA RestartIInv == ASSUME IInv, Restart PROVE IInv'
  <1> USE DEF work, disk
  <1>0. TypeOK
    BY DEF IInv
  <1>1. TypeOK'
    BY <1>0 DEF TypeOK, Restart, Ended
  <1>2. ASSUME NEW d \in Deliveries PROVE DInv(d)'
    <2>1. /\ DInv(d) /\ Due(d)' = Due(d)
          /\ UNCHANGED <<event, http, result, work, disk>>
          /\ pc'[d] = pc[d] \/ (pc'[d] = "lost" /\ pc[d] \in Stages)
      BY DEF IInv, Restart, Busy, Due, ShouldPost
    <2>2. WorthInv(d)'
      BY <2>1 DEF DInv, WorthInv, PastScreening, Publishing
    <2>3. SurfaceInv(d)'
      BY <2>1 DEF DInv, SurfaceInv, BeforePublishing, Publishing, Stages
    <2>4. OkInv(d)' /\ AcceptedInv(d)'
      BY <2>1 DEF DInv, OkInv, AcceptedInv, Stages
    <2> QED
      BY <2>2, <2>3, <2>4 DEF DInv
  <1> QED
    BY <1>1, <1>2 DEF IInv

LEMMA NextIInv == IInv /\ [Next]_vars => IInv'
  <1> SUFFICES ASSUME IInv, [Next]_vars PROVE IInv'
    OBVIOUS
  <1>1. ASSUME NEW d \in Deliveries, Receive(d) \/ Accept(d) \/ Step(d) PROVE IInv'
    BY <1>1, ScreeningSteps, AcceptIInv, PipelineSteps, PublishSteps, ConcludeIInv DEF Step
  <1>2. CASE UNCHANGED vars
    BY <1>2 DEF vars, work, disk, IInv, TypeOK, DInv, WorthInv, SurfaceInv, OkInv,
       AcceptedInv, Due, ShouldPost
  <1> QED
    BY <1>1, <1>2, RestartIInv DEF Next

(* The inductive invariant, the types among it, holds in every state. *)
THEOREM ServerInvariance == Spec => []IInv
  BY InitIInv, NextIInv, PTL DEF Spec

(* The server's queue, threads and answers stay of their types.            *)
THEOREM TypeCorrect == Spec => []TypeOK
  <1>1. IInv => TypeOK
    BY DEF IInv
  <1> QED
    BY <1>1, ServerInvariance, PTL

(* Whatever events arrive and whatever fails, only a signed event that     *)
(* says a workflow run failed in an allowed repository has any effect.     *)
THEOREM AnswersFailuresOnly == Spec => []OnlyFailuresAnswered
  <1>1. IInv => OnlyFailuresAnswered
    BY DEF IInv, DInv, WorthInv, Worthy, OnlyFailuresAnswered
  <1> QED
    BY ServerInvariance, <1>1, PTL

(* A delivery reported as ok reached exactly the surfaces that were due    *)
(* and left its report.                                                    *)
THEOREM OkIsDelivered == Spec => []OkMeansDelivered
  <1>1. IInv => OkMeansDelivered
    BY DEF IInv, DInv, OkInv, OkMeansDelivered
  <1> QED
    BY ServerInvariance, <1>1, PTL

-----------------------------------------------------------------------------
(* The refinement of Delivery.  What is touched is touched past the        *)
(* analysis, and from there on no way leads to a harmless report.          *)

Early == {"sent", "accepted", "minting", "screening", "ingesting", "analysing"}
BeforeFix == Early \union {"reporting", "rendering", "fixing"}
EarlyInv ==
  \A d \in Deliveries : /\ pc[d] \in Early => "reporter" \notin done[d]
                        /\ pc[d] \in BeforeFix => ~pr[d]

LEMMA EarlyInit == Init => EarlyInv
  BY DEF Init, EarlyInv, BeforeFix

(* A step that does not lead back is all EarlyInv needs. *)
LEMMA EarlyMove ==
  ASSUME TypeOK, EarlyInv, NEW d \in Deliveries, NEW stage,
         pc' = [pc EXCEPT ![d] = stage],
         \A q \in Deliveries \ {d} : pr'[q] = pr[q] /\ done'[q] = done[q],
         stage \in Early => pc[d] \in Early /\ UNCHANGED done,
         stage \in BeforeFix => pc[d] \in BeforeFix /\ UNCHANGED pr
  PROVE  EarlyInv'
  BY DEF EarlyInv, TypeOK

LEMMA EarlyStep == TypeOK /\ EarlyInv /\ [Next]_vars => EarlyInv'
  <1> SUFFICES ASSUME TypeOK, EarlyInv, [Next]_vars PROVE EarlyInv'
    OBVIOUS
  <1>1. ASSUME NEW d \in Deliveries, Receive(d) \/ StartWorker(d) PROVE EarlyInv'
    <2>1. /\ pc' = [pc EXCEPT ![d] = Process(event[d])] /\ pc[d] \in Early
          /\ UNCHANGED <<pr, done>>
      BY <1>1 DEF Receive, StartWorker, Goto, Early, work
    <2> QED
      BY <2>1, EarlyMove DEF BeforeFix
  <1>2. ASSUME NEW d \in Deliveries, NEW outcome, Answer(d, outcome), UNCHANGED work
        PROVE  EarlyInv'
    <2>1. pc' = [pc EXCEPT ![d] = "answered"] /\ UNCHANGED <<pr, done>> /\ "answered" \notin BeforeFix
      BY <1>2 DEF Answer, Goto, work, BeforeFix, Early
    <2> QED
      BY <2>1, EarlyMove DEF BeforeFix
  <1>3. ASSUME NEW d \in Deliveries, Accept(d) PROVE EarlyInv'
    <2>1. CASE pc[d] = "sent" /\ Goto(d, "accepted") /\ UNCHANGED work
      <3>1. /\ pc' = [pc EXCEPT ![d] = "accepted"] /\ pc[d] \in Early
            /\ UNCHANGED <<pr, done>>
        BY <2>1 DEF Goto, Early, work
      <3> QED
        BY <3>1, EarlyMove DEF BeforeFix
    <2> QED
      BY <1>2, <1>3, <2>1 DEF Accept
  <1>4. ASSUME NEW d \in Deliveries, Mint(d) \/ Screen(d) \/ Ingest(d) PROVE EarlyInv'
    <2>1. ASSUME NEW stage, Goto(d, stage), pc[d] \in Early, UNCHANGED work PROVE EarlyInv'
      <3>1. pc' = [pc EXCEPT ![d] = stage] /\ UNCHANGED <<pr, done>>
        BY <2>1 DEF Goto, work
      <3> QED
        BY <2>1, <3>1, EarlyMove DEF BeforeFix
    <2> QED
      BY <1>2, <1>4, <2>1 DEF Mint, Screen, Ingest, Early
  <1>5. ASSUME NEW d \in Deliveries,
               Analyse(d) \/ WriteJson(d) \/ WriteMarkdown(d) \/ ReporterFails(d)
        PROVE  EarlyInv'
    <2>1. PICK stage \in {"reporting", "rendering", "fixing", "observing"} :
            pc' = [pc EXCEPT ![d] = stage]
      BY <1>5 DEF Analyse, WriteJson, WriteMarkdown, ReporterFails, Goto
    <2>2. \A q \in Deliveries \ {d} : pr'[q] = pr[q] /\ done'[q] = done[q]
      BY <1>5 DEF Analyse, WriteJson, WriteMarkdown, ReporterFails, Completes, TypeOK, work
    <2>3. stage \notin Early /\ pc[d] \in BeforeFix /\ UNCHANGED pr
      BY <1>5 DEF Analyse, WriteJson, WriteMarkdown, ReporterFails, Early, BeforeFix, work
    <2> QED
      BY <2>1, <2>2, <2>3, EarlyMove
  <1>9. ASSUME NEW d \in Deliveries,
                \/ CreateFixPR(d) \/ WriteObservability(d)
                \/ Summary(d) \/ Inline(d) \/ Status(d) \/ Raise(d)
         PROVE  EarlyInv'
    <2>1. PICK stage \in {"observing", "summarising", "inlining", "flagging", "concluding",
                         "raised"} : pc' = [pc EXCEPT ![d] = stage]
      BY <1>9 DEF CreateFixPR, WriteObservability, Summary, Inline, Status, Publish, Raise, Goto
    <2>2. \A q \in Deliveries \ {d} : pr'[q] = pr[q] /\ done'[q] = done[q]
      BY <1>9 DEF CreateFixPR, WriteObservability, Summary, Inline, Status, Publish, Raise,
         Completes, TypeOK, work
    <2>3. stage \notin BeforeFix /\ stage \notin Early
      BY DEF BeforeFix, Early
    <2> QED
      BY <2>1, <2>2, <2>3, EarlyMove
  <1>6. ASSUME NEW d \in Deliveries, Conclude(d) PROVE EarlyInv'
    BY <1>2, <1>6 DEF Conclude
  <1>7. CASE Restart
    BY <1>7 DEF Restart, EarlyInv, BeforeFix, Early, work
  <1>8. CASE UNCHANGED vars
    BY <1>8 DEF vars, work, EarlyInv
  <1> QED
    BY <1>1, <1>3, <1>4, <1>5, <1>9, <1>6, <1>7, <1>8 DEF Next, Step

(* The mapping: how a step of one delivery looks from outside. *)
StateMap == [d \in Deliveries |-> Progress(d)]
TouchMap == [d \in Deliveries |-> Touched(d)]
ProgressAt(stage) ==
  CASE stage = "sent" -> "sent"
    [] stage \in Stages -> "working"
    [] stage = "answered" -> "finished"
    [] OTHER -> "gone"

LEMMA StateMoves ==
  ASSUME TypeOK, NEW d \in Deliveries, NEW stage, pc' = [pc EXCEPT ![d] = stage]
  PROVE  /\ StateMap' = [StateMap EXCEPT ![d] = ProgressAt(stage)]
         /\ StateMap[d] = ProgressAt(pc[d])
  <1>1. \A q \in Deliveries : Progress(q) = ProgressAt(pc[q]) /\ Progress(q)' = ProgressAt(pc'[q])
    BY DEF Progress, ProgressAt
  <1>2. \A q \in Deliveries : pc'[q] = IF q = d THEN stage ELSE pc[q]
    BY DEF TypeOK
  <1>3. StateMap = [q \in Deliveries |-> ProgressAt(pc[q])]
    BY <1>1 DEF StateMap
  <1>4. StateMap' = [q \in Deliveries |-> ProgressAt(pc'[q])]
    BY <1>1 DEF StateMap
  <1> QED
    BY <1>2, <1>3, <1>4

LEMMA TouchStays ==
  ASSUME UNCHANGED <<posted, trouble, pr, done>>
  PROVE  UNCHANGED TouchMap
  BY DEF TouchMap, Touched

LEMMA EarlyIsUntouched ==
  ASSUME IInv, EarlyInv, NEW d \in Deliveries, pc[d] \in Early
  PROVE  ~TouchMap[d]
  BY DEF IInv, DInv, SurfaceInv, EarlyInv, BeforeFix, BeforePublishing, Publishing,
     Early, Stages, TouchMap, Touched

(* The kind of an outcome says which reasons it may have. *)
LEMMA ResultKinds ==
  ASSUME NEW r \in Results
  PROVE  \/ r[1] = "error"
         \/ /\ r[1] \in {"ok", "partial", "skipped"}
            /\ r[2] # "WEBHOOK_VALIDATION_FAILED" /\ r[2] # "APP_AUTH_ERROR"
  <1>1. CASE r = Ok
    <2>1. r[2] = "" /\ r[1] = "ok"
      BY <1>1, OkFacts, Zenon
    <2>2. "" # "WEBHOOK_VALIDATION_FAILED" /\ "" # "APP_AUTH_ERROR"
      BY Zenon
    <2> QED
      BY <2>1, <2>2, Zenon
  <1>2. CASE r # Ok
    <2>1. \/ \E code \in Agentic \union {"COMMENT_API_ERROR", "STATUS_API_ERROR",
                                         "ARTIFACT_OUTPUT_MISSING"} : r = <<"partial", code>>
          \/ \E code \in {"UNSUPPORTED_EVENT", "MISSING_FIELD", "WORKFLOW_NOT_COMPLETED",
                          "WORKFLOW_NOT_FAILED", "REPOSITORY_NOT_ALLOWED",
                          "MISSING_BASE_SHA"} : r = <<"skipped", code>>
          \/ \E code : r = <<"error", code>>
      BY <1>2 DEF Results
    <2> QED
      BY <2>1 DEF Agentic
  <1> QED
    BY <1>1, <1>2

LEMMA DeliveredIsHarm ==
  ASSUME NEW r \in Delivered
  PROVE  ~D!Harmless(r)
  BY DeliveredFacts DEF D!Harmless

LEMMA CodesAgree ==
  ASSUME NEW r \in Results
  PROVE  StatusCode(r) \in D!Codes(r)
  <1>1. CASE r[1] = "error"
    BY <1>1 DEF StatusCode, D!Codes
  <1>2. CASE /\ r[1] \in {"ok", "partial", "skipped"}
             /\ r[2] # "WEBHOOK_VALIDATION_FAILED" /\ r[2] # "APP_AUTH_ERROR"
    <2>1. StatusCode(r) = 200
      BY <1>2 DEF StatusCode
    <2> QED
      BY <1>2, <2>1 DEF D!Codes
  <1> QED
    BY <1>1, <1>2, ResultKinds

Refused == {Checks(e)[i][2] : e \in Events, i \in 1 .. 5}

LEMMA RefusedAreVerdicts == Refused \subseteq CheckVerdicts
  BY ChecksShape DEF Refused

(* An answer, from outside. *)
LEMMA AnswersFinish ==
  ASSUME IInv, NEW d \in Deliveries, NEW outcome \in Results, Answer(d, outcome),
         UNCHANGED <<event, work, disk>>,
         TouchMap[d] => ~D!Harmless(outcome),
         http[d] = 202 => outcome \notin CheckVerdicts
  PROVE  D!Finish(d, outcome)
  <1>1. TypeOK
    BY DEF IInv
  <1>2. /\ pc' = [pc EXCEPT ![d] = "answered"] /\ result' = [result EXCEPT ![d] = outcome]
        /\ http' = [http EXCEPT ![d] = IF @ = 0 THEN StatusCode(outcome) ELSE @]
        /\ UNCHANGED <<posted, trouble, pr, done>>
    BY DEF Answer, Goto, work
  <1>3. StateMap' = [StateMap EXCEPT ![d] = "finished"] /\ UNCHANGED TouchMap
    BY <1>1, <1>2, StateMoves, TouchStays DEF ProgressAt, Stages
  <1>4. http[d] = 202 => outcome \notin Refused
    BY RefusedAreVerdicts
  <1>5. D!Answer(d, outcome)
    <2>1. CASE http[d] = 0
      <3>1. http' = [http EXCEPT ![d] = StatusCode(outcome)]
        BY <1>2, <2>1
      <3> QED
        BY <2>1, <3>1, CodesAgree DEF D!Answer
    <2>2. CASE http[d] # 0
      <3>1. http' = http
        BY <1>1, <1>2, <2>2 DEF TypeOK
      <3> QED
        BY <2>2, <3>1 DEF D!Answer
    <2> QED
      BY <2>1, <2>2
  <1> QED
    BY <1>2, <1>3, <1>4, <1>5 DEF D!Finish, StateMap, TouchMap, Refused

(* A stutter: work that leaves no trace yet. *)
Unseen == UNCHANGED <<StateMap, http, result, TouchMap>>
Seen == D!Next \/ Unseen

LEMMA ProgressIs ==
  /\ ProgressAt("sent") = "sent" /\ \A stage \in Stages : ProgressAt(stage) = "working"
  /\ ProgressAt("answered") = "finished"
  /\ ProgressAt("raised") = "gone" /\ ProgressAt("lost") = "gone"
  <1>1. "sent" \notin Stages /\ Ended \intersect Stages = {}
    BY DEF Stages, Ended
  <1> QED
    BY <1>1 DEF ProgressAt, Ended

LEMMA WorkingOn ==
  ASSUME TypeOK, NEW d \in Deliveries, NEW stage \in Stages, pc[d] \in Stages,
         pc' = [pc EXCEPT ![d] = stage]
  PROVE  StateMap[d] = "working" /\ UNCHANGED StateMap
  <1>1. /\ StateMap' = [StateMap EXCEPT ![d] = ProgressAt(stage)]
        /\ StateMap[d] = ProgressAt(pc[d])
    BY StateMoves
  <1>2. \A q \in Stages : ProgressAt(q) = "working"
    BY ProgressIs
  <1>3. ProgressAt(stage) = "working" /\ StateMap[d] = "working"
    BY <1>1, <1>2
  <1>4. StateMap' = [StateMap EXCEPT ![d] = StateMap[d]]
    BY <1>1, <1>3
  <1> QED
    BY <1>3, <1>4 DEF StateMap

LEMMA WaitingSteps ==
  ASSUME IInv, EarlyInv, NEW d \in Deliveries, Receive(d) \/ Accept(d)
  PROVE  Seen
  <1>1. TypeOK /\ DInv(d) /\ pc[d] = "sent" /\ ~TouchMap[d]
    BY EarlyIsUntouched DEF IInv, Receive, Accept, Early
  <1>2. ASSUME NEW stage \in Stages, pc' = [pc EXCEPT ![d] = stage],
               UNCHANGED <<result, work>>, http' \in {http, [http EXCEPT ![d] = 202]}
        PROVE  D!Take(d)
    <2>1. StateMap' = [StateMap EXCEPT ![d] = "working"] /\ StateMap[d] = "sent"
      <3>1. /\ StateMap' = [StateMap EXCEPT ![d] = ProgressAt(stage)]
            /\ StateMap[d] = ProgressAt(pc[d])
        BY <1>1, <1>2, StateMoves
      <3> QED
        BY <1>1, <3>1, ProgressIs
    <2>2. UNCHANGED TouchMap
      BY <1>2, TouchStays DEF work
    <2> QED
      BY <1>2, <2>1, <2>2 DEF D!Take, StateMap, TouchMap
  <1>3. CASE Receive(d)
    <2>1. Process(event[d]) \in Stages
      BY DEF Process, Stages
    <2>2. D!Take(d)
      BY <1>2, <1>3, <2>1 DEF Receive, Goto
    <2> QED
      BY <2>2 DEF Seen, D!Next
  <1>4. CASE Accept(d) /\ Applying(Checks(event[d])) = {}
    <2>1. D!Take(d)
      BY <1>2, <1>4 DEF Accept, Goto, Stages
    <2> QED
      BY <2>1 DEF Seen, D!Next
  <1>5. CASE Accept(d) /\ Applying(Checks(event[d])) # {}
    <2> DEFINE verdict == Verdict(Checks(event[d]))
               outcome == IF verdict[2] = "WEBHOOK_VALIDATION_FAILED"
                          THEN verdict ELSE <<"skipped", verdict[2]>>
    <2>1. verdict \in CheckVerdicts
      BY <1>5, VerdictOfOne, ChecksShape DEF Applying
    <2>2. verdict[2] \in {"WEBHOOK_VALIDATION_FAILED", "UNSUPPORTED_EVENT", "MISSING_FIELD",
                          "WORKFLOW_NOT_COMPLETED", "WORKFLOW_NOT_FAILED"}
      BY <2>1 DEF CheckVerdicts
    <2>3. \A v \in CheckVerdicts : v[1] \in {"error", "skipped"}
      BY DEF CheckVerdicts
    <2>4. outcome \in Results
      <3>1. ASSUME verdict[2] # "WEBHOOK_VALIDATION_FAILED"
            PROVE  <<"skipped", verdict[2]>> \in Results
        BY <2>2, <3>1 DEF Results
      <3> QED
        BY <2>1, <3>1, VerdictTypes
    <2>5. D!Harmless(outcome)
      BY <2>1, <2>3 DEF D!Harmless
    <2>6. http[d] # 202
      BY <1>1, <1>5 DEF DInv, AcceptedInv
    <2>7. Answer(d, outcome) /\ UNCHANGED <<event, work, disk>>
      BY <1>5 DEF Accept
    <2> HIDE DEF outcome
    <2>8. D!Finish(d, outcome)
      BY <1>1, <2>4, <2>6, <2>7, AnswersFinish
    <2>9. StateMap[d] = "sent"
      <3>1. StateMap[d] = ProgressAt(pc[d])
        BY DEF StateMap, Progress, ProgressAt
      <3> QED
        BY <1>1, <3>1, ProgressIs
    <2>10. D!TurnAway(d)
      BY <2>4, <2>5, <2>8, <2>9 DEF D!TurnAway, StateMap
    <2> QED
      BY <2>10 DEF Seen, D!Next
  <1> QED
    BY <1>3, <1>4, <1>5

LEMMA AnswersReport ==
  ASSUME IInv, NEW d \in Deliveries, NEW outcome \in Results, Answer(d, outcome),
         UNCHANGED <<event, work, disk>>, pc[d] \in Stages,
         TouchMap[d] => ~D!Harmless(outcome),
         http[d] = 202 => outcome \notin CheckVerdicts
  PROVE  Seen
  <1>1. D!Finish(d, outcome)
    BY AnswersFinish
  <1>2. StateMap[d] = "working"
    BY DEF StateMap, Progress, Stages
  <1>3. D!Report(d)
    BY <1>1, <1>2 DEF D!Report, StateMap
  <1> QED
    BY <1>3 DEF Seen, D!Next

LEMMA EarlySteps ==
  ASSUME IInv, EarlyInv, NEW d \in Deliveries,
         StartWorker(d) \/ Mint(d) \/ Screen(d) \/ Ingest(d)
  PROVE  Seen
  <1>1. TypeOK /\ DInv(d) /\ pc[d] \in Stages /\ ~TouchMap[d] /\ UNCHANGED <<event, work, disk>>
    BY EarlyIsUntouched DEF IInv, StartWorker, Mint, Screen, Ingest, Early, Stages
  <1>2. ASSUME NEW stage \in Stages, Goto(d, stage), UNCHANGED <<http, result>>
        PROVE  Seen
    BY <1>1, <1>2, WorkingOn, TouchStays DEF Seen, Unseen, Goto, work
  <1>3. CASE StartWorker(d)
    <2>1. Process(event[d]) \in Stages
      BY DEF Process, Stages
    <2> QED
      BY <1>2, <1>3, <2>1 DEF StartWorker
  <1>4. CASE Mint(d)
    <2>1. /\ <<"error", "APP_AUTH_ERROR">> \in Results
          /\ <<"error", "APP_AUTH_ERROR">> \notin CheckVerdicts
      BY DEF Results, CheckVerdicts
    <2> QED
      BY <1>1, <1>2, <1>4, <2>1, AnswersReport DEF Mint, Stages
  <1>5. CASE Screen(d)
    <2> DEFINE verdict == Verdict(Screening(event[d]))
    <2>1. ASSUME Applying(Screening(event[d])) # {}
          PROVE  verdict \in Results /\ (http[d] = 202 => verdict \notin CheckVerdicts)
      <3>1. /\ verdict \in CheckVerdicts \union PolicyVerdicts
            /\ Applying(Checks(event[d])) = {} => verdict \in PolicyVerdicts
        BY <2>1, ScreeningVerdict
      <3> QED
        BY <1>1, <3>1, VerdictTypes DEF DInv, AcceptedInv
    <2>2. \/ Goto(d, "ingesting") /\ UNCHANGED <<http, result>>
          \/ Applying(Screening(event[d])) # {} /\ Answer(d, verdict)
      BY <1>5 DEF Screen, Screening
    <2> HIDE DEF verdict
    <2> QED
      BY <1>1, <1>2, <2>1, <2>2, AnswersReport DEF Stages
  <1>6. CASE Ingest(d)
    <2>1. /\ <<"error", "INGESTION">> \in Results
          /\ <<"error", "INGESTION">> \notin CheckVerdicts
      BY DEF Results, CheckVerdicts
    <2> QED
      BY <1>1, <1>2, <1>6, <2>1, AnswersReport DEF Ingest, Stages
  <1> QED
    BY <1>3, <1>4, <1>5, <1>6

LEMMA WorkingSteps ==
  ASSUME IInv, EarlyInv, NEW d \in Deliveries,
         \/ Analyse(d) \/ WriteJson(d) \/ WriteMarkdown(d) \/ ReporterFails(d)
         \/ CreateFixPR(d) \/ WriteObservability(d)
         \/ Summary(d) \/ Inline(d) \/ Status(d)
  PROVE  Seen
  <1>1. TypeOK
    BY DEF IInv
  <1>2. PICK stage \in {"reporting", "rendering", "fixing", "observing", "summarising",
                        "inlining", "flagging", "concluding"} : pc' = [pc EXCEPT ![d] = stage]
    BY DEF Analyse, WriteJson, WriteMarkdown, ReporterFails, CreateFixPR, WriteObservability,
       Summary, Inline, Status, Publish, Goto
  <1>3. pc[d] \in Stages /\ stage \in Stages /\ UNCHANGED <<http, result>>
    BY DEF Analyse, WriteJson, WriteMarkdown, ReporterFails, CreateFixPR, WriteObservability,
       Summary, Inline, Status, Publish, Stages
  <1>4. StateMap[d] = "working" /\ UNCHANGED StateMap
    BY <1>1, <1>2, <1>3, WorkingOn
  <1>5. \A q \in Deliveries \ {d} : Touched(q)' = Touched(q)
    BY <1>1 DEF Analyse, WriteJson, WriteMarkdown, ReporterFails, CreateFixPR, WriteObservability,
       Summary, Inline, Status, Publish, Completes, TypeOK, Touched, work
  <1>6. Touched(d) => Touched(d)'
    <2>1. CASE Analyse(d)
      BY <2>1, EarlyIsUntouched DEF Analyse, Early, TouchMap
    <2>2. CASE WriteJson(d) \/ ReporterFails(d) \/ WriteObservability(d)
      BY <2>2 DEF WriteJson, ReporterFails, WriteObservability, Touched, work
    <2>3. CASE WriteMarkdown(d)
      BY <1>1, <2>3 DEF WriteMarkdown, Completes, TypeOK, Touched
    <2>4. CASE CreateFixPR(d)
      <3>1. ~pr[d]
        BY <2>4 DEF CreateFixPR, EarlyInv, BeforeFix
      <3> QED
        BY <1>1, <2>4, <3>1 DEF CreateFixPR, Completes, TypeOK, Touched
    <2>5. CASE Summary(d) \/ Inline(d) \/ Status(d)
      BY <1>1, <2>5 DEF Summary, Inline, Status, Publish, TypeOK, Touched
    <2> QED
      BY <2>1, <2>2, <2>3, <2>4, <2>5
  <1>7. CASE Touched(d)' = Touched(d)
    <2>1. UNCHANGED TouchMap
      BY <1>5, <1>7 DEF TouchMap
    <2> QED
      BY <1>3, <1>4, <2>1 DEF Seen, Unseen
  <1>8. CASE Touched(d)' # Touched(d)
    <2>1. TouchMap' = [TouchMap EXCEPT ![d] = TRUE]
      BY <1>5, <1>6, <1>8 DEF TouchMap, Touched
    <2>2. D!Touch(d)
      BY <1>3, <1>4, <2>1 DEF D!Touch, TouchMap, StateMap
    <2> QED
      BY <2>2 DEF Seen, D!Next
  <1> QED
    BY <1>7, <1>8

(* Threads that end in an exception, and those a restart takes along. *)
LEMMA Gone ==
  ASSUME TypeOK, NEW lost \in SUBSET Busy, NEW how \in {"raised", "lost"},
         pc' = [d \in Deliveries |-> IF d \in lost THEN how ELSE pc[d]],
         UNCHANGED <<http, result, work>>
  PROVE  Seen
  <1>1. \A d \in Deliveries : StateMap[d] = ProgressAt(pc[d])
    BY DEF StateMap, Progress, ProgressAt
  <1>2. StateMap' = [d \in Deliveries |-> ProgressAt(pc'[d])]
    BY DEF StateMap, Progress, ProgressAt
  <1>3. ASSUME NEW d \in Deliveries PROVE pc'[d] = IF d \in lost THEN how ELSE pc[d]
    OBVIOUS
  <1>4. StateMap' = [d \in Deliveries |-> IF d \in lost THEN "gone" ELSE StateMap[d]]
    BY <1>1, <1>2, <1>3, ProgressIs
  <1>5. lost \in SUBSET {d \in Deliveries : StateMap[d] = "working"}
    BY <1>1, ProgressIs DEF Busy
  <1>6. UNCHANGED TouchMap
    BY TouchStays DEF work
  <1>7. D!GiveUp
    BY <1>4, <1>5, <1>6 DEF D!GiveUp, StateMap, TouchMap
  <1> QED
    BY <1>7 DEF Seen, D!Next

LEMMA LateSteps ==
  ASSUME IInv, NEW d \in Deliveries, Conclude(d) \/ Raise(d)
  PROVE  Seen
  <1>1. TypeOK
    BY DEF IInv
  <1>2. CASE Conclude(d)
    <2>1. /\ Outcome(d) \in Results /\ Outcome(d) \notin CheckVerdicts
          /\ ~D!Harmless(Outcome(d))
      BY <1>1, OutcomeIs, DeliveredFacts, DeliveredIsHarm, Zenon
    <2> QED
      BY <1>2, <2>1, AnswersReport DEF Conclude, Stages
  <1>3. CASE Raise(d)
    <2>1. {d} \in SUBSET Busy
      BY <1>3 DEF Raise, Busy, Stages
    <2>2. pc' = [q \in Deliveries |-> IF q \in {d} THEN "raised" ELSE pc[q]]
      BY <1>1, <1>3 DEF Raise, Goto, TypeOK
    <2> QED
      BY <1>1, <1>3, <2>1, <2>2, Gone DEF Raise
  <1> QED
    BY <1>2, <1>3

LEMMA EveryStepIsSeen == IInv /\ EarlyInv /\ [Next]_vars => Seen
  <1> SUFFICES ASSUME IInv, EarlyInv, [Next]_vars PROVE Seen
    OBVIOUS
  <1>1. CASE Restart
    <2>1. TypeOK /\ Busy \in SUBSET Busy
      BY DEF IInv
    <2> QED
      BY <1>1, <2>1, Gone DEF Restart
  <1>2. CASE UNCHANGED vars
    <2>1. UNCHANGED <<http, result>> /\ UNCHANGED TouchMap
      BY <1>2, TouchStays DEF vars, work
    <2>2. UNCHANGED StateMap
      BY <1>2 DEF vars, StateMap, Progress
    <2> QED
      BY <2>1, <2>2 DEF Seen, Unseen
  <1> QED
    BY <1>1, <1>2, WaitingSteps, EarlySteps, WorkingSteps, LateSteps DEF Next, Step

(* Whatever arrives and fails, in both modes and with restarts, a delivery *)
(* gets one answer and one report that agree; what was accepted is not     *)
(* turned down by the checks the worker repeats; and what is reported as   *)
(* skipped or failed has left no trace.                                    *)
THEOREM DeliveriesAreKept == Spec => ImplementsDelivery
  <1>1. Init => D!Init
    <2> SUFFICES ASSUME Init PROVE D!Init
      OBVIOUS
    <2>1. ASSUME NEW d \in Deliveries PROVE Progress(d) = "sent" /\ Touched(d) = FALSE
      <3>1. pc[d] = "sent" /\ ~Touched(d)
        BY DEF Init, Touched
      <3>2. Progress(d) = ProgressAt(pc[d]) /\ Touched(d) \in BOOLEAN
        BY DEF Progress, ProgressAt, Touched
      <3> QED
        BY <3>1, <3>2, ProgressIs
    <2>2. [d \in Deliveries |-> Progress(d)] = [d \in Deliveries |-> "sent"]
      BY <2>1
    <2>3. [d \in Deliveries |-> Touched(d)] = [d \in Deliveries |-> FALSE]
      BY <2>1
    <2>4. http = [d \in Deliveries |-> 0] /\ result = [d \in Deliveries |-> NoResult]
      BY DEF Init
    <2> QED
      BY <2>2, <2>3, <2>4, Zenon DEF NoResult, D!Init
  <1>2. IInv /\ EarlyInv /\ [Next]_vars => [D!Next]_<<StateMap, http, result, TouchMap>>
    BY EveryStepIsSeen DEF Seen, Unseen
  <1>3. Spec => []EarlyInv
    <2>1. IInv => TypeOK
      BY DEF IInv
    <2> QED
      BY EarlyInit, EarlyStep, ServerInvariance, <2>1, PTL DEF Spec
  <1>4. IInv /\ EarlyInv /\ [Next]_vars
          => [D!Next]_<<[d \in Deliveries |-> Progress(d)], http, result,
                        [d \in Deliveries |-> Touched(d)]>>
    BY <1>2 DEF StateMap, TouchMap
  <1> QED
    BY <1>1, <1>3, <1>4, ServerInvariance, PTL DEF Spec, ImplementsDelivery, D!Spec
=============================================================================
