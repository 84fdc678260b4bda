------------------------------- MODULE Ingestion ------------------------------
(***************************************************************************)
(* collect_workflow_run_inputs of src/github_app_ingestion.py: the log of  *)
(* a workflow run and the comparison of its commits, fetched one after the *)
(* other, each with a retry loop of its own.                               *)
(***************************************************************************)
EXTENDS LogText, DiffText

CONSTANTS
  MaxRetries,               \* of each request
  Logs,                     \* the log bodies GitHub may send: zip archives,
                            \* the parts sorted by name, and plain texts
  Comparisons               \* the file lists of the compare API, by name

ASSUME IngestionAssumption ==
  /\ MaxRetries \in Nat
  /\ \A body \in Logs : body.zip \in BOOLEAN

IsText(lines) ==
  /\ lines \in Seq(ToSet(lines))
  /\ \A l \in ToSet(lines) : /\ l.number \in Nat \union {NoNumber}
                             /\ l.file.dir \in Seq(ToSet(l.file.dir))

ASSUME LogsAssumption ==
  \A body \in Logs : /\ body.parts \in Seq(ToSet(body.parts))
                     /\ \A part \in ToSet(body.parts) : IsText(part.lines)

ASSUME ComparisonsAssumption ==
  \A list \in Comparisons : list \in Seq(ToSet(list)) /\ \A f \in ToSet(list) : IsFile(f)

VARIABLES
  stage,                    \* what the delivery is at
  attempt,                  \* the loop variable of the request in progress
  sent,                     \* how often each request was made
  log, diff,                \* raw_log and raw_diff
  files,                    \* the comparison the diff was printed from
  reason                    \* the reason_code of a GitHubAppIngestionError

collection == <<attempt, sent, log, diff, files, reason>>

Requests == {"logs", "compare"}
NetworkError == "GITHUB_API_NETWORK_ERROR"
HttpError == "GITHUB_API_HTTP_ERROR"

(* Bodies nothing can be made of. *)
Useless == [logs |-> {"WORKFLOW_LOGS_EMPTY", "WORKFLOW_LOGS_UNREADABLE",
                      "WORKFLOW_LOGS_INVALID_ARCHIVE"},
            compare |-> {"GITHUB_API_INVALID_JSON", "GITHUB_API_INVALID_RESPONSE",
                         "COMPARE_FILES_MISSING"}]

InitIngestion ==
  /\ stage = "logs" /\ attempt = 0
  /\ sent = [r \in Requests |-> 0]
  /\ log = <<>> /\ diff = <<>> /\ files = <<>> /\ reason = "none"

Fetching(r) ==
  /\ stage = r /\ r \in Requests
  /\ sent' = [sent EXCEPT ![r] = @ + 1]

Refuse(code) ==
  /\ stage' = "refused" /\ reason' = code
  /\ UNCHANGED <<attempt, log, diff, files>>

Bug_Retry(r) ==
  /\ Fetching(r) /\ attempt <= MaxRetries
  /\ attempt' = attempt + 1
  /\ UNCHANGED <<stage, log, diff, files, reason>>

(* A rate limit, a 5xx or no connection: again, but for the last attempt.  *)
Retry(r) ==
  /\ Fetching(r) /\ attempt < MaxRetries
  /\ attempt' = attempt + 1
  /\ UNCHANGED <<stage, log, diff, files, reason>>

GiveUp(r) ==
  /\ Fetching(r) /\ attempt >= MaxRetries
  /\ \E code \in {HttpError, NetworkError} : Refuse(code)

(* Any other HTTP error, or a body without use, ends the collection.       *)
Deny(r) == Fetching(r) /\ \E code \in {HttpError} \union Useless[r] : Refuse(code)

(* A timeout while the response is awaited or read and a corrupt archive   *)
(* member are exceptions no clause of the client catches.                  *)
Escape(r) ==
  /\ Fetching(r) /\ stage' = "raised"
  /\ UNCHANGED <<attempt, log, diff, files, reason>>

(* Every member of the archive under a heading of its own. *)
Part(member) == <<Heading(member.marks)>> \o member.lines \o <<Blank>>
Unpacked(body) ==
  IF body.zip THEN FlattenSeq([i \in DOMAIN body.parts |-> Part(body.parts[i])])
              ELSE body.parts[1].lines

Bug_ReceiveLogs ==
  /\ Fetching("logs")
  /\ \E body \in Logs :
       IF body.parts = <<>> THEN Refuse("WORKFLOW_LOGS_EMPTY_ARCHIVE")
       ELSE /\ log' = Unpacked(body)
            /\ stage' = "compare"
            /\ UNCHANGED <<attempt, diff, files, reason>>

ReceiveLogs ==
  /\ Fetching("logs")
  /\ \E body \in Logs :
       IF body.parts = <<>> THEN Refuse("WORKFLOW_LOGS_EMPTY_ARCHIVE")
       ELSE /\ log' = Unpacked(body)
            /\ stage' = "compare" /\ attempt' = 0
            /\ UNCHANGED <<diff, files, reason>>

ReceiveCompare ==
  /\ Fetching("compare")
  /\ \E list \in Comparisons :
       IF Diff(list) = <<>> THEN Refuse("COMPARE_DIFF_EMPTY")
       ELSE /\ files' = list /\ diff' = Diff(list)
            /\ stage' = "log_ingest"
            /\ UNCHANGED <<attempt, log, reason>>

Collect ==
  \/ \E r \in Requests : Retry(r) \/ GiveUp(r) \/ Deny(r) \/ Escape(r)
  \/ ReceiveLogs \/ ReceiveCompare
=============================================================================
