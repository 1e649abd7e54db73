-------------------------- MODULE RequestPipeline --------------------------
(***************************************************************************)
(* The mediation pipeline of apps/gateway/src/server/handlers.ts: what     *)
(* happens to a tools/call, resources/read or prompts/get between its      *)
(* arrival and its answer.                                                 *)
(*                                                                         *)
(* The gateway is one Node process.  A handler runs without interruption   *)
(* between two awaits, so a step of this module is one such stretch:       *)
(*                                                                         *)
(*   route, policy  | await risk | escalate, audit, defer or go on         *)
(*                  | await upstream connection | send | await reply       *)
(*                  | await result scan | answer                           *)
(*                                                                         *)
(* Any number of requests are in flight at once and their stretches        *)
(* interleave; the links, tasks/cancel and the clock of Approvals          *)
(* interleave with them; the process may die anywhere, also between two    *)
(* durable writes of one stretch, and be started again.                    *)
(*                                                                         *)
(* The task id of a request is modelled by the request itself.             *)
(***************************************************************************)
EXTENDS Naturals, Sequences, Scanning

CONSTANTS
    Requests,      \* the requests agents will send
    Methods,       \* the forwardable methods they use
    Payloads,      \* what the heuristic sees of the payloads that occur
    Scores,        \* scores an LLM provider may give
    Threshold,     \* risk.escalationThreshold
    EscalateTo,    \* risk.escalateObligation
    HasPolicy,     \* a PolicyEngine was passed to the SentinelServer
    HasProvider,   \* the RiskEngine has an LLM provider and may use it
    HasApprovals,  \* approval store, signer and notifier are configured
    HasScanner,    \* a ResultScanner was passed
    Lifetime, MaxTime   \* of Approvals

Obligations == {"allow", "review", "approve"}

\* The length of the payload, and how many of its values go up a directory or
\* hold a shell command or the path of a secret.
Payload == [length : {"short", "long", "huge"}, traversals : Nat, commands : Nat]

ASSUME RiskAssumption ==
    /\ Payloads \subseteq Payload
    /\ Scores \subseteq 0..100
    /\ Threshold \in 0..100
    /\ EscalateTo \in Obligations
ASSUME FlagAssumption == {HasPolicy, HasProvider, HasApprovals, HasScanner} \subseteq BOOLEAN
ASSUME MethodAssumption == Methods \subseteq {"tools/call", "resources/read", "prompts/get"}
ASSUME ClockAssumption == Lifetime \in Nat /\ MaxTime \in Nat

VARIABLES
    up,        \* the process is running
    pc,        \* where each request is
    req,       \* what the synchronous part of the handler found out about it
    risk,      \* the risk assessment it got
    reply,     \* the content of the upstream's result and what the scan said of it
    answer,    \* what the agent was told
    audit,     \* the audit table, in insertion order
    sent,      \* requests an upstream has received
    rows, tokens, now   \* of Approvals

pipeline == <<up, pc, req, risk, reply, answer, audit, sent>>
approvals == <<rows, tokens, now>>
vars == <<pipeline, approvals>>

A == INSTANCE Approvals WITH
        Ids <- Requests, Agents <- {"anonymous"}, Caller <- "anonymous"

-----------------------------------------------------------------------------
(* Data *)

HeuristicRiskScore(payload) ==
    LET length == CASE payload.length = "huge" -> 80
                    [] payload.length = "long" -> 30
                    [] OTHER                   -> 0
        score == length + 50 * payload.traversals + 100 * payload.commands
    IN  IF score > 100 THEN 100 ELSE score

HeuristicScores == {HeuristicRiskScore(payload) : payload \in Payloads}

\* args: the call carries an arguments object (always so for the other methods,
\* whose whole params are digested); obligation: the policy's, "allow" without
\* an engine; heuristic: heuristicRiskScore of the payload.
Facts == [method : Methods, args : BOOLEAN, obligation : Obligations, heuristic : HeuristicScores]
NoFacts == [method |-> "none", args |-> FALSE, obligation |-> "none", heuristic |-> 0]

Arriving ==
    {f \in Facts : /\ f.method # "tools/call" => f.args
                   /\ ~HasPolicy => f.obligation = "allow"}

\* failed: the provider threw or lost the race against llmTimeoutMs, which
\* counts as the worst score (engine.ts:52 "escalate-then-deny").
Assessment == {a \in [score : 0..100, failed : BOOLEAN] : a.failed => a.score = 100}
Unassessed == [score |-> 0, failed |-> FALSE]

\* content: the text of the content array, or nothing if there is no such array.
Contents == {{}} \cup {{text} : text \in ScannedTexts}
Reply == [content : Contents, scan : {"none"} \cup ScanVerdicts]
NoReply == [content |-> {}, scan |-> "none"]

Record == [req : Requests, verdict : {"allow", "pending_approval"},
           obligation : Obligations, score : 0..100, degraded : BOOLEAN]

Stages == {"unsent", "risk", "dial", "upstream", "scan", "done", "lost"}
InFlight == {"risk", "dial", "upstream", "scan"}

Answers == {"none", "unknown", "denied", "undigestible", "failed", "deferred",
            "refused", "unavailable", "blocked", "result"}

Rank(obligation) == CASE obligation = "allow"  -> 0
                      [] obligation = "review" -> 1
                      [] OTHER                 -> 2

\* RiskEngine.escalateObligation: it may only raise.
Escalated(base, score) ==
    IF score >= Threshold /\ Rank(EscalateTo) > Rank(base) THEN EscalateTo ELSE base

\* How evaluateRisk may end: an answer its schema accepts, or a failure: an error
\* of the provider, an answer it cannot use, or the timeout.
ProviderOutcomes ==
    {[score |-> s, failed |-> FALSE] : s \in Scores} \cup {[score |-> 0, failed |-> TRUE]}

\* The higher of the two scores, and the maximum when the provider failed.
Worse(heuristic, outcome) ==
    [score |-> CASE outcome.failed -> 100
                 [] ~outcome.failed /\ outcome.score > heuristic -> outcome.score
                 [] OTHER -> heuristic,
     failed |-> outcome.failed]

\* RiskEngine.evaluate: the heuristic alone when it is decisive or there is no
\* provider to ask.
Assessments(heuristic) ==
    IF heuristic >= Threshold \/ ~HasProvider
    THEN {[score |-> heuristic, failed |-> FALSE]}
    ELSE {Worse(heuristic, outcome) : outcome \in ProviderOutcomes}

\* digestOf(params.arguments) throws on undefined.
Digestible(facts) == facts.args

\* Defect: the obligation is recorded as the verdict.
RecordSwapped(r, verdict, obligation, assessment) ==
    [req |-> r, verdict |-> obligation, obligation |-> obligation,
     score |-> assessment.score, degraded |-> FALSE]

\* The handlers write degraded: false in every record.
RecordOf(r, verdict, obligation, assessment) ==
    [req |-> r, verdict |-> verdict, obligation |-> obligation,
     score |-> assessment.score, degraded |-> FALSE]

Logged(r, verdict) ==
    \E i \in 1..Len(audit) : audit[i].req = r /\ audit[i].verdict = verdict

Answered(r, what) ==
    /\ pc' = [pc EXCEPT ![r] = "done"]
    /\ answer' = [answer EXCEPT ![r] = what]

-----------------------------------------------------------------------------
(* Arrival: everything up to the first await *)

\* The router refuses: unknown name, server not dialable, oversized params.
Refuse(r) ==
    /\ up /\ pc[r] = "unsent"
    /\ Answered(r, "unknown")
    /\ UNCHANGED <<up, req, risk, reply, audit, sent, approvals>>

\* enforcePolicy throws on forbid, before anything is recorded.
Deny(r) ==
    /\ up /\ pc[r] = "unsent" /\ HasPolicy
    /\ Answered(r, "denied")
    /\ UNCHANGED <<up, req, risk, reply, audit, sent, approvals>>

\* Routed and permitted; riskEngine.evaluate is awaited.
Admit(r) ==
    /\ up /\ pc[r] = "unsent"
    /\ \E facts \in Arriving : req' = [req EXCEPT ![r] = facts]
    /\ pc' = [pc EXCEPT ![r] = "risk"]
    /\ UNCHANGED <<up, risk, reply, answer, audit, sent, approvals>>

-----------------------------------------------------------------------------
(* The stretch after the risk assessment *)

\* The await of riskEngine.evaluate settles with assessment a.
Assessed(r, a) ==
    /\ up /\ pc[r] = "risk"
    /\ risk' = [risk EXCEPT ![r] = a]

\* Defect: the risk score is computed and not used.
ObligationOfPolicyOnly(r, a) == req[r].obligation

\* finalObligation.
FinalObligation(r, a) == Escalated(req[r].obligation, a.score)

\* Building the record throws on a call without arguments.
Undigestible(r) ==
    /\ \E a \in Assessments(req[r].heuristic) : Assessed(r, a)
    /\ ~Digestible(req[r])
    /\ Answered(r, "undigestible")
    /\ UNCHANGED <<up, req, reply, audit, sent, approvals>>

\* Defect: the request is assessed and recorded anew until the append works.
AuditRetriedForever(r) ==
    /\ \E a \in Assessments(req[r].heuristic) : Assessed(r, a)
    /\ Digestible(req[r])
    /\ UNCHANGED <<up, pc, req, reply, answer, audit, sent, approvals>>

\* AuditStore.append throws: the request is refused, nothing else is done.
AuditFails(r) ==
    /\ \E a \in Assessments(req[r].heuristic) : Assessed(r, a)
    /\ Digestible(req[r])
    /\ Answered(r, "failed")
    /\ UNCHANGED <<up, req, reply, audit, sent, approvals>>

\* The request is to be forwarded and the "allow" record is committed.
RecordAllow(r) ==
    /\ \E a \in Assessments(req[r].heuristic) :
         /\ Assessed(r, a)
         /\ FinalObligation(r, a) = "allow"
         /\ audit' = Append(audit, RecordOf(r, "allow", "allow", a))
    /\ Digestible(req[r])
    /\ UNCHANGED <<req, reply, sent, approvals>>

\* ... and forwarder.forward runs up to its await of the connection.
Allow(r) ==
    /\ RecordAllow(r)
    /\ pc' = [pc EXCEPT ![r] = "dial"]
    /\ UNCHANGED <<up, answer>>

\* The first half of a deferral: the "pending_approval" record is committed.
RecordDeferral(r) ==
    /\ \E a \in Assessments(req[r].heuristic) :
         /\ Assessed(r, a)
         /\ FinalObligation(r, a) # "allow"
         /\ audit' = Append(audit, RecordOf(r, "pending_approval", FinalObligation(r, a), a))
    /\ Digestible(req[r])
    /\ UNCHANGED <<req, reply, sent>>

\* Defect: a deferred call is forwarded all the same.
DeferFallsThrough(r) ==
    /\ HasApprovals
    /\ RecordDeferral(r)
    /\ A!Open(r, "anonymous")
    /\ pc' = [pc EXCEPT ![r] = "dial"]
    /\ UNCHANGED <<up, answer>>

\* The whole deferral: record, row, tokens, notification, task id.
Defer(r) ==
    /\ HasApprovals
    /\ RecordDeferral(r)
    /\ A!Open(r, "anonymous")
    /\ Answered(r, "deferred")
    /\ UNCHANGED up

\* Defect: with nobody to ask, the call is let through.
UnbridgedFallsThrough(r) ==
    /\ ~HasApprovals
    /\ RecordDeferral(r)
    /\ pc' = [pc EXCEPT ![r] = "dial"]
    /\ UNCHANGED <<up, answer, approvals>>

\* No approval machinery: the request is recorded as pending and refused.
DeferUnbridged(r) ==
    /\ ~HasApprovals
    /\ RecordDeferral(r)
    /\ Answered(r, "refused")
    /\ UNCHANGED <<up, approvals>>

\* Defect: the failed insert is swallowed and a task id handed out.
InsertFailureSwallowed(r) ==
    /\ HasApprovals
    /\ RecordDeferral(r)
    /\ Answered(r, "deferred")
    /\ UNCHANGED <<up, approvals>>

\* ApprovalStore.create throws after the record was committed.
ApprovalInsertFails(r) ==
    /\ HasApprovals
    /\ RecordDeferral(r)
    /\ Answered(r, "failed")
    /\ UNCHANGED <<up, approvals>>

-----------------------------------------------------------------------------
(* Forwarding *)

\* Defect: the call is recorded a second time when it is sent.
DispatchRecordsAgain(r) ==
    /\ up /\ pc[r] = "dial"
    /\ pc' = [pc EXCEPT ![r] = "upstream"]
    /\ sent' = sent \cup {r}
    /\ audit' = Append(audit, RecordOf(r, "allow", "allow", risk[r]))
    /\ UNCHANGED <<up, req, risk, reply, answer, approvals>>

\* The connection is ready and the capability declared: the request goes out.
Dispatch(r) ==
    /\ up /\ pc[r] = "dial"
    /\ pc' = [pc EXCEPT ![r] = "upstream"]
    /\ sent' = sent \cup {r}
    /\ UNCHANGED <<up, req, risk, reply, answer, audit, approvals>>

\* No connection, or the upstream lacks the capability.
DialFails(r) ==
    /\ up /\ pc[r] = "dial"
    /\ \E what \in {"unavailable", "unknown"} : Answered(r, what)
    /\ UNCHANGED <<up, req, risk, reply, audit, sent, approvals>>

\* A usable result.  Only a tool result with a content array is scanned.
Receive(r) ==
    /\ up /\ pc[r] = "upstream"
    /\ \E content \in Contents :
         /\ reply' = [reply EXCEPT ![r].content = content]
         /\ IF HasScanner /\ req[r].method = "tools/call" /\ content # {}
            THEN pc' = [pc EXCEPT ![r] = "scan"] /\ UNCHANGED answer
            ELSE Answered(r, "result")
    /\ UNCHANGED <<up, req, risk, audit, sent, approvals>>

\* Timeout, lost connection, error, oversized or malformed result.
UpstreamFails(r) ==
    /\ up /\ pc[r] = "upstream"
    /\ Answered(r, "unavailable")
    /\ UNCHANGED <<up, req, risk, reply, audit, sent, approvals>>

\* scanResult settles; "malicious" is refused with an error.
Scan(r) ==
    /\ up /\ pc[r] = "scan"
    /\ \E text \in reply[r].content, answers \in BOOLEAN :
         LET json == Serialized(text)
             verdict == ScanResult(json, IF answers THEN {json} ELSE {})
         IN  /\ reply' = [reply EXCEPT ![r].scan = verdict]
             /\ Answered(r, IF verdict = "malicious" THEN "blocked" ELSE "result")
    /\ UNCHANGED <<up, req, risk, audit, sent, approvals>>

-----------------------------------------------------------------------------
(* The environment *)

\* The approval endpoints and tasks/cancel of the running process, and time.
Approval ==
    /\ \/ up /\ A!Decision
       \/ A!Tick
    /\ UNCHANGED pipeline

\* The process dies: whatever was in flight is never answered.
ProcessDies ==
    /\ up /\ up' = FALSE
    /\ pc' = [r \in Requests |-> IF pc[r] \in InFlight THEN "lost" ELSE pc[r]]
    /\ UNCHANGED answer

Crash == ProcessDies /\ UNCHANGED <<req, risk, reply, audit, sent, approvals>>

\* The process dies in the middle of the stretch after the assessment: after
\* the audit record, or after the approval row and before the notification.
CrashAfterAllow(r) == ProcessDies /\ RecordAllow(r)

CrashInDeferral(r) ==
    /\ ProcessDies
    /\ RecordDeferral(r)
    /\ \/ UNCHANGED approvals
       \/ HasApprovals /\ A!OpenThenCrash(r, "anonymous")

Restart ==
    /\ ~up /\ up' = TRUE
    /\ UNCHANGED <<pc, req, risk, reply, answer, audit, sent, approvals>>

Init ==
    /\ up = TRUE
    /\ pc = [r \in Requests |-> "unsent"]
    /\ req = [r \in Requests |-> NoFacts]
    /\ risk = [r \in Requests |-> Unassessed]
    /\ reply = [r \in Requests |-> NoReply]
    /\ answer = [r \in Requests |-> "none"]
    /\ audit = <<>>
    /\ sent = {}
    /\ A!Init

\* The continuation of each await.
AfterRisk(r) ==
    \/ Undigestible(r) \/ AuditFails(r) \/ Allow(r)
    \/ Defer(r) \/ DeferUnbridged(r) \/ ApprovalInsertFails(r)
AfterDial(r) == Dispatch(r) \/ DialFails(r)
AfterUpstream(r) == Receive(r) \/ UpstreamFails(r)

Next ==
    \/ \E r \in Requests :
         \/ Refuse(r) \/ Deny(r) \/ Admit(r)
         \/ AfterRisk(r) \/ AfterDial(r) \/ AfterUpstream(r) \/ Scan(r)
         \/ CrashAfterAllow(r) \/ CrashInDeferral(r)
    \/ Approval \/ Crash \/ Restart

\* Every await of a handler settles: the LLM race, the connection attempt and
\* the upstream request carry timers, the classifier's fetch an abort timer.
Fairness == \A r \in Requests :
    /\ WF_vars(AfterRisk(r)) /\ WF_vars(AfterDial(r))
    /\ WF_vars(AfterUpstream(r)) /\ WF_vars(Scan(r))

Spec == Init /\ [][Next]_vars /\ Fairness

-----------------------------------------------------------------------------
(* Properties *)

TypeOK ==
    /\ up \in BOOLEAN
    /\ pc \in [Requests -> Stages]
    /\ req \in [Requests -> Facts \cup {NoFacts}]
    /\ risk \in [Requests -> Assessment]
    /\ reply \in [Requests -> Reply]
    /\ answer \in [Requests -> Answers]
    /\ audit \in Seq(Record)
    /\ sent \in SUBSET Requests
    /\ A!TypeOK

\* The gateway's reason to exist (handlers.ts tools/call, resources/read,
\* prompts/get): whatever interleaves, fails or crashes, an upstream has been
\* called only for a request the policy allows outright, whose risk did not
\* escalate it - be it the score, or an assessment that failed or timed out and
\* left only the heuristic - and whose "allow" record was in the audit table
\* before.
NothingUnsanctioned ==
    \A r \in sent :
        /\ Logged(r, "allow")
        /\ req[r].obligation = "allow"
        /\ risk[r].score >= Threshold \/ risk[r].failed => EscalateTo = "allow"

\* At most one verdict is recorded per request, so allow and pending_approval
\* records for one call cannot both exist.
OneVerdictEach ==
    \A i, j \in 1..Len(audit) : audit[i].req = audit[j].req => i = j

\* A row for the operator exists only for a call that is on record as pending
\* approval; such a call is never with an upstream, even if the process died
\* between the writes or another handler failed meanwhile.
DeferredIsRecordedAndHeld ==
    \A r \in Requests : rows[r].state # "none" =>
        Logged(r, "pending_approval") /\ r \notin sent

\* What the agent is told agrees with the durable evidence: a task id always
\* names a row with links, a refusal or a failure never follows a dispatch, an
\* upstream outcome never comes without one.  A tool's content reaches the agent
\* only after a scan that earned its verdict, and never when its JSON has
\* something grave in it, also while the classifier is down (handlers.ts:431-455).
AnswersMatchEvidence ==
    \A r \in Requests :
        /\ answer[r] = "deferred" =>
             /\ rows[r].state # "none"
             /\ \E tok \in tokens : tok.id = r
        /\ answer[r] \in {"denied", "undigestible", "failed", "refused"} => r \notin sent
        /\ answer[r] \in {"result", "blocked"} => r \in sent
        /\ HasScanner /\ answer[r] \in {"result", "blocked"} /\ req[r].method = "tools/call" =>
             \A text \in reply[r].content :
                /\ EarnedByResult(Serialized(text), reply[r].scan)
                /\ answer[r] = "result" <=> reply[r].scan # "malicious"

\* An admitted request is always answered, or lost with the process.
AdmittedIsAnswered ==
    \A r \in Requests : pc[r] \in InFlight ~> pc[r] \in {"done", "lost"}

\* The pipeline implements the promise.
Promise == INSTANCE Mediation WITH
    verdict <- [r \in Requests |->
                  IF Logged(r, "allow") THEN "allow"
                  ELSE IF Logged(r, "pending_approval") THEN "pending_approval"
                  ELSE "none"],
    dispatched <- sent,
    ruling <- [r \in Requests |-> rows[r].state]

ImplementsMediation == Promise!Spec
-----------------------------------------------------------------------------
(* What the documents say and the code does not do *)

\* docs/architecture.md:134 "Happens for EVERY outcome, including denials."
EveryOutcomeIsRecorded ==
    \A r \in Requests : answer[r] \in {"denied", "deferred", "refused", "result"} =>
        Logged(r, "allow") \/ Logged(r, "pending_approval")
=============================================================================
