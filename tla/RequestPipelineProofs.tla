----------------------- MODULE RequestPipelineProofs -----------------------
(***************************************************************************)
(* Theorems about RequestPipeline, for every set of requests, every risk   *)
(* configuration and every choice of optional components.                  *)
(*                                                                         *)
(* NothingUnsanctioned is not inductive: it does not say that a request    *)
(* waiting for its connection has been recorded, nor that a request that   *)
(* is still being assessed has not.  IInv adds exactly that.               *)
(***************************************************************************)
EXTENDS RequestPipeline, ScanningProofs, SequenceTheorems, TLAPS

-----------------------------------------------------------------------------
(* Lemmas on the risk arithmetic *)

\* Escalation only raises: an "allow" that comes out was put in, and the score
\* was not one that escalates.
LEMMA EscalatedAllow ==
    ASSUME NEW base \in Obligations, NEW score \in 0..100,
           Escalated(base, score) = "allow"
    PROVE  base = "allow" /\ (score >= Threshold => EscalateTo = "allow")
  BY RiskAssumption DEF Escalated, Rank, Obligations

\* Escalation yields an obligation.
LEMMA EscalatedType ==
    ASSUME NEW base \in Obligations, NEW score \in 0..100
    PROVE  Escalated(base, score) \in Obligations
  BY RiskAssumption DEF Escalated

\* An assessment is a score within 0..100 with its failure flag.
LEMMA AssessmentsType ==
    ASSUME NEW h \in 0..100, NEW a \in Assessments(h)
    PROVE  a \in Assessment
<1>1. \A s \in 0..100, f \in BOOLEAN :
        (f => s = 100) => [score |-> s, failed |-> f] \in Assessment
  BY DEF Assessment
<1>2. CASE h >= Threshold \/ ~HasProvider
  <2>1. a = [score |-> h, failed |-> FALSE]
    BY <1>2, Zenon DEF Assessments
  <2> QED
    BY <1>1, <2>1
<1>3. CASE ~(h >= Threshold \/ ~HasProvider)
  <2>1. PICK outcome \in ProviderOutcomes : a = Worse(h, outcome)
    BY <1>3, Zenon DEF Assessments
  <2>2. outcome.failed \in BOOLEAN /\ outcome.score \in 0..100
    <3>1. CASE outcome = [score |-> 0, failed |-> TRUE]
      BY <3>1
    <3>2. ASSUME NEW s \in Scores, outcome = [score |-> s, failed |-> FALSE]
          PROVE  outcome.failed \in BOOLEAN /\ outcome.score \in 0..100
      BY <3>2, RiskAssumption
    <3> QED
      BY <2>1, <3>1, <3>2, Zenon DEF ProviderOutcomes
  <2> DEFINE score == CASE outcome.failed -> 100
                        [] ~outcome.failed /\ outcome.score > h -> outcome.score
                        [] OTHER -> h
  <2>3. score \in 0..100 /\ (outcome.failed => score = 100)
    BY <2>2
  <2>4. a = [score |-> score, failed |-> outcome.failed]
    BY <2>1, Zenon DEF Worse
  <2> HIDE DEF score
  <2> QED
    BY <1>1, <2>2, <2>3, <2>4
<1> QED
  BY <1>2, <1>3

\* The heuristic's score is bounded, however many values it objects to.
LEMMA HeuristicScoresBounded == HeuristicScores \subseteq 0..100
<1>1. ASSUME NEW payload \in Payload PROVE HeuristicRiskScore(payload) \in 0..100
  <2> DEFINE length == CASE payload.length = "huge" -> 80
                         [] payload.length = "long" -> 30
                         [] OTHER                   -> 0
             score == length + 50 * payload.traversals + 100 * payload.commands
  <2>1. length \in Nat /\ payload.traversals \in Nat /\ payload.commands \in Nat
    BY DEF Payload
  <2> HIDE DEF length
  <2>2. score \in Nat
    BY <2>1
  <2> HIDE DEF score
  <2>3. (IF score > 100 THEN 100 ELSE score) \in 0..100
    BY <2>2
  <2> QED
    BY <2>3 DEF HeuristicRiskScore, score, length
<1> QED
  BY <1>1, RiskAssumption DEF HeuristicScores

\* What the known facts of a request say once it is being assessed.
LEMMA FactsType ==
    ASSUME TypeOK, NEW r \in Requests
    PROVE  req[r].heuristic \in 0..100
<1>1. HeuristicScores \subseteq 0..100
  BY HeuristicScoresBounded
<1>2. req[r] \in Facts \/ req[r] = NoFacts
  BY DEF TypeOK
<1>3. CASE req[r] \in Facts
  BY <1>1, <1>3 DEF Facts
<1>4. CASE req[r] = NoFacts
  BY <1>4 DEF NoFacts
<1> QED
  BY <1>2, <1>3, <1>4

-----------------------------------------------------------------------------
(* Lemmas on the audit table *)

Unlogged(r) == \A i \in 1..Len(audit) : audit[i].req # r

\* Appending a record keeps the others in place and logs exactly its verdict.
LEMMA AppendRecord ==
    ASSUME audit \in Seq(Record), NEW e \in Record, audit' = Append(audit, e)
    PROVE  /\ audit' \in Seq(Record)
           /\ Len(audit') = Len(audit) + 1
           /\ \A i \in 1..Len(audit) : audit'[i] = audit[i]
           /\ audit'[Len(audit) + 1] = e
           /\ \A r, v : Logged(r, v)' <=> Logged(r, v) \/ (e.req = r /\ e.verdict = v)
           /\ \A r : Unlogged(r)' <=> Unlogged(r) /\ e.req # r
<1>1. Len(audit) \in Nat
  BY LenProperties
<1>2. /\ audit' \in Seq(Record)
      /\ Len(audit') = Len(audit) + 1
      /\ \A i \in 1..Len(audit) : audit'[i] = audit[i]
      /\ audit'[Len(audit) + 1] = e
  BY AppendProperties
<1>3. 1..Len(audit') = 1..Len(audit) \cup {Len(audit) + 1}
  BY <1>1, <1>2
<1>4. ASSUME NEW r, NEW v
      PROVE  Logged(r, v)' <=> Logged(r, v) \/ (e.req = r /\ e.verdict = v)
  BY <1>2, <1>3 DEF Logged
<1>5. ASSUME NEW r
      PROVE  Unlogged(r)' <=> Unlogged(r) /\ e.req # r
  BY <1>2, <1>3 DEF Unlogged
<1> QED
  BY <1>2, <1>4, <1>5

\* The records the handlers write are records.
LEMMA RecordOfType ==
    ASSUME NEW r \in Requests, NEW verdict \in {"allow", "pending_approval"},
           NEW obligation \in Obligations, NEW a \in Assessment
    PROVE  /\ RecordOf(r, verdict, obligation, a) \in Record
           /\ RecordOf(r, verdict, obligation, a).req = r
           /\ RecordOf(r, verdict, obligation, a).verdict = verdict
  BY DEF RecordOf, Record, Assessment

-----------------------------------------------------------------------------
(* Lemmas on the approvals table *)

\* A decision settles one pending row and touches nothing else.
LEMMA DecisionEffect ==
    ASSUME A!TypeOK, A!Decision
    PROVE  /\ A!TypeOK'
           /\ tokens' = tokens
           /\ \E r \in Requests :
                /\ rows[r].state = "pending"
                /\ rows'[r].state \in {"approved", "denied"}
                /\ \A other \in Requests \ {r} : rows'[other] = rows[other]
<1>1. PICK r \in Requests, state \in {"approved", "denied"},
           approver \in {"human-link", "agent-cancel", "agent"},
           tok \in A!Token \cup {A!NoToken} : A!UpdateState(r, state, approver, tok)
  <2>1. CASE \E tok \in tokens, path \in A!Actions, id \in Requests : A!FollowLink(path, id, tok)
    BY <2>1 DEF A!FollowLink, A!Outcome, A!Actions, A!TypeOK
  <2>2. CASE \E tok \in tokens : A!ApproveRequest(tok)
    <3>1. PICK tok \in tokens : A!ApproveRequest(tok)
      BY <2>2
    <3>2. tok \in A!Token /\ tok.id \in Requests /\ tok.action \in A!Actions
      BY DEF A!TypeOK, A!Token
    <3> QED
      BY <3>1, <3>2 DEF A!ApproveRequest, A!Outcome, A!Actions
  <2>3. CASE \E id \in Requests : A!TasksCancel(id)
    BY <2>3 DEF A!TasksCancel
  <2> QED
    BY <2>1, <2>2, <2>3 DEF A!Decision
<1> DEFINE new == [rows[r] EXCEPT !.state = state, !.approver = approver,
                                  !.decided = now, !.token = tok]
<1>2. rows[r] \in A!Row /\ now \in Nat /\ rows \in [Requests -> A!Row]
  BY DEF A!TypeOK
<1>3. rows' = [rows EXCEPT ![r] = new] /\ tokens' = tokens /\ now' = now
      /\ rows[r].state = "pending"
  BY <1>1 DEF A!UpdateState
<1>4. new \in A!Row /\ new.state = state
  BY <1>2 DEF A!Row, A!States
<1>5. rows' \in [Requests -> A!Row] /\ rows'[r] = new
      /\ \A other \in Requests \ {r} : rows'[other] = rows[other]
  BY <1>2, <1>3, <1>4
<1>6. A!TypeOK'
  BY <1>3, <1>5 DEF A!TypeOK
<1> QED
  BY <1>3, <1>4, <1>5, <1>6

\* Opening a row, notified or not, adds one pending row.
LEMMA OpenEffect ==
    ASSUME A!TypeOK, NEW r \in Requests,
           A!Open(r, "anonymous") \/ A!OpenThenCrash(r, "anonymous")
    PROVE  /\ A!TypeOK'
           /\ rows[r].state = "none"
           /\ rows'[r].state = "pending"
           /\ \A other \in Requests \ {r} : rows'[other] = rows[other]
<1> DEFINE new == A!PendingRow("anonymous")
<1>1. /\ rows[r] = A!NoRow
      /\ rows' = [rows EXCEPT ![r] = new]
      /\ tokens' \subseteq tokens \cup A!SignedTokens(r)
      /\ now' = now
  BY DEF A!Open, A!OpenThenCrash
<1>2. new \in A!Row /\ new.state = "pending" /\ A!NoRow.state = "none"
  BY DEF A!PendingRow, A!NoRow, A!Row, A!States
<1>3. A!SignedTokens(r) \subseteq A!Token
  BY ClockAssumption DEF A!TypeOK, A!SignedTokens, A!Token, A!Actions
<1>4. A!TypeOK'
  BY <1>1, <1>2, <1>3 DEF A!TypeOK
<1> QED
  BY <1>1, <1>2, <1>4 DEF A!TypeOK

-----------------------------------------------------------------------------
(* The inductive invariant *)

\* Where a request stands agrees with what has been recorded and sent for it.
PositionInv == \A r \in Requests :
    /\ pc[r] = "risk" => req[r] \in Facts
    /\ pc[r] \in {"unsent", "risk"} => Unlogged(r)
    /\ pc[r] \in {"dial", "upstream", "scan"} => Logged(r, "allow")
    /\ pc[r] \in {"unsent", "risk", "dial"} => r \notin sent

\* What an upstream has received was recorded as allowed.
SentInv == \A r \in sent : Logged(r, "allow")

Sanctioned(r) ==
    /\ req[r].obligation = "allow"
    /\ risk[r].score >= Threshold => EscalateTo = "allow"

\* What was recorded as allowed was allowed.
EvidenceInv == \A r \in Requests : Logged(r, "allow") => Sanctioned(r)

\* A row belongs to a request that was recorded as pending and is over.
RowsInv == \A r \in Requests : rows[r].state # "none" =>
    Logged(r, "pending_approval") /\ pc[r] \in {"done", "lost"}

IInv == TypeOK /\ PositionInv /\ SentInv /\ EvidenceInv /\ OneVerdictEach /\ RowsInv

\* What committing an "allow" record does, in the handler or before a crash.
LEMMA RecordAllowEffect ==
    ASSUME TypeOK, PositionInv, NEW r \in Requests, RecordAllow(r)
    PROVE  \E e \in Record, a \in Assessment :
             /\ up /\ pc[r] = "risk"
             /\ audit' = Append(audit, e) /\ e.req = r /\ e.verdict = "allow"
             /\ risk' = [risk EXCEPT ![r] = a]
             /\ req[r].obligation = "allow"
             /\ a.score >= Threshold => EscalateTo = "allow"
<1>1. PICK a \in Assessments(req[r].heuristic) :
             /\ Assessed(r, a)
             /\ FinalObligation(r, a) = "allow"
             /\ audit' = Append(audit, RecordOf(r, "allow", "allow", a))
  BY DEF RecordAllow
<1>2. a \in Assessment
  BY FactsType, AssessmentsType
<1>3. up /\ pc[r] = "risk" /\ risk' = [risk EXCEPT ![r] = a]
  BY <1>1 DEF Assessed
<1>4. req[r].obligation \in Obligations /\ a.score \in 0..100
  BY <1>2, <1>3 DEF PositionInv, Facts, Assessment
<1>5. req[r].obligation = "allow" /\ (a.score >= Threshold => EscalateTo = "allow")
  BY <1>1, <1>4, EscalatedAllow DEF FinalObligation
<1>6. "allow" \in Obligations
  BY DEF Obligations
<1> DEFINE e == RecordOf(r, "allow", "allow", a)
<1>7. e \in Record /\ e.req = r /\ e.verdict = "allow" /\ audit' = Append(audit, e)
  BY <1>1, <1>2, <1>6, RecordOfType
<1> HIDE DEF e
<1> QED
  BY <1>2, <1>3, <1>5, <1>7, Zenon

\* What committing a "pending_approval" record does.
LEMMA RecordDeferralEffect ==
    ASSUME TypeOK, PositionInv, NEW r \in Requests, RecordDeferral(r)
    PROVE  \E e \in Record, a \in Assessment :
             /\ up /\ pc[r] = "risk"
             /\ audit' = Append(audit, e) /\ e.req = r /\ e.verdict = "pending_approval"
             /\ risk' = [risk EXCEPT ![r] = a]
<1>1. PICK a \in Assessments(req[r].heuristic) :
             /\ Assessed(r, a)
             /\ audit' = Append(audit, RecordOf(r, "pending_approval", FinalObligation(r, a), a))
  BY DEF RecordDeferral
<1>2. a \in Assessment
  BY FactsType, AssessmentsType
<1>3. up /\ pc[r] = "risk" /\ risk' = [risk EXCEPT ![r] = a]
  BY <1>1 DEF Assessed
<1>4. FinalObligation(r, a) \in Obligations
  BY <1>2, <1>3, EscalatedType DEF PositionInv, Facts, Assessment, FinalObligation
<1> DEFINE e == RecordOf(r, "pending_approval", FinalObligation(r, a), a)
<1>5. e \in Record /\ e.req = r /\ e.verdict = "pending_approval" /\ audit' = Append(audit, e)
  BY <1>1, <1>2, <1>4, RecordOfType
<1> HIDE DEF e
<1> QED
  BY <1>2, <1>3, <1>5, Zenon

-----------------------------------------------------------------------------
(* Steps that record *)

\* Any step that appends a record for a request under assessment, moves it on
\* and lets every other request be where it was, or lost with the process.
LEMMA RecordStep ==
    ASSUME IInv, NEW r \in Requests, NEW e \in Record, NEW a \in Assessment,
           pc[r] = "risk",
           audit' = Append(audit, e), e.req = r,
           risk' = [risk EXCEPT ![r] = a],
           e.verdict = "allow" =>
               /\ req[r].obligation = "allow"
               /\ a.score >= Threshold => EscalateTo = "allow",
           UNCHANGED <<req, reply, sent>>,
           up' \in BOOLEAN, answer' \in [Requests -> Answers],
           pc' \in [Requests -> Stages],
           \A s \in Requests \ {r} : pc'[s] \in {pc[s], "lost"},
           \/ pc'[r] \in {"done", "lost"}
           \/ pc'[r] = "dial" /\ e.verdict = "allow",
           A!TypeOK',
           \A s \in Requests \ {r} : rows'[s] = rows[s],
           rows'[r] = rows[r] \/ (e.verdict = "pending_approval" /\ pc'[r] \in {"done", "lost"})
    PROVE  IInv'
<1>1. /\ audit' \in Seq(Record)
      /\ Len(audit') = Len(audit) + 1
      /\ \A i \in 1..Len(audit) : audit'[i] = audit[i]
      /\ audit'[Len(audit) + 1] = e
      /\ \A s, v : Logged(s, v)' <=> Logged(s, v) \/ (e.req = s /\ e.verdict = v)
      /\ \A s : Unlogged(s)' <=> Unlogged(s) /\ e.req # s
  BY AppendRecord DEF IInv, TypeOK
<1>2. Unlogged(r) /\ r \notin sent /\ rows[r].state = "none"
  BY DEF IInv, PositionInv, RowsInv
<1>3. TypeOK'
  BY <1>1 DEF IInv, TypeOK
<1>4. PositionInv'
  <2>1. ASSUME NEW s \in Requests \ {r}
        PROVE  /\ pc'[s] = "risk" => req'[s] \in Facts
               /\ pc'[s] \in {"unsent", "risk"} => Unlogged(s)'
               /\ pc'[s] \in {"dial", "upstream", "scan"} => Logged(s, "allow")'
               /\ pc'[s] \in {"unsent", "risk", "dial"} => s \notin sent'
    BY <1>1 DEF IInv, PositionInv
  <2>2. /\ pc'[r] \in {"done", "lost"} \/ (pc'[r] = "dial" /\ Logged(r, "allow")')
        /\ r \notin sent'
    BY <1>1, <1>2
  <2> QED
    BY <2>1, <2>2 DEF PositionInv
<1>5. SentInv'
  BY <1>1 DEF IInv, SentInv
<1>6. EvidenceInv'
  <2>1. ASSUME NEW s \in Requests, s # r, Logged(s, "allow")'
        PROVE  Sanctioned(s)'
    <3>1. Logged(s, "allow")
      BY <1>1, <2>1
    <3>2. risk'[s] = risk[s] /\ req'[s] = req[s]
      BY <2>1 DEF IInv, TypeOK
    <3> QED
      BY <3>1, <3>2 DEF IInv, EvidenceInv, Sanctioned
  <2>2. ASSUME Logged(r, "allow")'
        PROVE  Sanctioned(r)'
    <3>1. ~Logged(r, "allow")
      BY <1>2 DEF Unlogged, Logged
    <3>2. e.verdict = "allow"
      BY <1>1, <2>2, <3>1
    <3>3. risk'[r] = a /\ req'[r] = req[r]
      BY DEF IInv, TypeOK
    <3> QED
      BY <3>2, <3>3 DEF Sanctioned
  <2> QED
    BY <2>1, <2>2 DEF EvidenceInv
<1>7. OneVerdictEach'
  <2>1. 1..Len(audit') = 1..Len(audit) \cup {Len(audit) + 1}
    <3>1. Len(audit) \in Nat
      BY LenProperties DEF IInv, TypeOK
    <3> QED
      BY <1>1, <3>1
  <2>2. \A i \in 1..Len(audit) : audit'[i].req # r
    BY <1>1, <1>2 DEF Unlogged
  <2> QED
    BY <1>1, <2>1, <2>2 DEF IInv, OneVerdictEach
<1>8. RowsInv'
  <2>1. ASSUME NEW s \in Requests \ {r}, rows'[s].state # "none"
        PROVE  Logged(s, "pending_approval")' /\ pc'[s] \in {"done", "lost"}
    BY <1>1, <2>1 DEF IInv, RowsInv
  <2>2. ASSUME rows'[r].state # "none"
        PROVE  Logged(r, "pending_approval")' /\ pc'[r] \in {"done", "lost"}
    BY <1>1, <1>2, <2>2
  <2> QED
    BY <2>1, <2>2 DEF RowsInv
<1> QED
  BY <1>3, <1>4, <1>5, <1>6, <1>7, <1>8 DEF IInv

-----------------------------------------------------------------------------
(* Preservation, action by action *)

\* Nothing has happened yet.
LEMMA InitIInv == Init => IInv
<1> SUFFICES ASSUME Init PROVE IInv
  OBVIOUS
<1>1. audit = <<>> /\ Len(audit) = 0 /\ sent = {}
  BY EmptySeq DEF Init
<1>2. A!TypeOK /\ \A r \in Requests : rows[r].state = "none"
  BY DEF Init, A!Init, A!TypeOK, A!NoRow, A!Row, A!States
<1>3. Unassessed \in Assessment /\ NoReply \in Reply
  BY DEF Unassessed, Assessment, NoReply, Reply, Contents
<1>4. TypeOK
  BY <1>1, <1>2, <1>3, EmptySeq DEF Init, TypeOK, Stages, Answers
<1>5. \A r : Unlogged(r) /\ ~Logged(r, "allow")
  BY <1>1 DEF Unlogged, Logged
<1>6. PositionInv
  BY <1>1, <1>5 DEF Init, PositionInv
<1>7. OneVerdictEach
  BY <1>1 DEF OneVerdictEach
<1> QED
  BY <1>1, <1>2, <1>4, <1>5, <1>6, <1>7 DEF IInv, SentInv, EvidenceInv, RowsInv

\* Steps that neither record, nor dispatch, nor touch the approvals: each moves
\* one request to a later stage and may answer it.
LEMMA QuietStep ==
    ASSUME IInv, NEW r \in Requests,
           UNCHANGED <<up, audit, sent, approvals>>,
           req' \in [Requests -> Facts \cup {NoFacts}],
           risk' \in [Requests -> Assessment],
           reply' \in [Requests -> Reply],
           answer' \in [Requests -> Answers],
           pc' \in [Requests -> Stages],
           \A s \in Requests \ {r} : pc'[s] = pc[s] /\ req'[s] = req[s] /\ risk'[s] = risk[s],
           \/ pc'[r] = "done"
           \/ pc[r] = "unsent" /\ pc'[r] = "risk" /\ req'[r] \in Facts
           \/ pc[r] = "upstream" /\ pc'[r] = "scan",
           pc[r] \in {"unsent", "risk"} \/ (req'[r] = req[r] /\ risk'[r] = risk[r])
    PROVE  IInv'
<1>1. \A s, v : Logged(s, v)' <=> Logged(s, v)
  BY DEF Logged
<1>2. \A s : Unlogged(s)' <=> Unlogged(s)
  BY DEF Unlogged
<1>3. TypeOK'
  BY DEF IInv, TypeOK, approvals, A!TypeOK
<1>4. PositionInv'
  BY <1>1, <1>2 DEF IInv, PositionInv
<1>5. SentInv'
  BY <1>1 DEF IInv, SentInv
<1>6. EvidenceInv'
  <2>1. ASSUME NEW s \in Requests \ {r}, Logged(s, "allow")'
        PROVE  Sanctioned(s)'
    BY <1>1, <2>1 DEF IInv, EvidenceInv, Sanctioned
  <2>2. ASSUME Logged(r, "allow")'
        PROVE  Sanctioned(r)'
    <3>1. Logged(r, "allow")
      BY <1>1, <2>2
    <3>2. ~Unlogged(r)
      BY <3>1 DEF Unlogged, Logged
    <3>3. req'[r] = req[r] /\ risk'[r] = risk[r]
      BY <3>2 DEF IInv, PositionInv
    <3> QED
      BY <3>1, <3>3 DEF IInv, EvidenceInv, Sanctioned
  <2> QED
    BY <2>1, <2>2 DEF EvidenceInv
<1>7. OneVerdictEach'
  BY DEF IInv, OneVerdictEach
<1>8. RowsInv'
  BY <1>1 DEF IInv, RowsInv, approvals, PositionInv
<1> QED
  BY <1>3, <1>4, <1>5, <1>6, <1>7, <1>8 DEF IInv

\* What RecordStep needs to know of every recording action.
LEMMA AnsweredType ==
    ASSUME TypeOK, NEW r \in Requests, NEW what \in Answers, Answered(r, what)
    PROVE  /\ answer' \in [Requests -> Answers] /\ pc' \in [Requests -> Stages]
           /\ pc'[r] = "done"
           /\ \A s \in Requests \ {r} : pc'[s] = pc[s]
  BY DEF Answered, TypeOK, Stages

\* A dying process only loses what was in flight.
LEMMA ProcessDiesType ==
    ASSUME TypeOK, ProcessDies
    PROVE  /\ up' \in BOOLEAN /\ answer' \in [Requests -> Answers]
           /\ pc' \in [Requests -> Stages]
           /\ \A s \in Requests : pc'[s] \in {pc[s], "lost"}
           /\ \A s \in Requests : pc[s] = "risk" => pc'[s] = "lost"
  BY DEF ProcessDies, TypeOK, Stages, InFlight

\* Arrivals and everything that happens to a request that is not recorded.
LEMMA QuietActions ==
    ASSUME IInv, NEW r \in Requests,
           \/ Refuse(r) \/ Deny(r) \/ Admit(r) \/ Undigestible(r) \/ AuditFails(r)
           \/ DialFails(r) \/ Receive(r) \/ UpstreamFails(r) \/ Scan(r)
    PROVE  IInv'
<1> USE DEF IInv
<1>1. CASE Refuse(r)
  BY <1>1, AnsweredType, QuietStep DEF Refuse, Answers, TypeOK
<1>2. CASE Deny(r)
  BY <1>2, AnsweredType, QuietStep DEF Deny, Answers, TypeOK
<1>3. CASE Admit(r)
  <2>1. PICK facts \in Arriving : req' = [req EXCEPT ![r] = facts]
    BY <1>3 DEF Admit
  <2>2. facts \in Facts
    BY DEF Arriving
  <2>3. /\ pc' = [pc EXCEPT ![r] = "risk"] /\ pc[r] = "unsent"
        /\ UNCHANGED <<up, risk, reply, answer, audit, sent, approvals>>
    BY <1>3 DEF Admit
  <2> QED
    BY <2>1, <2>2, <2>3, QuietStep DEF TypeOK, Stages
<1>4. CASE Undigestible(r) \/ AuditFails(r)
  <2>1. PICK a \in Assessments(req[r].heuristic) : Assessed(r, a)
    BY <1>4 DEF Undigestible, AuditFails
  <2>2. a \in Assessment
    BY FactsType, AssessmentsType
  <2>3. \E what \in Answers : Answered(r, what)
    BY <1>4 DEF Undigestible, AuditFails, Answers
  <2>4. UNCHANGED <<up, req, reply, audit, sent, approvals>>
    BY <1>4 DEF Undigestible, AuditFails
  <2> QED
    BY <2>1, <2>2, <2>3, <2>4, AnsweredType, QuietStep DEF Assessed, TypeOK
<1>5. CASE DialFails(r)
  BY <1>5, AnsweredType, QuietStep DEF DialFails, Answers, TypeOK
<1>6. CASE UpstreamFails(r)
  BY <1>6, AnsweredType, QuietStep DEF UpstreamFails, Answers, TypeOK
<1>7. CASE Receive(r)
  <2>1. PICK content \in Contents :
          /\ reply' = [reply EXCEPT ![r].content = content]
          /\ \/ pc' = [pc EXCEPT ![r] = "scan"] /\ UNCHANGED answer
             \/ Answered(r, "result")
    BY <1>7 DEF Receive
  <2>2. reply' \in [Requests -> Reply]
    BY <2>1 DEF TypeOK, Reply
  <2>3. pc[r] = "upstream" /\ UNCHANGED <<up, req, risk, audit, sent, approvals>>
    BY <1>7 DEF Receive
  <2>4. CASE pc' = [pc EXCEPT ![r] = "scan"] /\ UNCHANGED answer
    BY <2>2, <2>3, <2>4, QuietStep DEF TypeOK, Stages
  <2>5. CASE Answered(r, "result")
    BY <2>2, <2>3, <2>5, AnsweredType, QuietStep DEF TypeOK, Answers
  <2> QED
    BY <2>1, <2>4, <2>5
<1>8. CASE Scan(r)
  <2>1. PICK verdict \in ScanVerdicts :
          /\ reply' = [reply EXCEPT ![r].scan = verdict]
          /\ Answered(r, IF verdict = "malicious" THEN "blocked" ELSE "result")
    <3>1. PICK text \in reply[r].content, answers \in BOOLEAN :
            LET json == Serialized(text)
                verdict == ScanResult(json, IF answers THEN {json} ELSE {})
            IN  /\ reply' = [reply EXCEPT ![r].scan = verdict]
                /\ Answered(r, IF verdict = "malicious" THEN "blocked" ELSE "result")
      BY <1>8 DEF Scan
    <3>2. text \in TextTraits
      BY TextsAssumption DEF IInv, TypeOK, Reply, Contents
    <3>3. Serialized(text) \in TextTraits
      BY <3>2 DEF Serialized, TextTraits
    <3>4. \A answered : ScanResult(Serialized(text), answered) \in ScanVerdicts
      BY <3>3, ResultVerdictsAreEarned
    <3> QED
      BY <3>1, <3>4
  <2>2. reply' \in [Requests -> Reply]
    BY <2>1 DEF TypeOK, Reply
  <2>3. \E what \in Answers : Answered(r, what)
    BY <2>1 DEF Answers
  <2>4. pc[r] = "scan" /\ UNCHANGED <<up, req, risk, audit, sent, approvals>>
    BY <1>8 DEF Scan
  <2> QED
    BY <2>2, <2>3, <2>4, AnsweredType, QuietStep DEF TypeOK
<1> QED
  BY <1>1, <1>2, <1>3, <1>4, <1>5, <1>6, <1>7, <1>8

\* The handlers' recording actions and the crashes in the middle of them.
LEMMA AllowActions ==
    ASSUME IInv, NEW r \in Requests, Allow(r) \/ CrashAfterAllow(r)
    PROVE  IInv'
<1>1. RecordAllow(r)
  BY DEF Allow, CrashAfterAllow
<1>2. PICK e \in Record, a \in Assessment :
             /\ up /\ pc[r] = "risk"
             /\ audit' = Append(audit, e) /\ e.req = r /\ e.verdict = "allow"
             /\ risk' = [risk EXCEPT ![r] = a]
             /\ req[r].obligation = "allow"
             /\ a.score >= Threshold => EscalateTo = "allow"
  BY <1>1, RecordAllowEffect DEF IInv
<1>3. UNCHANGED <<req, reply, sent, rows, tokens, now>> /\ A!TypeOK'
  BY <1>1 DEF RecordAllow, approvals, IInv, TypeOK, A!TypeOK
<1>4. CASE Allow(r)
  <2>1. /\ up' \in BOOLEAN /\ answer' \in [Requests -> Answers]
        /\ pc' \in [Requests -> Stages]
        /\ \A s \in Requests \ {r} : pc'[s] = pc[s]
        /\ pc'[r] = "dial"
    BY <1>4 DEF Allow, IInv, TypeOK, Stages
  <2> QED
    BY <1>2, <1>3, <2>1, RecordStep
<1>5. CASE CrashAfterAllow(r)
  <2>1. /\ up' \in BOOLEAN /\ answer' \in [Requests -> Answers]
        /\ pc' \in [Requests -> Stages]
        /\ \A s \in Requests : pc'[s] \in {pc[s], "lost"}
        /\ pc'[r] = "lost"
    BY <1>2, <1>5, ProcessDiesType DEF CrashAfterAllow, IInv
  <2> QED
    BY <1>2, <1>3, <2>1, RecordStep
<1> QED
  BY <1>4, <1>5

\* The ways a deferral ends: done, unbridged, row not stored, or a crash.
LEMMA DeferralActions ==
    ASSUME IInv, NEW r \in Requests,
           Defer(r) \/ DeferUnbridged(r) \/ ApprovalInsertFails(r) \/ CrashInDeferral(r)
    PROVE  IInv'
<1>1. RecordDeferral(r)
  BY DEF Defer, DeferUnbridged, ApprovalInsertFails, CrashInDeferral
<1>2. PICK e \in Record, a \in Assessment :
             /\ up /\ pc[r] = "risk"
             /\ audit' = Append(audit, e) /\ e.req = r /\ e.verdict = "pending_approval"
             /\ risk' = [risk EXCEPT ![r] = a]
  BY <1>1, RecordDeferralEffect DEF IInv
<1>3. UNCHANGED <<req, reply, sent>>
  BY <1>1 DEF RecordDeferral
<1>4. /\ A!TypeOK'
      /\ \A s \in Requests \ {r} : rows'[s] = rows[s]
  <2>1. CASE UNCHANGED approvals
    BY <2>1 DEF approvals, IInv, TypeOK, A!TypeOK
  <2>2. CASE A!Open(r, "anonymous") \/ A!OpenThenCrash(r, "anonymous")
    BY <2>2, OpenEffect DEF IInv, TypeOK
  <2> QED
    BY <2>1, <2>2 DEF Defer, DeferUnbridged, ApprovalInsertFails, CrashInDeferral
<1>5. /\ up' \in BOOLEAN /\ answer' \in [Requests -> Answers]
      /\ pc' \in [Requests -> Stages]
      /\ \A s \in Requests \ {r} : pc'[s] \in {pc[s], "lost"}
      /\ pc'[r] \in {"done", "lost"}
  <2>1. CASE CrashInDeferral(r)
    BY <1>2, <2>1, ProcessDiesType DEF CrashInDeferral, IInv
  <2>2. CASE Defer(r) \/ DeferUnbridged(r) \/ ApprovalInsertFails(r)
    <3>1. up' = up /\ \E what \in Answers : Answered(r, what)
      BY <2>2 DEF Defer, DeferUnbridged, ApprovalInsertFails, Answers
    <3> QED
      BY <3>1, AnsweredType DEF IInv, TypeOK
  <2> QED
    BY <2>1, <2>2
<1> QED
  BY <1>2, <1>3, <1>4, <1>5, RecordStep

\* Sending a request keeps the invariant: its "allow" record is there.
LEMMA DispatchKeeps ==
    ASSUME IInv, NEW r \in Requests, Dispatch(r)
    PROVE  IInv'
<1>1. /\ pc[r] = "dial" /\ pc' = [pc EXCEPT ![r] = "upstream"]
      /\ sent' = sent \cup {r}
      /\ UNCHANGED <<up, req, risk, reply, answer, audit, rows, tokens, now>>
  BY DEF Dispatch, approvals
<1>2. \A s, v : (Logged(s, v)' <=> Logged(s, v)) /\ (Unlogged(s)' <=> Unlogged(s))
  BY <1>1 DEF Logged, Unlogged
<1>3. TypeOK'
  BY <1>1 DEF IInv, TypeOK, A!TypeOK, Stages
<1>4. PositionInv' /\ SentInv' /\ RowsInv'
  BY <1>1, <1>2 DEF IInv, TypeOK, PositionInv, SentInv, RowsInv
<1>5. EvidenceInv' /\ OneVerdictEach'
  BY <1>1, <1>2 DEF IInv, EvidenceInv, OneVerdictEach, Sanctioned
<1> QED
  BY <1>3, <1>4, <1>5 DEF IInv

\* The approvals' own steps, a crash between stretches, a restart.
LEMMA EnvironmentKeeps ==
    ASSUME IInv, Approval \/ Crash \/ Restart \/ UNCHANGED vars
    PROVE  IInv'
<1>1. UNCHANGED <<req, risk, reply, answer, audit, sent>>
  BY DEF Approval, Crash, ProcessDies, Restart, vars, pipeline
<1>2. \A s, v : (Logged(s, v)' <=> Logged(s, v)) /\ (Unlogged(s)' <=> Unlogged(s))
  BY <1>1 DEF Logged, Unlogged
<1>3. /\ up' \in BOOLEAN /\ pc' \in [Requests -> Stages]
      /\ \A s \in Requests : pc'[s] \in {pc[s], "lost"}
  BY ProcessDiesType DEF IInv, TypeOK, Approval, Crash, Restart, vars, pipeline
<1>4. /\ A!TypeOK'
      /\ \A s \in Requests : rows'[s].state # "none" => rows[s].state # "none"
  <2>1. CASE Approval /\ A!Decision
    BY <2>1, DecisionEffect DEF IInv, TypeOK
  <2>2. CASE Approval /\ A!Tick
    BY <2>2 DEF A!Tick, A!TypeOK, IInv, TypeOK
  <2>3. CASE Crash \/ Restart \/ UNCHANGED vars
    BY <2>3 DEF Crash, Restart, vars, approvals, A!TypeOK, IInv, TypeOK
  <2> QED
    BY <2>1, <2>2, <2>3 DEF Approval
<1>5. TypeOK'
  BY <1>1, <1>3, <1>4 DEF IInv, TypeOK
<1>6. PositionInv' /\ SentInv' /\ RowsInv'
  BY <1>1, <1>2, <1>3, <1>4 DEF IInv, PositionInv, SentInv, RowsInv
<1>7. EvidenceInv' /\ OneVerdictEach'
  BY <1>1, <1>2 DEF IInv, EvidenceInv, OneVerdictEach, Sanctioned
<1> QED
  BY <1>5, <1>6, <1>7 DEF IInv

\* Every step keeps the inductive invariant.
LEMMA NextIInv == IInv /\ [Next]_vars => IInv'
<1> SUFFICES ASSUME IInv, [Next]_vars PROVE IInv'
  OBVIOUS
<1>1. ASSUME NEW r \in Requests,
             \/ Refuse(r) \/ Deny(r) \/ Admit(r)
             \/ AfterRisk(r) \/ AfterDial(r) \/ AfterUpstream(r) \/ Scan(r)
             \/ CrashAfterAllow(r) \/ CrashInDeferral(r)
      PROVE  IInv'
  BY <1>1, QuietActions, AllowActions, DeferralActions, DispatchKeeps
     DEF AfterRisk, AfterDial, AfterUpstream
<1>2. CASE Approval \/ Crash \/ Restart \/ UNCHANGED vars
  BY <1>2, EnvironmentKeeps
<1> QED
  BY <1>1, <1>2 DEF Next

\* The inductive invariant holds of the pipeline: where each request is agrees
\* with its record, with what was sent and with its approval row.
THEOREM Inductive == Spec => []IInv
  BY InitIInv, NextIInv, PTL DEF Spec

-----------------------------------------------------------------------------
(* What follows *)

\* Type correctness of the pipeline.
THEOREM TypeCorrect == Spec => []TypeOK
  BY Inductive, PTL DEF IInv

\* No upstream is ever called for a request that policy and risk do not both
\* allow and the audit table does not show as allowed.
THEOREM Sanction == Spec => []NothingUnsanctioned
<1>1. ASSUME IInv, NEW r \in sent
      PROVE  /\ Logged(r, "allow") /\ req[r].obligation = "allow"
             /\ risk[r].score >= Threshold \/ risk[r].failed => EscalateTo = "allow"
  <2>1. r \in Requests /\ risk[r] \in Assessment
    BY <1>1 DEF IInv, TypeOK
  <2>2. risk[r].failed => risk[r].score >= Threshold
    <3>1. risk[r].failed => risk[r].score = 100
      BY <2>1 DEF Assessment
    <3> QED
      BY <3>1, RiskAssumption
  <2>3. Logged(r, "allow") /\ Sanctioned(r)
    BY <1>1, <2>1 DEF IInv, SentInv, EvidenceInv
  <2> QED
    BY <2>2, <2>3 DEF Sanctioned
<1>2. IInv => NothingUnsanctioned
  BY <1>1 DEF NothingUnsanctioned
<1> QED
  BY <1>2, Inductive, PTL

\* A request is recorded under one verdict only.
THEOREM SingleVerdict == Spec => []OneVerdictEach
  BY Inductive, PTL DEF IInv

\* A call in front of the operator is on record as pending and not upstream.
THEOREM Held == Spec => []DeferredIsRecordedAndHeld
<1>1. ASSUME IInv, NEW r \in Requests, rows[r].state # "none"
      PROVE  Logged(r, "pending_approval") /\ r \notin sent
  <2>1. Logged(r, "pending_approval")
    BY <1>1 DEF IInv, RowsInv
  <2>2. ~Logged(r, "allow")
    BY <1>1, <2>1 DEF IInv, OneVerdictEach, Logged
  <2> QED
    BY <1>1, <2>1, <2>2 DEF IInv, SentInv
<1>2. IInv => DeferredIsRecordedAndHeld
  BY <1>1 DEF DeferredIsRecordedAndHeld
<1> QED
  BY <1>2, Inductive, PTL

-----------------------------------------------------------------------------
(* The pipeline implements Mediation *)

\* The verdict and the ruling a state of the pipeline stands for.
Verdict(r) == IF Logged(r, "allow") THEN "allow"
              ELSE IF Logged(r, "pending_approval") THEN "pending_approval"
              ELSE "none"
Verdicts == [r \in Requests |-> Verdict(r)]
Rulings == [r \in Requests |-> rows[r].state]

\* The initial pipeline has recorded, sent and asked for nothing.
LEMMA InitRefines == Init => Promise!Init
<1> SUFFICES ASSUME Init PROVE Promise!Init
  OBVIOUS
<1>1. \A r \in Requests : \A v : ~Logged(r, v)
  BY EmptySeq DEF Init, Logged
<1>2. \A r \in Requests : rows[r].state = "none"
  BY DEF Init, A!Init, A!NoRow
<1> QED
  BY <1>1, <1>2 DEF Init, Promise!Init

\* A recording step changes the verdict of its request and of no other.
LEMMA RecordVerdict ==
    ASSUME IInv, NEW r \in Requests, NEW e \in Record,
           pc[r] = "risk", audit' = Append(audit, e), e.req = r
    PROVE  /\ Verdicts[r] = "none"
           /\ Verdicts' = [Verdicts EXCEPT ![r] = e.verdict]
<1>1. \A s, v : Logged(s, v)' <=> Logged(s, v) \/ (e.req = s /\ e.verdict = v)
  BY AppendRecord DEF IInv, TypeOK
<1>2. ~Logged(r, "allow") /\ ~Logged(r, "pending_approval")
  BY DEF IInv, PositionInv, Unlogged, Logged
<1>3. e.verdict \in {"allow", "pending_approval"}
  BY DEF Record
<1>4. \A s \in Requests \ {r} : Verdict(s)' = Verdict(s)
  BY <1>1 DEF Verdict
<1>5. Verdict(r)' = e.verdict
  BY <1>1, <1>2, <1>3 DEF Verdict
<1> QED
  BY <1>2, <1>4, <1>5 DEF Verdicts, Verdict

\* A step that leaves the audit table alone changes no verdict.
LEMMA KeepVerdicts ==
    ASSUME audit' = audit
    PROVE  Verdicts' = Verdicts
  BY DEF Verdicts, Verdict, Logged

\* Every step of the pipeline is one of Mediation or leaves it unchanged.
LEMMA StepRefines == IInv /\ [Next]_vars => [Promise!Next]_(Promise!vars)
<1> SUFFICES ASSUME IInv, [Next]_vars
             PROVE  Promise!Next \/ UNCHANGED <<Verdicts, sent, Rulings>>
  BY DEF Promise!vars, Verdicts, Verdict, Rulings
<1>1. ASSUME NEW r \in Requests, Allow(r) \/ CrashAfterAllow(r)
      PROVE  Promise!RecordAllow(r)
  <2>1. PICK e \in Record : /\ pc[r] = "risk" /\ audit' = Append(audit, e)
                            /\ e.req = r /\ e.verdict = "allow"
    BY <1>1, RecordAllowEffect DEF Allow, CrashAfterAllow, IInv
  <2>2. Verdicts[r] = "none" /\ Verdicts' = [Verdicts EXCEPT ![r] = "allow"]
    BY <2>1, RecordVerdict
  <2>3. sent' = sent /\ Rulings' = Rulings
    BY <1>1 DEF Allow, CrashAfterAllow, RecordAllow, approvals, Rulings
  <2> QED
    BY <2>2, <2>3 DEF Promise!RecordAllow, Verdicts, Verdict, Rulings
<1>2. ASSUME NEW r \in Requests,
             Defer(r) \/ DeferUnbridged(r) \/ ApprovalInsertFails(r) \/ CrashInDeferral(r)
      PROVE  Promise!RecordPending(r)
  <2>1. RecordDeferral(r)
    BY <1>2 DEF Defer, DeferUnbridged, ApprovalInsertFails, CrashInDeferral
  <2>2. PICK e \in Record : /\ pc[r] = "risk" /\ audit' = Append(audit, e)
                            /\ e.req = r /\ e.verdict = "pending_approval"
    BY <2>1, RecordDeferralEffect DEF IInv
  <2>3. Verdicts[r] = "none" /\ Verdicts' = [Verdicts EXCEPT ![r] = "pending_approval"]
    BY <2>2, RecordVerdict
  <2>4. sent' = sent
    BY <2>1 DEF RecordDeferral
  <2>5. Rulings' = [Rulings EXCEPT ![r] = "pending"] \/ Rulings' = Rulings
    <3>1. CASE UNCHANGED approvals
      BY <3>1 DEF approvals, Rulings
    <3>2. CASE A!Open(r, "anonymous") \/ A!OpenThenCrash(r, "anonymous")
      BY <3>2, OpenEffect DEF Rulings, IInv, TypeOK
    <3> QED
      BY <1>2, <3>1, <3>2 DEF Defer, DeferUnbridged, ApprovalInsertFails, CrashInDeferral
  <2> QED
    BY <2>3, <2>4, <2>5 DEF Promise!RecordPending, Verdicts, Verdict, Rulings
<1>3. ASSUME NEW r \in Requests, Dispatch(r)
      PROVE  Promise!Dispatch(r)
  <2>1. Verdicts[r] = "allow" /\ r \notin sent
    BY <1>3 DEF Dispatch, IInv, PositionInv, Verdicts, Verdict
  <2>2. Verdicts' = Verdicts /\ sent' = sent \cup {r} /\ Rulings' = Rulings
    BY <1>3, KeepVerdicts DEF Dispatch, approvals, Rulings
  <2> QED
    BY <2>1, <2>2 DEF Promise!Dispatch, Verdicts, Verdict, Rulings
<1>4. ASSUME Approval, A!Decision
      PROVE  \E r \in Requests : Promise!Rule(r)
  <2>1. PICK r \in Requests :
                /\ rows[r].state = "pending"
                /\ rows'[r].state \in {"approved", "denied"}
                /\ \A other \in Requests \ {r} : rows'[other] = rows[other]
    BY <1>4, DecisionEffect DEF IInv, TypeOK
  <2>2. Verdicts' = Verdicts /\ sent' = sent
    BY <1>4, KeepVerdicts DEF Approval, pipeline
  <2>3. Rulings[r] = "pending" /\ Rulings' = [Rulings EXCEPT ![r] = rows'[r].state]
    BY <2>1 DEF Rulings
  <2> QED
    BY <2>1, <2>2, <2>3 DEF Promise!Rule, Verdicts, Verdict, Rulings
<1>5. ASSUME NEW r \in Requests,
             \/ Refuse(r) \/ Deny(r) \/ Admit(r) \/ Undigestible(r) \/ AuditFails(r)
             \/ DialFails(r) \/ Receive(r) \/ UpstreamFails(r) \/ Scan(r)
      PROVE  UNCHANGED <<Verdicts, sent, Rulings>>
  <2>1. audit' = audit /\ sent' = sent /\ rows' = rows
    BY <1>5 DEF Refuse, Deny, Admit, Undigestible, AuditFails, DialFails, Receive,
                UpstreamFails, Scan, approvals
  <2> QED
    BY <2>1, KeepVerdicts DEF Rulings
<1>6. ASSUME (Approval /\ A!Tick) \/ Crash \/ Restart \/ UNCHANGED vars
      PROVE  UNCHANGED <<Verdicts, sent, Rulings>>
  <2>1. audit' = audit /\ sent' = sent /\ rows' = rows
    BY <1>6 DEF Approval, Crash, Restart, A!Tick, vars, approvals, pipeline
  <2> QED
    BY <2>1, KeepVerdicts DEF Rulings
<1>7. CASE \E r \in Requests :
             \/ Refuse(r) \/ Deny(r) \/ Admit(r)
             \/ AfterRisk(r) \/ AfterDial(r) \/ AfterUpstream(r) \/ Scan(r)
             \/ CrashAfterAllow(r) \/ CrashInDeferral(r)
  BY <1>1, <1>2, <1>3, <1>5, <1>7 DEF AfterRisk, AfterDial, AfterUpstream, Promise!Next
<1>8. CASE Approval \/ Crash \/ Restart \/ UNCHANGED vars
  BY <1>4, <1>6, <1>8 DEF Approval, Promise!Next
<1> QED
  BY <1>7, <1>8 DEF Next

\* Every behaviour of the pipeline is one that Mediation allows.
THEOREM Refinement == Spec => ImplementsMediation
  BY InitRefines, StepRefines, Inductive, PTL DEF Spec, ImplementsMediation, Promise!Spec

-----------------------------------------------------------------------------
(* Answers.  AnswersMatchEvidence is not inductive: an answer could be given *)
(* to a request that has one, and nothing says that the reply being scanned  *)
(* came from a request that was sent.  AInv adds both.                       *)

\* The answer of one request agrees with the durable evidence.
Warranted(r) ==
    /\ answer[r] = "deferred" =>
         /\ rows[r].state # "none"
         /\ \E tok \in tokens : tok.id = r
    /\ answer[r] \in {"denied", "undigestible", "failed", "refused"} => r \notin sent
    /\ answer[r] \in {"result", "blocked"} => r \in sent
    /\ HasScanner /\ answer[r] \in {"result", "blocked"} /\ req[r].method = "tools/call" =>
         \A text \in reply[r].content :
            /\ EarnedByResult(Serialized(text), reply[r].scan)
            /\ answer[r] = "result" <=> reply[r].scan # "malicious"

AnswerInv(r) ==
    /\ Warranted(r)
    /\ pc[r] \in {"unsent", "risk", "dial", "upstream", "scan"} => answer[r] = "none"
    /\ pc[r] \in {"upstream", "scan"} => r \in sent

AInv == \A r \in Requests : AnswerInv(r)

-----------------------------------------------------------------------------
(* Lemmas *)

\* A request the step leaves alone, or loses, keeps its answer and the evidence.
LEMMA LeftAlone ==
    ASSUME NEW s \in Requests, AnswerInv(s),
           pc'[s] \in {pc[s], "lost"},
           answer'[s] = answer[s], reply'[s] = reply[s], req'[s] = req[s],
           s \in sent' <=> s \in sent,
           rows[s].state # "none" => rows'[s].state # "none",
           tokens \subseteq tokens'
    PROVE  AnswerInv(s)'
  BY DEF AnswerInv, Warranted

\* A request in flight has no answer: what it is told is new.
LEMMA NewAnswer ==
    ASSUME IInv, NEW r \in Requests, NEW what \in Answers, Answered(r, what),
           what = "deferred" =>
             /\ rows'[r].state # "none"
             /\ \E tok \in tokens' : tok.id = r,
           what \in {"denied", "undigestible", "failed", "refused"} => r \notin sent',
           what \in {"result", "blocked"} => r \in sent',
           HasScanner /\ what \in {"result", "blocked"} /\ req'[r].method = "tools/call" =>
             \A text \in reply'[r].content :
                /\ EarnedByResult(Serialized(text), reply'[r].scan)
                /\ what = "result" <=> reply'[r].scan # "malicious"
    PROVE  /\ AnswerInv(r)'
           /\ \A s \in Requests \ {r} : pc'[s] = pc[s] /\ answer'[s] = answer[s]
<1>1. pc'[r] = "done" /\ answer'[r] = what
  BY DEF Answered, IInv, TypeOK
<1>2. \A s \in Requests \ {r} : pc'[s] = pc[s] /\ answer'[s] = answer[s]
  BY DEF Answered, IInv, TypeOK
<1>3. Warranted(r)'
  BY <1>1 DEF Warranted
<1> QED
  BY <1>1, <1>2, <1>3 DEF AnswerInv

-----------------------------------------------------------------------------
(* Preservation, action by action *)

\* Refusals and failures: a request that is refused has not been sent.
LEMMA RefusalsKeep ==
    ASSUME IInv, AInv, NEW r \in Requests,
           \/ Refuse(r) \/ Deny(r) \/ Undigestible(r) \/ AuditFails(r)
           \/ DialFails(r) \/ UpstreamFails(r)
    PROVE  AInv'
<1>1. UNCHANGED <<req, reply, sent, rows, tokens>>
  BY DEF Refuse, Deny, Undigestible, AuditFails, DialFails, UpstreamFails, approvals
<1>2. PICK what \in {"unknown", "denied", "undigestible", "failed", "unavailable"} :
         /\ Answered(r, what)
         /\ what \in {"denied", "undigestible", "failed"} => pc[r] \in {"unsent", "risk"}
  BY DEF Refuse, Deny, Undigestible, AuditFails, DialFails, UpstreamFails, Assessed
<1>3. what \in Answers /\ (what \in {"denied", "undigestible", "failed"} => r \notin sent')
  BY <1>1, <1>2 DEF Answers, IInv, PositionInv
<1>4. /\ AnswerInv(r)'
      /\ \A s \in Requests \ {r} : pc'[s] = pc[s] /\ answer'[s] = answer[s]
  BY <1>2, <1>3, NewAnswer
<1>5. ASSUME NEW s \in Requests \ {r} PROVE AnswerInv(s)'
  BY <1>1, <1>4, LeftAlone DEF AInv
<1> QED
  BY <1>4, <1>5 DEF AInv

\* Arriving, being recorded as allowed and being sent answer nothing.
LEMMA ProgressKeeps ==
    ASSUME IInv, AInv, NEW r \in Requests,
           Admit(r) \/ Allow(r) \/ CrashAfterAllow(r) \/ Dispatch(r)
    PROVE  AInv'
<1>1. UNCHANGED <<reply, answer, rows, tokens>>
  BY DEF Admit, Allow, CrashAfterAllow, ProcessDies, RecordAllow, Dispatch, approvals
<1>2. /\ pc[r] \in {"unsent", "risk", "dial"}
      /\ answer[r] = "none"
  BY DEF Admit, Allow, CrashAfterAllow, RecordAllow, Assessed, Dispatch, AInv, AnswerInv
<1>3. \A s \in Requests \ {r} : /\ pc'[s] \in {pc[s], "lost"} /\ req'[s] = req[s]
                                /\ s \in sent' <=> s \in sent
  <2>1. CASE Admit(r)
    BY <2>1 DEF Admit, IInv, TypeOK
  <2>2. CASE Allow(r)
    BY <2>2 DEF Allow, RecordAllow, IInv, TypeOK
  <2>3. CASE CrashAfterAllow(r)
    BY <2>3, ProcessDiesType DEF CrashAfterAllow, RecordAllow, IInv
  <2>4. CASE Dispatch(r)
    BY <2>4 DEF Dispatch, IInv, TypeOK
  <2> QED
    BY <2>1, <2>2, <2>3, <2>4
<1>4. pc'[r] \in {"upstream", "scan"} => r \in sent'
  <2>1. CASE Admit(r) \/ Allow(r)
    BY <2>1 DEF Admit, Allow, IInv, TypeOK
  <2>2. CASE CrashAfterAllow(r)
    BY <1>2, <2>2 DEF CrashAfterAllow, ProcessDies
  <2>3. CASE Dispatch(r)
    BY <2>3 DEF Dispatch
  <2> QED
    BY <2>1, <2>2, <2>3
<1>5. AnswerInv(r)'
  <2>1. answer'[r] = "none"
    BY <1>1, <1>2
  <2>2. Warranted(r)'
    BY <2>1 DEF Warranted
  <2> QED
    BY <1>4, <2>1, <2>2 DEF AnswerInv
<1>6. ASSUME NEW s \in Requests \ {r} PROVE AnswerInv(s)'
  BY <1>1, <1>3, LeftAlone DEF AInv
<1> QED
  BY <1>5, <1>6 DEF AInv

\* Deferrals: the task id is told only once the row is stored and its links signed.
LEMMA DeferralsKeep ==
    ASSUME IInv, AInv, NEW r \in Requests,
           Defer(r) \/ DeferUnbridged(r) \/ ApprovalInsertFails(r) \/ CrashInDeferral(r)
    PROVE  AInv'
<1>1. /\ RecordDeferral(r) /\ pc[r] = "risk"
      /\ UNCHANGED <<req, reply, sent>>
  BY DEF Defer, DeferUnbridged, ApprovalInsertFails, CrashInDeferral, RecordDeferral, Assessed
<1>2. /\ tokens \subseteq tokens'
      /\ \A s \in Requests \ {r} : rows'[s] = rows[s]
      /\ rows[r].state # "none" => rows'[r].state # "none"
  <2>1. CASE UNCHANGED approvals
    BY <2>1 DEF approvals
  <2>2. CASE A!Open(r, "anonymous") \/ A!OpenThenCrash(r, "anonymous")
    <3>1. tokens \subseteq tokens'
      BY <2>2 DEF A!Open, A!OpenThenCrash
    <3> QED
      BY <2>2, <3>1, OpenEffect DEF IInv, TypeOK
  <2> QED
    BY <2>1, <2>2 DEF Defer, DeferUnbridged, ApprovalInsertFails, CrashInDeferral
<1>3. r \notin sent' /\ answer[r] = "none"
  BY <1>1 DEF IInv, PositionInv, AInv, AnswerInv
<1>4. CASE CrashInDeferral(r)
  <2>1. /\ answer' = answer
        /\ \A s \in Requests : pc'[s] \in {pc[s], "lost"}
    BY <1>4, ProcessDiesType DEF CrashInDeferral, ProcessDies, IInv
  <2> QED
    BY <1>1, <1>2, <2>1, LeftAlone DEF AInv
<1>5. CASE Defer(r) \/ DeferUnbridged(r) \/ ApprovalInsertFails(r)
  <2>1. PICK what \in {"deferred", "refused", "failed"} :
           /\ Answered(r, what)
           /\ what = "deferred" => A!Open(r, "anonymous")
    BY <1>5 DEF Defer, DeferUnbridged, ApprovalInsertFails
  <2>2. ASSUME A!Open(r, "anonymous")
        PROVE  rows'[r].state # "none" /\ \E tok \in tokens' : tok.id = r
    <3>1. rows'[r].state = "pending"
      BY <2>2, OpenEffect DEF IInv, TypeOK
    <3> DEFINE link == [id |-> r, action |-> "approve", expires |-> now + Lifetime]
    <3>2. link \in A!SignedTokens(r) /\ link.id = r
      BY DEF A!SignedTokens, A!Actions
    <3>3. link \in tokens'
      BY <2>2, <3>2 DEF A!Open
    <3> QED
      BY <3>1, <3>2, <3>3
  <2>3. what \in Answers
    BY DEF Answers
  <2>4. /\ AnswerInv(r)'
        /\ \A s \in Requests \ {r} : pc'[s] = pc[s] /\ answer'[s] = answer[s]
    BY <1>3, <2>1, <2>2, <2>3, NewAnswer
  <2>5. ASSUME NEW s \in Requests \ {r} PROVE AnswerInv(s)'
    BY <1>1, <1>2, <2>4, LeftAlone DEF AInv
  <2> QED
    BY <2>4, <2>5 DEF AInv
<1> QED
  BY <1>4, <1>5

\* Only what needs no scan is answered when the reply arrives.
LEMMA ReceiveKeeps ==
    ASSUME IInv, AInv, NEW r \in Requests, Receive(r)
    PROVE  AInv'
<1>1. PICK content \in Contents :
        /\ reply' = [reply EXCEPT ![r].content = content]
        /\ IF HasScanner /\ req[r].method = "tools/call" /\ content # {}
           THEN pc' = [pc EXCEPT ![r] = "scan"] /\ UNCHANGED answer
           ELSE Answered(r, "result")
  BY DEF Receive
<1>2. pc[r] = "upstream" /\ UNCHANGED <<req, sent, rows, tokens>>
  BY DEF Receive, approvals
<1>3. r \in sent' /\ answer[r] = "none"
  BY <1>2 DEF AInv, AnswerInv
<1>4. reply'[r].content = content /\ \A s \in Requests \ {r} : reply'[s] = reply[s]
  BY <1>1 DEF IInv, TypeOK, Reply
<1>5. /\ AnswerInv(r)'
      /\ \A s \in Requests \ {r} : pc'[s] = pc[s] /\ answer'[s] = answer[s]
  <2>1. CASE HasScanner /\ req[r].method = "tools/call" /\ content # {}
    <3>1. pc' = [pc EXCEPT ![r] = "scan"] /\ answer' = answer
      BY <1>1, <2>1
    <3>2. answer'[r] = "none"
      BY <1>3, <3>1
    <3>3. Warranted(r)'
      BY <3>2 DEF Warranted
    <3> QED
      BY <1>3, <3>1, <3>2, <3>3 DEF AnswerInv, IInv, TypeOK
  <2>2. CASE ~(HasScanner /\ req[r].method = "tools/call" /\ content # {})
    <3>1. Answered(r, "result") /\ "result" \in Answers
      BY <1>1, <2>2 DEF Answers
    <3>2. ~(HasScanner /\ req'[r].method = "tools/call" /\ reply'[r].content # {})
      BY <1>2, <1>4, <2>2
    <3> QED
      BY <1>3, <3>1, <3>2, NewAnswer
  <2> QED
    BY <2>1, <2>2
<1>6. ASSUME NEW s \in Requests \ {r} PROVE AnswerInv(s)'
  BY <1>2, <1>4, <1>5, LeftAlone DEF AInv
<1> QED
  BY <1>5, <1>6 DEF AInv

\* The scan's verdict is earned by the content, and decides the answer.
LEMMA ScanKeeps ==
    ASSUME IInv, AInv, NEW r \in Requests, Scan(r)
    PROVE  AInv'
<1>1. PICK text \in reply[r].content, answers \in BOOLEAN :
        LET json == Serialized(text)
            verdict == ScanResult(json, IF answers THEN {json} ELSE {})
        IN  /\ reply' = [reply EXCEPT ![r].scan = verdict]
            /\ Answered(r, IF verdict = "malicious" THEN "blocked" ELSE "result")
  BY DEF Scan
<1> DEFINE verdict == ScanResult(Serialized(text), IF answers THEN {Serialized(text)} ELSE {})
           what == IF verdict = "malicious" THEN "blocked" ELSE "result"
<1>2. reply' = [reply EXCEPT ![r].scan = verdict] /\ Answered(r, what)
  BY <1>1
<1>3. reply[r] \in Reply /\ reply[r].content = {text} /\ text \in TextTraits
  BY TextsAssumption DEF IInv, TypeOK, Reply, Contents
<1>4. Serialized(text) \in TextTraits
  BY <1>3 DEF Serialized, TextTraits
<1>5. EarnedByResult(Serialized(text), verdict)
  BY <1>4, ResultVerdictsAreEarned
<1> HIDE DEF verdict
<1>6. /\ reply'[r].content = {text} /\ reply'[r].scan = verdict
      /\ \A s \in Requests \ {r} : reply'[s] = reply[s]
  BY <1>2, <1>3 DEF IInv, TypeOK, Reply
<1>7. pc[r] = "scan" /\ UNCHANGED <<req, sent, rows, tokens>>
  BY DEF Scan, approvals
<1>8. /\ r \in sent' /\ what \in Answers /\ what \in {"result", "blocked"}
      /\ what = "result" <=> verdict # "malicious"
  BY <1>7 DEF AInv, AnswerInv, Answers
<1> HIDE DEF what
<1>9. \A t \in reply'[r].content :
         /\ EarnedByResult(Serialized(t), reply'[r].scan)
         /\ what = "result" <=> reply'[r].scan # "malicious"
  BY <1>5, <1>6, <1>8
<1>10. /\ AnswerInv(r)'
       /\ \A s \in Requests \ {r} : pc'[s] = pc[s] /\ answer'[s] = answer[s]
  BY <1>2, <1>8, <1>9, NewAnswer
<1>11. ASSUME NEW s \in Requests \ {r} PROVE AnswerInv(s)'
  BY <1>6, <1>7, <1>10, LeftAlone DEF AInv
<1> QED
  BY <1>10, <1>11 DEF AInv

\* Decisions, time, crashes between stretches and restarts answer nothing, and no
\* row or link ever disappears.
LEMMA EnvironmentKeepsAnswers ==
    ASSUME IInv, AInv, Approval \/ Crash \/ Restart \/ UNCHANGED vars
    PROVE  AInv'
<1>1. UNCHANGED <<req, reply, answer, sent>>
  BY DEF Approval, Crash, ProcessDies, Restart, vars, pipeline
<1>2. \A s \in Requests : pc'[s] \in {pc[s], "lost"}
  BY ProcessDiesType DEF IInv, Approval, Crash, Restart, vars, pipeline
<1>3. /\ tokens \subseteq tokens'
      /\ \A s \in Requests : rows[s].state # "none" => rows'[s].state # "none"
  <2>1. CASE Approval /\ A!Decision
    BY <2>1, DecisionEffect DEF IInv, TypeOK
  <2>2. CASE (Approval /\ A!Tick) \/ Crash \/ Restart \/ UNCHANGED vars
    BY <2>2 DEF A!Tick, Crash, Restart, vars, approvals
  <2> QED
    BY <2>1, <2>2 DEF Approval
<1> QED
  BY <1>1, <1>2, <1>3, LeftAlone DEF AInv

-----------------------------------------------------------------------------
(* The theorem *)

\* What the agent is told agrees with the durable evidence, and a tool's content
\* reaches it only after a scan that earned its verdict.
THEOREM AnswersMatch == Spec => []AnswersMatchEvidence
<1>1. Init => AInv
  BY DEF Init, AInv, AnswerInv, Warranted
<1>2. IInv /\ AInv /\ [Next]_vars => AInv'
  <2> SUFFICES ASSUME IInv, AInv, [Next]_vars PROVE AInv'
    OBVIOUS
  <2>1. CASE \E r \in Requests :
               \/ Refuse(r) \/ Deny(r) \/ Admit(r)
               \/ AfterRisk(r) \/ AfterDial(r) \/ AfterUpstream(r) \/ Scan(r)
               \/ CrashAfterAllow(r) \/ CrashInDeferral(r)
    BY <2>1, RefusalsKeep, ProgressKeeps, DeferralsKeep, ReceiveKeeps, ScanKeeps
       DEF AfterRisk, AfterDial, AfterUpstream
  <2>2. CASE Approval \/ Crash \/ Restart \/ UNCHANGED vars
    BY <2>2, EnvironmentKeepsAnswers
  <2> QED
    BY <2>1, <2>2 DEF Next
<1>3. AInv => AnswersMatchEvidence
  BY DEF AInv, AnswerInv, Warranted, AnswersMatchEvidence
<1> QED
  BY <1>1, <1>2, <1>3, Inductive, PTL DEF Spec
=============================================================================
