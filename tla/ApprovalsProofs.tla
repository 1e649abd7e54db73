-------------------------- MODULE ApprovalsProofs --------------------------
(* Theorems about Approvals, for every set of rows and of agents, every     *)
(* token lifetime and every bound on the clock.                             *)
EXTENDS Approvals, TLAPS

\* updateState writes a well-typed row and leaves the other rows alone.
LEMMA UpdateStateType ==
    ASSUME TypeOK, NEW id \in Ids,
           NEW state \in {"approved", "denied"},
           NEW approver \in {"human-link", "agent-cancel", "agent"},
           NEW tok \in Token \cup {NoToken},
           UpdateState(id, state, approver, tok)
    PROVE  /\ TypeOK'
           /\ rows[id].state = "pending"
           /\ rows'[id].state = state
           /\ rows'[id].approver = approver
           /\ rows'[id].agent = rows[id].agent
           /\ rows'[id].token = tok
           /\ rows'[id].decided = now
           /\ \A other \in Ids \ {id} : rows'[other] = rows[other]
           /\ tokens' = tokens /\ now' = now
<1> DEFINE new == [rows[id] EXCEPT !.state = state, !.approver = approver,
                                   !.decided = now, !.token = tok]
<1>1. rows[id] \in Row /\ now \in Nat /\ rows \in [Ids -> Row]
  BY DEF TypeOK
<1>2. rows' = [rows EXCEPT ![id] = new] /\ tokens' = tokens /\ now' = now
      /\ rows[id].state = "pending"
  BY DEF UpdateState
<1>3. new \in Row /\ new.state = state /\ new.approver = approver /\ new.token = tok
      /\ new.decided = now /\ new.agent = rows[id].agent
  BY <1>1 DEF Row, States
<1>4. rows' \in [Ids -> Row] /\ rows'[id] = new
      /\ \A other \in Ids \ {id} : rows'[other] = rows[other]
  BY <1>1, <1>2, <1>3
<1>5. TypeOK'
  BY <1>2, <1>4 DEF TypeOK
<1> QED
  BY <1>2, <1>3, <1>4, <1>5

\* The tokens signed for a row are tokens.
LEMMA SignedTokensType ==
    ASSUME TypeOK, NEW id \in Ids
    PROVE  SignedTokens(id) \subseteq Token
  BY TimeAssumption DEF TypeOK, SignedTokens, Token, Actions

\* A new row is well typed.
LEMMA PendingRowType ==
    ASSUME NEW agent \in Agents
    PROVE  /\ PendingRow(agent) \in Row
           /\ PendingRow(agent).state = "pending"
           /\ PendingRow(agent).approver = "none"
  BY DEF PendingRow, NoRow, Row, States

\* How a decision can come about: the row was pending, and what is written into
\* it is one of the three ways http.ts and handlers.ts have of deciding.
LEMMA DecisionCases ==
    ASSUME TypeOK, Decision
    PROVE  \E id \in Ids, state \in {"approved", "denied"},
              approver \in {"human-link", "agent-cancel", "agent"},
              tok \in Token \cup {NoToken} :
             /\ UpdateState(id, state, approver, tok)
             /\ state = "approved" =>
                  /\ tok \in tokens /\ tok.id = id
                  /\ tok.action = "approve" /\ now <= tok.expires
             /\ approver = "agent" => rows[id].agent # Caller
<1>1. CASE \E tok \in tokens, path \in Actions, id \in Ids : FollowLink(path, id, tok)
  BY <1>1 DEF FollowLink, Verified, Outcome, Actions, TypeOK
<1>2. CASE \E tok \in tokens : ApproveRequest(tok)
  <2>1. PICK tok \in tokens : ApproveRequest(tok)
    BY <1>2
  <2>2. tok \in Token /\ tok.id \in Ids /\ tok.action \in Actions
    BY DEF TypeOK, Token
  <2> QED
    BY <2>1, <2>2 DEF ApproveRequest, Verified, Outcome, Actions
<1>3. CASE \E id \in Ids : TasksCancel(id)
  BY <1>3 DEF TasksCancel
<1> QED
  BY <1>1, <1>2, <1>3 DEF Decision

-----------------------------------------------------------------------------

Safe == TypeOK /\ DecisionsAreAuthorised

\* The empty table is safe.
LEMMA InitSafe == Init => Safe
  BY TimeAssumption
     DEF Init, Safe, TypeOK, DecisionsAreAuthorised, NoRow, Row, States

\* Opening a row keeps Safe: no token disappears and the new row is pending.
LEMMA OpenSafe ==
    ASSUME Safe, NEW id \in Ids, NEW agent \in Agents,
           Open(id, agent) \/ OpenThenCrash(id, agent)
    PROVE  Safe'
<1>1. rows' = [rows EXCEPT ![id] = PendingRow(agent)] /\ now' = now
      /\ tokens \subseteq tokens' /\ tokens' \subseteq tokens \cup SignedTokens(id)
  BY DEF Open, OpenThenCrash
<1>2. TypeOK'
  BY <1>1, SignedTokensType, PendingRowType DEF Safe, TypeOK
<1>3. DecisionsAreAuthorised'
  BY <1>1, PendingRowType DEF Safe, TypeOK, DecisionsAreAuthorised
<1> QED
  BY <1>2, <1>3 DEF Safe

\* A decision, however it comes about, keeps Safe.
LEMMA DecisionSafe ==
    ASSUME Safe, Decision
    PROVE  Safe'
<1>1. PICK id \in Ids, state \in {"approved", "denied"},
           approver \in {"human-link", "agent-cancel", "agent"},
           tok \in Token \cup {NoToken} :
             /\ UpdateState(id, state, approver, tok)
             /\ state = "approved" =>
                  /\ tok \in tokens /\ tok.id = id
                  /\ tok.action = "approve" /\ now <= tok.expires
             /\ approver = "agent" => rows[id].agent # Caller
  BY DecisionCases DEF Safe
<1>2. /\ TypeOK'
      /\ rows'[id].state = state /\ rows'[id].approver = approver
      /\ rows'[id].agent = rows[id].agent
      /\ rows'[id].token = tok /\ rows'[id].decided = now
      /\ \A other \in Ids \ {id} : rows'[other] = rows[other]
      /\ tokens' = tokens
  BY <1>1, UpdateStateType DEF Safe
<1>3. DecisionsAreAuthorised'
  BY <1>1, <1>2 DEF Safe, DecisionsAreAuthorised
<1> QED
  BY <1>2, <1>3 DEF Safe

\* Every step keeps Safe.
LEMMA NextSafe == Safe /\ [Next]_vars => Safe'
<1> SUFFICES ASSUME Safe, [Next]_vars PROVE Safe'
  OBVIOUS
<1>1. CASE \E id \in Ids, agent \in Agents : Open(id, agent) \/ OpenThenCrash(id, agent)
  BY <1>1, OpenSafe
<1>2. CASE Decision
  BY <1>2, DecisionSafe
<1>3. CASE Tick
  BY <1>3 DEF Tick, Safe, TypeOK, DecisionsAreAuthorised
<1>4. CASE UNCHANGED vars
  BY <1>4 DEF vars, Safe, TypeOK, DecisionsAreAuthorised
<1> QED
  BY <1>1, <1>2, <1>3, <1>4 DEF Next

\* The inductive invariant: well-typed rows and tokens, and every decision on
\* record was made on the authority it needs.
THEOREM SafeAlways == Spec => []Safe
<1> QED
  BY InitSafe, NextSafe, PTL DEF Spec

\* Type correctness of the approvals table and of the tokens.
THEOREM TypeCorrect == Spec => []TypeOK
  BY SafeAlways, PTL DEF Safe

\* Approvals rest on the row's own, unexpired approve token, and no identity
\* decides its own request through approve_request.
THEOREM DecisionsAuthorised == Spec => []DecisionsAreAuthorised
  BY SafeAlways, PTL DEF Safe

-----------------------------------------------------------------------------

\* A step changes only rows that do not exist yet or are pending.
LEMMA SettledRowsKept ==
    ASSUME TypeOK, [Next]_vars, NEW id \in Ids, Settled(id)
    PROVE  rows'[id] = rows[id]
<1>1. rows[id].state # "none" /\ rows[id].state # "pending" /\ rows[id] # NoRow
  BY DEF Settled, NoRow
<1>2. CASE \E i \in Ids, agent \in Agents : Open(i, agent) \/ OpenThenCrash(i, agent)
  BY <1>1, <1>2 DEF Open, OpenThenCrash, TypeOK
<1>3. CASE Decision
  <2>1. PICK i \in Ids, state \in {"approved", "denied"},
             approver \in {"human-link", "agent-cancel", "agent"},
             tok \in Token \cup {NoToken} : UpdateState(i, state, approver, tok)
    BY <1>3, DecisionCases
  <2>2. rows[i].state = "pending" /\ \A other \in Ids \ {i} : rows'[other] = rows[other]
    BY <2>1, UpdateStateType
  <2> QED
    BY <1>1, <2>2
<1>4. CASE Tick \/ UNCHANGED vars
  BY <1>4 DEF Tick, vars
<1> QED
  BY <1>2, <1>3, <1>4 DEF Next

\* The first decision stands, whatever races to the row afterwards.
THEOREM DecisionsFinal == Spec => DecisionIsFinal
<1>1. TypeOK /\ [Next]_vars => [\A id \in Ids : Settled(id) => rows'[id] = rows[id]]_vars
  BY SettledRowsKept
<1> QED
  BY <1>1, TypeCorrect, PTL DEF Spec, DecisionIsFinal
=============================================================================
