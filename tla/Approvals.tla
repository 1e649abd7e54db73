----------------------------- MODULE Approvals -----------------------------
(***************************************************************************)
(* Human approval of deferred calls: the SQLite table of                   *)
(* packages/approvals/src/store.ts, the HMAC links of signer.ts, the       *)
(* loopback endpoints of apps/gateway/src/server/http.ts and the two MCP    *)
(* entry points that touch a row, tasks/cancel and approve_request.        *)
(*                                                                         *)
(* Every operation on a row is one synchronous SQLite statement, so each   *)
(* is one step here.  What may interleave is everything around it: two     *)
(* people following the two links, an agent cancelling, a token expiring   *)
(* while it is held, the process dying.  The table is durable and a token  *)
(* carries its own authority, so a restart changes nothing in this module. *)
(***************************************************************************)
EXTENDS Naturals, FiniteSets

CONSTANTS
    Ids,        \* task ids handed out by newId('task')
    Agents,     \* identities a request may have been made under
    Caller,     \* the identity every MCP caller has ("anonymous" in the code)
    Lifetime,   \* how long a token is good for (24h in the code), in ticks
    MaxTime     \* bound: the clock stops here

ASSUME CallerAssumption == Caller \in Agents
ASSUME TimeAssumption   == Lifetime \in Nat /\ MaxTime \in Nat

VARIABLES
    rows,       \* the approvals table; a row in state "none" does not exist
    tokens,     \* tokens signed and shown to the operator so far
    now         \* Date.now()

vars == <<rows, tokens, now>>

-----------------------------------------------------------------------------
(* Data *)

Actions == {"approve", "deny"}

\* expires is the instant after which verify refuses the token.
Token == [id : Ids, action : Actions, expires : Nat]

NoToken == [id |-> "none", action |-> "none", expires |-> 0]

\* "expired" is a legal value of the column's type.
States == {"none", "pending", "approved", "denied", "expired"}

\* token is a history field: the token that was presented for the decision.
Row == [state    : States,
        agent    : Agents \cup {"none"},
        approver : {"none", "human-link", "agent-cancel", "agent"},
        decided  : Nat,
        token    : Token \cup {NoToken}]

NoRow == [state |-> "none", agent |-> "none", approver |-> "none",
          decided |-> 0, token |-> NoToken]

PendingRow(agent) == [NoRow EXCEPT !.state = "pending", !.agent = agent]

\* The pair of tokens a handler signs for a row it has just inserted.
SignedTokens(id) ==
    {[id |-> id, action |-> a, expires |-> now + Lifetime] : a \in Actions}

\* Defect: the token's age is not checked.
VerifiedAtAnyAge(tok) == TRUE

\* Signer.verify: the signature of an issued token always checks, so what is
\* left to refuse is its age.
Verified(tok) == now <= tok.expires

\* Defect: the action is stored where the state belongs.
OutcomeIsTheAction(action) == action

\* The state the update writes for a token's action.
Outcome(action) == IF action = "approve" THEN "approved" ELSE "denied"

\* Any state but "pending" is final: updateState only touches pending rows.
Settled(id) == rows[id].state \notin {"none", "pending"}

-----------------------------------------------------------------------------
(* Operations *)

\* Defect: UPDATE without AND state = 'pending'.
UpdateAnyState(id, state, approver, tok) ==
    /\ rows[id] # NoRow
    /\ rows' = [rows EXCEPT ![id] = [@ EXCEPT !.state    = state,
                                              !.approver = approver,
                                              !.decided  = now,
                                              !.token    = tok]]
    /\ UNCHANGED <<tokens, now>>

\* ApprovalStore.updateState: one UPDATE ... WHERE state = 'pending'; it throws,
\* and so changes nothing, when no pending row has that id.
UpdateState(id, state, approver, tok) ==
    /\ rows[id].state = "pending"
    /\ rows' = [rows EXCEPT ![id] = [@ EXCEPT !.state    = state,
                                              !.approver = approver,
                                              !.decided  = now,
                                              !.token    = tok]]
    /\ UNCHANGED <<tokens, now>>

\* A handler defers a call: it inserts the row, signs both tokens and has the
\* notifier print the links, all before its next await.
Open(id, agent) ==
    /\ rows[id] = NoRow
    /\ rows' = [rows EXCEPT ![id] = PendingRow(agent)]
    /\ tokens' = tokens \cup SignedTokens(id)
    /\ UNCHANGED now

\* The process dies between the INSERT and the notifier's output: the row is
\* durable and nobody ever sees a link for it.
OpenThenCrash(id, agent) ==
    /\ rows[id] = NoRow
    /\ rows' = [rows EXCEPT ![id] = PendingRow(agent)]
    /\ UNCHANGED <<tokens, now>>

\* GET /approve/:id and GET /deny/:id, with any token on any path.
FollowLink(path, id, tok) ==
    /\ Verified(tok)
    /\ tok.id = id
    /\ tok.action = path
    /\ UpdateState(id, Outcome(path), "human-link", tok)

\* The approve_request tool: the caller must not be the requesting agent.
ApproveRequest(tok) ==
    /\ Verified(tok)
    /\ rows[tok.id].agent # Caller
    /\ UpdateState(tok.id, Outcome(tok.action), "agent", tok)

\* tasks/cancel.
TasksCancel(id) == UpdateState(id, "denied", "agent-cancel", NoToken)

Tick == now < MaxTime /\ now' = now + 1 /\ UNCHANGED <<rows, tokens>>

Init ==
    /\ rows = [id \in Ids |-> NoRow]
    /\ tokens = {}
    /\ now = 0

\* Everything that can happen to a row once it exists.
Decision ==
    \/ \E tok \in tokens, path \in Actions, id \in Ids : FollowLink(path, id, tok)
    \/ \E tok \in tokens : ApproveRequest(tok)
    \/ \E id \in Ids : TasksCancel(id)

Next ==
    \/ \E id \in Ids, agent \in Agents : Open(id, agent) \/ OpenThenCrash(id, agent)
    \/ Decision
    \/ Tick

\* Only the clock is fair: nobody is obliged to answer a notification.
Spec == Init /\ [][Next]_vars /\ WF_vars(Tick)

-----------------------------------------------------------------------------
(* Properties *)

TypeOK ==
    /\ rows \in [Ids -> Row]
    /\ tokens \in SUBSET Token
    /\ now \in Nat

\* Every decision on record was made on the authority it needs.  A row is
\* approved only on the strength of a token signed for that very row and that
\* very action, presented before it expired; cancelling never approves; and a
\* decision through approve_request is never that of the identity which asked
\* for the call (store.ts updateState, http.ts /approve/:id, handlers.ts
\* handleApproveRequest).
DecisionsAreAuthorised ==
    \A id \in Ids :
        /\ rows[id].state = "approved" =>
             /\ rows[id].token \in tokens
             /\ rows[id].token.id = id
             /\ rows[id].token.action = "approve"
             /\ rows[id].decided <= rows[id].token.expires
        /\ rows[id].approver = "agent" => rows[id].agent # Caller

\* The first decision stands: whatever races to the row afterwards - the other
\* link, a replay of the same link, a cancel - a settled row and everything
\* recorded in it never changes again.
DecisionIsFinal ==
    [][\A id \in Ids : Settled(id) => rows'[id] = rows[id]]_vars

=============================================================================
