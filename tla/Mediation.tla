----------------------------- MODULE Mediation -----------------------------
(***************************************************************************)
(* What the gateway promises about every request that reaches an upstream, *)
(* with no handlers, awaits or crashes in it: a verdict is recorded once,  *)
(* an upstream is called only under a recorded "allow" and only once, and  *)
(* a deferred request gets at most one ruling.  RequestPipeline is shown   *)
(* to implement it.                                                        *)
(***************************************************************************)
CONSTANT Requests

VARIABLES
    verdict,      \* the recorded verdict of each request, or "none"
    dispatched,   \* the requests an upstream has been called for
    ruling        \* the human ruling on each deferred request

vars == <<verdict, dispatched, ruling>>

TypeOK ==
    /\ verdict \in [Requests -> {"none", "allow", "pending_approval"}]
    /\ dispatched \in SUBSET Requests
    /\ ruling \in [Requests -> {"none", "pending", "approved", "denied"}]

Init ==
    /\ verdict = [r \in Requests |-> "none"]
    /\ dispatched = {}
    /\ ruling = [r \in Requests |-> "none"]

RecordAllow(r) ==
    /\ verdict[r] = "none"
    /\ verdict' = [verdict EXCEPT ![r] = "allow"]
    /\ UNCHANGED <<dispatched, ruling>>

\* Deferring usually opens a ruling; it does not when approvals are not
\* configured or the approval could not be stored.
RecordPending(r) ==
    /\ verdict[r] = "none"
    /\ verdict' = [verdict EXCEPT ![r] = "pending_approval"]
    /\ \/ ruling' = [ruling EXCEPT ![r] = "pending"]
       \/ UNCHANGED ruling
    /\ UNCHANGED dispatched

Dispatch(r) ==
    /\ verdict[r] = "allow"
    /\ r \notin dispatched
    /\ dispatched' = dispatched \cup {r}
    /\ UNCHANGED <<verdict, ruling>>

Rule(r) ==
    /\ ruling[r] = "pending"
    /\ \E answer \in {"approved", "denied"} : ruling' = [ruling EXCEPT ![r] = answer]
    /\ UNCHANGED <<verdict, dispatched>>

Next == \E r \in Requests :
    RecordAllow(r) \/ RecordPending(r) \/ Dispatch(r) \/ Rule(r)

Spec == Init /\ [][Next]_vars
=============================================================================
