--------------------------- MODULE UpstreamClient ---------------------------
(***************************************************************************)
(* One pooled upstream connection, apps/gateway/src/upstream/client.ts:    *)
(* lazy single-flight dialling, the fail-fast window, the calls that share *)
(* the connection, disconnects, reset and shutdown.                        *)
(*                                                                         *)
(* A step is what the event loop runs between two external events: an      *)
(* event (a call, a handshake result, a transport closing, a timer) with   *)
(* the promise continuations it releases.  The generation counter exists   *)
(* because events of an old connection arrive after a new one was made;    *)
(* the model keeps every connection ever dialled, so all of them may.      *)
(*                                                                         *)
(* The module is about an upstream that is enabled and not quarantined;    *)
(* ensureReady refuses any other before all I/O and its state never moves. *)
(* A connection is named by the generation that dialled it.                *)
(***************************************************************************)
EXTENDS Naturals, FiniteSets

CONSTANTS
    Callers,         \* concurrent users of the connection: requests, warm-up, ping
    FailFastAfter,   \* pool.reconnect.failFastAfter
    InitialDelay, MaxDelay,   \* pool.reconnect, in ticks
    FactorNum, FactorDen,     \* pool.reconnect.factor, as a fraction
    MaxGeneration,   \* bound: no dial and no reset beyond this generation
    MaxTime          \* bound: the clock stops here

ASSUME FailFastAssumption == FailFastAfter \in Nat \ {0}
\* The factor is a number of at least 1; one that can be written down, in JSON or
\* as a double, is a fraction.
ASSUME BackoffAssumption ==
    /\ InitialDelay \in Nat \ {0}
    /\ MaxDelay \in Nat \ {0}
    /\ FactorNum \in Nat \ {0} /\ FactorDen \in Nat \ {0}
    /\ FactorDen <= FactorNum
ASSUME BoundAssumption == MaxGeneration \in Nat /\ MaxTime \in Nat

VARIABLES
    generation, client, health, failures, retryNotBefore,
    inFlight,        \* connectInFlight: the dial callers join, 0 for none
    dial,            \* what became of the dial of each generation
    conn,            \* the transport and SDK client each dial built
    caller,          \* each caller's call
    closer,          \* close(): not called, awaiting the dial, or past it
    now              \* Date.now()

vars == <<generation, client, health, failures, retryNotBefore, inFlight,
          dial, conn, caller, closer, now>>

-----------------------------------------------------------------------------
(* Data *)

Gens == 1..MaxGeneration

Healths == {"idle", "connecting", "ready", "unavailable", "closed"}

\* failing and superseding await safeClose; dropped: adopted, then lost.
DialStages == {"none", "handshake", "failing", "superseding",
               "adopted", "dropped", "failed", "superseded"}
Dialling == {"handshake", "failing", "superseding"}

\* at: when the dial was found to have failed.
Dial == [stage : DialStages, at : Nat]
NoDial == [stage |-> "none", at |-> 0]

ConnStates == {"none", "open", "closing", "gone"}

\* conn: the dial a waiting caller joined, or the connection a running one uses;
\* gen: the generation it captured after its await.
Call == [stage : {"idle", "waiting", "running", "answered"}, conn : Nat, gen : Nat,
         answer : {"none", "result", "unavailable", "superseded", "failfast", "refused"}]
NoCall == [stage |-> "idle", conn |-> 0, gen |-> 0, answer |-> "none"]

ShuttingDown == closer # "no"

WaitingFor(g) == {c \in Callers : caller[c].stage = "waiting" /\ caller[c].conn = g}

Answered(c, what) == [caller[c] EXCEPT !.stage = "answered", !.answer = what]

\* Defect: a superseded dial settles without rejecting.
RejectedOnFailureOnly(g, what) ==
    [c \in Callers |-> IF c \in WaitingFor(g) /\ what # "superseded"
                       THEN Answered(c, what) ELSE caller[c]]

\* Every caller that joined dial g is told the same.
Rejected(g, what) ==
    [c \in Callers |-> IF c \in WaitingFor(g) THEN Answered(c, what) ELSE caller[c]]

\* initialDelayMs * factor ** n, a fraction; the rounding of doubles is left out.
Uncapped[n \in 0..MaxGeneration] ==
    IF n = 0 THEN [num |-> InitialDelay, den |-> 1]
    ELSE [num |-> FactorNum * Uncapped[n - 1].num, den |-> FactorDen * Uncapped[n - 1].den]

\* backoffDelayMs, target: capped before anything is rounded.
Target(attempt) ==
    LET uncapped == Uncapped[attempt - 1]
    IN  IF uncapped.num < MaxDelay * uncapped.den THEN uncapped
        ELSE [num |-> MaxDelay, den |-> 1]

\* Math.round of half the target, and of the largest number below the target.
Half(attempt) == LET t == Target(attempt) IN (t.num + t.den) \div (2 * t.den)
Most(attempt) == LET t == Target(attempt) IN (2 * t.num + t.den - 1) \div (2 * t.den)

\* backoffDelayMs: equal jitter, Math.round(half + random * half).
Delays(attempt) == Half(attempt)..Most(attempt)

-----------------------------------------------------------------------------
(* The bookkeeping the handlers share *)

\* Defect: the delay is subtracted.
RecordFailureBackwards(g, current) ==
    IF g # current
    THEN UNCHANGED <<client, health, failures, retryNotBefore>>
    ELSE /\ failures' = failures + 1
         /\ client' = 0
         /\ health' = "unavailable"
         /\ \E d \in Delays(failures + 1) : retryNotBefore' = now - d

\* recordConnectFailure: ignored once the generation has moved on.
RecordConnectFailure(g, current) ==
    IF g # current
    THEN UNCHANGED <<client, health, failures, retryNotBefore>>
    ELSE /\ failures' = failures + 1
         /\ client' = 0
         /\ health' = "unavailable"
         /\ \E d \in Delays(failures + 1) : retryNotBefore' = now + d

\* Defect: a disconnect of any generation is believed.
DisconnectOfAnyGeneration(g) ==
    IF ShuttingDown
    THEN UNCHANGED <<generation, client, health, dial>>
    ELSE /\ generation' = generation + 1
         /\ client' = 0
         /\ health' = "unavailable"
         /\ dial' = [dial EXCEPT ![g].stage = "dropped"]

\* handleDisconnect: does not count as a failure, does not close anything.
HandleDisconnect(g) ==
    IF g # generation \/ ShuttingDown
    THEN UNCHANGED <<generation, client, health, dial>>
    ELSE /\ generation' = generation + 1
         /\ client' = 0
         /\ health' = "unavailable"
         /\ dial' = [dial EXCEPT ![g].stage = "dropped"]

\* dial g settles for good: connectInFlight is cleared by finally.
Settled(g, stage) == [dial EXCEPT ![g] = [stage |-> stage, at |-> now]]

-----------------------------------------------------------------------------
(* ensureReady *)

CallRefused(c) ==
    /\ caller[c].stage = "idle" /\ ShuttingDown
    /\ caller' = [caller EXCEPT ![c] = Answered(c, "refused")]
    /\ UNCHANGED <<generation, client, health, failures, retryNotBefore, inFlight,
                   dial, conn, closer, now>>

Ready == client # 0 /\ health = "ready"

CallOnReady(c) ==
    /\ caller[c].stage = "idle" /\ ~ShuttingDown /\ Ready
    /\ caller' = [caller EXCEPT ![c] = [@ EXCEPT !.stage = "running",
                                                 !.conn = client, !.gen = generation]]
    /\ UNCHANGED <<generation, client, health, failures, retryNotBefore, inFlight,
                   dial, conn, closer, now>>

JoinDial(c) ==
    /\ caller[c].stage = "idle" /\ ~ShuttingDown /\ ~Ready
    /\ inFlight # 0
    /\ caller' = [caller EXCEPT ![c] = [@ EXCEPT !.stage = "waiting", !.conn = inFlight]]
    /\ UNCHANGED <<generation, client, health, failures, retryNotBefore, inFlight,
                   dial, conn, closer, now>>

\* Defect: the window opens one failure late.
FailFastOneLate == failures > FailFastAfter /\ now < retryNotBefore

FailFast == failures >= FailFastAfter /\ now < retryNotBefore

CallFailsFast(c) ==
    /\ caller[c].stage = "idle" /\ ~ShuttingDown /\ ~Ready
    /\ inFlight = 0 /\ FailFast
    /\ caller' = [caller EXCEPT ![c] = Answered(c, "failfast")]
    /\ UNCHANGED <<generation, client, health, failures, retryNotBefore, inFlight,
                   dial, conn, closer, now>>

\* The conditions under which ensureReady calls connectOnce.
MayDial(c) ==
    /\ caller[c].stage = "idle" /\ ~ShuttingDown /\ ~Ready
    /\ inFlight = 0 /\ ~FailFast
    /\ generation < MaxGeneration

\* connectOnce up to its await of the handshake.
StartDial(c) ==
    /\ MayDial(c)
    /\ generation' = generation + 1
    /\ health' = "connecting"
    /\ inFlight' = generation'
    /\ dial' = [dial EXCEPT ![generation'].stage = "handshake"]
    /\ conn' = [conn EXCEPT ![generation'] = "open"]
    /\ caller' = [caller EXCEPT ![c] = [@ EXCEPT !.stage = "waiting", !.conn = generation']]
    /\ UNCHANGED <<client, failures, retryNotBefore, closer, now>>

\* The transport factory throws: nothing was built, the failure counts.
DialNotBuilt(c) ==
    /\ MayDial(c)
    /\ generation' = generation + 1
    /\ RecordConnectFailure(generation', generation')
    /\ dial' = Settled(generation', "failed")
    /\ caller' = [caller EXCEPT ![c] = Answered(c, "unavailable")]
    /\ UNCHANGED <<inFlight, conn, closer, now>>

-----------------------------------------------------------------------------
(* connectOnce after the handshake *)

\* Defect: shutdown and generation are not looked at after the handshake.
AdoptAnything(g) == TRUE

\* May the finished handshake be used?
Adoptable(g) == ~ShuttingDown /\ g = generation

\* The connection is adopted, onclose is armed, every waiter goes on to read
\* this.generation and send its request.
Adopt(g) ==
    /\ dial[g].stage = "handshake" /\ Adoptable(g)
    /\ client' = g
    /\ health' = "ready"
    /\ failures' = 0
    /\ retryNotBefore' = 0
    /\ inFlight' = 0
    /\ dial' = [dial EXCEPT ![g].stage = "adopted"]
    /\ caller' = [c \in Callers |->
                    IF c \in WaitingFor(g)
                    THEN [caller[c] EXCEPT !.stage = "running", !.gen = generation]
                    ELSE caller[c]]
    /\ UNCHANGED <<generation, conn, closer, now>>

\* Defect: a superseded connection is not closed.
SupersedeWithoutClosing(g) ==
    /\ dial[g].stage = "handshake" /\ ~Adoptable(g)
    /\ dial' = Settled(g, "superseded")
    /\ caller' = Rejected(g, "superseded")
    /\ inFlight' = 0
    /\ UNCHANGED <<generation, client, health, failures, retryNotBefore, conn, closer, now>>

\* Reset or shut down while dialling: the connection is released.
Supersede(g) ==
    /\ dial[g].stage = "handshake" /\ ~Adoptable(g)
    /\ dial' = [dial EXCEPT ![g].stage = "superseding"]
    /\ conn' = [conn EXCEPT ![g] = "closing"]
    /\ UNCHANGED <<generation, client, health, failures, retryNotBefore, inFlight,
                   caller, closer, now>>

\* Defect: onclose is armed before the handshake, so the transport the failing
\* handshake tears down looks like a disconnect and moves the generation on.
HandshakeFailsArmed(g) ==
    /\ dial[g].stage = "handshake"
    /\ dial' = [dial EXCEPT ![g].stage = "failing"]
    /\ conn' = [conn EXCEPT ![g] = "closing"]
    /\ generation' = IF g = generation THEN generation + 1 ELSE generation
    /\ UNCHANGED <<client, health, failures, retryNotBefore, inFlight,
                   caller, closer, now>>

\* The handshake is refused, breaks or times out: safeClose is awaited first.
HandshakeFails(g) ==
    /\ dial[g].stage = "handshake"
    /\ dial' = [dial EXCEPT ![g].stage = "failing"]
    /\ conn' = [conn EXCEPT ![g] = "closing"]
    /\ UNCHANGED <<generation, client, health, failures, retryNotBefore, inFlight,
                   caller, closer, now>>

\* safeClose settles.  What awaited it continues.
CloseCompletes(g) ==
    /\ conn[g] = "closing"
    /\ conn' = [conn EXCEPT ![g] = "gone"]
    /\ CASE dial[g].stage = "failing" ->
              /\ RecordConnectFailure(g, generation)
              /\ dial' = Settled(g, "failed")
              /\ caller' = Rejected(g, "unavailable")
              /\ inFlight' = 0
         [] dial[g].stage = "superseding" ->
              /\ dial' = Settled(g, "superseded")
              /\ caller' = Rejected(g, "superseded")
              /\ inFlight' = 0
              /\ UNCHANGED <<client, health, failures, retryNotBefore>>
         [] OTHER ->
              UNCHANGED <<client, health, failures, retryNotBefore, inFlight, dial, caller>>
    /\ UNCHANGED <<generation, closer, now>>

-----------------------------------------------------------------------------
(* Calls and disconnects *)

\* call() returns or rethrows what the upstream answered; a request timeout ends
\* here too and leaves the client in place.
CallReturns(c) ==
    /\ caller[c].stage = "running" /\ conn[caller[c].conn] = "open"
    /\ \E what \in {"result", "unavailable"} : caller' = [caller EXCEPT ![c] = Answered(c, what)]
    /\ UNCHANGED <<generation, client, health, failures, retryNotBefore, inFlight,
                   dial, conn, closer, now>>

\* isConnectionLoss: the connection is gone, or broken while its transport is
\* still there (send failed, ECONNRESET).
CallLosesConnection(c) ==
    /\ caller[c].stage = "running"
    /\ HandleDisconnect(caller[c].gen)
    /\ caller' = [caller EXCEPT ![c] = Answered(c, "unavailable")]
    /\ UNCHANGED <<failures, retryNotBefore, inFlight, conn, closer, now>>

\* A transport closes by itself; onclose is armed on adopted connections only.
TransportCloses(g) ==
    /\ conn[g] = "open" /\ dial[g].stage \in {"adopted", "dropped"}
    /\ conn' = [conn EXCEPT ![g] = "gone"]
    /\ HandleDisconnect(g)
    /\ UNCHANGED <<failures, retryNotBefore, inFlight, caller, closer, now>>

\* The caller's next request.
Again(c) ==
    /\ caller[c].stage = "answered"
    /\ caller' = [caller EXCEPT ![c] = NoCall]
    /\ UNCHANGED <<generation, client, health, failures, retryNotBefore, inFlight,
                   dial, conn, closer, now>>

-----------------------------------------------------------------------------
(* Teardown *)

\* The client is let go of and safeClose started on it.
LetGo ==
    /\ client' = 0
    /\ conn' = [g \in Gens |-> IF g = client /\ conn[g] = "open" THEN "closing" ELSE conn[g]]

\* Defect: reset forgets the dial in flight so that the next call dials anew.
ResetForgetsDial ==
    /\ generation < MaxGeneration
    /\ generation' = generation + 1
    /\ LetGo
    /\ failures' = 0
    /\ retryNotBefore' = 0
    /\ health' = IF ShuttingDown THEN health ELSE "idle"
    /\ inFlight' = 0
    /\ UNCHANGED <<dial, caller, closer, now>>

\* reset(): an operator's or the scanner's decision.
Reset ==
    /\ generation < MaxGeneration
    /\ generation' = generation + 1
    /\ LetGo
    /\ failures' = 0
    /\ retryNotBefore' = 0
    /\ health' = IF ShuttingDown THEN health ELSE "idle"
    /\ UNCHANGED <<inFlight, dial, caller, closer, now>>

\* close() while a dial is in flight: it is awaited.
CloseBehindDial ==
    /\ closer = "no" /\ inFlight # 0
    /\ closer' = "waiting"
    /\ generation' = generation + 1
    /\ UNCHANGED <<client, health, failures, retryNotBefore, inFlight, dial, conn,
                   caller, now>>

CloseResumes ==
    /\ closer = "waiting" /\ inFlight = 0
    /\ closer' = "done"
    /\ LetGo
    /\ health' = "closed"
    /\ UNCHANGED <<generation, failures, retryNotBefore, inFlight, dial, caller, now>>

CloseAtOnce ==
    /\ closer = "no" /\ inFlight = 0
    /\ closer' = "done"
    /\ generation' = generation + 1
    /\ LetGo
    /\ health' = "closed"
    /\ UNCHANGED <<failures, retryNotBefore, inFlight, dial, caller, now>>

Tick ==
    /\ now < MaxTime
    /\ now' = now + 1
    /\ UNCHANGED <<generation, client, health, failures, retryNotBefore, inFlight,
                   dial, conn, caller, closer>>

Init ==
    /\ generation = 0 /\ client = 0 /\ health = "idle"
    /\ failures = 0 /\ retryNotBefore = 0 /\ inFlight = 0
    /\ dial = [g \in Gens |-> NoDial]
    /\ conn = [g \in Gens |-> "none"]
    /\ caller = [c \in Callers |-> NoCall]
    /\ closer = "no"
    /\ now = 0

HandshakeSettles(g) == Adopt(g) \/ Supersede(g) \/ HandshakeFails(g)
CallSettles(c) == CallReturns(c) \/ CallLosesConnection(c)
EnsureReady(c) ==
    \/ CallRefused(c) \/ CallOnReady(c) \/ JoinDial(c)
    \/ CallFailsFast(c) \/ StartDial(c) \/ DialNotBuilt(c)

Next ==
    \/ \E c \in Callers : EnsureReady(c) \/ CallSettles(c) \/ Again(c)
    \/ \E g \in Gens : HandshakeSettles(g) \/ CloseCompletes(g) \/ TransportCloses(g)
    \/ Reset \/ CloseBehindDial \/ CloseResumes \/ CloseAtOnce
    \/ Tick

\* Handshakes and requests carry timers, client.close settles, and the loop runs
\* every continuation; nobody has to call, reset, close or wait.
Fairness ==
    /\ \A g \in Gens : WF_vars(HandshakeSettles(g)) /\ WF_vars(CloseCompletes(g))
    /\ \A c \in Callers : WF_vars(CallSettles(c))
    /\ WF_vars(CloseResumes)

Spec == Init /\ [][Next]_vars /\ Fairness

-----------------------------------------------------------------------------
(* Properties *)

TypeOK ==
    /\ generation \in Nat
    /\ client \in Gens \cup {0} /\ inFlight \in Gens \cup {0}
    /\ health \in Healths
    /\ failures \in Nat /\ retryNotBefore \in Nat /\ now \in Nat
    /\ dial \in [Gens -> Dial]
    /\ conn \in [Gens -> ConnStates]
    /\ caller \in [Callers -> Call]
    /\ closer \in {"no", "waiting", "done"}

\* Single flight (client.ts ensureReady): however callers, resets and shutdown
\* interleave with a dial and its teardown, two dials never overlap, and what
\* callers join is the one dial there is.
SingleDial ==
    \A g \in Gens : dial[g].stage \in Dialling <=> inFlight = g

\* A connection in use is the newest one: its generation is current, its
\* transport was not given up, no dial runs beside it and health agrees - so no
\* late callback of an older connection can have touched it.
AdoptedIsCurrent ==
    /\ client # 0 <=> health = "ready"
    /\ client # 0 =>
         /\ client = generation
         /\ inFlight = 0
         /\ dial[client].stage = "adopted"
         /\ conn[client] = "open"

\* No failure goes uncounted: whenever no dial is running, the one that ran last
\* has said how it ended - also when the failing handshake tore its transport down
\* by itself (client.ts:582-591) - so "connecting" never outlives the dial, except
\* while close() is about to overwrite it.
ConnectingMeansDialling ==
    health = "connecting" => inFlight # 0 \/ closer = "waiting"

\* Every connection still open is owned by somebody who will close it: the
\* client itself, or the dial in flight; a connection dropped because a call
\* failed on it is the one exception.
NoOrphans ==
    \A g \in Gens : conn[g] = "open" =>
        g = client \/ g = inFlight \/ dial[g].stage = "dropped"

\* The fail-fast window: after FailFastAfter dials in a row that failed, with no
\* reset and no success between them, the next dial waits out at least half of
\* the backoff target, to the nearest tick.
FailFastHolds ==
    [][\A g \in Gens :
         /\ dial[g].stage = "none" /\ dial'[g].stage # "none"
         /\ g > FailFastAfter
         /\ \A k \in 1..FailFastAfter : dial[g - k].stage = "failed"
         => now >= dial[g - 1].at + Half(FailFastAfter)]_vars

\* A failed call only ever takes down the connection it ran on: a loss reported
\* late, when that connection has been replaced, changes nothing for the others.
LateLossIsIgnored ==
    [][\A c \in Callers :
         /\ caller[c].stage = "running" /\ caller'[c].stage = "answered"
         /\ caller[c].conn # client
         => UNCHANGED <<generation, client, health, failures, retryNotBefore, inFlight>>]_vars

\* Once close() was called nothing is dialled or adopted and "closed" is final,
\* whatever was in flight.
ShutdownIsFinal ==
    [][ShuttingDown =>
         /\ client' \in {0, client}
         /\ \A g \in Gens : dial[g].stage = "none" => dial'[g].stage = "none"
         /\ health = "closed" => health' = "closed"]_vars

\* Nobody hangs: a caller waiting for a dial or on the wire is always answered.
CallsAreAnswered ==
    \A c \in Callers : caller[c].stage \in {"waiting", "running"} ~> caller[c].stage = "answered"

\* Shutdown ends, also behind a dial, and leaves open only what was dropped.
ShutdownCompletes ==
    ShuttingDown ~> /\ health = "closed"
                    /\ \A g \in Gens : conn[g] \in {"open", "closing"} => dial[g].stage = "dropped"

-----------------------------------------------------------------------------
(* What the comments say and the code does not do *)

\* registry.ts:163 "Close every connection."
EveryConnectionIsClosed ==
    \A g \in Gens : closer = "done" => conn[g] # "open"
=============================================================================
