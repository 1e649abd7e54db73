------------------------ MODULE UpstreamClientProofs ------------------------
(***************************************************************************)
(* Theorems about UpstreamClient, for any number of callers, any bound on  *)
(* the generations, any fail-fast threshold and any backoff: one dial at a *)
(* time, a connection in use is the newest, no open connection without an  *)
(* owner, no failure uncounted, a late loss changes nothing, shutdown is   *)
(* final, and after enough failures the next dial waits.                   *)
(*                                                                         *)
(* None is inductive alone.  What the first rest on (IInv) is that a       *)
(* generation not reached has no dial (FreshInv), that a call holds the    *)
(* generation of a connection that was adopted once (CallerInv), and what  *)
(* close() leaves (CloserInv).  The late loss and shutdown add which       *)
(* generation a call and the client are of (LateInv), the fail-fast window *)
(* that the dials that failed in a row are counted and that the delay of   *)
(* the last of them stands (BackoffInv).                                   *)
(***************************************************************************)
EXTENDS UpstreamClient, WellFoundedInduction, TLAPS

-----------------------------------------------------------------------------
(* The inductive invariant *)

TypeInv ==
    /\ generation \in Nat
    /\ client \in Gens \cup {0} /\ inFlight \in Gens \cup {0}
    /\ health \in Healths
    /\ failures \in Nat /\ now \in Nat
    /\ dial \in [Gens -> Dial]
    /\ conn \in [Gens -> ConnStates]
    /\ caller \in [Callers -> [stage : {"idle", "waiting", "running", "answered"},
                               conn : Nat, gen : Nat,
                               answer : {"none", "result", "unavailable", "superseded",
                                         "failfast", "refused"}]]
    /\ closer \in {"no", "waiting", "done"}

\* A generation that was not reached has no dial and no connection.
FreshInv == \A g \in Gens :
    g > generation => dial[g].stage = "none" /\ conn[g] = "none"

\* A handshake runs on an open connection.
HandshakeInv == \A g \in Gens : dial[g].stage = "handshake" => conn[g] = "open"

\* What supersedes a dial stays: the generation has moved on, or close() was called.
SupersededInv == \A g \in Gens :
    dial[g].stage = "superseding" => g # generation \/ closer # "no"

\* A call runs on a generation that was adopted.
CallerInv == \A c \in Callers : caller[c].stage = "running" =>
    /\ caller[c].gen \in Gens
    /\ dial[caller[c].gen].stage \in {"adopted", "dropped"}

\* "connecting" is about the newest generation, or close() will overwrite it.
ConnectingInv == health = "connecting" =>
    (inFlight # 0 /\ inFlight = generation) \/ closer = "waiting"

\* Once close() was called nothing is in use, once it is done nothing is dialled.
CloserInv ==
    /\ closer # "no" => client = 0
    /\ closer = "done" => inFlight = 0

IInv == /\ TypeInv /\ FreshInv /\ SingleDial /\ HandshakeInv /\ SupersededInv
        /\ AdoptedIsCurrent /\ ConnectingInv /\ CloserInv /\ NoOrphans /\ CallerInv

\* A call runs on the connection of the generation it captured; the newest
\* connection is the client until it is dropped; "closed" is said by close() alone.
LateInv ==
    /\ \A c \in Callers : caller[c].stage = "running" => caller[c].gen = caller[c].conn
    /\ \A g \in Gens : dial[g].stage = "adopted" /\ g = generation /\ closer = "no" => client = g
    /\ \A g \in Gens : dial[g].stage = "dropped" => g # generation
    /\ health = "closed" => closer = "done"

\* The newest generation whose dial, if there was one, has ended.
Newest == IF inFlight = generation /\ inFlight # 0 THEN generation - 1 ELSE generation

\* The last n generations are dials that failed.
FailedInARow(n) == \A k \in 0..(n - 1) :
    Newest - k \in Gens /\ dial[Newest - k].stage = "failed"

\* Failures in a row are counted, and the last of them has set the time before
\* which the next dial fails fast.
RunInv == \A n \in 1..MaxGeneration : FailedInARow(n) =>
    /\ failures >= n
    /\ retryNotBefore >= dial[Newest].at + Half(n)

BackoffInv ==
    /\ retryNotBefore \in Nat
    /\ failures <= Newest
    /\ \A g \in Gens : inFlight # 0 /\ g > inFlight => dial[g].stage = "none"
    /\ RunInv

-----------------------------------------------------------------------------
(* Lemmas *)

\* Induction over the numbers up to a bound, for a set: what is false somewhere
\* is false somewhere for the first time.
LEMMA InductionUpTo ==
    ASSUME NEW N \in Nat, NEW S, 0 \in S, \A n \in 1..N : n - 1 \in S => n \in S
    PROVE  0..N \subseteq S
<1> DEFINE R == OpToRel(<, Nat)
           Bad == {n \in 0..N : n \notin S}
<1>1. IsWellFoundedOn(R, Nat)
  BY NatLessThanWellFounded
<1>2. \A a, b \in Nat : a < b => <<a, b>> \in R
  BY DEF OpToRel
<1> HIDE DEF R
<1>3. SUFFICES ASSUME Bad # {} PROVE FALSE
  OBVIOUS
<1>4. Bad \subseteq Nat
  OBVIOUS
<1> HIDE DEF Bad
<1>5. PICK n \in Bad : \A k \in Bad : ~ (<<k, n>> \in R)
  BY <1>1, <1>3, <1>4, WFMin
<1>6. n \in 1..N /\ n - 1 \in 0..N /\ n \notin S
  BY DEF Bad
<1>7. n - 1 \in Bad
  BY <1>6 DEF Bad
<1>8. <<n - 1, n>> \in R
  BY <1>2, <1>6
<1> QED
  BY <1>5, <1>7, <1>8

\* Where one caller moves and nothing else, only that caller has to be looked at.
LEMMA CallerStep ==
    ASSUME IInv, caller' \in [Callers -> Call],
           UNCHANGED <<generation, client, health, failures, inFlight, dial, conn, closer, now>>,
           CallerInv'
    PROVE  IInv'
<1>1. TypeInv' /\ FreshInv' /\ SingleDial' /\ HandshakeInv' /\ SupersededInv'
  BY DEF IInv, TypeInv, Call, FreshInv, SingleDial, HandshakeInv, SupersededInv
<1>2. AdoptedIsCurrent' /\ ConnectingInv' /\ CloserInv' /\ NoOrphans'
  BY DEF IInv, AdoptedIsCurrent, ConnectingInv, CloserInv, NoOrphans
<1> QED
  BY <1>1, <1>2 DEF IInv

\* Answering a caller takes it off the wire.
LEMMA AnsweredType ==
    ASSUME TypeInv, NEW c \in Callers,
           NEW what \in {"none", "result", "unavailable", "superseded", "failfast", "refused"}
    PROVE  Answered(c, what) \in Call /\ Answered(c, what).stage = "answered"
  BY DEF TypeInv, Answered, Call

\* A dial that is rejected answers its waiters and no call on the wire.
LEMMA RejectedType ==
    ASSUME TypeInv, NEW g, NEW what \in {"unavailable", "superseded"}, caller' = Rejected(g, what)
    PROVE  /\ caller' \in [Callers -> Call]
           /\ \A c \in Callers : caller'[c].stage = "running" => caller'[c] = caller[c]
<1>1. ASSUME NEW c \in Callers
      PROVE  caller'[c] \in Call /\ (caller'[c].stage = "running" => caller'[c] = caller[c])
  <2>1. CASE c \in WaitingFor(g)
    <3>1. caller'[c] = Answered(c, what)
      BY <2>1 DEF Rejected
    <3> QED
      BY <3>1, AnsweredType
  <2>2. CASE c \notin WaitingFor(g)
    BY <2>2 DEF Rejected, TypeInv, Call
  <2> QED
    BY <2>1, <2>2
<1>2. caller' \in [Callers -> Call]
  BY <1>1 DEF Rejected
<1> QED
  BY <1>1, <1>2

\* A generation in use or being dialled has been reached.
LEMMA Reached ==
    ASSUME IInv, NEW g \in Gens, dial[g].stage # "none"
    PROVE  g <= generation
  BY DEF IInv, FreshInv, TypeInv, Gens, BoundAssumption

-----------------------------------------------------------------------------
(* Callers *)

\* Steps of a caller that find the client as it is and leave it so.
LEMMA CallersKeep ==
    ASSUME IInv, NEW c \in Callers,
           \/ CallRefused(c) \/ CallOnReady(c) \/ JoinDial(c) \/ CallFailsFast(c)
           \/ CallReturns(c) \/ Again(c)
    PROVE  IInv'
<1> USE DEF IInv
<1>1. CASE CallRefused(c) \/ CallFailsFast(c) \/ CallReturns(c)
  <2>1. PICK what \in {"refused", "failfast", "result", "unavailable"} :
           caller' = [caller EXCEPT ![c] = Answered(c, what)]
    BY <1>1 DEF CallRefused, CallFailsFast, CallReturns
  <2>2. UNCHANGED <<generation, client, health, failures, inFlight, dial, conn, closer, now>>
    BY <1>1 DEF CallRefused, CallFailsFast, CallReturns
  <2>3. Answered(c, what) \in Call /\ Answered(c, what).stage = "answered"
    BY AnsweredType
  <2>4. caller' \in [Callers -> Call] /\ CallerInv'
    BY <2>1, <2>2, <2>3 DEF TypeInv, Call, CallerInv
  <2> QED
    BY <2>2, <2>4, CallerStep
<1>2. CASE CallOnReady(c)
  <2>1. /\ client # 0
        /\ caller' = [caller EXCEPT ![c] = [@ EXCEPT !.stage = "running",
                                                     !.conn = client, !.gen = generation]]
        /\ UNCHANGED <<generation, client, health, failures, inFlight, dial, conn, closer, now>>
    BY <1>2 DEF CallOnReady, Ready
  <2>2. generation \in Gens /\ client \in Nat /\ dial[generation].stage = "adopted"
    BY <2>1 DEF AdoptedIsCurrent, TypeInv
  <2> DEFINE call == [caller[c] EXCEPT !.stage = "running", !.conn = client, !.gen = generation]
  <2>3. call \in Call /\ call.gen = generation
    BY <2>2 DEF TypeInv, Call
  <2>4. caller' = [caller EXCEPT ![c] = call]
    BY <2>1
  <2> HIDE DEF call
  <2>5. caller' \in [Callers -> Call]
    BY <2>3, <2>4 DEF TypeInv, Call
  <2>6. CallerInv'
    BY <2>1, <2>2, <2>3, <2>4 DEF TypeInv, CallerInv
  <2> QED
    BY <2>1, <2>5, <2>6, CallerStep
<1>3. CASE JoinDial(c)
  <2>1. /\ caller' = [caller EXCEPT ![c] = [@ EXCEPT !.stage = "waiting", !.conn = inFlight]]
        /\ UNCHANGED <<generation, client, health, failures, inFlight, dial, conn, closer, now>>
    BY <1>3 DEF JoinDial
  <2>2. inFlight \in Nat
    BY DEF TypeInv, Gens
  <2> DEFINE call == [caller[c] EXCEPT !.stage = "waiting", !.conn = inFlight]
  <2>3. call \in Call /\ call.stage = "waiting"
    BY <2>2 DEF TypeInv, Call
  <2>4. caller' = [caller EXCEPT ![c] = call]
    BY <2>1
  <2> HIDE DEF call
  <2>5. caller' \in [Callers -> Call]
    BY <2>3, <2>4 DEF TypeInv, Call
  <2>6. CallerInv'
    BY <2>1, <2>3, <2>4 DEF TypeInv, CallerInv
  <2> QED
    BY <2>1, <2>5, <2>6, CallerStep
<1>4. CASE Again(c)
  <2>1. /\ caller' = [caller EXCEPT ![c] = NoCall]
        /\ UNCHANGED <<generation, client, health, failures, inFlight, dial, conn, closer, now>>
    BY <1>4 DEF Again
  <2>2. caller' \in [Callers -> Call] /\ CallerInv'
    BY <2>1 DEF TypeInv, Call, CallerInv, NoCall
  <2> QED
    BY <2>1, <2>2, CallerStep
<1> QED
  BY <1>1, <1>2, <1>3, <1>4

-----------------------------------------------------------------------------
(* Dials *)

\* A dial starts, or fails to be built, on a generation nobody has used.
LEMMA DialStarts ==
    ASSUME IInv, NEW c \in Callers, StartDial(c) \/ DialNotBuilt(c)
    PROVE  IInv'
<1> DEFINE g == generation + 1
<1>1. /\ g \in Gens /\ g \in Nat /\ g # 0 /\ g = generation + 1
      /\ client = 0 /\ inFlight = 0 /\ closer = "no"
      /\ dial[g].stage = "none" /\ conn[g] = "none" /\ dial[g] \in Dial
      /\ \A h \in Gens : dial[h].stage # "none" => h # g /\ h <= generation
  <2>1. /\ g \in Gens /\ client = 0 /\ inFlight = 0 /\ closer = "no"
    BY BoundAssumption DEF StartDial, DialNotBuilt, MayDial, Ready, ShuttingDown, IInv, TypeInv,
       AdoptedIsCurrent, Gens
  <2>2. \A h \in Gens : dial[h].stage # "none" => h <= generation
    BY Reached
  <2> QED
    BY <2>1, <2>2 DEF IInv, TypeInv, FreshInv, Gens
<1> HIDE DEF g
<1>2. CASE StartDial(c)
  <2>1. /\ g \in Gens /\ g \in Nat /\ g # 0 /\ g = generation + 1 /\ client = 0 /\ inFlight = 0 /\ closer = "no"
        /\ dial[g].stage = "none" /\ conn[g] = "none" /\ dial[g] \in Dial
        /\ generation' = g /\ health' = "connecting" /\ inFlight' = g
        /\ dial' = [dial EXCEPT ![g] = [dial[g] EXCEPT !.stage = "handshake"]]
        /\ conn' = [conn EXCEPT ![g] = "open"]
        /\ caller' = [caller EXCEPT ![c] = [@ EXCEPT !.stage = "waiting", !.conn = g]]
        /\ UNCHANGED <<client, failures, closer, now>>
        /\ \A h \in Gens : dial[h].stage # "none" => h # g /\ h <= generation
    BY <1>1, <1>2 DEF StartDial
  <2>2. TypeInv'
    BY <2>1 DEF IInv, TypeInv, Call, Dial, DialStages, Healths, ConnStates
  <2>3. FreshInv' /\ SingleDial' /\ HandshakeInv' /\ SupersededInv'
    BY <2>1 DEF IInv, TypeInv, Gens, FreshInv, SingleDial, HandshakeInv, SupersededInv,
                AdoptedIsCurrent, Dialling
  <2>4. AdoptedIsCurrent' /\ ConnectingInv' /\ CloserInv'
    BY <2>1 DEF IInv, TypeInv, Gens, SingleDial, HandshakeInv, SupersededInv,
                AdoptedIsCurrent, ConnectingInv, CloserInv, Dialling
  <2>5. NoOrphans' /\ CallerInv'
    BY <2>1 DEF IInv, TypeInv, SingleDial, AdoptedIsCurrent, NoOrphans, CallerInv, Dialling
  <2> QED
    BY <2>2, <2>3, <2>4, <2>5 DEF IInv
<1>3. CASE DialNotBuilt(c)
  <2>1. /\ g \in Gens /\ g \in Nat /\ g = generation + 1 /\ client = 0 /\ inFlight = 0 /\ closer = "no"
        /\ dial[g].stage = "none" /\ conn[g] = "none"
        /\ generation' = g /\ health' = "unavailable" /\ client' = 0
        /\ failures' = failures + 1
        /\ dial' = [dial EXCEPT ![g] = [stage |-> "failed", at |-> now]]
        /\ caller' = [caller EXCEPT ![c] = Answered(c, "unavailable")]
        /\ Answered(c, "unavailable") \in Call /\ Answered(c, "unavailable").stage = "answered"
        /\ UNCHANGED <<inFlight, conn, closer, now>>
        /\ \A h \in Gens : dial[h].stage # "none" => h # g /\ h <= generation
    BY <1>1, <1>3, AnsweredType DEF DialNotBuilt, RecordConnectFailure, Settled, IInv
  <2>2. TypeInv'
    BY <2>1 DEF IInv, TypeInv, Call, Dial, DialStages, Healths, ConnStates
  <2>3. FreshInv' /\ SingleDial' /\ HandshakeInv' /\ SupersededInv'
    BY <2>1 DEF IInv, TypeInv, Gens, FreshInv, SingleDial, HandshakeInv, SupersededInv,
                AdoptedIsCurrent, Dialling
  <2>4. AdoptedIsCurrent' /\ ConnectingInv' /\ CloserInv'
    BY <2>1 DEF IInv, TypeInv, Gens, SingleDial, HandshakeInv, SupersededInv,
                AdoptedIsCurrent, ConnectingInv, CloserInv, Dialling
  <2>5. NoOrphans' /\ CallerInv'
    BY <2>1 DEF IInv, TypeInv, SingleDial, AdoptedIsCurrent, NoOrphans, CallerInv, Dialling
  <2> QED
    BY <2>2, <2>3, <2>4, <2>5 DEF IInv
<1> QED
  BY <1>2, <1>3

\* The end of a handshake: the connection is adopted, or let go of.
LEMMA HandshakesKeep ==
    ASSUME IInv, NEW g \in Gens, HandshakeSettles(g)
    PROVE  IInv'
<1>1. /\ g \in Gens /\ g \in Nat /\ g # 0 /\ dial[g].stage = "handshake" /\ dial[g] \in Dial
      /\ inFlight = g /\ client = 0 /\ conn[g] = "open"
      /\ \A h \in Gens : dial[h].stage # "none" => h <= generation
  <2>1. dial[g].stage = "handshake"
    BY DEF HandshakeSettles, Adopt, Supersede, HandshakeFails
  <2>2. inFlight = g /\ conn[g] = "open"
    BY <2>1 DEF IInv, SingleDial, HandshakeInv, Dialling
  <2> QED
    BY <2>1, <2>2, Reached DEF IInv, TypeInv, AdoptedIsCurrent, Gens
<1>2. CASE Adopt(g)
  <2>1. /\ g \in Gens /\ g \in Nat /\ g # 0 /\ dial[g].stage = "handshake" /\ dial[g] \in Dial
        /\ inFlight = g /\ client = 0 /\ conn[g] = "open" /\ g = generation /\ closer = "no"
        /\ client' = g /\ health' = "ready" /\ failures' = 0 /\ inFlight' = 0
        /\ dial' = [dial EXCEPT ![g] = [dial[g] EXCEPT !.stage = "adopted"]]
        /\ caller' \in [Callers -> Call]
        /\ \A c \in Callers : caller'[c].stage = "running" =>
              caller'[c] = caller[c] \/ caller'[c].gen = g
        /\ UNCHANGED <<generation, conn, closer, now>>
        /\ \A h \in Gens : dial[h].stage # "none" => h <= generation
    <3>1. /\ client' = g /\ health' = "ready" /\ failures' = 0 /\ inFlight' = 0
          /\ g = generation /\ closer = "no"
          /\ dial' = [dial EXCEPT ![g] = [dial[g] EXCEPT !.stage = "adopted"]]
          /\ UNCHANGED <<generation, conn, closer, now>>
      BY <1>2 DEF Adopt, Adoptable, ShuttingDown
    <3>2. ASSUME NEW c \in Callers
          PROVE  /\ caller'[c] \in Call
                 /\ caller'[c].stage = "running" => caller'[c] = caller[c] \/ caller'[c].gen = g
      <4>1. caller[c] \in Call
        BY DEF IInv, TypeInv, Call
      <4>2. CASE c \in WaitingFor(g)
        <5>1. caller'[c] = [caller[c] EXCEPT !.stage = "running", !.gen = generation]
          BY <1>2, <4>2 DEF Adopt
        <5> QED
          BY <1>1, <3>1, <4>1, <5>1 DEF Call
      <4>3. CASE c \notin WaitingFor(g)
        BY <1>2, <4>1, <4>3 DEF Adopt
      <4> QED
        BY <4>2, <4>3
    <3>3. caller' \in [Callers -> Call]
      BY <1>2, <3>2 DEF Adopt
    <3> QED
      BY <1>1, <3>1, <3>2, <3>3
  <2>2. TypeInv'
    BY <2>1 DEF IInv, TypeInv, Call, Dial, DialStages, Healths, ConnStates
  <2>3. FreshInv' /\ SingleDial' /\ HandshakeInv' /\ SupersededInv'
    BY <2>1 DEF IInv, TypeInv, Gens, FreshInv, SingleDial, HandshakeInv, SupersededInv,
                AdoptedIsCurrent, Dialling
  <2>4. AdoptedIsCurrent' /\ ConnectingInv' /\ CloserInv'
    BY <2>1 DEF IInv, TypeInv, Gens, SingleDial, HandshakeInv, SupersededInv,
                AdoptedIsCurrent, ConnectingInv, CloserInv, Dialling
  <2>5. NoOrphans' /\ CallerInv'
    BY <2>1 DEF IInv, TypeInv, SingleDial, AdoptedIsCurrent, NoOrphans, CallerInv, Dialling
  <2> QED
    BY <2>2, <2>3, <2>4, <2>5 DEF IInv
<1>3. CASE Supersede(g) \/ HandshakeFails(g)
  <2>1. /\ g \in Gens /\ g \in Nat /\ g # 0 /\ dial[g].stage = "handshake" /\ dial[g] \in Dial
        /\ inFlight = g /\ client = 0 /\ conn[g] = "open"
        /\ \E stage \in {"failing", "superseding"} :
              /\ dial' = [dial EXCEPT ![g] = [dial[g] EXCEPT !.stage = stage]]
              /\ stage = "superseding" => g # generation \/ closer # "no"
        /\ conn' = [conn EXCEPT ![g] = "closing"]
        /\ UNCHANGED <<generation, client, health, failures, inFlight, caller, closer, now>>
        /\ \A h \in Gens : dial[h].stage # "none" => h <= generation
    BY <1>1, <1>3 DEF Supersede, HandshakeFails, Adoptable, ShuttingDown
  <2>2. TypeInv'
    BY <2>1 DEF IInv, TypeInv, Call, Dial, DialStages, Healths, ConnStates
  <2>3. FreshInv' /\ SingleDial' /\ HandshakeInv' /\ SupersededInv'
    BY <2>1 DEF IInv, TypeInv, Gens, FreshInv, SingleDial, HandshakeInv, SupersededInv,
                AdoptedIsCurrent, Dialling
  <2>4. AdoptedIsCurrent' /\ ConnectingInv' /\ CloserInv'
    BY <2>1 DEF IInv, TypeInv, Gens, SingleDial, HandshakeInv, SupersededInv,
                AdoptedIsCurrent, ConnectingInv, CloserInv, Dialling
  <2>5. NoOrphans' /\ CallerInv'
    BY <2>1 DEF IInv, TypeInv, SingleDial, AdoptedIsCurrent, NoOrphans, CallerInv, Dialling
  <2> QED
    BY <2>2, <2>3, <2>4, <2>5 DEF IInv
<1> QED
  BY <1>2, <1>3 DEF HandshakeSettles

\* A close settles, and with it the dial that waited for it.
LEMMA ClosesKeep ==
    ASSUME IInv, NEW g \in Gens, CloseCompletes(g)
    PROVE  IInv'
<1>1. /\ g \in Gens /\ g \in Nat /\ g # 0 /\ dial[g] \in Dial
      /\ conn[g] = "closing" /\ conn' = [conn EXCEPT ![g] = "gone"]
      /\ dial[g].stage # "handshake" /\ client # g
      /\ UNCHANGED <<generation, closer, now>>
      /\ \A h \in Gens : dial[h].stage # "none" => h <= generation
  BY Reached DEF CloseCompletes, IInv, TypeInv, Gens, HandshakeInv, AdoptedIsCurrent
<1>2. CASE dial[g].stage \in {"failing", "superseding"}
  <2>1. /\ g \in Gens /\ g \in Nat /\ g # 0 /\ dial[g].stage \in {"failing", "superseding"}
        /\ inFlight = g /\ client = 0
        /\ inFlight' = 0 /\ client' = 0 /\ failures' \in Nat
        /\ \/ health' = "unavailable"
           \/ health' = health /\ (g # generation \/ dial[g].stage = "superseding")
        /\ \E stage \in {"failed", "superseded"} :
              dial' = [dial EXCEPT ![g] = [stage |-> stage, at |-> now]]
        /\ conn' = [conn EXCEPT ![g] = "gone"]
        /\ caller' \in [Callers -> Call]
        /\ \A c \in Callers : caller'[c].stage = "running" => caller'[c] = caller[c]
        /\ UNCHANGED <<generation, closer, now>>
        /\ \A h \in Gens : dial[h].stage # "none" => h <= generation
    <3>1. inFlight = g /\ client = 0
      BY <1>1, <1>2 DEF IInv, SingleDial, AdoptedIsCurrent, Dialling
    <3>2. CASE dial[g].stage = "failing"
      <4>1. /\ RecordConnectFailure(g, generation) /\ dial' = Settled(g, "failed")
            /\ caller' = Rejected(g, "unavailable") /\ inFlight' = 0
        BY <3>2 DEF CloseCompletes
      <4>2. /\ client' = 0 /\ failures' \in Nat
            /\ health' = "unavailable" \/ (health' = health /\ g # generation)
        BY <3>1, <4>1 DEF RecordConnectFailure, IInv, TypeInv
      <4> QED
        BY <1>1, <3>1, <3>2, <4>1, <4>2, RejectedType DEF Settled, IInv
    <3>3. CASE dial[g].stage = "superseding"
      <4>1. /\ dial' = Settled(g, "superseded") /\ caller' = Rejected(g, "superseded")
            /\ inFlight' = 0 /\ UNCHANGED <<client, health, failures>>
        BY <3>3 DEF CloseCompletes
      <4>2. failures' \in Nat
        BY <4>1 DEF IInv, TypeInv
      <4> QED
        BY <1>1, <3>1, <3>3, <4>1, <4>2, RejectedType DEF Settled, IInv
    <3> QED
      BY <1>2, <3>2, <3>3
  <2>2. TypeInv'
    BY <2>1 DEF IInv, TypeInv, Call, Dial, DialStages, Healths, ConnStates
  <2>3. FreshInv' /\ SingleDial' /\ HandshakeInv' /\ SupersededInv'
    BY <2>1 DEF IInv, TypeInv, Gens, FreshInv, SingleDial, HandshakeInv, SupersededInv,
                AdoptedIsCurrent, Dialling
  <2>4. AdoptedIsCurrent' /\ ConnectingInv' /\ CloserInv'
    BY <2>1 DEF IInv, TypeInv, Gens, SingleDial, HandshakeInv, SupersededInv,
                AdoptedIsCurrent, ConnectingInv, CloserInv, Dialling
  <2>5. NoOrphans' /\ CallerInv'
    BY <2>1 DEF IInv, TypeInv, SingleDial, AdoptedIsCurrent, NoOrphans, CallerInv, Dialling
  <2> QED
    BY <2>2, <2>3, <2>4, <2>5 DEF IInv
<1>3. CASE dial[g].stage \notin {"failing", "superseding"}
  <2>1. /\ g \in Gens /\ dial[g].stage \notin {"failing", "superseding", "handshake"}
        /\ client # g /\ conn[g] = "closing" /\ conn' = [conn EXCEPT ![g] = "gone"]
        /\ UNCHANGED <<generation, client, health, failures, inFlight, dial, caller, closer, now>>
        /\ \A h \in Gens : dial[h].stage # "none" => h <= generation
    BY <1>1, <1>3 DEF CloseCompletes
  <2>2. TypeInv'
    BY <2>1 DEF IInv, TypeInv, Call, Dial, DialStages, Healths, ConnStates
  <2>3. FreshInv' /\ SingleDial' /\ HandshakeInv' /\ SupersededInv'
    BY <2>1 DEF IInv, TypeInv, Gens, FreshInv, SingleDial, HandshakeInv, SupersededInv,
                AdoptedIsCurrent, Dialling
  <2>4. AdoptedIsCurrent' /\ ConnectingInv' /\ CloserInv'
    BY <2>1 DEF IInv, TypeInv, Gens, SingleDial, HandshakeInv, SupersededInv,
                AdoptedIsCurrent, ConnectingInv, CloserInv, Dialling
  <2>5. NoOrphans' /\ CallerInv'
    BY <2>1 DEF IInv, TypeInv, SingleDial, AdoptedIsCurrent, NoOrphans, CallerInv, Dialling
  <2> QED
    BY <2>2, <2>3, <2>4, <2>5 DEF IInv
<1> QED
  BY <1>2, <1>3

-----------------------------------------------------------------------------
(* Disconnects *)

\* A loss reported for a generation that was adopted, by a call on it or by its
\* transport: it is dropped if it is the newest, and else nothing happens.
LEMMA DisconnectsKeep ==
    ASSUME IInv, \/ \E c \in Callers : CallLosesConnection(c)
                 \/ \E g \in Gens : TransportCloses(g)
    PROVE  IInv'
<1>1. PICK g \in Gens :
        /\ HandleDisconnect(g)
        /\ dial[g].stage \in {"adopted", "dropped"}
        /\ \/ UNCHANGED conn
           \/ conn' = [conn EXCEPT ![g] = "gone"]
        /\ caller' \in [Callers -> Call]
        /\ \A c \in Callers : caller'[c].stage = "running" => caller'[c] = caller[c]
        /\ UNCHANGED <<failures, inFlight, closer, now>>
  <2>1. ASSUME NEW c \in Callers, CallLosesConnection(c)
        PROVE  /\ caller[c].gen \in Gens /\ HandleDisconnect(caller[c].gen)
               /\ dial[caller[c].gen].stage \in {"adopted", "dropped"}
               /\ caller' \in [Callers -> Call]
               /\ \A d \in Callers : caller'[d].stage = "running" => caller'[d] = caller[d]
               /\ UNCHANGED <<conn, failures, inFlight, closer, now>>
    <3>1. caller' = [caller EXCEPT ![c] = Answered(c, "unavailable")]
      BY <2>1 DEF CallLosesConnection
    <3>2. Answered(c, "unavailable") \in Call /\ Answered(c, "unavailable").stage = "answered"
      BY AnsweredType DEF IInv
    <3>3. /\ caller' \in [Callers -> Call]
          /\ \A d \in Callers : caller'[d].stage = "running" => caller'[d] = caller[d]
      BY <3>1, <3>2 DEF IInv, TypeInv, Call
    <3> QED
      BY <2>1, <3>3 DEF CallLosesConnection, IInv, CallerInv
  <2>2. ASSUME NEW g \in Gens, TransportCloses(g)
        PROVE  /\ HandleDisconnect(g) /\ dial[g].stage \in {"adopted", "dropped"}
               /\ conn' = [conn EXCEPT ![g] = "gone"]
               /\ caller' \in [Callers -> Call] /\ caller' = caller
               /\ UNCHANGED <<failures, inFlight, closer, now>>
    BY <2>2 DEF TransportCloses, IInv, TypeInv, Call
  <2> QED
    BY <2>1, <2>2
<1>2. /\ g \in Nat /\ dial[g] \in Dial /\ g # inFlight
      /\ \A h \in Gens : dial[h].stage # "none" => h <= generation
  <2>1. g # inFlight
    BY <1>1 DEF IInv, SingleDial, Dialling
  <2>2. g \in Nat /\ dial[g] \in Dial
    BY DEF IInv, TypeInv, Gens
  <2> QED
    BY <2>1, <2>2, Reached
<1>3. CASE g # generation \/ ShuttingDown
  <2>1. /\ g \in Gens /\ g # client /\ dial[g].stage \in {"adopted", "dropped"}
        /\ conn' = conn \/ conn' = [conn EXCEPT ![g] = "gone"]
        /\ caller' \in [Callers -> Call]
        /\ \A c \in Callers : caller'[c].stage = "running" => caller'[c] = caller[c]
        /\ UNCHANGED <<generation, client, health, failures, inFlight, dial, closer, now>>
        /\ \A h \in Gens : dial[h].stage # "none" => h <= generation
    <3>1. g # client
      BY <1>2, <1>3 DEF IInv, TypeInv, Gens, AdoptedIsCurrent, CloserInv, ShuttingDown
    <3>2. UNCHANGED <<generation, client, health, dial>>
      BY <1>1, <1>3 DEF HandleDisconnect
    <3> QED
      BY <1>1, <1>2, <3>1, <3>2
  <2>2. TypeInv'
    BY <2>1 DEF IInv, TypeInv, Call, Dial, DialStages, Healths, ConnStates
  <2>3. FreshInv' /\ SingleDial' /\ HandshakeInv' /\ SupersededInv'
    BY <2>1 DEF IInv, TypeInv, Gens, FreshInv, SingleDial, HandshakeInv, SupersededInv,
                AdoptedIsCurrent, Dialling
  <2>4. AdoptedIsCurrent' /\ ConnectingInv' /\ CloserInv'
    BY <2>1 DEF IInv, TypeInv, Gens, SingleDial, HandshakeInv, SupersededInv,
                AdoptedIsCurrent, ConnectingInv, CloserInv, Dialling
  <2>5. NoOrphans' /\ CallerInv'
    BY <2>1 DEF IInv, TypeInv, SingleDial, AdoptedIsCurrent, NoOrphans, CallerInv, Dialling
  <2> QED
    BY <2>2, <2>3, <2>4, <2>5 DEF IInv
<1>4. CASE ~(g # generation \/ ShuttingDown)
  <2>1. /\ g \in Gens /\ g \in Nat /\ g = generation /\ closer = "no" /\ g # inFlight
        /\ dial[g].stage \in {"adopted", "dropped"} /\ dial[g] \in Dial
        /\ generation' = generation + 1 /\ client' = 0 /\ health' = "unavailable"
        /\ dial' = [dial EXCEPT ![g] = [dial[g] EXCEPT !.stage = "dropped"]]
        /\ conn' \in [Gens -> ConnStates]
        /\ \A h \in Gens \ {g} : conn'[h] = conn[h]
        /\ caller' \in [Callers -> Call]
        /\ \A c \in Callers : caller'[c].stage = "running" => caller'[c] = caller[c]
        /\ UNCHANGED <<failures, inFlight, closer, now>>
        /\ \A h \in Gens : dial[h].stage # "none" => h <= generation
    <3>1. conn' \in [Gens -> ConnStates] /\ \A h \in Gens \ {g} : conn'[h] = conn[h]
      BY <1>1 DEF IInv, TypeInv, ConnStates
    <3>2. /\ g = generation /\ closer = "no"
          /\ generation' = generation + 1 /\ client' = 0 /\ health' = "unavailable"
          /\ dial' = [dial EXCEPT ![g] = [dial[g] EXCEPT !.stage = "dropped"]]
      BY <1>1, <1>4 DEF HandleDisconnect, ShuttingDown
    <3> QED
      BY <1>1, <1>2, <3>1, <3>2
  <2>2. TypeInv'
    BY <2>1 DEF IInv, TypeInv, Call, Dial, DialStages, Healths, ConnStates
  <2>3. FreshInv' /\ SingleDial' /\ HandshakeInv' /\ SupersededInv'
    BY <2>1 DEF IInv, TypeInv, Gens, FreshInv, SingleDial, HandshakeInv, SupersededInv,
                AdoptedIsCurrent, Dialling
  <2>4. AdoptedIsCurrent' /\ ConnectingInv' /\ CloserInv'
    BY <2>1 DEF IInv, TypeInv, Gens, SingleDial, HandshakeInv, SupersededInv,
                AdoptedIsCurrent, ConnectingInv, CloserInv, Dialling
  <2>5. NoOrphans' /\ CallerInv'
    BY <2>1 DEF IInv, TypeInv, SingleDial, AdoptedIsCurrent, NoOrphans, CallerInv, Dialling
  <2> QED
    BY <2>2, <2>3, <2>4, <2>5 DEF IInv
<1> QED
  BY <1>3, <1>4

-----------------------------------------------------------------------------
(* Teardown and time *)

\* Reset and close let go of the client; a dial in flight is left to find out.
LEMMA TeardownKeeps ==
    ASSUME IInv, Reset \/ CloseBehindDial \/ CloseResumes \/ CloseAtOnce
    PROVE  IInv'
<1>1. \A h \in Gens : dial[h].stage # "none" => h <= generation
  BY Reached
<1>2. CASE Reset
  <2>1. /\ generation' = generation + 1 /\ client' = 0 /\ failures' = 0
        /\ health' = IF closer # "no" THEN health ELSE "idle"
        /\ conn' = [g \in Gens |-> IF g = client /\ conn[g] = "open" THEN "closing" ELSE conn[g]]
        /\ UNCHANGED <<inFlight, dial, caller, closer, now>>
        /\ \A h \in Gens : dial[h].stage # "none" => h <= generation
    BY <1>1, <1>2 DEF Reset, LetGo, ShuttingDown
  <2>2. TypeInv'
    BY <2>1 DEF IInv, TypeInv, Call, Dial, DialStages, Healths, ConnStates
  <2>3. FreshInv' /\ SingleDial' /\ HandshakeInv' /\ SupersededInv'
    BY <2>1 DEF IInv, TypeInv, Gens, FreshInv, SingleDial, HandshakeInv, SupersededInv,
                AdoptedIsCurrent, Dialling
  <2>4. AdoptedIsCurrent' /\ ConnectingInv' /\ CloserInv'
    BY <2>1 DEF IInv, TypeInv, Gens, SingleDial, HandshakeInv, SupersededInv,
                AdoptedIsCurrent, ConnectingInv, CloserInv, Dialling
  <2>5. NoOrphans' /\ CallerInv'
    BY <2>1 DEF IInv, TypeInv, SingleDial, AdoptedIsCurrent, NoOrphans, CallerInv, Dialling
  <2> QED
    BY <2>2, <2>3, <2>4, <2>5 DEF IInv
<1>3. CASE CloseBehindDial
  <2>1. /\ closer = "no" /\ inFlight # 0 /\ closer' = "waiting"
        /\ generation' = generation + 1
        /\ UNCHANGED <<client, health, failures, inFlight, dial, conn, caller, now>>
        /\ \A h \in Gens : dial[h].stage # "none" => h <= generation
    BY <1>1, <1>3 DEF CloseBehindDial
  <2>2. TypeInv'
    BY <2>1 DEF IInv, TypeInv, Call, Dial, DialStages, Healths, ConnStates
  <2>3. FreshInv' /\ SingleDial' /\ HandshakeInv' /\ SupersededInv'
    BY <2>1 DEF IInv, TypeInv, Gens, FreshInv, SingleDial, HandshakeInv, SupersededInv,
                AdoptedIsCurrent, Dialling
  <2>4. AdoptedIsCurrent' /\ ConnectingInv' /\ CloserInv'
    BY <2>1 DEF IInv, TypeInv, Gens, SingleDial, HandshakeInv, SupersededInv,
                AdoptedIsCurrent, ConnectingInv, CloserInv, Dialling
  <2>5. NoOrphans' /\ CallerInv'
    BY <2>1 DEF IInv, TypeInv, SingleDial, AdoptedIsCurrent, NoOrphans, CallerInv, Dialling
  <2> QED
    BY <2>2, <2>3, <2>4, <2>5 DEF IInv
<1>4. CASE CloseResumes \/ CloseAtOnce
  <2>1. /\ inFlight = 0 /\ closer' = "done" /\ health' = "closed" /\ client' = 0
        /\ generation' \in {generation, generation + 1}
        /\ conn' = [g \in Gens |-> IF g = client /\ conn[g] = "open" THEN "closing" ELSE conn[g]]
        /\ UNCHANGED <<failures, inFlight, dial, caller, now>>
        /\ \A h \in Gens : dial[h].stage # "none" => h <= generation
    BY <1>1, <1>4 DEF CloseResumes, CloseAtOnce, LetGo
  <2>2. TypeInv'
    BY <2>1 DEF IInv, TypeInv, Call, Dial, DialStages, Healths, ConnStates
  <2>3. FreshInv' /\ SingleDial' /\ HandshakeInv' /\ SupersededInv'
    BY <2>1 DEF IInv, TypeInv, Gens, FreshInv, SingleDial, HandshakeInv, SupersededInv,
                AdoptedIsCurrent, Dialling
  <2>4. AdoptedIsCurrent' /\ ConnectingInv' /\ CloserInv'
    BY <2>1 DEF IInv, TypeInv, Gens, SingleDial, HandshakeInv, SupersededInv,
                AdoptedIsCurrent, ConnectingInv, CloserInv, Dialling
  <2>5. NoOrphans' /\ CallerInv'
    BY <2>1 DEF IInv, TypeInv, SingleDial, AdoptedIsCurrent, NoOrphans, CallerInv, Dialling
  <2> QED
    BY <2>2, <2>3, <2>4, <2>5 DEF IInv
<1> QED
  BY <1>2, <1>3, <1>4

LEMMA TimeKeeps ==
    ASSUME IInv, Tick \/ UNCHANGED vars
    PROVE  IInv'
<1>1. /\ now' \in Nat
      /\ UNCHANGED <<generation, client, health, failures, inFlight, dial, conn, caller, closer>>
  BY DEF Tick, vars, IInv, TypeInv
<1>2. TypeInv'
  BY <1>1 DEF IInv, TypeInv, Call, Dial, DialStages, Healths, ConnStates
<1>3. FreshInv' /\ SingleDial' /\ HandshakeInv' /\ SupersededInv'
  BY <1>1 DEF IInv, TypeInv, Gens, FreshInv, SingleDial, HandshakeInv, SupersededInv,
              AdoptedIsCurrent, Dialling
<1>4. AdoptedIsCurrent' /\ ConnectingInv' /\ CloserInv'
  BY <1>1 DEF IInv, TypeInv, Gens, SingleDial, HandshakeInv, SupersededInv,
              AdoptedIsCurrent, ConnectingInv, CloserInv, Dialling
<1>5. NoOrphans' /\ CallerInv'
  BY <1>1 DEF IInv, TypeInv, SingleDial, AdoptedIsCurrent, NoOrphans, CallerInv, Dialling
<1> QED
  BY <1>2, <1>3, <1>4, <1>5 DEF IInv

-----------------------------------------------------------------------------
(* Late losses and shutdown *)

\* Only a dial that starts gives a generation its dial.
LEMMA DialsStartOnce ==
    ASSUME IInv, Next, NEW g \in Gens, dial[g].stage = "none", dial'[g].stage # "none"
    PROVE  /\ g = generation + 1 /\ inFlight = 0 /\ ~ FailFast /\ closer = "no"
           /\ \E c \in Callers : StartDial(c) \/ DialNotBuilt(c)
<1>1. ASSUME NEW c \in Callers, StartDial(c) \/ DialNotBuilt(c)
      PROVE  g = generation + 1 /\ inFlight = 0 /\ ~ FailFast /\ closer = "no"
  BY <1>1 DEF StartDial, DialNotBuilt, MayDial, Settled, ShuttingDown, IInv, TypeInv
<1>2. ASSUME NEW c \in Callers, \/ CallRefused(c) \/ CallOnReady(c) \/ JoinDial(c)
                                \/ CallFailsFast(c) \/ CallReturns(c) \/ Again(c)
      PROVE  FALSE
  BY <1>2 DEF CallRefused, CallOnReady, JoinDial, CallFailsFast, CallReturns, Again
<1>3. ASSUME NEW h \in Gens, HandshakeSettles(h) PROVE FALSE
  BY <1>3 DEF HandshakeSettles, Adopt, Supersede, HandshakeFails, IInv, TypeInv
<1>4. ASSUME NEW h \in Gens, CloseCompletes(h) PROVE FALSE
  <2>1. CASE dial[h].stage \in {"failing", "superseding"}
    BY <1>4, <2>1 DEF CloseCompletes, Settled, IInv, TypeInv
  <2>2. CASE dial[h].stage \notin {"failing", "superseding"}
    BY <1>4, <2>2 DEF CloseCompletes
  <2> QED
    BY <2>1, <2>2
<1>5. ASSUME NEW h \in Gens, HandleDisconnect(h), dial[h].stage # "none" PROVE FALSE
  BY <1>5 DEF HandleDisconnect, IInv, TypeInv
<1>6. ASSUME NEW c \in Callers, CallLosesConnection(c) PROVE FALSE
  BY <1>5, <1>6 DEF CallLosesConnection, IInv, CallerInv
<1>7. ASSUME NEW h \in Gens, TransportCloses(h) PROVE FALSE
  BY <1>5, <1>7 DEF TransportCloses
<1>8. ~ (Reset \/ CloseBehindDial \/ CloseResumes \/ CloseAtOnce \/ Tick)
  BY DEF Reset, CloseBehindDial, CloseResumes, CloseAtOnce, Tick
<1> QED
  BY <1>1, <1>2, <1>3, <1>4, <1>6, <1>7, <1>8 DEF Next, EnsureReady, CallSettles

LEMMA InitLateInv == Init => LateInv
  BY DEF Init, LateInv, NoCall, NoDial

LEMMA NextLateInv ==
    ASSUME IInv, LateInv, [Next]_vars
    PROVE  LateInv'
<1> USE DEF IInv
<1>1. ASSUME NEW c \in Callers, \/ CallRefused(c) \/ CallOnReady(c) \/ JoinDial(c)
                                \/ CallFailsFast(c) \/ CallReturns(c) \/ Again(c)
      PROVE  LateInv'
  <2>1. UNCHANGED <<generation, client, health, dial, closer>>
    BY <1>1 DEF CallRefused, CallOnReady, JoinDial, CallFailsFast, CallReturns, Again
  <2>2. \A d \in Callers : caller'[d].stage = "running" =>
          caller'[d] = caller[d] \/ caller'[d].gen = caller'[d].conn
    <3>1. CASE CallOnReady(c)
      <4>1. client = generation /\ client # 0
        BY <3>1 DEF CallOnReady, Ready, AdoptedIsCurrent
      <4>2. caller'[c].gen = caller'[c].conn
        BY <3>1, <4>1 DEF CallOnReady, TypeInv
      <4> QED
        BY <3>1, <4>2 DEF CallOnReady, TypeInv
    <3>2. CASE JoinDial(c) \/ Again(c)
      <4>1. \A d \in Callers : d # c => caller'[d] = caller[d]
        BY <3>2 DEF JoinDial, Again, TypeInv
      <4>2. JoinDial(c) => caller'[c].stage = "waiting"
        BY DEF JoinDial, TypeInv
      <4>3. Again(c) => caller'[c].stage = "idle"
        BY DEF Again, NoCall, TypeInv
      <4> QED
        BY <3>2, <4>1, <4>2, <4>3
    <3>3. CASE CallRefused(c) \/ CallFailsFast(c) \/ CallReturns(c)
      BY <3>3 DEF CallRefused, CallFailsFast, CallReturns, Answered, TypeInv
    <3> QED
      BY <1>1, <3>1, <3>2, <3>3
  <2> QED
    BY <2>1, <2>2 DEF LateInv
<1>2. ASSUME NEW c \in Callers, StartDial(c) \/ DialNotBuilt(c) PROVE LateInv'
  <2>1. generation + 1 \in Gens /\ generation \in Nat /\ inFlight = 0 /\ closer = "no"
    BY <1>2, BoundAssumption DEF StartDial, DialNotBuilt, MayDial, ShuttingDown, TypeInv, Gens
  <2>2. /\ generation' = generation + 1 /\ closer' = closer /\ health' # "closed"
        /\ \A g \in Gens : g # generation + 1 => dial'[g] = dial[g]
        /\ dial'[generation + 1].stage \notin {"adopted", "dropped"}
        /\ \A d \in Callers : caller'[d].stage = "running" => caller'[d] = caller[d]
    <3>1. CASE StartDial(c)
      BY <2>1, <3>1 DEF StartDial, TypeInv, Dial
    <3>2. CASE DialNotBuilt(c)
      BY <2>1, <3>2 DEF DialNotBuilt, RecordConnectFailure, Settled, Answered, TypeInv
    <3> QED
      BY <1>2, <3>1, <3>2
  <2>3. \A g \in Gens : dial[g].stage # "none" => g # generation + 1
    BY <2>1, Reached DEF TypeInv, Gens
  <2> QED
    BY <2>1, <2>2, <2>3 DEF LateInv
<1>3. ASSUME NEW g \in Gens, HandshakeSettles(g) PROVE LateInv'
  <2>1. dial[g].stage = "handshake" /\ inFlight = g
    BY <1>3 DEF HandshakeSettles, Adopt, Supersede, HandshakeFails, SingleDial, Dialling
  <2>2. closer # "done" /\ health # "closed"
    BY <2>1 DEF CloserInv, LateInv, Gens
  <2>3. CASE Adopt(g)
    <3>1. /\ client' = g /\ g = generation /\ health' = "ready"
          /\ \A h \in Gens : h # g => dial'[h] = dial[h]
          /\ dial'[g].stage = "adopted"
          /\ UNCHANGED <<generation, closer>>
      BY <2>3 DEF Adopt, Adoptable, TypeInv, Dial
    <3>2. \A d \in Callers : caller'[d].stage = "running" =>
            caller'[d] = caller[d] \/ caller'[d].gen = caller'[d].conn
      BY <2>3, <3>1 DEF Adopt, WaitingFor, TypeInv
    <3> QED
      BY <3>1, <3>2 DEF LateInv
  <2>4. CASE Supersede(g) \/ HandshakeFails(g)
    <3>1. /\ \A h \in Gens : h # g => dial'[h] = dial[h]
          /\ dial'[g].stage \in {"failing", "superseding"}
          /\ UNCHANGED <<generation, client, health, caller, closer>>
      BY <2>4 DEF Supersede, HandshakeFails, TypeInv, Dial
    <3> QED
      BY <3>1 DEF LateInv
  <2> QED
    BY <1>3, <2>3, <2>4 DEF HandshakeSettles
<1>4. ASSUME NEW g \in Gens, CloseCompletes(g) PROVE LateInv'
  <2>1. CASE dial[g].stage \in {"failing", "superseding"}
    <3>1. inFlight = g /\ closer # "done" /\ health # "closed" /\ client = 0
      BY <2>1 DEF SingleDial, Dialling, CloserInv, LateInv, Gens, AdoptedIsCurrent
    <3>2. /\ client' = 0 /\ health' # "closed"
          /\ \A h \in Gens : h # g => dial'[h] = dial[h]
          /\ dial'[g].stage \in {"failed", "superseded"}
          /\ UNCHANGED <<generation, closer>>
      BY <1>4, <2>1, <3>1 DEF CloseCompletes, RecordConnectFailure, Settled, TypeInv
    <3>3. \A d \in Callers : caller'[d].stage = "running" => caller'[d] = caller[d]
      BY <1>4, <2>1, RejectedType DEF CloseCompletes
    <3> QED
      BY <3>1, <3>2, <3>3 DEF LateInv
  <2>2. CASE dial[g].stage \notin {"failing", "superseding"}
    <3>1. UNCHANGED <<generation, client, health, dial, caller, closer>>
      BY <1>4, <2>2 DEF CloseCompletes
    <3> QED
      BY <3>1 DEF LateInv
  <2> QED
    BY <2>1, <2>2
<1>5. ASSUME NEW g \in Gens, HandleDisconnect(g), dial[g].stage # "none", closer' = closer,
             \A d \in Callers : caller'[d].stage = "running" => caller'[d] = caller[d]
      PROVE  LateInv'
  <2>1. CASE g # generation \/ ShuttingDown
    BY <1>5, <2>1 DEF HandleDisconnect, LateInv
  <2>2. CASE ~ (g # generation \/ ShuttingDown)
    <3>1. /\ generation' = generation + 1 /\ generation \in Nat /\ health' # "closed"
          /\ \A h \in Gens : h # g => dial'[h] = dial[h]
          /\ dial'[g].stage = "dropped" /\ g = generation
      BY <1>5, <2>2 DEF HandleDisconnect, TypeInv, Dial
    <3>2. \A h \in Gens : dial[h].stage # "none" => h <= generation
      BY Reached
    <3>3. \A h \in Gens : dial'[h].stage # "none" => h # generation'
      BY <3>1, <3>2 DEF Gens
    <3> QED
      BY <1>5, <3>1, <3>3 DEF LateInv
  <2> QED
    BY <2>1, <2>2
<1>6. ASSUME NEW c \in Callers, CallLosesConnection(c) PROVE LateInv'
  <2>1. caller[c].gen \in Gens /\ dial[caller[c].gen].stage # "none"
    BY <1>6 DEF CallLosesConnection, CallerInv
  <2>2. \A d \in Callers : caller'[d].stage = "running" => caller'[d] = caller[d]
    BY <1>6 DEF CallLosesConnection, Answered, TypeInv
  <2> QED
    BY <1>5, <1>6, <2>1, <2>2 DEF CallLosesConnection
<1>7. ASSUME NEW g \in Gens, TransportCloses(g) PROVE LateInv'
  BY <1>5, <1>7 DEF TransportCloses
<1>8. CASE Reset \/ CloseBehindDial \/ CloseResumes \/ CloseAtOnce
  <2>1. \A h \in Gens : dial[h].stage # "none" => h <= generation
    BY Reached
  <2>2. UNCHANGED <<dial, caller>>
    BY <1>8 DEF Reset, CloseBehindDial, CloseResumes, CloseAtOnce
  <2>3. \/ generation' = generation + 1
        \/ closer' # "no" /\ generation' = generation
    BY <1>8 DEF Reset, CloseBehindDial, CloseResumes, CloseAtOnce
  <2>4. health' = "closed" => closer' = "done"
    BY <1>8 DEF Reset, CloseBehindDial, CloseResumes, CloseAtOnce, LateInv
  <2>5. generation' = generation + 1 => \A h \in Gens : dial[h].stage # "none" => h # generation'
    BY <2>1 DEF TypeInv, Gens
  <2> QED
    BY <2>2, <2>3, <2>4, <2>5 DEF LateInv
<1>9. CASE Tick \/ UNCHANGED vars
  BY <1>9 DEF Tick, vars, LateInv
<1> QED
  BY <1>1, <1>2, <1>3, <1>4, <1>6, <1>7, <1>8, <1>9 DEF Next, EnsureReady, CallSettles

-----------------------------------------------------------------------------
(* The backoff *)

\* The recursion defines a function: each value is the one before times the
\* factor.
LEMMA UncappedSteps ==
    /\ Uncapped[0] = [num |-> InitialDelay, den |-> 1]
    /\ \A n \in 1..MaxGeneration :
         Uncapped[n] = [num |-> FactorNum * Uncapped[n - 1].num,
                        den |-> FactorDen * Uncapped[n - 1].den]
<1> DEFINE First == [num |-> InitialDelay, den |-> 1]
           Times(u) == [num |-> FactorNum * u.num, den |-> FactorDen * u.den]
           Upto(n, f) == f = [i \in 0..n |-> IF i = 0 THEN First ELSE Times(f[i - 1])]
           Defined == {n \in 0..MaxGeneration : \E f : Upto(n, f)}
<1>1. 0 \in Defined
  <2>1. Upto(0, [i \in 0..0 |-> First])
    OBVIOUS
  <2> HIDE DEF Upto
  <2> QED
    BY <2>1, BoundAssumption
<1>2. ASSUME NEW n \in 1..MaxGeneration, n - 1 \in Defined PROVE n \in Defined
  <2>1. PICK f : Upto(n - 1, f)
    BY <1>2
  <2>2. \A i \in 0..(n - 1) : f[i] = IF i = 0 THEN First ELSE Times(f[i - 1])
    BY <2>1
  <2> DEFINE h == [i \in 0..n |-> IF i = n THEN Times(f[n - 1]) ELSE f[i]]
  <2>3. h[n] = Times(h[n - 1])
    BY BoundAssumption
  <2>4. ASSUME NEW i \in 0..n PROVE h[i] = IF i = 0 THEN First ELSE Times(h[i - 1])
    <3>1. CASE i = n
      BY <2>3, <3>1
    <3>2. CASE i # n
      <4>1. i \in 0..(n - 1) /\ (i # 0 => i - 1 \in 0..n /\ i - 1 # n)
        BY <3>2
      <4> QED
        BY <2>2, <4>1, <3>2
    <3> QED
      BY <3>1, <3>2
  <2>5. Upto(n, h)
    BY <2>4
  <2> HIDE DEF Upto, h
  <2> QED
    BY <2>5
<1>3. MaxGeneration \in Defined
  <2>1. 0..MaxGeneration \subseteq Defined
    <3> HIDE DEF Defined
    <3> QED
      BY <1>1, <1>2, InductionUpTo, BoundAssumption
  <2> QED
    BY <2>1, BoundAssumption
<1>4. \E f : Upto(MaxGeneration, f)
  BY <1>3
<1>5. Uncapped = [i \in 0..MaxGeneration |-> IF i = 0 THEN First ELSE Times(Uncapped[i - 1])]
  BY <1>4 DEF Uncapped
<1> HIDE DEF Uncapped
<1> QED
  BY <1>5, BoundAssumption

\* Fractions of naturals and their order.
Fractions == [num : Nat, den : Nat \ {0}]
AtMost(t, u) == t.num * u.den <= u.num * t.den

\* A larger fraction times a factor that is at least 1 is larger.
LEMMA TimesFactorGrows ==
    ASSUME NEW p \in Nat, NEW q \in Nat \ {0}, NEW r \in Nat, NEW s \in Nat \ {0}, p * s <= r * q
    PROVE  p * (FactorDen * s) <= (FactorNum * r) * q
<1> DEFINE a == p * s
           b == r * q
<1>1. a \in Nat /\ b \in Nat /\ a <= b
  OBVIOUS
<1>2. \A x, y \in Nat : x <= y => FactorDen * x <= FactorNum * y
  BY BackoffAssumption
<1>3. FactorDen * a <= FactorNum * b
  <2> HIDE DEF a, b
  <2> QED
    BY <1>1, <1>2
<1> QED
  BY <1>3, BackoffAssumption

\* The uncapped delays are fractions and do not fall.
LEMMA UncappedGrows ==
    \A n \in 0..MaxGeneration :
        Uncapped[n] \in Fractions /\ \A m \in 0..n : AtMost(Uncapped[m], Uncapped[n])
<1> DEFINE Grown == {n \in 0..MaxGeneration :
             \A m \in 0..n : Uncapped[m] \in Fractions /\ AtMost(Uncapped[m], Uncapped[n])}
<1>1. 0 \in Grown
  BY UncappedSteps, BackoffAssumption, BoundAssumption DEF Fractions, AtMost
<1>2. ASSUME NEW n \in 1..MaxGeneration, n - 1 \in Grown PROVE n \in Grown
  <2>1. \A m \in 0..(n - 1) : Uncapped[m] \in Fractions /\ AtMost(Uncapped[m], Uncapped[n - 1])
    BY <1>2
  <2>2. n - 1 \in 0..(n - 1) /\ n \in 0..MaxGeneration
    BY BoundAssumption
  <2>3. Uncapped[n - 1] \in Fractions
    BY <2>1, <2>2
  <2>4. Uncapped[n] = [num |-> FactorNum * Uncapped[n - 1].num, den |-> FactorDen * Uncapped[n - 1].den]
    BY UncappedSteps
  <2>5. \A x, y \in Nat \ {0} : x * y \in Nat \ {0}
    OBVIOUS
  <2>6. \A x, y \in Nat : x * y \in Nat
    OBVIOUS
  <2>7. Uncapped[n] \in Fractions
    BY <2>3, <2>4, <2>5, <2>6, BackoffAssumption DEF Fractions
  <2>8. ASSUME NEW m \in 0..n
        PROVE  Uncapped[m] \in Fractions /\ AtMost(Uncapped[m], Uncapped[n])
    <3>1. CASE m = n
      BY <3>1, <2>7 DEF AtMost, Fractions
    <3>2. CASE m # n
      <4>1. m \in 0..(n - 1)
        BY <3>2
      <4>2. Uncapped[m] \in Fractions /\ AtMost(Uncapped[m], Uncapped[n - 1])
        BY <2>1, <4>1
      <4>3. Uncapped[m].num * (FactorDen * Uncapped[n - 1].den)
              <= (FactorNum * Uncapped[n - 1].num) * Uncapped[m].den
        BY <2>3, <4>2, TimesFactorGrows DEF AtMost, Fractions
      <4> QED
        BY <2>4, <4>2, <4>3 DEF AtMost
    <3> QED
      BY <3>1, <3>2
  <2> QED
    BY <2>2, <2>8
<1>3. 0..MaxGeneration \subseteq Grown
  <2> HIDE DEF Grown
  <2> QED
    BY <1>1, <1>2, InductionUpTo, BoundAssumption
<1>4. ASSUME NEW n \in 0..MaxGeneration PROVE n \in 0..n
  BY BoundAssumption
<1> QED
  BY <1>3, <1>4

\* What is below the cap has only such below it.
LEMMA CapsStay ==
    ASSUME NEW p \in Nat, NEW q \in Nat \ {0}, NEW r \in Nat, NEW s \in Nat \ {0},
           NEW c \in Nat, p * s <= r * q, r < c * s
    PROVE  p < c * q
<1>1. r * q < (c * s) * q
  OBVIOUS
<1>2. p * s < (c * q) * s
  BY <1>1
<1> QED
  BY <1>2

\* The targets are fractions and do not fall either, whichever of them are capped.
LEMMA TargetGrows ==
    ASSUME NEW m \in 1..MaxGeneration, NEW n \in 1..m
    PROVE  Target(m) \in Fractions /\ Target(n) \in Fractions /\ AtMost(Target(n), Target(m))
<1> DEFINE u == Uncapped[n - 1]
           v == Uncapped[m - 1]
           cap == [num |-> MaxDelay, den |-> 1]
<1>1. u \in Fractions /\ v \in Fractions /\ AtMost(u, v)
  <2>1. n - 1 \in 0..(m - 1) /\ n - 1 \in 0..MaxGeneration /\ m - 1 \in 0..MaxGeneration
    BY BoundAssumption
  <2> QED
    BY <2>1, UncappedGrows
<1>2. /\ Target(n) = IF u.num < MaxDelay * u.den THEN u ELSE cap
      /\ Target(m) = IF v.num < MaxDelay * v.den THEN v ELSE cap
  BY DEF Target
<1> HIDE DEF u, v
<1>3. cap \in Fractions /\ MaxDelay \in Nat
  BY BackoffAssumption DEF Fractions
<1>4. u.num < MaxDelay * u.den => AtMost(u, cap)
  BY <1>1, <1>3 DEF AtMost, Fractions
<1>5. v.num < MaxDelay * v.den => u.num < MaxDelay * u.den
  BY <1>1, <1>3, CapsStay DEF AtMost, Fractions
<1>6. AtMost(cap, cap)
  BY <1>3 DEF AtMost
<1> QED
  BY <1>1, <1>2, <1>3, <1>4, <1>5, <1>6

\* What a quotient is.
LEMMA DivBounds ==
    ASSUME NEW x \in Nat, NEW c \in Nat \ {0}
    PROVE  x \div c \in Nat /\ c * (x \div c) <= x /\ x < c * (x \div c) + c
  OBVIOUS

LEMMA QuotientIsLargest ==
    ASSUME NEW h \in Nat, NEW k \in Nat, NEW x \in Nat, NEW c \in Nat \ {0},
           c * h <= x, x < c * k + c
    PROVE  h <= k
<1> SUFFICES ASSUME k < h PROVE FALSE
  OBVIOUS
<1>1. \A a, b \in Nat : a < b => c * a + c <= c * b
  OBVIOUS
<1> QED
  BY <1>1

\* The rounded half of a larger fraction is no smaller.
LEMMA HalvesGrow ==
    ASSUME NEW p \in Nat, NEW q \in Nat \ {0}, NEW r \in Nat, NEW s \in Nat \ {0}, p * s <= r * q
    PROVE  (p + q) \div (2 * q) <= (r + s) \div (2 * s)
<1> DEFINE h == (p + q) \div (2 * q)
           k == (r + s) \div (2 * s)
<1>1. /\ p + q \in Nat /\ 2 * q \in Nat \ {0}
      /\ r + s \in Nat /\ 2 * s \in Nat \ {0}
  OBVIOUS
<1>2. /\ h \in Nat /\ (2 * q) * h <= p + q
      /\ k \in Nat /\ r + s < (2 * s) * k + 2 * s
  BY <1>1, DivBounds
<1> HIDE DEF h, k
<1>3. ((2 * q) * h) * s <= (p + q) * s
  BY <1>2
<1>4. ((2 * s) * h) * q <= (r + s) * q
  BY <1>2, <1>3
<1>5. (2 * s) * h <= r + s
  BY <1>2, <1>4
<1>6. h <= k
  BY <1>1, <1>2, <1>5, QuotientIsLargest
<1> QED
  BY <1>6 DEF h, k

\* The half of the target of a run of failures is a number.
LEMMA HalfType ==
    ASSUME NEW n \in 1..MaxGeneration
    PROVE  Half(n) \in Nat
<1>1. Target(n) \in Fractions
  <2>1. n \in 1..n
    BY BoundAssumption
  <2> QED
    BY <2>1, TargetGrows
<1>2. Target(n).num + Target(n).den \in Nat /\ 2 * Target(n).den \in Nat \ {0}
  BY <1>1 DEF Fractions
<1> QED
  BY <1>2, DivBounds DEF Half

\* The delays a failed dial may set are numbers, at least half of the target of
\* any shorter run of failures.
LEMMA DelaysGrow ==
    ASSUME NEW m \in 1..MaxGeneration, NEW n \in 1..m, NEW d \in Delays(m)
    PROVE  d \in Nat /\ Half(n) \in Nat /\ d >= Half(n)
<1>1. n \in 1..MaxGeneration
  BY BoundAssumption
<1>2. Half(n) \in Nat /\ Half(m) \in Nat
  BY <1>1, HalfType
<1>3. Half(n) <= Half(m)
  <2>1. Target(m) \in Fractions /\ Target(n) \in Fractions /\ AtMost(Target(n), Target(m))
    BY TargetGrows
  <2> QED
    BY <2>1, HalvesGrow DEF Half, AtMost, Fractions
<1>4. d \in Int /\ Half(m) <= d
  BY <1>2 DEF Delays
<1> QED
  BY <1>2, <1>3, <1>4

\* What Newest is, and that no dial runs beyond the generation.
LEMMA NewestType ==
    ASSUME IInv
    PROVE  /\ Newest \in Int /\ inFlight \in Nat /\ generation \in Nat /\ failures \in Nat
           /\ inFlight <= generation
<1>1. inFlight \in Nat /\ generation \in Nat /\ failures \in Nat
  BY DEF IInv, TypeInv, Gens
<1>2. inFlight <= generation
  <2>1. CASE inFlight = 0
    BY <1>1, <2>1
  <2>2. CASE inFlight # 0
    <3>1. inFlight \in Gens /\ dial[inFlight].stage # "none"
      BY <2>2 DEF IInv, TypeInv, SingleDial, Dialling
    <3> QED
      BY <3>1, Reached
  <2> QED
    BY <2>1, <2>2
<1> QED
  BY <1>1, <1>2 DEF Newest

\* Where the newest ended dial did not fail, no run of failures ends.
LEMMA NoRun ==
    ASSUME Newest' \in Int, ~ (Newest' \in Gens /\ dial'[Newest'].stage = "failed")
    PROVE  RunInv'
<1> SUFFICES ASSUME NEW n \in 1..MaxGeneration, FailedInARow(n)' PROVE FALSE
  BY DEF RunInv
<1>1. 0 \in 0..(n - 1)
  BY BoundAssumption
<1>2. Newest' - 0 \in Gens /\ dial'[Newest' - 0].stage = "failed"
  BY <1>1 DEF FailedInARow
<1>3. \A x \in Int : x - 0 = x
  OBVIOUS
<1>4. Newest' - 0 = Newest'
  BY <1>3
<1> QED
  BY <1>2, <1>4

\* Where no dial fails, the runs of failures are those there were.
LEMMA RunsKept ==
    ASSUME RunInv, Newest \in Int, Newest' = Newest, UNCHANGED <<failures, retryNotBefore>>,
           \A h \in Gens : dial'[h].stage = "failed" => dial'[h] = dial[h]
    PROVE  RunInv'
<1> SUFFICES ASSUME NEW n \in 1..MaxGeneration, FailedInARow(n)'
             PROVE  /\ failures' >= n
                    /\ retryNotBefore' >= dial'[Newest'].at + Half(n)
  BY DEF RunInv
<1>1. \A k \in 0..(n - 1) : Newest - k \in Gens /\ dial'[Newest - k].stage = "failed"
  BY DEF FailedInARow
<1>2. FailedInARow(n)
  BY <1>1 DEF FailedInARow
<1>3. Newest \in Gens /\ dial'[Newest] = dial[Newest]
  <2>1. 0 \in 0..(n - 1) /\ Newest - 0 = Newest
    BY BoundAssumption
  <2> QED
    BY <1>1, <2>1
<1> QED
  BY <1>2, <1>3 DEF RunInv

\* A failure that counts makes each run of failures one longer.
LEMMA FailureCounts ==
    ASSUME IInv, BackoffInv, NEW g \in Gens, Newest = g - 1, Newest' = g,
           failures' = failures + 1,
           \E d \in Delays(failures + 1) : retryNotBefore' = now + d,
           dial'[g] = [stage |-> "failed", at |-> now],
           \A h \in Gens : h # g => dial'[h] = dial[h]
    PROVE  retryNotBefore' \in Nat /\ failures' <= Newest' /\ RunInv'
<1>1. /\ g \in 1..MaxGeneration /\ failures \in Nat /\ now \in Nat
      /\ failures + 1 \in 1..MaxGeneration /\ failures' <= Newest'
  BY BoundAssumption DEF IInv, TypeInv, BackoffInv, Gens
<1>2. PICK d \in Delays(failures + 1) : retryNotBefore' = now + d
  OBVIOUS
<1>3. d \in Nat
  <2>1. 1 \in 1..(failures + 1)
    BY <1>1
  <2> QED
    BY <1>1, <2>1, DelaysGrow
<1>4. ASSUME NEW n \in 1..MaxGeneration, FailedInARow(n)'
      PROVE  /\ failures' >= n
             /\ retryNotBefore' >= dial'[Newest'].at + Half(n)
  <2>1. failures + 1 >= n
    <3>1. CASE n = 1
      BY <1>1, <3>1
    <3>2. CASE n # 1
      <4>1. n - 1 \in 1..MaxGeneration
        BY <3>2, BoundAssumption
      <4>2. ASSUME NEW k \in 0..(n - 2)
            PROVE  Newest - k \in Gens /\ dial[Newest - k].stage = "failed"
        <5>1. k + 1 \in 0..(n - 1) /\ Newest' - (k + 1) = Newest - k /\ Newest - k # g
          BY <1>1
        <5>2. \A j \in 0..(n - 1) : Newest' - j \in Gens /\ dial'[Newest' - j].stage = "failed"
          BY <1>4 DEF FailedInARow
        <5>3. Newest - k \in Gens /\ dial'[Newest - k].stage = "failed"
          BY <5>1, <5>2
        <5> QED
          BY <5>1, <5>3
      <4>3. FailedInARow(n - 1)
        BY <4>2 DEF FailedInARow
      <4>4. failures >= n - 1
        BY <4>1, <4>3 DEF BackoffInv, RunInv
      <4> QED
        BY <1>1, <4>4
    <3> QED
      BY <3>1, <3>2
  <2>2. n \in 1..(failures + 1)
    BY <1>1, <2>1
  <2>3. d >= Half(n) /\ Half(n) \in Nat
    BY <1>1, <2>2, DelaysGrow
  <2>4. dial'[Newest'].at = now
    OBVIOUS
  <2> QED
    BY <1>1, <1>2, <1>3, <2>1, <2>3, <2>4
<1>5. RunInv'
  BY <1>4 DEF RunInv
<1> QED
  BY <1>1, <1>2, <1>3, <1>5

LEMMA InitBackoffInv == Init => BackoffInv
<1> SUFFICES ASSUME Init PROVE BackoffInv
  OBVIOUS
<1>1. /\ retryNotBefore = 0 /\ failures = 0 /\ inFlight = 0 /\ Newest = 0
      /\ \A g \in Gens : dial[g].stage = "none"
  BY DEF Init, Newest, NoDial
<1>2. ASSUME NEW n \in 1..MaxGeneration, FailedInARow(n) PROVE FALSE
  <2>1. 0 \in 0..(n - 1)
    BY BoundAssumption
  <2> QED
    BY <1>1, <1>2, <2>1 DEF FailedInARow, Gens
<1> QED
  BY <1>1, <1>2 DEF BackoffInv, RunInv

\* A new generation that nobody dialled ends every run.
LEMMA GenerationMovesOn ==
    ASSUME IInv, IInv', BackoffInv, generation' = generation + 1, UNCHANGED inFlight,
           \/ UNCHANGED <<failures, retryNotBefore>>
           \/ failures' = 0 /\ retryNotBefore' = 0,
           \A g \in Gens : dial'[g].stage = "none" <=> dial[g].stage = "none"
    PROVE  BackoffInv'
<1>1. Newest' = generation + 1 /\ generation + 1 \in Nat /\ Newest <= generation + 1
  BY NewestType DEF Newest
<1>2. ~ (Newest' \in Gens /\ dial'[Newest'].stage = "failed")
  BY <1>1, NewestType DEF IInv, FreshInv
<1>3. RunInv'
  BY <1>1, <1>2, NoRun
<1>4. failures' <= Newest' /\ retryNotBefore' \in Nat
  BY <1>1, NewestType DEF BackoffInv
<1> QED
  BY <1>3, <1>4 DEF BackoffInv

LEMMA NextBackoffInv ==
    ASSUME IInv, IInv', BackoffInv, [Next]_vars
    PROVE  BackoffInv'
<1>0. /\ Newest \in Int /\ inFlight \in Nat /\ generation \in Nat /\ failures \in Nat
      /\ inFlight <= generation
  BY NewestType
<1>1. ASSUME UNCHANGED <<generation, inFlight, dial, failures, retryNotBefore>>
      PROVE  BackoffInv'
  <2>1. Newest' = Newest
    BY <1>1 DEF Newest
  <2>2. RunInv'
    BY <1>0, <1>1, <2>1, RunsKept DEF BackoffInv
  <2> QED
    BY <1>1, <2>1, <2>2 DEF BackoffInv
<1>2. ASSUME NEW c \in Callers, \/ CallRefused(c) \/ CallOnReady(c) \/ JoinDial(c)
                                \/ CallFailsFast(c) \/ CallReturns(c) \/ Again(c)
      PROVE  BackoffInv'
  BY <1>1, <1>2 DEF CallRefused, CallOnReady, JoinDial, CallFailsFast, CallReturns, Again
<1>3. ASSUME NEW c \in Callers, StartDial(c) \/ DialNotBuilt(c) PROVE BackoffInv'
  <2> DEFINE g == generation + 1
  <2>1. /\ g \in Gens /\ inFlight = 0 /\ Newest = g - 1 /\ generation' = g
        /\ \A h \in Gens : h # g => dial'[h] = dial[h]
        /\ dial'[g].stage # "none" /\ dial[g].stage = "none"
    <3>1. g \in Gens /\ inFlight = 0 /\ generation' = g
      BY <1>0, <1>3, BoundAssumption DEF StartDial, DialNotBuilt, MayDial, Gens
    <3>2. Newest = g - 1
      BY <1>0, <3>1 DEF Newest
    <3>3. dial[g].stage = "none"
      BY <1>0, <3>1 DEF IInv, FreshInv
    <3>4. (\A h \in Gens : h # g => dial'[h] = dial[h]) /\ dial'[g].stage # "none"
      <4>1. CASE StartDial(c)
        BY <3>1, <4>1 DEF StartDial, IInv, TypeInv, Dial
      <4>2. CASE DialNotBuilt(c)
        BY <3>1, <4>2 DEF DialNotBuilt, Settled, IInv, TypeInv
      <4> QED
        BY <1>3, <4>1, <4>2
    <3> QED
      BY <3>1, <3>2, <3>3, <3>4
  <2>2. CASE StartDial(c)
    <3>1. inFlight' = g /\ UNCHANGED <<failures, retryNotBefore>>
      BY <2>2 DEF StartDial
    <3>2. Newest' = Newest
      BY <1>0, <2>1, <3>1 DEF Newest
    <3>3. dial'[g].stage = "handshake"
      BY <2>1, <2>2 DEF StartDial, IInv, TypeInv, Dial
    <3>4. \A h \in Gens : dial'[h].stage = "failed" => dial'[h] = dial[h]
      BY <2>1, <3>3
    <3>5. RunInv'
      BY <1>0, <3>1, <3>2, <3>4, RunsKept DEF BackoffInv
    <3>6. \A h \in Gens : h > g => dial'[h].stage = "none"
      BY <1>0, <2>1 DEF IInv, FreshInv, Gens
    <3> QED
      BY <3>1, <3>2, <3>5, <3>6 DEF BackoffInv
  <2>3. CASE DialNotBuilt(c)
    <3>1. /\ inFlight' = 0 /\ failures' = failures + 1
          /\ \E d \in Delays(failures + 1) : retryNotBefore' = now + d
          /\ dial'[g] = [stage |-> "failed", at |-> now]
      BY <2>1, <2>3 DEF DialNotBuilt, RecordConnectFailure, Settled, IInv, TypeInv
    <3>2. Newest' = g
      BY <2>1, <3>1 DEF Newest
    <3> HIDE DEF g
    <3>3. retryNotBefore' \in Nat /\ failures' <= Newest' /\ RunInv'
      BY <2>1, <3>1, <3>2, FailureCounts
    <3> QED
      BY <3>1, <3>3 DEF BackoffInv
  <2> QED
    BY <1>3, <2>2, <2>3
<1>4. ASSUME NEW g \in Gens, HandshakeSettles(g) PROVE BackoffInv'
  <2>1. dial[g].stage = "handshake" /\ inFlight = g /\ g # 0
    <3>1. dial[g].stage = "handshake"
      BY <1>4 DEF HandshakeSettles, Adopt, Supersede, HandshakeFails
    <3> QED
      BY <3>1 DEF IInv, SingleDial, Dialling, Gens
  <2>2. CASE Adopt(g)
    <3>1. /\ failures' = 0 /\ retryNotBefore' = 0 /\ inFlight' = 0
          /\ generation' = g /\ dial'[g].stage = "adopted"
      <4>1. dial' = [dial EXCEPT ![g].stage = "adopted"]
        BY <2>2 DEF Adopt
      <4>2. dial'[g].stage = "adopted"
        BY <4>1 DEF IInv, TypeInv, Dial
      <4> QED
        BY <2>2, <4>2 DEF Adopt, Adoptable
    <3>2. Newest' = g /\ g \in Nat
      BY <3>1 DEF Newest, Gens
    <3>3. RunInv'
      BY <3>1, <3>2, NoRun
    <3> QED
      BY <3>1, <3>2, <3>3 DEF BackoffInv
  <2>3. CASE Supersede(g) \/ HandshakeFails(g)
    <3>1. /\ UNCHANGED <<generation, inFlight, failures, retryNotBefore>>
          /\ \A h \in Gens : h # g => dial'[h] = dial[h]
          /\ dial'[g].stage \in {"failing", "superseding"}
      BY <2>3 DEF Supersede, HandshakeFails, IInv, TypeInv, Dial
    <3>2. Newest' = Newest
      BY <3>1 DEF Newest
    <3>3. RunInv'
      BY <1>0, <3>1, <3>2, RunsKept DEF BackoffInv
    <3> QED
      BY <2>1, <3>1, <3>2, <3>3 DEF BackoffInv, Gens
  <2> QED
    BY <1>4, <2>2, <2>3 DEF HandshakeSettles
<1>5. ASSUME NEW g \in Gens, CloseCompletes(g) PROVE BackoffInv'
  <2>1. CASE dial[g].stage \in {"failing", "superseding"}
    <3>1. inFlight = g /\ g # 0 /\ g \in Nat
      BY <2>1 DEF IInv, SingleDial, Dialling, Gens
    <3>2. /\ inFlight' = 0 /\ UNCHANGED generation
          /\ \A h \in Gens : h # g => dial'[h] = dial[h]
          /\ dial'[g].stage \in {"failed", "superseded"}
      BY <1>5, <2>1 DEF CloseCompletes, Settled, IInv, TypeInv
    <3>3. Newest' = generation
      BY <3>2 DEF Newest
    <3>4. CASE g # generation
      <4>1. UNCHANGED <<failures, retryNotBefore>> /\ Newest = generation
        BY <1>5, <2>1, <3>1, <3>4 DEF CloseCompletes, RecordConnectFailure, Newest
      <4>2. ~ (Newest' \in Gens /\ dial'[Newest'].stage = "failed")
        BY <1>0, <3>1, <3>2, <3>3, <3>4 DEF BackoffInv
      <4>3. RunInv'
        BY <1>0, <3>3, <4>2, NoRun
      <4> QED
        BY <3>2, <3>3, <4>1, <4>3 DEF BackoffInv
    <3>5. CASE g = generation /\ dial[g].stage = "failing"
      <4>1. /\ failures' = failures + 1
            /\ \E d \in Delays(failures + 1) : retryNotBefore' = now + d
            /\ dial'[g] = [stage |-> "failed", at |-> now]
        BY <1>5, <3>5 DEF CloseCompletes, RecordConnectFailure, Settled, IInv, TypeInv
      <4>2. Newest = g - 1 /\ Newest' = g
        BY <3>1, <3>3, <3>5 DEF Newest
      <4>3. retryNotBefore' \in Nat /\ failures' <= Newest' /\ RunInv'
        BY <3>2, <4>1, <4>2, FailureCounts
      <4> QED
        BY <3>2, <4>3 DEF BackoffInv
    <3>6. CASE g = generation /\ dial[g].stage = "superseding"
      <4>1. UNCHANGED <<failures, retryNotBefore>> /\ dial'[g].stage = "superseded"
        BY <1>5, <3>6 DEF CloseCompletes, Settled, IInv, TypeInv
      <4>2. Newest = g - 1 /\ Newest' = g
        BY <3>1, <3>3, <3>6 DEF Newest
      <4>3. RunInv'
        BY <3>1, <4>1, <4>2, NoRun
      <4> QED
        BY <1>0, <3>1, <3>2, <4>1, <4>2, <4>3 DEF BackoffInv
    <3> QED
      BY <2>1, <3>4, <3>5, <3>6
  <2>2. CASE dial[g].stage \notin {"failing", "superseding"}
    BY <1>1, <1>5, <2>2 DEF CloseCompletes
  <2> QED
    BY <2>1, <2>2
<1>6. ASSUME NEW g \in Gens, HandleDisconnect(g), dial[g].stage # "none",
             UNCHANGED <<inFlight, failures, retryNotBefore>>
      PROVE  BackoffInv'
  <2>1. CASE g # generation \/ ShuttingDown
    BY <1>1, <1>6, <2>1 DEF HandleDisconnect
  <2>2. CASE ~ (g # generation \/ ShuttingDown)
    <3>1. generation' = generation + 1 /\ dial' = [dial EXCEPT ![g].stage = "dropped"]
      BY <1>6, <2>2 DEF HandleDisconnect
    <3>2. \A h \in Gens : dial'[h].stage = "none" <=> dial[h].stage = "none"
      BY <1>6, <3>1 DEF IInv, TypeInv, Dial
    <3> QED
      BY <1>6, <3>1, <3>2, GenerationMovesOn
  <2> QED
    BY <2>1, <2>2
<1>7. ASSUME NEW c \in Callers, CallLosesConnection(c) PROVE BackoffInv'
  <2>1. caller[c].gen \in Gens /\ dial[caller[c].gen].stage # "none"
    BY <1>7 DEF CallLosesConnection, IInv, CallerInv
  <2> QED
    BY <1>6, <1>7, <2>1 DEF CallLosesConnection
<1>8. ASSUME NEW g \in Gens, TransportCloses(g) PROVE BackoffInv'
  BY <1>6, <1>8 DEF TransportCloses
<1>9. CASE Reset \/ CloseBehindDial \/ CloseAtOnce
  <2>1. /\ generation' = generation + 1 /\ UNCHANGED <<inFlight, dial>>
        /\ \/ UNCHANGED <<failures, retryNotBefore>>
           \/ failures' = 0 /\ retryNotBefore' = 0
    BY <1>9 DEF Reset, CloseBehindDial, CloseAtOnce
  <2> QED
    BY <2>1, GenerationMovesOn
<1>10. CASE CloseResumes \/ Tick \/ UNCHANGED vars
  BY <1>1, <1>10 DEF CloseResumes, Tick, vars
<1> QED
  BY <1>2, <1>3, <1>4, <1>5, <1>7, <1>8, <1>9, <1>10 DEF Next, EnsureReady, CallSettles

-----------------------------------------------------------------------------
(* The theorems *)

LEMMA InitIInv == Init => IInv
<1> SUFFICES ASSUME Init PROVE IInv
  OBVIOUS
<1>1. TypeInv
  BY DEF Init, TypeInv, Healths, Dial, DialStages, NoDial, ConnStates, NoCall
<1>2. FreshInv /\ SingleDial /\ HandshakeInv /\ SupersededInv
  BY DEF Init, FreshInv, SingleDial, HandshakeInv, SupersededInv, NoDial, Dialling, Gens
<1>3. AdoptedIsCurrent /\ ConnectingInv /\ CloserInv /\ NoOrphans /\ CallerInv
  BY DEF Init, AdoptedIsCurrent, ConnectingInv, CloserInv, NoOrphans, CallerInv, NoCall
<1> QED
  BY <1>1, <1>2, <1>3 DEF IInv

LEMMA NextIInv == IInv /\ [Next]_vars => IInv'
  BY CallersKeep, DialStarts, HandshakesKeep, ClosesKeep, DisconnectsKeep, TeardownKeeps,
     TimeKeeps DEF Next, EnsureReady, CallSettles

\* The inductive invariant of one connection.
THEOREM Inductive == Spec => []IInv
  BY InitIInv, NextIInv, PTL DEF Spec

\* Two dials of one client never overlap, and callers join the one there is.
THEOREM SingleFlight == Spec => []SingleDial
  BY Inductive, PTL DEF IInv

\* The connection in use is the newest one, whatever late callbacks say.
THEOREM InUseIsCurrent == Spec => []AdoptedIsCurrent
  BY Inductive, PTL DEF IInv

\* An open connection has an owner, or was dropped because a call failed on it.
THEOREM Owned == Spec => []NoOrphans
  BY Inductive, PTL DEF IInv

\* A failure is always counted: "connecting" does not outlive the dial.
THEOREM FailuresCount == Spec => []ConnectingMeansDialling
<1>1. IInv => ConnectingMeansDialling
  BY DEF IInv, ConnectingInv, ConnectingMeansDialling
<1> QED
  BY <1>1, Inductive, PTL

\* The invariants the late callbacks and the backoff rest on.
THEOREM InductiveToo == Spec => [](LateInv /\ BackoffInv)
<1>1. Init => LateInv /\ BackoffInv
  BY InitLateInv, InitBackoffInv
<1>2. IInv /\ IInv' /\ (LateInv /\ BackoffInv) /\ [Next]_vars => (LateInv /\ BackoffInv)'
  BY NextLateInv, NextBackoffInv
<1> QED
  BY <1>1, <1>2, Inductive, PTL DEF Spec

\* Every variable keeps its type; for the delays that needs what the powers of the
\* backoff factor are.
THEOREM Typed == Spec => []TypeOK
<1>1. IInv /\ BackoffInv => TypeOK
  BY DEF IInv, TypeInv, BackoffInv, TypeOK, Call
<1> QED
  BY <1>1, Inductive, InductiveToo, PTL

\* After FailFastAfter dials in a row that failed, the next dial waits out at
\* least half of the backoff target, to the nearest tick.
THEOREM WindowHolds == Spec => FailFastHolds
<1> DEFINE Waits == \A g \in Gens :
             /\ dial[g].stage = "none" /\ dial'[g].stage # "none"
             /\ g > FailFastAfter
             /\ \A k \in 1..FailFastAfter : dial[g - k].stage = "failed"
             => now >= dial[g - 1].at + Half(FailFastAfter)
<1>1. ASSUME IInv, BackoffInv, Next PROVE Waits
  <2> SUFFICES ASSUME NEW g \in Gens,
                      dial[g].stage = "none", dial'[g].stage # "none", g > FailFastAfter,
                      \A k \in 1..FailFastAfter : dial[g - k].stage = "failed"
               PROVE  now >= dial[g - 1].at + Half(FailFastAfter)
    OBVIOUS
  <2>1. g = generation + 1 /\ inFlight = 0 /\ ~ FailFast
    BY <1>1, DialsStartOnce
  <2>2. Newest = g - 1 /\ g \in 1..MaxGeneration
    BY <1>1, <2>1, NewestType DEF Newest, Gens
  <2>3. ASSUME NEW k \in 0..(FailFastAfter - 1)
        PROVE  Newest - k \in Gens /\ dial[Newest - k].stage = "failed"
    <3>1. k + 1 \in 1..FailFastAfter /\ Newest - k = g - (k + 1) /\ Newest - k \in Gens
      BY <2>2, FailFastAssumption, BoundAssumption DEF Gens
    <3> QED
      BY <3>1
  <2>4. FailFastAfter \in 1..MaxGeneration /\ FailedInARow(FailFastAfter)
    BY <2>2, <2>3, FailFastAssumption, BoundAssumption DEF FailedInARow
  <2>5. failures >= FailFastAfter
        /\ retryNotBefore >= dial[g - 1].at + Half(FailFastAfter)
    BY <1>1, <2>2, <2>4 DEF BackoffInv, RunInv
  <2>6. now >= retryNotBefore /\ now \in Nat /\ retryNotBefore \in Nat
    BY <1>1, <2>1, <2>5 DEF FailFast, BackoffInv, IInv, TypeInv
  <2>7. dial[g - 1].at \in Nat /\ Half(FailFastAfter) \in Nat
    <3>1. g - 1 \in Gens
      BY <2>2, FailFastAssumption, BoundAssumption DEF Gens
    <3>2. dial[g - 1] \in Dial
      BY <1>1, <3>1 DEF IInv, TypeInv
    <3>3. Half(FailFastAfter) \in Nat
      BY <2>4, HalfType
    <3> QED
      BY <3>2, <3>3 DEF Dial
  <2> QED
    BY <2>5, <2>6, <2>7
<1>2. ASSUME IInv, BackoffInv, [Next]_vars PROVE [Waits]_vars
  BY <1>1, <1>2
<1> QED
  BY <1>2, Inductive, InductiveToo, PTL DEF Spec, FailFastHolds

\* A loss reported on a connection that is not the client changes nothing.
THEOREM LateLosses == Spec => LateLossIsIgnored
<1> DEFINE Ignored == \A c \in Callers :
             /\ caller[c].stage = "running" /\ caller'[c].stage = "answered"
             /\ caller[c].conn # client
             => UNCHANGED <<generation, client, health, failures, retryNotBefore, inFlight>>
<1>1. ASSUME IInv, LateInv, Next PROVE Ignored
  <2> SUFFICES ASSUME NEW c \in Callers, caller[c].stage = "running",
                      caller'[c].stage = "answered", caller[c].conn # client
               PROVE  UNCHANGED <<generation, client, health, failures, retryNotBefore, inFlight>>
    OBVIOUS
  <2>1. ASSUME NEW d \in Callers, EnsureReady(d) \/ Again(d) PROVE FALSE
    <3>1. caller[d].stage # "running"
      BY <2>1 DEF EnsureReady, CallRefused, CallOnReady, JoinDial, CallFailsFast, StartDial,
                  DialNotBuilt, MayDial, Again
    <3>2. caller'[c] = caller[c]
      BY <1>1, <2>1, <3>1 DEF EnsureReady, CallRefused, CallOnReady, JoinDial, CallFailsFast,
                  StartDial, DialNotBuilt, Again, IInv, TypeInv
    <3> QED
      BY <3>2
  <2>2. ASSUME NEW d \in Callers, CallLosesConnection(d)
        PROVE  UNCHANGED <<generation, client, health, failures, retryNotBefore, inFlight>>
    <3>1. c = d
      BY <1>1, <2>2 DEF CallLosesConnection, IInv, TypeInv
    <3>2. caller[c].gen # generation \/ ShuttingDown
      BY <1>1 DEF LateInv, IInv, CallerInv, ShuttingDown
    <3> QED
      BY <2>2, <3>1, <3>2 DEF CallLosesConnection, HandleDisconnect
  <2>3. ASSUME NEW g \in Gens, HandshakeSettles(g) \/ CloseCompletes(g) PROVE FALSE
    <3>1. caller'[c] = caller[c]
      BY <2>3 DEF HandshakeSettles, Adopt, Supersede, HandshakeFails, CloseCompletes,
                  Rejected, WaitingFor
    <3> QED
      BY <3>1
  <2>4. ASSUME NEW g \in Gens, TransportCloses(g) PROVE FALSE
    BY <2>4 DEF TransportCloses
  <2>5. ~ (Reset \/ CloseBehindDial \/ CloseResumes \/ CloseAtOnce \/ Tick)
    BY DEF Reset, CloseBehindDial, CloseResumes, CloseAtOnce, Tick
  <2>6. ASSUME NEW d \in Callers, CallReturns(d)
        PROVE  UNCHANGED <<generation, client, health, failures, retryNotBefore, inFlight>>
    BY <2>6 DEF CallReturns
  <2> QED
    BY <1>1, <2>1, <2>2, <2>3, <2>4, <2>5, <2>6 DEF Next, CallSettles
<1>2. ASSUME IInv, LateInv, [Next]_vars PROVE [Ignored]_vars
  BY <1>1, <1>2
<1> QED
  BY <1>2, Inductive, InductiveToo, PTL DEF Spec, LateLossIsIgnored

\* After close() nothing is dialled or adopted, and "closed" is final.
THEOREM ShutdownFinal == Spec => ShutdownIsFinal
<1> DEFINE Final == ShuttingDown =>
             /\ client' \in {0, client}
             /\ \A g \in Gens : dial[g].stage = "none" => dial'[g].stage = "none"
             /\ health = "closed" => health' = "closed"
<1>1. ASSUME IInv, IInv', LateInv, LateInv', Next PROVE Final
  <2> SUFFICES ASSUME ShuttingDown
               PROVE  /\ client' \in {0, client}
                      /\ \A g \in Gens : dial[g].stage = "none" => dial'[g].stage = "none"
                      /\ health = "closed" => health' = "closed"
    OBVIOUS
  <2>1. \A g \in Gens : dial[g].stage = "none" => dial'[g].stage = "none"
    BY <1>1, DialsStartOnce DEF ShuttingDown
  <2>2. closer' # "no"
    BY <1>1 DEF ShuttingDown, Next, EnsureReady, CallSettles, CallRefused, CallOnReady, JoinDial,
       CallFailsFast, StartDial, DialNotBuilt, CallReturns, CallLosesConnection, Again,
       HandshakeSettles, Adopt, Supersede, HandshakeFails, CloseCompletes, TransportCloses,
       Reset, CloseBehindDial, CloseResumes, CloseAtOnce, Tick
  <2>3. client' = 0
    BY <1>1, <2>2 DEF IInv, CloserInv
  <2>4. ASSUME health = "closed" PROVE health' = "closed"
    <3>1. closer = "done" /\ inFlight = 0
      BY <1>1, <2>4 DEF LateInv, IInv, CloserInv
    <3>2. \A g \in Gens : dial[g].stage \notin Dialling
      BY <1>1, <3>1 DEF IInv, SingleDial, Gens
    <3>3. ASSUME NEW g \in Gens, HandshakeSettles(g) \/ CloseCompletes(g) PROVE health' = "closed"
      BY <2>4, <3>2, <3>3 DEF HandshakeSettles, Adopt, Supersede, HandshakeFails, CloseCompletes,
                              Dialling
    <3>4. ASSUME NEW g \in Gens, HandleDisconnect(g) PROVE health' = "closed"
      BY <2>4, <3>4 DEF HandleDisconnect
    <3>5. ASSUME NEW c \in Callers, CallLosesConnection(c) PROVE health' = "closed"
      BY <2>4, <3>5 DEF CallLosesConnection, HandleDisconnect
    <3>6. ASSUME NEW g \in Gens, TransportCloses(g) PROVE health' = "closed"
      BY <3>4, <3>6 DEF TransportCloses
    <3>7. ASSUME NEW c \in Callers, EnsureReady(c) \/ CallReturns(c) \/ Again(c)
          PROVE  health' = "closed"
      BY <2>4, <3>7 DEF EnsureReady, CallRefused, CallOnReady, JoinDial, CallFailsFast, StartDial,
                        DialNotBuilt, MayDial, CallReturns, Again
    <3>8. CASE Reset \/ CloseBehindDial \/ CloseResumes \/ CloseAtOnce \/ Tick
      BY <2>4, <3>8 DEF Reset, CloseBehindDial, CloseResumes, CloseAtOnce, Tick
    <3> QED
      BY <1>1, <3>3, <3>5, <3>6, <3>7, <3>8 DEF Next, CallSettles
  <2> QED
    BY <2>1, <2>3, <2>4
<1>2. ASSUME IInv, IInv', LateInv, LateInv', [Next]_vars PROVE [Final]_vars
  BY <1>1, <1>2
<1> QED
  BY <1>2, Inductive, InductiveToo, PTL DEF Spec, ShutdownIsFinal
=============================================================================
