----------------------- MODULE GatewayLifecycleProofs -----------------------
(***************************************************************************)
(* Theorems about GatewayLifecycle, for any number of servers, requests    *)
(* and signals.                                                            *)
(*                                                                         *)
(* The three safety properties need three things the runs never had to     *)
(* say: that at most one shutdown is under way and how far it is           *)
(* determines whether the listener and the registry are closed             *)
(* (ShutdownInv), that a tool call being assessed has its server in a      *)
(* catalog that no longer changes (StartInv, EvidenceInv), and that a call *)
(* waits only for a connection its client still has (WiredInv).            *)
(***************************************************************************)
EXTENDS GatewayLifecycle, TLAPS

-----------------------------------------------------------------------------
(* The inductive invariant *)

\* While main() is starting nobody can send a request and nobody closes anything.
StartInv == phase \in Starting =>
    /\ ~listening /\ ~closed
    /\ \A r \in Requests : req[r].stage = "idle" /\ req[r].answer = "none"
    /\ \A g \in Signals : shutdown[g] = "none"

UnderWay(g) == shutdown[g] \in {"sentinel", "http", "registry"}

\* One shutdown at a time; how far it is says what is closed.
ShutdownInv ==
    /\ \A g, h \in Signals : UnderWay(g) /\ UnderWay(h) => g = h
    /\ \A g \in Signals :
         /\ shutdown[g] = "sentinel" => listening /\ ~closed
         /\ shutdown[g] = "http" => ~listening /\ ~closed
         /\ shutdown[g] = "registry" => ~listening /\ closed
    /\ phase = "serving" /\ (\A g \in Signals : ~UnderWay(g)) => listening /\ ~closed
    /\ closed => ~listening

\* What is known of a request before it is recorded and after.
Evident(q) ==
    /\ q.stage = "assessing" /\ q.method = "tools/call" => q.server \in catalog
    /\ q.stage \in {"waiting", "running", "stranded"} \/ q.answer = "result"
         => q.recorded = q.server

EvidenceInv == \A r \in Requests : Evident(req[r])

\* A call waits for a dial or is on a connection as long as its client has one.
Wired(q, connection) ==
    /\ q.stage # "idle" => q.server \in Servers
    /\ q.stage = "waiting" => connection[q.server] \in {"dialling", "closing"}
    /\ q.stage = "running" => connection[q.server] \in {"open", "closing"}

WiredInv == \A r \in Requests : Wired(req[r], conn)

IInv ==
    /\ TypeOK /\ StartInv /\ ShutdownInv /\ EvidenceInv /\ WiredInv
    /\ NobodyIsCutOff /\ OrderlyExit

\* q continues p: work on p may have ended, nobody attached to it anew, and its
\* evidence is still in order.
Continues(q, p) ==
    /\ q.stage \notin {"idle", "done"} => p.stage \notin {"idle", "done"}
    /\ q.stage \notin {"idle", "done"} /\ q.attached => p.attached
    /\ p.stage = "idle" => q = p
    /\ Evident(p) => Evident(q)

-----------------------------------------------------------------------------
(* Steps of a running gateway that neither start nor stop it *)

LEMMA RunningStep ==
    ASSUME IInv, TypeOK', UNCHANGED <<phase, catalog, listening, shutdown, closed>>, Running,
           \A r \in Requests : Continues(req'[r], req[r]) /\ Wired(req'[r], conn')
    PROVE  IInv'
<1>1. StartInv'
  BY DEF IInv, StartInv, Continues, Starting
<1>2. ShutdownInv'
  BY DEF IInv, ShutdownInv, UnderWay
<1>3. EvidenceInv'
  <2>1. ASSUME NEW r \in Requests PROVE Evident(req[r])'
    <3>1. Evident(req'[r])
      BY DEF IInv, EvidenceInv, Continues
    <3> QED
      BY <3>1 DEF Evident
  <2> QED
    BY <2>1 DEF EvidenceInv
<1>4. NobodyIsCutOff'
  BY DEF IInv, NobodyIsCutOff, Drained, InFlight, Continues
<1>5. WiredInv'
  BY DEF WiredInv, Wired
<1>6. OrderlyExit'
  BY DEF OrderlyExit, Running, Ended
<1> QED
  BY <1>1, <1>2, <1>3, <1>4, <1>5, <1>6 DEF IInv

\* One request moves, as long as what becomes of it continues it; at most a dial
\* is started where there was no connection.
LEMMA OneRequest ==
    ASSUME IInv, NEW r \in Requests, NEW q \in Request, Running,
           req' = [req EXCEPT ![r] = q], Continues(q, req[r]), Wired(q, conn'),
           conn' \in [Servers -> {"none", "dialling", "open", "closing"}],
           \A s \in Servers : conn'[s] = conn[s] \/ conn[s] = "none",
           UNCHANGED <<phase, listing, catalog, listening, shutdown, closed, left>>
    PROVE  IInv'
<1>1. TypeOK'
  BY DEF IInv, TypeOK
<1>2. \A o \in Requests : Continues(req'[o], req[o]) /\ Wired(req'[o], conn')
  <2>1. \A o \in Requests \ {r} : req'[o] = req[o] /\ Wired(req[o], conn)
    BY DEF IInv, TypeOK, WiredInv
  <2>2. req'[r] = q
    BY DEF IInv, TypeOK
  <2>3. \A o \in Requests \ {r} : Continues(req'[o], req[o])
    BY <2>1 DEF Continues
  <2>4. \A o \in Requests \ {r} : Wired(req'[o], conn')
    BY <2>1 DEF Wired
  <2> QED
    BY <2>2, <2>3, <2>4
<1> QED
  BY <1>1, <1>2, RunningStep

\* Calls of s that fail, and all others, continue, and are wired when no call of
\* s is left that the new connection of s does not serve.
LEMMA CallsFailContinue ==
    ASSUME TypeOK, WiredInv, NEW s \in Servers, NEW stages,
           stages \subseteq {"waiting", "running", "stranded"}, CallsFail(s, stages),
           \A o \in Servers \ {s} : conn'[o] = conn[o],
           \/ conn'[s] = conn[s]
           \/ conn[s] = "dialling" /\ "waiting" \in stages
           \/ conn[s] = "open" /\ "running" \in stages
           \/ {"waiting", "running"} \subseteq stages
    PROVE  /\ req' \in [Requests -> Request]
           /\ \A r \in Requests : Continues(req'[r], req[r]) /\ Wired(req'[r], conn')
<1>1. ASSUME NEW r \in Requests
      PROVE  req'[r] \in Request /\ Continues(req'[r], req[r]) /\ Wired(req'[r], conn')
  <2>1. req[r] \in Request /\ Wired(req[r], conn)
    BY DEF TypeOK, WiredInv
  <2>2. CASE r \in CallsOf(s, stages)
    <3>1. req'[r] = Done(req[r], "unavailable")
      BY <2>2 DEF CallsFail
    <3>2. req[r].stage \in {"waiting", "running", "stranded"}
      BY <2>2 DEF CallsOf
    <3> QED
      BY <2>1, <3>1, <3>2 DEF Done, Continues, Evident, Wired, Request
  <2>3. CASE r \notin CallsOf(s, stages)
    <3>1. req'[r] = req[r]
      BY <2>3 DEF CallsFail
    <3>2. Wired(req[r], conn')
      BY <2>1, <2>3 DEF CallsOf, Wired
    <3> QED
      BY <2>1, <3>1, <3>2 DEF Continues
  <2> QED
    BY <2>2, <2>3
<1>2. req' \in [Requests -> Request]
  BY <1>1 DEF CallsFail
<1> QED
  BY <1>1, <1>2

\* A listing that fails is settled.
LEMMA ListingFailsType ==
    ASSUME TypeOK, NEW s \in Servers, ListingFails(s)
    PROVE  listing' \in [Servers -> {"pending", "listed", "failed"}]
  BY DEF TypeOK, ListingFails

\* Connections that come, go and close, and listings that settle.
LEMMA ConnectionsKeep ==
    ASSUME IInv, NEW s \in Servers,
           \/ ConnectionSettles(s) \/ ListingReturns(s)
           \/ Disconnect(s) \/ SendFails(s) \/ LeftCloses(s)
    PROVE  IInv'
<1> USE DEF IInv
<1>1. CASE Connect(s)
  <2>1. /\ Running /\ conn[s] = "dialling"
        /\ UNCHANGED <<phase, listing, catalog, listening, shutdown, closed, left>>
        /\ conn' = [conn EXCEPT ![s] = IF closed THEN "closing" ELSE "open"]
    BY <1>1 DEF Connect
  <2>2. ASSUME NEW r \in Requests
        PROVE  req'[r] \in Request /\ Continues(req'[r], req[r]) /\ Wired(req'[r], conn')
    <3>1. req[r] \in Request /\ Wired(req[r], conn)
      BY DEF TypeOK, WiredInv
    <3>2. CASE ~closed /\ r \in CallsOf(s, {"waiting"})
      <4>1. req'[r] = [req[r] EXCEPT !.stage = "running"]
        BY <1>1, <3>2 DEF Connect
      <4>2. req[r].stage = "waiting" /\ req[r].server = s
        BY <3>2 DEF CallsOf
      <4>3. conn'[s] = "open"
        BY <2>1, <3>2 DEF TypeOK
      <4> QED
        BY <3>1, <4>1, <4>2, <4>3 DEF Continues, Evident, Wired, Request
    <3>3. CASE ~(~closed /\ r \in CallsOf(s, {"waiting"}))
      <4>1. req'[r] = req[r]
        BY <1>1, <3>3 DEF Connect
      <4>2. \A o \in Servers \ {s} : conn'[o] = conn[o]
        BY <2>1 DEF TypeOK
      <4>3. closed => conn'[s] = "closing"
        BY <2>1 DEF TypeOK
      <4>4. Wired(req[r], conn')
        BY <2>1, <3>1, <3>3, <4>2, <4>3 DEF Wired, CallsOf
      <4> QED
        BY <3>1, <4>1, <4>4 DEF Continues
    <3> QED
      BY <3>2, <3>3
  <2>3. req' \in [Requests -> Request]
    BY <1>1, <2>2 DEF Connect
  <2>4. TypeOK'
    BY <2>1, <2>3 DEF TypeOK
  <2> QED
    BY <2>1, <2>2, <2>4, RunningStep
<1>2. CASE DialFails(s)
  <2>1. /\ Running /\ conn[s] = "dialling" /\ conn' = [conn EXCEPT ![s] = "none"]
        /\ CallsFail(s, {"waiting"}) /\ ListingFails(s)
        /\ UNCHANGED <<phase, catalog, listening, shutdown, closed, left>>
    BY <1>2 DEF DialFails
  <2>2. \A o \in Servers \ {s} : conn'[o] = conn[o]
    BY <2>1 DEF TypeOK
  <2>3. /\ req' \in [Requests -> Request]
        /\ \A r \in Requests : Continues(req'[r], req[r]) /\ Wired(req'[r], conn')
    BY <2>1, <2>2, CallsFailContinue
  <2>4. TypeOK'
    BY <2>1, <2>3, ListingFailsType DEF TypeOK
  <2> QED
    BY <2>1, <2>3, <2>4, RunningStep
<1>3. CASE Disconnect(s)
  <2>1. /\ Running /\ conn[s] = "open" /\ conn' = [conn EXCEPT ![s] = "none"]
        /\ CallsFail(s, {"running"}) /\ ListingFails(s)
        /\ UNCHANGED <<phase, catalog, listening, shutdown, closed, left>>
    BY <1>3 DEF Disconnect
  <2>2. \A o \in Servers \ {s} : conn'[o] = conn[o]
    BY <2>1 DEF TypeOK
  <2>3. /\ req' \in [Requests -> Request]
        /\ \A r \in Requests : Continues(req'[r], req[r]) /\ Wired(req'[r], conn')
    BY <2>1, <2>2, CallsFailContinue
  <2>4. TypeOK'
    BY <2>1, <2>3, ListingFailsType DEF TypeOK
  <2> QED
    BY <2>1, <2>3, <2>4, RunningStep
<1>4. CASE ConnectionCloses(s)
  <2>1. /\ Running /\ conn' = [conn EXCEPT ![s] = "none"]
        /\ CallsFail(s, {"waiting", "running"})
        /\ UNCHANGED <<phase, listing, catalog, listening, shutdown, closed, left>>
    BY <1>4 DEF ConnectionCloses
  <2>2. \A o \in Servers \ {s} : conn'[o] = conn[o]
    BY <2>1 DEF TypeOK
  <2>3. /\ req' \in [Requests -> Request]
        /\ \A r \in Requests : Continues(req'[r], req[r]) /\ Wired(req'[r], conn')
    BY <2>1, <2>2, CallsFailContinue
  <2>4. TypeOK'
    BY <2>1, <2>3 DEF TypeOK
  <2> QED
    BY <2>1, <2>3, <2>4, RunningStep
<1>5. CASE ListingReturns(s)
  <2>1. Running /\ UNCHANGED <<phase, conn, catalog, listening, req, shutdown, closed, left>>
    BY <1>5 DEF ListingReturns
  <2>2. TypeOK'
    BY <1>5, <2>1 DEF ListingReturns, TypeOK
  <2>3. \A r \in Requests : Continues(req'[r], req[r]) /\ Wired(req'[r], conn')
    BY <2>1 DEF Continues, WiredInv, Wired
  <2> QED
    BY <2>1, <2>2, <2>3, RunningStep
<1>6. CASE SendFails(s)
  <2>1. /\ Running /\ conn[s] = "open" /\ conn' = [conn EXCEPT ![s] = "none"]
        /\ left' = left \cup {s} /\ ListingFails(s)
        /\ UNCHANGED <<phase, catalog, listening, shutdown, closed>>
    BY <1>6 DEF SendFails
  <2>2. \A o \in Servers \ {s} : conn'[o] = conn[o]
    BY <2>1 DEF TypeOK
  <2>3. PICK unsent \in SUBSET CallsOf(s, {"running"}) :
           req' = [r \in Requests |->
                     IF r \in unsent THEN Done(req[r], "unavailable")
                     ELSE IF r \in CallsOf(s, {"running"}) THEN [req[r] EXCEPT !.stage = "stranded"]
                     ELSE req[r]]
    BY <1>6 DEF SendFails
  <2>4. ASSUME NEW r \in Requests
        PROVE  req'[r] \in Request /\ Continues(req'[r], req[r]) /\ Wired(req'[r], conn')
    <3>1. req[r] \in Request /\ Wired(req[r], conn)
      BY DEF TypeOK, WiredInv
    <3>2. CASE r \in CallsOf(s, {"running"})
      <4>1. req[r].stage = "running" /\ req[r].server = s
        BY <3>2 DEF CallsOf
      <4>2. \/ req'[r] = Done(req[r], "unavailable")
            \/ req'[r] = [req[r] EXCEPT !.stage = "stranded"]
        BY <2>3, <3>2
      <4> QED
        BY <3>1, <4>1, <4>2 DEF Done, Continues, Evident, Wired, Request
    <3>3. CASE r \notin CallsOf(s, {"running"})
      <4>1. req'[r] = req[r]
        BY <2>3, <3>3
      <4>2. Wired(req[r], conn')
        BY <2>1, <2>2, <3>1, <3>3 DEF Wired, CallsOf
      <4> QED
        BY <3>1, <4>1, <4>2 DEF Continues
    <3> QED
      BY <3>2, <3>3
  <2>5. req' \in [Requests -> Request]
    BY <2>3, <2>4
  <2>6. TypeOK'
    BY <2>1, <2>5, ListingFailsType DEF TypeOK
  <2> QED
    BY <2>1, <2>4, <2>6, RunningStep
<1>7. CASE LeftCloses(s)
  <2>1. /\ Running /\ left' = left \ {s} /\ CallsFail(s, {"stranded"})
        /\ UNCHANGED <<phase, conn, listing, catalog, listening, shutdown, closed>>
    BY <1>7 DEF LeftCloses
  <2>2. /\ req' \in [Requests -> Request]
        /\ \A r \in Requests : Continues(req'[r], req[r]) /\ Wired(req'[r], conn')
    BY <2>1, CallsFailContinue
  <2>3. TypeOK'
    BY <2>1, <2>2 DEF TypeOK
  <2> QED
    BY <2>1, <2>2, <2>3, RunningStep
<1> QED
  BY <1>1, <1>2, <1>3, <1>4, <1>5, <1>6, <1>7 DEF ConnectionSettles

\* An answer other than a result can be given at any time, a result only to a
\* request that is running.
LEMMA AnswersKeep ==
    ASSUME IInv, NEW r \in Requests,
           NEW what \in {"result", "unknown", "no_method", "unavailable", "refused"},
           Running, req[r].stage \in {"reading", "assessing", "running", "stranded"},
           what = "result" => req[r].stage \in {"running", "stranded"}, Answers(r, what)
    PROVE  IInv'
<1>1. req[r] \in Request /\ Wired(req[r], conn)
  BY DEF IInv, TypeOK, WiredInv
<1>2. /\ Done(req[r], what) \in Request /\ Continues(Done(req[r], what), req[r])
      /\ Wired(Done(req[r], what), conn)
  BY <1>1 DEF Done, Continues, Evident, Wired, Request
<1>3. /\ req' = [req EXCEPT ![r] = Done(req[r], what)]
      /\ UNCHANGED <<phase, conn, listing, catalog, listening, shutdown, closed, left>>
  BY DEF Answers
<1> QED
  BY <1>2, <1>3, OneRequest DEF IInv, TypeOK

\* Requests that are read, assessed, recorded, forwarded and answered.
LEMMA RequestsKeep ==
    ASSUME IInv, NEW r \in Requests, HangUp(r) \/ Works(r)
    PROVE  IInv'
<1> DEFINE p == req[r]
<1>0. p \in Request /\ Wired(p, conn) /\ conn \in [Servers -> {"none", "dialling", "open", "closing"}]
  BY DEF IInv, TypeOK, WiredInv
<1>1. CASE HangUp(r)
  <2>1. /\ Running /\ req' = [req EXCEPT ![r] = [p EXCEPT !.attached = FALSE]]
        /\ UNCHANGED <<phase, conn, listing, catalog, listening, shutdown, closed, left>>
    BY <1>1 DEF HangUp
  <2>2. p.stage # "idle"
    BY <1>1 DEF HangUp, InFlight
  <2>3. /\ [p EXCEPT !.attached = FALSE] \in Request
        /\ Continues([p EXCEPT !.attached = FALSE], p)
        /\ Wired([p EXCEPT !.attached = FALSE], conn)
    BY <1>0, <2>2 DEF Continues, Evident, Wired, Request
  <2> HIDE DEF p
  <2> QED
    BY <1>0, <2>1, <2>3, OneRequest DEF p
<1>2. CASE Handle(r)
  <2>1. Running /\ p.stage = "reading"
    BY <1>2 DEF Handle
  <2>2. CASE \E what \in {"refused", "no_method", "unknown"} : Answers(r, what)
    BY <2>1, <2>2, AnswersKeep
  <2>3. CASE /\ Routable(p.method, p.server)
             /\ req' = [req EXCEPT ![r].stage = "assessing"]
             /\ UNCHANGED <<phase, conn, listing, catalog, listening, shutdown, closed, left>>
    <3>1. req' = [req EXCEPT ![r] = [p EXCEPT !.stage = "assessing"]]
      BY <2>3
    <3>2. /\ [p EXCEPT !.stage = "assessing"] \in Request
          /\ Continues([p EXCEPT !.stage = "assessing"], p)
          /\ Wired([p EXCEPT !.stage = "assessing"], conn)
      BY <1>0, <2>1, <2>3 DEF Continues, Evident, Wired, Request, Routable
    <3> HIDE DEF p
    <3> QED
      BY <1>0, <2>1, <2>3, <3>1, <3>2, OneRequest DEF p
  <2> QED
    BY <1>2, <2>2, <2>3 DEF Handle
<1>3. CASE NotForwarded(r)
  BY <1>3, AnswersKeep DEF NotForwarded
<1>4. CASE Forward(r)
  <2> DEFINE recorded == [p EXCEPT !.recorded = NamedInRecord(p)]
  <2>1. Running /\ p.stage = "assessing"
    BY <1>4 DEF Forward
  <2>2. Evident(p)
    BY DEF IInv, EvidenceInv
  <2>3. NamedInRecord(p) = p.server
    BY <2>1, <2>2 DEF NamedInRecord, Evident
  <2>9. UNCHANGED <<phase, listing, catalog, listening, shutdown, closed, left>>
    BY <1>4 DEF Forward
  <2>4. p.server \in Servers
    BY <1>0, <2>1 DEF Wired
  <2>5. CASE ~closed /\ conn[p.server] = "open" /\ UNCHANGED conn
             /\ req' = [req EXCEPT ![r] = [recorded EXCEPT !.stage = "running"]]
    <3>1. /\ [recorded EXCEPT !.stage = "running"] \in Request
          /\ Continues([recorded EXCEPT !.stage = "running"], p)
          /\ Wired([recorded EXCEPT !.stage = "running"], conn)
      BY <1>0, <2>1, <2>3, <2>4, <2>5 DEF Continues, Evident, Wired, Request
    <3> HIDE DEF p, recorded
    <3> QED
      BY <1>0, <2>1, <2>5, <2>9, <3>1, OneRequest DEF p
  <2>6. CASE ~closed /\ conn[p.server] \in {"none", "dialling"}
             /\ conn' = [conn EXCEPT ![p.server] = "dialling"]
             /\ req' = [req EXCEPT ![r] = [recorded EXCEPT !.stage = "waiting"]]
    <3>1. /\ [recorded EXCEPT !.stage = "waiting"] \in Request
          /\ Continues([recorded EXCEPT !.stage = "waiting"], p)
      BY <1>0, <2>1, <2>3, <2>4 DEF Continues, Evident, Request
    <3>2. /\ conn' \in [Servers -> {"none", "dialling", "open", "closing"}]
          /\ conn'[p.server] = "dialling"
          /\ \A s \in Servers : conn'[s] = conn[s] \/ conn[s] = "none"
      BY <1>0, <2>4, <2>6
    <3>3. Wired([recorded EXCEPT !.stage = "waiting"], conn')
      BY <1>0, <2>4, <3>2 DEF Wired, Request
    <3> HIDE DEF p, recorded
    <3> QED
      BY <2>1, <2>6, <2>9, <3>1, <3>2, <3>3, OneRequest DEF p
  <2>7. CASE req' = [req EXCEPT ![r] = Done(recorded, "unavailable")] /\ UNCHANGED conn
    <3>1. /\ Done(recorded, "unavailable") \in Request
          /\ Continues(Done(recorded, "unavailable"), p)
          /\ Wired(Done(recorded, "unavailable"), conn)
      BY <1>0, <2>1, <2>3, <2>4 DEF Continues, Evident, Wired, Request, Done
    <3> HIDE DEF p, recorded
    <3> QED
      BY <1>0, <2>1, <2>7, <2>9, <3>1, OneRequest DEF p
  <2> QED
    BY <1>4, <2>5, <2>6, <2>7 DEF Forward
<1>5. CASE Return(r)
  BY <1>5, AnswersKeep DEF Return
<1> QED
  BY <1>1, <1>2, <1>3, <1>4, <1>5 DEF Works

-----------------------------------------------------------------------------
(* Arrival, startup and shutdown *)

\* A request arrives: the listener is open, so the registry is not closed.
LEMMA PostKeeps ==
    ASSUME IInv, NEW r \in Requests, Post(r)
    PROVE  IInv'
<1>1. PICK method \in Methods, server \in Servers :
         req' = [req EXCEPT ![r] = [stage |-> "reading", method |-> method, server |-> server,
                                    attached |-> TRUE, recorded |-> "none", answer |-> "none"]]
  BY DEF Post
<1>2. /\ Running /\ listening
      /\ UNCHANGED <<phase, conn, listing, catalog, listening, shutdown, closed, left>>
  BY DEF Post
<1>3. TypeOK'
  BY <1>1, <1>2 DEF IInv, TypeOK, Request
<1>4. StartInv' /\ NobodyIsCutOff' /\ OrderlyExit'
  BY <1>2 DEF IInv, StartInv, ShutdownInv, NobodyIsCutOff, OrderlyExit, Running, Ended
<1>5. ShutdownInv'
  BY <1>2 DEF IInv, ShutdownInv, UnderWay
<1>6. EvidenceInv'
  BY <1>1, <1>2 DEF IInv, TypeOK, EvidenceInv, Evident
<1>7. WiredInv'
  BY <1>1, <1>2 DEF IInv, TypeOK, WiredInv, Wired
<1> QED
  BY <1>3, <1>4, <1>5, <1>6, <1>7 DEF IInv

\* main() moves on, or ends before it serves.  Only the refresh changes the
\* catalog, and no request has been taken by then.
LEMMA StartupKeeps ==
    ASSUME IInv, \/ FinishRefresh \/ OpenStores \/ Listen
                 \/ \E g \in Signals : SignalKills(g)
    PROVE  IInv'
<1>1. /\ phase \in Starting /\ phase' \in Starting \cup {"serving", "failed", "killed"}
      /\ UNCHANGED <<conn, listing, req, shutdown, closed, left>>
  BY DEF FinishRefresh, OpenStores, Listen, SignalKills, Starting
<1>2. /\ catalog' \in SUBSET Servers
      /\ \A g \in Signals : shutdown'[g] = "none"
  BY <1>1 DEF FinishRefresh, OpenStores, Listen, SignalKills, IInv, TypeOK, StartInv
<1>3. /\ listening' \in BOOLEAN
      /\ phase' = "serving" => listening'
      /\ phase' \in Starting => ~listening'
  <2>1. ~listening
    BY <1>1 DEF IInv, StartInv
  <2>2. CASE FinishRefresh \/ OpenStores
    <3>1. phase' # "serving" /\ listening' = listening
      BY <2>2 DEF FinishRefresh, OpenStores
    <3> QED
      BY <2>1, <3>1, Zenon DEF IInv, TypeOK
  <2>3. CASE Listen
    <3>1. phase' \notin Starting /\ (phase' = "serving" => listening' = TRUE)
          /\ (phase' # "serving" => listening' = listening)
      BY <2>3, Zenon DEF Listen, Starting
    <3> QED
      BY <3>1, <2>1, Zenon DEF IInv, TypeOK
  <2>4. CASE \E g \in Signals : SignalKills(g)
    <3>1. phase' \notin Starting \cup {"serving"} /\ listening' = listening
      BY <2>4 DEF SignalKills, Starting
    <3> QED
      BY <3>1, <2>1, Zenon DEF IInv, TypeOK
  <2> QED
    BY <2>2, <2>3, <2>4
<1>4. /\ ~closed
      /\ \A r \in Requests : req[r].stage = "idle" /\ req[r].answer = "none"
  BY <1>1 DEF IInv, StartInv
<1>5. TypeOK'
  BY <1>1, <1>2, <1>3 DEF IInv, TypeOK, Ended
<1>6. StartInv'
  BY <1>1, <1>2, <1>3, <1>4 DEF IInv, StartInv
<1>7. ShutdownInv'
  <2>1. ~closed'
    BY <1>1, <1>4
  <2>2. \A g \in Signals : ~UnderWay(g)'
    BY <1>2 DEF UnderWay
  <2> QED
    BY <1>2, <1>3, <2>1, <2>2, Zenon DEF ShutdownInv, UnderWay
<1>8. EvidenceInv' /\ WiredInv' /\ NobodyIsCutOff' /\ OrderlyExit'
  BY <1>1, <1>4 DEF EvidenceInv, Evident, WiredInv, Wired, NobodyIsCutOff, OrderlyExit, Starting
<1> QED
  BY <1>5, <1>6, <1>7, <1>8 DEF IInv

\* The first signal starts the only shutdown.
LEMMA SignalKeeps ==
    ASSUME IInv, NEW g \in Signals, Signal(g)
    PROVE  IInv'
<1>1. /\ phase = "serving" /\ \A h \in Signals : shutdown[h] = "none"
      /\ shutdown' = [shutdown EXCEPT ![g] = "sentinel"]
      /\ UNCHANGED <<phase, conn, listing, catalog, listening, req, closed, left>>
  BY DEF Signal, ShuttingDown
<1>2. TypeOK' /\ StartInv' /\ OrderlyExit'
  BY <1>1 DEF IInv, TypeOK, StartInv, OrderlyExit, Starting
<1>3. EvidenceInv' /\ WiredInv' /\ NobodyIsCutOff'
  BY <1>1 DEF IInv, EvidenceInv, Evident, WiredInv, Wired, NobodyIsCutOff, Drained, InFlight
<1>4. ShutdownInv'
  <2>1. shutdown'[g] = "sentinel" /\ \A h \in Signals \ {g} : shutdown'[h] = "none"
    BY <1>1 DEF IInv, TypeOK
  <2>2. listening /\ ~closed
    BY <1>1 DEF IInv, ShutdownInv, UnderWay
  <2> QED
    BY <1>1, <2>1, <2>2 DEF ShutdownInv, UnderWay
<1> QED
  BY <1>2, <1>3, <1>4 DEF IInv

\* Each close runs once, in its order: the listener, then the registry when no
\* attached request is left, then the process, when no connection is.
LEMMA ShutdownKeeps ==
    ASSUME IInv, NEW g \in Signals, ShutsDown(g)
    PROVE  IInv'
<1>1. CASE CloseSentinel(g)
  <2>1. /\ phase = "serving" /\ shutdown[g] = "sentinel" /\ listening /\ ~closed
        /\ listening' = FALSE /\ shutdown' = [shutdown EXCEPT ![g] = "http"]
        /\ UNCHANGED <<phase, conn, listing, catalog, closed, left>>
    BY <1>1 DEF CloseSentinel, IInv, ShutdownInv
  <2>2. PICK cut \in SUBSET Requests :
           req' = [r \in Requests |-> IF r \in cut THEN [req[r] EXCEPT !.attached = FALSE] ELSE req[r]]
    BY <1>1 DEF CloseSentinel
  <2>3. ASSUME NEW r \in Requests
        PROVE  /\ req'[r] \in Request /\ (Evident(req[r]) => Evident(req'[r]))
               /\ Wired(req'[r], conn)
    <3>1. req[r] \in Request /\ Wired(req[r], conn)
      BY DEF IInv, TypeOK, WiredInv
    <3> QED
      BY <2>2, <3>1 DEF Evident, Wired, Request
  <2>4. TypeOK'
    <3>1. req' \in [Requests -> Request]
      BY <2>2, <2>3
    <3> QED
      BY <2>1, <3>1 DEF IInv, TypeOK
  <2>5. StartInv' /\ NobodyIsCutOff' /\ OrderlyExit'
    BY <2>1 DEF StartInv, NobodyIsCutOff, OrderlyExit, Starting
  <2>6. EvidenceInv' /\ WiredInv'
    BY <2>1, <2>3 DEF IInv, EvidenceInv, Evident, WiredInv, Wired
  <2>7. ShutdownInv'
    BY <2>1 DEF IInv, TypeOK, ShutdownInv, UnderWay
  <2> QED
    BY <2>4, <2>5, <2>6, <2>7 DEF IInv
<1>2. CASE CloseHttp(g)
  <2>1. phase = "serving" /\ shutdown[g] = "http" /\ ~listening /\ ~closed /\ Drained
    BY <1>2 DEF CloseHttp, IInv, ShutdownInv
  <2>2. /\ closed' = TRUE /\ shutdown' = [shutdown EXCEPT ![g] = "registry"]
        /\ conn' = [s \in Servers |-> IF conn[s] = "open" THEN "closing" ELSE conn[s]]
        /\ UNCHANGED <<phase, listing, catalog, listening, req, left>>
    BY <1>2, <2>1 DEF CloseHttp, CloseRegistry
  <2>3. TypeOK' /\ StartInv' /\ OrderlyExit'
    BY <2>1, <2>2 DEF IInv, TypeOK, StartInv, OrderlyExit, Starting
  <2>4. EvidenceInv' /\ NobodyIsCutOff'
    BY <2>1, <2>2 DEF IInv, EvidenceInv, Evident, NobodyIsCutOff, Drained, InFlight
  <2>6. WiredInv'
    BY <2>2 DEF IInv, WiredInv, Wired
  <2>5. ShutdownInv'
    BY <2>1, <2>2 DEF IInv, TypeOK, ShutdownInv, UnderWay
  <2> QED
    BY <2>3, <2>4, <2>5, <2>6 DEF IInv
<1>3. CASE Exit(g)
  <2>1. /\ phase' = "exited" /\ \A s \in Servers : conn[s] = "none"
        /\ UNCHANGED <<conn, listing, catalog, listening, req, shutdown, closed, left>>
    BY <1>3 DEF Exit
  <2>2. TypeOK' /\ StartInv'
    BY <2>1 DEF IInv, TypeOK, StartInv, Starting, Ended
  <2>3. EvidenceInv' /\ WiredInv' /\ NobodyIsCutOff'
    BY <2>1 DEF IInv, EvidenceInv, Evident, WiredInv, Wired, NobodyIsCutOff, Drained, InFlight
  <2>4. ShutdownInv'
    BY <2>1 DEF IInv, ShutdownInv, UnderWay
  <2>5. OrderlyExit'
    BY <2>1 DEF IInv, WiredInv, Wired, OrderlyExit
  <2> QED
    BY <2>2, <2>3, <2>4, <2>5 DEF IInv
<1> QED
  BY <1>1, <1>2, <1>3 DEF ShutsDown

-----------------------------------------------------------------------------
(* The theorems *)

LEMMA InitIInv == Init => IInv
<1> SUFFICES ASSUME Init PROVE IInv
  OBVIOUS
<1>1. TypeOK
  BY DEF Init, TypeOK, Starting, NoRequest, Request, Methods
<1>2. StartInv /\ ShutdownInv
  BY DEF Init, StartInv, ShutdownInv, UnderWay, NoRequest
<1>3. EvidenceInv /\ WiredInv /\ NobodyIsCutOff /\ OrderlyExit
  BY DEF Init, EvidenceInv, Evident, WiredInv, Wired, NobodyIsCutOff, OrderlyExit, NoRequest
<1> QED
  BY <1>1, <1>2, <1>3 DEF IInv

LEMMA NextIInv == IInv /\ [Next]_vars => IInv'
<1> SUFFICES ASSUME IInv, [Next]_vars PROVE IInv'
  OBVIOUS
<1>1. CASE UNCHANGED vars
  <2>1. UNCHANGED <<phase, conn, listing, catalog, listening, req, shutdown, closed, left>>
    BY <1>1 DEF vars
  <2>2. TypeOK' /\ StartInv' /\ ShutdownInv'
    BY <2>1 DEF IInv, TypeOK, StartInv, ShutdownInv, UnderWay
  <2>3. EvidenceInv' /\ WiredInv' /\ NobodyIsCutOff' /\ OrderlyExit'
    BY <2>1 DEF IInv, EvidenceInv, Evident, WiredInv, Wired, NobodyIsCutOff, Drained, InFlight,
                OrderlyExit
  <2> QED
    BY <2>2, <2>3 DEF IInv
<1>2. CASE Next
  BY <1>2, ConnectionsKeep, RequestsKeep, PostKeeps, StartupKeeps, SignalKeeps, ShutdownKeeps
     DEF Next
<1> QED
  BY <1>1, <1>2

\* The inductive invariant of the process.
THEOREM Inductive == Spec => []IInv
  BY InitIInv, NextIInv, PTL DEF Spec

\* Types of the process's state.
THEOREM TypeCorrect == Spec => []TypeOK
  BY Inductive, PTL DEF IInv

\* The audit record of a call that goes out, or was answered with a result, names
\* the upstream it goes to, whatever connects and disconnects in between.
THEOREM Evidence == Spec => []EvidenceNamesTheTarget
<1>1. IInv => EvidenceNamesTheTarget
  BY DEF IInv, EvidenceInv, Evident, EvidenceNamesTheTarget
<1> QED
  BY <1>1, Inductive, PTL

\* The registry closes only when no agent still waits for its answer.
THEOREM NoCutOff == Spec => []NobodyIsCutOff
  BY Inductive, PTL DEF IInv

\* A process that exits leaves no connection that a client still has and nobody
\* waiting for one, however many signals came.
THEOREM Orderly == Spec => []OrderlyExit
  BY Inductive, PTL DEF IInv
=============================================================================
