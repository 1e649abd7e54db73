--------------------------- MODULE GatewayLifecycle ---------------------------
(***************************************************************************)
(* The gateway process from start to exit: main.ts, with the registry's    *)
(* warm-up and close (upstream/registry.ts), the first and only catalog    *)
(* refresh, the HTTP listener (server/http.ts), the handlers still at work *)
(* while the process goes down (server/handlers.ts) and the agents and     *)
(* upstreams that come and go meanwhile.                                   *)
(*                                                                         *)
(* UpstreamClient has the details of one connection and RequestPipeline    *)
(* those of one request; here a connection is dialled, open, being closed, *)
(* dropped by its client while still open, or not there, and a request is  *)
(* read, assessed and forwarded.  Every server lists one tool and may have *)
(* resources.  A step is what the event loop runs from one await to the    *)
(* next.                                                                   *)
(***************************************************************************)
EXTENDS Naturals

CONSTANTS
    Servers,           \* the dialable servers of the configuration
    ResourceServers,   \* those whose handshake declares resources
    Requests,          \* POSTs the gateway may be working on at a time
    Signals            \* arrivals of SIGTERM or SIGINT

ASSUME ResourcesAssumption == ResourceServers \subseteq Servers

Nobody == "nobody"
ASSUME NobodyAssumption == Nobody \notin Servers

VARIABLES
    phase,      \* where main() is, or how the process ended
    conn,       \* the connection of each server
    listing,    \* each server's part of the initial refresh
    catalog,    \* servers whose tool is in the catalog
    listening,  \* the HTTP server accepts connections
    req,        \* the request each handler works on
    shutdown,   \* where the shutdown each signal asked for is
    closed,     \* registry.close() has begun
    left        \* servers with a connection the client dropped and did not close

vars == <<phase, conn, listing, catalog, listening, req, shutdown, closed, left>>

-----------------------------------------------------------------------------
(* Data *)

Starting == {"refreshing", "opening", "binding"}
Ended == {"exited", "failed", "killed"}
Running == phase \notin Ended

Methods == {"tools/call", "resources/read"}

\* server: the one the name or URI belongs to; attached: the agent still waits on
\* its HTTP connection; recorded: the server the audit record names, "none"
\* before there is a record, Nobody when it names no server.
Request == [stage : {"idle", "reading", "assessing", "waiting", "running",
                     "stranded", "done"},
            method : Methods, server : Servers \cup {Nobody}, attached : BOOLEAN,
            recorded : Servers \cup {"none", Nobody},
            answer : {"none", "result", "unknown", "no_method", "unavailable", "refused"}]

NoRequest == [stage |-> "idle", method |-> "tools/call", server |-> Nobody,
              attached |-> FALSE, recorded |-> "none", answer |-> "none"]

InFlight(r) == req[r].stage \notin {"idle", "done"}
Done(q, what) == [q EXCEPT !.stage = "done", !.attached = FALSE, !.answer = what]

\* Calls that joined the dial of s, or are on the wire to it.
CallsOf(s, stages) == {r \in Requests : req[r].server = s /\ req[r].stage \in stages}

\* Those calls are told that the upstream is not available.
CallsFail(s, stages) ==
    req' = [r \in Requests |->
              IF r \in CallsOf(s, stages) THEN Done(req[r], "unavailable") ELSE req[r]]

\* So is the listing of s, if it is still out.
ListingFails(s) ==
    listing' = IF listing[s] = "pending" THEN [listing EXCEPT ![s] = "failed"] ELSE listing

-----------------------------------------------------------------------------
(* Connections *)

\* The handshake succeeds; whoever waits for it goes on.  A registry that was
\* closed meanwhile closes the connection instead.
Connect(s) ==
    /\ Running /\ conn[s] = "dialling"
    /\ conn' = [conn EXCEPT ![s] = IF closed THEN "closing" ELSE "open"]
    /\ req' = [r \in Requests |->
                 IF ~closed /\ r \in CallsOf(s, {"waiting"})
                 THEN [req[r] EXCEPT !.stage = "running"] ELSE req[r]]
    /\ UNCHANGED <<phase, listing, catalog, listening, shutdown, closed, left>>

\* Defect: the listing is not told that the dial it joined has failed.
DialFailsSilently(s) ==
    /\ Running /\ conn[s] = "dialling"
    /\ conn' = [conn EXCEPT ![s] = "none"]
    /\ CallsFail(s, {"waiting"})
    /\ UNCHANGED <<phase, listing, catalog, listening, shutdown, closed, left>>

DialFails(s) ==
    /\ Running /\ conn[s] = "dialling"
    /\ conn' = [conn EXCEPT ![s] = "none"]
    /\ CallsFail(s, {"waiting"})
    /\ ListingFails(s)
    /\ UNCHANGED <<phase, catalog, listening, shutdown, closed, left>>

\* Defect: a server that disconnects takes its tools out of the catalog.
DisconnectEvicts(s) ==
    /\ Running /\ conn[s] = "open"
    /\ conn' = [conn EXCEPT ![s] = "none"]
    /\ CallsFail(s, {"running"})
    /\ ListingFails(s)
    /\ catalog' = catalog \ {s}
    /\ UNCHANGED <<phase, listening, shutdown, closed, left>>

\* The connection closes by itself.  The catalog keeps its tools, nobody dials
\* again.
Disconnect(s) ==
    /\ Running /\ conn[s] = "open"
    /\ conn' = [conn EXCEPT ![s] = "none"]
    /\ CallsFail(s, {"running"})
    /\ ListingFails(s)
    /\ UNCHANGED <<phase, catalog, listening, shutdown, closed, left>>

\* The listing or some calls cannot be sent.  The client forgets the connection
\* and does not close it: its other calls are left to what still comes over it,
\* or to their timers, and close() will not find it.
SendFails(s) ==
    /\ Running /\ conn[s] = "open"
    /\ conn' = [conn EXCEPT ![s] = "none"]
    /\ left' = left \cup {s}
    /\ \E unsent \in SUBSET CallsOf(s, {"running"}) :
         /\ unsent # {} \/ listing[s] = "pending"
         /\ req' = [r \in Requests |->
                      IF r \in unsent THEN Done(req[r], "unavailable")
                      ELSE IF r \in CallsOf(s, {"running"}) THEN [req[r] EXCEPT !.stage = "stranded"]
                      ELSE req[r]]
    /\ ListingFails(s)
    /\ UNCHANGED <<phase, catalog, listening, shutdown, closed>>

\* What was dropped closes by itself after all; the client no longer listens.
LeftCloses(s) ==
    /\ Running /\ s \in left
    /\ left' = left \ {s}
    /\ CallsFail(s, {"stranded"})
    /\ UNCHANGED <<phase, conn, listing, catalog, listening, shutdown, closed>>

\* client.close() settles; what was on the wire or waiting is rejected.
ConnectionCloses(s) ==
    /\ Running /\ conn[s] = "closing"
    /\ conn' = [conn EXCEPT ![s] = "none"]
    /\ CallsFail(s, {"waiting", "running"})
    /\ UNCHANGED <<phase, listing, catalog, listening, shutdown, closed, left>>

-----------------------------------------------------------------------------
(* Startup.  Warm-up and refresh start together, so every listing joins the *)
(* dial of the warm-up; main() awaits the refresh.                          *)

ListingReturns(s) ==
    /\ Running /\ conn[s] = "open" /\ listing[s] = "pending"
    /\ \E outcome \in {"listed", "failed"} : listing' = [listing EXCEPT ![s] = outcome]
    /\ UNCHANGED <<phase, conn, catalog, listening, req, shutdown, closed, left>>

\* refresh() resolves, also when no server could be listed.
FinishRefresh ==
    /\ phase = "refreshing"
    /\ \A s \in Servers : listing[s] # "pending"
    /\ catalog' = {s \in Servers : listing[s] = "listed"}
    /\ phase' = "opening"
    /\ UNCHANGED <<conn, listing, listening, req, shutdown, closed, left>>

\* new AuditStore, new ApprovalStore; what they throw ends the process.
OpenStores ==
    /\ phase = "opening"
    /\ phase' \in {"binding", "failed"}
    /\ UNCHANGED <<conn, listing, catalog, listening, req, shutdown, closed, left>>

\* startHttpServer resolves once bound, rejects when it cannot bind.
Listen ==
    /\ phase = "binding"
    /\ \/ phase' = "serving" /\ listening' = TRUE
       \/ phase' = "failed" /\ UNCHANGED listening
    /\ UNCHANGED <<conn, listing, catalog, req, shutdown, closed, left>>

-----------------------------------------------------------------------------
(* Requests *)

\* The agent sends a request, and need not be done with it when it hangs up.
Post(r) ==
    /\ Running /\ listening /\ ~InFlight(r)
    /\ \E method \in Methods, server \in Servers :
         req' = [req EXCEPT ![r] = [stage |-> "reading", method |-> method, server |-> server,
                                    attached |-> TRUE, recorded |-> "none", answer |-> "none"]]
    /\ UNCHANGED <<phase, conn, listing, catalog, listening, shutdown, closed, left>>

HangUp(r) ==
    /\ Running /\ InFlight(r) /\ req[r].attached
    /\ req' = [req EXCEPT ![r].attached = FALSE]
    /\ UNCHANGED <<phase, conn, listing, catalog, listening, shutdown, closed, left>>

Answers(r, what) ==
    /\ req' = [req EXCEPT ![r] = Done(@, what)]
    /\ UNCHANGED <<phase, conn, listing, catalog, listening, shutdown, closed, left>>

\* buildServer: tools/call always, resources/read while a ready upstream has any.
Registered(method) ==
    method = "tools/call" \/ \E s \in ResourceServers : conn[s] = "open"

\* resolveTarget and requireDialable: the catalog for a tool, the URI otherwise.
Routable(method, server) ==
    ~closed /\ (method = "tools/call" => server \in catalog)

SentinelClosed == \E g \in Signals : shutdown[g] \in {"http", "registry"}

\* The body is there: the per-request Server is built and the handler runs up to
\* the await of the risk assessment.  A closed SDK handler may refuse instead.
Handle(r) ==
    /\ Running /\ req[r].stage = "reading"
    /\ \/ SentinelClosed /\ Answers(r, "refused")
       \/ ~Registered(req[r].method) /\ Answers(r, "no_method")
       \/ /\ Registered(req[r].method) /\ ~Routable(req[r].method, req[r].server)
          /\ Answers(r, "unknown")
       \/ /\ Registered(req[r].method) /\ Routable(req[r].method, req[r].server)
          /\ req' = [req EXCEPT ![r].stage = "assessing"]
          /\ UNCHANGED <<phase, conn, listing, catalog, listening, shutdown, closed, left>>

\* The assessment denies or defers the request, or its record cannot be written.
NotForwarded(r) ==
    /\ Running /\ req[r].stage = "assessing"
    /\ Answers(r, "refused")

\* Defect: the record takes what the catalog says, also when it says nothing.
NamedByCatalogOnly(q) == IF q.server \in catalog THEN q.server ELSE "undefined"

\* The server the allow record names: the catalog is read again for a tool.
NamedInRecord(q) ==
    IF q.method = "tools/call" /\ q.server \notin catalog THEN Nobody ELSE q.server

\* The allow record is appended and forward() called, which takes the request to
\* UpstreamClient.ensureReady without an await.
Forward(r) ==
    LET s == req[r].server
        recorded == [req[r] EXCEPT !.recorded = NamedInRecord(req[r])]
    IN  /\ Running /\ req[r].stage = "assessing"
        /\ \/ /\ ~closed /\ conn[s] = "open"
              /\ req' = [req EXCEPT ![r] = [recorded EXCEPT !.stage = "running"]]
              /\ UNCHANGED conn
           \/ /\ ~closed /\ conn[s] \in {"none", "dialling"}
              /\ req' = [req EXCEPT ![r] = [recorded EXCEPT !.stage = "waiting"]]
              /\ conn' = [conn EXCEPT ![s] = "dialling"]
           \/ /\ closed \/ conn[s] = "none"      \* shutting down; failing fast
              /\ req' = [req EXCEPT ![r] = Done(recorded, "unavailable")]
              /\ UNCHANGED conn
        /\ UNCHANGED <<phase, listing, catalog, listening, shutdown, closed, left>>

\* The upstream answers, and the result scan lets it pass or not; or it reports
\* an error, lacks the capability or takes too long.
Return(r) ==
    /\ Running /\ req[r].stage \in {"running", "stranded"}
    /\ Answers(r, "result") \/ Answers(r, "unavailable")

-----------------------------------------------------------------------------
(* Shutdown *)

ShuttingDown == \E g \in Signals : shutdown[g] # "none"

\* Until main() has installed its handlers a signal ends the process.
SignalKills(g) ==
    /\ phase \in Starting /\ shutdown[g] = "none"
    /\ phase' = "killed"
    /\ UNCHANGED <<conn, listing, catalog, listening, req, shutdown, closed, left>>

\* Defect: shutdownInProgress is not looked at.
SignalAgain(g) ==
    /\ phase = "serving" /\ shutdown[g] = "none"
    /\ shutdown' = [shutdown EXCEPT ![g] = "sentinel"]
    /\ UNCHANGED <<phase, conn, listing, catalog, listening, req, closed, left>>

\* The first signal starts the shutdown, later ones do nothing.
Signal(g) ==
    /\ phase = "serving" /\ ~ShuttingDown
    /\ shutdown' = [shutdown EXCEPT ![g] = "sentinel"]
    /\ UNCHANGED <<phase, conn, listing, catalog, listening, req, closed, left>>

\* registry.close(): every client is told; the second time it returns at once
\* and the rest of the shutdown runs.
CloseRegistry(g) ==
    IF closed
    THEN /\ phase' = "exited"
         /\ UNCHANGED <<conn, shutdown, closed, left>>
    ELSE /\ closed' = TRUE
         /\ conn' = [s \in Servers |-> IF conn[s] = "open" THEN "closing" ELSE conn[s]]
         /\ shutdown' = [shutdown EXCEPT ![g] = "registry"]
         /\ UNCHANGED phase

\* sentinel.close() settles either way; it may have cut streams, whose handlers
\* go on.  bound.close() then stops listening and, when it was not listening any
\* more, rejects.
CloseSentinel(g) ==
    /\ phase = "serving" /\ shutdown[g] = "sentinel"
    /\ \E cut \in SUBSET {r \in Requests : InFlight(r) /\ req[r].attached} :
         req' = [r \in Requests |-> IF r \in cut THEN [req[r] EXCEPT !.attached = FALSE] ELSE req[r]]
    /\ IF listening
       THEN /\ listening' = FALSE
            /\ shutdown' = [shutdown EXCEPT ![g] = "http"]
            /\ UNCHANGED <<phase, conn, closed>>
       ELSE CloseRegistry(g) /\ UNCHANGED listening
    /\ UNCHANGED <<listing, catalog, left>>

\* Defect: the HTTP server's close is not awaited.
CloseHttpAtOnce(g) ==
    /\ phase = "serving" /\ shutdown[g] = "http"
    /\ CloseRegistry(g)
    /\ UNCHANGED <<listing, catalog, listening, req, left>>

Drained == \A r \in Requests : InFlight(r) => ~req[r].attached

\* server.close() calls back when no connection has a request on it.
CloseHttp(g) ==
    /\ phase = "serving" /\ shutdown[g] = "http" /\ Drained
    /\ CloseRegistry(g)
    /\ UNCHANGED <<listing, catalog, listening, req, left>>

\* Every client has closed: the audit store is closed and the process exits.
Exit(g) ==
    /\ phase = "serving" /\ shutdown[g] = "registry"
    /\ \A s \in Servers : conn[s] = "none"
    /\ phase' = "exited"
    /\ UNCHANGED <<conn, listing, catalog, listening, req, shutdown, closed, left>>

-----------------------------------------------------------------------------

Init ==
    /\ phase = "refreshing"
    /\ conn = [s \in Servers |-> "dialling"]
    /\ listing = [s \in Servers |-> "pending"]
    /\ catalog = {}
    /\ listening = FALSE
    /\ req = [r \in Requests |-> NoRequest]
    /\ shutdown = [g \in Signals |-> "none"]
    /\ closed = FALSE
    /\ left = {}

ConnectionSettles(s) == Connect(s) \/ DialFails(s) \/ ConnectionCloses(s)
ListingSettles(s) == ListingReturns(s) \/ (listing[s] = "pending" /\ Disconnect(s))
Works(r) == Handle(r) \/ NotForwarded(r) \/ Forward(r) \/ Return(r)
ShutsDown(g) == CloseSentinel(g) \/ CloseHttp(g) \/ Exit(g)

Next ==
    \/ \E s \in Servers : \/ ConnectionSettles(s) \/ ListingReturns(s)
                         \/ Disconnect(s) \/ SendFails(s) \/ LeftCloses(s)
    \/ FinishRefresh \/ OpenStores \/ Listen
    \/ \E r \in Requests : Post(r) \/ HangUp(r) \/ Works(r)
    \/ \E g \in Signals : SignalKills(g) \/ Signal(g) \/ ShutsDown(g)

\* Handshakes, listings, requests and the body of a POST have timers, closes
\* settle, and the loop runs every continuation.  No agent has to hang up, no
\* upstream to answer, and nobody has to send a signal.
Fairness ==
    /\ \A s \in Servers : WF_vars(ConnectionSettles(s)) /\ WF_vars(ListingSettles(s))
    /\ WF_vars(FinishRefresh) /\ WF_vars(OpenStores) /\ WF_vars(Listen)
    /\ \A r \in Requests : WF_vars(Works(r))
    /\ \A g \in Signals : WF_vars(ShutsDown(g))

Spec == Init /\ [][Next]_vars /\ Fairness

-----------------------------------------------------------------------------
(* Properties *)

TypeOK ==
    /\ phase \in Starting \cup {"serving"} \cup Ended
    /\ conn \in [Servers -> {"none", "dialling", "open", "closing"}]
    /\ listing \in [Servers -> {"pending", "listed", "failed"}]
    /\ catalog \in SUBSET Servers
    /\ listening \in BOOLEAN
    /\ req \in [Requests -> Request]
    /\ shutdown \in [Signals -> {"none", "sentinel", "http", "registry"}]
    /\ closed \in BOOLEAN
    /\ left \in SUBSET Servers

\* The audit record of a call that goes out names an upstream, the one the call
\* goes to.  The route is taken before the risk assessment is awaited and the
\* record reads the catalog again after it (handlers.ts:402); a server that
\* disconnects or fails in between must not leave a record that names nobody.
EvidenceNamesTheTarget ==
    \A r \in Requests :
        req[r].stage \in {"waiting", "running", "stranded"} \/ req[r].answer = "result"
            => req[r].recorded = req[r].server

\* The orderly shutdown waits for the agents: once the upstream connections are
\* being closed, every agent that is still connected has been answered (main.ts,
\* the order of the closes).  Streams that sentinel.close() itself cut before
\* that are no longer connected and are not spoken of.
NobodyIsCutOff == closed => Drained

\* Exit status 0 means that the registry's connections were all closed: whatever
\* was being dialled, called or closed when the signals came, and however many
\* came, no client holds, dials or closes a connection any more, and nobody still
\* waits for one of them (main.ts, shutdownInProgress).  A connection that was
\* dropped by a failed send is not among them and may be open (left).
OrderlyExit == phase = "exited" =>
    /\ \A s \in Servers : conn[s] = "none"
    /\ \A r \in Requests : req[r].stage \notin {"waiting", "running"}

\* Startup does not hang on upstreams that are down, and a shutdown that was
\* asked for ends the process, whoever is in the middle of what and whichever of
\* the closes fails.
StartsAndStops ==
    /\ phase = "refreshing" ~> phase \in {"serving"} \cup Ended
    /\ ShuttingDown ~> phase = "exited"

-----------------------------------------------------------------------------
(* What the comments say and the code does not do *)

\* main.ts:105-106 "a failed upstream is reflected in its health state and will
\* be retried on the first call to it": no tool call is turned away as unknown
\* while the server it names could not be listed at startup, has no connection
\* and is not being dialled.
FailedUpstreamIsRetried ==
    [][\A r \in Requests :
         /\ req[r].stage = "reading" /\ req'[r].stage = "done" /\ req'[r].answer = "unknown"
         /\ req[r].method = "tools/call" /\ listing[req[r].server] = "failed" /\ ~closed
         => conn[req[r].server] # "none"]_vars
===============================================================================
