------------------------------- MODULE Admission ------------------------------
(***************************************************************************)
(* What happens to a request between its arrival and the first await: the  *)
(* handler (server/handlers.ts) answers its own tools, the router          *)
(* (forward/route.ts) resolves the name, the resource is described to the  *)
(* policy engine (policy-engine: entities.ts, extract.ts) with the verdict *)
(* its definition got from the scanner when the catalog listed it, and the *)
(* engine decides from the bundle the loader accepted.  There is no await on the  *)
(* way, so each request is one step; what the steps interleave with is the *)
(* catalog being refreshed and the registry being closed.                  *)
(*                                                                         *)
(* Cedar is external: a policy matches when all the facts it asks for hold *)
(* of the request and none of those it excludes does, and an evaluation may *)
(* report an error.                                                        *)
(***************************************************************************)
EXTENDS Naming, Headers, Extraction, Scanning, FiniteSets

CONSTANTS
    Configs,       \* server lists an operator may write
    SentinelId,    \* SENTINEL_SERVER_ID
    OwnToolNames,  \* SENTINEL_TOOL_NAMES, without the namespace
    Group,         \* qualified names listed under one toolGroups entry
    Offers,        \* what a refresh may find: sets of tools with their definitions
    AskedNames,    \* names asked for in tools/call and prompts/get
    AskedUris,     \* URIs asked for in resources/read
    Uris, Urls,    \* upstream URIs, and those of them new URL() accepts
    UriShape,      \* what extract.ts can tell of such a URI
    Arguments,     \* the arguments of a tools/call
    PolicyTexts    \* what the .cedar files may hold: sequences of policies

Trusts == {"trusted", "untrusted", "quarantined"}

Offer == [server : Text, tool : Text, definition : Definition]

ASSUME InputsAssumption ==
    /\ Configs \subseteq Seq([id : Text, trust : Trusts, enabled : BOOLEAN])
    /\ AskedNames \subseteq Text
    /\ Urls \subseteq Uris /\ Uris \subseteq Seq(Octets)
    /\ Offers \subseteq SUBSET Offer
    /\ \A offer \in Offers : \A x, y \in offer :   \* refreshServer keeps the first
         x.server = y.server /\ x.tool = y.tool => x = y
    /\ \A texts \in PolicyTexts : DOMAIN texts \subseteq Nat
    /\ \A args \in Arguments : /\ DOMAIN args \subseteq Nat
                               /\ \A i \in DOMAIN args :
                                    /\ args[i].keys \in Seq(STRING)
                                    /\ args[i].kind = "string" =>
                                         args[i].string.segments \in Seq(STRING) \ {<<>>}
    /\ LowerOrDigit \cup Upper \cup {Dash, Underscore} \subseteq (Visible \cap Encodable) \ {ByteOrderMark}
    /\ Octets \subseteq Encodable

VARIABLES
    config,     \* the validated server list
    policies,   \* the policies in the files, in the order they are read
    bundle,     \* PolicyBundle: policies by @id
    closing,    \* registry.close() has been called
    catalog,    \* the index of the tool catalog
    answer      \* what the last step answered a request

vars == <<config, policies, bundle, closing, catalog, answer>>

-----------------------------------------------------------------------------
(* Configuration and catalog *)

ServerIdSchema(id) == IsValidServerId(id) /\ id # SentinelId

\* GatewayConfigSchema: ids well-formed, not reserved and not repeated.
Acceptable(servers) ==
    /\ \A i \in DOMAIN servers : ServerIdSchema(servers[i].id)
    /\ \A i, j \in DOMAIN servers : servers[i].id = servers[j].id => i = j

\* Upstreams the gateway may hold a connection to.
Connectable == {config[i].id : i \in {j \in DOMAIN config : /\ config[j].enabled
                                                           /\ config[j].trust # "quarantined"}}

Dialable == {i \in DOMAIN config : /\ config[i].enabled
                                   /\ config[i].trust # "quarantined"
                                   /\ ~closing}

DialableIds == {config[i].id : i \in Dialable}

TrustOf(id) == IF \E i \in DOMAIN config : config[i].id = id
               THEN config[CHOOSE i \in DOMAIN config : config[i].id = id].trust
               ELSE "untrusted"

\* Defect: the server and the tool change places.
EntrySwapped(id, tool, definition, answered) ==
    [qualified |-> Qualify(id, tool), server |-> tool, tool |-> id,
     definition |-> definition, verdict |-> ScanTool(definition, answered)]

EntryOf(id, tool, definition, answered) ==
    [qualified |-> Qualify(id, tool), server |-> id, tool |-> tool,
     definition |-> definition, verdict |-> ScanTool(definition, answered)]

-----------------------------------------------------------------------------
(* The policy bundle *)

Obligations == {"allow", "review", "approve"}
Rank == [allow |-> 0, review |-> 1, approve |-> 2]

\* What one policy must carry.
WellAnnotated(p) ==
    /\ p.id # "none" /\ p.reason
    /\ IF p.effect = "permit" THEN p.obligation \in Obligations ELSE p.obligation = "none"

\* loadBundle does not throw.  Files without a policy in them are accepted.
Loadable(texts) ==
    /\ \A i \in DOMAIN texts : WellAnnotated(texts[i])
    /\ \A i, j \in DOMAIN texts : texts[i].id = texts[j].id => i = j

LoadBundle(texts) ==
    [id \in {texts[i].id : i \in DOMAIN texts} |->
        texts[CHOOSE i \in DOMAIN texts :
                 texts[i].id = id /\ \A j \in DOMAIN texts : texts[j].id = id => j <= i]]

StrongestObligation(obligations) ==
    CHOOSE o \in obligations : \A other \in obligations : Rank[other] <= Rank[o]

Matches(p, facts) == p.when \subseteq facts /\ p.unless \cap facts = {}

\* PolicyEngine.evaluate, given the facts Cedar sees and whether it errs.
Evaluate(facts, erring) ==
    LET matching == {bundle[id] : id \in {i \in DOMAIN bundle : Matches(bundle[i], facts)}}
        permits == {p \in matching : p.effect = "permit"}
    IN  IF erring \/ permits = {} \/ permits # matching
        THEN "deny"
        ELSE StrongestObligation({p.obligation : p \in permits})

-----------------------------------------------------------------------------
(* What Cedar is told about a request: the action, the resource's entity and *)
(* its server's, and the context.                                            *)

\* The context of a request; that of prompts/get has no features.
Context(method, name, args) ==
    CASE method = "tools/call" -> ExtractToolCallContext(args)
      [] method = "resources/read" -> ExtractResourceReadContext(UriShape[name])
      [] method = "prompts/get" -> {}

Facts(method, qualified, server, verdict, context) ==
    {method, TrustOf(server), verdict} \cup context
      \cup (IF method = "tools/call" /\ qualified \in Group THEN {"grouped"} ELSE {})

-----------------------------------------------------------------------------
(* Requests *)

NoAnswer == [kind |-> "none", method |-> "none", asked |-> <<>>, server |-> <<>>,
             upstream |-> <<>>, args |-> <<>>, obligation |-> "none", able |-> {}]

Answer(kind, method, asked) ==
    [NoAnswer EXCEPT !.kind = kind, !.method = method, !.asked = asked]

Answers(a) == /\ answer' = a
              /\ UNCHANGED <<config, policies, bundle, closing, catalog>>

OwnTools == {Qualify(SentinelId, t) : t \in OwnToolNames}

\* resolveTarget: the catalog for a tool, the name's structure for the others.
Resolve(method, asked) ==
    CASE method = "tools/call" ->
            LET found == {e \in catalog : e.qualified = asked}
                e == CHOOSE x \in found : TRUE
            IN  IF found = {} THEN Unknown ELSE [server |-> e.server, name |-> e.tool]
      [] method = "prompts/get" -> ParseQualifiedName(asked)
      [] method = "resources/read" -> ParseQualifiedResourceUri(asked)

VerdictOf(method, asked) ==
    IF method = "tools/call"
    THEN (CHOOSE e \in catalog : e.qualified = asked).verdict
    ELSE "clean"

\* requireDialable
Routable(target) == target # Unknown /\ target.server \in DialableIds

Own(asked) == asked \in OwnTools /\ Answers(Answer("own", "tools/call", asked))

\* resources/read and prompts/get exist while an upstream is ready that has any
\* (able), as the snapshots say that are taken when the request's Server is built.
Registered(method, able) == method = "tools/call" \/ able # {}

RefuseMethod(method, asked, able) ==
    /\ ~Registered(method, able)
    /\ Answers([Answer("no_method", method, asked) EXCEPT !.able = able])

\* measure, or the bound on URIs: refused before the name is looked up.
RefuseTooLarge(method, asked) ==
    /\ ~(method = "tools/call" /\ asked \in OwnTools)
    /\ Answers(Answer("too_large", method, asked))

RefuseUnknown(method, asked) ==
    /\ ~(method = "tools/call" /\ asked \in OwnTools)
    /\ ~Routable(Resolve(method, asked))
    /\ Answers(Answer("unknown", method, asked))

\* The check of the outbound metadata, once the name is rewritten.
RefuseMismatch(method, asked) ==
    LET target == Resolve(method, asked)
    IN  /\ ~(method = "tools/call" /\ asked \in OwnTools)
        /\ Routable(target) /\ ~HeaderMatchesBody(target.name)
        /\ Answers(Answer("mismatch", method, asked))

\* resources/read describes its target with new URL(...), which may throw.
FailOnUri(method, asked) ==
    LET target == Resolve(method, asked)
    IN  /\ method = "resources/read"
        /\ Routable(target) /\ HeaderMatchesBody(target.name)
        /\ target.name \notin Urls
        /\ Answers(Answer("failed", method, asked))

Decide(method, asked, args) ==
    LET target == Resolve(method, asked)
    IN  /\ ~(method = "tools/call" /\ asked \in OwnTools)
        /\ Routable(target) /\ HeaderMatchesBody(target.name)
        /\ method = "resources/read" => target.name \in Urls
        /\ \E erring \in BOOLEAN :
             LET context == Context(method, target.name, args)
                 facts == Facts(method, asked, target.server, VerdictOf(method, asked), context)
                 decision == Evaluate(facts, erring)
             IN  IF decision = "deny"
                 THEN Answers(Answer("denied", method, asked))
                 ELSE Answers([kind |-> "admitted", method |-> method, asked |-> asked,
                               server |-> target.server, upstream |-> target.name,
                               args |-> args, obligation |-> decision, able |-> {}])

\* A catalog refresh has finished: it lists what dialable servers offered.  How
\* a refresh runs, fails and overlaps other steps is ToolCatalog's subject.  The
\* classifier answers for all the texts or, when it is down, for none.
Refresh ==
    \E offer \in Offers, answered \in {{}, ScannedTexts} :
      /\ catalog' = {EntryOf(o.server, o.tool, o.definition, answered) :
                        o \in {x \in offer : x.server \in DialableIds /\ IsValidToolName(x.tool)}}
      /\ answer' = NoAnswer
      /\ UNCHANGED <<config, policies, bundle, closing>>

CloseRegistry ==
    /\ ~closing
    /\ closing' = TRUE
    /\ answer' = NoAnswer
    /\ UNCHANGED <<config, policies, bundle, catalog>>

-----------------------------------------------------------------------------

Init ==
    /\ config \in {c \in Configs : Acceptable(c)}
    /\ policies \in {texts \in PolicyTexts : Loadable(texts)}
    /\ bundle = LoadBundle(policies)
    /\ closing = FALSE
    /\ catalog = {}
    /\ answer = NoAnswer

\* Only tools/call has arguments a policy sees.
Inputs(method) == IF method = "tools/call" THEN Arguments ELSE {<<>>}

\* Which upstreams are ready is theirs to say; the Server may have been built
\* before the registry was closed.
Handle(method, asked) ==
    \/ \E able \in SUBSET Connectable : RefuseMethod(method, asked, able)
    \/ /\ {able \in SUBSET Connectable : Registered(method, able)} # {}
       /\ \/ RefuseTooLarge(method, asked)
          \/ RefuseUnknown(method, asked)
          \/ RefuseMismatch(method, asked)
          \/ FailOnUri(method, asked)
          \/ \E args \in Inputs(method) : Decide(method, asked, args)

Next ==
    \/ Refresh \/ CloseRegistry
    \/ \E asked \in AskedNames : \/ Own(asked)
                                 \/ Handle("tools/call", asked)
                                 \/ Handle("prompts/get", asked)
    \/ \E asked \in AskedUris : Handle("resources/read", asked)

Spec == Init /\ [][Next]_vars

-----------------------------------------------------------------------------
(* Properties *)

\* Every value the code keeps has its type; the catalog speaks of configured
\* servers only.
TypeOK ==
    /\ config \in Configs /\ Acceptable(config)
    /\ policies \in PolicyTexts /\ Loadable(policies)
    /\ bundle = LoadBundle(policies)
    /\ closing \in BOOLEAN
    /\ \A e \in catalog : /\ e.server \in {config[i].id : i \in DOMAIN config}
                         /\ e.tool \in Text /\ IsValidToolName(e.tool)
                         /\ e.qualified = Qualify(e.server, e.tool)
                         /\ e.verdict \in ScanVerdicts
    /\ answer.kind \in {"none", "own", "no_method", "too_large", "unknown", "mismatch",
                        "failed", "denied", "admitted"}
    /\ answer.able \subseteq Connectable
    /\ answer.obligation \in Obligations \cup {"none"}

Requalified(method, server, name) ==
    IF method = "resources/read" THEN QualifyResourceUri(server, name) ELSE Qualify(server, name)

\* A request that is admitted goes where its name says and nowhere else: the
\* server is one that may be called now, the name the upstream gets, qualified
\* again, is the one the agent wrote, and no other configured server has a tool
\* or prompt of that name.  Aliases, names split in the wrong place and servers
\* that left since the last refresh would all show here.
ForwardsWhatWasNamed ==
    answer.kind = "admitted" =>
      /\ answer.server \in DialableIds
      /\ answer.asked = Requalified(answer.method, answer.server, answer.upstream)
      /\ answer.method # "resources/read" =>
           \A i \in DOMAIN config : \A name \in {o.tool : o \in UNION Offers} :
              IsValidToolName(name) /\ Qualify(config[i].id, name) = answer.asked
                => config[i].id = answer.server /\ name = answer.upstream

\* Whatever the gateway advertises or a client may build by its rules is found
\* and can be forwarded: no tool in the catalog, and no prompt or resource of a
\* server that may be called, is refused as unknown, or because its name does not
\* survive the way through a header; and as long as its own server is ready and
\* has any, its method is not turned away as unknown either.  While no upstream
\* is ready that has any, every prompt or resource is turned away.  A URI that
\* starts with a byte order mark is no name a client can use.
NamesAreReachable ==
    answer.kind \in {"unknown", "mismatch", "no_method"} =>
      \A id \in IF answer.kind = "no_method" THEN answer.able ELSE DialableIds :
        CASE answer.method = "tools/call" ->
                \A e \in catalog : e.server = id => answer.asked # Qualify(id, e.tool)
          [] answer.method = "prompts/get" ->
                \A name \in {o.tool : o \in UNION Offers} :
                   IsValidToolName(name) => answer.asked # Qualify(id, name)
          [] answer.method = "resources/read" ->
                \A uri \in Uris \ {<<>>} :
                   uri[1] # ByteOrderMark => answer.asked # QualifyResourceUri(id, uri)

\* What may be said of the content of a request that was admitted.
WarrantedContexts ==
    CASE answer.method = "tools/call" -> Warranted(answer.args)
      [] answer.method = "resources/read" -> {ExtractResourceReadContext(UriShape[answer.upstream])}
      [] answer.method = "prompts/get" -> {{}}

\* Against the files the operator wrote, the server and tool the request really
\* goes to, and what the strings of its arguments warrant one by one: what is
\* admitted matches no forbid, matches a permit, and is held to the strictest
\* obligation among the permits it matches; and the verdict that counted is one
\* the tool's definition earns, whether the classifier answered or not.  A policy
\* lost by the loader, a decision taken about another resource, a group or a trust
\* looked up wrongly, a weaker obligation, and a path, URL, mark or credential
\* that another string hides or that is missed at the last level would all show
\* here.  Of several SQL strings one is judged, and this says no more than that;
\* what becomes of the others is MultipleStatementsAreNotAllowed.
PolicyIsConservative ==
    answer.kind = "admitted" =>
      LET listed == {e \in catalog : e.server = answer.server /\ e.tool = answer.upstream}
          known == {answer.method}
                     \cup {config[i].trust : i \in {j \in DOMAIN config : config[j].id = answer.server}}
                     \cup (IF answer.method = "tools/call"
                           THEN {e.verdict : e \in listed}
                                  \cup (IF Qualify(answer.server, answer.upstream) \in Group
                                        THEN {"grouped"} ELSE {})
                           ELSE {"clean"})
      IN  /\ \A e \in listed : EarnedByTool(e.definition, e.verdict)
          /\ \E context \in WarrantedContexts :
               LET matching == {i \in DOMAIN policies : Matches(policies[i], known \cup context)}
               IN  /\ matching # {}
                   /\ \A i \in matching :
                        /\ policies[i].effect = "permit"
                        /\ Rank[policies[i].obligation] <= Rank[answer.obligation]

\* policies/30-database.cedar, on a call of a tool of the database group with
\* several statements in it: "it is never silently allowed".  The code reads the
\* first string that looks like SQL and no other.
MultipleStatementsAreNotAllowed ==
    /\ answer.kind = "admitted" /\ answer.method = "tools/call" /\ answer.asked \in Group
    /\ \E s \in Strings(answer.args) : s.verb \in SqlVerbs /\ s.more
    => answer.obligation # "allow"
=============================================================================
