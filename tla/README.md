# MCP Sentinel in TLA+

MCP Sentinel is a gateway between MCP agents and the MCP servers ("upstreams")
they use. It advertises the upstreams' tools under qualified names, decides about
every call (policy, risk score, human approval), records the decision in a
hash-chained audit log, forwards what is allowed and scans what comes back.

This directory holds TLA+ models of the parts of the gateway in which order,
failure and concurrency matter, the TLC configurations that check them, and
theorems proved with TLAPS. Paths below are relative to `src/`.

- [1 The system](#1-the-system)
- [2 The modules and the code](#2-the-modules-and-the-code)
- [3 Runs and bounds](#3-runs-and-bounds)
- [4 Fairness](#4-fairness)
- [5 Proofs](#5-proofs)
- [6 Divergences](#6-where-the-documents-and-the-code-differ)
- [7 What is not modelled](#7-what-is-not-modelled)
- [8 Plan](#8-plan)

To run one model and one proof:

    tlc -workers 2 -config Client.cfg MCUpstreamClient
    tlapm ApprovalsProofs.tla

`PROJECT.json` lists the components, the runs with their properties, one mutated
definition per property that makes the run fail, the source lines behind every
definition, the hazards and the theorems.

## 1 The system

The gateway is one Node.js process. JavaScript runs to completion between two
`await`s, so nothing is preempted; everything that is hard comes from what may
happen *at* an await, from callbacks of old connections, from durable writes the
process may not survive to follow up, and from the world outside: upstreams, an
LLM provider, people following links.

### Components

| Component | State | Operations | What makes it correct |
|---|---|---|---|
| Request handlers (`server/handlers.ts`) | one async function per request; durable writes go to audit and approvals | `tools/call`, `resources/read`, `prompts/get`, `tasks/cancel` | nothing reaches an upstream without a recorded allow; one verdict per request; a deferred call is held; a tool's content is screened |
| Approvals (`packages/approvals`, links in `server/http.ts`) | SQLite table of rows; signed tokens carry their own authority | `create`, `updateState`, `/approve/:id`, `/deny/:id`, `approve_request` | only a fresh token for that row and action approves; the first decision stands; no self-approval |
| Risk engine (`packages/risk-engine`) | none | `evaluate` (heuristic, LLM race), `escalateObligation` | escalation only raises; an outage is never cheaper than a score |
| Upstream client (`upstream/client.ts`, `backoff.ts`) | generation, SDK client, health, failure count, fail-fast deadline, the dial in flight | `ensureReady`, `call`, `reset`, `close`, `onclose` callback | one dial at a time, only the newest connection in use, late events ignored, callers always answered, shutdown final |
| Upstream registry (`upstream/registry.ts`) | map of clients, closing flag | `warmUp`, `dialable`, `reset`, `close` | closing is seen by all readers of `dialable` |
| Tool catalog (`catalog/catalog.ts`) | per server: entries and baseline digests; a flattened index; the refresh in flight | `refresh`, lookups | no rug pull, index sound, caps fair to earlier servers, a refresh ends |
| Audit trail (`packages/audit`) | append-only SQLite table, cached chain head | `append`, `readRange`, `verifyChain`, `query` | undamaged logs verify, damage is named, committed rows stay, paging is seamless |
| Router and names (`forward/route.ts`, `mcp-core/naming.ts`, `headers.ts`) | none | `resolveTarget`, `requireDialable`, qualify and parse, the check of header against body | a request goes where its name says; no aliases; what is advertised can be called, header included |
| Policy engine (`packages/policy-engine`) | the loaded bundle | `loadBundle`, `extractToolCallContext`, `evaluate` | no policy lost; no alarm, escape or credential in one argument hidden by another (a statement may be, section 6); deny wins, strictest obligation wins |
| Configuration (`config/schema.ts`) | none | validation | ids well-formed, unique, not reserved |
| Scanner, result scanner (`packages/scanner`) | none | `scanTool`, `scanResult` | called where it must be, its verdict earned by the text and obeyed, with and without the classifier |
| HTTP server (`server/http.ts`) | sockets | routes, close | closes when nobody waits for an answer |
| Lifecycle (`main.ts`) | phase, what was built, shutdown flag | start, signals, shutdown | start does not hang on upstreams; the registry does not close over an agent that still waits; at exit no client has a connection and nobody waits for one (what a failed send dropped may still be open, section 6) |
| Logging, scripts | | | not modelled (section 7) |

### How they interact

    agent -> http -> handlers -> route + naming + catalog        (no await)
                              -> policy engine                   (no await)
                              -> risk engine                     (await: LLM or timeout)
                              -> escalate -> audit.append        (synchronous, durable)
                                 - deferred: approvals.create, sign, notify, answer a task id
                                 - allowed:  upstream client     (await: connection, reply)
                              -> result scanner                  (await: classifier)
    operator -> http links -> approvals.updateState
    catalog.refresh -> registry.dialable -> each client.listTools -> scanner

### What is hard here

*Interleavings.* Requests, refreshes, resets, closes and the timers of several
connections meet at every await. *Late callbacks.* A connection's `onclose`, or a
call that fails on it, may come after the connection was replaced. *Partial
failure.* An audit append, an approval insert, one server's listing or one
handshake may fail with its siblings succeeding. *Crashes* between the record, the
row, the tokens and the dispatch. *Time*: fail-fast windows, token expiry, the LLM
race. *Caps and boundaries*: catalog caps, page limits, separators in names. Each
is listed at its line under `hazards` in `PROJECT.json`, with the properties that
would show it going wrong.

## 2 The modules and the code

In every module the variables are the fields the code keeps (and, where a
property speaks of the past, a history variable that says so), an action is one
uninterrupted stretch of code or one external event, and a definition carries the
name it has in the source. Definitions introduced by a comment `Defect:` are never
used by a specification: each is the mutated form of the definition next to it.

### `RequestPipeline` and `Mediation`

`Mediation` is the promise, in four actions: a verdict is recorded once
(`RecordAllow`, `RecordPending`), an upstream is called only under a recorded
allow and once (`Dispatch`), a deferred request gets at most one ruling (`Rule`).

`RequestPipeline` is `server/handlers.ts` with `forwarder.ts`, the risk engine and
the result scan. `pc[r]` says at which await request `r` stands:

| `pc[r]` | the handler is at | leaves it by |
|---|---|---|
| `unsent` | not arrived | `Refuse` (router), `Deny` (policy), `Admit` |
| `risk` | `await riskEngine.evaluate` | `Undigestible`, `AuditFails`, `Allow`, `Defer`, `DeferUnbridged`, `ApprovalInsertFails`, `CrashAfterAllow`, `CrashInDeferral` |
| `dial` | forwarder awaiting `ensureReady` | `Dispatch`, `DialFails` |
| `upstream` | awaiting the reply | `Receive`, `UpstreamFails` |
| `scan` | `await resultScanner.scanResult` | `Scan` |
| `done`, `lost` | answered, or in flight when the process died | |

The stretch after the risk assessment holds two durable writes; a crash between
them is an action of its own (`CrashInDeferral`), and so is one right after the
allow record (`CrashAfterAllow`). `Crash` loses what is in flight, `Restart`
brings the process back on the same databases. The approval table is an instance
of `Approvals`, so links, `tasks/cancel` and time interleave with the handlers.
The switches `HasPolicy`, `HasProvider`, `HasApprovals` and `HasScanner` are the
optional arguments of `SentinelServer` and `RiskEngine`.

The heuristic's sum, its cap, the provider's outcomes and `escalateObligation` are
translated one to one (`HeuristicRiskScore`, `Assessments`, `Escalated`); the
regular expressions that count suspicious values are abstracted to the counts.
The verdict on a result is that of `Scanning` on what the upstream wrote, turned
into JSON as the handler does before it scans it (`Serialized`).

`ImplementsMediation` maps the audit table to `verdict`, the set of dispatched
requests to `dispatched` and the rows to `ruling`.

### `Approvals`

The approvals table, the signed tokens and the clock. An operation on a row is one
SQLite statement, so an action is one statement: `Open` (insert, sign, notify),
`OpenThenCrash`, `FollowLink` (both links, any token on any path),
`ApproveRequest`, `TasksCancel`. A signature of an issued token always verifies
and nobody makes one up: HMAC is taken to be unforgeable, what is left of
`verify` is the token's age. That rests on the key: `main.ts:184` builds the signer also
with a secret that is missing or not hexadecimal, which decodes to an empty key, and
only logs a warning; the model is of a deployment whose secret is one.

### `UpstreamClient`

One pooled connection. Everything `client.ts` keeps is a variable; beside it the
model keeps every connection ever dialled (`conn`) and what became of each dial
(`dial`), so that any callback of any of them may still come. `dial[g].stage`
distinguishes the awaits of `connectOnce`: the handshake, `safeClose` after a
failed handshake (`failing`), `safeClose` after a superseded one
(`superseding`). `close()` is two steps when a dial is in flight
(`CloseBehindDial`, `CloseResumes`) and one otherwise. `ping`, `listTools` and
`warmUp` are callers like any request.

### `ToolCatalog`

Every refresh has a number and a part per server; a part is `listing`,
`examining` (the loop over the returned tools, one tool a step) or `scanning` (the
awaited scan, after which nothing is checked again, as in the code). `Droppable`
has the loop's filters in its order. `FinishRefresh` is what runs after
`Promise.all`: forget servers that left, swap the index.

### `AuditTrail`

`table` is `audit_log`, `head` the cached chain head of each process that has the
database open. SHA-256 is taken to be injective: a hash is the sequence of
payloads chained so far. `DieInAppend` is the commit whose process never moved
its head; `PowerFailure` takes back commits since the last checkpoint, which
WAL with `synchronous = NORMAL` may; `Damage` changes a stored row. `Report` is
`verifyChain`, `Page` and `HasMore` are `query`.

### `Naming`, `Headers`, `Extraction`, `Scanning` and `Admission`

`Naming` is `mcp-core/naming.ts` on sequences of characters: ids, tool names,
qualifying, splitting at the first separator, wrapping a URI and accepting only
its canonical spelling. The alphabet, the escapes and the lengths are CONSTANTS.

`Headers` is the codec of `mcp-core/headers.ts`: when a value may travel as it is,
the Base64 wrapper for the others, what `new Headers` does to blanks and what
`TextDecoder` does to a byte order mark. `HeaderMatchesBody` is the check
`route.ts:219-234` makes of every name it has rewritten.

`Extraction` is `policy-engine/extract.ts` with the part of `redact.ts` it calls.
Arguments are the leaves of a JSON object under the keys that lead to them; a
string is a record of what the extractors can tell of it (segments, resolved path,
first word, hosts, marks). What each function does with the strings is translated:
the depth at which it stops, the filter for path-like strings, containment in the
workspace, the first SQL string only, secrets by key and by pattern. `Warranted`
is the reference and shares no definition with the extractors: the strings within
reach (`InReach`, `Strings`), the alarms each raises by itself, whether one escapes
the workspace, whether a leaf is a secret, and the statement of one of the SQL
strings. Of several SQL strings it does not say which is told: the code tells the
first, and what that hides is a run of its own (`doc_statement`).

`Scanning` is `packages/scanner`. A text is what the patterns find in it; detectors,
classifier (which may fail or be late for any text), ranking and verdict are
translated. `EarnedByTool` and `EarnedByResult` say what a verdict must mean.

`Admission` is what happens to a request before the first await: the gateway's
own tools, the name's resolution (the catalog for tools, the name itself for
prompts and resources, which there are only while a ready upstream has the
capability: `Registered`), `requireDialable`, the outbound header check, the
description of the target and the arguments to Cedar, and `evaluate` on the bundle
`loadBundle` accepted. A refresh scans every definition it lists. Cedar is external:
a policy matches when all the facts it names hold and none of those it excludes,
some policy may fail to evaluate (`erring`), and then the engine denies. `Init`
ranges over every server list the schema accepts and every set of policies the
loader accepts.

### `GatewayLifecycle`

The process from the first dial to `process.exit`: `main.ts`, the registry's warm-up
and close, the one catalog refresh, the HTTP listener and the handlers in flight.
`phase` is where `main()` is; `conn[s]` is a connection seen from outside
(`UpstreamClient` has its details); `shutdown[g]` is where the shutdown that signal
`g` asked for stands, between its awaits: the sentinel's close, the HTTP server's,
the registry's. A second shutdown would find the registry closing and return at
once, which is why `shutdownInProgress` matters (`OrderlyExit`). Agents post, hang
up and stay; upstreams disconnect at any time. What a handler does is cut down to
route, assessment, record, forward and answer, with the catalog read twice as in the
code (`handlers.ts:402`). A connection is lost in two ways: it closes (`Disconnect`),
or something cannot be sent on it (`SendFails`). Then the client forgets it and leaves
it open (`left`): its other calls are `stranded`, still answered by what comes over it
or by their timers, and the registry's close does not know it, so `OrderlyExit` speaks
only of the connections the clients have.

### How the modules fit together

`RequestPipeline` instantiates `Approvals`, extends `Scanning` and is refined against
`Mediation`. `Admission` extends `Naming`, `Headers`, `Extraction` and `Scanning`;
its outcomes (unknown, mismatch, denied, admitted with an obligation) are the
alternatives of the pipeline's arrival. `GatewayLifecycle` composes connections,
catalog, listener and handlers coarsely. `ToolCatalog` gives
the index that `Admission` takes as any set of offered tools; `UpstreamClient`
answers what the pipeline takes as `Dispatch`, `DialFails` and `UpstreamFails`. `AuditTrail`
details the append that is one step of the pipeline. The `MC*` modules give
the constants values and hold nothing else; the `*Proofs` modules hold
the theorems.

## 3 Runs and bounds

`CHECK_DEADLOCK FALSE` stands where the system may really stop: all
requests answered, all refreshes used up, the client closed.

| Run | Configuration | What it shows |
|---|---|---|
| `approvals` | `MCApprovals.cfg` | Three rows (interchangeable), agents `anonymous` and `other`, tokens good for one tick, a clock of two. Only an unexpired token for the very row and action approves, a settled row never moves, no self-approval. |
| `pipeline_safety` | `PipelineSafety.cfg` | Two interchangeable requests with every part configured, crashes anywhere, refined against `Mediation`. |
| `pipeline_bare` | `PipelineBare.cfg` | What `main.ts` builds (no policy engine), with approvals not configured: the promise holds when nobody can be asked, and every admitted request is answered or lost with the process. |
| `client` | `Client.cfg` | Two callers, three generations, two failures until fail-fast, delays of 4 ticks times 6/5 for each failure, capped at 5. |
| `catalog` | `Catalog.cfg` | Two servers, three refreshes, three usable names under caps of two tools per server and three overall, both `onDefinitionDrift` settings. |
| `audit` | `AuditChain.cfg` | One process at a time, three records of which the reader wants two, one damaged row, one row of detail in the report, pages of 1 and of 3 with a maximum of 2, rows appended between pages. |
| `admission` | `Admission.cfg` | Five server lists, eleven names with separators in every position, URIs in several spellings and with blanks, markers and byte order marks, tools with definitions of every kind, thirteen argument lists, policy files with every defect the loader looks for and sixteen of the shipped policies. |
| `lifecycle` | `Lifecycle.cfg` | Two upstreams, one with resources, two requests, two signals. |
| `doc_*` | `Doc*.cfg` | Four documented claims the code does not keep (section 6): `doc_statement` on the servers and arguments of `admission` with the database policies alone, `doc_retry` on one server that has resources, `doc_close` on one caller. |

Why the bounds are enough to see the interesting cases:

- *Pipeline.* The only state two requests share is the audit table, the approval
  table (one row each), the clock and the process. Two requests give every order
  of two stretches. Two payloads (heuristic 0, and 80 = the
  threshold) and two provider scores (10, 90) stand on both sides of the threshold.
  The theorems of section 5 cover any number of requests and any scores.
- *Client.* Three generations are a connection, its replacement and a reset or a
  third dial between them; two consecutive failures open the window and the third
  dial is the one that must wait, half of 4.8 ticks rounded down to 2. Two callers are the one that starts a
  dial and the one that joins it.
- *Catalog.* Three refreshes are needed for "accept, change, drop, list again"
  with the drop in the middle; a server lists up to three usable tools, which is one
  more than its cap, and two servers at their cap have one more than the global one.
- *Audit.* Three rows are a first row, an interior one and a last one; every range
  of them is verified in every state, with the damage at any of them. Page sizes lie
  below and above the maximum, and one row is never wanted.
- *Admission.* The alphabet holds `-`, `_`, `/`, an upper-case letter and a
  character no name may have; ids and names of up to four characters put the
  separator, a doubled underscore and a reserved id at either end. With `Depth = 2`
  there are strings above, at and below the last depth that is read. The definitions
  are harmless, honest about a capability, shadowing one, doubted by the classifier,
  and condemned by a rule, a homoglyph or hidden Base64. The theorems cover every
  alphabet, length, depth and text.
- *Results.* Four texts: harmless, homoglyphs the classifier condemns, a rule that
  JSON escapes hide, an encoded rule.
- *Lifecycle.* One upstream may be down, listing or closing while the other is in
  any other state, one request may be in flight in front of another that is
  answered, and the second signal meets every stage of the shutdown the first began.

**Two processes on one database.** Nothing in the repository promises that two
processes may share the audit file, so no run claims it; nothing prevents it
either. With `Writers = {g1, g2}` in `AuditChain.cfg` TLC reports
`VerifierIsExact` violated in four steps: both open, both append on the head they
cached, and the second row does not chain on the first.

## 4 Fairness

Liveness is checked under weak fairness on what the code itself guarantees to
settle, and on nothing an outsider would have to do:

- *Pipeline*: the continuation of each await. The LLM call races a timer
  (`risk-engine/src/engine.ts`, `llmTimeoutMs`), connecting and requests carry SDK
  timeouts, the classifier's `fetch` an abort timer. Requests need not be sent,
  links need not be followed, the process need not be restarted.
- *Client*: a handshake settles or times out, `safeClose` settles, a
  running request settles, `close()` resumes when the dial it waits for is over.
  Nobody has to call, reset or close, and the clock need not move.
- *Catalog*: each listing settles, each turn of the loop and the step behind
  `Promise.all` run. Nobody has to start a refresh.
- *Audit*: a reader that has more pages to get asks for the next one, of the same
  size until it has been told that there is no more. Paging is claimed to end once the
  log has stopped growing; a writer that adds a page for every page read would keep
  `hasMore` true for ever.
- *Approvals*: the clock only; no liveness is claimed.
- *Lifecycle*: dials, closes and listings settle; the handlers' awaits settle; the
  steps of `main()` and of a shutdown run. The body of a POST arrives or its
  connection is dropped, because Node's HTTP server carries request timers. No new
  request arrives on a connection kept alive once the listener is being closed:
  Node closes idle connections with it. What the SDK's HTTP handler does once it is
  closed is external (`SentinelClosed` may refuse). No agent has to hang up, no
  upstream to stay, no signal to come.

## 5 Proofs

TLAPS proves the following for every value of the constants that satisfies the
modules' `ASSUME`s; each run above checks those on its instance.

**`ApprovalsProofs`.** `Safe`, the conjunction of `TypeOK` and
`DecisionsAreAuthorised`, is inductive as it stands. From it `TypeCorrect` and
`DecisionsAuthorised`; `DecisionsFinal` is a step property that follows from
`updateState` touching pending rows only.

**`RequestPipelineProofs`.** `NothingUnsanctioned` is not inductive: it says
nothing of a request waiting for its connection, which `Dispatch` sends without
looking at the log again. The invariant `IInv` adds what the handler's position
and the log know: `PositionInv` (a request not yet assessed has no record,
one at or past the connection has its allow record, one not past it was not
sent), `SentInv` (what was sent has an allow record), `EvidenceInv` (an allow record
exists only for a request the policy allows outright and the score did not
escalate), `OneVerdictEach` and `RowsInv` (a row exists only for a request on record
as pending, which is answered or lost). One
lemma per group of actions shows it kept. `Sanction`, `SingleVerdict` and `Held`
follow, and `Refinement`: every step is a step of `Mediation` or a stutter, with
`IInv` supplying that a verdict was not recorded before and that a request is
sent once. `AnswersMatch` needs `AInv` on top of it: a request in flight has no
answer yet, and one whose reply is awaited or scanned was sent; that a scan's verdict
is earned is `ResultVerdictsAreEarned` of `ScanningProofs`.

**`UpstreamClientProofs`.** `SingleDial`, `AdoptedIsCurrent`, `NoOrphans` and
`ConnectingMeansDialling` in one inductive invariant, none being inductive alone.
What they rest on: a generation that was not reached has no dial (`FreshInv`), a
call on the wire holds the generation of a connection that was adopted once
(`CallerInv`), so that its loss cannot touch the dial in flight, what supersedes a
dial stays (`SupersededInv`), and once `close()` was called nothing is in use, once
it is done nothing is dialled (`CloserInv`). Two further invariants carry the rest.
`LateInv` says that a call runs on the connection of the generation it captured, that
the newest connection is the one in use until it is dropped, and that "closed" is said
by `close()` alone: `LateLosses` and `ShutdownFinal`. `BackoffInv` ties the failure
counter to the dials it counts (`RunInv`): if the last `n` generations are dials that
failed, the counter is at least `n` and the next dial is put off for at least half of
the delay `n` failures call for, to the nearest tick, which `WindowHolds` needs; a reset or a success in
between takes a generation that did not fail. That a backoff is a number of ticks and
does not fall with the attempts (`UncappedGrows`, `TargetGrows`, `HalvesGrow`,
`DelaysGrow`) completes `Typed`. Assumed of the factor is what the schema admits: a
fraction of at least 1 (a number in JSON is one), so targets are fractions, compared by
multiplying out, capped, halved and only then rounded as in the code; the rounding of
doubles in `factor ** n` is left out. `UncappedSteps` shows that the recursion defines a
function, by induction up to a bound over a set (`InductionUpTo`).

**`ToolCatalogProofs`.** `IInv` is `TypeOK`, `RefreshInv`, `IndexInv` and
`EarlierServersWin`. `AdvertisedIsAccepted` is not inductive: it speaks of the
index, while the next index is made of entries the servers keep and those a refresh is
still gathering, and a tool is accepted one await after it was compared with the
baseline. `RefreshInv` says that only the refresh in flight has parts, one for every
server that can be dialled, and that the filters a tool passed before its scan still
hold when the scan is back (nobody else moves that server's baseline or entries);
`IndexInv` that the entries of every server and the index are sound and agree with
the baseline, each of them. `FlattenedInSteps` and `FlattenedHolds` say what
`rebuildIndex` computes for any number of servers: the entries of the targets,
all of them, each once, in configuration order. From these `AdvertisedAccepted`,
`Resolves`, `CapBitesLast`, `FirstStands` and `Typed`. Assumed: server ids are
unique, which the schema checks.

**`AuditTrailProofs`.** `Committed` is a step property under `Typed`. `Seamless` rests
on `ReaderInv`: the rows seen ascend and end at the cursor, and no matching row up
to it was missed; `PageKeeps` shows it for a page, `ReaderKept` for everything that
happens to the log meanwhile, and `OneOrder` that there is only one ascending
sequence of the rows seen. `Exact` rests on `ChainInv`: up to the first damaged row,
rows are chained exactly where they were not damaged, and in an undamaged log
every process that has it open holds the hash of the last row. The last part is
false as soon as two processes have the log open together, so the theorem has the
hypothesis `[]OneAtATime` (section 3, "Two processes on one database"). `ExactForOne`
shows that a single process, which may die and reopen as often as it likes,
satisfies it. `Typed`, `Committed` and `Seamless` hold for any number of processes.

**`GatewayLifecycleProofs`.** `EvidenceNamesTheTarget`, `NobodyIsCutOff` and
`OrderlyExit`. The invariant adds that nobody can send a request or a signal handler
run before `main()` serves (`StartInv`), so that the catalog is fixed when the first
request arrives; that a tool call being assessed has its server in that catalog
(`EvidenceInv`); that one shutdown at a time is under way and how far it is
says whether the listener and the registry are closed (`ShutdownInv`), which makes
the second branches of the two closes unreachable; and that a call waits only for a
connection its client still has (`WiredInv`), so that none is left waiting when the
last of them is closed.

**`AdmissionProofs`, names.** A qualified name parses back to its server and name
(`QualifiedNamesRoundTrip`), and a name that parses is the one its parts qualify
to (`ParsedNamesRequalify`), for any alphabet and length; the same for wrapped
URIs (`ResourceUrisRoundTrip`, `ParsedUrisRequalify`) for any encoding that
decodes what it encodes. The argument: a server id holds no underscore, so the
first separator of a qualified name is the one `qualify` put there. Assumed
of the alphabet: the three separators differ from each other where it matters and
from letters and digits.

**`AdmissionProofs`, headers.** `HeaderValuesRoundTrip`: a value without a leading byte order
mark is what its header decodes to, for every alphabet and every Base64 that can be
undone. `CarriedWhole` says that `new Headers` takes nothing from a value that may
travel or is wrapped, `WrappedShape` what the wrapper looks like. Assumed: the
markers may travel, blanks are not visible characters, and Base64 is injective.

**`ScanningProofs`.** `VerdictOfFindings` computes the verdict of any set of findings;
`FindingsOfText` and `FindingsOfShadowing` say which findings there are. From them
`ToolVerdictsAreEarned` and `ResultVerdictsAreEarned`, for every definition, every
text and every set of texts the classifier answers for: it can add to what the
patterns condemn and never take away.

**`AdmissionProofs`, requests.** `Inv` is `TypeOK`, "one catalog entry per server and
tool" and "every entry's verdict is earned". The naming theorems give that two advertised tools never share a
qualified name (`QualifyInjective`), so what the catalog lookup chooses is the
tool that was named. `BundleIsComplete` (merging files loses no policy),
`StrongestOf` and `EvaluatedConservatively` are about the policy engine. From
these `ForwardedAsNamed`, `Reachable` (with `HeaderValuesRoundTrip`) and
`Conservative`. `ContextIsWarranted` is what `Conservative` needs of `Extraction`: the
context of a call is one that its strings warrant, whatever the depth, root and
hosts: every alarm, the containment and the credential exactly, and the statement of
one of the SQL strings (`SqlIsOneOfThem`). It does not say that no statement hides
another; one does (`doc_statement`).

**Only model-checked.** Liveness (`AdmittedIsAnswered`, `CallsAreAnswered`,
`ShutdownCompletes`, `RefreshEnds`, `PagingEnds`, `StartsAndStops`), which the prover
does not handle under fairness. Every invariant and every action property of the
passing runs, and the refinement of `Mediation`, is stated by a theorem; the verifier's
exactness under the hypothesis named above. The values a recursive definition has in
full generality are not claimed either: of `Uncapped` and `Flattened` only what the
theorems use is proved.

## 6 Where the documents and the code differ

Checked by a run that TLC refutes:

| Run | Claim | Code |
|---|---|---|
| `doc_EveryOutcomeIsRecorded` | `docs/architecture.md:134`: the audit stage "Happens for EVERY outcome, including denials." | `handlers.ts:793` throws on a forbid before any record is built. |
| `doc_statement` | `policies/30-database.cedar:22-24`: several statements in one call are "scored rather than forbidden — but it is never silently allowed." | `extract.ts:327` judges the first string that starts with a SQL keyword only: several statements behind a string with a plain `SELECT` are allowed as that `SELECT`. |
| `doc_close` | `registry.ts:163` "Close every connection." | `client.ts:653` drops a client after a failed send without closing it. |
| `doc_retry` | `main.ts:105-106`: a failed upstream "will be retried on the first call to it". | The catalog is refreshed once (`main.ts:128`): a `tools/call` for a server that could not be listed at startup is unknown before any dial. |

Met while modelling, with no run of their own:

- `main.ts:11-13` and `105-110` say the gateway does not await its upstreams and
  serves immediately; it awaits `catalog.refresh()`, and with it every listing or
  its timeout, before listening. `main.ts:123-125` speaks of an upstream that
  connects later and a refresh that then succeeds; there is no later refresh, and
  none on `list_changed`.
- `handlers.ts:91` declares `arguments` optional; a call without them that reaches the
  record or the approval digests `undefined`, which throws (`handlers.ts:363`, `418`;
  `Undigestible` in `RequestPipeline`).
- `main.ts:184` signs approvals with an empty key when the secret is missing or not
  hexadecimal (section 2, `Approvals`); the approval theorems say nothing of such a
  deployment.
- While no upstream that has prompts or resources is ready, `prompts/get` and
  `resources/read` are not there (`handlers.ts:467`, `588`), also for servers that are
  only not dialled yet; `NamesAreReachable` says so.
- `client.ts:494-495` says of `reset()` that the next `ensureReady` dials again
  immediately; it leaves `connectInFlight`, and the next call joins the dial the
  reset has doomed. Only tests call `reset()`.
- `main.ts` validates the configuration file with the schema itself and not with
  `config/load.ts`, so `env:` references and relative paths are not resolved.
- A result is scanned as JSON (`handlers.ts:432`): the patterns meet `\n` and `\"` as
  two characters, so a rule that asks for a word boundary or white space there does
  not match what it matches in a description. `Serialized` in `Scanning` models it;
  the properties of results speak of the JSON.
- `scanner.ts:60` "an entire tool definition": nested schemas are not read, and
  Base64 is looked for in the description only. `prompt-guard.ts:85` "the
  highest-scoring": it takes the first label above one half. `prompt-guard.ts:17-18`
  "logged as degraded": nothing is logged.
- `headers.ts` and its tests say that any string round-trips; a value that starts
  with U+FEFF and has to be wrapped does not, because `TextDecoder` drops the mark, and
  a resource of such a URI is refused as a header mismatch.
- Strings below depth 12 are not looked at by the policy (`extract.ts:424`), which the
  theorem about contexts takes into account. With a workspace root of `/` only the root itself is within it.
- `allowedHosts`, meant for hosts, is filled from the allowed origins.
- A page limit of 0 or less reaches SQLite as it is (`query.ts:107`): no rows, or all
  of them.
- `main.ts` passes no policy engine; the checks of the policy path hold for a
  server constructed with one.
- Every caller and every requester is `anonymous`, so `approve_request` never
  succeeds in production; in the model the agent `other` makes the comparison
  matter.
- An approved call is never sent: nothing resumes it (`PROGRESS.md:104` says
  suspended calls resume as MCP tasks). No row ever becomes `expired`
  (`README.md:152`, `approvals/src/store.ts:5`).
- `docs/architecture.md:356-358`: a risk-engine outage should not revoke an
  `allow`. `engine.ts` scores an outage 100 and `escalateObligation` raises it.
- `docs/architecture.md:353`: degraded decisions set `degraded: true`; the
  handlers always write `false`.
- `docs/architecture.md:348`: approval channel unreachable means deny; the call
  is answered with a task id and its row stays pending.
- With a policy engine, `resources/read` builds `new URL(upstreamName)`
  (`handlers.ts:494`), which throws for URIs `naming.ts` accepts; the request fails
  (`FailOnUri` in `Admission`).
- `entities.ts:262` sets `definitionDrifted` to false always, so no guard on it
  can match. The gateway's own tools do not pass `enforcePolicy`.
- `audit/src/store.ts:22-23`: of a transaction lost in a crash "the chain verifier
  will detect the truncation". A log whose last rows are gone is a shorter valid
  log (`verifier.ts:82-138`). `tamperedCount`, documented as the number of rows with
  hash mismatches (`verifier.ts:60`), stops at the length of the detail list
  (`verifier.ts:100`).
- A `.cedar` directory without policies loads as an empty bundle, which denies
  everything.

## 7 What is not modelled

- **Logging**: output only. **The lint script**: a tool outside the gateway.
- **Policies**: the text is Cedar's; sixteen of the shipped policies stand in
  `MCAdmission` by the facts they ask for. `argCount`, `argBytes`, file extensions,
  the hour and the agent's tier are not in the contexts, so the policies that need
  them are left out.
- **Pure text functions** of `mcp-core`: the bytes of canonical JSON, id generation,
  `_meta` filtering. They keep no state; ids are taken to be fresh. That `digestOf`
  refuses `undefined` is in the pipeline.
- **Regular expressions** of the detectors and extractors: what one of them finds in
  one text is data of the model. Paths are POSIX paths.
- **HTTP**: origin check, body limits, the SDK's transport.
- **Transports**: how a transport is built from configuration; that building may
  throw is in the client (`DialNotBuilt`).
- `tools/list`, `server/discover`, `tasks/get`, `tasks/list`, `tasks/update` and the
  stub tools read state or return constants.
- The Discord webhook: fire and forget, its outcome goes nowhere.

## 8 Plan

The order follows what matters most. All steps are done.

1. `Approvals`, `Mediation`, `RequestPipeline` with the refinement between them.
2. `UpstreamClient`: the concurrency of one connection.
3. `ToolCatalog`: the refresh and the baseline.
4. `AuditTrail`: the chain, its verifier, the reader.
5. `Naming`, `Admission`, with the theorems about names and policies.
6. `GatewayLifecycle`: start, shutdown and what meets them.
7. `Headers`, `Extraction` and `Scanning`, with their theorems, inside `Admission` and
   the pipeline.
8. Proofs about `UpstreamClient` and `GatewayLifecycle`, and of `AnswersMatchEvidence`.
9. Proofs about all of `UpstreamClient`, about `ToolCatalog` and about `AuditTrail`.

What is left would widen the model, not the proofs: two processes on one database, if
the repository comes to promise something about them, and the refresh on
`list_changed` that `main.ts` announces, when it exists.
