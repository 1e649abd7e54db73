----------------------------- MODULE ToolCatalog -----------------------------
(***************************************************************************)
(* The tool catalog, apps/gateway/src/catalog/catalog.ts: every refresh    *)
(* lists all dialable upstreams in parallel, filters and digests what they *)
(* offer, compares each digest with the one accepted before (the baseline, *)
(* against rug pulls) and, once all servers are done, swaps the index the  *)
(* router and tools/list read.                                             *)
(*                                                                         *)
(* Each server's part of a refresh awaits its listing and, for every tool  *)
(* it accepts, the scanner; those awaits are where the parts interleave.   *)
(* A refresh is identified by its number, so two that overlapped would be  *)
(* seen to; the in-flight promise is what keeps them apart.                *)
(***************************************************************************)
EXTENDS Naturals, Sequences, FiniteSets, SequencesExt

CONSTANTS
    Servers,            \* sequence: the configured servers, in config order
    Names,              \* tool names upstreams offer
    UsableNames,        \* those isValidToolName accepts
    Allowed,            \* allowTools of each server, all names when absent
    Digests,            \* tool definitions, told apart by digest
    Oversized,          \* those above maxDefinitionBytes
    Listings,           \* what tools/list may return: sequences of tools
    MaxToolsPerServer, MaxTools,
    Refreshes           \* bound: how often refresh() is called

ServerIds == ToSet(Servers)
Tool == [name : Names, digest : Digests]

ASSUME ServersAssumption == Servers \in Seq(ServerIds) /\ IsInjective(Servers)
ASSUME ToolsAssumption ==
    /\ UsableNames \subseteq Names
    /\ Oversized \subseteq Digests
    /\ "none" \notin Digests
    /\ Allowed \in [ServerIds -> SUBSET Names]
    /\ Listings \subseteq Seq(Tool)
ASSUME SettingsAssumption ==
    /\ MaxToolsPerServer \in Nat /\ MaxTools \in Nat /\ Refreshes \in Nat

VARIABLES
    onDrift,     \* settings.onDefinitionDrift, fixed at startup
    dialable,    \* registry.dialable()
    baseline,    \* digest accepted for each tool of each server
    entries,     \* advertised tools of each server, in listed order
    index,       \* the flattened index, an insertion-ordered map
    started,     \* number of refreshes started
    inFlight,    \* refreshInFlight: the running refresh, 0 for none
    work         \* what each server's part of each refresh is doing

vars == <<onDrift, dialable, baseline, entries, index, started, inFlight, work>>

-----------------------------------------------------------------------------
(* Data *)

Rounds == 1..Refreshes

Entry == [server : ServerIds, name : Names, digest : Digests]

\* absent: the server is not a target of this refresh.
Stages == {"absent", "listing", "examining", "scanning", "failed", "done"}
Part == [stage : Stages, todo : Seq(Tool), next : Seq(Entry)]
NoPart == [stage |-> "absent", todo |-> <<>>, next |-> <<>>]

NothingKnown == [n \in Names |-> "none"]

Targets(k) == {s \in ServerIds : work[k][s].stage # "absent"}

\* Defect: the server and the tool change places.
EntrySwapped(s, tool) == [server |-> tool.name, name |-> s, digest |-> tool.digest]

EntryOf(s, tool) == [server |-> s, name |-> tool.name, digest |-> tool.digest]

Has(next, name) == \E i \in DOMAIN next : next[i].name = name

\* Defect: one tool more than the per-server cap is taken.
DroppableBeyondCap(s, tool, next) ==
    \/ tool.name \notin UsableNames
    \/ tool.name \notin Allowed[s]
    \/ Has(next, tool.name)
    \/ Len(next) > MaxToolsPerServer
    \/ tool.digest \in Oversized

\* The filters before the drift check, in the loop's order.
Droppable(s, tool, next) ==
    \/ tool.name \notin UsableNames
    \/ tool.name \notin Allowed[s]
    \/ Has(next, tool.name)
    \/ Len(next) >= MaxToolsPerServer
    \/ tool.digest \in Oversized

\* Defect: a changed definition is taken for a first sighting.
NeverDrifted(s, tool) == FALSE

\* The definition differs from the one accepted before.
Drifted(s, tool) == baseline[s][tool.name] \notin {"none", tool.digest}

\* Defect: the index is filled from the end of the configuration.
FlattenedBackwards(all, targets) ==
    LET upTo[n \in 0..Len(Servers)] ==
          IF n = 0 THEN <<>>
          ELSE IF Servers[n] \in targets THEN all[Servers[n]] \o upTo[n - 1] ELSE upTo[n - 1]
    IN  upTo[Len(Servers)]

\* rebuildIndex: configuration order, then listed order, cut at maxTools.
Flattened(all, targets) ==
    LET upTo[n \in 0..Len(Servers)] ==
          IF n = 0 THEN <<>>
          ELSE IF Servers[n] \in targets THEN upTo[n - 1] \o all[Servers[n]] ELSE upTo[n - 1]
    IN  upTo[Len(Servers)]

Rebuilt(all, targets) ==
    LET flat == Flattened(all, targets)
    IN  SubSeq(flat, 1, IF Len(flat) < MaxTools THEN Len(flat) ELSE MaxTools)

-----------------------------------------------------------------------------
(* Operations *)

\* Defect: the in-flight promise is not looked at.
MayAlwaysRefresh == started < Refreshes

\* refresh(): a caller that finds one in flight joins it.
MayRefresh == inFlight = 0 /\ started < Refreshes

Refresh ==
    /\ MayRefresh
    /\ started' = started + 1
    /\ inFlight' = started'
    /\ work' = [work EXCEPT ![started'] =
                  [s \in ServerIds |-> IF s \in dialable
                                       THEN [NoPart EXCEPT !.stage = "listing"]
                                       ELSE NoPart]]
    /\ UNCHANGED <<onDrift, dialable, baseline, entries, index>>

\* The listing throws: the entries are retained.
ListingFails(k, s) ==
    /\ work[k][s].stage = "listing"
    /\ work' = [work EXCEPT ![k][s].stage = "failed"]
    /\ UNCHANGED <<onDrift, dialable, baseline, entries, index, started, inFlight>>

ListingReturns(k, s) ==
    /\ work[k][s].stage = "listing"
    /\ \E listing \in Listings :
         work' = [work EXCEPT ![k][s] = [@ EXCEPT !.stage = "examining", !.todo = listing]]
    /\ UNCHANGED <<onDrift, dialable, baseline, entries, index, started, inFlight>>

\* One turn of the loop that ends without accepting: a filter, or a withheld
\* change, which leaves the baseline where it was.
Skip(k, s) ==
    LET part == work[k][s] IN
    /\ part.stage = "examining" /\ part.todo # <<>>
    /\ \/ Droppable(s, Head(part.todo), part.next)
       \/ Drifted(s, Head(part.todo)) /\ onDrift = "withhold"
    /\ work' = [work EXCEPT ![k][s].todo = Tail(@)]
    /\ UNCHANGED <<onDrift, dialable, baseline, entries, index, started, inFlight>>

\* The tool is to be accepted: its scan is awaited.
Scan(k, s) ==
    LET part == work[k][s] IN
    /\ part.stage = "examining" /\ part.todo # <<>>
    /\ ~Droppable(s, Head(part.todo), part.next)
    /\ Drifted(s, Head(part.todo)) => onDrift = "flag"
    /\ work' = [work EXCEPT ![k][s].stage = "scanning"]
    /\ UNCHANGED <<onDrift, dialable, baseline, entries, index, started, inFlight>>

\* The scan is back, its verdict kept with the entry; nothing is checked again.
Accept(k, s) ==
    LET part == work[k][s]
        tool == Head(part.todo)
    IN
    /\ part.stage = "scanning"
    /\ baseline' = [baseline EXCEPT ![s][tool.name] = tool.digest]
    /\ work' = [work EXCEPT ![k][s] = [stage |-> "examining",
                                       todo  |-> Tail(part.todo),
                                       next  |-> Append(part.next, EntryOf(s, tool))]]
    /\ UNCHANGED <<onDrift, dialable, entries, index, started, inFlight>>

\* The loop is over: state.entries = next.
FinishServer(k, s) ==
    LET part == work[k][s] IN
    /\ part.stage = "examining" /\ part.todo = <<>>
    /\ entries' = [entries EXCEPT ![s] = part.next]
    /\ work' = [work EXCEPT ![k][s] = [part EXCEPT !.stage = "done"]]
    /\ UNCHANGED <<onDrift, dialable, baseline, index, started, inFlight>>

\* Defect: a part whose listing failed is waited for.
FinishWhenAllListed(k) ==
    /\ inFlight = k
    /\ \A s \in ServerIds : work[k][s].stage \in {"absent", "done"}
    /\ baseline' = [s \in ServerIds |-> IF s \in Targets(k) THEN baseline[s] ELSE NothingKnown]
    /\ entries' = [s \in ServerIds |-> IF s \in Targets(k) THEN entries[s] ELSE <<>>]
    /\ index' = Rebuilt(entries, Targets(k))
    /\ inFlight' = 0
    /\ work' = [work EXCEPT ![k] = [s \in ServerIds |-> NoPart]]
    /\ UNCHANGED <<onDrift, dialable, started>>

\* Every part has settled: servers that left are forgotten with their baseline,
\* the index is swapped and the next refresh may start.
FinishRefresh(k) ==
    /\ inFlight = k
    /\ \A s \in ServerIds : work[k][s].stage \in {"absent", "failed", "done"}
    /\ baseline' = [s \in ServerIds |-> IF s \in Targets(k) THEN baseline[s] ELSE NothingKnown]
    /\ entries' = [s \in ServerIds |-> IF s \in Targets(k) THEN entries[s] ELSE <<>>]
    /\ index' = Rebuilt(entries, Targets(k))
    /\ inFlight' = 0
    /\ work' = [work EXCEPT ![k] = [s \in ServerIds |-> NoPart]]
    /\ UNCHANGED <<onDrift, dialable, started>>

\* The registry closes: nothing is dialable any more.
CloseRegistry ==
    /\ dialable # {}
    /\ dialable' = {}
    /\ UNCHANGED <<onDrift, baseline, entries, index, started, inFlight, work>>

\* What to do on drift and which servers are enabled and not quarantined is
\* configuration.
Init ==
    /\ onDrift \in {"withhold", "flag"}
    /\ dialable \in SUBSET ServerIds
    /\ baseline = [s \in ServerIds |-> NothingKnown]
    /\ entries = [s \in ServerIds |-> <<>>]
    /\ index = <<>>
    /\ started = 0 /\ inFlight = 0
    /\ work = [k \in Rounds |-> [s \in ServerIds |-> NoPart]]

ListingSettles(k, s) == ListingFails(k, s) \/ ListingReturns(k, s)
Progress(k, s) == Skip(k, s) \/ Scan(k, s) \/ Accept(k, s) \/ FinishServer(k, s)

Next ==
    \/ Refresh
    \/ \E k \in Rounds :
         \/ \E s \in ServerIds : ListingSettles(k, s) \/ Progress(k, s)
         \/ FinishRefresh(k)
    \/ CloseRegistry

\* Listings and scans carry timers and the loop runs every continuation.
Fairness == \A k \in Rounds :
    /\ WF_vars(FinishRefresh(k))
    /\ \A s \in ServerIds : WF_vars(ListingSettles(k, s)) /\ WF_vars(Progress(k, s))

Spec == Init /\ [][Next]_vars /\ Fairness

-----------------------------------------------------------------------------
(* Properties *)

TypeOK ==
    /\ onDrift \in {"withhold", "flag"}
    /\ dialable \in SUBSET ServerIds
    /\ baseline \in [ServerIds -> [Names -> Digests \cup {"none"}]]
    /\ entries \in [ServerIds -> Seq(Entry)]
    /\ index \in Seq(Entry)
    /\ started \in 0..Refreshes /\ inFlight \in 0..Refreshes
    /\ work \in [Rounds -> [ServerIds -> Part]]

\* What agents see is what was accepted: with drift withheld, an advertised
\* definition always is the one the baseline holds, also while a refresh is
\* half done and some servers' new entries are waiting for the swap.
AdvertisedIsAccepted ==
    onDrift = "withhold" =>
        \A i \in DOMAIN index : index[i].digest = baseline[index[i].server][index[i].name]

\* No rug pull: with drift withheld, the digest accepted first for a tool of a
\* server still configured is never replaced, whatever the server lists later,
\* in whichever order and however often it drops the tool in between.
FirstDigestStands ==
    [][onDrift = "withhold" =>
         \A s \in dialable', n \in Names :
            baseline[s][n] # "none" => baseline'[s][n] = baseline[s][n]]_vars

\* A qualified name resolves to one definition of one upstream that may use it,
\* and no server holds more than its share of the index.
IndexIsSound ==
    /\ \A i, j \in DOMAIN index :
         index[i].server = index[j].server /\ index[i].name = index[j].name => i = j
    /\ \A i \in DOMAIN index :
         index[i].name \in UsableNames \cap Allowed[index[i].server] /\ index[i].digest \notin Oversized
    /\ \A s \in ServerIds : Cardinality({i \in DOMAIN index : index[i].server = s}) <= MaxToolsPerServer

Position(s) == CHOOSE i \in DOMAIN Servers : Servers[i] = s

\* The global cap bites from the end of the configuration: whichever server
\* answered first, a tool is left out only when the index is full of tools of
\* servers listed no later than its own (catalog.ts rebuildIndex).
EarlierServersWin ==
    /\ Len(index) <= MaxTools
    /\ inFlight = 0 => \A s \in ServerIds : \A e \in ToSet(entries[s]) \ ToSet(index) :
         /\ Len(index) = MaxTools
         /\ \A i \in DOMAIN index : Position(index[i].server) <= Position(s)

\* A refresh never hangs, whichever listings fail; so the next one can start.
RefreshEnds == inFlight # 0 ~> inFlight = 0

=============================================================================
