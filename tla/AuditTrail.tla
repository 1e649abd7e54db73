----------------------------- MODULE AuditTrail -----------------------------
(***************************************************************************)
(* The hash-chained audit log of packages/audit: store.ts (the table, the   *)
(* cached chain head, appending, reopening), verifier.ts (recomputing the   *)
(* chain) and query.ts (paging through it while it grows).                  *)
(*                                                                         *)
(* SHA-256 is taken to be injective: the hash of a row stands for the       *)
(* sequence of payloads chained up to it, the genesis hash for none.        *)
(*                                                                         *)
(* A writer is a gateway process with the database open.  SQLite commits    *)
(* each INSERT; in WAL mode with synchronous = NORMAL a power failure may   *)
(* take back commits since the last checkpoint.  Damage is a stored row     *)
(* that changes behind the store's back.                                    *)
(***************************************************************************)
EXTENDS Naturals, Sequences, FiniteSets, SequencesExt

CONSTANTS
    Writers,       \* processes that may have the database open
    Records,       \* decision records, each with a decisionId of its own
    Wanted,        \* the records the reader's filter matches
    Limits,        \* page sizes readers ask for
    MaxLimit,      \* MAX_LIMIT
    MaxDetail,     \* MAX_TAMPERED_DETAIL
    MaxDamage      \* bound: how many rows get damaged

Garbage == "garbage"
Payloads == Records \cup {Garbage}

ASSUME RecordsAssumption == Garbage \notin Records /\ Wanted \subseteq Records
ASSUME LimitsAssumption ==
    /\ Limits \subseteq Nat \ {0} /\ MaxLimit \in Nat \ {0}
    /\ MaxDetail \in Nat /\ MaxDamage \in Nat

VARIABLES
    table,       \* audit_log; the sequence number of a row is its position
    head,        \* chainHead of each writer
    open,        \* writers whose store is open
    synced,      \* rows that survive a power failure
    returned,    \* records whose append returned to its caller
    damaged,     \* rows changed behind the store's back
    reader       \* someone paging through the log with a cursor

vars == <<table, head, open, synced, returned, damaged, reader>>

-----------------------------------------------------------------------------
(* Data *)

Hash == Seq(Payloads)
GenesisHash == <<>>
HashOf(prev, payload) == Append(prev, payload)

Row == [payload : Payloads, hash : Hash]

\* limit: the page size it asks for; seen: the rows collected so far; done: a
\* page said there is no more.
Reader == [limit : Limits, after : Nat, seen : Seq(Nat), done : BOOLEAN]
NewReaders == [limit : Limits, after : {0}, seen : {<<>>}, done : {FALSE}]

TailHash == IF table = <<>> THEN GenesisHash ELSE Last(table).hash

-----------------------------------------------------------------------------
(* verifier.ts and readRange *)

\* The hash stored before row i, which readRange hands over as initialPrevHash.
PrevHash(i) == IF i = 1 THEN GenesisHash ELSE table[i - 1].hash

\* Defect: every range is verified from the genesis hash.
AlwaysGenesis(from) == GenesisHash

\* verifyChain over rows from..to chains on the stored hashes.
InitialPrevHash(from) == PrevHash(from)

Tampered(from, to) ==
    {i \in from..to :
        LET prev == IF i = from THEN InitialPrevHash(from) ELSE table[i - 1].hash
        IN  table[i].hash # HashOf(prev, table[i].payload)}

\* What verifyChain reports.
Report(from, to) ==
    LET bad == Tampered(from, to) IN
    [valid |-> bad = {},
     first |-> IF bad = {} THEN 0 ELSE CHOOSE i \in bad : \A j \in bad : i <= j,
     tamperedCount |-> IF Cardinality(bad) < MaxDetail THEN Cardinality(bad) ELSE MaxDetail]

WholeLog == Report(1, Len(table))

-----------------------------------------------------------------------------
(* query.ts *)

\* Defect: the cursor row itself is returned again.
MatchingFromCursor(after) ==
    {i \in DOMAIN table : i >= after /\ table[i].payload \in Wanted}

\* WHERE sequence > @afterSequence AND the other filters.
Matching(after) == {i \in DOMAIN table : i > after /\ table[i].payload \in Wanted}

\* The rows of one page, in sequence order.
Page(after, limit) ==
    {i \in Matching(after) :
        Cardinality({j \in Matching(after) : j < i}) < limit}

\* ORDER BY sequence ASC.
InOrder(rows) == CHOOSE p \in [1..Cardinality(rows) -> rows] :
    \A i, j \in DOMAIN p : i < j => p[i] < p[j]

PageSize(limit) == IF limit < MaxLimit THEN limit ELSE MaxLimit

\* Defect: the rows already handed out are counted again.
HasMoreOfAll(after, limit) == Cardinality(Matching(0)) > PageSize(limit)

HasMore(after, limit) == Cardinality(Matching(after)) > PageSize(limit)

-----------------------------------------------------------------------------
(* Operations *)

\* new AuditStore: the chain head comes from the last row.
Open(w) ==
    /\ w \notin open
    /\ open' = open \cup {w}
    /\ head' = [head EXCEPT ![w] = TailHash]
    /\ UNCHANGED <<table, synced, returned, damaged, reader>>

Unwritten == {r \in Records : \A i \in DOMAIN table : table[i].payload # r} \ returned

\* Defect: the row overwrites the last one.
AppendOverwrites(w) ==
    /\ w \in open
    /\ \E r \in Unwritten :
         LET hash == HashOf(head[w], r) IN
         /\ table' = IF table = <<>> THEN <<[payload |-> r, hash |-> hash]>>
                     ELSE [table EXCEPT ![Len(table)] = [payload |-> r, hash |-> hash]]
         /\ head' = [head EXCEPT ![w] = hash]
         /\ returned' = returned \cup {r}
    /\ UNCHANGED <<open, synced, damaged, reader>>

\* append: one INSERT, then the cached head moves.
AppendRecord(w) ==
    /\ w \in open
    /\ \E r \in Unwritten :
         LET hash == HashOf(head[w], r) IN
         /\ table' = Append(table, [payload |-> r, hash |-> hash])
         /\ head' = [head EXCEPT ![w] = hash]
         /\ returned' = returned \cup {r}
    /\ UNCHANGED <<open, synced, damaged, reader>>

\* The INSERT throws: AuditWriteError, and the head stays.
AppendFails(w) ==
    /\ w \in open /\ Unwritten # {}
    /\ UNCHANGED vars

\* close(), or the end of the process; committed rows stay.
Leave(w) ==
    /\ w \in open
    /\ open' = open \ {w}
    /\ UNCHANGED <<table, head, synced, returned, damaged, reader>>

\* The process dies after the INSERT committed and before append returned.
DieInAppend(w) ==
    /\ w \in open
    /\ \E r \in Unwritten :
         table' = Append(table, [payload |-> r, hash |-> HashOf(head[w], r)])
    /\ open' = open \ {w}
    /\ UNCHANGED <<head, synced, returned, damaged, reader>>

Checkpoint ==
    /\ synced < Len(table)
    /\ synced' = Len(table)
    /\ UNCHANGED <<table, head, open, returned, damaged, reader>>

\* Defect: synchronous = OFF, so that a checkpoint is not safe either.
PowerFailureTakesAll ==
    /\ \E kept \in 0..Len(table) :
         /\ table' = SubSeq(table, 1, kept)
         /\ damaged' = damaged \cap 1..kept
    /\ open' = {}
    /\ reader' \in NewReaders
    /\ UNCHANGED <<head, synced, returned>>

\* Every process ends, commits since the last checkpoint may be gone.
PowerFailure ==
    /\ \E kept \in synced..Len(table) :
         /\ table' = SubSeq(table, 1, kept)
         /\ damaged' = damaged \cap 1..kept
    /\ open' = {}
    /\ reader' \in NewReaders
    /\ UNCHANGED <<head, synced, returned>>

\* Bit rot, or another program editing the file.
Damage ==
    /\ Cardinality(damaged) < MaxDamage
    /\ \E i \in DOMAIN table \ damaged :
         /\ \/ table' = [table EXCEPT ![i].payload = Garbage]
            \/ table' = [table EXCEPT ![i].hash = HashOf(@, Garbage)]
         /\ damaged' = damaged \cup {i}
    /\ UNCHANGED <<head, open, synced, returned, reader>>

\* The reader asks for the next page, with the last row it got as its cursor.
ReadPage ==
    /\ ~reader.done
    /\ LET page == InOrder(Page(reader.after, PageSize(reader.limit))) IN
       reader' = [reader EXCEPT !.after = IF page = <<>> THEN @ ELSE Last(page),
                                !.seen  = @ \o page,
                                !.done  = ~HasMore(reader.after, reader.limit)]
    /\ UNCHANGED <<table, head, open, synced, returned, damaged>>

\* A reader that has finished comes back later with the cursor it kept, and asks
\* for pages of any size.
ReadOn ==
    /\ reader.done
    /\ \E limit \in Limits : reader' = [reader EXCEPT !.done = FALSE, !.limit = limit]
    /\ UNCHANGED <<table, head, open, synced, returned, damaged>>

Init ==
    /\ table = <<>>
    /\ head = [w \in Writers |-> GenesisHash]
    /\ open = {}
    /\ synced = 0
    /\ returned = {}
    /\ damaged = {}
    /\ reader \in NewReaders

Next ==
    \/ \E w \in Writers :
         Open(w) \/ AppendRecord(w) \/ AppendFails(w) \/ Leave(w) \/ DieInAppend(w)
    \/ Checkpoint \/ PowerFailure \/ Damage
    \/ ReadPage \/ ReadOn

\* A reader that has started keeps asking until it is told there is no more.
Spec == Init /\ [][Next]_vars /\ WF_vars(ReadPage)

-----------------------------------------------------------------------------
(* Properties *)

TypeOK ==
    /\ table \in Seq(Row)
    /\ head \in [Writers -> Hash]
    /\ open \in SUBSET Writers
    /\ synced \in 0..Len(table)
    /\ returned \in SUBSET Records
    /\ damaged \in SUBSET (DOMAIN table)
    /\ reader \in Reader

\* The verifier is exact.  Whatever fails, crashes, restarts or loses its tail in
\* between, a log nobody damaged verifies, and so does any range of it under the
\* initial hash readRange supplies; in a damaged log the row it names is the
\* first one that was changed, never an innocent one.
VerifierIsExact ==
    LET first == WholeLog.first IN
    IF damaged = {}
    THEN \A from \in DOMAIN table : \A to \in from..Len(table) : Report(from, to).valid
    ELSE first \in damaged /\ \A i \in damaged : first <= i

\* An append that returns has its record in the log, and from there only a power
\* failure takes it: the log shrinks above the last checkpoint only, never while
\* a process has it open, and a row nobody damaged stays what it was.
CommittedStays ==
    [][/\ \A r \in returned' \ returned : \E i \in DOMAIN table' : table'[i].payload = r
       /\ Len(table') >= synced
       /\ open' # {} => Len(table') >= Len(table)
       /\ \A i \in DOMAIN table' \cap DOMAIN table :
            i \in damaged' \/ table'[i] = table[i]]_vars

\* Paging with a cursor over a growing log skips nothing and repeats nothing:
\* the rows seen are the matching rows up to the cursor, in sequence order, and a
\* reader told "no more" has seen all there are up to its cursor.
PagesAreSeamless ==
    /\ reader.seen = InOrder(ToSet(reader.seen))
    /\ \A i \in DOMAIN table :
         i <= reader.after /\ table[i].payload \in Wanted => i \in ToSet(reader.seen)

\* Once the log stops changing, a reader that has begun is told "no more" at some
\* point, unless a power failure makes it start over.  While a writer adds a page
\* for every page read there is always more (query.ts hasMore), as there should be.
PagingEnds ==
    <>[][table' = table]_vars => (reader.after > 0 ~> (reader.done \/ reader \in NewReaders))

=============================================================================
