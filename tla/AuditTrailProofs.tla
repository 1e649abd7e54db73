--------------------------- MODULE AuditTrailProofs ---------------------------
(***************************************************************************)
(* Theorems about AuditTrail, for any set of records, any filter, page     *)
(* sizes and number of damaged rows: variables keep their types, what is   *)
(* committed stays, paging is seamless, and, while no two processes have   *)
(* the database open together, the verifier is exact.                      *)
(***************************************************************************)
EXTENDS AuditTrail, SequenceTheorems, FiniteSetTheorems, TLAPS

-----------------------------------------------------------------------------
(* Numbers and sequences in ascending order *)

\* Every set of naturals that is not empty has a least element.
LEMMA LeastNatural ==
    ASSUME NEW T, T \subseteq Nat, T # {}
    PROVE  \E x \in T : \A y \in T : x <= y
<1> DEFINE R == OpToRel(<, Nat)
<1>1. \A a, b \in Nat : a < b => <<a, b>> \in R
  BY DEF OpToRel
<1>2. IsWellFoundedOn(R, Nat)
  BY NatLessThanWellFounded
<1> HIDE DEF R
<1>3. PICK x \in T : \A y \in T : ~ (<<y, x>> \in R)
  BY <1>2, WFMin
<1>4. ASSUME NEW y \in T PROVE x <= y
  <2>1. y < x => <<y, x>> \in R
    BY <1>1
  <2> QED
    BY <2>1, <1>3
<1> QED
  BY <1>4

\* A sequence of numbers in ascending order.
Ascending(p) == \A i, j \in DOMAIN p : i < j => p[i] < p[j]

\* The numbers of a finite set can be put in ascending order.
LEMMA CanBeOrdered ==
    ASSUME NEW N \in Nat, NEW T \in SUBSET Nat, IsFiniteSet(T), Cardinality(T) = N
    PROVE  \E p \in [1..N -> T] : Ascending(p)
<1> DEFINE Orderable(n) == \A S \in SUBSET Nat : IsFiniteSet(S) /\ Cardinality(S) = n =>
                             \E p \in [1..n -> S] : Ascending(p)
           Not == {n \in Nat : ~ Orderable(n)}
<1>1. Not = {}
  <2> SUFFICES ASSUME Not # {} PROVE FALSE
    OBVIOUS
  <2>1. PICK n \in Not : \A k \in Not : n <= k
    <3>1. Not \subseteq Nat
      OBVIOUS
    <3> HIDE DEF Not
    <3> QED
      BY <3>1, LeastNatural
  <2>2. PICK S \in SUBSET Nat : /\ IsFiniteSet(S) /\ Cardinality(S) = n
                                /\ \A p \in [1..n -> S] : ~ Ascending(p)
    OBVIOUS
  <2>3. CASE n = 0
    <3>1. [i \in 1..0 |-> i] \in [1..n -> S] /\ Ascending([i \in 1..0 |-> i])
      BY <2>3 DEF Ascending
    <3> QED
      BY <2>2, <3>1
  <2>4. CASE n # 0
    <3>1. n \in Nat /\ n - 1 \in Nat /\ S # {}
      BY <2>2, <2>4, FS_EmptySet
    <3>2. PICK least \in S : \A y \in S : least <= y
      BY <3>1, LeastNatural
    <3>3. IsFiniteSet(S \ {least}) /\ Cardinality(S \ {least}) = n - 1
      BY <2>2, FS_RemoveElement
    <3>4. Orderable(n - 1)
      BY <2>1, <3>1
    <3>5. PICK q \in [1..(n - 1) -> S \ {least}] : Ascending(q)
      BY <3>3, <3>4
    <3> DEFINE p == [i \in 1..n |-> IF i = 1 THEN least ELSE q[i - 1]]
    <3>6. p \in [1..n -> S]
      BY <3>1
    <3>7. ASSUME NEW i \in 1..n, NEW j \in 1..n, i < j PROVE p[i] < p[j]
      <4>1. j - 1 \in 1..(n - 1) /\ p[j] = q[j - 1] /\ q[j - 1] \in S /\ q[j - 1] # least
        BY <3>1, <3>7
      <4>2. CASE i = 1
        <5>1. p[i] = least /\ least \in Nat /\ q[j - 1] \in Nat /\ least <= q[j - 1]
          BY <3>2, <4>1, <4>2
        <5> QED
          BY <4>1, <5>1
      <4>3. CASE i # 1
        <5>1. i - 1 \in 1..(n - 1) /\ p[i] = q[i - 1] /\ i - 1 < j - 1
          BY <3>1, <3>7, <4>3
        <5> QED
          BY <3>5, <4>1, <5>1 DEF Ascending
      <4> QED
        BY <4>2, <4>3
    <3>8. Ascending(p)
      BY <3>7 DEF Ascending
    <3> HIDE DEF p
    <3> QED
      BY <2>2, <3>6, <3>8
  <2> QED
    BY <2>3, <2>4
<1>2. Orderable(N)
  BY <1>1
<1> QED
  BY <1>2

\* An ascending sequence has as many members as places.
LEMMA AscendingIsInjective ==
    ASSUME NEW n \in Nat, NEW T \in SUBSET Nat, NEW p \in [1..n -> T], Ascending(p)
    PROVE  p \in Injection(1..n, T)
<1>1. ASSUME NEW i \in 1..n, NEW j \in 1..n, p[i] = p[j] PROVE i = j
  <2>1. (i < j => p[i] < p[j]) /\ (j < i => p[j] < p[i]) /\ p[i] \in Nat
    BY DEF Ascending
  <2>2. ~ (i < j) /\ ~ (j < i)
    BY <1>1, <2>1
  <2> QED
    BY <2>2
<1> QED
  BY <1>1 DEF Injection, IsInjective

\* InOrder lists the members of a finite set, each once, in ascending order.
LEMMA InOrderLists ==
    ASSUME NEW T \in SUBSET Nat, IsFiniteSet(T)
    PROVE  /\ InOrder(T) \in Seq(T) /\ Len(InOrder(T)) = Cardinality(T)
           /\ Ascending(InOrder(T)) /\ ToSet(InOrder(T)) = T
<1> DEFINE n == Cardinality(T)
           p == InOrder(T)
<1>1. n \in Nat /\ IsFiniteSet(1..n) /\ Cardinality(1..n) = n
  BY FS_CardinalityType, FS_Interval
<1>2. p \in [1..n -> T] /\ Ascending(p)
  <2>1. \E q \in [1..n -> T] : Ascending(q)
    BY <1>1, CanBeOrdered
  <2> QED
    BY <2>1 DEF InOrder, Ascending
<1> HIDE DEF p, n
<1>3. p \in Seq(T) /\ Len(p) = n /\ DOMAIN p = 1..n
  BY <1>1, <1>2
<1>4. p \in Surjection(1..n, T)
  <2>1. p \in Injection(1..n, T)
    BY <1>1, <1>2, AscendingIsInjective
  <2> QED
    BY <1>1, <2>1, FS_Injection DEF n
<1>5. ToSet(p) = T
  BY <1>3, <1>4 DEF ToSet, Surjection
<1> QED
  BY <1>2, <1>3, <1>5 DEF p, n

\* There is one way to put numbers in ascending order.
LEMMA OneOrder ==
    ASSUME NEW p \in Seq(Nat), Ascending(p)
    PROVE  p = InOrder(ToSet(p))
<1> DEFINE n == Len(p)
           T == ToSet(p)
           q == InOrder(T)
<1>1. n \in Nat /\ DOMAIN p = 1..n /\ T \in SUBSET Nat /\ p \in [1..n -> T]
  BY LenProperties DEF ToSet
<1>2. p \in Bijection(1..n, T)
  <2>1. p \in Injection(1..n, T)
    BY <1>1, AscendingIsInjective
  <2>2. p \in Surjection(1..n, T)
    BY <1>1 DEF Surjection, ToSet
  <2> QED
    BY <2>1, <2>2 DEF Bijection
<1>3. IsFiniteSet(T) /\ Cardinality(T) = n
  BY <1>1, <1>2, FS_CountingElements, FS_NatBijection DEF ExistsBijection
<1>4. q \in Seq(T) /\ Len(q) = n /\ Ascending(q) /\ ToSet(q) = T
  BY <1>1, <1>3, InOrderLists
<1>5. q \in Seq(Nat) /\ DOMAIN q = 1..n
  BY <1>1, <1>4, SeqMonotonic, LenProperties
<1> HIDE DEF n, T, q
<1> DEFINE Differ == {i \in 1..n : p[i] # q[i]}
<1>6. Differ = {}
  <2> SUFFICES ASSUME Differ # {} PROVE FALSE
    OBVIOUS
  <2>1. Differ \subseteq Nat
    OBVIOUS
  <2>2. PICK m \in Differ : \A k \in Differ : m <= k
    <3> HIDE DEF Differ
    <3> QED
      BY <2>1, LeastNatural
  <2>3. m \in 1..n /\ p[m] # q[m] /\ \A i \in 1..n : i < m => p[i] = q[i]
    <3>1. \A i \in 1..n : i < m => i \notin Differ
      BY <1>1, <2>2
    <3> QED
      BY <3>1
  <2>4. \A i \in 1..n : p[i] \in Nat /\ q[i] \in Nat
    BY <1>1, <1>5
  <2>5. PICK j \in 1..n : q[j] = p[m]
    <3>1. p[m] \in ToSet(q)
      BY <1>1, <1>4, <2>3 DEF ToSet, T
    <3> QED
      BY <1>5, <3>1 DEF ToSet
  <2>6. PICK k \in 1..n : p[k] = q[m]
    <3>1. q[m] \in ToSet(p)
      BY <1>4, <1>5, <2>3 DEF ToSet, T
    <3> QED
      BY <1>1, <3>1 DEF ToSet
  <2>7. m < j
    <3>1. ~ (j < m)
      <4>1. j < m => p[j] < p[m] /\ p[j] = q[j]
        BY <1>1, <2>3 DEF Ascending
      <4> QED
        BY <2>4, <2>5, <4>1, <2>3
    <3> QED
      BY <2>3, <2>5, <3>1
  <2>8. m < k
    <3>1. ~ (k < m)
      <4>1. k < m => q[k] < q[m] /\ p[k] = q[k]
        BY <1>4, <1>5, <2>3 DEF Ascending
      <4> QED
        BY <2>4, <2>6, <4>1, <2>3
    <3> QED
      BY <2>3, <2>6, <3>1
  <2>9. q[m] < p[m] /\ p[m] < q[m]
    BY <1>1, <1>4, <1>5, <2>3, <2>5, <2>6, <2>7, <2>8 DEF Ascending
  <2> QED
    BY <2>3, <2>4, <2>9
<1>7. p = q
  BY <1>4, <1>5, <1>6, SeqEqual DEF n
<1> QED
  BY <1>7 DEF q, T

-----------------------------------------------------------------------------
(* Types, and what is committed *)

\* The hash a writer starts from when it opens the log is a hash.
LEMMA TailHashType ==
    ASSUME TypeOK
    PROVE  TailHash \in Hash
<1>1. table = <<>> => TailHash \in Hash
  BY EmptySeq DEF TailHash, GenesisHash, Hash
<1>2. ASSUME table # <<>> PROVE TailHash \in Hash
  <2>1. Len(table) \in 1..Len(table)
    BY <1>2, EmptySeq DEF TypeOK
  <2>2. table[Len(table)] \in Row
    BY <2>1, ElementOfSeq DEF TypeOK
  <2> QED
    BY <1>2, <2>2 DEF TailHash, Last, Row
<1> QED
  BY <1>1, <1>2

\* A row that is written goes behind the others.
LEMMA Written ==
    ASSUME TypeOK, NEW w \in Writers, NEW r \in Unwritten,
           table' = Append(table, [payload |-> r, hash |-> HashOf(head[w], r)])
    PROVE  /\ r \in Records /\ HashOf(head[w], r) \in Hash
           /\ table' \in Seq(Row) /\ Len(table) \in Nat /\ Len(table') = Len(table) + 1
           /\ DOMAIN table = 1..Len(table) /\ DOMAIN table' = 1..(Len(table) + 1)
           /\ \A i \in 1..Len(table) : table'[i] = table[i]
           /\ table'[Len(table) + 1] = [payload |-> r, hash |-> HashOf(head[w], r)]
<1>1. r \in Records /\ r \in Payloads /\ head[w] \in Seq(Payloads)
  BY DEF Unwritten, Payloads, TypeOK, Hash
<1>2. HashOf(head[w], r) \in Hash
  BY <1>1, AppendProperties DEF HashOf, Hash
<1> DEFINE row == [payload |-> r, hash |-> HashOf(head[w], r)]
<1>3. row \in Row /\ table \in Seq(Row)
  BY <1>1, <1>2 DEF Row, TypeOK
<1> HIDE DEF row
<1>4. /\ Append(table, row) \in Seq(Row) /\ Len(Append(table, row)) = Len(table) + 1
      /\ \A i \in 1..Len(table) : Append(table, row)[i] = table[i]
      /\ Append(table, row)[Len(table) + 1] = row
  BY <1>3, AppendProperties
<1>5. Len(table) \in Nat /\ DOMAIN table = 1..Len(table)
  BY <1>3, LenProperties
<1>6. DOMAIN Append(table, row) = 1..(Len(table) + 1)
  BY <1>4, LenProperties
<1>7. table' = Append(table, row)
  BY DEF row
<1> QED
  BY <1>1, <1>2, <1>4, <1>5, <1>6, <1>7 DEF row

\* A power failure keeps a prefix, with every row of synced in it.
LEMMA Kept ==
    ASSUME TypeOK, PowerFailure
    PROVE  \E kept \in synced..Len(table) :
             /\ kept \in Nat /\ Len(table) \in Nat /\ DOMAIN table = 1..Len(table)
             /\ table' \in Seq(Row) /\ Len(table') = kept /\ DOMAIN table' = 1..kept
             /\ damaged' = damaged \cap 1..kept
             /\ \A i \in 1..kept : i \in 1..Len(table) /\ table'[i] = table[i]
<1>1. PICK kept \in synced..Len(table) :
        table' = SubSeq(table, 1, kept) /\ damaged' = damaged \cap 1..kept
  BY DEF PowerFailure
<1>2. Len(table) \in Nat /\ DOMAIN table = 1..Len(table) /\ kept \in Nat /\ kept <= Len(table)
  BY LenProperties DEF TypeOK
<1>3. \A i \in 1..kept : i \in 1..Len(table) /\ table[i] \in Row
  BY <1>2, ElementOfSeq DEF TypeOK
<1>4. /\ SubSeq(table, 1, kept) \in Seq(Row) /\ Len(SubSeq(table, 1, kept)) = kept
      /\ \A i \in 1..kept : SubSeq(table, 1, kept)[i] = table[i]
  BY <1>2, <1>3, SubSeqProperties
<1>5. DOMAIN SubSeq(table, 1, kept) = 1..kept
  BY <1>4, LenProperties
<1> QED
  BY <1>1, <1>2, <1>3, <1>4, <1>5

\* Damage changes one row and nothing else of the table.
LEMMA OneRowDamaged ==
    ASSUME TypeOK, Damage
    PROVE  \E i \in 1..Len(table) :
             /\ i \notin damaged /\ damaged' = damaged \cup {i}
             /\ Len(table) \in Nat /\ DOMAIN table = 1..Len(table)
             /\ table' \in Seq(Row) /\ Len(table') = Len(table) /\ DOMAIN table' = 1..Len(table)
             /\ \A j \in 1..Len(table) : j # i => table'[j] = table[j]
             /\ \/ table'[i].payload = Garbage /\ table'[i].hash = table[i].hash
                \/ table'[i].payload = table[i].payload
                   /\ table'[i].hash = HashOf(table[i].hash, Garbage)
<1>1. PICK i \in DOMAIN table \ damaged :
        /\ \/ table' = [table EXCEPT ![i].payload = Garbage]
           \/ table' = [table EXCEPT ![i].hash = HashOf(@, Garbage)]
        /\ damaged' = damaged \cup {i}
  BY DEF Damage
<1>2. Len(table) \in Nat /\ DOMAIN table = 1..Len(table) /\ table[i] \in Row
  BY LenProperties, ElementOfSeq DEF TypeOK
<1>3. PICK row \in Row :
        /\ table' = [table EXCEPT ![i] = row]
        /\ \/ row.payload = Garbage /\ row.hash = table[i].hash
           \/ row.payload = table[i].payload /\ row.hash = HashOf(table[i].hash, Garbage)
  <2>1. CASE table' = [table EXCEPT ![i].payload = Garbage]
    <3>1. [table[i] EXCEPT !.payload = Garbage] \in Row
      BY <1>2 DEF Row, Payloads
    <3> QED
      BY <1>2, <2>1, <3>1 DEF Row
  <2>2. CASE table' = [table EXCEPT ![i].hash = HashOf(@, Garbage)]
    <3>1. HashOf(table[i].hash, Garbage) \in Hash
      BY <1>2, AppendProperties DEF Row, Hash, HashOf, Payloads
    <3>2. [table[i] EXCEPT !.hash = HashOf(table[i].hash, Garbage)] \in Row
      BY <1>2, <3>1 DEF Row
    <3> QED
      BY <1>2, <2>2, <3>2 DEF Row
  <2> QED
    BY <1>1, <2>1, <2>2
<1>4. /\ table' \in Seq(Row) /\ Len(table') = Len(table)
      /\ \A j \in 1..Len(table) : table'[j] = IF j = i THEN row ELSE table[j]
  BY <1>2, <1>3, ExceptSeq DEF TypeOK
<1>5. DOMAIN table' = 1..Len(table)
  BY <1>4, LenProperties
<1> QED
  BY <1>1, <1>2, <1>3, <1>4, <1>5

\* A page is a set of row numbers after the cursor, its last one the greatest.
LEMMA PageListed ==
    ASSUME TypeOK, ReadPage
    PROVE  LET rows == Page(reader.after, PageSize(reader.limit))
               page == InOrder(rows)
           IN  /\ rows \subseteq Matching(reader.after) /\ rows \in SUBSET Nat
               /\ IsFiniteSet(rows) /\ IsFiniteSet(Matching(reader.after))
               /\ page \in Seq(rows) /\ page \in Seq(Nat)
               /\ Ascending(page) /\ ToSet(page) = rows
               /\ page # <<>> => /\ Len(page) \in 1..Len(page) /\ Last(page) = page[Len(page)]
                                 /\ Last(page) \in rows
               /\ reader' \in Reader
               /\ reader'.after = IF page = <<>> THEN reader.after ELSE Last(page)
               /\ reader'.seen = reader.seen \o page
<1> DEFINE rows == Page(reader.after, PageSize(reader.limit))
           page == InOrder(rows)
<1>1. /\ rows \subseteq Matching(reader.after) /\ Matching(reader.after) \subseteq 1..Len(table)
      /\ Len(table) \in Nat
  BY LenProperties DEF Page, Matching, TypeOK
<1>2. IsFiniteSet(rows) /\ IsFiniteSet(Matching(reader.after)) /\ rows \in SUBSET Nat
  <2>1. IsFiniteSet(1..Len(table)) /\ Matching(reader.after) \in SUBSET (1..Len(table))
    BY <1>1, FS_Interval
  <2>2. IsFiniteSet(Matching(reader.after)) /\ rows \in SUBSET Matching(reader.after)
    BY <1>1, <2>1, FS_Subset
  <2>3. IsFiniteSet(rows)
    BY <2>2, FS_Subset
  <2> QED
    BY <1>1, <2>2, <2>3
<1>3. reader' = [reader EXCEPT !.after = IF page = <<>> THEN @ ELSE Last(page),
                               !.seen  = @ \o page,
                               !.done  = ~HasMore(reader.after, reader.limit)]
  BY DEF ReadPage
<1> HIDE DEF rows
<1>4. page \in Seq(rows) /\ Ascending(page) /\ ToSet(page) = rows
  BY <1>2, InOrderLists
<1> HIDE DEF page
<1>5. page \in Seq(Nat)
  BY <1>2, <1>4, SeqMonotonic
<1>6. ASSUME page # <<>>
      PROVE  Len(page) \in 1..Len(page) /\ Last(page) = page[Len(page)] /\ Last(page) \in rows
  <2>1. Len(page) \in 1..Len(page)
    BY <1>4, <1>6, EmptySeq
  <2> QED
    BY <1>4, <2>1, ElementOfSeq DEF Last
<1>7. /\ reader.seen \o page \in Seq(Nat)
      /\ (IF page = <<>> THEN reader.after ELSE Last(page)) \in Nat
      /\ (~HasMore(reader.after, reader.limit)) \in BOOLEAN
  <2>1. reader.seen \in Seq(Nat) /\ reader.after \in Nat
    BY DEF TypeOK, Reader
  <2>2. reader.seen \o page \in Seq(Nat)
    BY <1>5, <2>1, ConcatProperties
  <2>3. (IF page = <<>> THEN reader.after ELSE Last(page)) \in Nat
    BY <1>2, <1>6, <2>1
  <2>4. (~HasMore(reader.after, reader.limit)) \in BOOLEAN
    OBVIOUS
  <2> QED
    BY <2>2, <2>3, <2>4
<1>8. /\ reader' \in Reader /\ reader'.seen = reader.seen \o page
      /\ reader'.after = IF page = <<>> THEN reader.after ELSE Last(page)
  BY <1>3, <1>7 DEF TypeOK, Reader
<1> QED
  BY <1>1, <1>2, <1>4, <1>5, <1>6, <1>8 DEF rows, page

\* A reader that starts is a reader.
LEMMA NewReaderType ==
    ASSUME NEW r \in NewReaders
    PROVE  r \in Reader
<1>1. /\ r = [limit |-> r.limit, after |-> r.after, seen |-> r.seen, done |-> r.done]
      /\ r.limit \in Limits /\ r.after = 0 /\ r.seen = <<>> /\ r.done = FALSE
  BY DEF NewReaders
<1>2. <<>> \in Seq(Nat)
  BY EmptySeq
<1>3. r.limit \in Limits /\ r.after \in Nat
  BY <1>1
<1>4. r.seen \in Seq(Nat)
  BY <1>1, <1>2
<1>5. r.done \in BOOLEAN
  BY <1>1, Zenon
<1> QED
  BY <1>1, <1>3, <1>4, <1>5 DEF Reader

LEMMA InitTypeOK == Init => TypeOK
<1> SUFFICES ASSUME Init PROVE TypeOK
  OBVIOUS
<1>1. <<>> \in Seq(Row) /\ <<>> \in Hash /\ Len(<<>>) = 0
  BY EmptySeq DEF Hash
<1>2. reader \in Reader
  BY NewReaderType DEF Init
<1> QED
  BY <1>1, <1>2 DEF Init, TypeOK, GenesisHash

LEMMA NextTypeOK ==
    ASSUME TypeOK, [Next]_vars
    PROVE  TypeOK'
<1>1. ASSUME NEW w \in Writers, Open(w) PROVE TypeOK'
  BY <1>1, TailHashType DEF Open, TypeOK
<1>2. ASSUME NEW w \in Writers, NEW r \in Unwritten,
             table' = Append(table, [payload |-> r, hash |-> HashOf(head[w], r)])
      PROVE  /\ table' \in Seq(Row) /\ synced \in 0..Len(table')
             /\ damaged \in SUBSET (DOMAIN table') /\ r \in Records /\ HashOf(head[w], r) \in Hash
  BY <1>2, Written DEF TypeOK
<1>3. ASSUME NEW w \in Writers, AppendRecord(w) PROVE TypeOK'
  <2>1. PICK r \in Unwritten :
          /\ table' = Append(table, [payload |-> r, hash |-> HashOf(head[w], r)])
          /\ head' = [head EXCEPT ![w] = HashOf(head[w], r)]
          /\ returned' = returned \cup {r}
    BY <1>3 DEF AppendRecord
  <2> QED
    BY <1>2, <1>3, <2>1 DEF AppendRecord, TypeOK
<1>4. ASSUME NEW w \in Writers, DieInAppend(w) PROVE TypeOK'
  BY <1>2, <1>4 DEF DieInAppend, TypeOK
<1>5. ASSUME NEW w \in Writers, AppendFails(w) \/ Leave(w) PROVE TypeOK'
  BY <1>5 DEF AppendFails, Leave, vars, TypeOK
<1>6. CASE Checkpoint
  BY <1>6, LenProperties DEF Checkpoint, TypeOK
<1>7. CASE PowerFailure
  <2>1. reader' \in Reader
    <3>1. reader' \in NewReaders
      BY <1>7 DEF PowerFailure
    <3> QED
      BY <3>1, NewReaderType
  <2> QED
    BY <1>7, <2>1, Kept DEF PowerFailure, TypeOK
<1>8. CASE Damage
  <2>1. UNCHANGED <<head, open, synced, returned, reader>>
    BY <1>8 DEF Damage
  <2> QED
    BY <1>8, <2>1, OneRowDamaged DEF TypeOK
<1>9. CASE ReadPage
  <2>1. reader' \in Reader
    BY <1>9, PageListed
  <2> QED
    BY <1>9, <2>1 DEF ReadPage, TypeOK
<1>10. CASE ReadOn
  <2>1. reader' \in Reader
    BY <1>10 DEF ReadOn, TypeOK, Reader
  <2> QED
    BY <1>10, <2>1 DEF ReadOn, TypeOK
<1>11. CASE UNCHANGED vars
  BY <1>11 DEF vars, TypeOK
<1> QED
  BY <1>1, <1>3, <1>4, <1>5, <1>6, <1>7, <1>8, <1>9, <1>10, <1>11 DEF Next

\* Every variable keeps its type: rows hold hashes, and what is synced or damaged
\* is in the log.
THEOREM Typed == Spec => []TypeOK
  BY InitTypeOK, NextTypeOK, PTL DEF Spec

\* A record whose append returns is in the log; the log shrinks above synced only,
\* and never while a process has it open; a row that stays is the row it was
\* unless it is damaged.
THEOREM Committed == Spec => CommittedStays
<1> DEFINE Stays == /\ Len(table') >= synced
                    /\ open' # {} => Len(table') >= Len(table)
                    /\ \A i \in DOMAIN table' \cap DOMAIN table :
                         i \in damaged' \/ table'[i] = table[i]
<1>1. ASSUME TypeOK, Next PROVE Stays
  <2>1. Len(table) \in Nat /\ DOMAIN table = 1..Len(table) /\ synced <= Len(table) /\ synced \in Nat
    BY <1>1, LenProperties DEF TypeOK
  <2>2. CASE UNCHANGED table
    BY <2>1, <2>2
  <2>3. ASSUME NEW w \in Writers, AppendRecord(w) \/ DieInAppend(w) PROVE Stays
    <3>1. PICK r \in Unwritten :
            table' = Append(table, [payload |-> r, hash |-> HashOf(head[w], r)])
      BY <2>3 DEF AppendRecord, DieInAppend
    <3>2. Len(table') = Len(table) + 1 /\ \A i \in 1..Len(table) : table'[i] = table[i]
      BY <1>1, <3>1, Written
    <3> QED
      BY <2>1, <3>2
  <2>4. CASE PowerFailure
    <3>1. PICK kept \in synced..Len(table) :
            /\ Len(table') = kept /\ DOMAIN table' = 1..kept
            /\ \A i \in 1..kept : table'[i] = table[i]
      BY <1>1, <2>4, Kept
    <3>2. open' = {}
      BY <2>4 DEF PowerFailure
    <3> QED
      BY <2>1, <3>1, <3>2
  <2>5. CASE Damage
    <3>1. PICK i \in 1..Len(table) :
            /\ damaged' = damaged \cup {i}
            /\ Len(table') = Len(table) /\ DOMAIN table' = 1..Len(table)
            /\ \A j \in 1..Len(table) : j # i => table'[j] = table[j]
      BY <1>1, <2>5, OneRowDamaged
    <3> QED
      BY <2>1, <3>1
  <2> QED
    BY <1>1, <2>2, <2>3, <2>4, <2>5
       DEF Next, Open, AppendFails, Leave, Checkpoint, ReadPage, ReadOn, vars
<1> DEFINE IsWritten == \A r \in returned' \ returned :
                          \E i \in DOMAIN table' : table'[i].payload = r
<1>2. ASSUME TypeOK, Next PROVE IsWritten
  <2>1. CASE returned' = returned
    BY <2>1
  <2>2. ASSUME NEW w \in Writers, AppendRecord(w) PROVE IsWritten
    <3>1. PICK r \in Unwritten :
            /\ table' = Append(table, [payload |-> r, hash |-> HashOf(head[w], r)])
            /\ returned' = returned \cup {r}
      BY <2>2 DEF AppendRecord
    <3>2. Len(table) + 1 \in DOMAIN table' /\ table'[Len(table) + 1].payload = r
      BY <1>2, <3>1, Written
    <3> QED
      BY <3>1, <3>2
  <2> QED
    BY <1>2, <2>1, <2>2
       DEF Next, Open, AppendFails, DieInAppend, Leave, Checkpoint, PowerFailure, Damage,
           ReadPage, ReadOn, vars
<1>3. ASSUME TypeOK, [Next]_vars PROVE [IsWritten /\ Stays]_vars
  BY <1>1, <1>2, <1>3
<1> QED
  BY <1>3, Typed, PTL DEF Spec, CommittedStays

-----------------------------------------------------------------------------
(* Paging *)

\* The rows seen are in order and not beyond the cursor, the cursor is not beyond
\* the log, and no matching row up to it was missed.
ReaderInv ==
    /\ Ascending(reader.seen)
    /\ \A i \in DOMAIN reader.seen : reader.seen[i] <= reader.after
    /\ reader.after <= Len(table)
    /\ \A i \in DOMAIN table :
         i <= reader.after /\ table[i].payload \in Wanted => i \in ToSet(reader.seen)

\* A reader that starts over has seen nothing and missed nothing.
LEMMA NewReaderInv ==
    ASSUME reader \in NewReaders, Len(table) \in Nat, DOMAIN table = 1..Len(table)
    PROVE  ReaderInv
<1>1. reader.seen = <<>> /\ reader.after = 0 /\ DOMAIN <<>> = {}
  BY DEF NewReaders
<1> QED
  BY <1>1 DEF ReaderInv, Ascending

\* What happens to the log behind the cursor does not concern the reader: no row
\* before it becomes one that matches.
LEMMA ReaderKept ==
    ASSUME TypeOK, ReaderInv, reader'.seen = reader.seen, reader'.after = reader.after,
           Len(table') \in Nat, Len(table') >= Len(table), DOMAIN table' = 1..Len(table'),
           \A i \in 1..Len(table) :
             table'[i].payload \in Wanted => table[i].payload \in Wanted
    PROVE  ReaderInv'
<1>1. Len(table) \in Nat /\ DOMAIN table = 1..Len(table) /\ reader.after \in Nat
  BY LenProperties DEF TypeOK, Reader
<1>2. ASSUME NEW i \in 1..Len(table'), i <= reader.after, table'[i].payload \in Wanted
      PROVE  i \in ToSet(reader.seen)
  <2>1. i \in 1..Len(table)
    BY <1>1, <1>2 DEF ReaderInv
  <2> QED
    BY <1>1, <1>2, <2>1 DEF ReaderInv
<1> QED
  BY <1>1, <1>2 DEF ReaderInv, Ascending, ToSet

\* The next page is put behind the rows seen, and ends where the cursor moves to.
LEMMA PageKeeps ==
    ASSUME TypeOK, ReaderInv, ReadPage
    PROVE  ReaderInv'
<1> DEFINE rows == Page(reader.after, PageSize(reader.limit))
           page == InOrder(rows)
           seen == reader.seen
           after == reader.after
           both == seen \o page
<1>1. /\ rows \subseteq Matching(after) /\ rows \in SUBSET Nat
      /\ IsFiniteSet(rows) /\ IsFiniteSet(Matching(after))
      /\ page \in Seq(rows) /\ page \in Seq(Nat)
      /\ Ascending(page) /\ ToSet(page) = rows
      /\ page # <<>> => /\ Len(page) \in 1..Len(page) /\ Last(page) = page[Len(page)]
                        /\ Last(page) \in rows
      /\ reader' \in Reader
      /\ reader'.after = IF page = <<>> THEN after ELSE Last(page)
      /\ reader'.seen = both
  BY PageListed
<1>2. /\ Len(table) \in Nat /\ DOMAIN table = 1..Len(table) /\ UNCHANGED table
      /\ seen \in Seq(Nat) /\ after \in Nat
  BY LenProperties DEF TypeOK, Reader, ReadPage
<1>3. \A i \in Matching(after) : i \in 1..Len(table) /\ i > after
  BY <1>2 DEF Matching
<1> HIDE DEF page
<1>4. /\ Len(seen) \in Nat /\ DOMAIN seen = 1..Len(seen)
      /\ Len(page) \in Nat /\ DOMAIN page = 1..Len(page)
      /\ both \in Seq(Nat) /\ DOMAIN both = 1..(Len(seen) + Len(page))
      /\ \A i \in 1..(Len(seen) + Len(page)) :
           both[i] = IF i <= Len(seen) THEN seen[i] ELSE page[i - Len(seen)]
  BY <1>1, <1>2, ConcatProperties, LenProperties
<1> HIDE DEF both
<1>5. \A i \in 1..Len(seen) : seen[i] \in Nat /\ seen[i] <= after
  <2>1. \A i \in 1..Len(seen) : seen[i] \in Nat
    BY <1>2, ElementOfSeq
  <2> QED
    BY <1>4, <2>1 DEF ReaderInv
<1>6. \A i \in 1..Len(page) : page[i] \in rows /\ page[i] \in Nat /\ page[i] > after
  BY <1>1, <1>3, <1>4
<1>7. after <= reader'.after /\ reader'.after <= Len(table) /\ reader'.after \in Nat
  BY <1>1, <1>2, <1>3 DEF ReaderInv
<1>8. ASSUME NEW i \in 1..Len(page) PROVE page[i] <= reader'.after
  <2>1. page # <<>> /\ Len(page) \in 1..Len(page)
    BY <1>1, <1>4, EmptySeq
  <2>2. reader'.after = page[Len(page)]
    BY <1>1, <2>1
  <2>3. i = Len(page) \/ i < Len(page)
    <3>1. Len(page) \in Nat
      BY <1>4
    <3> QED
      BY <3>1
  <2>4. i < Len(page) => page[i] < page[Len(page)]
    BY <1>1, <1>4, <2>1 DEF Ascending
  <2> QED
    BY <1>6, <2>1, <2>2, <2>3, <2>4
<1>9. Ascending(both)
  <2> SUFFICES ASSUME NEW i \in 1..(Len(seen) + Len(page)), NEW j \in 1..(Len(seen) + Len(page)),
                      i < j
               PROVE  both[i] < both[j]
    BY <1>4 DEF Ascending
  <2>1. CASE j <= Len(seen)
    <3>1. i \in 1..Len(seen) /\ j \in 1..Len(seen)
      BY <1>4, <2>1
    <3>2. seen[i] < seen[j]
      BY <1>4, <3>1 DEF ReaderInv, Ascending
    <3> QED
      BY <1>4, <2>1, <3>1, <3>2
  <2>2. CASE i <= Len(seen) /\ ~ (j <= Len(seen))
    <3>1. i \in 1..Len(seen) /\ j - Len(seen) \in 1..Len(page)
      BY <1>4, <2>2
    <3> QED
      <4>1. both[i] = seen[i] /\ both[j] = page[j - Len(seen)]
        BY <1>4, <2>2
      <4>2. seen[i] \in Nat /\ seen[i] <= after
        BY <1>5, <3>1
      <4>3. page[j - Len(seen)] \in Nat /\ page[j - Len(seen)] > after
        BY <1>6, <3>1
      <4> QED
        BY <1>2, <4>1, <4>2, <4>3
  <2>3. CASE ~ (i <= Len(seen))
    <3>1. /\ i - Len(seen) \in 1..Len(page) /\ j - Len(seen) \in 1..Len(page)
          /\ i - Len(seen) < j - Len(seen) /\ ~ (j <= Len(seen))
      BY <1>4, <2>3
    <3>2. page[i - Len(seen)] < page[j - Len(seen)]
      BY <1>1, <1>4, <3>1 DEF Ascending
    <3> QED
      BY <1>4, <2>3, <3>1, <3>2
  <2> QED
    BY <1>4, <2>1, <2>2, <2>3
<1>10. ASSUME NEW i \in 1..(Len(seen) + Len(page)) PROVE both[i] <= reader'.after
  <2>1. CASE i <= Len(seen)
    BY <1>2, <1>4, <1>5, <1>7, <2>1
  <2>2. CASE ~ (i <= Len(seen))
    <3>1. i - Len(seen) \in 1..Len(page)
      BY <1>4, <2>2
    <3> QED
      BY <1>4, <1>8, <2>2, <3>1
  <2> QED
    BY <2>1, <2>2
<1>11. \A x : x \in ToSet(seen) \/ x \in ToSet(page) => x \in ToSet(both)
  <2>1. ASSUME NEW i \in 1..Len(seen) PROVE seen[i] \in ToSet(both)
    <3>1. i \in 1..(Len(seen) + Len(page)) /\ both[i] = seen[i]
      BY <1>4
    <3> QED
      BY <1>4, <3>1 DEF ToSet
  <2>2. ASSUME NEW i \in 1..Len(page) PROVE page[i] \in ToSet(both)
    <3>1. /\ i + Len(seen) \in 1..(Len(seen) + Len(page)) /\ ~ (i + Len(seen) <= Len(seen))
          /\ (i + Len(seen)) - Len(seen) = i
      BY <1>4
    <3>2. both[i + Len(seen)] = page[i]
      BY <1>4, <3>1
    <3> QED
      BY <1>4, <3>1, <3>2 DEF ToSet
  <2> QED
    BY <1>4, <2>1, <2>2 DEF ToSet
<1>12. ASSUME NEW i \in 1..Len(table), i <= reader'.after, table[i].payload \in Wanted
       PROVE  i \in ToSet(both)
  <2>1. CASE i <= after
    BY <1>2, <1>11, <1>12, <2>1 DEF ReaderInv
  <2>2. CASE ~ (i <= after)
    <3>1. page # <<>> /\ Last(page) \in rows /\ i <= Last(page) /\ i \in Matching(after)
      BY <1>1, <1>2, <1>12, <2>2 DEF Matching
    <3> DEFINE before(k) == {j \in Matching(after) : j < k}
    <3>2. before(i) \subseteq before(Last(page))
      <4>1. Last(page) \in Nat /\ i \in Nat
        BY <1>1, <3>1
      <4>2. \A j \in Matching(after) : j \in Nat
        BY <1>2, <1>3
      <4>3. ASSUME NEW j \in Matching(after), j < i PROVE j < Last(page)
        BY <3>1, <4>1, <4>2, <4>3
      <4> QED
        BY <4>3
    <3>3. IsFiniteSet(before(Last(page))) /\ Cardinality(before(i)) <= Cardinality(before(Last(page)))
      <4>1. IsFiniteSet(before(Last(page)))
        <5>1. before(Last(page)) \in SUBSET Matching(after)
          OBVIOUS
        <5> HIDE DEF before
        <5> QED
          BY <1>1, <5>1, FS_Subset
      <4> HIDE DEF before
      <4>2. before(i) \in SUBSET before(Last(page))
        BY <3>2
      <4> QED
        BY <4>1, <4>2, FS_Subset
    <3>4. IsFiniteSet(before(i))
      <4> HIDE DEF before
      <4>1. before(i) \in SUBSET before(Last(page))
        BY <3>2
      <4> QED
        BY <3>3, <4>1, FS_Subset
    <3>5. Cardinality(before(Last(page))) < PageSize(reader.limit)
      BY <3>1 DEF Page
    <3>6. Cardinality(before(i)) \in Nat /\ Cardinality(before(Last(page))) \in Nat
          /\ PageSize(reader.limit) \in Nat
      <4>1. PageSize(reader.limit) \in Nat
        BY LimitsAssumption DEF PageSize, TypeOK, Reader
      <4> HIDE DEF before
      <4> QED
        BY <3>3, <3>4, <4>1, FS_CardinalityType
    <3>7. Cardinality(before(i)) < PageSize(reader.limit)
      <4> HIDE DEF before
      <4> QED
        BY <3>3, <3>5, <3>6
    <3>8. i \in rows
      BY <3>1, <3>7 DEF Page
    <3> QED
      BY <1>1, <1>11, <3>8
  <2> QED
    BY <2>1, <2>2
<1> QED
  BY <1>1, <1>2, <1>4, <1>7, <1>9, <1>10, <1>12 DEF ReaderInv

LEMMA InitReaderInv == Init => ReaderInv
<1>1. Len(<<>>) = 0 /\ DOMAIN <<>> = 1..0
  BY EmptySeq
<1> QED
  BY <1>1, NewReaderInv DEF Init

\* Records, once written, keep their place; what is damaged stops matching.
LEMMA NextReaderInv ==
    ASSUME TypeOK, ReaderInv, [Next]_vars
    PROVE  ReaderInv'
<1>1. Len(table) \in Nat /\ DOMAIN table = 1..Len(table)
  BY LenProperties DEF TypeOK
<1>2. ASSUME UNCHANGED table, reader'.seen = reader.seen, reader'.after = reader.after
      PROVE  ReaderInv'
  BY <1>1, <1>2, ReaderKept
<1>3. ASSUME NEW w \in Writers, AppendRecord(w) \/ DieInAppend(w) PROVE ReaderInv'
  <2>1. PICK r \in Unwritten :
          table' = Append(table, [payload |-> r, hash |-> HashOf(head[w], r)])
    BY <1>3 DEF AppendRecord, DieInAppend
  <2>2. /\ Len(table') = Len(table) + 1 /\ DOMAIN table' = 1..(Len(table) + 1)
        /\ \A i \in 1..Len(table) : table'[i] = table[i]
    BY <2>1, Written
  <2>3. UNCHANGED reader
    BY <1>3 DEF AppendRecord, DieInAppend
  <2>4. Len(table') \in Nat /\ Len(table') >= Len(table) /\ DOMAIN table' = 1..Len(table')
    BY <1>1, <2>2
  <2> QED
    BY <2>2, <2>3, <2>4, ReaderKept
<1>4. CASE PowerFailure
  <2>1. Len(table') \in Nat /\ DOMAIN table' = 1..Len(table')
    BY <1>4, Kept
  <2>2. reader' \in NewReaders
    BY <1>4 DEF PowerFailure
  <2>3. reader'.seen = <<>> /\ reader'.after = 0 /\ DOMAIN <<>> = {}
    BY <2>2 DEF NewReaders
  <2> QED
    BY <2>1, <2>3 DEF ReaderInv, Ascending
<1>5. CASE Damage
  <2>1. PICK i \in 1..Len(table) :
          /\ Len(table') = Len(table) /\ DOMAIN table' = 1..Len(table)
          /\ \A j \in 1..Len(table) : j # i => table'[j] = table[j]
          /\ table'[i].payload = Garbage \/ table'[i].payload = table[i].payload
    BY <1>5, OneRowDamaged
  <2>2. \A j \in 1..Len(table) : table'[j].payload \in Wanted => table[j].payload \in Wanted
    BY <2>1, RecordsAssumption
  <2>3. UNCHANGED reader
    BY <1>5 DEF Damage
  <2> QED
    BY <1>1, <2>1, <2>2, <2>3, ReaderKept
<1>6. CASE ReadPage
  BY <1>6, PageKeeps
<1>7. CASE ReadOn
  <2>1. UNCHANGED table /\ reader'.seen = reader.seen /\ reader'.after = reader.after
    BY <1>7 DEF ReadOn, TypeOK, Reader
  <2> QED
    BY <1>2, <2>1
<1> QED
  BY <1>2, <1>3, <1>4, <1>5, <1>6, <1>7 DEF Next, Open, AppendFails, Leave, Checkpoint, vars

\* A cursor over a growing log skips nothing and repeats nothing, whatever page
\* sizes are asked for and whatever is appended, damaged or lost meanwhile.
THEOREM Seamless == Spec => []PagesAreSeamless
<1>1. ASSUME TypeOK, ReaderInv PROVE PagesAreSeamless
  <2>1. reader.seen \in Seq(Nat) /\ Ascending(reader.seen)
    BY <1>1 DEF TypeOK, Reader, ReaderInv
  <2>2. reader.seen = InOrder(ToSet(reader.seen))
    BY <2>1, OneOrder
  <2> QED
    BY <1>1, <2>2 DEF ReaderInv, PagesAreSeamless
<1> QED
  BY <1>1, Typed, InitReaderInv, NextReaderInv, PTL DEF Spec

-----------------------------------------------------------------------------
(* The verifier *)

\* Row i carries the hash of its payload on the hash stored before it.
Chained(i) == table[i].hash = HashOf(PrevHash(i), table[i].payload)

\* No row before row i was changed.
IntactBefore(i) == \A j \in 1..(i - 1) : j \notin damaged

\* Up to the first change, rows are chained exactly where they were not changed;
\* a process with the log open holds the hash of its last row.
ChainInv ==
    /\ \A i \in DOMAIN table : i \notin damaged =>
         table[i].payload \in Records /\ (IntactBefore(i) => Chained(i))
    /\ \A i \in damaged : IntactBefore(i) => ~ Chained(i)
    /\ damaged = {} => \A w \in open : head[w] = TailHash

\* The processes that have the database open never overlap: the store caches the
\* chain head and takes for granted that it is the only one that appends.
OneAtATime == \A v, w \in open : v = w

\* A row's previous hash is a hash.
LEMMA PrevHashType ==
    ASSUME TypeOK, NEW i \in 1..(Len(table) + 1)
    PROVE  PrevHash(i) \in Hash
<1>1. Len(table) \in Nat /\ (i = 1 \/ i - 1 \in 1..Len(table))
  BY LenProperties DEF TypeOK
<1>2. CASE i = 1
  BY <1>2, EmptySeq DEF PrevHash, GenesisHash, Hash
<1>3. CASE i # 1
  <2>1. table[i - 1] \in Row
    BY <1>1, <1>3, ElementOfSeq DEF TypeOK
  <2> QED
    BY <1>3, <2>1 DEF PrevHash, Row
<1> QED
  BY <1>2, <1>3

\* The hash of the last row is what the next one is chained on.
LEMMA TailIsPrevious ==
    ASSUME TypeOK
    PROVE  TailHash = PrevHash(Len(table) + 1)
<1>1. Len(table) \in Nat /\ (table = <<>> <=> Len(table) = 0)
  BY LenProperties, EmptySeq DEF TypeOK
<1> QED
  BY <1>1 DEF TailHash, PrevHash, Last

\* verifyChain finds the rows of the range that are not chained.
LEMMA TamperedRows ==
    ASSUME TypeOK, NEW from \in DOMAIN table, NEW to \in from..Len(table)
    PROVE  Tampered(from, to) = {i \in from..to : ~ Chained(i)}
<1>1. Len(table) \in Nat /\ from \in 1..Len(table)
  BY LenProperties DEF TypeOK
<1>2. ASSUME NEW i \in from..to
      PROVE  (IF i = from THEN InitialPrevHash(from) ELSE table[i - 1].hash) = PrevHash(i)
  BY <1>1 DEF InitialPrevHash, PrevHash
<1> QED
  BY <1>2 DEF Tampered, Chained

\* A change breaks the chain at the row it hits.
LEMMA DamageBreaks ==
    ASSUME NEW prev \in Hash, NEW hash \in Hash, NEW payload \in Records,
           hash = HashOf(prev, payload)
    PROVE  hash # HashOf(prev, Garbage) /\ HashOf(hash, Garbage) # HashOf(prev, payload)
<1>1. payload # Garbage /\ payload \in Payloads /\ Garbage \in Payloads
  BY RecordsAssumption DEF Payloads
<1>2. \A h, k \in Seq(Payloads) : \A x, y \in Payloads : Append(h, x) = Append(k, y) => x = y
  BY AppendInjective
<1> QED
  BY <1>1, <1>2 DEF Hash, HashOf

LEMMA InitChainInv == Init => ChainInv
<1>1. DOMAIN <<>> = {}
  OBVIOUS
<1> QED
  BY <1>1 DEF Init, ChainInv

LEMMA NextChainInv ==
    ASSUME TypeOK, ChainInv, OneAtATime, [Next]_vars
    PROVE  ChainInv'
<1>1. PICK n \in Nat : /\ Len(table) = n /\ DOMAIN table = 1..n /\ damaged \subseteq 1..n
                       /\ head \in [Writers -> Hash]
  BY LenProperties DEF TypeOK
<1>2. ASSUME UNCHANGED <<table, damaged>>, damaged' = {} => \A w \in open' : head'[w] = TailHash
      PROVE  ChainInv'
  BY <1>2 DEF ChainInv, IntactBefore, Chained, PrevHash, TailHash
<1>3. ASSUME NEW w \in Writers, Open(w) PROVE ChainInv'
  BY <1>1, <1>2, <1>3 DEF Open, ChainInv
<1>4. ASSUME NEW w \in Writers, AppendRecord(w) \/ DieInAppend(w) PROVE ChainInv'
  <2>1. PICK r \in Unwritten :
          table' = Append(table, [payload |-> r, hash |-> HashOf(head[w], r)])
    BY <1>4 DEF AppendRecord, DieInAppend
  <2>2. /\ r \in Records /\ Len(table') = n + 1 /\ DOMAIN table' = 1..(n + 1)
        /\ \A i \in 1..n : table'[i] = table[i]
        /\ table'[n + 1] = [payload |-> r, hash |-> HashOf(head[w], r)]
    BY <1>1, <2>1, Written
  <2>3. UNCHANGED damaged /\ w \in open /\ open' \subseteq {w}
    BY <1>4 DEF AppendRecord, DieInAppend, OneAtATime
  <2>4. ASSUME NEW i \in 1..n
        PROVE  (Chained(i)' <=> Chained(i)) /\ (IntactBefore(i)' <=> IntactBefore(i))
    <3>1. table'[i] = table[i] /\ (i # 1 => table'[i - 1] = table[i - 1])
      BY <1>1, <2>2
    <3> QED
      BY <2>3, <3>1 DEF Chained, IntactBefore, PrevHash
  <2>5. IntactBefore(n + 1)' => damaged = {} /\ Chained(n + 1)'
    <3> SUFFICES ASSUME IntactBefore(n + 1)'
                 PROVE  damaged = {} /\ Chained(n + 1)'
      OBVIOUS
    <3>1. damaged = {}
      <4>1. \A j \in 1..n : j \notin damaged
        BY <1>1, <2>3 DEF IntactBefore
      <4> QED
        BY <1>1, <4>1
    <3>2. head[w] = PrevHash(n + 1)
      BY <1>1, <2>3, <3>1, TailIsPrevious DEF ChainInv
    <3>3. PrevHash(n + 1)' = PrevHash(n + 1)
      BY <1>1, <2>2 DEF PrevHash
    <3> QED
      BY <2>2, <3>1, <3>2, <3>3 DEF Chained
  <2>6. n + 1 \notin damaged /\ table'[n + 1].payload \in Records
    BY <1>1, <2>2
  <2>7. damaged' = {} => \A v \in open' : head'[v] = TailHash'
    <3>1. TailHash' = HashOf(head[w], r)
      <4>1. table' # <<>> /\ Last(table)' = table'[n + 1]
        BY <1>1, <2>2, EmptySeq DEF Last
      <4> QED
        BY <2>2, <4>1 DEF TailHash
    <3>2. AppendRecord(w) => head'[w] = HashOf(head[w], r)
      <4>1. ASSUME AppendRecord(w) PROVE head'[w] = HashOf(head[w], r)
        <5>1. PICK s \in Unwritten :
                /\ table' = Append(table, [payload |-> s, hash |-> HashOf(head[w], s)])
                /\ head' = [head EXCEPT ![w] = HashOf(head[w], s)]
          BY <4>1 DEF AppendRecord
        <5>2. table'[n + 1] = [payload |-> s, hash |-> HashOf(head[w], s)]
          BY <1>1, <5>1, Written
        <5> QED
          BY <1>1, <2>2, <5>1, <5>2
      <4> QED
        BY <4>1
    <3>3. DieInAppend(w) => open' = {}
      BY <2>3 DEF DieInAppend
    <3> QED
      BY <1>4, <2>3, <3>1, <3>2, <3>3
  <2>8. ASSUME NEW i \in DOMAIN table', i \notin damaged'
        PROVE  table'[i].payload \in Records /\ (IntactBefore(i)' => Chained(i)')
    <3>1. CASE i \in 1..n
      BY <1>1, <2>2, <2>3, <2>4, <2>8, <3>1 DEF ChainInv
    <3>2. CASE i = n + 1
      BY <2>5, <2>6, <3>2
    <3> QED
      BY <1>1, <2>2, <3>1, <3>2
  <2>9. ASSUME NEW i \in damaged' PROVE IntactBefore(i)' => ~ Chained(i)'
    BY <1>1, <2>3, <2>4 DEF ChainInv
  <2> QED
    BY <2>7, <2>8, <2>9 DEF ChainInv
<1>5. ASSUME NEW w \in Writers, AppendFails(w) \/ Leave(w) PROVE ChainInv'
  BY <1>2, <1>5 DEF AppendFails, Leave, vars, ChainInv
<1>6. CASE PowerFailure
  <2>1. PICK kept \in synced..Len(table) :
          /\ kept \in Nat /\ DOMAIN table' = 1..kept
          /\ damaged' = damaged \cap 1..kept
          /\ \A i \in 1..kept : i \in 1..n /\ table'[i] = table[i]
    BY <1>1, <1>6, Kept
  <2>2. ASSUME NEW i \in 1..kept
        PROVE  (Chained(i)' <=> Chained(i)) /\ (IntactBefore(i)' <=> IntactBefore(i))
    <3>1. table'[i] = table[i] /\ (i # 1 => table'[i - 1] = table[i - 1])
      BY <2>1
    <3>2. \A j \in 1..(i - 1) : j \in damaged' <=> j \in damaged
      BY <2>1
    <3> QED
      BY <3>1, <3>2 DEF Chained, IntactBefore, PrevHash
  <2>3. open' = {}
    BY <1>6 DEF PowerFailure
  <2> QED
    BY <1>1, <2>1, <2>2, <2>3 DEF ChainInv
<1>7. CASE Damage
  <2>1. PICK k \in 1..n :
          /\ k \notin damaged /\ damaged' = damaged \cup {k}
          /\ DOMAIN table' = 1..n
          /\ \A j \in 1..n : j # k => table'[j] = table[j]
          /\ \/ table'[k].payload = Garbage /\ table'[k].hash = table[k].hash
             \/ table'[k].payload = table[k].payload
                /\ table'[k].hash = HashOf(table[k].hash, Garbage)
    BY <1>1, <1>7, OneRowDamaged
  <2>2. ASSUME NEW i \in 1..n, IntactBefore(i)'
        PROVE  i <= k /\ IntactBefore(i) /\ PrevHash(i)' = PrevHash(i)
    <3>1. i <= k
      BY <1>1, <2>1, <2>2 DEF IntactBefore
    <3>2. i # 1 => table'[i - 1] = table[i - 1]
      BY <1>1, <2>1, <3>1
    <3> QED
      BY <2>1, <2>2, <3>1, <3>2 DEF IntactBefore, PrevHash
  <2>3. IntactBefore(k)' => ~ Chained(k)'
    <3> SUFFICES ASSUME IntactBefore(k)' PROVE ~ Chained(k)'
      OBVIOUS
    <3>1. IntactBefore(k) /\ PrevHash(k)' = PrevHash(k)
      BY <2>2
    <3>2. table[k].payload \in Records /\ table[k].hash = HashOf(PrevHash(k), table[k].payload)
      BY <1>1, <2>1, <3>1 DEF ChainInv, Chained
    <3>3. PrevHash(k) \in Hash /\ table[k].hash \in Hash
      <4>1. table[k] \in Row /\ k \in 1..(n + 1)
        BY <1>1, <2>1, ElementOfSeq DEF TypeOK
      <4> QED
        BY <1>1, <4>1, PrevHashType DEF Row
    <3>4. /\ table[k].hash # HashOf(PrevHash(k), Garbage)
          /\ HashOf(table[k].hash, Garbage) # HashOf(PrevHash(k), table[k].payload)
      BY <3>2, <3>3, DamageBreaks
    <3> QED
      BY <2>1, <3>1, <3>4 DEF Chained
  <2>4. ASSUME NEW i \in 1..n, i # k, IntactBefore(i)'
        PROVE  IntactBefore(i) /\ (Chained(i)' <=> Chained(i))
    <3>1. IntactBefore(i) /\ PrevHash(i)' = PrevHash(i) /\ table'[i] = table[i]
      BY <2>1, <2>2, <2>4
    <3> QED
      BY <3>1 DEF Chained
  <2>5. damaged' # {}
    BY <2>1
  <2> QED
    BY <1>1, <2>1, <2>3, <2>4, <2>5 DEF ChainInv
<1>8. CASE Checkpoint \/ ReadPage \/ ReadOn \/ UNCHANGED vars
  BY <1>2, <1>8 DEF Checkpoint, ReadPage, ReadOn, vars, ChainInv
<1> QED
  BY <1>3, <1>4, <1>5, <1>6, <1>7, <1>8 DEF Next

\* While the rows are chained as ChainInv says, the verifier is exact.
LEMMA ChainIsExact ==
    ASSUME TypeOK, ChainInv
    PROVE  VerifierIsExact
<1>1. Len(table) \in Nat /\ DOMAIN table = 1..Len(table) /\ damaged \subseteq 1..Len(table)
  BY LenProperties DEF TypeOK
<1>2. ASSUME damaged = {}, NEW from \in DOMAIN table, NEW to \in from..Len(table)
      PROVE  Report(from, to).valid
  <2>1. ASSUME NEW i \in from..to PROVE Chained(i)
    BY <1>1, <1>2 DEF ChainInv, IntactBefore
  <2>2. Tampered(from, to) = {}
    BY <2>1, TamperedRows
  <2> QED
    BY <2>2 DEF Report
<1>3. ASSUME damaged # {}
      PROVE  WholeLog.first \in damaged /\ \A i \in damaged : WholeLog.first <= i
  <2> DEFINE bad == Tampered(1, Len(table))
             first == CHOOSE i \in bad : \A j \in bad : i <= j
  <2>1. PICK m \in damaged : \A i \in damaged : m <= i
    <3>1. damaged \subseteq Nat
      BY <1>1
    <3> QED
      BY <1>3, <3>1, LeastNatural
  <2>2. bad = {i \in 1..Len(table) : ~ Chained(i)}
    <3>1. 1 \in DOMAIN table /\ Len(table) \in 1..Len(table)
      BY <1>1, <2>1
    <3> QED
      BY <3>1, TamperedRows
  <2> HIDE DEF bad
  <2>3. m \in bad
    <3>1. IntactBefore(m)
      BY <1>1, <2>1 DEF IntactBefore
    <3> QED
      BY <1>1, <2>1, <2>2, <3>1 DEF ChainInv
  <2>4. ASSUME NEW i \in bad PROVE m <= i
    <3>1. CASE i < m
      <4>1. i \in 1..Len(table) /\ ~ Chained(i)
        BY <2>2
      <4>2. i \notin damaged /\ IntactBefore(i)
        BY <1>1, <2>1, <3>1, <4>1 DEF IntactBefore
      <4> QED
        BY <1>1, <4>1, <4>2 DEF ChainInv
    <3> QED
      BY <1>1, <2>1, <2>2, <3>1
  <2>5. first \in bad /\ \A j \in bad : first <= j
    BY <2>3, <2>4
  <2>6. WholeLog.first = first
    BY <2>3 DEF WholeLog, Report, bad
  <2> HIDE DEF first
  <2>7. first = m
    BY <1>1, <2>1, <2>2, <2>3, <2>4, <2>5
  <2> QED
    BY <2>1, <2>6, <2>7
<1> QED
  BY <1>2, <1>3 DEF VerifierIsExact

\* As long as no two processes have the log open together, a log nobody changed
\* verifies in every range, however appends fail and processes die or restart, and
\* in a changed one the verifier names the first row that was changed.
THEOREM Exact == Spec /\ []OneAtATime => []VerifierIsExact
<1> QED
  BY Typed, InitChainInv, NextChainInv, ChainIsExact, PTL DEF Spec

\* One gateway with a database of its own needs no further assumption.
THEOREM ExactForOne ==
    ASSUME NEW g, Writers = {g}
    PROVE  Spec => []VerifierIsExact
<1>1. TypeOK => OneAtATime
  BY DEF TypeOK, OneAtATime
<1> QED
  BY <1>1, Typed, Exact, PTL
=============================================================================
