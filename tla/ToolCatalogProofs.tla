--------------------------- MODULE ToolCatalogProofs ---------------------------
(***************************************************************************)
(* Theorems about ToolCatalog, for any configuration, listings, caps and   *)
(* number of refreshes: types, what agents see is what was accepted, the   *)
(* first digest stands, the index is sound, and the global cap never takes *)
(* from a server listed earlier.                                           *)
(***************************************************************************)
EXTENDS ToolCatalog, SequenceTheorems, FiniteSetTheorems, WellFoundedInduction, TLAPS

-----------------------------------------------------------------------------
(* Flattening *)

\* Induction over the numbers up to a bound, for a set: what is false somewhere
\* is false somewhere for the first time.
LEMMA InductionUpTo ==
    ASSUME NEW N \in Nat, NEW S, 0 \in S, \A n \in 1..N : n - 1 \in S => n \in S
    PROVE  0..N \subseteq S
<1> DEFINE R == OpToRel(<, Nat)
           Bad == {n \in 0..N : n \notin S}
<1>1. IsWellFoundedOn(R, Nat)
  BY NatLessThanWellFounded
<1>2. \A a, b \in Nat : a < b => <<a, b>> \in R
  BY DEF OpToRel
<1> HIDE DEF R
<1>3. SUFFICES ASSUME Bad # {} PROVE FALSE
  OBVIOUS
<1>4. Bad \subseteq Nat
  OBVIOUS
<1> HIDE DEF Bad
<1>5. PICK n \in Bad : \A k \in Bad : ~ (<<k, n>> \in R)
  BY <1>1, <1>3, <1>4, WFMin
<1>6. n \in 1..N /\ n - 1 \in 0..N /\ n \notin S
  BY DEF Bad
<1>7. n - 1 \in Bad
  BY <1>6 DEF Bad
<1>8. <<n - 1, n>> \in R
  BY <1>2, <1>6
<1> QED
  BY <1>5, <1>7, <1>8

\* The configured servers are numbered, each once.
LEMMA ServersAreNumbered ==
    /\ Len(Servers) \in Nat /\ DOMAIN Servers = 1..Len(Servers)
    /\ \A n \in 1..Len(Servers) : Servers[n] \in ServerIds /\ Position(Servers[n]) = n
    /\ \A s \in ServerIds : Position(s) \in 1..Len(Servers) /\ Servers[Position(s)] = s
<1>1. Len(Servers) \in Nat /\ DOMAIN Servers = 1..Len(Servers)
  BY ServersAssumption, LenProperties
<1>2. \A m, n \in 1..Len(Servers) : Servers[m] = Servers[n] => m = n
  BY <1>1, ServersAssumption DEF IsInjective
<1>3. ASSUME NEW n \in 1..Len(Servers) PROVE Servers[n] \in ServerIds /\ Position(Servers[n]) = n
  BY <1>1, <1>2 DEF ServerIds, ToSet, Position
<1>4. ASSUME NEW s \in ServerIds
      PROVE  Position(s) \in 1..Len(Servers) /\ Servers[Position(s)] = s
  <2>1. PICK n \in 1..Len(Servers) : Servers[n] = s
    BY <1>1 DEF ServerIds, ToSet
  <2> QED
    BY <1>3, <2>1
<1> QED
  BY <1>1, <1>3, <1>4

\* The entries of a server name it.
Owned(all) == \A s \in ServerIds : \A i \in DOMAIN all[s] : all[s][i].server = s

\* list holds the entries of the targets among the first n servers: only those
\* and all of those, those of earlier servers first.
HoldsFirst(n, list, all, targets) ==
    /\ list \in Seq(Entry)
    /\ \A i \in DOMAIN list :
         /\ list[i].server \in targets /\ Position(list[i].server) <= n
         /\ list[i] \in ToSet(all[list[i].server])
    /\ \A m \in 1..n : Servers[m] \in targets => ToSet(all[Servers[m]]) \subseteq ToSet(list)
    /\ \A i, j \in DOMAIN list :
         i < j => Position(list[i].server) <= Position(list[j].server)

\* No tool of a server is listed twice.
NamedOnce(list) ==
    \A i, j \in DOMAIN list :
        list[i].server = list[j].server /\ list[i].name = list[j].name => i = j

\* The next server's entries go behind the others.
LEMMA OneMoreServer ==
    ASSUME NEW n \in Nat, n + 1 <= Len(Servers), NEW all \in [ServerIds -> Seq(Entry)],
           NEW targets \in SUBSET ServerIds, Owned(all), NEW list,
           HoldsFirst(n, list, all, targets), Servers[n + 1] \in targets
    PROVE  LET both == list \o all[Servers[n + 1]] IN
           /\ HoldsFirst(n + 1, both, all, targets)
           /\ NamedOnce(list) /\ NamedOnce(all[Servers[n + 1]]) => NamedOnce(both)
<1> DEFINE s == Servers[n + 1]
           more == all[s]
           both == list \o more
<1>1. s \in ServerIds /\ Position(s) = n + 1 /\ s \in targets
  BY ServersAreNumbered
<1> HIDE DEF s
<1>2. list \in Seq(Entry) /\ more \in Seq(Entry)
  BY <1>1 DEF HoldsFirst
<1> HIDE DEF more
<1>3. PICK p \in Nat, q \in Nat :
        /\ DOMAIN list = 1..p /\ DOMAIN more = 1..q
        /\ both \in Seq(Entry) /\ DOMAIN both = 1..(p + q)
        /\ \A i \in 1..(p + q) : both[i] = IF i <= p THEN list[i] ELSE more[i - p]
  <2>1. /\ Len(list) \in Nat /\ DOMAIN list = 1..Len(list)
        /\ Len(more) \in Nat /\ DOMAIN more = 1..Len(more)
    BY <1>2, LenProperties
  <2>2. /\ both \in Seq(Entry) /\ Len(both) = Len(list) + Len(more)
        /\ \A i \in 1..(Len(list) + Len(more)) :
             both[i] = IF i <= Len(list) THEN list[i] ELSE more[i - Len(list)]
    BY <1>2, ConcatProperties
  <2>3. DOMAIN both = 1..(Len(list) + Len(more))
    BY <2>2, LenProperties
  <2> QED
    BY <2>1, <2>2, <2>3
<1> HIDE DEF both
<1>4. ASSUME NEW i \in 1..p
      PROVE  /\ i \in 1..(p + q) /\ both[i] = list[i] /\ list[i] \in Entry
             /\ list[i].server \in targets /\ Position(list[i].server) <= n
             /\ Position(list[i].server) \in Nat
             /\ list[i] \in ToSet(all[list[i].server]) /\ list[i].server # s
  <2>1. i \in 1..(p + q) /\ i <= p
    BY <1>3
  <2>2. both[i] = list[i]
    BY <1>3, <2>1
  <2>3. list[i] \in Entry
    BY <1>2, <1>3, LenProperties
  <2>4. /\ list[i].server \in targets /\ Position(list[i].server) <= n
        /\ list[i] \in ToSet(all[list[i].server])
    BY <1>3 DEF HoldsFirst
  <2>5. Position(list[i].server) \in Nat
    BY <2>4, ServersAreNumbered
  <2>6. list[i].server # s
    BY <1>1, <2>4
  <2> QED
    BY <2>1, <2>2, <2>3, <2>4, <2>5, <2>6
<1>5. ASSUME NEW i \in 1..q
      PROVE  /\ i + p \in 1..(p + q) /\ both[i + p] = more[i]
             /\ more[i].server = s /\ more[i] \in ToSet(all[s])
  <2>1. i + p \in 1..(p + q) /\ ~ (i + p <= p) /\ (i + p) - p = i
    BY <1>3
  <2>2. both[i + p] = more[i]
    BY <1>3, <2>1
  <2>3. more[i].server = s /\ more[i] \in ToSet(all[s])
    BY <1>1, <1>3 DEF more, Owned, ToSet
  <2> QED
    BY <2>1, <2>2, <2>3
<1>6. ASSUME NEW i \in 1..(p + q)
      PROVE  i \in 1..p \/ \E k \in 1..q : i = k + p /\ ~ (i \in 1..p)
  <2>1. CASE ~ (i <= p)
    <3>1. i - p \in 1..q /\ i = (i - p) + p
      BY <2>1
    <3> QED
      BY <2>1, <3>1
  <2> QED
    BY <2>1
<1>7. ASSUME NEW i \in DOMAIN both
      PROVE  /\ both[i].server \in targets /\ Position(both[i].server) <= n + 1
             /\ both[i] \in ToSet(all[both[i].server])
  <2>1. CASE i \in 1..p
    BY <1>4, <2>1
  <2>2. ASSUME NEW k \in 1..q, i = k + p
        PROVE  /\ both[i].server \in targets /\ Position(both[i].server) <= n + 1
               /\ both[i] \in ToSet(all[both[i].server])
    <3>1. both[i].server = s /\ both[i] \in ToSet(all[s])
      BY <1>5, <2>2
    <3> QED
      BY <1>1, <3>1
  <2> QED
    BY <1>3, <1>6, <2>1, <2>2
<1>8. \A e : e \in ToSet(list) \/ e \in ToSet(more) => e \in ToSet(both)
  <2>1. ASSUME NEW i \in 1..p PROVE list[i] \in ToSet(both)
    BY <1>3, <1>4 DEF ToSet
  <2>2. ASSUME NEW i \in 1..q PROVE more[i] \in ToSet(both)
    BY <1>3, <1>5 DEF ToSet
  <2> QED
    BY <1>3, <2>1, <2>2 DEF ToSet
<1>9. ASSUME NEW m \in 1..(n + 1), Servers[m] \in targets
      PROVE  ToSet(all[Servers[m]]) \subseteq ToSet(both)
  <2>1. CASE m \in 1..n
    BY <1>8, <1>9, <2>1 DEF HoldsFirst
  <2>2. CASE m = n + 1
    BY <1>8, <2>2 DEF s, more
  <2> QED
    BY <2>1, <2>2
<1>10. ASSUME NEW i \in DOMAIN both, NEW j \in DOMAIN both, i < j
       PROVE  Position(both[i].server) <= Position(both[j].server)
  <2>1. CASE i \in 1..p /\ j \in 1..p
    <3>1. Position(list[i].server) <= Position(list[j].server)
      BY <1>3, <1>10, <2>1 DEF HoldsFirst
    <3> QED
      BY <1>4, <2>1, <3>1
  <2>2. ASSUME NEW k \in 1..q, j = k + p
        PROVE  Position(both[i].server) <= Position(both[j].server)
    <3>1. both[j].server = s
      BY <1>5, <2>2
    <3>2. Position(both[i].server) <= n + 1
      BY <1>7
    <3> QED
      BY <1>1, <3>1, <3>2
  <2>3. j \in 1..p => i \in 1..p
    BY <1>3, <1>10
  <2> QED
    BY <1>3, <1>6, <2>1, <2>2, <2>3
<1>11. ASSUME NamedOnce(list), NamedOnce(more) PROVE NamedOnce(both)
  <2> SUFFICES ASSUME NEW i \in DOMAIN both, NEW j \in DOMAIN both,
                      both[i].server = both[j].server, both[i].name = both[j].name
               PROVE  i = j
    BY DEF NamedOnce
  <2>1. CASE i \in 1..p /\ j \in 1..p
    BY <1>3, <1>4, <1>11, <2>1 DEF NamedOnce
  <2>2. ASSUME NEW k \in 1..q, NEW l \in 1..q, i = k + p, j = l + p PROVE i = j
    <3>1. more[k].server = more[l].server /\ more[k].name = more[l].name
      BY <1>5, <2>2
    <3> QED
      BY <1>3, <1>11, <2>2, <3>1 DEF NamedOnce
  <2>3. ASSUME NEW k \in 1..q PROVE ~ (i \in 1..p /\ j = k + p) /\ ~ (j \in 1..p /\ i = k + p)
    BY <1>4, <1>5
  <2> QED
    BY <1>3, <1>6, <2>1, <2>2, <2>3
<1>12. HoldsFirst(n + 1, both, all, targets)
  BY <1>3, <1>7, <1>9, <1>10 DEF HoldsFirst
<1> QED
  BY <1>11, <1>12 DEF both, more, s
\* The recursion defines a function: server by server, its entries are appended
\* if it is a target.
LEMMA FlattenedInSteps ==
    ASSUME NEW all, NEW targets
    PROVE  \E upTo : /\ Flattened(all, targets) = upTo[Len(Servers)] /\ upTo[0] = <<>>
                     /\ \A n \in 1..Len(Servers) :
                          upTo[n] = IF Servers[n] \in targets THEN upTo[n - 1] \o all[Servers[n]]
                                    ELSE upTo[n - 1]
<1> DEFINE Value(n, f) == IF n = 0 THEN <<>>
                          ELSE IF Servers[n] \in targets THEN f[n - 1] \o all[Servers[n]] ELSE f[n - 1]
           Upto(n, f) == f = [i \in 0..n |-> Value(i, f)]
           Defined == {n \in 0..Len(Servers) : \E f : Upto(n, f)}
           upTo == CHOOSE f : Upto(Len(Servers), f)
<1>1. Len(Servers) \in Nat
  BY ServersAreNumbered
<1>2. 0 \in Defined
  <2>1. Upto(0, [i \in 0..0 |-> <<>>])
    OBVIOUS
  <2> HIDE DEF Upto
  <2> QED
    BY <1>1, <2>1
<1>3. ASSUME NEW n \in 1..Len(Servers), n - 1 \in Defined PROVE n \in Defined
  <2>1. PICK f : Upto(n - 1, f)
    BY <1>3
  <2>2. \A i \in 0..(n - 1) : f[i] = Value(i, f)
    <3> HIDE DEF Value
    <3> QED
      BY <2>1
  <2> DEFINE h == [i \in 0..n |-> IF i = n THEN Value(n, f) ELSE f[i]]
  <2>3. h[n] = Value(n, f)
    <3> HIDE DEF Value
    <3> QED
      BY <1>1
  <2>4. ASSUME NEW i \in 0..(n - 1) PROVE h[i] = f[i]
    BY <1>1, <2>4
  <2> HIDE DEF h
  <2>5. ASSUME NEW i \in 0..n PROVE h[i] = Value(i, h)
    <3>1. i # 0 => i - 1 \in 0..(n - 1)
      BY <1>1
    <3>2. Value(i, h) = Value(i, f)
      BY <2>4, <3>1
    <3> HIDE DEF Value
    <3>3. CASE i = n
      BY <2>3, <3>2, <3>3
    <3>4. CASE i # n
      <4>1. i \in 0..(n - 1)
        BY <1>1, <3>4
      <4> QED
        BY <2>2, <2>4, <3>2, <4>1
    <3> QED
      BY <3>3, <3>4
  <2>6. h = [i \in 0..n |-> h[i]]
    BY DEF h
  <2>7. Upto(n, h)
    <3> HIDE DEF Value
    <3> QED
      BY <2>5, <2>6
  <2> HIDE DEF Upto
  <2> QED
    BY <2>7
<1>4. Upto(Len(Servers), upTo)
  <2>1. 0..Len(Servers) \subseteq Defined
    <3> HIDE DEF Defined
    <3> QED
      BY <1>1, <1>2, <1>3, InductionUpTo
  <2>2. Len(Servers) \in Defined
    <3> HIDE DEF Defined
    <3> QED
      BY <1>1, <2>1
  <2> HIDE DEF Upto
  <2> QED
    BY <2>2
<1>5. Flattened(all, targets) = upTo[Len(Servers)]
  BY DEF Flattened
<1> HIDE DEF upTo
<1>6. \A n \in 0..Len(Servers) : upTo[n] = Value(n, upTo)
  <2> HIDE DEF Value
  <2> QED
    BY <1>4
<1>7. upTo[0] = <<>>
  BY <1>1, <1>6
<1>8. ASSUME NEW n \in 1..Len(Servers)
      PROVE  upTo[n] = IF Servers[n] \in targets THEN upTo[n - 1] \o all[Servers[n]]
                       ELSE upTo[n - 1]
  BY <1>1, <1>6
<1> QED
  BY <1>5, <1>7, <1>8

\* Flattened holds the entries of the targets, in configuration order.
LEMMA FlattenedHolds ==
    ASSUME NEW all \in [ServerIds -> Seq(Entry)], NEW targets \in SUBSET ServerIds,
           Owned(all), \A s \in ServerIds : NamedOnce(all[s])
    PROVE  /\ HoldsFirst(Len(Servers), Flattened(all, targets), all, targets)
           /\ NamedOnce(Flattened(all, targets))
<1>1. PICK upTo : /\ Flattened(all, targets) = upTo[Len(Servers)] /\ upTo[0] = <<>>
                  /\ \A n \in 1..Len(Servers) :
                       upTo[n] = IF Servers[n] \in targets THEN upTo[n - 1] \o all[Servers[n]]
                                 ELSE upTo[n - 1]
  BY FlattenedInSteps
<1>2. Len(Servers) \in Nat
  BY ServersAreNumbered
<1> DEFINE Good == {n \in 0..Len(Servers) :
                      HoldsFirst(n, upTo[n], all, targets) /\ NamedOnce(upTo[n])}
<1>3. 0 \in Good
  <2>1. <<>> \in Seq(Entry) /\ DOMAIN <<>> = {}
    BY EmptySeq
  <2>2. HoldsFirst(0, <<>>, all, targets)
    BY <2>1 DEF HoldsFirst
  <2>3. NamedOnce(<<>>)
    BY <2>1 DEF NamedOnce
  <2> QED
    BY <1>1, <1>2, <2>2, <2>3
<1>4. ASSUME NEW n \in 1..Len(Servers), n - 1 \in Good PROVE n \in Good
  <2>1. /\ n - 1 \in Nat /\ (n - 1) + 1 = n /\ n \in 0..Len(Servers) /\ n <= Len(Servers)
        /\ Servers[n] \in ServerIds
    BY <1>2, ServersAreNumbered
  <2>2. HoldsFirst(n - 1, upTo[n - 1], all, targets) /\ NamedOnce(upTo[n - 1])
    BY <1>4
  <2>3. CASE Servers[n] \in targets
    <3>1. LET both == upTo[n - 1] \o all[Servers[n]] IN
            /\ HoldsFirst(n, both, all, targets)
            /\ NamedOnce(upTo[n - 1]) /\ NamedOnce(all[Servers[n]]) => NamedOnce(both)
      BY <2>1, <2>2, <2>3, OneMoreServer
    <3> QED
      BY <1>1, <2>1, <2>2, <2>3, <3>1
  <2>4. CASE Servers[n] \notin targets
    <3>1. upTo[n] = upTo[n - 1]
      BY <1>1, <2>4
    <3>2. ASSUME NEW i \in DOMAIN upTo[n - 1] PROVE Position(upTo[n - 1][i].server) <= n
      <4>1. upTo[n - 1][i].server \in ServerIds /\ Position(upTo[n - 1][i].server) <= n - 1
        BY <2>2 DEF HoldsFirst
      <4>2. Position(upTo[n - 1][i].server) \in Nat
        BY <4>1, ServersAreNumbered
      <4> QED
        BY <2>1, <4>1, <4>2
    <3>3. \A m \in 1..n : Servers[m] \in targets => m \in 1..(n - 1)
      BY <2>1, <2>4
    <3>4. HoldsFirst(n, upTo[n], all, targets)
      BY <2>2, <3>1, <3>2, <3>3 DEF HoldsFirst
    <3> QED
      BY <2>1, <2>2, <3>1, <3>4
  <2> QED
    BY <2>3, <2>4
<1>5. Len(Servers) \in Good
  <2> HIDE DEF Good
  <2>1. 0..Len(Servers) \subseteq Good
    BY <1>2, <1>3, <1>4, InductionUpTo
  <2> QED
    BY <1>2, <2>1
<1> QED
  BY <1>1, <1>5

\* The index: what fits under the cap, from the front of the flattened entries.
LEMMA RebuiltHolds ==
    ASSUME NEW all \in [ServerIds -> Seq(Entry)], NEW targets \in SUBSET ServerIds,
           Owned(all), \A s \in ServerIds : NamedOnce(all[s])
    PROVE  LET new == Rebuilt(all, targets) IN
           /\ new \in Seq(Entry) /\ Len(new) \in Nat /\ DOMAIN new = 1..Len(new)
           /\ Len(new) <= MaxTools /\ NamedOnce(new)
           /\ \A i \in DOMAIN new : /\ new[i] \in Entry /\ new[i].server \in targets
                                    /\ new[i] \in ToSet(all[new[i].server])
           /\ \A s \in targets : \A e \in ToSet(all[s]) \ ToSet(new) :
                /\ Len(new) = MaxTools
                /\ \A i \in DOMAIN new : Position(new[i].server) <= Position(s)
<1> DEFINE flat == Flattened(all, targets)
           size == IF Len(flat) < MaxTools THEN Len(flat) ELSE MaxTools
           new == Rebuilt(all, targets)
<1>1. HoldsFirst(Len(Servers), flat, all, targets) /\ NamedOnce(flat)
  BY FlattenedHolds
<1>2. new = SubSeq(flat, 1, size)
  BY DEF Rebuilt
<1> HIDE DEF new, flat
<1>3. flat \in Seq(Entry) /\ Len(flat) \in Nat /\ DOMAIN flat = 1..Len(flat)
  BY <1>1, LenProperties DEF HoldsFirst
<1>4. size \in Nat /\ size <= MaxTools /\ size <= Len(flat) /\ (size < Len(flat) => size = MaxTools)
  <2>1. Len(flat) \in Nat /\ MaxTools \in Nat
    BY <1>3, SettingsAssumption
  <2> QED
    BY <2>1
<1> HIDE DEF size
<1>5. \A i \in 1..size : i \in 1..Len(flat) /\ flat[i] \in Entry
  BY <1>3, <1>4, ElementOfSeq
<1>6. new \in Seq(Entry) /\ Len(new) = size /\ \A i \in 1..size : new[i] = flat[i]
  BY <1>2, <1>4, <1>5, SubSeqProperties
<1>7. DOMAIN new = 1..size
  BY <1>6, LenProperties
<1>8. NamedOnce(new)
  BY <1>1, <1>3, <1>5, <1>6, <1>7 DEF NamedOnce
<1>9. ASSUME NEW i \in DOMAIN new
      PROVE  new[i] \in Entry /\ new[i].server \in targets /\ new[i] \in ToSet(all[new[i].server])
  BY <1>1, <1>3, <1>5, <1>6, <1>7 DEF HoldsFirst
<1>10. ASSUME NEW s \in targets, NEW e \in ToSet(all[s]) \ ToSet(new)
       PROVE  size = MaxTools /\ \A i \in DOMAIN new : Position(new[i].server) <= Position(s)
  <2>1. e \in ToSet(flat)
    <3>1. Position(s) \in 1..Len(Servers) /\ Servers[Position(s)] = s
      BY ServersAreNumbered
    <3> QED
      BY <1>1, <3>1 DEF HoldsFirst
  <2>2. PICK p \in 1..Len(flat) : flat[p] = e
    BY <1>3, <2>1 DEF ToSet
  <2>3. ~ (p \in 1..size)
    BY <1>6, <1>7, <2>2 DEF ToSet
  <2>4. size < p /\ size < Len(flat)
    BY <1>3, <1>4, <2>3
  <2>5. e.server = s
    BY DEF Owned, ToSet
  <2>6. ASSUME NEW i \in 1..size PROVE Position(new[i].server) <= Position(s)
    <3>1. i \in 1..Len(flat) /\ i < p
      BY <1>4, <1>5, <2>4
    <3>2. Position(flat[i].server) <= Position(flat[p].server)
      BY <1>1, <1>3, <3>1 DEF HoldsFirst
    <3> QED
      BY <1>6, <2>2, <2>5, <3>2
  <2> QED
    BY <1>4, <1>7, <2>4, <2>6
<1>11. Len(new) \in Nat /\ DOMAIN new = 1..Len(new) /\ Len(new) <= MaxTools
  BY <1>4, <1>6, <1>7
<1> QED
  BY <1>6, <1>8, <1>9, <1>10, <1>11 DEF new
-----------------------------------------------------------------------------
(* The inductive invariant *)

\* The entries of one server: each may be used, none twice, no more than its share.
Sound(s, list) ==
    /\ Len(list) <= MaxToolsPerServer
    /\ \A i \in DOMAIN list :
         /\ list[i].server = s
         /\ list[i].name \in UsableNames \cap Allowed[s] /\ list[i].digest \notin Oversized
    /\ \A i, j \in DOMAIN list : list[i].name = list[j].name => i = j

\* With drift withheld, what is listed is what the baseline holds.
Accepted(list) ==
    onDrift = "withhold" =>
        \A i \in DOMAIN list : baseline[list[i].server][list[i].name] = list[i].digest

\* The entries a part of a refresh has gathered, and the tool whose scan it
\* awaits: the filters it passed before the scan still hold.
PartOK(s, part) ==
    /\ Sound(s, part.next) /\ Accepted(part.next)
    /\ part.stage = "scanning" =>
         /\ part.todo # <<>> /\ ~Droppable(s, Head(part.todo), part.next)
         /\ onDrift = "withhold" => ~Drifted(s, Head(part.todo))

\* Only the refresh in flight has parts, and it has one for each server that can
\* be dialled.
RefreshInv ==
    /\ \A k \in Rounds : k # inFlight => \A s \in ServerIds : work[k][s] = NoPart
    /\ inFlight # 0 => dialable \subseteq Targets(inFlight)
    /\ \A k \in Rounds, s \in ServerIds : PartOK(s, work[k][s])

\* What the servers have is sound and accepted, and so is the index, also while
\* the two differ.
IndexInv ==
    /\ \A s \in ServerIds : Sound(s, entries[s]) /\ Accepted(entries[s])
    /\ NamedOnce(index) /\ Accepted(index)
    /\ \A i \in DOMAIN index :
         index[i].name \in UsableNames \cap Allowed[index[i].server] /\ index[i].digest \notin Oversized
    /\ \A s \in ServerIds : Cardinality({i \in DOMAIN index : index[i].server = s}) <= MaxToolsPerServer

IInv == TypeOK /\ RefreshInv /\ IndexInv /\ EarlierServersWin

\* A server without entries is sound.
LEMMA NothingIsSound ==
    ASSUME NEW s \in ServerIds
    PROVE  /\ <<>> \in Seq(Entry) /\ <<>> \in Seq(Tool) /\ Sound(s, <<>>) /\ Accepted(<<>>)
           /\ NoPart \in Part /\ PartOK(s, NoPart)
<1>1. <<>> \in Seq(Entry) /\ <<>> \in Seq(Tool) /\ DOMAIN <<>> = {} /\ Len(<<>>) = 0
  BY EmptySeq
<1>2. Sound(s, <<>>) /\ Accepted(<<>>)
  BY <1>1, SettingsAssumption DEF Sound, Accepted
<1>3. NoPart \in Part
  BY <1>1 DEF NoPart, Part, Stages
<1> QED
  BY <1>1, <1>2, <1>3 DEF PartOK, NoPart

\* A part that is at something belongs to the refresh in flight.
LEMMA PartIsInFlight ==
    ASSUME TypeOK, RefreshInv, NEW k \in Rounds, NEW s \in ServerIds,
           work[k][s].stage # "absent"
    PROVE  k = inFlight /\ inFlight # 0 /\ s \in Targets(k) /\ work[k][s] \in Part
<1>1. work[k][s] # NoPart
  BY DEF NoPart
<1> QED
  BY <1>1 DEF RefreshInv, Targets, TypeOK, Rounds

\* Where one part moves on, the others stay what they were.
LEMMA PartMoves ==
    ASSUME TypeOK, RefreshInv, NEW k \in Rounds, NEW s \in ServerIds, NEW part \in Part,
           work[k][s].stage # "absent", part.stage # "absent",
           work' = [work EXCEPT ![k] = [work[k] EXCEPT ![s] = part]],
           UNCHANGED <<dialable, inFlight>>
    PROVE  /\ work' \in [Rounds -> [ServerIds -> Part]]
           /\ \A l \in Rounds, t \in ServerIds :
                work'[l][t] = IF l = k /\ t = s THEN part ELSE work[l][t]
           /\ \A l \in Rounds : l # inFlight' => \A t \in ServerIds : work'[l][t] = NoPart
           /\ inFlight' # 0 /\ dialable' \subseteq Targets(inFlight)'
<1>1. k = inFlight /\ inFlight # 0
  BY PartIsInFlight
<1>2. work \in [Rounds -> [ServerIds -> Part]]
  BY DEF TypeOK
<1>3. work' \in [Rounds -> [ServerIds -> Part]]
  BY <1>2
<1>4. \A l \in Rounds, t \in ServerIds :
        work'[l][t] = IF l = k /\ t = s THEN part ELSE work[l][t]
  BY <1>2
<1>5. \A l \in Rounds : l # inFlight' => \A t \in ServerIds : work'[l][t] = NoPart
  BY <1>1, <1>4 DEF RefreshInv
<1>6. ASSUME NEW t \in dialable' PROVE t \in ServerIds /\ work'[inFlight'][t].stage # "absent"
  <2>1. t \in Targets(inFlight) /\ t \in ServerIds
    BY <1>1, <1>6 DEF RefreshInv, TypeOK
  <2> QED
    BY <1>1, <1>4, <2>1 DEF Targets
<1> QED
  BY <1>1, <1>3, <1>4, <1>5, <1>6 DEF Targets

\* A part that gathers nothing in this step keeps the invariant.
LEMMA PartKeeps ==
    ASSUME IInv, NEW k \in Rounds, NEW s \in ServerIds, NEW part \in Part,
           work[k][s].stage # "absent", part.stage # "absent",
           work' = [work EXCEPT ![k] = [work[k] EXCEPT ![s] = part]],
           part.next = work[k][s].next,
           part.stage = "scanning" =>
             /\ part.todo # <<>> /\ ~Droppable(s, Head(part.todo), part.next)
             /\ onDrift = "withhold" => ~Drifted(s, Head(part.todo)),
           entries' = entries \/ entries' = [entries EXCEPT ![s] = part.next],
           UNCHANGED <<onDrift, dialable, baseline, index, started, inFlight>>
    PROVE  IInv'
<1>1. TypeOK /\ RefreshInv /\ IndexInv /\ EarlierServersWin
  BY DEF IInv
<1>2. /\ work' \in [Rounds -> [ServerIds -> Part]]
      /\ \A l \in Rounds, t \in ServerIds :
           work'[l][t] = IF l = k /\ t = s THEN part ELSE work[l][t]
      /\ \A l \in Rounds : l # inFlight' => \A t \in ServerIds : work'[l][t] = NoPart
      /\ inFlight' # 0 /\ dialable' \subseteq Targets(inFlight)'
  BY <1>1, PartMoves
<1>3. PartOK(s, part) /\ part.next \in Seq(Entry)
  BY <1>1 DEF RefreshInv, PartOK, Part
<1>4. \A l \in Rounds, t \in ServerIds : PartOK(t, work'[l][t])
  BY <1>1, <1>2, <1>3 DEF RefreshInv
<1>5. ASSUME NEW l \in Rounds, NEW t \in ServerIds PROVE PartOK(t, work[l][t])'
  <2>1. PartOK(t, work'[l][t])
    BY <1>4
  <2> QED
    BY <2>1 DEF PartOK, Accepted, Drifted
<1>6. RefreshInv'
  BY <1>2, <1>5 DEF RefreshInv
<1>7. entries' \in [ServerIds -> Seq(Entry)] /\ \A t \in ServerIds : entries'[t] \in {entries[t], part.next}
  BY <1>1, <1>3 DEF TypeOK
<1>8. \A t \in ServerIds : Sound(t, entries'[t]) /\ Accepted(entries'[t])
  <2>1. Sound(s, part.next) /\ Accepted(part.next)
    BY <1>3 DEF PartOK
  <2>2. \A t \in ServerIds : entries'[t] = entries[t] \/ (t = s /\ entries'[t] = part.next)
    BY <1>1 DEF TypeOK
  <2> QED
    BY <1>1, <2>1, <2>2 DEF IndexInv
<1>9. IndexInv'
  BY <1>1, <1>8 DEF IndexInv, Accepted
<1>10. TypeOK'
  BY <1>1, <1>2, <1>7 DEF TypeOK
<1>11. EarlierServersWin'
  BY <1>1, <1>2 DEF EarlierServersWin
<1> QED
  BY <1>6, <1>9, <1>10, <1>11 DEF IInv
\* An accepted tool was passed by the filters: the entries stay sound with it.
LEMMA OneMoreTool ==
    ASSUME NEW s \in ServerIds, NEW tool \in Tool, NEW next \in Seq(Entry),
           Sound(s, next), ~Droppable(s, tool, next)
    PROVE  /\ EntryOf(s, tool) \in Entry
           /\ Append(next, EntryOf(s, tool)) \in Seq(Entry)
           /\ Sound(s, Append(next, EntryOf(s, tool)))
<1> DEFINE e == EntryOf(s, tool)
           more == Append(next, e)
<1>1. e \in Entry /\ e.server = s /\ e.name = tool.name /\ e.digest = tool.digest
  BY DEF EntryOf, Entry, Tool
<1> HIDE DEF e
<1>2. PICK n \in Nat :
        /\ Len(next) = n /\ DOMAIN next = 1..n
        /\ more \in Seq(Entry) /\ Len(more) = n + 1 /\ DOMAIN more = 1..(n + 1)
        /\ \A i \in 1..n : more[i] = next[i]
        /\ more[n + 1] = e
  <2>1. Len(next) \in Nat /\ DOMAIN next = 1..Len(next)
    BY LenProperties
  <2>2. /\ more \in Seq(Entry) /\ Len(more) = Len(next) + 1
        /\ \A i \in 1..Len(next) : more[i] = next[i]
        /\ more[Len(next) + 1] = e
    BY <1>1, AppendProperties
  <2>3. DOMAIN more = 1..(Len(next) + 1)
    BY <2>2, LenProperties
  <2> QED
    BY <2>1, <2>2, <2>3
<1> HIDE DEF more
<1>3. /\ tool.name \in UsableNames /\ tool.name \in Allowed[s] /\ ~ Has(next, tool.name)
      /\ ~ (n >= MaxToolsPerServer) /\ tool.digest \notin Oversized
  BY <1>2 DEF Droppable
<1>4. n + 1 <= MaxToolsPerServer
  BY <1>3, SettingsAssumption
<1>5. ASSUME NEW i \in DOMAIN more
      PROVE  /\ more[i].server = s
             /\ more[i].name \in UsableNames \cap Allowed[s] /\ more[i].digest \notin Oversized
  <2>1. i \in 1..n \/ i = n + 1
    BY <1>2
  <2> QED
    BY <1>1, <1>2, <1>3, <2>1 DEF Sound
<1>6. ASSUME NEW i \in DOMAIN more, NEW j \in DOMAIN more, more[i].name = more[j].name
      PROVE  i = j
  <2>1. (i \in 1..n \/ i = n + 1) /\ (j \in 1..n \/ j = n + 1)
    BY <1>2
  <2>2. \A x \in 1..n : more[x].name # e.name
    BY <1>1, <1>2, <1>3 DEF Has
  <2> QED
    BY <1>2, <1>6, <2>1, <2>2 DEF Sound
<1>7. Sound(s, more)
  BY <1>2, <1>4, <1>5, <1>6 DEF Sound
<1> QED
  BY <1>1, <1>2, <1>7 DEF e, more

\* With drift withheld, a digest that is accepted is new or the one there was.
LEMMA StaysAccepted ==
    ASSUME TypeOK, NEW s \in ServerIds, NEW tool \in Tool,
           onDrift = "withhold" => ~Drifted(s, tool), UNCHANGED onDrift,
           baseline' = [baseline EXCEPT ![s] = [baseline[s] EXCEPT ![tool.name] = tool.digest]],
           NEW list \in Seq(Entry), Accepted(list)
    PROVE  Accepted(list)'
<1>1. list' = list
  OBVIOUS
<1> SUFFICES ASSUME onDrift = "withhold", NEW i \in DOMAIN list
             PROVE  baseline'[list[i].server][list[i].name] = list[i].digest
  BY <1>1 DEF Accepted
<1>2. list[i] \in Entry
  BY LenProperties
<1>3. /\ list[i].server \in ServerIds /\ list[i].name \in Names /\ list[i].digest \in Digests
      /\ list[i].digest # "none"
  BY <1>2, ToolsAssumption DEF Entry
<1>4. baseline[list[i].server][list[i].name] = list[i].digest
  BY DEF Accepted
<1>5. tool.name \in Names /\ baseline[s][tool.name] \in {"none", tool.digest}
  BY DEF Drifted, Tool
<1>6. baseline'[list[i].server][list[i].name] =
        IF list[i].server = s /\ list[i].name = tool.name THEN tool.digest
        ELSE baseline[list[i].server][list[i].name]
  BY <1>3, <1>5 DEF TypeOK
<1> QED
  BY <1>3, <1>4, <1>5, <1>6

\* What the steps of a part that accepts a tool have in common.
LEMMA AcceptedTool ==
    ASSUME IInv, NEW k \in Rounds, NEW s \in ServerIds, Accept(k, s)
    PROVE  LET tool == Head(work[k][s].todo) IN
           /\ work[k][s] \in Part /\ work[k][s].stage = "scanning" /\ work[k][s].todo # <<>>
           /\ tool \in Tool /\ ~Droppable(s, tool, work[k][s].next)
           /\ onDrift = "withhold" => ~Drifted(s, tool)
           /\ Sound(s, work[k][s].next) /\ Accepted(work[k][s].next)
           /\ baseline' = [baseline EXCEPT ![s] = [baseline[s] EXCEPT ![tool.name] = tool.digest]]
           /\ baseline' \in [ServerIds -> [Names -> Digests \cup {"none"}]]
           /\ \A r \in ServerIds, n \in Names :
                baseline'[r][n] = IF r = s /\ n = tool.name THEN tool.digest ELSE baseline[r][n]
<1> DEFINE tool == Head(work[k][s].todo)
<1>1. TypeOK /\ RefreshInv
  BY DEF IInv
<1>2. work[k][s].stage = "scanning"
  BY DEF Accept
<1>3. work[k][s] \in Part
  BY <1>1, <1>2, PartIsInFlight
<1>4. /\ work[k][s].todo # <<>> /\ ~Droppable(s, tool, work[k][s].next)
      /\ onDrift = "withhold" => ~Drifted(s, tool)
      /\ Sound(s, work[k][s].next) /\ Accepted(work[k][s].next)
  BY <1>1, <1>2 DEF RefreshInv, PartOK
<1>5. tool \in Tool
  <2>1. work[k][s].todo \in Seq(Tool)
    BY <1>3 DEF Part
  <2> QED
    BY <1>4, <2>1, HeadTailProperties
<1> HIDE DEF tool
<1>6. baseline' = [baseline EXCEPT ![s] = [baseline[s] EXCEPT ![tool.name] = tool.digest]]
  BY DEF Accept, tool
<1>7. tool.name \in Names /\ tool.digest \in Digests
  BY <1>5 DEF Tool
<1>8. baseline \in [ServerIds -> [Names -> Digests \cup {"none"}]]
  BY <1>1 DEF TypeOK
<1>9. \A r \in ServerIds, n \in Names :
        baseline'[r][n] = IF r = s /\ n = tool.name THEN tool.digest ELSE baseline[r][n]
  BY <1>6, <1>7, <1>8
<1>10. baseline' \in [ServerIds -> [Names -> Digests \cup {"none"}]]
  BY <1>6, <1>7, <1>8
<1> QED
  BY <1>2, <1>3, <1>4, <1>5, <1>6, <1>9, <1>10 DEF tool

LEMMA AcceptKeeps ==
    ASSUME IInv, NEW k \in Rounds, NEW s \in ServerIds, Accept(k, s)
    PROVE  IInv'
<1>1. TypeOK /\ RefreshInv /\ IndexInv /\ EarlierServersWin
  BY DEF IInv
<1>2. PICK tool \in Tool, next \in Seq(Entry), more \in Seq(Entry), part \in Part :
        /\ work[k][s].stage = "scanning" /\ part.stage = "examining" /\ part.next = more
        /\ Sound(s, more) /\ Accepted(next)
        /\ onDrift = "withhold" => ~Drifted(s, tool)
        /\ more = Append(next, EntryOf(s, tool)) /\ EntryOf(s, tool) \in Entry
        /\ work' = [work EXCEPT ![k] = [work[k] EXCEPT ![s] = part]]
        /\ baseline' = [baseline EXCEPT ![s] = [baseline[s] EXCEPT ![tool.name] = tool.digest]]
        /\ baseline' \in [ServerIds -> [Names -> Digests \cup {"none"}]]
        /\ \A r \in ServerIds, n \in Names :
             baseline'[r][n] = IF r = s /\ n = tool.name THEN tool.digest ELSE baseline[r][n]
  <2> DEFINE old == work[k][s]
             tool == Head(old.todo)
             part == [stage |-> "examining", todo |-> Tail(old.todo),
                      next |-> Append(old.next, EntryOf(s, tool))]
  <2>1. /\ old \in Part /\ old.stage = "scanning" /\ old.todo # <<>>
        /\ tool \in Tool /\ ~Droppable(s, tool, old.next)
        /\ onDrift = "withhold" => ~Drifted(s, tool)
        /\ Sound(s, old.next) /\ Accepted(old.next)
        /\ baseline' = [baseline EXCEPT ![s] = [baseline[s] EXCEPT ![tool.name] = tool.digest]]
        /\ baseline' \in [ServerIds -> [Names -> Digests \cup {"none"}]]
        /\ \A r \in ServerIds, n \in Names :
             baseline'[r][n] = IF r = s /\ n = tool.name THEN tool.digest ELSE baseline[r][n]
    BY AcceptedTool
  <2>2. work' = [work EXCEPT ![k] = [work[k] EXCEPT ![s] = part]]
    BY DEF Accept
  <2> HIDE DEF tool
  <2>3. old.next \in Seq(Entry) /\ old.todo \in Seq(Tool)
    BY <2>1 DEF Part
  <2>4. /\ EntryOf(s, tool) \in Entry /\ part.next \in Seq(Entry) /\ Sound(s, part.next)
        /\ part.todo \in Seq(Tool)
    BY <2>1, <2>3, OneMoreTool, HeadTailProperties
  <2>5. part \in Part /\ part.stage = "examining" /\ part.next = Append(old.next, EntryOf(s, tool))
    BY <2>4 DEF Part, Stages
  <2> HIDE DEF part
  <2> QED
    BY <2>1, <2>2, <2>3, <2>4, <2>5
<1>3. UNCHANGED <<onDrift, dialable, entries, index, started, inFlight>>
  BY DEF Accept
<1>4. /\ work' \in [Rounds -> [ServerIds -> Part]]
      /\ \A l \in Rounds, t \in ServerIds :
           work'[l][t] = IF l = k /\ t = s THEN part ELSE work[l][t]
      /\ \A l \in Rounds : l # inFlight' => \A t \in ServerIds : work'[l][t] = NoPart
      /\ inFlight' # 0 /\ dialable' \subseteq Targets(inFlight)'
  BY <1>1, <1>2, <1>3, PartMoves
<1>5. \A list \in Seq(Entry) : Accepted(list) => Accepted(list)'
  BY <1>1, <1>2, <1>3, StaysAccepted
<1>6. Accepted(more)'
  <2> SUFFICES ASSUME onDrift = "withhold", NEW i \in DOMAIN more
               PROVE  baseline'[more[i].server][more[i].name] = more[i].digest
    BY <1>3 DEF Accepted
  <2>1. Len(next) \in Nat /\ DOMAIN next = 1..Len(next)
    BY LenProperties
  <2>2. /\ Len(more) = Len(next) + 1 /\ more[Len(next) + 1] = EntryOf(s, tool)
        /\ \A j \in 1..Len(next) : more[j] = next[j]
    BY <1>2, AppendProperties
  <2>3. DOMAIN more = 1..(Len(next) + 1)
    BY <2>2, LenProperties
  <2>4. CASE i = Len(next) + 1
    <3>1. more[i] = EntryOf(s, tool) /\ tool.name \in Names
      BY <2>2, <2>4 DEF Tool
    <3> QED
      BY <1>2, <3>1 DEF EntryOf
  <2>5. CASE i # Len(next) + 1
    <3>1. i \in 1..Len(next)
      BY <2>1, <2>3, <2>5
    <3>2. Accepted(next)'
      BY <1>2, <1>5
    <3>3. baseline'[next[i].server][next[i].name] = next[i].digest
      BY <1>3, <2>1, <3>1, <3>2 DEF Accepted
    <3> QED
      BY <2>2, <3>1, <3>3
  <2> QED
    BY <2>4, <2>5
<1>7. ASSUME NEW l \in Rounds, NEW t \in ServerIds PROVE PartOK(t, work[l][t])'
  <2>1. CASE l = k /\ t = s
    <3>1. work'[l][t] = part /\ part.stage # "scanning" /\ part.next = more
      BY <1>2, <1>4, <2>1
    <3>2. Sound(t, more)
      BY <1>2, <2>1
    <3> QED
      BY <1>6, <3>1, <3>2 DEF PartOK, Accepted
  <2>2. CASE l = k /\ t # s
    <3>1. PICK old \in Part : old = work[l][t]
      BY <1>1 DEF TypeOK
    <3>2. old.next \in Seq(Entry) /\ PartOK(t, old)
      BY <1>1, <3>1 DEF Part, RefreshInv
    <3>3. Accepted(old.next)'
      BY <1>5, <3>2 DEF PartOK
    <3>4. baseline'[t] = baseline[t]
      BY <1>1, <1>2, <2>2 DEF TypeOK
    <3>5. PartOK(t, old)'
      BY <1>3, <3>2, <3>3, <3>4 DEF PartOK, Drifted
    <3>6. work'[l][t] = old
      BY <1>4, <2>2, <3>1
    <3> QED
      BY <3>5, <3>6 DEF PartOK
  <2>3. CASE l # k
    <3>1. work'[l][t] = NoPart
      <4>1. k = inFlight
        BY <1>1, <1>2, PartIsInFlight
      <4> QED
        BY <1>3, <1>4, <2>3, <4>1
    <3>2. NoPart.next = <<>> /\ NoPart.stage # "scanning" /\ DOMAIN <<>> = {}
      BY DEF NoPart
    <3>3. Sound(t, <<>>)
      BY NothingIsSound
    <3> QED
      BY <3>1, <3>2, <3>3 DEF PartOK, Accepted
  <2> QED
    BY <2>1, <2>2, <2>3
<1>8. RefreshInv'
  BY <1>4, <1>7 DEF RefreshInv
<1>9. IndexInv'
  <2>1. ASSUME NEW t \in ServerIds PROVE Sound(t, entries[t])' /\ Accepted(entries[t])'
    <3>1. PICK list \in Seq(Entry) : list = entries[t]
      BY <1>1 DEF TypeOK
    <3>2. Sound(t, list) /\ Accepted(list)'
      BY <1>1, <1>5, <3>1 DEF IndexInv
    <3>3. entries'[t] = list
      BY <1>3, <3>1
    <3> QED
      BY <3>2, <3>3 DEF Sound, Accepted
  <2>2. Accepted(index)'
    <3>1. PICK list \in Seq(Entry) : list = index
      BY <1>1 DEF TypeOK
    <3>2. Accepted(list)' /\ index' = list
      BY <1>1, <1>3, <1>5, <3>1 DEF IndexInv
    <3> QED
      BY <3>2 DEF Accepted
  <2> QED
    BY <1>1, <1>3, <2>1, <2>2 DEF IndexInv, NamedOnce
<1>10. TypeOK'
  BY <1>1, <1>2, <1>3, <1>4 DEF TypeOK
<1>11. EarlierServersWin'
  BY <1>1, <1>3, <1>4 DEF EarlierServersWin
<1> QED
  BY <1>8, <1>9, <1>10, <1>11 DEF IInv
\* A server's share of an index is not more than it has entries.
LEMMA ShareOfIndex ==
    ASSUME NEW list \in Seq(Entry), NamedOnce(list), NEW s, NEW mine \in Seq(Entry),
           Len(mine) <= MaxToolsPerServer,
           \A i \in DOMAIN list : list[i].server = s => list[i] \in ToSet(mine)
    PROVE  Cardinality({i \in DOMAIN list : list[i].server = s}) <= MaxToolsPerServer
<1> DEFINE theirs == {i \in DOMAIN list : list[i].server = s}
           at == [i \in theirs |-> CHOOSE p \in 1..Len(mine) : mine[p] = list[i]]
<1>1. Len(mine) \in Nat /\ DOMAIN mine = 1..Len(mine)
  BY LenProperties
<1>2. ASSUME NEW i \in theirs PROVE at[i] \in 1..Len(mine) /\ mine[at[i]] = list[i]
  <2>1. \E p \in 1..Len(mine) : mine[p] = list[i]
    BY <1>1 DEF ToSet
  <2> QED
    BY <2>1
<1> HIDE DEF at
<1>3. \A i, j \in theirs : at[i] = at[j] => i = j
  BY <1>2 DEF NamedOnce
<1>4. at \in Injection(theirs, 1..Len(mine))
  <2>1. at = [i \in theirs |-> at[i]] /\ DOMAIN at = theirs
    BY DEF at
  <2> HIDE DEF theirs
  <2>2. at \in [theirs -> 1..Len(mine)]
    BY <1>2, <2>1
  <2> QED
    BY <1>3, <2>1, <2>2 DEF Injection, IsInjective
<1> HIDE DEF theirs
<1>5. IsFiniteSet(1..Len(mine)) /\ Cardinality(1..Len(mine)) = Len(mine)
  <2>1. \A n \in Nat : IsFiniteSet(1..n) /\ Cardinality(1..n) = n
    BY FS_Interval
  <2> QED
    BY <1>1, <2>1
<1>6. IsFiniteSet(theirs) /\ Cardinality(theirs) <= Len(mine)
  BY <1>4, <1>5, FS_Injection
<1>7. Cardinality(theirs) \in Nat
  BY <1>6, FS_CardinalityType
<1>8. Cardinality(theirs) <= MaxToolsPerServer
  BY <1>1, <1>6, <1>7, SettingsAssumption
<1> QED
  BY <1>8 DEF theirs

\* The new index is made of sound and accepted entries of servers that stay.
LEMMA FinishRefreshKeeps ==
    ASSUME IInv, NEW k \in Rounds, FinishRefresh(k)
    PROVE  IInv'
<1>1. TypeOK /\ RefreshInv /\ IndexInv /\ EarlierServersWin
  BY DEF IInv
<1>2. PICK targets \in SUBSET ServerIds, all \in [ServerIds -> Seq(Entry)],
           new \in {Rebuilt(entries, Targets(k))} :
        /\ all = entries /\ new = Rebuilt(all, targets)
        /\ baseline' = [s \in ServerIds |-> IF s \in targets THEN baseline[s] ELSE NothingKnown]
        /\ entries' = [s \in ServerIds |-> IF s \in targets THEN all[s] ELSE <<>>]
        /\ index' = new /\ inFlight' = 0
        /\ work' = [work EXCEPT ![k] = [s \in ServerIds |-> NoPart]]
        /\ UNCHANGED <<onDrift, dialable, started>>
  BY <1>1 DEF FinishRefresh, Targets, TypeOK
<1>3. \A s \in ServerIds : Sound(s, all[s]) /\ Accepted(all[s]) /\ all[s] \in Seq(Entry)
  BY <1>1, <1>2 DEF IndexInv
<1>4. /\ new \in Seq(Entry) /\ Len(new) \in Nat /\ DOMAIN new = 1..Len(new)
      /\ Len(new) <= MaxTools /\ NamedOnce(new)
      /\ \A i \in DOMAIN new : /\ new[i] \in Entry /\ new[i].server \in targets
                               /\ new[i] \in ToSet(all[new[i].server])
      /\ \A s \in targets : \A e \in ToSet(all[s]) \ ToSet(new) :
           /\ Len(new) = MaxTools
           /\ \A i \in DOMAIN new : Position(new[i].server) <= Position(s)
  <2>1. Owned(all) /\ \A s \in ServerIds : NamedOnce(all[s])
    BY <1>3 DEF Owned, NamedOnce, Sound
  <2> QED
    BY <1>2, <2>1, RebuiltHolds
<1>5. \A l \in Rounds, s \in ServerIds : work'[l][s] = NoPart
  BY <1>1, <1>2, PartIsInFlight DEF TypeOK, RefreshInv, FinishRefresh
<1>6. TypeOK'
  <2>1. NothingKnown \in [Names -> Digests \cup {"none"}]
    BY DEF NothingKnown
  <2>2. baseline' \in [ServerIds -> [Names -> Digests \cup {"none"}]]
    BY <1>1, <1>2, <2>1 DEF TypeOK
  <2>3. \A s \in ServerIds : <<>> \in Seq(Entry) /\ NoPart \in Part
    BY NothingIsSound
  <2>4. entries' \in [ServerIds -> Seq(Entry)]
    BY <1>2, <2>3
  <2>5. work' \in [Rounds -> [ServerIds -> Part]]
    <3>1. [s \in ServerIds |-> NoPart] \in [ServerIds -> Part]
      BY <2>3
    <3> QED
      BY <1>1, <1>2, <3>1 DEF TypeOK
  <2>6. inFlight' \in 0..Refreshes
    BY <1>2, SettingsAssumption
  <2> QED
    BY <1>1, <1>2, <1>4, <2>2, <2>4, <2>5, <2>6 DEF TypeOK
<1>7. RefreshInv'
  <2>1. ASSUME NEW l \in Rounds, NEW s \in ServerIds PROVE PartOK(s, work[l][s])'
    <3>1. work'[l][s] = NoPart /\ Sound(s, <<>>) /\ DOMAIN <<>> = {}
      BY <1>5, NothingIsSound
    <3> QED
      BY <3>1 DEF PartOK, Accepted, NoPart
  <2> QED
    BY <1>2, <1>5, <2>1 DEF RefreshInv
<1>8. ASSUME NEW i \in DOMAIN new
      PROVE  /\ new[i].name \in UsableNames \cap Allowed[new[i].server]
             /\ new[i].digest \notin Oversized
             /\ onDrift = "withhold" => baseline'[new[i].server][new[i].name] = new[i].digest
  <2>1. PICK p \in DOMAIN all[new[i].server] : new[i] = all[new[i].server][p]
    BY <1>4 DEF ToSet
  <2>2. new[i].server \in targets /\ new[i].server \in ServerIds
    BY <1>4
  <2>3. Sound(new[i].server, all[new[i].server]) /\ Accepted(all[new[i].server])
    BY <1>3, <2>2
  <2>4. baseline'[new[i].server] = baseline[new[i].server]
    BY <1>2, <2>2
  <2> QED
    BY <2>1, <2>3, <2>4 DEF Sound, Accepted
<1>9. ASSUME NEW s \in ServerIds PROVE Sound(s, entries[s])' /\ Accepted(entries[s])'
  <2>1. CASE s \in targets
    <3>1. entries'[s] = all[s] /\ baseline'[s] = baseline[s]
      BY <1>2, <2>1
    <3>2. \A i \in DOMAIN all[s] : all[s][i].server = s
      BY <1>3 DEF Sound
    <3>3. Sound(s, entries'[s])
      BY <1>3, <3>1
    <3> QED
      BY <1>2, <1>3, <3>1, <3>2, <3>3 DEF Accepted
  <2>2. CASE s \notin targets
    <3>1. entries'[s] = <<>> /\ Sound(s, <<>>) /\ DOMAIN <<>> = {}
      BY <1>2, <2>2, NothingIsSound
    <3> QED
      BY <3>1 DEF Accepted
  <2> QED
    BY <2>1, <2>2
<1>10. IndexInv'
  <2>1. ASSUME NEW s \in ServerIds
        PROVE  Cardinality({i \in DOMAIN new : new[i].server = s}) <= MaxToolsPerServer
    <3>1. Len(all[s]) <= MaxToolsPerServer /\ all[s] \in Seq(Entry)
      BY <1>3 DEF Sound
    <3>2. \A i \in DOMAIN new : new[i].server = s => new[i] \in ToSet(all[s])
      BY <1>4
    <3>3. new \in Seq(Entry) /\ NamedOnce(new)
      BY <1>4
    <3> QED
      BY <3>1, <3>2, <3>3, ShareOfIndex
  <2>2. Accepted(index)'
    BY <1>2, <1>8 DEF Accepted
  <2>3. index' = new
    BY <1>2
  <2>4. NamedOnce(index)'
    BY <1>4, <2>3 DEF NamedOnce
  <2>5. \A i \in DOMAIN index' :
          /\ index'[i].name \in UsableNames \cap Allowed[index'[i].server]
          /\ index'[i].digest \notin Oversized
    BY <1>8, <2>3
  <2>6. \A s \in ServerIds :
          Cardinality({i \in DOMAIN index' : index'[i].server = s}) <= MaxToolsPerServer
    BY <2>1, <2>3
  <2> QED
    BY <1>9, <2>2, <2>4, <2>5, <2>6 DEF IndexInv
<1>11. EarlierServersWin'
  <2>1. ASSUME NEW s \in ServerIds, NEW e \in ToSet(entries'[s]) \ ToSet(new)
        PROVE  Len(new) = MaxTools /\ \A i \in DOMAIN new : Position(new[i].server) <= Position(s)
    <3>1. CASE s \in targets
      BY <1>2, <1>4, <2>1, <3>1
    <3>2. CASE s \notin targets
      <4>1. ToSet(entries'[s]) = {}
        BY <1>2, <3>2 DEF ToSet
      <4> QED
        BY <2>1, <4>1
    <3> QED
      BY <3>1, <3>2
  <2> QED
    BY <1>2, <1>4, <2>1 DEF EarlierServersWin
<1> QED
  BY <1>6, <1>7, <1>10, <1>11 DEF IInv
\* A refresh starts with a part for each server that can be dialled.
LEMMA RefreshKeeps ==
    ASSUME IInv, Refresh
    PROVE  IInv'
<1> DEFINE fresh == [NoPart EXCEPT !.stage = "listing"]
<1>1. TypeOK /\ RefreshInv /\ IndexInv /\ EarlierServersWin
  BY DEF IInv
<1>2. PICK k \in Rounds :
        /\ k = started + 1 /\ started' = k /\ inFlight' = k /\ inFlight = 0
        /\ work' = [work EXCEPT ![k] = [s \in ServerIds |-> IF s \in dialable THEN fresh ELSE NoPart]]
        /\ UNCHANGED <<onDrift, dialable, baseline, entries, index>>
  <2>1. started + 1 \in Rounds
    BY <1>1, SettingsAssumption DEF Refresh, MayRefresh, TypeOK, Rounds
  <2> QED
    BY <2>1 DEF Refresh, MayRefresh
<1>3. fresh.stage = "listing" /\ fresh.next = <<>> /\ fresh.todo = <<>> /\ NoPart.next = <<>>
      /\ NoPart.stage = "absent"
  BY DEF NoPart
<1>4. \A s \in ServerIds : NoPart \in Part /\ fresh \in Part
  BY NothingIsSound DEF NoPart, Part, Stages
<1> HIDE DEF fresh
<1>5. work' \in [Rounds -> [ServerIds -> Part]]
  <2>1. [s \in ServerIds |-> IF s \in dialable THEN fresh ELSE NoPart] \in [ServerIds -> Part]
    BY <1>4
  <2> QED
    BY <1>1, <1>2, <2>1 DEF TypeOK
<1>6. ASSUME NEW l \in Rounds, NEW s \in ServerIds
      PROVE  /\ work'[l][s] = IF l = k /\ s \in dialable THEN fresh ELSE NoPart
             /\ PartOK(s, work[l][s])'
  <2>1. work'[l][s] = IF l = k /\ s \in dialable THEN fresh ELSE NoPart
    <3>1. l # k => work[l][s] = NoPart
      BY <1>1, <1>2 DEF RefreshInv, Rounds
    <3> QED
      BY <1>1, <1>2, <3>1 DEF TypeOK
  <2>2. Sound(s, <<>>) /\ DOMAIN <<>> = {}
    BY NothingIsSound
  <2>3. work'[l][s].next = <<>> /\ work'[l][s].stage # "scanning"
    BY <1>3, <2>1
  <2> QED
    BY <2>1, <2>2, <2>3 DEF PartOK, Accepted
<1>7. RefreshInv'
  <2>1. dialable' \subseteq Targets(inFlight)'
    BY <1>1, <1>2, <1>3, <1>6 DEF Targets, TypeOK
  <2> QED
    BY <1>2, <1>6, <2>1 DEF RefreshInv
<1>8. TypeOK'
  BY <1>1, <1>2, <1>5 DEF TypeOK, Rounds
<1>9. IndexInv'
  BY <1>1, <1>2 DEF IndexInv, NamedOnce, Accepted, Sound
<1>10. EarlierServersWin'
  BY <1>1, <1>2 DEF EarlierServersWin, Rounds
<1> QED
  BY <1>7, <1>8, <1>9, <1>10 DEF IInv

LEMMA InitIInv == Init => IInv
<1> SUFFICES ASSUME Init PROVE IInv
  OBVIOUS
<1>1. \A s \in ServerIds : <<>> \in Seq(Entry) /\ Sound(s, <<>>) /\ Accepted(<<>>)
                            /\ NoPart \in Part /\ PartOK(s, NoPart)
  BY NothingIsSound
<1>2. <<>> \in Seq(Entry) /\ DOMAIN <<>> = {} /\ Len(<<>>) = 0 /\ ToSet(<<>>) = {}
  BY EmptySeq DEF ToSet
<1>3. TypeOK
  <2>1. NothingKnown \in [Names -> Digests \cup {"none"}]
    BY DEF NothingKnown
  <2> QED
    BY <1>1, <1>2, <2>1, SettingsAssumption DEF Init, TypeOK
<1>4. RefreshInv
  BY <1>1 DEF Init, RefreshInv
<1>5. IndexInv
  <2>1. \A s \in ServerIds : {i \in DOMAIN index : index[i].server = s} = {}
    BY <1>2 DEF Init
  <2>2. Cardinality({}) = 0 /\ 0 <= MaxToolsPerServer
    BY FS_EmptySet, SettingsAssumption
  <2> QED
    BY <1>1, <1>2, <2>1, <2>2 DEF Init, IndexInv, NamedOnce, Accepted
<1>6. EarlierServersWin
  BY <1>2, SettingsAssumption DEF Init, EarlierServersWin, ToSet
<1> QED
  BY <1>3, <1>4, <1>5, <1>6 DEF IInv

LEMMA NextIInv == IInv /\ [Next]_vars => IInv'
<1> SUFFICES ASSUME IInv, [Next]_vars PROVE IInv'
  OBVIOUS
<1>1. TypeOK /\ RefreshInv /\ IndexInv /\ EarlierServersWin
  BY DEF IInv
<1>2. ASSUME NEW k \in Rounds, NEW s \in ServerIds, work[k][s].stage # "absent"
      PROVE  work[k][s] \in Part
  BY <1>1 DEF TypeOK
<1>3. ASSUME NEW k \in Rounds, NEW s \in ServerIds, ListingFails(k, s) PROVE IInv'
  <2> DEFINE part == [work[k][s] EXCEPT !.stage = "failed"]
  <2>1. /\ work' = [work EXCEPT ![k] = [work[k] EXCEPT ![s] = part]]
        /\ work[k][s].stage = "listing"
        /\ UNCHANGED <<onDrift, dialable, baseline, entries, index, started, inFlight>>
    BY <1>3 DEF ListingFails
  <2>2. part \in Part /\ part.stage = "failed" /\ part.next = work[k][s].next
    BY <1>2, <2>1 DEF Part, Stages
  <2> HIDE DEF part
  <2> QED
    BY <2>1, <2>2, PartKeeps
<1>4. ASSUME NEW k \in Rounds, NEW s \in ServerIds, ListingReturns(k, s) PROVE IInv'
  <2>1. PICK listing \in Listings :
          /\ work' = [work EXCEPT ![k] = [work[k] EXCEPT
                        ![s] = [work[k][s] EXCEPT !.stage = "examining", !.todo = listing]]]
          /\ work[k][s].stage = "listing"
          /\ UNCHANGED <<onDrift, dialable, baseline, entries, index, started, inFlight>>
    BY <1>4 DEF ListingReturns
  <2> DEFINE part == [work[k][s] EXCEPT !.stage = "examining", !.todo = listing]
  <2>2. part \in Part /\ part.stage = "examining" /\ part.next = work[k][s].next
    BY <1>2, <2>1, ToolsAssumption DEF Part, Stages
  <2> HIDE DEF part
  <2>3. work' = [work EXCEPT ![k] = [work[k] EXCEPT ![s] = part]]
    BY <2>1 DEF part
  <2> QED
    BY <2>1, <2>2, <2>3, PartKeeps
<1>5. ASSUME NEW k \in Rounds, NEW s \in ServerIds, Skip(k, s) PROVE IInv'
  <2> DEFINE part == [work[k][s] EXCEPT !.todo = Tail(work[k][s].todo)]
  <2>1. /\ work' = [work EXCEPT ![k] = [work[k] EXCEPT ![s] = part]]
        /\ work[k][s].stage = "examining" /\ work[k][s].todo # <<>>
        /\ UNCHANGED <<onDrift, dialable, baseline, entries, index, started, inFlight>>
    BY <1>5 DEF Skip
  <2>2. Tail(work[k][s].todo) \in Seq(Tool)
    <3>1. work[k][s].todo \in Seq(Tool)
      BY <1>2, <2>1 DEF Part
    <3> QED
      BY <2>1, <3>1, HeadTailProperties
  <2>3. part \in Part /\ part.stage = "examining" /\ part.next = work[k][s].next
    BY <1>2, <2>1, <2>2 DEF Part
  <2> HIDE DEF part
  <2> QED
    BY <2>1, <2>3, PartKeeps
<1>6. ASSUME NEW k \in Rounds, NEW s \in ServerIds, Scan(k, s) PROVE IInv'
  <2> DEFINE part == [work[k][s] EXCEPT !.stage = "scanning"]
  <2>1. /\ work' = [work EXCEPT ![k] = [work[k] EXCEPT ![s] = part]]
        /\ work[k][s].stage = "examining" /\ work[k][s].todo # <<>>
        /\ ~Droppable(s, Head(work[k][s].todo), work[k][s].next)
        /\ Drifted(s, Head(work[k][s].todo)) => onDrift = "flag"
        /\ UNCHANGED <<onDrift, dialable, baseline, entries, index, started, inFlight>>
    BY <1>6 DEF Scan
  <2>2. /\ part \in Part /\ part.stage = "scanning" /\ part.next = work[k][s].next
        /\ part.todo = work[k][s].todo
    BY <1>2, <2>1 DEF Part, Stages
  <2> HIDE DEF part
  <2>3. /\ part.todo # <<>> /\ ~Droppable(s, Head(part.todo), part.next)
        /\ onDrift = "withhold" => ~Drifted(s, Head(part.todo))
    BY <2>1, <2>2
  <2> QED
    BY <2>1, <2>2, <2>3, PartKeeps
<1>7. ASSUME NEW k \in Rounds, NEW s \in ServerIds, FinishServer(k, s) PROVE IInv'
  <2> DEFINE part == [work[k][s] EXCEPT !.stage = "done"]
  <2>1. /\ work' = [work EXCEPT ![k] = [work[k] EXCEPT ![s] = part]]
        /\ work[k][s].stage = "examining"
        /\ entries' = [entries EXCEPT ![s] = work[k][s].next]
        /\ UNCHANGED <<onDrift, dialable, baseline, index, started, inFlight>>
    BY <1>7 DEF FinishServer
  <2>2. part \in Part /\ part.stage = "done" /\ part.next = work[k][s].next
    BY <1>2, <2>1 DEF Part, Stages
  <2> HIDE DEF part
  <2> QED
    BY <2>1, <2>2, PartKeeps
<1>8. CASE CloseRegistry
  <2>1. dialable' = {} /\ UNCHANGED <<onDrift, baseline, entries, index, started, inFlight, work>>
    BY <1>8 DEF CloseRegistry
  <2>2. TypeOK' /\ EarlierServersWin'
    BY <1>1, <2>1 DEF TypeOK, EarlierServersWin
  <2>3. RefreshInv'
    <3>1. \A k \in Rounds, s \in ServerIds : PartOK(s, work[k][s])'
      BY <1>1, <2>1 DEF RefreshInv, PartOK, Accepted, Drifted
    <3> QED
      BY <1>1, <2>1, <3>1 DEF RefreshInv
  <2>4. IndexInv'
    BY <1>1, <2>1 DEF IndexInv, NamedOnce, Accepted, Sound
  <2> QED
    BY <2>2, <2>3, <2>4 DEF IInv
<1>9. CASE UNCHANGED vars
  <2>1. TypeOK' /\ EarlierServersWin'
    BY <1>1, <1>9 DEF TypeOK, EarlierServersWin, vars
  <2>2. RefreshInv'
    <3>1. UNCHANGED <<onDrift, dialable, baseline, inFlight, work>>
      BY <1>9 DEF vars
    <3>2. \A k \in Rounds, s \in ServerIds : PartOK(s, work[k][s])'
      BY <1>1, <3>1 DEF RefreshInv, PartOK, Accepted, Drifted
    <3> QED
      BY <1>1, <3>1, <3>2 DEF RefreshInv, Targets
  <2>3. IndexInv'
    BY <1>1, <1>9 DEF IndexInv, NamedOnce, Accepted, Sound, vars
  <2> QED
    BY <2>1, <2>2, <2>3 DEF IInv
<1> QED
  BY <1>3, <1>4, <1>5, <1>6, <1>7, <1>8, <1>9, RefreshKeeps, AcceptKeeps, FinishRefreshKeeps
     DEF Next, ListingSettles, Progress

-----------------------------------------------------------------------------
(* Theorems *)

\* The invariant the others follow from.
THEOREM Inductive == Spec => []IInv
  BY InitIInv, NextIInv, PTL DEF Spec

\* Every variable keeps its type: a scan that is back finds the tool it was for.
THEOREM Typed == Spec => []TypeOK
<1>1. IInv => TypeOK
  BY DEF IInv
<1> QED
  BY <1>1, Inductive, PTL

\* With drift withheld, what agents see always is what the baseline holds, also
\* between the steps of a refresh.
THEOREM AdvertisedAccepted == Spec => []AdvertisedIsAccepted
<1>1. IInv => AdvertisedIsAccepted
  BY DEF IInv, IndexInv, Accepted, AdvertisedIsAccepted
<1> QED
  BY <1>1, Inductive, PTL

\* A qualified name resolves to one definition that may be used, and no server has
\* more than its share.
THEOREM Resolves == Spec => []IndexIsSound
<1>1. IInv => IndexIsSound
  BY DEF IInv, IndexInv, NamedOnce, IndexIsSound
<1> QED
  BY <1>1, Inductive, PTL

\* The global cap takes from the end of the configuration only.
THEOREM CapBitesLast == Spec => []EarlierServersWin
<1>1. IInv => EarlierServersWin
  BY DEF IInv
<1> QED
  BY <1>1, Inductive, PTL

\* No rug pull: while a server can be dialled, the first digest accepted for one of
\* its tools is never replaced.
THEOREM FirstStands == Spec => FirstDigestStands
<1> DEFINE Stands == onDrift = "withhold" =>
                       \A s \in dialable', n \in Names :
                          baseline[s][n] # "none" => baseline'[s][n] = baseline[s][n]
<1>1. ASSUME IInv, Next, NEW s \in dialable', NEW n \in Names, onDrift = "withhold",
             baseline[s][n] # "none"
      PROVE  baseline'[s][n] = baseline[s][n]
  <2>1. TypeOK /\ RefreshInv /\ s \in ServerIds /\ s \in dialable
    BY <1>1 DEF IInv, TypeOK, Next, Refresh, ListingSettles, ListingFails, ListingReturns, Progress,
                Skip, Scan, Accept, FinishServer, FinishRefresh, CloseRegistry
  <2>2. ASSUME NEW k \in Rounds, NEW r \in ServerIds, Accept(k, r)
        PROVE  baseline'[s][n] = baseline[s][n]
    <3> DEFINE tool == Head(work[k][r].todo)
    <3>1. /\ ~Drifted(r, tool)
          /\ baseline'[s][n] = IF s = r /\ n = tool.name THEN tool.digest ELSE baseline[s][n]
      BY <1>1, <2>1, <2>2, AcceptedTool
    <3> QED
      BY <1>1, <3>1 DEF Drifted
  <2>3. ASSUME NEW k \in Rounds, FinishRefresh(k) PROVE baseline'[s][n] = baseline[s][n]
    <3>1. s \in Targets(k)
      BY <2>1, <2>3 DEF FinishRefresh, RefreshInv, Rounds
    <3> QED
      BY <2>1, <2>3, <3>1 DEF FinishRefresh
  <2> QED
    BY <1>1, <2>2, <2>3
       DEF Next, Refresh, ListingSettles, ListingFails, ListingReturns, Progress, Skip, Scan,
           FinishServer, CloseRegistry
<1>2. ASSUME IInv, [Next]_vars PROVE [Stands]_vars
  BY <1>1, <1>2
<1> QED
  BY <1>2, Inductive, PTL DEF Spec, FirstDigestStands
=============================================================================
