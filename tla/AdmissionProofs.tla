---------------------------- MODULE AdmissionProofs ---------------------------
(***************************************************************************)
(* Theorems about Admission, for every configuration, catalog and policy   *)
(* bundle the code accepts, and every request; before them those about the *)
(* names it admits by: Naming, for every alphabet, every encoding that     *)
(* decodes what it encodes and every limit on lengths, and Headers, for    *)
(* every Base64 that can be undone.                                        *)
(***************************************************************************)
EXTENDS Admission, ScanningProofs, SequenceTheorems, WellFoundedInduction, TLAPS

-----------------------------------------------------------------------------
(* Naming *)

\* Every set of naturals that is not empty has a least element.
LEMMA LeastNatural ==
    ASSUME NEW T, T \subseteq Nat, T # {}
    PROVE  \E x \in T : \A y \in T : x <= y
<1> DEFINE R == OpToRel(<, Nat)
<1>1. \A a, b \in Nat : a < b => <<a, b>> \in R
  BY DEF OpToRel
<1>2. IsWellFoundedOn(R, Nat)
  BY NatLessThanWellFounded
<1> HIDE DEF R
<1>3. PICK x \in T : \A y \in T : ~ (<<y, x>> \in R)
  BY <1>2, WFMin
<1>4. \A y \in T : x <= y
  <2> SUFFICES ASSUME NEW y \in T, ~ (x <= y) PROVE FALSE
    OBVIOUS
  <2>1. x \in Nat /\ y \in Nat /\ y < x
    OBVIOUS
  <2>2. <<y, x>> \in R
    BY <2>1, <1>1
  <2> QED
    BY <2>2, <1>3
<1> QED
  BY <1>4

\* Split where the names meet: the parts and the characters of a qualified name.
LEMMA QualifyShape ==
    ASSUME NEW server \in Text, NEW name \in Text
    PROVE  LET q == Qualify(server, name)
               n == Len(server)
           IN  /\ q \in Text
               /\ n \in Nat /\ Len(q) = n + 2 + Len(name)
               /\ \A i \in 1..n : q[i] = server[i]
               /\ q[n + 1] = Underscore /\ q[n + 2] = Underscore
               /\ \A i \in 1..Len(name) : q[n + 2 + i] = name[i]
<1> DEFINE sep == <<Underscore, Underscore>>
           front == server \o sep
<1>1. sep \in Text /\ Len(sep) = 2 /\ sep[1] = Underscore /\ sep[2] = Underscore
  BY AlphabetAssumption DEF Text
<1>2. Len(server) \in Nat /\ Len(name) \in Nat
  BY DEF Text
<1>3. /\ front \in Text
      /\ Len(front) = Len(server) + 2
      /\ \A i \in 1..Len(server) + 2 :
           front[i] = IF i <= Len(server) THEN server[i] ELSE sep[i - Len(server)]
  BY <1>1, ConcatProperties DEF Text
<1>4. /\ front \o name \in Text
      /\ Len(front \o name) = Len(front) + Len(name)
      /\ \A i \in 1..Len(front) + Len(name) :
           (front \o name)[i] = IF i <= Len(front) THEN front[i] ELSE name[i - Len(front)]
  BY <1>3, ConcatProperties DEF Text
<1>5. Qualify(server, name) = front \o name
  BY DEF Qualify
<1> HIDE DEF front, sep
<1>6. \A i \in 1..Len(server) : (front \o name)[i] = server[i]
  BY <1>2, <1>3, <1>4
<1>7. (front \o name)[Len(server) + 1] = Underscore /\ (front \o name)[Len(server) + 2] = Underscore
  BY <1>1, <1>2, <1>3, <1>4
<1>8. \A i \in 1..Len(name) : (front \o name)[Len(server) + 2 + i] = name[i]
  BY <1>2, <1>3, <1>4
<1> QED
  BY <1>2, <1>3, <1>4, <1>5, <1>6, <1>7, <1>8

\* A server id has neither an underscore nor a slash in it.
LEMMA ServerIdCharacters ==
    ASSUME NEW server \in Text, IsValidServerId(server)
    PROVE  \A i \in 1..Len(server) : server[i] # Underscore /\ server[i] # Slash
BY AlphabetAssumption DEF IsValidServerId, Text

\* What comes before the first separator of a qualified name is the server id.
LEMMA FirstSeparatorOfQualified ==
    ASSUME NEW server \in Text, NEW name \in Text, IsValidServerId(server)
    PROVE  LET q == Qualify(server, name)
           IN  Separators(q) # {} /\ FirstSeparator(q) = Len(server) + 1
<1> DEFINE q == Qualify(server, name)
           at == Len(server) + 1
<1>1. /\ Len(server) \in Nat /\ Len(name) \in Nat
      /\ Len(q) = Len(server) + 2 + Len(name)
      /\ \A i \in 1..Len(server) : q[i] = server[i] /\ server[i] # Underscore
      /\ q[at] = Underscore /\ q[at + 1] = Underscore
  <2>1. Len(server) \in Nat /\ Len(name) \in Nat /\ at + 1 = Len(server) + 2
    BY DEF Text
  <2>2. \A i \in 1..Len(server) : server[i] # Underscore
    BY ServerIdCharacters
  <2> QED
    BY <2>1, <2>2, QualifyShape
<1> HIDE DEF q
<1>2. at \in Separators(q)
  BY <1>1 DEF Separators
<1>3. Separators(q) \subseteq Int
  BY <1>1 DEF Separators
<1>4. \A i \in Separators(q) : at <= i
  <2> SUFFICES ASSUME NEW i \in Separators(q), ~ (at <= i) PROVE FALSE
    OBVIOUS
  <2>1. i \in 1..Len(server)
    BY <1>1 DEF Separators
  <2> QED
    BY <2>1, <1>1 DEF Separators
<1>5. FirstSeparator(q) \in Separators(q) /\ \A j \in Separators(q) : FirstSeparator(q) <= j
  BY <1>2, <1>4 DEF FirstSeparator
<1>6. FirstSeparator(q) = at
  BY <1>1, <1>2, <1>3, <1>4, <1>5
<1> QED
  BY <1>2, <1>6 DEF q

\* parseQualifiedToolName undoes qualifyToolName, for every server id and name
\* the gateway admits: no two of them are given the same qualified name.
THEOREM QualifiedNamesRoundTrip ==
    ASSUME NEW server \in Text, NEW name \in Text,
           IsValidServerId(server), IsValidToolName(name)
    PROVE  ParseQualifiedName(Qualify(server, name)) = [server |-> server, name |-> name]
<1> DEFINE q == Qualify(server, name)
           n == Len(server)
<1>1. /\ q \in Text /\ n \in Nat /\ Len(name) \in Nat /\ Len(q) = n + 2 + Len(name)
      /\ \A i \in 1..n : q[i] = server[i]
      /\ \A i \in 1..Len(name) : q[n + 2 + i] = name[i]
  BY QualifyShape DEF Text
<1>2. Separators(q) # {} /\ FirstSeparator(q) = n + 1
  BY FirstSeparatorOfQualified
<1> HIDE DEF q
<1>3. SubSeq(q, 1, n + 1 - 1) = server
  <2>1. \A i \in 1..n : q[i] \in Characters
    BY <1>1 DEF Text
  <2>2. /\ SubSeq(q, 1, n) \in Text /\ Len(SubSeq(q, 1, n)) = n
        /\ \A i \in 1..n : SubSeq(q, 1, n)[i] = q[i]
    BY <2>1, <1>1, SubSeqProperties DEF Text
  <2> QED
    BY <2>2, <1>1, SeqEqual DEF Text
<1>4. SubSeq(q, n + 1 + 2, Len(q)) = name
  <2>1. \A i \in n + 3 .. Len(q) : q[i] \in Characters
    BY <1>1 DEF Text
  <2>2. /\ SubSeq(q, n + 3, Len(q)) \in Text /\ Len(SubSeq(q, n + 3, Len(q))) = Len(name)
        /\ \A i \in 1..Len(name) : SubSeq(q, n + 3, Len(q))[i] = q[n + 3 + i - 1]
    BY <2>1, <1>1, SubSeqProperties DEF Text
  <2>3. \A i \in 1..Len(name) : SubSeq(q, n + 3, Len(q))[i] = name[i]
    BY <2>2, <1>1
  <2>4. n + 1 + 2 = n + 3
    BY <1>1
  <2> QED
    BY <2>2, <2>3, <2>4, SeqEqual DEF Text
<1>5. /\ SubSeq(q, 1, FirstSeparator(q) - 1) = server
      /\ SubSeq(q, FirstSeparator(q) + 2, Len(q)) = name
  BY <1>2, <1>3, <1>4
<1>6. ParseQualifiedName(q) = [server |-> server, name |-> name]
  BY <1>2, <1>5, Zenon DEF ParseQualifiedName
<1> QED
  BY <1>6 DEF q
\* A split that parseQualifiedToolName accepts is a split of the name it was
\* given: put together again, the halves are that name.
THEOREM ParsedNamesRequalify ==
    ASSUME NEW q \in Text, ParseQualifiedName(q) # Unknown
    PROVE  LET parsed == ParseQualifiedName(q)
           IN  /\ parsed.server \in Text /\ parsed.name \in Text
               /\ IsValidServerId(parsed.server) /\ IsValidToolName(parsed.name)
               /\ Qualify(parsed.server, parsed.name) = q
<1> DEFINE at == FirstSeparator(q)
           server == SubSeq(q, 1, at - 1)
           name == SubSeq(q, at + 2, Len(q))
<1>1. /\ Separators(q) # {} /\ IsValidServerId(server) /\ IsValidToolName(name)
      /\ ParseQualifiedName(q) = [server |-> server, name |-> name]
  <2> DEFINE found == Separators(q) # {} /\ IsValidServerId(server) /\ IsValidToolName(name)
  <2>1. ParseQualifiedName(q) = IF found THEN [server |-> server, name |-> name] ELSE Unknown
    BY DEF ParseQualifiedName
  <2> HIDE DEF found
  <2>2. found
    BY <2>1
  <2>3. ParseQualifiedName(q) = [server |-> server, name |-> name]
    BY <2>1, <2>2
  <2> QED
    BY <2>2, <2>3 DEF found
<1>2. Len(q) \in Nat /\ \A i \in 1..Len(q) : q[i] \in Characters
  BY DEF Text
<1>3. at \in Separators(q)
  <2>1. Separators(q) \subseteq Nat
    BY <1>2 DEF Separators
  <2>2. \E i \in Separators(q) : \A j \in Separators(q) : i <= j
    BY <2>1, <1>1, LeastNatural
  <2> QED
    BY <2>2 DEF FirstSeparator
<1>4. at \in 1..Len(q) - 1 /\ q[at] = Underscore /\ q[at + 1] = Underscore
  BY <1>3 DEF Separators
<1> HIDE DEF at
<1>5. /\ server \in Text /\ Len(server) = at - 1
      /\ \A i \in 1..at - 1 : server[i] = q[i]
  <2>1. \A i \in 1..at - 1 : q[i] \in Characters
    BY <1>2, <1>4
  <2>2. /\ SubSeq(q, 1, at - 1) \in Seq(Characters)
        /\ Len(SubSeq(q, 1, at - 1)) = IF 1 <= at - 1 THEN at - 1 - 1 + 1 ELSE 0
        /\ \A i \in 1..at - 1 - 1 + 1 : SubSeq(q, 1, at - 1)[i] = q[1 + i - 1]
    BY <2>1, <1>4, SubSeqProperties
  <2> QED
    BY <2>2, <1>2, <1>4 DEF Text
<1>6. /\ name \in Text /\ Len(name) = Len(q) - at - 1
      /\ \A i \in 1..Len(q) - at - 1 : name[i] = q[at + 1 + i]
  <2>1. \A i \in at + 2 .. Len(q) : q[i] \in Characters
    BY <1>2, <1>4
  <2>2. /\ SubSeq(q, at + 2, Len(q)) \in Seq(Characters)
        /\ Len(SubSeq(q, at + 2, Len(q))) = IF at + 2 <= Len(q) THEN Len(q) - (at + 2) + 1 ELSE 0
        /\ \A i \in 1..Len(q) - (at + 2) + 1 : SubSeq(q, at + 2, Len(q))[i] = q[at + 2 + i - 1]
    BY <2>1, <1>2, <1>4, SubSeqProperties
  <2> QED
    BY <2>2, <1>2, <1>4 DEF Text
<1> HIDE DEF server, name
<1>7. Qualify(server, name) = q
  <2> DEFINE again == Qualify(server, name)
  <2>1. /\ again \in Text
        /\ Len(again) = Len(q)
        /\ \A i \in 1..at - 1 : again[i] = q[i]
        /\ again[at] = Underscore /\ again[at + 1] = Underscore
        /\ \A i \in 1..Len(name) : again[at + 1 + i] = name[i]
    <3>1. at - 1 + 1 = at /\ at - 1 + 2 = at + 1 /\ at - 1 + 2 + Len(name) = Len(q)
      BY <1>2, <1>4, <1>6
    <3>2. /\ again \in Text
          /\ Len(again) = Len(server) + 2 + Len(name)
          /\ \A i \in 1..Len(server) : again[i] = server[i]
          /\ again[Len(server) + 1] = Underscore /\ again[Len(server) + 2] = Underscore
          /\ \A i \in 1..Len(name) : again[Len(server) + 2 + i] = name[i]
      BY <1>5, <1>6, QualifyShape
    <3> HIDE DEF again
    <3> QED
      BY <3>1, <3>2, <1>5
  <2> HIDE DEF again
  <2>2. \A i \in 1..Len(q) : again[i] = q[i]
    <3> SUFFICES ASSUME NEW i \in 1..Len(q) PROVE again[i] = q[i]
      OBVIOUS
    <3>1. CASE i <= at - 1
      BY <3>1, <2>1, <1>2, <1>4
    <3>2. CASE i = at \/ i = at + 1
      BY <3>2, <2>1, <1>4
    <3>3. CASE i > at + 1
      <4>1. i - at - 1 \in 1..Len(q) - at - 1 /\ at + 1 + (i - at - 1) = i
        BY <3>3, <1>2, <1>4
      <4> QED
        BY <4>1, <2>1, <1>6
    <3> QED
      BY <3>1, <3>2, <3>3, <1>2, <1>4
  <2>3. again = q
    BY <2>1, <2>2, SeqEqual DEF Text
  <2> QED
    BY <2>3 DEF again
<1> QED
  BY <1>1, <1>5, <1>6, <1>7 DEF server, name

-----------------------------------------------------------------------------

\* Where the parts of a wrapped URI are.
LEMMA QualifyUriShape ==
    ASSUME NEW server \in Text, NEW uri \in Seq(Octets)
    PROVE  LET q == QualifyResourceUri(server, uri)
               n == Len(server)
           IN  /\ q \in Text
               /\ n \in Nat /\ Len(uri) \in Nat /\ Len(q) = n + 2 + Len(uri)
               /\ q[1] = Scheme /\ q[n + 2] = Slash
               /\ \A i \in 1..n : q[i + 1] = server[i]
               /\ \A i \in 1..Len(uri) : q[n + 2 + i] = Encode[uri[i]]
<1> DEFINE scheme == <<Scheme>>
           slash == <<Slash>>
           encoded == EncodeUri(uri)
           front == scheme \o server
           middle == front \o slash
           n == Len(server)
<1>1. /\ scheme \in Text /\ Len(scheme) = 1 /\ scheme[1] = Scheme
      /\ slash \in Text /\ Len(slash) = 1 /\ slash[1] = Slash
  BY AlphabetAssumption DEF Text
<1>2. n \in Nat /\ Len(uri) \in Nat /\ DOMAIN uri = 1..Len(uri)
  BY DEF Text
<1>3. /\ encoded \in Text /\ Len(encoded) = Len(uri)
      /\ \A i \in 1..Len(uri) : encoded[i] = Encode[uri[i]]
  <2>1. encoded = [i \in 1..Len(uri) |-> Encode[uri[i]]]
    BY <1>2 DEF EncodeUri
  <2>2. \A i \in 1..Len(uri) : Encode[uri[i]] \in Characters
    BY EncodingAssumption, ElementOfSeq
  <2>3. encoded \in Text
    BY <1>2, <2>1, <2>2, IsASeq DEF Text
  <2>4. Len(encoded) = Len(uri)
    BY <1>2, <2>1, <2>3, LenProperties DEF Text
  <2> QED
    BY <2>1, <2>3, <2>4
<1> HIDE DEF scheme, slash, encoded
<1>4. /\ front \in Text /\ Len(front) = 1 + n
      /\ \A i \in 1..1 + n : front[i] = IF i <= 1 THEN scheme[i] ELSE server[i - 1]
  <2>1. /\ front \in Text /\ Len(front) = Len(scheme) + Len(server)
        /\ \A i \in 1..Len(scheme) + Len(server) :
             front[i] = IF i <= Len(scheme) THEN scheme[i] ELSE server[i - Len(scheme)]
    BY <1>1, ConcatProperties DEF Text
  <2> QED
    BY <2>1, <1>1
<1> HIDE DEF front
<1>5. /\ middle \in Text /\ Len(middle) = Len(front) + 1
      /\ \A i \in 1..Len(front) + 1 :
           middle[i] = IF i <= Len(front) THEN front[i] ELSE slash[i - Len(front)]
  <2>1. /\ middle \in Text /\ Len(middle) = Len(front) + Len(slash)
        /\ \A i \in 1..Len(front) + Len(slash) :
             middle[i] = IF i <= Len(front) THEN front[i] ELSE slash[i - Len(front)]
    BY <1>1, <1>4, ConcatProperties DEF Text
  <2> QED
    BY <2>1, <1>1
<1> HIDE DEF middle
<1> DEFINE q == middle \o encoded
<1>6. /\ q \in Text /\ Len(q) = Len(middle) + Len(encoded)
      /\ \A i \in 1..Len(middle) + Len(encoded) :
           q[i] = IF i <= Len(middle) THEN middle[i] ELSE encoded[i - Len(middle)]
  BY <1>3, <1>5, ConcatProperties DEF Text
<1> HIDE DEF q, n
<1>7. Len(front) = n + 1 /\ Len(middle) = n + 2 /\ Len(q) = n + 2 + Len(uri)
  BY <1>2, <1>3, <1>4, <1>5, <1>6
<1>8. \A i \in 1..n + 1 : q[i] = front[i]
  BY <1>2, <1>3, <1>5, <1>6, <1>7
<1>9. q[1] = Scheme /\ \A i \in 1..n : q[i + 1] = server[i]
  BY <1>1, <1>2, <1>4, <1>8
<1>10. q[n + 2] = Slash
  BY <1>1, <1>2, <1>3, <1>5, <1>6, <1>7
<1>11. \A i \in 1..Len(uri) : q[n + 2 + i] = Encode[uri[i]]
  BY <1>2, <1>3, <1>6, <1>7
<1>12. QualifyResourceUri(server, uri) = q
  BY DEF QualifyResourceUri, q, middle, front, scheme, slash, encoded
<1> QED
  BY <1>2, <1>6, <1>7, <1>9, <1>10, <1>11, <1>12 DEF n

\* What follows the scheme is split where the server id ends.
LEMMA FirstSlashOfQualified ==
    ASSUME NEW server \in Text, NEW uri \in Seq(Octets), IsValidServerId(server)
    PROVE  LET rest == Tail(QualifyResourceUri(server, uri))
           IN  /\ rest \in Text
               /\ Len(rest) = Len(server) + 1 + Len(uri)
               /\ \A i \in 1..Len(server) : rest[i] = server[i]
               /\ \A i \in 1..Len(uri) : rest[Len(server) + 1 + i] = Encode[uri[i]]
               /\ Slashes(rest) # {} /\ FirstSlash(rest) = Len(server) + 1
<1> DEFINE q == QualifyResourceUri(server, uri)
           rest == Tail(q)
           n == Len(server)
<1>1. /\ q \in Text /\ n \in Nat /\ Len(uri) \in Nat /\ Len(q) = n + 2 + Len(uri)
      /\ q[n + 2] = Slash
      /\ \A i \in 1..n : q[i + 1] = server[i]
      /\ \A i \in 1..Len(uri) : q[n + 2 + i] = Encode[uri[i]]
  BY QualifyUriShape
<1> HIDE DEF q
<1>2. \A i \in 1..n : server[i] # Slash
  BY ServerIdCharacters
<1> HIDE DEF n
<1>3. /\ rest \in Text /\ Len(rest) = n + 1 + Len(uri)
      /\ \A i \in 1..n + 1 + Len(uri) : rest[i] = q[i + 1]
  <2>1. q # <<>>
    BY <1>1
  <2> QED
    BY <1>1, <2>1, HeadTailProperties DEF Text
<1> HIDE DEF rest
<1>4. \A i \in 1..n : rest[i] = server[i] /\ rest[i] # Slash
  BY <1>1, <1>2, <1>3
<1>5. rest[n + 1] = Slash
  BY <1>1, <1>3
<1>6. \A i \in 1..Len(uri) : rest[n + 1 + i] = Encode[uri[i]]
  BY <1>1, <1>3
<1>7. Slashes(rest) \subseteq Int /\ n + 1 \in Slashes(rest)
  BY <1>1, <1>3, <1>5 DEF Slashes, Text
<1>8. \A i \in Slashes(rest) : n + 1 <= i
  <2> SUFFICES ASSUME NEW i \in Slashes(rest), ~ (n + 1 <= i) PROVE FALSE
    OBVIOUS
  <2>1. i \in 1..n /\ rest[i] = Slash
    BY <1>1, <1>3 DEF Slashes, Text
  <2> QED
    BY <2>1, <1>4
<1>9. /\ FirstSlash(rest) \in Slashes(rest)
      /\ \A j \in Slashes(rest) : FirstSlash(rest) <= j
  BY <1>7, <1>8 DEF FirstSlash
<1>10. FirstSlash(rest) = n + 1
  BY <1>1, <1>7, <1>8, <1>9
<1> QED
  BY <1>3, <1>4, <1>6, <1>7, <1>10 DEF rest, q, n

\* parseQualifiedResourceUri undoes qualifyResourceUri, byte for byte, for every
\* URI an upstream may serve but the empty one.
THEOREM ResourceUrisRoundTrip ==
    ASSUME NEW server \in Text, NEW uri \in Seq(Octets),
           IsValidServerId(server), uri # <<>>
    PROVE  ParseQualifiedResourceUri(QualifyResourceUri(server, uri))
             = [server |-> server, name |-> uri]
<1> DEFINE q == QualifyResourceUri(server, uri)
           rest == Tail(q)
           n == Len(server)
           encoded == SubSeq(rest, FirstSlash(rest) + 1, Len(rest))
<1>1. /\ rest \in Text /\ Len(rest) = n + 1 + Len(uri)
      /\ \A i \in 1..n : rest[i] = server[i]
      /\ \A i \in 1..Len(uri) : rest[n + 1 + i] = Encode[uri[i]]
      /\ Slashes(rest) # {} /\ FirstSlash(rest) = n + 1
  BY FirstSlashOfQualified
<1>2. /\ q \in Text /\ n \in Nat /\ Len(uri) \in Nat /\ Len(q) = n + 2 + Len(uri)
      /\ q[1] = Scheme
  BY QualifyUriShape
<1>3. /\ uri \in Seq(Octets) /\ Len(uri) >= 1 /\ DOMAIN uri = 1..Len(uri)
      /\ \A i \in 1..Len(uri) : uri[i] \in Octets
  BY <1>2, EmptySeq
<1>4. q # <<>> /\ Head(q) = Scheme
  BY <1>2 DEF Text
<1>5. Canonical(q, server, uri)
  BY DEF Canonical
<1> HIDE DEF q, rest, n
<1>6. \A i \in 1..Len(rest) : rest[i] \in Characters
  BY <1>1 DEF Text
<1>7. SubSeq(rest, 1, FirstSlash(rest) - 1) = server
  <2>1. /\ SubSeq(rest, 1, n) \in Seq(Characters)
        /\ Len(SubSeq(rest, 1, n)) = IF 1 <= n THEN n - 1 + 1 ELSE 0
        /\ \A i \in 1..n - 1 + 1 : SubSeq(rest, 1, n)[i] = rest[1 + i - 1]
    <3>1. \A i \in 1..n : rest[i] \in Characters
      BY <1>1, <1>2, <1>6
    <3> QED
      BY <1>2, <3>1, SubSeqProperties
  <2>2. Len(SubSeq(rest, 1, n)) = n /\ \A i \in 1..n : SubSeq(rest, 1, n)[i] = server[i]
    BY <2>1, <1>1, <1>2
  <2>3. SubSeq(rest, 1, n) = server
    BY <2>1, <2>2, <1>2, SeqEqual DEF Text, n
  <2>4. FirstSlash(rest) - 1 = n
    BY <1>1, <1>2
  <2> QED
    BY <2>3, <2>4
<1>8. /\ encoded \in Seq(Characters) /\ Len(encoded) = Len(uri)
      /\ \A i \in 1..Len(uri) : encoded[i] = Encode[uri[i]]
  <2>1. \A i \in n + 2 .. Len(rest) : rest[i] \in Characters
    BY <1>1, <1>2, <1>6
  <2>2. /\ SubSeq(rest, n + 2, Len(rest)) \in Seq(Characters)
        /\ Len(SubSeq(rest, n + 2, Len(rest)))
             = IF n + 2 <= Len(rest) THEN Len(rest) - (n + 2) + 1 ELSE 0
        /\ \A i \in 1..Len(rest) - (n + 2) + 1 :
             SubSeq(rest, n + 2, Len(rest))[i] = rest[n + 2 + i - 1]
    BY <1>1, <1>2, <2>1, SubSeqProperties
  <2>3. encoded = SubSeq(rest, n + 2, Len(rest))
    <3>1. FirstSlash(rest) + 1 = n + 2
      BY <1>1, <1>2
    <3> QED
      BY <3>1
  <2> HIDE DEF encoded
  <2>4. Len(rest) - (n + 2) + 1 = Len(uri) /\ n + 2 <= Len(rest)
    BY <1>1, <1>2, <1>3
  <2>5. \A i \in 1..Len(uri) : encoded[i] = rest[n + 1 + i]
    BY <2>2, <2>3, <2>4, <1>2
  <2> QED
    BY <2>2, <2>3, <2>4, <2>5, <1>1
<1> HIDE DEF encoded
<1>9. DOMAIN encoded = 1..Len(uri) /\ encoded # <<>>
  BY <1>8, <1>2, <1>3
<1>10. \A i \in 1..Len(uri) : encoded[i] \in Spellings /\ Decode[encoded[i]] = uri[i]
  BY <1>3, <1>8, EncodingAssumption
<1>11. DecodeUri(encoded) = uri
  <2>1. DecodeUri(encoded) = [i \in 1..Len(uri) |-> Decode[encoded[i]]]
    BY <1>9 DEF DecodeUri
  <2>2. DecodeUri(encoded) = [i \in 1..Len(uri) |-> uri[i]]
    BY <2>1, <1>10
  <2>3. uri = [i \in 1..Len(uri) |-> uri[i]]
    BY <1>3
  <2> QED
    BY <2>2, <2>3
<1>12. \A i \in DOMAIN encoded : encoded[i] \in Spellings /\ DecodeUri(encoded)[i] \in Octets
  BY <1>3, <1>9, <1>10, <1>11
<1>13. ParseQualifiedResourceUri(q) = [server |-> server, name |-> uri]
  BY <1>1, <1>4, <1>5, <1>7, <1>9, <1>11, <1>12, Zenon DEF ParseQualifiedResourceUri, rest, encoded
<1> QED
  BY <1>13 DEF q

\* Only the canonical spelling is accepted: a URI that parses is the one its
\* server and upstream URI are given when they are advertised, so a resource has
\* one name and a policy about it cannot be passed by under another.
THEOREM ParsedUrisRequalify ==
    ASSUME NEW q, ParseQualifiedResourceUri(q) # Unknown
    PROVE  LET parsed == ParseQualifiedResourceUri(q)
           IN  IsValidServerId(parsed.server) /\ QualifyResourceUri(parsed.server, parsed.name) = q
<1> DEFINE rest == Tail(q)
           at == FirstSlash(rest)
           server == SubSeq(rest, 1, at - 1)
           encoded == SubSeq(rest, at + 1, Len(rest))
           uri == DecodeUri(encoded)
           accepted == /\ q # <<>> /\ Head(q) = Scheme
                       /\ Slashes(rest) # {}
                       /\ IsValidServerId(server)
                       /\ encoded # <<>>
                       /\ \A i \in DOMAIN encoded : encoded[i] \in Spellings /\ uri[i] \in Octets
                       /\ Canonical(q, server, uri)
<1>1. ParseQualifiedResourceUri(q)
        = IF accepted THEN [server |-> server, name |-> uri] ELSE Unknown
  BY DEF ParseQualifiedResourceUri
<1>2. accepted => IsValidServerId(server) /\ QualifyResourceUri(server, uri) = q
  BY DEF Canonical
<1> HIDE DEF accepted, server, uri
<1>3. accepted /\ ParseQualifiedResourceUri(q) = [server |-> server, name |-> uri]
  BY <1>1
<1> QED
  BY <1>2, <1>3

-----------------------------------------------------------------------------
(* Headers *)

\* What has no blank at either end arrives whole.
LEMMA CarriedWhole ==
    ASSUME NEW S, NEW value \in Seq(S),
           value # <<>> => value[1] \notin Blank /\ value[Len(value)] \notin Blank
    PROVE  Carried(value) = value
<1> DEFINE kept == {i \in DOMAIN value : value[i] \notin Blank}
           n == Len(value)
<1>1. n \in Nat /\ DOMAIN value = 1..n
  OBVIOUS
<1>2. CASE value = <<>>
  <2>1. kept = {}
    BY <1>2
  <2> QED
    BY <2>1, <1>2 DEF Carried
<1>3. CASE value # <<>>
  <2>1. n > 0
    BY <1>3, <1>1, EmptySeq
  <2>2. 1 \in kept /\ n \in kept /\ kept \subseteq 1..n
    BY <2>1, <1>1, <1>3
  <2>3. (CHOOSE i \in kept : \A j \in kept : i <= j) = 1
    <3>1. \A j \in kept : 1 <= j
      BY <2>2
    <3>2. \A i \in kept : (\A j \in kept : i <= j) => i = 1
      BY <2>2, <1>1
    <3> HIDE DEF kept
    <3> QED
      BY <3>1, <3>2, <2>2
  <2>4. (CHOOSE i \in kept : \A j \in kept : j <= i) = n
    <3>1. \A j \in kept : j <= n
      BY <2>2
    <3>2. \A i \in kept : (\A j \in kept : j <= i) => i = n
      BY <2>2, <1>1
    <3> HIDE DEF kept, n
    <3> QED
      BY <3>1, <3>2, <2>2
  <2>5. Carried(value) = SubSeq(value, 1, n)
    BY <2>2, <2>3, <2>4 DEF Carried
  <2> QED
    BY <2>5, SubSeqFull
<1> QED
  BY <1>2, <1>3

\* The wrapper and what is inside.
LEMMA WrappedShape ==
    ASSUME NEW value \in Seq(Encodable)
    PROVE  LET h == Wrapped(value)
               n == Len(value)
           IN  /\ n \in Nat /\ h \in Seq(Visible) /\ Len(h) = n + 2
               /\ h[1] = Prefix /\ h[n + 2] = Suffix
               /\ \A i \in 1..n : h[i + 1] = Base64[value[i]]
<1> DEFINE n == Len(value)
           payload == [i \in DOMAIN value |-> Base64[value[i]]]
           front == <<Prefix>> \o payload
<1>1. n \in Nat /\ DOMAIN value = 1..n /\ \A i \in 1..n : value[i] \in Encodable
  OBVIOUS
<1>2. payload \in Seq(Visible) /\ Len(payload) = n
  <2>1. payload \in [1..n -> Visible]
    BY <1>1, HeaderAssumption
  <2> HIDE DEF payload
  <2> QED
    BY <2>1, <1>1
<1>3. \A i \in 1..n : payload[i] = Base64[value[i]]
  BY <1>1
<1>4. <<Prefix>> \in Seq(Visible) /\ <<Suffix>> \in Seq(Visible)
  BY HeaderAssumption
<1> HIDE DEF payload
<1>5. /\ front \in Seq(Visible) /\ Len(front) = n + 1
      /\ front[1] = Prefix
      /\ \A i \in 1..n : front[i + 1] = payload[i]
  BY <1>1, <1>2, <1>4, ConcatProperties
<1> HIDE DEF front
<1>6. LET h == front \o <<Suffix>>
      IN  /\ h \in Seq(Visible) /\ Len(h) = n + 2
          /\ h[n + 2] = Suffix
          /\ \A i \in 1..(n + 1) : h[i] = front[i]
  BY <1>1, <1>4, <1>5, ConcatProperties
<1>7. Wrapped(value) = front \o <<Suffix>>
  BY DEF Wrapped, front, payload
<1> QED
  BY <1>1, <1>3, <1>5, <1>6, <1>7

\* A name or URI that does not start with a byte order mark agrees with the
\* header built from it: what travels as it is, what must be wrapped, and what
\* looks wrapped although it is not.
THEOREM HeaderValuesRoundTrip ==
    ASSUME NEW value \in Seq(Encodable), value # <<>> => value[1] # ByteOrderMark
    PROVE  HeaderMatchesBody(value)
<1> DEFINE n == Len(value)
<1>1. n \in Nat /\ DOMAIN value = 1..n /\ \A i \in 1..n : value[i] \in Encodable
  OBVIOUS
<1>2. CASE IsHeaderSafe(value) /\ ~LooksBase64Encoded(value)
  <2>1. EncodeHeaderValue(value) = value
    BY <1>2 DEF EncodeHeaderValue
  <2>2. Carried(value) = value
    BY <1>2, CarriedWhole DEF IsHeaderSafe
  <2>3. DecodeHeaderValue(value) = value
    BY <1>2 DEF DecodeHeaderValue
  <2> QED
    BY <2>1, <2>2, <2>3 DEF HeaderMatchesBody
<1>3. CASE ~(IsHeaderSafe(value) /\ ~LooksBase64Encoded(value))
  <2> DEFINE h == Wrapped(value)
             payload == SubSeq(h, 2, Len(h) - 1)
  <2>1. EncodeHeaderValue(value) = h
    BY <1>3 DEF EncodeHeaderValue
  <2>2. /\ h \in Seq(Visible) /\ Len(h) = n + 2
        /\ h[1] = Prefix /\ h[n + 2] = Suffix
        /\ \A i \in 1..n : h[i + 1] = Base64[value[i]]
    BY WrappedShape
  <2> HIDE DEF h
  <2>3. Carried(h) = h
    BY <2>2, <1>1, HeaderAssumption, CarriedWhole
  <2>4. LooksBase64Encoded(h)
    BY <2>2, <1>1 DEF LooksBase64Encoded
  <2>5. Len(payload) = n /\ DOMAIN payload = 1..n /\ \A i \in 1..n : payload[i] = h[i + 1]
    <3>1. Len(h) - 1 = n + 1
      BY <2>2, <1>1
    <3>2. payload = SubSeq(h, 2, n + 1)
      BY <3>1
    <3> HIDE DEF payload
    <3> QED
      BY <3>2, <2>2, <1>1, SubSeqProperties
  <2> HIDE DEF payload
  <2>6. \A i \in DOMAIN payload : payload[i] \in DOMAIN Unbase64 /\ Unbase64[payload[i]] = value[i]
    BY <2>2, <2>5, <1>1, HeaderAssumption
  <2>7. [i \in DOMAIN payload |-> Unbase64[payload[i]]] = value
    <3>1. \A i \in DOMAIN value : [j \in DOMAIN payload |-> Unbase64[payload[j]]][i] = value[i]
      BY <2>5, <2>6, <1>1
    <3>2. DOMAIN value = DOMAIN payload
      BY <2>5, <1>1
    <3> QED
      BY <3>1, <3>2
  <2>8. DecodeHeaderValue(h) = DecodeUtf8(value)
    BY <2>4, <2>6, <2>7 DEF DecodeHeaderValue, payload
  <2>9. DecodeUtf8(value) = value
    BY DEF DecodeUtf8
  <2> QED
    BY <2>1, <2>3, <2>8, <2>9 DEF HeaderMatchesBody
<1> QED
  BY <1>2, <1>3

-----------------------------------------------------------------------------
(* Admission *)

\* No two pairs of a server and a name share a qualified name.
LEMMA QualifyInjective ==
    ASSUME NEW s1 \in Text, NEW n1 \in Text, IsValidServerId(s1), IsValidToolName(n1),
           NEW s2 \in Text, NEW n2 \in Text, IsValidServerId(s2), IsValidToolName(n2),
           Qualify(s1, n1) = Qualify(s2, n2)
    PROVE  s1 = s2 /\ n1 = n2
<1>1. [server |-> s1, name |-> n1] = [server |-> s2, name |-> n2]
  BY QualifiedNamesRoundTrip
<1> QED
  BY <1>1

\* The catalog has one entry for each tool of each server.
OneEntryEach ==
    \A x, y \in catalog : x.server = y.server /\ x.tool = y.tool => x = y

\* The verdict of an entry is one its definition earns.
VerdictsEarned == \A e \in catalog : EarnedByTool(e.definition, e.verdict)

Inv == TypeOK /\ OneEntryEach /\ VerdictsEarned

\* What the configuration schema accepted.
LEMMA ConfigType ==
    ASSUME TypeOK
    PROVE  /\ \A i \in DOMAIN config : /\ config[i].id \in Text
                                       /\ IsValidServerId(config[i].id)
                                       /\ config[i].trust \in Trusts
           /\ \A i, j \in DOMAIN config : config[i].id = config[j].id => i = j
<1>1. config \in Seq([id : Text, trust : Trusts, enabled : BOOLEAN])
  BY InputsAssumption DEF TypeOK
<1>2. \A i \in DOMAIN config : config[i] \in [id : Text, trust : Trusts, enabled : BOOLEAN]
  BY <1>1, ElementOfSeq, LenProperties
<1> QED
  BY <1>2 DEF TypeOK, Acceptable, ServerIdSchema

\* An entry of the catalog, by its name.
LEMMA EntryType ==
    ASSUME TypeOK, NEW e \in catalog
    PROVE  /\ e.server \in Text /\ IsValidServerId(e.server)
           /\ e.tool \in Text /\ IsValidToolName(e.tool)
           /\ e.qualified = Qualify(e.server, e.tool)
           /\ e.verdict \in ScanVerdicts
           /\ \A x \in catalog :
                x.qualified = e.qualified => x.server = e.server /\ x.tool = e.tool
<1>1. \A x \in catalog : /\ x.server \in Text /\ IsValidServerId(x.server)
                         /\ x.tool \in Text /\ IsValidToolName(x.tool)
                         /\ x.qualified = Qualify(x.server, x.tool)
                         /\ x.verdict \in ScanVerdicts
  BY ConfigType DEF TypeOK
<1>2. ASSUME NEW x \in catalog, x.qualified = e.qualified
      PROVE  x.server = e.server /\ x.tool = e.tool
  BY <1>1, <1>2, QualifyInjective
<1> QED
  BY <1>1, <1>2

\* The header of a tool or prompt name agrees with it.
LEMMA ToolNamesTravel ==
    ASSUME NEW name \in Text, IsValidToolName(name)
    PROVE  HeaderMatchesBody(name)
<1> DEFINE plain == LowerOrDigit \cup Upper \cup {Dash, Underscore}
<1>1. Len(name) \in Nat /\ DOMAIN name = 1..Len(name) /\ Len(name) > 0
  BY DEF Text, IsValidToolName
<1>2. \A i \in 1..Len(name) : name[i] \in plain
  BY <1>1 DEF IsValidToolName
<1>3. plain \subseteq Encodable /\ ByteOrderMark \notin plain
  BY InputsAssumption
<1>4. name \in Seq(Encodable)
  <2>1. \A i \in 1..Len(name) : name[i] \in Encodable
    BY <1>2, <1>3
  <2> QED
    BY <1>1, <2>1 DEF Text
<1>5. name[1] # ByteOrderMark
  BY <1>1, <1>2, <1>3
<1> QED
  BY <1>4, <1>5, HeaderValuesRoundTrip

-----------------------------------------------------------------------------
(* What the loader and the engine compute *)

LEMMA StrongestOf ==
    ASSUME NEW O, O \subseteq Obligations, O # {}
    PROVE  /\ StrongestObligation(O) \in O
           /\ \A o \in O : Rank[o] <= Rank[StrongestObligation(O)]
<1>1. Rank["allow"] = 0 /\ Rank["review"] = 1 /\ Rank["approve"] = 2
  BY DEF Rank
<1>2. \E o \in O : \A other \in O : Rank[other] <= Rank[o]
  <2>1. CASE "approve" \in O
    BY <1>1, <2>1 DEF Obligations
  <2>2. CASE "approve" \notin O /\ "review" \in O
    BY <1>1, <2>2 DEF Obligations
  <2>3. CASE "approve" \notin O /\ "review" \notin O
    <3>1. O = {"allow"}
      BY <2>3 DEF Obligations
    <3> QED
      BY <1>1, <3>1
  <2> QED
    BY <2>1, <2>2, <2>3
<1> QED
  BY <1>2 DEF StrongestObligation

\* The loader loses no policy: each is in the bundle under its id.
LEMMA BundleIsComplete ==
    ASSUME NEW texts \in PolicyTexts, Loadable(texts)
    PROVE  /\ DOMAIN LoadBundle(texts) = {texts[i].id : i \in DOMAIN texts}
           /\ \A i \in DOMAIN texts : LoadBundle(texts)[texts[i].id] = texts[i]
<1>1. ASSUME NEW i \in DOMAIN texts
      PROVE  LoadBundle(texts)[texts[i].id] = texts[i]
  <2> DEFINE Last(k) == /\ texts[k].id = texts[i].id
                        /\ \A j \in DOMAIN texts : texts[j].id = texts[i].id => j <= k
             k == CHOOSE x \in DOMAIN texts : Last(x)
  <2>1. i \in Nat /\ \A j \in DOMAIN texts : texts[j].id = texts[i].id => j = i
    BY InputsAssumption DEF Loadable
  <2>2. Last(i)
    BY <2>1
  <2>3. k \in DOMAIN texts /\ Last(k)
    BY <2>2
  <2>4. k = i
    BY <2>1, <2>3
  <2>5. LoadBundle(texts)[texts[i].id] = texts[k]
    BY DEF LoadBundle
  <2> QED
    BY <2>4, <2>5
<1> QED
  BY <1>1 DEF LoadBundle

\* What the engine lets through: some policies match and none of them forbids.
LEMMA EvaluatedConservatively ==
    ASSUME TypeOK, NEW facts, NEW erring, Evaluate(facts, erring) # "deny"
    PROVE  LET matching == {i \in DOMAIN policies : Matches(policies[i], facts)}
           IN  /\ matching # {}
               /\ Evaluate(facts, erring) \in Obligations
               /\ \A i \in matching :
                    /\ policies[i].effect = "permit"
                    /\ Rank[policies[i].obligation] <= Rank[Evaluate(facts, erring)]
<1> DEFINE matching == {bundle[id] : id \in {i \in DOMAIN bundle : Matches(bundle[i], facts)}}
           permits == {p \in matching : p.effect = "permit"}
           obligations == {p.obligation : p \in permits}
<1>1. permits # {} /\ permits = matching /\ Evaluate(facts, erring) = StrongestObligation(obligations)
  BY DEF Evaluate
<1>2. /\ DOMAIN bundle = {policies[i].id : i \in DOMAIN policies}
      /\ \A i \in DOMAIN policies : bundle[policies[i].id] = policies[i]
  BY BundleIsComplete DEF TypeOK
<1>3. \A p \in matching : \E i \in DOMAIN policies : p = policies[i] /\ Matches(policies[i], facts)
  BY <1>2
<1>4. \A i \in DOMAIN policies : Matches(policies[i], facts) => policies[i] \in matching
  BY <1>2
<1>5. \A i \in DOMAIN policies :
        policies[i].effect = "permit" => policies[i].obligation \in Obligations
  BY DEF TypeOK, Loadable, WellAnnotated
<1> HIDE DEF matching
<1>6. obligations \subseteq Obligations /\ obligations # {}
  BY <1>1, <1>3, <1>5
<1>7. \A i \in DOMAIN policies :
        Matches(policies[i], facts) =>
          policies[i].effect = "permit" /\ policies[i].obligation \in obligations
  BY <1>1, <1>4
<1>8. \E i \in DOMAIN policies : Matches(policies[i], facts)
  BY <1>1, <1>3
<1> HIDE DEF obligations
<1> QED
  BY <1>1, <1>6, <1>7, <1>8, StrongestOf

-----------------------------------------------------------------------------
(* What the extractors find *)

\* What a call's SQL is judged by is one of its SQL strings.
LEMMA SqlIsOneOfThem ==
    ASSUME NEW args \in Arguments
    PROVE  ExtractSql(args) \in Statements(args)
<1> DEFINE C == SqlCandidates(args)
           first == CHOOSE i \in C : \A j \in C : i <= j
           sql == {s \in Strings(args) : s.verb \in SqlVerbs}
<1>1. C \subseteq Nat
  BY InputsAssumption DEF SqlCandidates, Collected
<1>2. sql = {args[i].string : i \in C}
  BY DEF Strings, InReach, SqlCandidates, Collected
<1>3. CASE C = {}
  BY <1>2, <1>3 DEF ExtractSql, Statements
<1>4. CASE C # {}
  <2>1. first \in C
    BY <1>1, <1>4, LeastNatural
  <2>2. ExtractSql(args) = Statement(args[first].string)
    BY <1>4 DEF ExtractSql
  <2>3. args[first].string \in sql
    BY <1>2, <2>1
  <2>4. sql # {} /\ Statements(args) = {Statement(s) : s \in sql}
    BY <2>3 DEF Statements
  <2> HIDE DEF first, sql
  <2> QED
    BY <2>2, <2>3, <2>4
<1> QED
  BY <1>3, <1>4

\* A credential is detected exactly when a leaf is one.
LEMMA CredentialIsALeaf ==
    ASSUME NEW args \in Arguments
    PROVE  DetectCredential(args) <=> \E i \in DOMAIN args : Secret(args[i])
<1>1. \A i \in DOMAIN args : Len(args[i].keys) \in Nat /\ DOMAIN args[i].keys = 1..Len(args[i].keys)
  BY InputsAssumption
<1>2. ASSUME NEW i \in DOMAIN args, NEW k \in DOMAIN args[i].keys
      PROVE  /\ k <= Depth + 1 <=> k - 1 <= Depth
             /\ k < Len(args[i].keys) <=> k # Len(args[i].keys)
  BY <1>1, DepthAssumption
<1> QED
  BY <1>2 DEF DetectCredential, Secret, InReach

\* The context is one the arguments warrant: the filters and unions of extract.ts
\* lose no alarm of a string within reach, no escape from the workspace and no
\* credential, and invent none; the statement is that of one of the SQL strings.
THEOREM ContextIsWarranted ==
    ASSUME NEW args \in Arguments
    PROVE  ExtractToolCallContext(args) \in Warranted(args)
<1> DEFINE within == Collected(args)
           strings == {args[i].string : i \in within}
           paths == {s \in strings : PathLike(s)}
           hosts == UNION {s.hosts : s \in strings}
           alarms == UNION {Alarms(args[i].string) : i \in within}
<1>1. \A s \in strings : IsAbsolute(s) => PathLike(s)
  BY DEF IsAbsolute, PathLike
<1>2. ASSUME NEW s \in strings, HasParentTraversalSegment(s) PROVE PathLike(s)
  <2>1. s.segments \in Seq(STRING) /\ s.segments # <<>>
    BY InputsAssumption DEF Collected
  <2>2. PICK k \in DOMAIN s.segments : s.segments[k] = ".."
    BY <1>2 DEF HasParentTraversalSegment
  <2>3. k \in 1..Len(s.segments) /\ Len(s.segments) \in Nat
    BY <2>1, <2>2
  <2>4. k = 1 \/ Len(s.segments) > 1
    BY <2>3
  <2> QED
    BY <2>2, <2>4, DottedAssumption DEF PathLike
<1>3. alarms =
        If(\E s \in paths : IsAbsolute(s), "hasAbsolutePath")
          \cup If(\E s \in paths : HasParentTraversalSegment(s), "hasParentTraversal")
          \cup If(\E s \in strings : "sensitive" \in s.marks, "hasSensitivePath")
          \cup If(hosts # {}, "hasUrl")
          \cup If(\E h \in hosts : IsExternal(h), "hasExternalUrl")
          \cup If(\E s \in strings : "shell" \in s.marks, "hasShellMetacharacters")
          \cup If(\E s \in strings : "invisible" \in s.marks, "hasInvisibleUnicode")
  <2>1. alarms = UNION {Alarms(s) : s \in strings}
    OBVIOUS
  <2>2. "hasAbsolutePath" \in alarms <=> \E s \in paths : IsAbsolute(s)
    BY <1>1, <2>1 DEF Alarms
  <2>3. "hasParentTraversal" \in alarms <=> \E s \in paths : HasParentTraversalSegment(s)
    BY <1>2, <2>1 DEF Alarms
  <2>4. "hasSensitivePath" \in alarms <=> \E s \in strings : "sensitive" \in s.marks
    BY <2>1 DEF Alarms
  <2>5. "hasUrl" \in alarms <=> hosts # {}
    BY <2>1 DEF Alarms
  <2>6. "hasExternalUrl" \in alarms <=> \E h \in hosts : IsExternal(h)
    BY <2>1 DEF Alarms, IsExternal
  <2>7. "hasShellMetacharacters" \in alarms <=> \E s \in strings : "shell" \in s.marks
    BY <2>1 DEF Alarms
  <2>8. "hasInvisibleUnicode" \in alarms <=> \E s \in strings : "invisible" \in s.marks
    BY <2>1 DEF Alarms
  <2>9. alarms \subseteq {"hasAbsolutePath", "hasParentTraversal", "hasSensitivePath", "hasUrl",
                          "hasExternalUrl", "hasShellMetacharacters", "hasInvisibleUnicode"}
    BY <2>1 DEF Alarms
  <2> HIDE DEF alarms, strings, paths, hosts
  <2> QED
    BY <2>2, <2>3, <2>4, <2>5, <2>6, <2>7, <2>8, <2>9, ZenonT(60) DEF If
<1> DEFINE contained == If(\A s \in paths : IsWithin(s.resolved), "pathsWithinWorkspace")
           credential == If(DetectCredential(args), "containsCredential")
<1>5. ExtractToolCallContext(args) = alarms \cup contained \cup ExtractSql(args) \cup credential
  <2> HIDE DEF alarms
  <2>1. ExtractToolCallContext(args) =
          contained
            \cup If(\E s \in paths : IsAbsolute(s), "hasAbsolutePath")
            \cup If(\E s \in paths : HasParentTraversalSegment(s), "hasParentTraversal")
            \cup If(\E s \in strings : "sensitive" \in s.marks, "hasSensitivePath")
            \cup If(hosts # {}, "hasUrl")
            \cup If(\E h \in hosts : IsExternal(h), "hasExternalUrl")
            \cup ExtractSql(args)
            \cup If(\E s \in strings : "shell" \in s.marks, "hasShellMetacharacters")
            \cup credential
            \cup If(\E s \in strings : "invisible" \in s.marks, "hasInvisibleUnicode")
    BY DEF ExtractToolCallContext
  <2> HIDE DEF contained, credential, strings, paths, hosts
  <2> QED
    BY <1>3, <2>1
<1>6. strings = Strings(args)
  BY DEF Strings, InReach, Collected
<1>7. /\ contained = If(~\E s \in Strings(args) : Escapes(s), "pathsWithinWorkspace")
      /\ credential = If(\E i \in DOMAIN args : Secret(args[i]), "containsCredential")
      /\ alarms = UNION {Alarms(s) : s \in Strings(args)}
  <2>1. alarms = UNION {Alarms(s) : s \in strings}
    OBVIOUS
  <2>2. (\A s \in paths : IsWithin(s.resolved)) <=> ~\E s \in strings : Escapes(s)
    BY DEF Escapes
  <2> HIDE DEF alarms, strings, paths
  <2> QED
    BY <1>6, <2>1, <2>2, CredentialIsALeaf DEF If
<1> HIDE DEF alarms, contained, credential, within
<1>8. Warranted(args) = {alarms \cup contained \cup credential \cup statement :
                            statement \in Statements(args)}
  BY <1>7 DEF Warranted
<1>9. ExtractToolCallContext(args) = alarms \cup contained \cup credential \cup ExtractSql(args)
  BY <1>5
<1> QED
  BY <1>8, <1>9, SqlIsOneOfThem
-----------------------------------------------------------------------------
(* The invariant *)

LEMMA InvInductive == (Init => Inv) /\ (Inv /\ [Next]_vars => Inv')
<1>1. Init => Inv
  <2> SUFFICES ASSUME Init PROVE Inv
    OBVIOUS
  <2>1. config \in Configs /\ Acceptable(config) /\ policies \in PolicyTexts /\ Loadable(policies)
    BY DEF Init
  <2>2. catalog = {} /\ closing = FALSE /\ bundle = LoadBundle(policies)
    BY DEF Init
  <2>3. answer.kind = "none" /\ answer.obligation = "none" /\ answer.able = {}
    BY DEF Init, NoAnswer
  <2> QED
    BY <2>1, <2>2, <2>3 DEF Inv, TypeOK, OneEntryEach, VerdictsEarned
<1>2. Inv /\ [Next]_vars => Inv'
  <2> SUFFICES ASSUME Inv, [Next]_vars PROVE Inv'
    OBVIOUS
  <2> USE DEF Inv
  <2>1. CASE Refresh
    <3>1. PICK offer \in Offers, answered \in {{}, ScannedTexts} :
            catalog' = {EntryOf(o.server, o.tool, o.definition, answered) :
                          o \in {x \in offer : x.server \in DialableIds /\ IsValidToolName(x.tool)}}
      BY <2>1 DEF Refresh
    <3>2. offer \subseteq Offer /\ \A x, y \in offer : x.server = y.server /\ x.tool = y.tool => x = y
      BY InputsAssumption
    <3>3. \A e \in catalog' : \E o \in offer :
             /\ e = EntryOf(o.server, o.tool, o.definition, answered)
             /\ o.server \in DialableIds /\ IsValidToolName(o.tool)
             /\ o.tool \in Text /\ o.definition \in Definition
      BY <3>1, <3>2 DEF Offer
    <3>4. DialableIds \subseteq {config[i].id : i \in DOMAIN config}
      BY DEF DialableIds, Dialable
    <3>8. \A e \in catalog' : /\ e.verdict \in ScanVerdicts
                              /\ EarnedByTool(e.definition, e.verdict)
      BY <3>3, ToolVerdictsAreEarned DEF EntryOf
    <3>5. \A e \in catalog' : /\ e.server \in {config[i].id : i \in DOMAIN config}
                              /\ e.tool \in Text /\ IsValidToolName(e.tool)
                              /\ e.qualified = Qualify(e.server, e.tool)
                              /\ e.verdict \in ScanVerdicts
      BY <3>3, <3>4, <3>8 DEF EntryOf
    <3>6. OneEntryEach'
      BY <3>2, <3>3 DEF EntryOf, OneEntryEach
    <3>7. TypeOK'
      BY <2>1, <3>5 DEF Refresh, TypeOK, NoAnswer
    <3> QED
      BY <3>6, <3>7, <3>8 DEF VerdictsEarned
  <2>2. CASE CloseRegistry
    BY <2>2 DEF CloseRegistry, TypeOK, OneEntryEach, VerdictsEarned, NoAnswer, Connectable
  <2>3. ASSUME NEW a, Answers(a),
               a.kind \in {"own", "no_method", "too_large", "unknown", "mismatch",
                           "failed", "denied", "admitted"},
               a.able \subseteq Connectable,
               a.obligation \in Obligations \cup {"none"}
        PROVE  Inv'
    BY <2>3 DEF Answers, TypeOK, OneEntryEach, VerdictsEarned, Connectable
  <2>4. ASSUME NEW asked, Own(asked) PROVE Inv'
    BY <2>4, <2>3 DEF Own, Answer, NoAnswer
  <2>5. ASSUME NEW method, NEW asked, RefuseTooLarge(method, asked) PROVE Inv'
    BY <2>5, <2>3 DEF RefuseTooLarge, Answer, NoAnswer
  <2>6. ASSUME NEW method, NEW asked, RefuseUnknown(method, asked) PROVE Inv'
    BY <2>6, <2>3 DEF RefuseUnknown, Answer, NoAnswer
  <2>7. ASSUME NEW method, NEW asked, FailOnUri(method, asked) PROVE Inv'
    BY <2>7, <2>3 DEF FailOnUri, Answer, NoAnswer
  <2>10. ASSUME NEW method, NEW asked, RefuseMismatch(method, asked) PROVE Inv'
    BY <2>10, <2>3 DEF RefuseMismatch, Answer, NoAnswer
  <2>11. ASSUME NEW method, NEW asked, NEW able \in SUBSET Connectable,
                RefuseMethod(method, asked, able)
         PROVE  Inv'
    BY <2>11, <2>3 DEF RefuseMethod, Answer, NoAnswer
  <2>8. ASSUME NEW method, NEW asked, NEW args, Decide(method, asked, args) PROVE Inv'
    <3>1. CASE Answers(Answer("denied", method, asked))
      BY <3>1, <2>3 DEF Answer, NoAnswer
    <3>2. ASSUME NEW facts, NEW erring, NEW server, NEW upstream,
                 Evaluate(facts, erring) # "deny",
                 Answers([kind |-> "admitted", method |-> method, asked |-> asked,
                          server |-> server, upstream |-> upstream,
                          args |-> args, obligation |-> Evaluate(facts, erring), able |-> {}])
          PROVE  Inv'
      <4>1. Evaluate(facts, erring) \in Obligations
        BY <3>2, EvaluatedConservatively
      <4> QED
        BY <4>1, <3>2, <2>3
    <3> QED
      BY <2>8, <3>1, <3>2 DEF Decide
  <2>9. CASE UNCHANGED vars
    BY <2>9 DEF vars, TypeOK, OneEntryEach, VerdictsEarned, Connectable
  <2> QED
    BY <2>1, <2>2, <2>4, <2>5, <2>6, <2>7, <2>8, <2>9, <2>10, <2>11 DEF Next, Handle
<1> QED
  BY <1>1, <1>2

LEMMA InvAlways == Spec => []Inv
<1>1. Init => Inv
  BY InvInductive
<1>2. Inv /\ [Next]_vars => Inv'
  BY InvInductive
<1> QED
  BY <1>1, <1>2, PTL DEF Spec

\* The bundle, the answers and the catalog keep their types.
THEOREM TypeCorrect == Spec => []TypeOK
BY InvAlways, PTL DEF Inv

-----------------------------------------------------------------------------
(* Answers.  A property of the answer to be proved is established by the   *)
(* one step that gives such an answer and kept by the others, which give   *)
(* another.                                                                *)

\* Where a routable target comes from.
LEMMA TargetIsWhatWasAsked ==
    ASSUME TypeOK, NEW method \in {"tools/call", "prompts/get", "resources/read"},
           NEW asked, method # "resources/read" => asked \in Text,
           Resolve(method, asked) # Unknown
    PROVE  LET target == Resolve(method, asked)
           IN  /\ asked = Requalified(method, target.server, target.name)
               /\ method # "resources/read" =>
                    /\ target.server \in Text /\ IsValidServerId(target.server)
                    /\ target.name \in Text /\ IsValidToolName(target.name)
               /\ method = "tools/call" =>
                    \E e \in catalog : /\ e.qualified = asked
                                       /\ e.server = target.server /\ e.tool = target.name
<1> DEFINE target == Resolve(method, asked)
<1>1. CASE method = "tools/call"
  <2> DEFINE found == {e \in catalog : e.qualified = asked}
             e == CHOOSE x \in found : TRUE
  <2>1. target = IF found = {} THEN Unknown ELSE [server |-> e.server, name |-> e.tool]
    BY <1>1 DEF Resolve
  <2>2. e \in found
    BY <2>1
  <2>3. target.server = e.server /\ target.name = e.tool
    BY <2>1, <2>2
  <2> QED
    BY <1>1, <2>2, <2>3, EntryType DEF Requalified
<1>2. CASE method = "prompts/get"
  <2>1. target = ParseQualifiedName(asked)
    BY <1>2 DEF Resolve
  <2> QED
    BY <1>2, <2>1, ParsedNamesRequalify DEF Requalified
<1>3. CASE method = "resources/read"
  <2>1. target = ParseQualifiedResourceUri(asked)
    BY <1>3 DEF Resolve
  <2> QED
    BY <1>3, <2>1, ParsedUrisRequalify DEF Requalified
<1> QED
  BY <1>1, <1>2, <1>3

Methods == {"tools/call", "prompts/get", "resources/read"}
Given(method, asked) == method \in Methods /\ (method # "resources/read" => asked \in Text)

\* Few steps give an answer the properties below are about; a method is refused
\* only when nobody is ready for it.
LEMMA StepsThatMatter ==
    ASSUME [Next]_vars
    PROVE  \/ UNCHANGED vars
           \/ answer'.kind \notin {"admitted", "unknown", "mismatch", "no_method"}
           \/ answer'.kind = "no_method" /\ answer'.able = {}
           \/ \E method, asked : /\ Given(method, asked)
                                 /\ RefuseUnknown(method, asked) \/ RefuseMismatch(method, asked)
           \/ \E method, asked : /\ Given(method, asked)
                                 /\ \E args \in Inputs(method) : Decide(method, asked, args)
<1>1. NoAnswer.kind = "none"
  BY DEF NoAnswer
<1>2. ASSUME NEW kind, NEW method, NEW asked, Answers(Answer(kind, method, asked))
      PROVE  answer'.kind = kind
  <2>1. Answer(kind, method, asked).kind = kind
    BY DEF Answer, NoAnswer
  <2> QED
    BY <2>1, <1>2 DEF Answers
<1>3. (Refresh \/ CloseRegistry) => answer'.kind = "none"
  BY <1>1 DEF Refresh, CloseRegistry
<1>4. ASSUME NEW asked, Own(asked) PROVE answer'.kind = "own"
  BY <1>4, <1>2 DEF Own
<1>5. ASSUME NEW method, NEW asked, RefuseTooLarge(method, asked) PROVE answer'.kind = "too_large"
  BY <1>5, <1>2 DEF RefuseTooLarge
<1>6. ASSUME NEW method, NEW asked, FailOnUri(method, asked) PROVE answer'.kind = "failed"
  BY <1>6, <1>2 DEF FailOnUri
<1>10. ASSUME NEW method, NEW asked, NEW able \in SUBSET Connectable,
              RefuseMethod(method, asked, able)
       PROVE  answer'.kind = "no_method" /\ answer'.able = {}
  <2>1. able = {}
    BY <1>10 DEF RefuseMethod, Registered
  <2>2. answer' = [Answer("no_method", method, asked) EXCEPT !.able = able]
    BY <1>10 DEF RefuseMethod, Answers
  <2> QED
    BY <2>1, <2>2 DEF Answer, NoAnswer
<1>7. \A asked \in AskedNames : Given("tools/call", asked) /\ Given("prompts/get", asked)
  BY InputsAssumption DEF Given, Methods
<1>8. \A asked : Given("resources/read", asked)
  BY DEF Given, Methods
<1>9. ASSUME NEW method, NEW asked, Handle(method, asked)
      PROVE  \/ answer'.kind \in {"too_large", "failed"}
             \/ answer'.kind = "no_method" /\ answer'.able = {}
             \/ RefuseUnknown(method, asked) \/ RefuseMismatch(method, asked)
             \/ \E args \in Inputs(method) : Decide(method, asked, args)
  BY <1>5, <1>6, <1>9, <1>10 DEF Handle
<1> QED
  BY <1>3, <1>4, <1>7, <1>8, <1>9 DEF Next

\* What is known when a request has been admitted.
LEMMA Admitted ==
    ASSUME NEW method, NEW asked, NEW args, Decide(method, asked, args), answer'.kind = "admitted"
    PROVE  LET target == Resolve(method, asked)
           IN  /\ UNCHANGED <<config, policies, bundle, closing, catalog>>
               /\ Routable(target)
               /\ answer'.method = method /\ answer'.asked = asked /\ answer'.args = args
               /\ answer'.server = target.server /\ answer'.upstream = target.name
               /\ \E erring :
                    LET facts == Facts(method, asked, target.server, VerdictOf(method, asked),
                                       Context(method, target.name, args))
                    IN  /\ Evaluate(facts, erring) # "deny"
                        /\ answer'.obligation = Evaluate(facts, erring)
<1> DEFINE target == Resolve(method, asked)
           facts == Facts(method, asked, target.server, VerdictOf(method, asked),
                          Context(method, target.name, args))
<1>1. PICK erring :
        IF Evaluate(facts, erring) = "deny"
        THEN Answers(Answer("denied", method, asked))
        ELSE Answers([kind |-> "admitted", method |-> method, asked |-> asked,
                      server |-> target.server, upstream |-> target.name,
                      args |-> args, obligation |-> Evaluate(facts, erring), able |-> {}])
  BY DEF Decide
<1>2. Routable(target)
  BY DEF Decide
<1> HIDE DEF facts, target
<1>3. CASE Evaluate(facts, erring) = "deny"
  <2>1. answer' = Answer("denied", method, asked)
    BY <1>1, <1>3 DEF Answers
  <2>2. Answer("denied", method, asked).kind = "denied"
    BY DEF Answer, NoAnswer
  <2> QED
    BY <2>1, <2>2
<1>4. CASE Evaluate(facts, erring) # "deny"
  <2>1. Answers([kind |-> "admitted", method |-> method, asked |-> asked,
                 server |-> target.server, upstream |-> target.name,
                 args |-> args, obligation |-> Evaluate(facts, erring), able |-> {}])
    BY <1>1, <1>4
  <2>2. /\ UNCHANGED <<config, policies, bundle, closing, catalog>>
        /\ answer'.method = method /\ answer'.asked = asked /\ answer'.args = args
        /\ answer'.server = target.server /\ answer'.upstream = target.name
        /\ answer'.obligation = Evaluate(facts, erring)
    BY <2>1 DEF Answers
  <2> QED
    BY <2>2, <1>2, <1>4 DEF target, facts
<1> QED
  BY <1>3, <1>4

\* A request that is admitted goes where its name says and nowhere else.
THEOREM ForwardedAsNamed == Spec => []ForwardsWhatWasNamed
<1>1. Init => ForwardsWhatWasNamed
  BY DEF Init, NoAnswer, ForwardsWhatWasNamed
<1>2. Inv /\ ForwardsWhatWasNamed /\ [Next]_vars => ForwardsWhatWasNamed'
  <2> SUFFICES ASSUME Inv, ForwardsWhatWasNamed, [Next]_vars, answer'.kind = "admitted"
               PROVE  ForwardsWhatWasNamed'
    BY DEF ForwardsWhatWasNamed
  <2> USE DEF Inv
  <2>1. CASE UNCHANGED vars
    <3>1. /\ config' = config /\ closing' = closing
          /\ catalog' = catalog /\ answer' = answer
      BY <2>1 DEF vars
    <3>2. DialableIds' = DialableIds
      BY <3>1 DEF DialableIds, Dialable
    <3> QED
      BY <3>1, <3>2 DEF ForwardsWhatWasNamed
  <2>2. ASSUME NEW method, NEW asked, Given(method, asked),
               NEW args \in Inputs(method), Decide(method, asked, args)
        PROVE  ForwardsWhatWasNamed'
    <3> DEFINE target == Resolve(method, asked)
    <3>1. /\ UNCHANGED <<config, policies, bundle, closing, catalog>>
          /\ Routable(target)
          /\ answer'.method = method /\ answer'.asked = asked
          /\ answer'.server = target.server /\ answer'.upstream = target.name
      BY <2>2, Admitted
    <3>2. /\ asked = Requalified(method, target.server, target.name)
          /\ method # "resources/read" =>
               /\ target.server \in Text /\ IsValidServerId(target.server)
               /\ target.name \in Text /\ IsValidToolName(target.name)
      BY <2>2, <3>1, TargetIsWhatWasAsked DEF Routable, Given, Methods
    <3> HIDE DEF target
    <3>3. DialableIds' = DialableIds /\ target.server \in DialableIds
      BY <3>1 DEF Routable, DialableIds, Dialable
    <3>4. ASSUME method # "resources/read",
                 NEW i \in DOMAIN config, NEW name \in {o.tool : o \in UNION Offers},
                 IsValidToolName(name), Qualify(config[i].id, name) = asked
          PROVE  config[i].id = target.server /\ name = target.name
      <4>1. name \in Text
        BY InputsAssumption DEF Offer
      <4>2. config[i].id \in Text /\ IsValidServerId(config[i].id)
        BY ConfigType
      <4>3. asked = Qualify(target.server, target.name)
        BY <3>2, <3>4 DEF Requalified
      <4> QED
        BY <3>2, <3>4, <4>1, <4>2, <4>3, QualifyInjective
    <3>5. config' = config
      BY <3>1
    <3> QED
      BY <3>1, <3>2, <3>3, <3>4, <3>5 DEF ForwardsWhatWasNamed
  <2>3. ASSUME NEW method, NEW asked, RefuseUnknown(method, asked) \/ RefuseMismatch(method, asked)
        PROVE  FALSE
    BY <2>3 DEF RefuseUnknown, RefuseMismatch, Answers, Answer, NoAnswer
  <2> QED
    BY <2>1, <2>2, <2>3, StepsThatMatter
<1> QED
  BY <1>1, <1>2, InvAlways, PTL DEF Spec

\* No advertised tool, and no prompt or resource of a server that may be called,
\* is refused as unknown once its method exists, and that does while its server
\* is ready and has any.
THEOREM Reachable == Spec => []NamesAreReachable
<1>1. Init => NamesAreReachable
  BY DEF Init, NoAnswer, NamesAreReachable
<1>2. Inv /\ NamesAreReachable /\ [Next]_vars => NamesAreReachable'
  <2> SUFFICES ASSUME Inv, NamesAreReachable, [Next]_vars,
                      answer'.kind \in {"unknown", "mismatch", "no_method"}
               PROVE  NamesAreReachable'
    BY DEF NamesAreReachable
  <2> USE DEF Inv
  <2>1. CASE UNCHANGED vars
    <3>1. /\ config' = config /\ closing' = closing
          /\ catalog' = catalog /\ answer' = answer
      BY <2>1 DEF vars
    <3>2. DialableIds' = DialableIds
      BY <3>1 DEF DialableIds, Dialable
    <3> QED
      BY <3>1, <3>2 DEF NamesAreReachable
  <2>2. ASSUME NEW method, NEW asked, Given(method, asked),
               RefuseUnknown(method, asked) \/ RefuseMismatch(method, asked)
        PROVE  NamesAreReachable'
    <3>1. /\ UNCHANGED <<config, closing, catalog>>
          /\ answer' = Answer("unknown", method, asked) \/ answer' = Answer("mismatch", method, asked)
          /\ ~Routable(Resolve(method, asked)) \/ ~HeaderMatchesBody(Resolve(method, asked).name)
      BY <2>2 DEF RefuseUnknown, RefuseMismatch, Answers
    <3>2. answer'.method = method /\ answer'.asked = asked /\ answer'.kind # "no_method"
      BY <3>1 DEF Answer, NoAnswer
    <3>3. DialableIds' = DialableIds /\ catalog' = catalog
      BY <3>1 DEF DialableIds, Dialable
    <3>4. \A id \in DialableIds : id \in Text /\ IsValidServerId(id) /\ id # <<>>
      BY ConfigType DEF DialableIds, Dialable, IsValidServerId
    <3>5. ASSUME NEW target, target.server \in DialableIds, Resolve(method, asked) = target,
                 HeaderMatchesBody(target.name)
          PROVE  FALSE
      BY <3>5, <3>1, <3>4 DEF Routable, Unknown
    <3>6. ASSUME NEW id \in DialableIds, method = "tools/call",
                 NEW e \in catalog, e.server = id, asked = Qualify(id, e.tool)
          PROVE  FALSE
      <4> DEFINE found == {x \in catalog : x.qualified = asked}
                 chosen == CHOOSE x \in found : TRUE
      <4>1. e \in found
        BY <3>6, EntryType
      <4>2. chosen \in found
        BY <4>1
      <4>3. chosen.server = id
        BY <4>1, <4>2, <3>6, EntryType
      <4>4. Resolve(method, asked) = [server |-> chosen.server, name |-> chosen.tool]
        BY <4>1, <3>6 DEF Resolve
      <4>5. HeaderMatchesBody(chosen.tool)
        BY <4>2, EntryType, ToolNamesTravel
      <4> HIDE DEF chosen
      <4> QED
        BY <4>3, <4>4, <4>5, <3>5
    <3>7. ASSUME NEW id \in DialableIds, method = "prompts/get",
                 NEW name \in {o.tool : o \in UNION Offers}, IsValidToolName(name),
                 asked = Qualify(id, name)
          PROVE  FALSE
      <4>1. name \in Text
        BY InputsAssumption DEF Offer
      <4>2. ParseQualifiedName(asked) = [server |-> id, name |-> name]
        BY <3>4, <3>7, <4>1, QualifiedNamesRoundTrip
      <4>3. Resolve(method, asked) = [server |-> id, name |-> name]
        BY <4>2, <3>7 DEF Resolve
      <4>4. HeaderMatchesBody(name)
        BY <3>7, <4>1, ToolNamesTravel
      <4> QED
        BY <4>3, <4>4, <3>5
    <3>8. ASSUME NEW id \in DialableIds, method = "resources/read",
                 NEW uri \in Uris \ {<<>>}, uri[1] # ByteOrderMark, asked = QualifyResourceUri(id, uri)
          PROVE  FALSE
      <4>1. ParseQualifiedResourceUri(asked) = [server |-> id, name |-> uri]
        BY <3>4, <3>8, InputsAssumption, ResourceUrisRoundTrip
      <4>2. Resolve(method, asked) = [server |-> id, name |-> uri]
        BY <4>1, <3>8 DEF Resolve
      <4>3. uri \in Seq(Encodable)
        <5>1. uri \in Seq(Octets) /\ Octets \subseteq Encodable
          BY InputsAssumption
        <5> QED
          BY <5>1
      <4>4. HeaderMatchesBody(uri)
        BY <3>8, <4>3, HeaderValuesRoundTrip
      <4> QED
        BY <4>2, <4>4, <3>5
    <3> QED
      BY <2>2, <3>2, <3>3, <3>6, <3>7, <3>8 DEF NamesAreReachable, Given, Methods
  <2>3. ASSUME NEW method, NEW asked, NEW args \in Inputs(method), Decide(method, asked, args)
        PROVE  answer'.kind \notin {"unknown", "mismatch", "no_method"}
    <3>1. CASE Answers(Answer("denied", method, asked))
      BY <3>1 DEF Answers, Answer, NoAnswer
    <3>2. CASE \E server, upstream, obligation :
                 Answers([kind |-> "admitted", method |-> method, asked |-> asked,
                          server |-> server, upstream |-> upstream,
                          args |-> args, obligation |-> obligation, able |-> {}])
      BY <3>2 DEF Answers
    <3> QED
      BY <2>3, <3>1, <3>2 DEF Decide
  <2>4. CASE answer'.kind = "no_method" /\ answer'.able = {}
    BY <2>4 DEF NamesAreReachable
  <2> QED
    BY <2>1, <2>2, <2>3, <2>4, StepsThatMatter
<1> QED
  BY <1>1, <1>2, InvAlways, PTL DEF Spec

\* What is admitted obeys every policy in the files, read against the server
\* and the tool the request goes to.
THEOREM Conservative == Spec => []PolicyIsConservative
<1>1. Init => PolicyIsConservative
  BY DEF Init, NoAnswer, PolicyIsConservative
<1>2. Inv /\ PolicyIsConservative /\ [Next]_vars => PolicyIsConservative'
  <2> SUFFICES ASSUME Inv, PolicyIsConservative, [Next]_vars, answer'.kind = "admitted"
               PROVE  PolicyIsConservative'
    BY DEF PolicyIsConservative
  <2> USE DEF Inv
  <2>1. CASE UNCHANGED vars
    <3>1. /\ config' = config /\ policies' = policies /\ catalog' = catalog
          /\ answer' = answer
      BY <2>1 DEF vars
    <3>2. WarrantedContexts' = WarrantedContexts
      BY <3>1 DEF WarrantedContexts
    <3> QED
      BY <3>1, <3>2 DEF PolicyIsConservative, Matches
  <2>2. ASSUME NEW method, NEW asked, Given(method, asked),
               NEW args \in Inputs(method), Decide(method, asked, args)
        PROVE  PolicyIsConservative'
    <3> DEFINE target == Resolve(method, asked)
               server == target.server
               tool == target.name
               seen == Context(method, tool, args)
               listed == {e \in catalog : e.server = server /\ e.tool = tool}
               trusts == {config[i].trust : i \in {j \in DOMAIN config : config[j].id = server}}
               grouped == IF method = "tools/call" /\ asked \in Group THEN {"grouped"} ELSE {}
               true == {method} \cup seen \cup trusts
                         \cup (IF method = "tools/call"
                               THEN {e.verdict : e \in listed}
                                      \cup (IF Qualify(server, tool) \in Group
                                            THEN {"grouped"} ELSE {})
                               ELSE {"clean"})
               facts == Facts(method, asked, server, VerdictOf(method, asked), seen)
    <3>0. seen \in WarrantedContexts'
      <4>1. /\ answer'.method = method /\ answer'.args = args /\ answer'.upstream = tool
        BY <2>2, Admitted
      <4>2. method = "tools/call" => ExtractToolCallContext(args) \in Warranted(args)
        BY <2>2, ContextIsWarranted DEF Inputs
      <4> QED
        BY <4>1, <4>2, <2>2 DEF WarrantedContexts, Context, Given, Methods
    <3>1. /\ UNCHANGED <<config, policies, bundle, closing, catalog>>
          /\ Routable(target)
          /\ answer'.method = method /\ answer'.server = server /\ answer'.upstream = tool
          /\ answer'.args = args
          /\ \E erring : /\ Evaluate(facts, erring) # "deny"
                         /\ answer'.obligation = Evaluate(facts, erring)
      BY <2>2, Admitted
    <3>2. /\ asked = Requalified(method, server, tool)
          /\ method = "tools/call" =>
               \E e \in catalog : e.qualified = asked /\ e.server = server /\ e.tool = tool
      BY <2>2, <3>1, TargetIsWhatWasAsked DEF Routable, Given, Methods
    <3>3. trusts = {TrustOf(server)}
      <4>1. PICK i \in DOMAIN config : config[i].id = server
        BY <3>1 DEF Routable, DialableIds, Dialable
      <4>2. \A j \in DOMAIN config : config[j].id = server => j = i
        BY <4>1, ConfigType
      <4>3. trusts = {config[i].trust}
        BY <4>1, <4>2
      <4>4. TrustOf(server) = config[i].trust
        BY <4>1, <4>2 DEF TrustOf
      <4> QED
        BY <4>3, <4>4
    <3>4. ASSUME method = "tools/call" PROVE true = facts
      <4> DEFINE found == {e \in catalog : e.qualified = asked}
                 chosen == CHOOSE e \in found : TRUE
      <4>1. PICK e \in catalog : e.qualified = asked /\ e.server = server /\ e.tool = tool
        BY <3>2, <3>4
      <4>2. \A x \in catalog : x.qualified = asked => x = e
        BY <4>1, EntryType DEF OneEntryEach
      <4>3. \A x \in catalog : x.server = server /\ x.tool = tool => x = e
        BY <4>1 DEF OneEntryEach
      <4>4. chosen = e
        BY <4>1, <4>2
      <4>5. VerdictOf(method, asked) = e.verdict
        BY <4>4, <3>4 DEF VerdictOf
      <4>6. {x.verdict : x \in listed} = {e.verdict}
        BY <4>1, <4>3
      <4>7. asked = Qualify(server, tool)
        BY <3>2, <3>4 DEF Requalified
      <4>8. true = {method} \cup seen \cup trusts \cup {e.verdict} \cup grouped
        BY <4>6, <4>7, <3>4
      <4>9. facts = {method} \cup seen \cup trusts \cup {e.verdict} \cup grouped
        BY <4>5, <3>3 DEF Facts
      <4> QED
        BY <4>8, <4>9
    <3>5. ASSUME method # "tools/call" PROVE true = facts
      <4>1. VerdictOf(method, asked) = "clean"
        BY <3>5 DEF VerdictOf
      <4>2. facts = {method} \cup seen \cup trusts \cup {"clean"}
        BY <4>1, <3>3, <3>5 DEF Facts
      <4> QED
        BY <4>2, <3>5
    <3> QED
      <4> DEFINE matching == {i \in DOMAIN policies : Matches(policies[i], true)}
      <4>1. true = facts
        BY <3>4, <3>5
      <4>2. PICK erring : /\ Evaluate(facts, erring) # "deny"
                          /\ answer'.obligation = Evaluate(facts, erring)
        BY <3>1
      <4>5. \A e \in listed : EarnedByTool(e.definition, e.verdict)
        BY DEF VerdictsEarned
      <4>3. /\ matching # {}
            /\ \A i \in matching : /\ policies[i].effect = "permit"
                                   /\ Rank[policies[i].obligation] <= Rank[answer'.obligation]
        <5> HIDE DEF facts, true
        <5> QED
          BY <4>1, <4>2, EvaluatedConservatively
      <4>4. /\ config' = config /\ policies' = policies /\ catalog' = catalog
            /\ answer'.method = method /\ answer'.server = server /\ answer'.upstream = tool
        BY <3>1
      <4> HIDE DEF server, tool, seen
      <4> QED
        BY <3>0, <4>3, <4>4, <4>5 DEF PolicyIsConservative, Matches
  <2>3. ASSUME NEW method, NEW asked, RefuseUnknown(method, asked) \/ RefuseMismatch(method, asked)
        PROVE  FALSE
    BY <2>3 DEF RefuseUnknown, RefuseMismatch, Answers, Answer, NoAnswer
  <2> QED
    BY <2>1, <2>2, <2>3, StepsThatMatter
<1> QED
  BY <1>1, <1>2, InvAlways, PTL DEF Spec
==============================================================================
