-------------------------------- MODULE Naming --------------------------------
(***************************************************************************)
(* The names agents use, packages/mcp-core/src/naming.ts: a tool or prompt *)
(* of a server is <server>__<name>, split again at the first separator; a  *)
(* resource is mcp-sentinel://<server>/<percent-encoded URI>, and only the *)
(* canonical spelling of it is accepted back.                              *)
(*                                                                         *)
(* A string is a sequence of characters.  An escape such as %2F is one     *)
(* character here, and so is the scheme prefix.                            *)
(***************************************************************************)
EXTENDS Naturals, Sequences

CONSTANTS
    Characters,                \* what the names agents send are made of
    Dash, Underscore, Slash,
    Scheme,                    \* mcp-sentinel://
    LowerOrDigit,              \* [a-z0-9]
    Upper,                     \* [A-Z]
    MaxServerId, MaxToolName,  \* 64 and 128
    Octets,                    \* what upstream URIs are made of
    Spellings,                 \* what may stand for an octet in a wrapped URI
    Encode,                    \* encodeURIComponent, octet by octet
    Decode                     \* decodeURIComponent, "malformed" where it throws

ASSUME LimitsAssumption == MaxServerId \in Nat /\ MaxToolName \in Nat
ASSUME AlphabetAssumption ==
    /\ {Dash, Underscore, Slash, Scheme} \subseteq Characters
    /\ Dash # Underscore /\ Dash # Slash
    /\ \A c \in {Dash, Underscore, Slash} : c \notin LowerOrDigit /\ c \notin Upper
ASSUME EncodingAssumption ==
    /\ Spellings \subseteq Characters /\ "malformed" \notin Octets
    /\ Encode \in [Octets -> Spellings]
    /\ Decode \in [Spellings -> Octets \cup {"malformed"}]
    /\ \A o \in Octets : Decode[Encode[o]] = o

Text == Seq(Characters)

Unknown == [server |-> <<>>, name |-> <<>>]

-----------------------------------------------------------------------------
(* Tools and prompts *)

IsValidServerId(id) ==
    /\ Len(id) \in 1..MaxServerId
    /\ id[1] \in LowerOrDigit
    /\ \A i \in DOMAIN id : id[i] \in LowerOrDigit \cup {Dash}

IsValidToolName(name) ==
    /\ Len(name) \in 1..MaxToolName
    /\ \A i \in DOMAIN name : name[i] \in LowerOrDigit \cup Upper \cup {Dash, Underscore}

Qualify(server, name) == server \o <<Underscore, Underscore>> \o name

Separators(q) == {i \in 1..(Len(q) - 1) : q[i] = Underscore /\ q[i + 1] = Underscore}

FirstSeparator(q) == CHOOSE i \in Separators(q) : \A j \in Separators(q) : i <= j

ParseQualifiedName(q) ==
    LET at == FirstSeparator(q)
        server == SubSeq(q, 1, at - 1)
        name == SubSeq(q, at + 2, Len(q))
    IN  IF Separators(q) # {} /\ IsValidServerId(server) /\ IsValidToolName(name)
        THEN [server |-> server, name |-> name]
        ELSE Unknown

-----------------------------------------------------------------------------
(* Resources *)

EncodeUri(uri) == [i \in DOMAIN uri |-> Encode[uri[i]]]

DecodeUri(encoded) == [i \in DOMAIN encoded |-> Decode[encoded[i]]]

QualifyResourceUri(server, uri) == <<Scheme>> \o server \o <<Slash>> \o EncodeUri(uri)

Slashes(rest) == {i \in DOMAIN rest : rest[i] = Slash}

FirstSlash(rest) == CHOOSE i \in Slashes(rest) : \A j \in Slashes(rest) : i <= j

\* Defect: whatever decodes is accepted.
AnySpelling(q, server, uri) == TRUE

\* The decoded URI, wrapped again, is what was asked for.
Canonical(q, server, uri) == QualifyResourceUri(server, uri) = q

ParseQualifiedResourceUri(q) ==
    LET rest == Tail(q)
        at == FirstSlash(rest)
        server == SubSeq(rest, 1, at - 1)
        encoded == SubSeq(rest, at + 1, Len(rest))
        uri == DecodeUri(encoded)
    IN  IF /\ q # <<>> /\ Head(q) = Scheme
           /\ Slashes(rest) # {}
           /\ IsValidServerId(server)
           /\ encoded # <<>>
           /\ \A i \in DOMAIN encoded : encoded[i] \in Spellings /\ uri[i] \in Octets
           /\ Canonical(q, server, uri)
        THEN [server |-> server, name |-> uri]
        ELSE Unknown
=============================================================================
