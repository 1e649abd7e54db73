------------------------------ MODULE Extraction ------------------------------
(***************************************************************************)
(* The features Cedar policies see of a request's arguments or URI,        *)
(* packages/policy-engine/src/extract.ts, with the credential detection of *)
(* packages/mcp-core/src/redact.ts.                                        *)
(*                                                                         *)
(* The arguments are the sequence of the leaves of a JSON object, each     *)
(* under the keys that lead to it.  A string is what the extractors can    *)
(* tell of it: its path segments, what Node's path.resolve makes of it,    *)
(* its first word, the hosts of its URLs and what patterns find in it.     *)
(***************************************************************************)
EXTENDS Naturals, Sequences

CONSTANTS
    Depth,          \* 12, both in collectStrings and in redact
    Root,           \* the workspace root, resolved
    DottedNames,    \* path segments that start with a dot
    SensitiveKeys,  \* keys isSensitiveKey accepts
    LocalHosts      \* hosts equal to an entry of allowedHosts or below one

ASSUME DepthAssumption == Depth \in Nat
ASSUME DottedAssumption == {".", ".."} \subseteq DottedNames

SqlKinds == [select |-> "select", with |-> "select", insert |-> "insert", update |-> "update",
             delete |-> "delete", drop |-> "ddl", create |-> "ddl", alter |-> "ddl",
             truncate |-> "ddl", call |-> "unknown", exec |-> "unknown", merge |-> "unknown"]
SqlVerbs == DOMAIN SqlKinds
DestructiveVerbs == {"drop", "delete", "truncate", "update"}

If(condition, flag) == IF condition THEN {flag} ELSE {}

-----------------------------------------------------------------------------
(* One string *)

\* It holds a separator, or starts with a dot.
PathLike(s) == Len(s.segments) > 1 \/ s.segments[1] \in DottedNames

IsAbsolute(s) == Len(s.segments) > 1 /\ s.segments[1] = ""

HasParentTraversalSegment(s) == \E k \in DOMAIN s.segments : s.segments[k] = ".."

IsWithin(resolved) ==
    \/ resolved = Root
    \/ Root # <<>> /\ Len(resolved) > Len(Root) /\ SubSeq(resolved, 1, Len(Root)) = Root

IsExternal(host) == host \notin LocalHosts

\* What one SQL string says of the statement.
Statement(s) ==
    {SqlKinds[s.verb]}
      \cup If(s.more, "sqlIsMultiStatement")
      \cup If(s.verb \in DestructiveVerbs \/ s.more, "sqlIsDestructive")

-----------------------------------------------------------------------------
(* extractToolCallContext *)

\* Defect: the last level is not read.
CollectedShort(args) == {i \in DOMAIN args : args[i].kind = "string" /\ Len(args[i].keys) < Depth}

\* collectStrings: the string leaves it descends to.
Collected(args) == {i \in DOMAIN args : args[i].kind = "string" /\ Len(args[i].keys) <= Depth}

\* extractSql judges the first string that looks like SQL.
SqlCandidates(args) == {i \in Collected(args) : args[i].string.verb \in SqlVerbs}

ExtractSql(args) ==
    IF SqlCandidates(args) = {} THEN {"none"}
    ELSE LET i == CHOOSE i \in SqlCandidates(args) : \A j \in SqlCandidates(args) : i <= j
         IN  Statement(args[i].string)

\* redact finds something: a value under a key that says it is a secret, or a
\* pattern within the part of a string it looks at.
DetectCredential(args) ==
    \E i \in DOMAIN args :
        \/ \E k \in DOMAIN args[i].keys :
             /\ args[i].keys[k] \in SensitiveKeys /\ k <= Depth + 1
             /\ k < Len(args[i].keys) \/ args[i].kind # "null"
        \/ args[i].kind = "string" /\ Len(args[i].keys) <= Depth
             /\ "secret" \in args[i].string.marks

ExtractToolCallContext(args) ==
    LET strings == {args[i].string : i \in Collected(args)}
        paths == {s \in strings : PathLike(s)}
        hosts == UNION {s.hosts : s \in strings}
    IN  If(\A s \in paths : IsWithin(s.resolved), "pathsWithinWorkspace")
          \cup If(\E s \in paths : IsAbsolute(s), "hasAbsolutePath")
          \cup If(\E s \in paths : HasParentTraversalSegment(s), "hasParentTraversal")
          \cup If(\E s \in strings : "sensitive" \in s.marks, "hasSensitivePath")
          \cup If(hosts # {}, "hasUrl")
          \cup If(\E h \in hosts : IsExternal(h), "hasExternalUrl")
          \cup ExtractSql(args)
          \cup If(\E s \in strings : "shell" \in s.marks, "hasShellMetacharacters")
          \cup If(DetectCredential(args), "containsCredential")
          \cup If(\E s \in strings : "invisible" \in s.marks, "hasInvisibleUnicode")

-----------------------------------------------------------------------------
(* extractResourceReadContext *)

\* paths holds what path.resolve makes of the path of a file:// URI, nothing for
\* other URIs; hosts are those of its URLs in order.
ExtractResourceReadContext(uri) ==
    {uri.scheme}
      \cup If(\E p \in uri.paths : IsWithin(p), "pathsWithinWorkspace")
      \cup If(uri.sensitive, "hasSensitivePath")
      \cup If(/\ uri.scheme # "file" /\ uri.hosts # <<>>
              /\ IsExternal(uri.hosts[1]), "hasExternalUrl")

-----------------------------------------------------------------------------
(* What the flags mean, string by string: the reference the properties use.  *)
(* It knows of no order among the strings and of no filter over them.        *)

\* What is looked at: no value below the last level that is read.
InReach(leaf) == leaf.kind = "string" /\ Len(leaf.keys) <= Depth

Strings(args) == {args[i].string : i \in {j \in DOMAIN args : InReach(args[j])}}

\* What one string raises by itself.
Alarms(s) ==
    {flag \in {"hasAbsolutePath", "hasParentTraversal", "hasSensitivePath", "hasUrl",
               "hasExternalUrl", "hasShellMetacharacters", "hasInvisibleUnicode"} :
        \/ flag = "hasAbsolutePath" /\ IsAbsolute(s)
        \/ flag = "hasParentTraversal" /\ HasParentTraversalSegment(s)
        \/ flag = "hasSensitivePath" /\ "sensitive" \in s.marks
        \/ flag = "hasUrl" /\ s.hosts # {}
        \/ flag = "hasExternalUrl" /\ ~(s.hosts \subseteq LocalHosts)
        \/ flag = "hasShellMetacharacters" /\ "shell" \in s.marks
        \/ flag = "hasInvisibleUnicode" /\ "invisible" \in s.marks}

Escapes(s) == PathLike(s) /\ ~IsWithin(s.resolved)

\* A leaf is a secret when it looks like one, or when it is, or is part of, the
\* value of a key that says so in an object within reach.
Secret(leaf) ==
    \/ InReach(leaf) /\ "secret" \in leaf.string.marks
    \/ \E k \in DOMAIN leaf.keys :
         /\ k - 1 <= Depth /\ leaf.keys[k] \in SensitiveKeys
         /\ leaf.kind = "null" => k # Len(leaf.keys)

\* What the SQL in the arguments says, one statement for each string of it.
Statements(args) ==
    LET sql == {s \in Strings(args) : s.verb \in SqlVerbs}
    IN  IF sql = {} THEN {{"none"}} ELSE {Statement(s) : s \in sql}

\* The contexts the arguments warrant: every alarm a string in reach raises,
\* containment only if none escapes, a credential if a leaf is one, and the
\* statement of one of the SQL strings; of several, the others are not told.
Warranted(args) ==
    LET common == (UNION {Alarms(s) : s \in Strings(args)})
                    \cup If(~\E s \in Strings(args) : Escapes(s), "pathsWithinWorkspace")
                    \cup If(\E i \in DOMAIN args : Secret(args[i]), "containsCredential")
    IN  {common \cup statement : statement \in Statements(args)}
===============================================================================
