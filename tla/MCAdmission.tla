----------------------------- MODULE MCAdmission ------------------------------
(* Short names over an alphabet with separators in every position, three *)
(* servers, and policy files with every defect the loader looks for.     *)
EXTENDS Admission, SequencesExt

Server(id, trust, enabled) == [id |-> id, trust |-> trust, enabled |-> enabled]
A == <<"a">>
AA == <<"a", "-">>
MCSentinelId == <<"s">>

MCConfigs == {
    <<Server(A, "trusted", TRUE), Server(AA, "untrusted", TRUE)>>,
    <<Server(A \o A, "quarantined", TRUE), Server(AA, "trusted", FALSE), Server(A, "untrusted", TRUE)>>,
    <<Server(A, "trusted", TRUE), Server(A \o <<"_", "_", "a">>, "untrusted", TRUE)>>,
    <<Server(A, "trusted", TRUE), Server(A, "untrusted", TRUE)>>,
    <<Server(MCSentinelId, "trusted", TRUE)>>}

MCOwnToolNames == {A}

\* Texts that are harmless, deceptive, doubted by the classifier, condemned by a
\* rule or by what they hold in base64.
NoTraits == [marks |-> {}, rules |-> {}, broken |-> {}, encoded |-> {}, topics |-> {},
             labels |-> <<[label |-> "BENIGN", score |-> 99]>>]
Homoglyphs == [NoTraits EXCEPT !.marks = {"confusable"}]
Doubted == [NoTraits EXCEPT !.labels = <<[label |-> "JAILBREAK", score |-> 40],
                                         [label |-> "INJECTION", score |-> 80]>>]
Imperative == [NoTraits EXCEPT !.rules = {"imperative"}]
Hidden == [NoTraits EXCEPT !.encoded = {"secrecy"}]
OfFiles == [NoTraits EXCEPT !.topics = {"filesystem"}]
MCTexts == {NoTraits, Homoglyphs, Doubted, Imperative, Hidden, OfFiles}

Plain == [description |-> {NoTraits}, parameters |-> {}, keys |-> {}, suggested |-> {}]
Confusing == [Plain EXCEPT !.parameters = {Homoglyphs, Hidden}]
Dubious == [Plain EXCEPT !.description = {Doubted}]
Poisoned == [Plain EXCEPT !.parameters = {Imperative}]
Encoded == [Plain EXCEPT !.description = {Hidden}]
Honest == [Plain EXCEPT !.description = {OfFiles}, !.suggested = {"filesystem"}]
Shadowing == [Honest EXCEPT !.suggested = {"network"}]

Tool(id, tool, definition) == [server |-> id, tool |-> tool, definition |-> definition]
MCOffers == {
    {},
    {Tool(A, A, Plain), Tool(A, <<"_", "a">>, Confusing), Tool(AA, A, Dubious)},
    {Tool(A, <<"a", "_", "_", "a">>, Honest), Tool(AA, <<"_", "a">>, Shadowing), Tool(AA, <<".">>, Plain)},
    {Tool(A, A, Poisoned), Tool(AA, A, Encoded), Tool(A \o <<"_", "_", "a">>, A, Plain)}}

MCGroup == {Qualify(A, A), Qualify(AA, <<"_", "a">>), A}

MCAskedNames == {
    <<"a", "_", "_", "a">>,
    <<"a", "_", "_", "_", "a">>,
    <<"a", "-", "_", "_", "a">>,
    <<"a", "-", "_", "_", "_", "a">>,
    <<"a", "a", "_", "_", "a">>,
    <<"a", "_", "_", "a", "_", "_", "a">>,
    <<"s", "_", "_", "a">>,
    <<"a", "_", "_">>, <<"_", "_", "a">>, <<"a", "_", "a">>, <<"a", "_", "_", ".">>}

MCCharacters == {"a", "s", "A", ".", "-", "_", "/", Scheme, "f", "%66", "%2F", "%zz",
                 "%20", "%EF%BB%BF", "%3D%3Fbase64%3F", "%3F%3D"}
MCEncode == [f |-> "f"] @@ ("/" :> "%2F") @@ (" " :> "%20") @@ (ByteOrderMark :> "%EF%BB%BF")
              @@ (Prefix :> "%3D%3Fbase64%3F") @@ (Suffix :> "%3F%3D")
MCOctets == DOMAIN MCEncode
MCSpellings == Range(MCEncode) \cup {"%66", "/", "%zz"}
MCDecode == [s \in MCSpellings |->
               CASE s \in Range(MCEncode) -> CHOOSE o \in MCOctets : MCEncode[o] = s
                 [] s = "%66" -> "f" [] s = "/" -> "/" [] s = "%zz" -> "malformed"]

\* What may travel is spelled by itself, the others by their escapes.
MCVisible == {"a", "s", "A", ".", "-", "_", "/", "f", Prefix, Suffix}
               \cup {"%20", "%EF%BB%BF"}
MCEncodable == MCOctets \cup {"a", "s", "A", "-", "_"}
MCBase64 == [c \in MCEncodable |-> IF c \in {" ", ByteOrderMark} THEN MCEncode[c] ELSE c]
MCUnbase64 == [c \in MCVisible |->
                 IF c \in Range(MCBase64) THEN CHOOSE o \in MCEncodable : MCBase64[o] = c ELSE "?"]

\* URIs that travel as they are, that begin or end with a blank or a byte order
\* mark, and that look wrapped.
MCUris == {<<"f">>, <<"/">>, <<"f", "/">>, <<" ", "f">>, <<"f", " ">>, <<ByteOrderMark, "f">>,
           <<"f", ByteOrderMark>>, <<Prefix, "f", Suffix>>, <<Prefix, Suffix>>}
MCUrls == MCUris \ {<<"/">>, <<Prefix, Suffix>>}
MCAskedUris ==
    {QualifyResourceUri(A, uri) : uri \in MCUris}
      \cup {QualifyResourceUri(AA, uri) : uri \in {<<"f">>, <<"f", "/">>}}
      \cup {<<Scheme>> \o id \o <<"/">> \o e :
              id \in {A, AA}, e \in {<<"%66", "%2F">>, <<"f", "/">>, <<"%zz">>}}
      \cup {<<>>, <<"f">>, <<Scheme>>, <<Scheme, "a", "/">>, <<Scheme, "/", "f">>,
            <<Scheme, "_", "/", "f">>}

\* Resources: a file in the workspace and a file outside it.
MCUriShape ==
    [uri \in MCUrls |->
        [scheme |-> "file", paths |-> {IF uri = <<"f">> THEN <<"ws", "f">> ELSE <<"f">>},
         hosts |-> <<>>, sensitive |-> uri # <<"f">>]]

MCRoot == <<"ws">>
MCDottedNames == {".", "..", ".env"}

String(segments, resolved, verb, more, hosts, marks) ==
    [segments |-> segments, resolved |-> resolved, verb |-> verb, more |-> more,
     hosts |-> hosts, marks |-> marks]
Word(marks) == String(<<"w">>, <<"ws", "w">>, "w", FALSE, {}, marks)
Sql(verb, more) == String(<<"w">>, <<"ws", "w">>, verb, more, {}, {})
Up == String(<<"..">>, <<>>, "..", FALSE, {}, {})
Back == String(<<"a", "..", "b">>, <<"ws", "b">>, "a", FALSE, {}, {})
Outside == String(<<"", "ws2">>, <<"ws2">>, "ws2", FALSE, {}, {"sensitive"})
Url(host) == String(<<"http:", "", host>>, <<"ws", "u">>, "u", FALSE, {host}, {})

Leaf(keys, string) == [keys |-> keys, kind |-> "string", string |-> string]
Other(keys, kind) == [keys |-> keys, kind |-> kind]

\* Strings of every kind, shallow, at the last depth that is read and below it;
\* secrets by pattern and by key; SQL behind SQL.
MCArguments == {
    <<>>,
    <<Leaf(<<"k", "k">>, Up)>>,
    <<Leaf(<<"k", "k", "k">>, Up)>>,
    <<Leaf(<<"k">>, Back), Leaf(<<"k">>, Word({"shell", "invisible"}))>>,
    <<Leaf(<<"k">>, Outside), Leaf(<<"k">>, Url("local"))>>,
    <<Leaf(<<"k">>, Url("far")), Leaf(<<"k", "k", "k">>, Word({"secret"}))>>,
    <<Leaf(<<"k">>, Word({"secret"}))>>,
    <<Other(<<"password", "k">>, "number")>>,
    <<Other(<<"k", "k", "password">>, "number")>>,
    <<Other(<<"password">>, "null"), Leaf(<<"k">>, Sql("select", FALSE))>>,
    <<Leaf(<<"k">>, Sql("select", FALSE)), Leaf(<<"k">>, Sql("drop", FALSE))>>,
    <<Leaf(<<"k">>, Sql("select", FALSE)), Leaf(<<"k">>, Sql("select", TRUE))>>,
    <<Leaf(<<"k">>, Sql("insert", TRUE)), Leaf(<<"k">>, Sql("merge", FALSE))>>}

Policy(id, effect, obligation, when, unless) ==
    [id |-> id, effect |-> effect, obligation |-> obligation, reason |-> TRUE,
     when |-> when, unless |-> unless]
Permit(id, obligation, when) == Policy(id, "permit", obligation, when, {})
Forbid(id, when) == Policy(id, "forbid", "none", when, {})
Base == Permit("p", "allow", {})
Second == {
    Permit("q", "approve", {"untrusted"}), Permit("r", "review", {"grouped"}),
    Forbid("p", {"untrusted"}), Forbid("g", {"suspicious"}),
    Forbid("h", {"resources/read", "untrusted"}),
    Permit("none", "allow", {}), Permit("q", "none", {}), Permit("q", "ask", {}),
    [Forbid("f", {}) EXCEPT !.obligation = "review"], [Base EXCEPT !.id = "r", !.reason = FALSE]}

\* policies/30-database.cedar for an agent of the standard tier.
Database == <<
    Policy("db_select_single_statement", "permit", "allow",
           {"tools/call", "grouped", "select"}, {"sqlIsMultiStatement", "sqlIsDestructive"}),
    Permit("db_multi_statement", "approve", {"tools/call", "grouped", "sqlIsMultiStatement"}),
    Permit("db_unparseable_statement", "review", {"tools/call", "grouped", "unknown"}),
    Policy("db_write", "permit", "approve",      \* every update and delete is destructive
           {"tools/call", "grouped", "insert"}, {"sqlIsDestructive"})>>

\* Shipped policies of src/policies, with one group for all and an agent of the
\* standard tier.
Shipped == <<
    Forbid("guard_malicious_tool", {"tools/call", "malicious"}),
    Forbid("guard_credential_to_untrusted_server", {"tools/call", "containsCredential", "untrusted"}),
    Forbid("guard_credential_to_external_url", {"tools/call", "containsCredential", "hasExternalUrl"}),
    Forbid("guard_sensitive_path_tool", {"tools/call", "hasSensitivePath"}),
    Forbid("guard_sensitive_path_resource", {"resources/read", "hasSensitivePath"}),
    Forbid("guard_invisible_unicode", {"tools/call", "hasInvisibleUnicode"}),
    Permit("catalog_get_prompt_trusted", "allow", {"prompts/get", "trusted", "clean"}),
    Permit("catalog_get_prompt_untrusted", "review", {"prompts/get", "untrusted"}),
    Policy("fs_read_within_workspace", "permit", "allow",
           {"tools/call", "grouped", "pathsWithinWorkspace", "clean"}, {"hasParentTraversal"}),
    Permit("fs_resource_read_within_workspace", "allow",
           {"resources/read", "pathsWithinWorkspace", "file"}),
    Policy("net_fetch_allowlisted_host", "permit", "allow", {"tools/call", "grouped", "hasUrl", "clean"},
           {"hasExternalUrl", "containsCredential"}),
    Permit("net_fetch_external_host", "review", {"tools/call", "grouped", "hasUrl", "hasExternalUrl"}),
    Policy("shell_standard_simple_command", "permit", "approve",
           {"tools/call", "grouped", "pathsWithinWorkspace"},
           {"hasShellMetacharacters", "hasParentTraversal"})>> \o Database

MCDatabaseOnly == {Database}

MCPolicyTexts ==
    {<<>>, Shipped, <<Base, Permit("d", "approve", {"sqlIsMultiStatement"})>>}
      \cup {<<x>> : x \in Second} \cup {<<x, Base>> : x \in Second}
      \cup {<<Base, Permit("r", "review", {"grouped"}), x>> : x \in Second}
===============================================================================
