------------------------- MODULE MCRequestPipeline -------------------------
(* Model-checking instances of RequestPipeline.  Two payloads and two      *)
(* scores suffice: one below the threshold of 80, one at or above it.       *)
EXTENDS RequestPipeline, TLC

MCMethods == {"tools/call", "resources/read"}
MCPayloads == {[length |-> "short", traversals |-> 0, commands |-> 0],
               [length |-> "long", traversals |-> 1, commands |-> 0]}
MCScores == {10, 90}

\* A text nobody objects to, one with homoglyphs the classifier is sure about,
\* one with a rule that JSON hides, and one condemned for its base64.
NoTraits == [marks |-> {}, rules |-> {}, broken |-> {}, encoded |-> {}, topics |-> {},
             labels |-> <<[label |-> "BENIGN", score |-> 99]>>]
MCTexts == {NoTraits,
            [NoTraits EXCEPT !.marks = {"confusable"}, !.labels = <<[label |-> "INJECTION", score |-> 80]>>],
            [NoTraits EXCEPT !.rules = {"imperative"}, !.broken = {"imperative"}],
            [NoTraits EXCEPT !.encoded = {"role"}]}

RequestSymmetry == Permutations(Requests)
=============================================================================
