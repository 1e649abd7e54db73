-------------------------------- MODULE Scanning -------------------------------
(***************************************************************************)
(* The verdicts of packages/scanner on tool definitions and on results:    *)
(* detectors/unicode.ts, detectors/poisoning.ts, detectors/shadowing.ts,   *)
(* classifier/prompt-guard.ts, scanner.ts and result-scanner.ts.           *)
(*                                                                         *)
(* A text is what the detectors' patterns find in it.  A finding is its    *)
(* severity.  The classifier is a service that may fail or be too slow.    *)
(***************************************************************************)
EXTENDS Integers, Sequences

CONSTANT ScannedTexts   \* the texts upstreams write

UnicodeSeverity ==
    [bidi |-> "high", tags |-> "critical", invisible |-> "high", confusable |-> "medium"]

RuleSeverity ==
    [imperative |-> "high", secrecy |-> "critical", path |-> "high",
     exfiltration |-> "critical", crossTool |-> "high", role |-> "critical"]

Capabilities == {"filesystem", "network", "shell", "database", "credentials"}

SeverityRank == [info |-> 0, low |-> 1, medium |-> 2, high |-> 3, critical |-> 4]

\* marks: the kinds of deceptive characters; rules: the rules that match once
\* those are stripped; broken: the rules no longer matched when JSON escapes the
\* line breaks and quotes; encoded: the rules that match the readable base64 in
\* it; topics: the capabilities it speaks of; labels: the classifier's view of
\* it, scores in percent.
TextTraits ==
    [marks : SUBSET DOMAIN UnicodeSeverity, rules : SUBSET DOMAIN RuleSeverity,
     broken : SUBSET DOMAIN RuleSeverity, encoded : SUBSET DOMAIN RuleSeverity,
     topics : SUBSET Capabilities,
     labels : Seq([label : {"BENIGN", "INJECTION", "JAILBREAK"}, score : 0..100])]

\* description: none or one text; parameters: the descriptions of the
\* properties; keys, suggested: what their names and the tool's name speak of.
Definition ==
    [description : {d \in SUBSET ScannedTexts : \A s, t \in d : s = t},
     parameters : SUBSET ScannedTexts,
     keys : SUBSET Capabilities, suggested : SUBSET Capabilities]

ASSUME TextsAssumption == ScannedTexts \subseteq TextTraits

-----------------------------------------------------------------------------
(* Detectors *)

DetectUnicode(text) == {UnicodeSeverity[mark] : mark \in text.marks}

DetectPoisoning(text) == {RuleSeverity[rule] : rule \in text.rules}

DetectEncodedPoisoning(text) == IF text.encoded = {} THEN {} ELSE {"critical"}

\* The first label that is not benign and more likely than not.
Suspected(text) ==
    {i \in DOMAIN text.labels : text.labels[i].label # "BENIGN" /\ text.labels[i].score > 50}

\* answered: the texts the classifier answered for, in time.
ClassifyWithPromptGuard(text, answered) ==
    LET score == text.labels[CHOOSE i \in Suspected(text) : \A j \in Suspected(text) : i <= j].score
    IN  IF text \notin answered \/ Suspected(text) = {} THEN {}
        ELSE {CASE score > 90 -> "critical"
                [] score > 70 /\ score <= 90 -> "high"
                [] OTHER -> "medium"}

TextsOf(tool) == tool.description \cup tool.parameters

\* Capabilities the text of a definition speaks of and its name does not.
DetectShadowing(tool) ==
    LET detected == tool.keys \cup (UNION {text.topics : text \in TextsOf(tool)})
    IN  {IF capability \in {"shell", "credentials"} THEN "critical" ELSE "high" :
            capability \in detected \ tool.suggested}

-----------------------------------------------------------------------------
(* Verdicts *)

ScanVerdicts == {"clean", "suspicious", "malicious"}

Highest(findings) ==
    CHOOSE s \in findings : \A other \in findings : SeverityRank[other] <= SeverityRank[s]

\* Defect: only the gravest findings count.
VerdictOfCriticalOnly(findings) == IF "critical" \in findings THEN "malicious" ELSE "clean"

AggregateVerdict(findings) ==
    CASE findings = {} -> "clean"
      [] findings # {} /\ Highest(findings) \in {"high", "critical"} -> "malicious"
      [] findings # {} /\ Highest(findings) \in {"low", "medium"} -> "suspicious"
      [] OTHER -> "clean"

\* scanTool.  Base64 is looked for in the description only.
ScanTool(tool, answered) ==
    AggregateVerdict(
        (UNION {DetectUnicode(text) \cup DetectPoisoning(text)
                  \cup ClassifyWithPromptGuard(text, answered) : text \in TextsOf(tool)})
          \cup (UNION {DetectEncodedPoisoning(text) : text \in tool.description})
          \cup DetectShadowing(tool))

\* A result is scanned as JSON.
Serialized(text) == [text EXCEPT !.rules = text.rules \ text.broken]

\* scanResult
ScanResult(text, answered) ==
    AggregateVerdict(DetectUnicode(text) \cup DetectPoisoning(text)
                       \cup DetectEncodedPoisoning(text)
                       \cup ClassifyWithPromptGuard(text, answered))

-----------------------------------------------------------------------------
(* What a verdict must say: the reference the properties use *)

\* Anything but a homoglyph or a classifier's doubt is grave.
Grave(text) == text.marks \ {"confusable"} # {} \/ text.rules # {}

Shadows(tool) ==
    \E capability \in Capabilities \ tool.suggested :
        \/ capability \in tool.keys
        \/ \E text \in TextsOf(tool) : capability \in text.topics

GraveTool(tool) ==
    \/ \E text \in TextsOf(tool) : Grave(text)
    \/ \E text \in tool.description : text.encoded # {}
    \/ Shadows(tool)

\* The patterns alone condemn what is grave, whatever the classifier does, and
\* nothing is condemned or suspected without a reason.
EarnedByTool(tool, verdict) ==
    /\ GraveTool(tool) => verdict = "malicious"
    /\ (\E text \in TextsOf(tool) : text.marks # {}) => verdict # "clean"
    /\ verdict # "clean" =>
         GraveTool(tool) \/ \E text \in TextsOf(tool) : text.marks # {} \/ Suspected(text) # {}

EarnedByResult(text, verdict) ==
    /\ Grave(text) \/ text.encoded # {} => verdict = "malicious"
    /\ text.marks # {} => verdict # "clean"
    /\ verdict # "clean" =>
         Grave(text) \/ text.encoded # {} \/ text.marks # {} \/ Suspected(text) # {}
===============================================================================
