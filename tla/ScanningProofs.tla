----------------------------- MODULE ScanningProofs ----------------------------
(* What the scanner's verdicts mean, for every definition and every result. *)
EXTENDS Scanning, TLAPS

\* What a rule, a mark or the classifier can say of a text.
LEMMA FindingsOfText ==
    ASSUME NEW text \in TextTraits, NEW answered
    PROVE  /\ DetectUnicode(text) \subseteq {"medium", "high", "critical"}
           /\ (text.marks \ {"confusable"} # {}) <=> (DetectUnicode(text) \cap {"high", "critical"} # {})
           /\ (text.marks = {}) <=> (DetectUnicode(text) = {})
           /\ DetectPoisoning(text) \subseteq {"high", "critical"}
           /\ (text.rules = {}) <=> (DetectPoisoning(text) = {})
           /\ DetectEncodedPoisoning(text) \subseteq {"critical"}
           /\ (text.encoded = {}) <=> (DetectEncodedPoisoning(text) = {})
           /\ ClassifyWithPromptGuard(text, answered) \subseteq {"medium", "high", "critical"}
           /\ ClassifyWithPromptGuard(text, answered) # {} => Suspected(text) # {}
<1>1. /\ text.marks \subseteq {"bidi", "tags", "invisible", "confusable"}
      /\ text.rules \subseteq {"imperative", "secrecy", "path", "exfiltration", "crossTool", "role"}
  BY DEF TextTraits, UnicodeSeverity, RuleSeverity
<1>2. /\ \A mark \in text.marks : UnicodeSeverity[mark] \in {"medium", "high", "critical"}
      /\ \A mark \in text.marks : UnicodeSeverity[mark] = "medium" <=> mark = "confusable"
  BY <1>1 DEF UnicodeSeverity
<1>3. \A rule \in text.rules : RuleSeverity[rule] \in {"high", "critical"}
  BY <1>1 DEF RuleSeverity
<1>4. /\ DetectUnicode(text) \subseteq {"medium", "high", "critical"}
      /\ (text.marks \ {"confusable"} # {}) <=> (DetectUnicode(text) \cap {"high", "critical"} # {})
      /\ (text.marks = {}) <=> (DetectUnicode(text) = {})
  BY <1>2 DEF DetectUnicode
<1>5. /\ DetectPoisoning(text) \subseteq {"high", "critical"}
      /\ (text.rules = {}) <=> (DetectPoisoning(text) = {})
  BY <1>3 DEF DetectPoisoning
<1>6. /\ DetectEncodedPoisoning(text) \subseteq {"critical"}
      /\ (text.encoded = {}) <=> (DetectEncodedPoisoning(text) = {})
  BY DEF DetectEncodedPoisoning
<1>7. /\ ClassifyWithPromptGuard(text, answered) \subseteq {"medium", "high", "critical"}
      /\ ClassifyWithPromptGuard(text, answered) # {} => Suspected(text) # {}
  BY DEF ClassifyWithPromptGuard
<1> QED
  BY <1>4, <1>5, <1>6, <1>7

\* The verdict is that of the gravest finding, wherever it is among them.
LEMMA VerdictOfFindings ==
    ASSUME NEW F, F \subseteq {"medium", "high", "critical"}
    PROVE  /\ AggregateVerdict(F) \in ScanVerdicts
           /\ AggregateVerdict(F) = "malicious" <=> F \cap {"high", "critical"} # {}
           /\ AggregateVerdict(F) = "clean" <=> F = {}
<1>1. SeverityRank["medium"] = 2 /\ SeverityRank["high"] = 3 /\ SeverityRank["critical"] = 4
  BY DEF SeverityRank
<1>2. CASE F = {}
  BY <1>2 DEF AggregateVerdict, ScanVerdicts
<1>3. CASE F # {}
  <2>1. \E s \in F : \A other \in F : SeverityRank[other] <= SeverityRank[s]
    <3>1. CASE "critical" \in F
      BY <1>1, <3>1
    <3>2. CASE "critical" \notin F /\ "high" \in F
      BY <1>1, <3>2
    <3>3. CASE "critical" \notin F /\ "high" \notin F
      <4>1. F = {"medium"}
        BY <1>3, <3>3
      <4> QED
        BY <1>1, <4>1
    <3> QED
      BY <3>1, <3>2, <3>3
  <2>2. Highest(F) \in F /\ \A other \in F : SeverityRank[other] <= SeverityRank[Highest(F)]
    BY <2>1 DEF Highest
  <2>3. Highest(F) \in {"medium", "high", "critical"}
    BY <2>2
  <2>4. Highest(F) = "medium" => F \cap {"high", "critical"} = {}
    BY <1>1, <2>2
  <2> DEFINE h == Highest(F)
  <2> HIDE DEF h
  <2>5. AggregateVerdict(F) = IF h \in {"high", "critical"} THEN "malicious" ELSE "suspicious"
    BY <1>3, <2>3 DEF AggregateVerdict, h
  <2> QED
    BY <1>3, <2>2, <2>3, <2>4, <2>5 DEF ScanVerdicts, h
<1> QED
  BY <1>2, <1>3

\* A tool whose name hides a capability is found out, and no other is.
LEMMA FindingsOfShadowing ==
    ASSUME NEW tool \in Definition
    PROVE  /\ DetectShadowing(tool) \subseteq {"high", "critical"}
           /\ (DetectShadowing(tool) # {}) <=> Shadows(tool)
<1> DEFINE detected == tool.keys \cup (UNION {text.topics : text \in TextsOf(tool)})
<1>1. detected \subseteq Capabilities
  BY TextsAssumption DEF Definition, TextsOf, TextTraits
<1>2. DetectShadowing(tool) =
        {IF capability \in {"shell", "credentials"} THEN "critical" ELSE "high" :
            capability \in detected \ tool.suggested}
  BY DEF DetectShadowing
<1>3. Shadows(tool) <=> detected \ tool.suggested # {}
  BY <1>1 DEF Shadows
<1> HIDE DEF detected
<1> QED
  BY <1>2, <1>3

\* scanTool, for every definition: what the patterns condemn is malicious
\* whether the classifier answers or not, and no tool is suspected without a
\* reason in its texts or its name.
THEOREM ToolVerdictsAreEarned ==
    ASSUME NEW tool \in Definition, NEW answered
    PROVE  ScanTool(tool, answered) \in ScanVerdicts /\ EarnedByTool(tool, ScanTool(tool, answered))
<1> DEFINE OfText(text) == DetectUnicode(text) \cup DetectPoisoning(text)
                             \cup ClassifyWithPromptGuard(text, answered)
           texts == UNION {OfText(text) : text \in TextsOf(tool)}
           encoded == UNION {DetectEncodedPoisoning(text) : text \in tool.description}
           F == texts \cup encoded \cup DetectShadowing(tool)
<1>1. \A text \in TextsOf(tool) : text \in TextTraits
  BY TextsAssumption DEF Definition, TextsOf
<1>2. tool.description \subseteq TextsOf(tool)
  BY DEF TextsOf
<1>3. \A text \in TextsOf(tool) :
        /\ OfText(text) \subseteq {"medium", "high", "critical"}
        /\ Grave(text) => OfText(text) \cap {"high", "critical"} # {}
        /\ text.marks # {} => OfText(text) # {}
        /\ OfText(text) # {} => Grave(text) \/ text.marks # {} \/ Suspected(text) # {}
  BY <1>1, FindingsOfText DEF Grave
<1>4. \A text \in tool.description :
        /\ DetectEncodedPoisoning(text) \subseteq {"critical"}
        /\ (text.encoded = {}) <=> (DetectEncodedPoisoning(text) = {})
  BY <1>1, <1>2, FindingsOfText
<1>5. ScanTool(tool, answered) = AggregateVerdict(F)
  BY DEF ScanTool
<1> HIDE DEF OfText
<1>6. F \subseteq {"medium", "high", "critical"}
  BY <1>3, <1>4, FindingsOfShadowing
<1>7. GraveTool(tool) => F \cap {"high", "critical"} # {}
  <2>1. ASSUME NEW text \in TextsOf(tool), Grave(text)
        PROVE  F \cap {"high", "critical"} # {}
    BY <1>3, <2>1
  <2>2. ASSUME NEW text \in tool.description, text.encoded # {}
        PROVE  F \cap {"high", "critical"} # {}
    <3>1. "critical" \in DetectEncodedPoisoning(text)
      BY <1>4, <2>2
    <3> QED
      BY <3>1
  <2>3. ASSUME Shadows(tool)
        PROVE  F \cap {"high", "critical"} # {}
    BY <2>3, FindingsOfShadowing
  <2> QED
    BY <2>1, <2>2, <2>3 DEF GraveTool
<1>8. (\E text \in TextsOf(tool) : text.marks # {}) => F # {}
  BY <1>3
<1>9. F # {} => GraveTool(tool) \/ \E text \in TextsOf(tool) : text.marks # {} \/ Suspected(text) # {}
  <2>1. CASE texts # {}
    BY <1>3, <2>1 DEF GraveTool
  <2>2. CASE encoded # {}
    BY <1>4, <2>2 DEF GraveTool
  <2>3. CASE DetectShadowing(tool) # {}
    BY <2>3, FindingsOfShadowing DEF GraveTool
  <2> QED
    BY <2>1, <2>2, <2>3
<1> HIDE DEF F
<1> QED
  BY <1>5, <1>6, <1>7, <1>8, <1>9, VerdictOfFindings DEF EarnedByTool

\* scanResult, likewise, for every text a tool may answer.
THEOREM ResultVerdictsAreEarned ==
    ASSUME NEW text \in TextTraits, NEW answered
    PROVE  ScanResult(text, answered) \in ScanVerdicts /\ EarnedByResult(text, ScanResult(text, answered))
<1> DEFINE F == DetectUnicode(text) \cup DetectPoisoning(text) \cup DetectEncodedPoisoning(text)
                  \cup ClassifyWithPromptGuard(text, answered)
<1>1. /\ F \subseteq {"medium", "high", "critical"}
      /\ Grave(text) \/ text.encoded # {} => F \cap {"high", "critical"} # {}
      /\ text.marks # {} => F # {}
      /\ F # {} => Grave(text) \/ text.encoded # {} \/ text.marks # {} \/ Suspected(text) # {}
  BY FindingsOfText DEF Grave
<1>2. ScanResult(text, answered) = AggregateVerdict(F)
  BY DEF ScanResult
<1> HIDE DEF F
<1> QED
  BY <1>1, <1>2, VerdictOfFindings DEF EarnedByResult
===============================================================================
