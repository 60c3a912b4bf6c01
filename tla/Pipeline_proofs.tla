--------------------------- MODULE Pipeline_proofs ----------------------------
(***************************************************************************)
(* What the report of parse_log promises, proved for every log, every      *)
(* limits and every registry of parsers.  The invariant says, stage by     *)
(* stage, where each diagnostic comes from -- a failure or the last exit   *)
(* marker of the lines the head was normalized to, or the tail -- and that *)
(* what a parser that did not raise found is still among them.             *)
(***************************************************************************)
EXTENDS Pipeline, OrderTheorems, SequenceTheorems

-----------------------------------------------------------------------------
(* The inductive invariant. *)

(* The normalized text is at hand: parse_log is past normalize, and has not *)
(* ended in the catch-all.                                                  *)
Going == phase # "normalize" /\ (report = None \/ ~report.fatal)

Start ==
  /\ lines = << >> /\ diagnostics = << >> /\ raised = {} /\ next = 1 /\ selected = None
  /\ ~truncated_lines /\ ~truncated_chars /\ ~diagnostics_truncated /\ ~evidence_truncated

HeadOfLog ==
  /\ lines = Normalized(content, 1, Length(content), limits)
  /\ truncated_chars = CharsCut(content, 1, Length(content), limits)
  /\ truncated_lines = LinesCut(content, 1, Length(content), limits)

IsRescued(d) == d.parser = "pipeline" /\ d.evidence = << >> /\ IsExit(d)

IsExitOf(d, ls) ==
  /\ d.parser \in Parsers
  /\ ExitLines(ls) # {}
  /\ d.code = ls[Most(ExitLines(ls))].code
  /\ d.evidence = <<Most(ExitLines(ls))>>

IsFailureOf(d, ls) ==
  /\ d.parser \in Parsers /\ d.code = None /\ d.evidence # << >>
  /\ Head(d.evidence) \in FailureLines(ls, d.parser)
  /\ \A n \in DOMAIN d.evidence : d.evidence[n] \in DOMAIN ls

(* Every diagnostic has its source. *)
Sourced ==
  \A k \in DOMAIN diagnostics :
    LET d == diagnostics[k]
    IN  IsRescued(d) \/ IsExitOf(d, lines) \/ IsFailureOf(d, lines)

(* A rescued exit code is the only one. *)
ExitsApart ==
  \A k, m \in DOMAIN diagnostics :
    k # m /\ IsExit(diagnostics[k]) /\ IsExit(diagnostics[m]) =>
      diagnostics[k].parser # diagnostics[m].parser /\ diagnostics[k].parser # "pipeline"

Tried == {Specialized[j] : j \in 1..next - 1}

RegistryPosition ==
  /\ raised \subseteq Tried \cup {Fallback}
  /\ phase = "registry" =>
       /\ selected = None
       /\ \A k \in DOMAIN diagnostics : diagnostics[k].parser \in Tried
  /\ phase \in {"registry", "cap"} => ~diagnostics_truncated
  /\ phase # "registry" =>
       /\ next = Len(Specialized) + 1
       /\ selected # None \/ Fallback \in raised
       /\ selected = "specialized" /\ ~diagnostics_truncated => diagnostics # << >>

(* Whoever found anything found the exit code with it, and the rescue took  *)
(* the last one of the tail of a log that was cut by lines.                 *)
ExitFound ==
  /\ ExitLines(lines) # {} /\ ~diagnostics_truncated /\ (selected # None \/ diagnostics # << >>)
     => HasExit(diagnostics)
  /\ \A k \in DOMAIN diagnostics :
       diagnostics[k].parser = "pipeline" =>
         /\ phase \in {"evidence", "report", "done"}
         /\ ExitLines(lines) = {} \/ diagnostics_truncated \/ selected = None
         /\ truncated_lines /\ diagnostics[k].code = LastCode(NormalizedTail)
  /\ /\ phase \in {"evidence", "report", "done"}
     /\ truncated_lines /\ ExitLines(NormalizedTail) # {}
     => HasExit(diagnostics)

Cites(parser, n, ds) ==
  \E k \in DOMAIN ds :
    ds[k].parser = parser /\ ds[k].evidence # << >> /\ Head(ds[k].evidence) = n

(* The parsers that answered. *)
Heard == (Tried \ raised) \cup (IF selected = Fallback THEN {Fallback} ELSE {})

AllKept ==
  ~diagnostics_truncated =>
    \A parser \in Heard : \A n \in FailureLines(lines, parser) : Cites(parser, n, diagnostics)

TheReport ==
  phase = "done" /\ ~report.fatal =>
    report = [diagnostics |-> diagnostics, exit_code |-> ExitCode(diagnostics),
              truncated |-> Truncated, parse_failures |-> Cardinality(raised),
              fatal |-> FALSE]

PipelineInv ==
  /\ content \in Logs /\ limits \in Limits /\ TypeOK
  /\ phase = "normalize" => Start
  /\ Going =>
       HeadOfLog /\ Sourced /\ ExitsApart /\ RegistryPosition /\ ExitFound /\ AllKept
  /\ TheReport

-----------------------------------------------------------------------------
(* Slices of the text. *)

(* A log given to parse_log, and the limits given with it. *)
LEMMA TextTypes ==
  ASSUME content \in Logs, limits \in Limits
  PROVE  /\ content \in Log /\ limits \in ParseLimits
         /\ content.lines \in Seq(Line) /\ Len(content.lines) \in Nat
         /\ Length(content) = 2 * Len(content.lines)
         /\ limits.max_total_lines \in Nat \ {0} /\ limits.max_total_chars \in Nat \ {0}
         /\ limits.max_diagnostics \in Nat /\ limits.max_context_lines \in Nat \ {0}
  <1>1. content \in Log /\ limits \in ParseLimits
    BY PipelineAssumption
  <1>2. content.lines \in Seq(Line)
    BY <1>1 DEF Log
  <1>3. Len(content.lines) \in Nat
    BY <1>2, LenProperties
  <1>4. QED BY <1>1, <1>2, <1>3 DEF ParseLimits, Length

(* The breaks of a slice are those of consecutive lines. *)
LEMMA BreaksAreConsecutive ==
  ASSUME NEW text \in Log, NEW from \in Nat \ {0}, NEW to \in Nat, to <= 2 * Len(text.lines)
  PROVE  \E m \in Nat :
           /\ m <= Len(text.lines) /\ 2 * m <= to /\ to <= 2 * m + 2
           /\ to = 2 * Len(text.lines) => m >= Len(text.lines) - 1
           /\ Breaks(text, from, to) = ((from + 1) \div 2)..m
  <1> DEFINE N == Len(text.lines)
             h == to \div 2
             m == IF h = N /\ N > 0 /\ ~text.newline THEN N - 1 ELSE h
  <1>1. N \in Nat /\ to <= 2 * N
    <2>1. text.lines \in Seq(Line)
      BY DEF Log
    <2>2. QED BY <2>1, LenProperties
  <1>2. h \in Nat /\ 2 * h <= to /\ to <= 2 * h + 1 /\ h <= N
    BY <1>1
  <1>3. text.newline \in BOOLEAN
    BY DEF Log
  <1> HIDE DEF h, N
  <1>4. m \in Nat /\ m <= N /\ 2 * m <= to /\ to <= 2 * m + 2
    <2>1. CASE h = N /\ N > 0 /\ ~text.newline
      BY <1>1, <1>2, <2>1
    <2>2. CASE ~(h = N /\ N > 0 /\ ~text.newline)
      BY <1>1, <1>2, <2>2
    <2>3. QED BY <2>1, <2>2
  <1>5. to = 2 * N => m >= N - 1
    BY <1>1, <1>2
  <1>6. \A i \in Nat : (from <= 2 * i <=> (from + 1) \div 2 <= i) /\ (i = 0 => from > 2 * i)
    OBVIOUS
  <1>7. \A i \in 1..N : 2 * i <= to <=> i <= h
    BY <1>1, <1>2
  <1>8. Breaks(text, from, to) = {i \in 1..N : 2 * i \in from..to /\ (i < N \/ text.newline)}
    BY DEF Breaks, N
  <1>9. ASSUME NEW i \in Int PROVE i \in Breaks(text, from, to) <=> i \in ((from + 1) \div 2)..m
    <2>1. i \in Breaks(text, from, to) <=>
            i \in 1..N /\ from <= 2 * i /\ 2 * i <= to /\ (i < N \/ text.newline)
      BY <1>1, <1>8
    <2>2. (from + 1) \div 2 >= 1 /\ (from + 1) \div 2 \in Nat
      OBVIOUS
    <2>3. CASE h = N /\ N > 0 /\ ~text.newline
      BY <1>1, <1>2, <1>6, <1>7, <2>1, <2>2, <2>3
    <2>4. CASE h = N /\ text.newline
      BY <1>1, <1>2, <1>6, <1>7, <2>1, <2>2, <2>4
    <2>5. CASE h # N \/ N = 0
      BY <1>1, <1>2, <1>6, <1>7, <2>1, <2>2, <2>5
    <2>6. QED BY <1>1, <1>2, <2>3, <2>4, <2>5
  <1>10. Breaks(text, from, to) = ((from + 1) \div 2)..m
    BY <1>1, <1>4, <1>8, <1>9
  <1> HIDE DEF m
  <1>11. QED BY <1>4, <1>5, <1>10 DEF N

(* How many numbers an interval has. *)
LEMMA IntervalSize ==
  ASSUME NEW a \in Nat, NEW m \in Nat
  PROVE  IsFiniteSet(a..m) /\ Cardinality(a..m) = IF a > m THEN 0 ELSE m - a + 1
  BY FS_Interval

(* A slice has finitely many breaks. *)
LEMMA BreaksAreCounted ==
  ASSUME NEW text \in Log, NEW from \in Nat \ {0}, NEW to \in Nat, to <= 2 * Len(text.lines)
  PROVE  Cardinality(Breaks(text, from, to)) \in Nat
  <1>1. PICK m \in Nat : Breaks(text, from, to) = ((from + 1) \div 2)..m
    BY BreaksAreConsecutive
  <1>2. (from + 1) \div 2 \in Nat
    OBVIOUS
  <1>3. IsFiniteSet(((from + 1) \div 2)..m)
    BY <1>2, IntervalSize, Zenon
  <1>4. QED BY <1>1, <1>3, FS_CardinalityType

(* Where a slice is cut, its last line and how many lines it has. *)
LEMMA WhereCut ==
  ASSUME NEW text \in Log, NEW from \in Nat \ {0}, NEW to \in Nat, to <= 2 * Len(text.lines),
         from <= to + 1, NEW cap \in Nat \ {0}
  PROVE  LET end == LineCut(text, from, to, cap)
         IN  /\ end \in Nat /\ from <= end + 1 /\ end <= to
             /\ (end + 1) \div 2 - (from + 1) \div 2 + 1 \in 0..cap
             /\ Cardinality(Breaks(text, from, to)) < cap => end = to
  <1> DEFINE B == Breaks(text, from, to)
             a == (from + 1) \div 2
             end == LineCut(text, from, to, cap)
  <1>1. PICK m \in Nat :
          /\ m <= Len(text.lines) /\ 2 * m <= to /\ to <= 2 * m + 2
          /\ B = a..m
    BY BreaksAreConsecutive
  <1>2. a \in Nat /\ a >= 1 /\ 2 * a <= from + 1 /\ from <= 2 * a
    OBVIOUS
  <1> HIDE DEF a, B
  <1>3. Cardinality(B) = (IF a > m THEN 0 ELSE m - a + 1) /\ Cardinality(B) \in Nat
    <2>1. m \in Nat /\ a \in Nat
      BY <1>2
    <2>2. Cardinality(a..m) = IF a > m THEN 0 ELSE m - a + 1
      BY <2>1, IntervalSize, Zenon
    <2>3. Cardinality(B) = IF a > m THEN 0 ELSE m - a + 1
      BY <1>1, <2>2, Zenon
    <2>4. QED BY <2>1, <2>3
  <1>4. CASE Cardinality(B) < cap
    <2>1. end = to
      BY <1>4 DEF LineCut, B
    <2>2. (to + 1) \div 2 <= m + 1 /\ (to + 1) \div 2 \in Nat /\ a <= (to + 1) \div 2 + 1
      BY <1>1, <1>2
    <2>3. (to + 1) \div 2 - a + 1 \in 0..cap
      <3> DEFINE last == (to + 1) \div 2
      <3>1. last <= m + 1 /\ last \in Nat /\ a <= last + 1
        BY <2>2
      <3> HIDE DEF last
      <3>2. last - a + 1 \in 0..cap
        BY <1>1, <1>2, <1>3, <1>4, <3>1
      <3>3. QED BY <3>2 DEF last
    <2>4. QED BY <2>1, <2>3 DEF a, B
  <1>5. CASE ~(Cardinality(B) < cap)
    <2> DEFINE e == a + cap - 1
    <2>1. cap <= m - a + 1 /\ a <= m /\ e \in Nat /\ e <= m /\ e \in B
      BY <1>1, <1>2, <1>3, <1>5
    <2>2. ASSUME NEW i \in B
          PROVE  Cardinality({j \in B : j <= i}) = i - a + 1
      <3>1. i \in Nat /\ a <= i /\ i <= m
        BY <1>1, <1>2, <2>2
      <3>2. {j \in B : j <= i} = a..i
        BY <1>1, <1>2, <3>1
      <3>3. a \in Nat
        BY <1>2
      <3>4. Cardinality(a..i) = IF a > i THEN 0 ELSE i - a + 1
        BY <3>1, <3>3, IntervalSize, Zenon
      <3>5. Cardinality({j \in B : j <= i}) = IF a > i THEN 0 ELSE i - a + 1
        BY <3>2, <3>4, Zenon
      <3>6. QED BY <3>1, <3>3, <3>5
    <2>3. \A i \in B : Cardinality({j \in B : j <= i}) = cap <=> i = e
      <3>1. \A i \in B : i \in Nat
        BY <1>1, <1>2
      <3>2. QED BY <1>2, <2>2, <3>1
    <2> HIDE DEF e
    <2>4. (CHOOSE i \in B : Cardinality({j \in B : j <= i}) = cap) = e
      BY <2>1, <2>3
    <2>5. end = 2 * e
      BY <1>5, <2>4 DEF LineCut, B
    <2>6. (2 * e + 1) \div 2 = e
      BY <2>1
    <2>7. 2 * e <= to /\ from <= 2 * e + 1 /\ e - a + 1 = cap
      BY <1>1, <1>2, <2>1 DEF e
    <2>8. QED BY <1>5, <2>1, <2>5, <2>6, <2>7 DEF a, B
  <1>6. QED BY <1>4, <1>5

(* What normalize makes of a slice: whole lines of the text, plain ones, or *)
(* the marker that a cut left of a quotation; no more than the cap allows.  *)
LEMMA NormalizedIs ==
  ASSUME content \in Logs, limits \in Limits,
         NEW from \in Nat \ {0}, from <= Length(content) + 1
  PROVE  LET ls == Normalized(content, from, Length(content), limits)
         IN  /\ ls \in Seq(Line) /\ Len(ls) <= limits.max_total_lines
             /\ from = 1 =>
                  /\ Len(ls) <= Len(content.lines)
                  /\ \A n \in DOMAIN ls : ls[n] \in {content.lines[n], Plain}
                  /\ ~CharsCut(content, 1, Length(content), limits)
                     /\ ~LinesCut(content, 1, Length(content), limits)
                     => ls = content.lines
  <1> DEFINE N     == Len(content.lines)
             L     == Length(content)
             to    == CharCut(content, from, L, limits)
             cap   == limits.max_total_lines
             end   == LineCut(content, from, to, cap)
             first == (from + 1) \div 2
             last  == (end + 1) \div 2
             ls    == Normalized(content, from, L, limits)
  <1>1. /\ content \in Log /\ content.lines \in Seq(Line) /\ N \in Nat /\ L = 2 * N
        /\ cap \in Nat \ {0} /\ limits.max_total_chars \in Nat \ {0}
    BY TextTypes
  <1>2. to \in Nat /\ to <= L /\ from <= to + 1
    BY SMTT(40), <1>1 DEF CharCut, CharsCut
  <1>3. ls = [k \in 1..last - first + 1 |-> Fragment(content, first + k - 1, from, end)]
    BY DEF Normalized
  <1> HIDE DEF to, L, N, cap
  <1>4. /\ end \in Nat /\ from <= end + 1 /\ end <= to /\ last - first + 1 \in 0..cap
        /\ Cardinality(Breaks(content, from, to)) < cap => end = to
    BY <1>1, <1>2, WhereCut DEF N
  <1> HIDE DEF end
  <1>5. first \in Nat /\ first >= 1 /\ last \in Nat /\ last <= N
    BY <1>1, <1>2, <1>4
  <1> HIDE DEF ls, last
  <1>6. \A n \in 1..N : content.lines[n] \in Line /\ content.lines[n].code \in Nat
    <2>1. \A n \in 1..N : content.lines[n] \in Line
      BY <1>1, ElementOfSeq DEF N
    <2>2. QED BY <2>1 DEF Line
  <1>7. Plain \in Line
    BY DEF Plain, Line, Kinds
  <1>8. \A i \in 1..N : Fragment(content, i, from, end) \in Line
    <2>1. \A i \in 1..N : [kind |-> "exit", code |-> content.lines[i].code] \in Line
      BY <1>6 DEF Line, Kinds
    <2>2. QED BY <1>6, <1>7, <2>1 DEF Fragment
  <1>9. \A k \in 1..last - first + 1 : first + k - 1 \in 1..N
    BY <1>4, <1>5, <1>1
  <1>10. ls \in [1..last - first + 1 -> Line]
    BY <1>3, <1>8, <1>9
  <1>11. ls \in Seq(Line) /\ Len(ls) = last - first + 1
    BY <1>4, <1>10, SeqDef
  <1>12. ASSUME from = 1
         PROVE  /\ Len(ls) <= N
                /\ \A n \in DOMAIN ls : ls[n] \in {content.lines[n], Plain}
                /\ ~CharsCut(content, 1, L, limits) /\ ~LinesCut(content, 1, L, limits)
                   => ls = content.lines
    <2>1. first = 1 /\ Len(ls) = last /\ DOMAIN ls = 1..last
      BY <1>5, <1>10, <1>11, <1>12
    <2>2. \A n \in 1..last : ls[n] = Fragment(content, n, 1, end)
      BY <1>3, <1>5, <1>12, <2>1
    <2>3. \A n \in 1..last :
            Fragment(content, n, 1, end) = IF 2 * n <= end THEN content.lines[n] ELSE Plain
      BY <1>5 DEF Fragment
    <2>4. ASSUME ~CharsCut(content, 1, L, limits), ~LinesCut(content, 1, L, limits)
          PROVE  ls = content.lines
      <3>1. to = L /\ CharCut(content, 1, L, limits) = L
        BY <1>12, <2>4 DEF CharCut, to
      <3>2. Cardinality(Breaks(content, 1, L)) < cap
        <4>1. Cardinality(Breaks(content, 1, L)) \in Nat
          <5>1. L \in Nat /\ L <= 2 * Len(content.lines) /\ content \in Log /\ 1 \in Nat \ {0}
            BY <1>1 DEF N
          <5>2. QED BY <5>1, BreaksAreCounted
        <4>2. ~(Cardinality(Breaks(content, 1, L)) >= cap)
          BY <2>4, <3>1 DEF LinesCut, cap
        <4>3. QED BY <1>1, <4>1, <4>2
      <3>3. end = 2 * N
        BY <1>1, <1>4, <1>12, <3>1, <3>2
      <3>4. last = N
        BY <1>1, <3>3 DEF last
      <3>5. \A n \in 1..N : ls[n] = content.lines[n]
        BY <1>1, <2>2, <2>3, <3>3, <3>4
      <3>6. QED
        BY <1>1, <1>11, <2>1, <3>4, <3>5, SeqEqual DEF N
    <2>5. \A n \in DOMAIN ls : ls[n] \in {content.lines[n], Plain}
      BY <2>1, <2>2, <2>3
    <2>6. QED BY <1>5, <2>1, <2>4, <2>5
  <1>13. QED
    BY <1>4, <1>11, <1>12 DEF ls, L, N, cap

-----------------------------------------------------------------------------
(* What a parser returns. *)

(* The head of a sequence that has one. *)
LEMMA HeadIsFirst ==
  ASSUME NEW S, NEW s \in Seq(S), s # << >>
  PROVE  Head(s) = s[1] /\ 1 \in DOMAIN s /\ Len(s) >= 1
  <1>1. Len(s) \in Nat \ {0} /\ DOMAIN s = 1..Len(s)
    BY EmptySeq, LenProperties
  <1>2. QED BY <1>1

(* max() of a finite non-empty set of naturals is its greatest element. *)
LEMMA MostIs ==
  ASSUME NEW T \in SUBSET Nat, IsFiniteSet(T), T # {}
  PROVE  Most(T) \in T /\ \A y \in T : y <= Most(T)
  <1>1. \E x \in T : \A y \in T : y <= x
    BY GreatestOfFinite
  <1>2. QED BY <1>1 DEF Most

(* Positions in a sequence are finitely many natural numbers. *)
LEMMA PositionsOf ==
  ASSUME NEW S, NEW ls \in Seq(S), NEW T \in SUBSET DOMAIN ls
  PROVE  /\ DOMAIN ls = 1..Len(ls) /\ Len(ls) \in Nat
         /\ T \in SUBSET Nat /\ IsFiniteSet(T) /\ Cardinality(T) \in Nat
  <1>1. DOMAIN ls = 1..Len(ls) /\ Len(ls) \in Nat
    BY LenProperties
  <1>2. T \in SUBSET Nat /\ \A x \in T : x <= Len(ls)
    BY <1>1
  <1>3. IsFiniteSet(T)
    BY <1>1, <1>2, FS_BoundedSetOfNaturals
  <1>4. QED BY <1>1, <1>2, <1>3, FS_CardinalityType

(* The names of the parsers are those of no other thing. *)
LEMMA ParserNames ==
  /\ Fallback \in Parsers /\ "pipeline" \notin Parsers
  /\ "plain" \notin Parsers /\ "exit" \notin Parsers /\ "quoted" \notin Parsers
  /\ SpecializedNames \subseteq Parsers /\ Fallback \notin SpecializedNames
  /\ Len(Specialized) \in Nat /\ DOMAIN Specialized = 1..Len(Specialized)
  <1>1. Len(Specialized) \in Nat /\ DOMAIN Specialized = 1..Len(Specialized)
    BY RegistryAssumption, LenProperties
  <1>2. QED BY <1>1, RegistryAssumption DEF Parsers

(* find_process_failure returns the last exit marker, if there is one. *)
LEMMA ProcessFailureIs ==
  ASSUME NEW ls \in Seq(Line), NEW parser \in Parsers \cup {"pipeline"}
  PROVE  LET p == ProcessFailure(ls, parser)
         IN  /\ p \in Seq(Diagnostic) /\ Len(p) = IF ExitLines(ls) = {} THEN 0 ELSE 1
             /\ \A k \in DOMAIN p :
                  /\ k = 1 /\ ExitLines(ls) # {} /\ IsExit(p[k]) /\ p[k].parser = parser
                  /\ p[k].code = ls[Most(ExitLines(ls))].code
                  /\ p[k].evidence = <<Most(ExitLines(ls))>>
  <1> DEFINE p == ProcessFailure(ls, parser)
             n == Most(ExitLines(ls))
             d == [parser |-> parser, code |-> ls[n].code, evidence |-> <<n>>]
  <1>1. CASE ExitLines(ls) = {}
    <2>1. p = << >>
      BY <1>1 DEF ProcessFailure
    <2>2. p \in Seq(Diagnostic) /\ Len(p) = 0 /\ DOMAIN p = {}
      BY <2>1, EmptySeq
    <2>3. QED BY <1>1, <2>2
  <1>2. CASE ExitLines(ls) # {}
    <2>1. p = <<d>>
      BY <1>2 DEF ProcessFailure
    <2>2. n \in ExitLines(ls)
      <3>1. ExitLines(ls) \in SUBSET DOMAIN ls
        BY DEF ExitLines
      <3>2. QED BY <1>2, <3>1, PositionsOf, MostIs
    <2>3. n \in Nat /\ ls[n].code \in Nat
      <3>1. n \in 1..Len(ls) /\ Len(ls) \in Nat
        BY <2>2, LenProperties DEF ExitLines
      <3>2. ls[n] \in Line
        BY <3>1, ElementOfSeq
      <3>3. QED BY <3>1, <3>2 DEF Line
    <2> HIDE DEF n
    <2>4. d \in Diagnostic /\ IsExit(d)
      BY <2>3, NoneAssumption DEF Diagnostic, IsExit
    <2>5. p \in Seq(Diagnostic) /\ Len(p) = 1 /\ DOMAIN p = {1} /\ p[1] = d
      BY <2>1, <2>4
    <2>6. QED BY <1>2, <2>4, <2>5 DEF n
  <1>3. QED BY <1>1, <1>2

(* The lines of a failure begin with its own and are lines of the text. *)
LEMMA BlockIs ==
  ASSUME NEW ls \in Seq(Line), NEW parser \in Parsers, NEW first \in DOMAIN ls
  PROVE  LET b == Block(ls, parser, first)
         IN  b \in Seq(Nat) /\ b # << >> /\ Head(b) = first /\ \A n \in DOMAIN b : b[n] \in DOMAIN ls
  <1> DEFINE b == Block(ls, parser, first)
             size == IF first + BlockLines[parser] - 1 > Len(ls)
                     THEN Len(ls) - first + 1 ELSE BlockLines[parser]
  <1>1. first \in 1..Len(ls) /\ Len(ls) \in Nat /\ DOMAIN ls = 1..Len(ls)
    BY LenProperties
  <1>2. BlockLines[parser] \in Nat \ {0}
    BY PipelineAssumption
  <1>3. size \in Nat \ {0} /\ first + size - 1 <= Len(ls)
    BY <1>1, <1>2
  <1>4. b = [k \in 1..size |-> first + k - 1]
    BY DEF Block
  <1> HIDE DEF size, b
  <1>5. b \in [1..size -> Nat] /\ b[1] = first
    BY <1>1, <1>3, <1>4
  <1>6. b \in Seq(Nat) /\ Len(b) = size /\ DOMAIN b = 1..size
    BY <1>3, <1>5, SeqDef
  <1>7. b # << >>
    BY <1>3, <1>6, EmptySeq
  <1>8. Head(b) = first
    BY <1>5, <1>6, <1>7, HeadIsFirst
  <1>9. \A n \in DOMAIN b : b[n] \in DOMAIN ls
    BY <1>1, <1>3, <1>4, <1>6
  <1>10. QED BY <1>6, <1>7, <1>8, <1>9 DEF b

(* A parser returns one diagnostic for each line where a failure it knows   *)
(* begins.                                                                  *)
LEMMA FailuresIs ==
  ASSUME NEW ls \in Seq(Line), NEW parser \in Parsers
  PROVE  LET f == Failures(ls, parser)
         IN  /\ f \in Seq(Diagnostic)
             /\ \A k \in DOMAIN f : IsFailureOf(f[k], ls) /\ f[k].parser = parser
             /\ \A n \in FailureLines(ls, parser) : Cites(parser, n, f)
  <1> DEFINE F     == FailureLines(ls, parser)
             first == Ascending(F)
             size  == Cardinality(F)
             f     == Failures(ls, parser)
             of(k) == [parser |-> parser, code |-> None, evidence |-> Block(ls, parser, first[k])]
  <1>1. F \in SUBSET DOMAIN ls
    BY DEF FailureLines
  <1>2. F \in SUBSET Nat /\ IsFiniteSet(F) /\ size \in Nat
    BY <1>1, PositionsOf
  <1>3. first \in [1..size -> F] /\ \A n \in F : \E k \in 1..size : first[k] = n
    <2> HIDE DEF F
    <2>1. \E s \in [1..size -> F] : Lists(s, F)
      BY <1>2, AscendingList
    <2>2. \E s \in [1..size -> F] :
            /\ \A j, k \in DOMAIN s : j < k => s[j] < s[k]
            /\ \A x \in F : \E k \in DOMAIN s : s[k] = x
      BY <2>1 DEF Lists
    <2>3. /\ first \in [1..size -> F]
          /\ \A x \in F : \E k \in DOMAIN first : first[k] = x
      BY <2>2 DEF Ascending
    <2>4. QED BY <2>3
  <1>4. f = [k \in 1..size |-> of(k)]
    BY <1>3 DEF Failures
  <1> HIDE DEF first, size, f
  <1>5. ASSUME NEW k \in 1..size
        PROVE  /\ of(k) \in Diagnostic /\ IsFailureOf(of(k), ls) /\ of(k).parser = parser
               /\ of(k).evidence # << >> /\ Head(of(k).evidence) = first[k]
    <2>1. first[k] \in F /\ first[k] \in DOMAIN ls
      BY <1>1, <1>3, <1>5
    <2>2. /\ Block(ls, parser, first[k]) \in Seq(Nat) /\ Block(ls, parser, first[k]) # << >>
          /\ Head(Block(ls, parser, first[k])) = first[k]
          /\ \A n \in DOMAIN Block(ls, parser, first[k]) :
               Block(ls, parser, first[k])[n] \in DOMAIN ls
      BY <2>1, BlockIs
    <2>3. of(k) \in Diagnostic
      BY <2>2 DEF Diagnostic
    <2>4. QED BY <2>1, <2>2, <2>3 DEF IsFailureOf
  <1> HIDE DEF of
  <1>6. f \in [1..size -> Diagnostic]
    BY <1>4, <1>5
  <1>7. f \in Seq(Diagnostic) /\ DOMAIN f = 1..size
    BY <1>2, <1>6, SeqDef
  <1>8. \A k \in DOMAIN f : IsFailureOf(f[k], ls) /\ f[k].parser = parser
    BY <1>4, <1>5, <1>7
  <1>9. \A n \in F : Cites(parser, n, f)
    <2>1. SUFFICES ASSUME NEW n \in F PROVE Cites(parser, n, f)
      OBVIOUS
    <2>2. PICK k \in 1..size : first[k] = n
      BY <1>3
    <2>3. k \in DOMAIN f /\ f[k] = of(k)
      BY <1>4, <1>7
    <2>4. QED BY <1>5, <2>2, <2>3 DEF Cites
  <1>10. QED BY <1>7, <1>8, <1>9 DEF f

(* One list of diagnostics appended to another. *)
LEMMA Joined ==
  ASSUME NEW s \in Seq(Diagnostic), NEW t \in Seq(Diagnostic)
  PROVE  LET u == s \o t
         IN  /\ u \in Seq(Diagnostic) /\ (u = << >> <=> s = << >> /\ t = << >>)
             /\ \A k \in DOMAIN u :
                  \/ k \in DOMAIN s /\ u[k] = s[k]
                  \/ k \notin DOMAIN s /\ \E j \in DOMAIN t : k = Len(s) + j /\ u[k] = t[j]
             /\ HasExit(u) <=> HasExit(s) \/ HasExit(t)
             /\ \A parser, n : Cites(parser, n, u) <=> Cites(parser, n, s) \/ Cites(parser, n, t)
  <1> DEFINE u == s \o t
  <1>1. /\ Len(s) \in Nat /\ DOMAIN s = 1..Len(s) /\ Len(t) \in Nat /\ DOMAIN t = 1..Len(t)
    BY LenProperties
  <1>2. /\ u \in Seq(Diagnostic) /\ Len(u) = Len(s) + Len(t)
        /\ \A k \in 1..Len(s) + Len(t) : u[k] = IF k <= Len(s) THEN s[k] ELSE t[k - Len(s)]
    BY ConcatProperties
  <1>3. DOMAIN u = 1..Len(s) + Len(t)
    BY <1>2, LenProperties
  <1>4. u = << >> <=> s = << >> /\ t = << >>
    BY ConcatEqualIffEmpty
  <1> HIDE DEF u
  <1>5. \A k \in DOMAIN u :
          \/ k \in DOMAIN s /\ u[k] = s[k]
          \/ k \notin DOMAIN s /\ \E j \in DOMAIN t : k = Len(s) + j /\ u[k] = t[j]
    <2>1. SUFFICES ASSUME NEW k \in DOMAIN u
                   PROVE  \/ k \in DOMAIN s /\ u[k] = s[k]
                          \/ k \notin DOMAIN s /\ \E j \in DOMAIN t : k = Len(s) + j /\ u[k] = t[j]
      OBVIOUS
    <2>2. CASE k <= Len(s)
      BY <1>1, <1>2, <1>3, <2>2
    <2>3. CASE ~(k <= Len(s))
      <3>1. k - Len(s) \in DOMAIN t /\ k = Len(s) + (k - Len(s)) /\ u[k] = t[k - Len(s)]
        BY <1>1, <1>2, <1>3, <2>3
      <3>2. QED BY <1>1, <1>3, <2>3, <3>1
    <2>4. QED BY <2>2, <2>3
  <1>6. /\ \A k \in DOMAIN s : k \in DOMAIN u /\ u[k] = s[k]
        /\ \A j \in DOMAIN t : Len(s) + j \in DOMAIN u /\ u[Len(s) + j] = t[j]
    BY <1>1, <1>2, <1>3
  <1>7. HasExit(u) <=> HasExit(s) \/ HasExit(t)
    BY <1>5, <1>6 DEF HasExit
  <1>8. \A parser, n : Cites(parser, n, u) <=> Cites(parser, n, s) \/ Cites(parser, n, t)
    BY <1>5, <1>6 DEF Cites
  <1>9. QED BY <1>2, <1>4, <1>5, <1>7, <1>8 DEF u

(* A parser returns its failures and at most one exit code, the last. *)
LEMMA ParsedIs ==
  ASSUME NEW ls \in Seq(Line), NEW parser \in Parsers
  PROVE  LET ds == Parsed(ls, parser)
         IN  /\ ds \in Seq(Diagnostic)
             /\ \A k \in DOMAIN ds :
                  ds[k].parser = parser /\ (IsExitOf(ds[k], ls) \/ IsFailureOf(ds[k], ls))
             /\ \A k, m \in DOMAIN ds : IsExit(ds[k]) /\ IsExit(ds[m]) => k = m
             /\ ExitLines(ls) # {} => HasExit(ds)
             /\ \A n \in FailureLines(ls, parser) : Cites(parser, n, ds)
  <1> DEFINE f == Failures(ls, parser)
             p == ProcessFailure(ls, parser)
             ds == Parsed(ls, parser)
  <1>1. /\ f \in Seq(Diagnostic)
        /\ \A k \in DOMAIN f : IsFailureOf(f[k], ls) /\ f[k].parser = parser
        /\ \A n \in FailureLines(ls, parser) : Cites(parser, n, f)
    BY FailuresIs
  <1>2. /\ p \in Seq(Diagnostic) /\ Len(p) = (IF ExitLines(ls) = {} THEN 0 ELSE 1)
        /\ \A k \in DOMAIN p :
             /\ k = 1 /\ ExitLines(ls) # {} /\ IsExit(p[k]) /\ p[k].parser = parser
             /\ p[k].code = ls[Most(ExitLines(ls))].code
             /\ p[k].evidence = <<Most(ExitLines(ls))>>
    BY ProcessFailureIs
  <1>3. ds = f \o p \/ ds = p \o f
    BY DEF Parsed
  <1> HIDE DEF f, p, ds
  <1>4. \A k \in DOMAIN p : IsExitOf(p[k], ls)
    BY <1>2 DEF IsExitOf
  <1>5. \A k \in DOMAIN f : ~IsExit(f[k])
    BY <1>1 DEF IsFailureOf, IsExit
  <1>6. ExitLines(ls) # {} => HasExit(p)
    <2>1. ASSUME ExitLines(ls) # {} PROVE 1 \in DOMAIN p
      BY <1>2, <2>1, LenProperties
    <2>2. QED BY <1>2, <2>1 DEF HasExit
  <1>7. PICK s, t : ds = s \o t /\ ((s = f /\ t = p) \/ (s = p /\ t = f))
    BY <1>3
  <1>8. s \in Seq(Diagnostic) /\ t \in Seq(Diagnostic)
    BY <1>1, <1>2, <1>7
  <1>9. /\ ds \in Seq(Diagnostic)
        /\ \A k \in DOMAIN ds :
             \/ k \in DOMAIN s /\ ds[k] = s[k]
             \/ k \notin DOMAIN s /\ \E j \in DOMAIN t : k = Len(s) + j /\ ds[k] = t[j]
        /\ HasExit(ds) <=> HasExit(s) \/ HasExit(t)
        /\ \A q, n : Cites(q, n, ds) <=> Cites(q, n, s) \/ Cites(q, n, t)
    BY <1>7, <1>8, Joined
  <1>10. \A k \in DOMAIN ds :
           ds[k].parser = parser /\ (IsExitOf(ds[k], ls) \/ IsFailureOf(ds[k], ls))
    BY <1>1, <1>2, <1>4, <1>7, <1>9
  <1>11. \A k, m \in DOMAIN ds : IsExit(ds[k]) /\ IsExit(ds[m]) => k = m
    <2>1. CASE s = f /\ t = p
      BY <1>2, <1>5, <1>9, <2>1
    <2>2. CASE s = p /\ t = f
      BY <1>2, <1>5, <1>9, <2>2
    <2>3. QED BY <1>7, <2>1, <2>2
  <1>12. ExitLines(ls) # {} => HasExit(ds)
    BY <1>6, <1>7, <1>9
  <1>13. \A n \in FailureLines(ls, parser) : Cites(parser, n, ds)
    BY <1>1, <1>7, <1>9
  <1>14. QED BY <1>9, <1>10, <1>11, <1>12, <1>13 DEF ds

(* The lines the parsers read are the log's. *)
LEMMA HeadIsTheLogs ==
  ASSUME content \in Logs, limits \in Limits, HeadOfLog
  PROVE  /\ lines \in Seq(Line) /\ Len(lines) <= limits.max_total_lines
         /\ truncated_chars \in BOOLEAN /\ truncated_lines \in BOOLEAN
         /\ DOMAIN lines \subseteq 1..Len(content.lines)
         /\ \A n \in DOMAIN lines : lines[n].kind # "plain" => lines[n] = content.lines[n]
         /\ ~truncated_lines /\ ~truncated_chars => lines = content.lines
  <1>1. 1 \in Nat \ {0} /\ 1 <= Length(content) + 1
    BY TextTypes
  <1>2. /\ lines \in Seq(Line) /\ Len(lines) <= limits.max_total_lines
        /\ Len(lines) <= Len(content.lines)
        /\ \A n \in DOMAIN lines : lines[n] \in {content.lines[n], Plain}
        /\ ~truncated_chars /\ ~truncated_lines => lines = content.lines
    BY <1>1, NormalizedIs DEF HeadOfLog
  <1>3. DOMAIN lines \subseteq 1..Len(content.lines)
    BY <1>2, LenProperties, TextTypes
  <1>4. truncated_chars \in BOOLEAN /\ truncated_lines \in BOOLEAN
    BY DEF HeadOfLog, CharsCut, LinesCut
  <1>5. \A n \in DOMAIN lines : lines[n].kind # "plain" => lines[n] = content.lines[n]
    BY <1>2 DEF Plain
  <1>6. QED BY <1>2, <1>3, <1>4, <1>5

(* The tail is normalized to lines too. *)
LEMMA TailIsLines ==
  ASSUME content \in Logs, limits \in Limits
  PROVE  NormalizedTail \in Seq(Line)
  <1>1. TailOf(content) \in Nat \ {0} /\ TailOf(content) <= Length(content) + 1
    BY TextTypes, PipelineAssumption DEF TailOf
  <1>2. QED BY <1>1, NormalizedIs DEF NormalizedTail

-----------------------------------------------------------------------------
(* Every step keeps the invariant. *)

(* Before the end, what the invariant says is said of the lines at hand. *)
LEMMA UnderWay ==
  ASSUME PipelineInv, phase \notin {"normalize", "done"}
  PROVE  /\ Going /\ report = None /\ TypeOK /\ content \in Logs /\ limits \in Limits
         /\ HeadOfLog /\ Sourced /\ ExitsApart /\ RegistryPosition /\ ExitFound /\ AllKept
         /\ lines \in Seq(Line) /\ diagnostics \in Seq(Diagnostic)
  BY DEF PipelineInv, TypeOK, Going

(* parse_log begins with the invariant. *)
LEMMA InitInv ==
  ASSUME Init
  PROVE  PipelineInv
  <1>1. content \in Log /\ limits \in ParseLimits
    BY TextTypes DEF Init
  <1>2. lines \in Seq(Line) /\ diagnostics \in Seq(Diagnostic) /\ Len(lines) = 0
    BY EmptySeq DEF Init
  <1>3. next \in 1..Len(Specialized) + 1
    BY ParserNames DEF Init
  <1>4. Len(lines) <= limits.max_total_lines
    BY <1>2, TextTypes DEF Init
  <1>5. TypeOK
    BY <1>1, <1>2, <1>3, <1>4 DEF Init, TypeOK
  <1>6. QED BY <1>5 DEF Init, PipelineInv, Start, Going, TheReport

(* The lines are those of the head of the log, and nothing has been found   *)
(* yet.                                                                     *)
LEMMA NormalizeInv ==
  ASSUME PipelineInv, Normalize
  PROVE  PipelineInv'
  <1>1. Start /\ TypeOK /\ content \in Logs /\ limits \in Limits /\ report = None
    BY DEF PipelineInv, Normalize, TypeOK
  <1>2. HeadOfLog'
    BY DEF Normalize, HeadOfLog
  <1>3. content' \in Logs /\ limits' \in Limits
    BY <1>1 DEF Normalize
  <1>4. /\ lines' \in Seq(Line) /\ Len(lines') <= limits.max_total_lines
        /\ truncated_chars' \in BOOLEAN /\ truncated_lines' \in BOOLEAN
    <2>1. 1 \in Nat \ {0} /\ 1 <= Length(content) + 1
      BY <1>1, TextTypes
    <2>2. lines' = Normalized(content, 1, Length(content), limits)
      BY DEF Normalize
    <2>3. lines' \in Seq(Line) /\ Len(lines') <= limits.max_total_lines
      BY <1>1, <2>1, <2>2, NormalizedIs
    <2>4. QED BY <2>3 DEF Normalize, CharsCut, LinesCut
  <1>5. TypeOK'
    BY <1>1, <1>4 DEF TypeOK, Normalize
  <1>6. diagnostics' = << >> /\ DOMAIN diagnostics' = {} /\ selected' = None /\ raised' = {}
    BY <1>1 DEF Normalize, Start
  <1>7. Sourced' /\ ExitsApart'
    BY <1>6 DEF Sourced, ExitsApart
  <1>8. next' = 1 /\ phase' = "registry" /\ ~diagnostics_truncated' /\ report' = None
    BY <1>1 DEF Normalize, Start
  <1>9. RegistryPosition'
    BY <1>6, <1>8 DEF RegistryPosition
  <1>10. ExitFound'
    BY <1>6, <1>8 DEF ExitFound
  <1>11. AllKept'
    <2>1. Tried' = {}
      BY <1>8 DEF Tried
    <2>2. Heard' = {}
      BY <1>6, <2>1, NoneAssumption DEF Heard
    <2>3. QED BY <2>2 DEF AllKept
  <1>12. QED
    BY <1>2, <1>3, <1>5, <1>7, <1>8, <1>9, <1>10, <1>11 DEF PipelineInv, Start, TheReport

(* A step of the registry leaves the text and its lines alone. *)
LEMMA SameHead ==
  ASSUME HeadOfLog, UNCHANGED <<content, limits, lines, truncated_lines, truncated_chars>>
  PROVE  HeadOfLog' /\ NormalizedTail' = NormalizedTail
  BY DEF HeadOfLog, NormalizedTail

(* A parser's turn adds it to those tried, and it was not among them. *)
LEMMA TurnOf ==
  ASSUME PipelineInv, phase = "registry", next <= Len(Specialized), next' = next + 1
  PROVE  /\ Specialized[next] \in Parsers /\ Specialized[next] \notin Tried
         /\ Specialized[next] # Fallback /\ Specialized[next] # "pipeline"
         /\ Tried' = Tried \cup {Specialized[next]}
         /\ Fallback \notin Tried /\ "pipeline" \notin Tried
         /\ next' \in 1..Len(Specialized) + 1
  <1>1. next \in 1..Len(Specialized) /\ next' \in 1..Len(Specialized) + 1
    BY ParserNames DEF PipelineInv, TypeOK
  <1>2. Specialized[next] \in SpecializedNames /\ Tried \subseteq SpecializedNames
    BY <1>1, ParserNames DEF SpecializedNames, Tried
  <1>3. 1..next' - 1 = (1..next - 1) \cup {next}
    BY <1>1
  <1>4. Tried' = Tried \cup {Specialized[next]}
    BY <1>3 DEF Tried
  <1>5. Specialized[next] \notin Tried
    <2>1. \A j \in 1..next - 1 : j \in DOMAIN Specialized /\ next \in DOMAIN Specialized /\ j # next
      BY <1>1, ParserNames
    <2>2. QED BY <2>1, RegistryAssumption DEF Tried
  <1>6. QED BY <1>1, <1>2, <1>4, <1>5, ParserNames

(* A specialized parser adds its findings to those of the others, its exit  *)
(* code under its own name.                                                 *)
LEMMA ParserRunsInv ==
  ASSUME PipelineInv, ParserRuns
  PROVE  PipelineInv'
  <1> DEFINE q  == Specialized[next]
             ds == Parsed(lines, q)
  <1>1. phase = "registry" /\ next <= Len(Specialized) /\ next' = next + 1
    BY DEF ParserRuns
  <1>2. /\ report = None /\ TypeOK /\ content \in Logs /\ limits \in Limits
        /\ HeadOfLog /\ Sourced /\ ExitsApart /\ RegistryPosition /\ ExitFound /\ AllKept
        /\ lines \in Seq(Line) /\ diagnostics \in Seq(Diagnostic)
    BY <1>1, UnderWay
  <1>3. /\ q \in Parsers /\ q \notin Tried /\ q # Fallback /\ q # "pipeline"
        /\ Tried' = Tried \cup {q} /\ Fallback \notin Tried /\ "pipeline" \notin Tried
        /\ next' \in 1..Len(Specialized) + 1
    BY <1>1, TurnOf
  <1>4. diagnostics' = diagnostics \o ds
    BY DEF ParserRuns
  <1> HIDE DEF q
  <1>5. /\ ds \in Seq(Diagnostic)
        /\ \A k \in DOMAIN ds :
             ds[k].parser = q /\ (IsExitOf(ds[k], lines) \/ IsFailureOf(ds[k], lines))
        /\ \A k, m \in DOMAIN ds : IsExit(ds[k]) /\ IsExit(ds[m]) => k = m
        /\ ExitLines(lines) # {} => HasExit(ds)
        /\ \A n \in FailureLines(lines, q) : Cites(q, n, ds)
    BY <1>2, <1>3, ParsedIs
  <1> HIDE DEF ds
  <1>6. /\ diagnostics' \in Seq(Diagnostic)
        /\ \A k \in DOMAIN diagnostics' :
             \/ k \in DOMAIN diagnostics /\ diagnostics'[k] = diagnostics[k]
             \/ /\ k \notin DOMAIN diagnostics
                /\ \E j \in DOMAIN ds : k = Len(diagnostics) + j /\ diagnostics'[k] = ds[j]
        /\ HasExit(diagnostics') <=> HasExit(diagnostics) \/ HasExit(ds)
        /\ \A parser, n :
             Cites(parser, n, diagnostics') <=> Cites(parser, n, diagnostics) \/ Cites(parser, n, ds)
    BY <1>2, <1>4, <1>5, Joined
  <1>7. /\ UNCHANGED <<content, limits, lines, truncated_lines, truncated_chars>>
        /\ UNCHANGED <<phase, raised, selected, diagnostics_truncated, evidence_truncated, report>>
    BY DEF ParserRuns, registryUnchanged
  <1>8. TypeOK'
    BY <1>2, <1>3, <1>6, <1>7 DEF TypeOK
  <1>9. Sourced'
    BY <1>2, <1>5, <1>6, <1>7 DEF Sourced
  <1>10. \A k \in DOMAIN diagnostics : diagnostics[k].parser \in Tried
    BY <1>1, <1>2 DEF RegistryPosition
  <1>11. ExitsApart'
    <2>1. SUFFICES ASSUME NEW k \in DOMAIN diagnostics', NEW m \in DOMAIN diagnostics', k # m,
                          IsExit(diagnostics'[k]), IsExit(diagnostics'[m])
                   PROVE  /\ diagnostics'[k].parser # diagnostics'[m].parser
                          /\ diagnostics'[k].parser # "pipeline"
      BY DEF ExitsApart
    <2>2. CASE k \in DOMAIN diagnostics /\ m \in DOMAIN diagnostics
      BY <1>2, <1>6, <2>1, <2>2 DEF ExitsApart
    <2>3. CASE k \in DOMAIN diagnostics /\ m \notin DOMAIN diagnostics
      BY <1>3, <1>5, <1>6, <1>10, <2>3
    <2>4. CASE k \notin DOMAIN diagnostics /\ m \in DOMAIN diagnostics
      BY <1>3, <1>5, <1>6, <1>10, <2>4
    <2>5. CASE k \notin DOMAIN diagnostics /\ m \notin DOMAIN diagnostics
      BY <1>5, <1>6, <2>1, <2>5
    <2>6. QED BY <2>2, <2>3, <2>4, <2>5
  <1>12. \A k \in DOMAIN diagnostics' : diagnostics'[k].parser \in Tried'
    BY <1>3, <1>5, <1>6, <1>10
  <1>13. RegistryPosition'
    BY <1>1, <1>2, <1>3, <1>7, <1>12 DEF RegistryPosition
  <1>14. ExitFound'
    <2>1. \A k \in DOMAIN diagnostics' : diagnostics'[k].parser # "pipeline"
      BY <1>3, <1>12
    <2>2. ExitLines(lines') # {} => HasExit(diagnostics')
      BY <1>5, <1>6, <1>7
    <2>3. phase' = "registry"
      BY <1>1, <1>7
    <2>4. QED BY <2>1, <2>2, <2>3 DEF ExitFound
  <1>15. AllKept'
    <2>1. \A parser \in Heard' : parser \in Heard \/ parser = q
      BY <1>3, <1>7 DEF Heard
    <2>2. QED BY <1>2, <1>5, <1>6, <1>7, <2>1 DEF AllKept
  <1>16. HeadOfLog'
    BY <1>2, <1>7, SameHead
  <1>17. QED
    BY <1>1, <1>2, <1>7, <1>8, <1>9, <1>11, <1>13, <1>14, <1>15, <1>16 DEF PipelineInv, TheReport

(* A turn that adds no diagnostic keeps what the others found. *)
LEMMA PassedOverInv ==
  ASSUME PipelineInv, ParserDetectsNothing \/ ParserRaises
  PROVE  PipelineInv'
  <1> DEFINE q == Specialized[next]
  <1>1. phase = "registry" /\ next <= Len(Specialized) /\ next' = next + 1
    BY DEF ParserDetectsNothing, ParserRaises
  <1>2. /\ report = None /\ TypeOK /\ content \in Logs /\ limits \in Limits
        /\ HeadOfLog /\ Sourced /\ ExitsApart /\ RegistryPosition /\ ExitFound /\ AllKept
        /\ lines \in Seq(Line) /\ diagnostics \in Seq(Diagnostic)
    BY <1>1, UnderWay
  <1>3. /\ q \in Parsers /\ q \notin Tried /\ q # Fallback /\ q # "pipeline"
        /\ Tried' = Tried \cup {q} /\ Fallback \notin Tried /\ "pipeline" \notin Tried
        /\ next' \in 1..Len(Specialized) + 1
    BY <1>1, TurnOf
  <1>4. /\ UNCHANGED <<content, limits, lines, truncated_lines, truncated_chars>>
        /\ UNCHANGED <<phase, selected, diagnostics, diagnostics_truncated, evidence_truncated,
                       report>>
        /\ (raised' = raised /\ FailureLines(lines, q) = {}) \/ raised' = raised \cup {q}
    BY DEF ParserDetectsNothing, ParserRaises, registryUnchanged
  <1> HIDE DEF q
  <1>5. TypeOK'
    BY <1>2, <1>3, <1>4 DEF TypeOK
  <1>6. Sourced' /\ ExitsApart'
    BY <1>2, <1>4 DEF Sourced, ExitsApart
  <1>7. RegistryPosition'
    BY <1>1, <1>2, <1>3, <1>4 DEF RegistryPosition
  <1>8. HeadOfLog' /\ NormalizedTail' = NormalizedTail
    BY <1>2, <1>4, SameHead
  <1>9. ExitFound'
    BY <1>2, <1>4, <1>8 DEF ExitFound
  <1>10. AllKept'
    <2>1. \A parser \in Heard' : parser \in Heard \/ FailureLines(lines, parser) = {}
      BY <1>3, <1>4 DEF Heard
    <2>2. QED BY <1>2, <1>4, <2>1 DEF AllKept
  <1>11. QED
    BY <1>1, <1>2, <1>4, <1>5, <1>6, <1>7, <1>8, <1>9, <1>10 DEF PipelineInv, TheReport

(* When a specialized parser found something, the fallback is not asked. *)
LEMMA SpecializedSufficeInv ==
  ASSUME PipelineInv, SpecializedSuffice
  PROVE  PipelineInv'
  <1>1. phase = "registry" /\ next > Len(Specialized) /\ phase' = "cap" /\ diagnostics # << >>
    BY DEF SpecializedSuffice
  <1>2. /\ report = None /\ TypeOK /\ content \in Logs /\ limits \in Limits
        /\ HeadOfLog /\ Sourced /\ ExitsApart /\ RegistryPosition /\ ExitFound /\ AllKept
    BY <1>1, UnderWay
  <1>3. /\ UNCHANGED <<content, limits, lines, truncated_lines, truncated_chars>>
        /\ UNCHANGED <<next, raised, diagnostics, diagnostics_truncated, evidence_truncated,
                       report>>
        /\ selected' = "specialized"
    BY DEF SpecializedSuffice, registryUnchanged
  <1>4. TypeOK'
    BY <1>1, <1>2, <1>3 DEF TypeOK
  <1>5. Sourced' /\ ExitsApart'
    BY <1>2, <1>3 DEF Sourced, ExitsApart
  <1>6. Tried' = Tried /\ selected' # None /\ selected' # Fallback
    BY <1>3, NoneAssumption DEF Tried, Fallback
  <1>7. next = Len(Specialized) + 1
    BY <1>1, <1>2, ParserNames DEF TypeOK
  <1>8. RegistryPosition'
    BY <1>1, <1>2, <1>3, <1>6, <1>7 DEF RegistryPosition
  <1>9. \A k \in DOMAIN diagnostics : diagnostics[k].parser # "pipeline"
    BY <1>1, <1>2 DEF ExitFound
  <1>10. ExitFound'
    BY <1>1, <1>2, <1>3, <1>9 DEF ExitFound
  <1>11. AllKept'
    <2>1. Heard' \subseteq Heard
      BY <1>3, <1>6 DEF Heard
    <2>2. QED BY <1>2, <1>3, <2>1 DEF AllKept
  <1>12. HeadOfLog'
    BY <1>2, <1>3, SameHead
  <1>13. QED
    BY <1>1, <1>2, <1>3, <1>4, <1>5, <1>8, <1>10, <1>11, <1>12 DEF PipelineInv, TheReport

(* The fallback runs where nobody found anything, so nothing is lost by its *)
(* turn.                                                                    *)
LEMMA FallbackRunsInv ==
  ASSUME PipelineInv, FallbackRuns
  PROVE  PipelineInv'
  <1>1. /\ phase = "registry" /\ next > Len(Specialized) /\ phase' = "cap"
        /\ diagnostics = << >> /\ diagnostics' = Parsed(lines, Fallback) /\ selected' = Fallback
    BY DEF FallbackRuns
  <1>2. /\ report = None /\ TypeOK /\ content \in Logs /\ limits \in Limits
        /\ HeadOfLog /\ Sourced /\ ExitsApart /\ RegistryPosition /\ ExitFound /\ AllKept
        /\ lines \in Seq(Line)
    BY <1>1, UnderWay
  <1>3. /\ UNCHANGED <<content, limits, lines, truncated_lines, truncated_chars>>
        /\ UNCHANGED <<next, raised, diagnostics_truncated, evidence_truncated, report>>
    BY DEF FallbackRuns, registryUnchanged
  <1>4. /\ diagnostics' \in Seq(Diagnostic)
        /\ \A k \in DOMAIN diagnostics' :
             /\ diagnostics'[k].parser = Fallback
             /\ IsExitOf(diagnostics'[k], lines) \/ IsFailureOf(diagnostics'[k], lines)
        /\ \A k, m \in DOMAIN diagnostics' :
             IsExit(diagnostics'[k]) /\ IsExit(diagnostics'[m]) => k = m
        /\ ExitLines(lines) # {} => HasExit(diagnostics')
        /\ \A n \in FailureLines(lines, Fallback) : Cites(Fallback, n, diagnostics')
    BY <1>1, <1>2, ParsedIs, ParserNames
  <1>5. TypeOK'
    BY <1>1, <1>2, <1>3, <1>4 DEF TypeOK
  <1>6. Sourced' /\ ExitsApart'
    BY <1>3, <1>4 DEF Sourced, ExitsApart
  <1>7. next = Len(Specialized) + 1
    BY <1>1, <1>2, ParserNames DEF TypeOK
  <1>8. Tried' = Tried /\ selected' # None /\ selected' # "specialized"
    BY <1>1, <1>3, NoneAssumption DEF Tried, Fallback
  <1>9. RegistryPosition'
    BY <1>1, <1>2, <1>3, <1>7, <1>8 DEF RegistryPosition
  <1>10. ExitFound'
    BY <1>1, <1>3, <1>4, ParserNames DEF ExitFound
  <1>11. AllKept'
    <2>1. \A parser \in Heard' : parser \in Heard \/ parser = Fallback
      BY <1>1, <1>3, <1>8 DEF Heard
    <2>2. ~diagnostics_truncated
      BY <1>1, <1>2 DEF RegistryPosition
    <2>3. \A parser, n : ~Cites(parser, n, diagnostics)
      BY <1>1 DEF Cites
    <2>4. \A parser \in Heard : FailureLines(lines, parser) = {}
      BY <1>2, <2>2, <2>3 DEF AllKept
    <2>5. QED BY <1>3, <1>4, <2>1, <2>4 DEF AllKept
  <1>12. HeadOfLog'
    BY <1>2, <1>3, SameHead
  <1>13. QED
    BY <1>1, <1>2, <1>3, <1>5, <1>6, <1>9, <1>10, <1>11, <1>12 DEF PipelineInv, TheReport

(* When the fallback raises, no parser is selected, and it is counted. *)
LEMMA FallbackRaisesInv ==
  ASSUME PipelineInv, FallbackRaises
  PROVE  PipelineInv'
  <1>1. /\ phase = "registry" /\ next > Len(Specialized) /\ phase' = "cap"
        /\ diagnostics = << >> /\ raised' = raised \cup {Fallback}
    BY DEF FallbackRaises
  <1>2. /\ report = None /\ TypeOK /\ content \in Logs /\ limits \in Limits
        /\ HeadOfLog /\ Sourced /\ ExitsApart /\ RegistryPosition /\ ExitFound /\ AllKept
    BY <1>1, UnderWay
  <1>3. /\ UNCHANGED <<content, limits, lines, truncated_lines, truncated_chars>>
        /\ UNCHANGED <<next, selected, diagnostics, diagnostics_truncated, evidence_truncated,
                       report>>
    BY DEF FallbackRaises, registryUnchanged
  <1>4. TypeOK'
    BY <1>1, <1>2, <1>3, ParserNames DEF TypeOK
  <1>5. Sourced' /\ ExitsApart'
    BY <1>2, <1>3 DEF Sourced, ExitsApart
  <1>6. next = Len(Specialized) + 1
    BY <1>1, <1>2, ParserNames DEF TypeOK
  <1>7. Tried' = Tried /\ selected = None /\ selected # "specialized"
    BY <1>1, <1>2, <1>3, NoneAssumption DEF Tried, RegistryPosition
  <1>8. RegistryPosition'
    BY <1>1, <1>2, <1>3, <1>6, <1>7 DEF RegistryPosition
  <1>9. ExitFound'
    BY <1>1, <1>3, <1>7 DEF ExitFound
  <1>10. AllKept'
    <2>1. Heard' \subseteq Heard
      BY <1>1, <1>3, <1>7 DEF Heard
    <2>2. QED BY <1>2, <1>3, <2>1 DEF AllKept
  <1>11. HeadOfLog'
    BY <1>2, <1>3, SameHead
  <1>12. QED
    BY <1>1, <1>2, <1>3, <1>4, <1>5, <1>8, <1>9, <1>10, <1>11 DEF PipelineInv, TheReport

(* The cap keeps the first diagnostics; what it cuts off is flagged. *)
LEMMA CapDiagnosticsInv ==
  ASSUME PipelineInv, CapDiagnostics
  PROVE  PipelineInv'
  <1> DEFINE max == limits.max_diagnostics
  <1>1. /\ phase = "cap" /\ phase' = "rescue"
        /\ diagnostics_truncated' = (Len(diagnostics) > max)
        /\ diagnostics' = IF Len(diagnostics) > max THEN SubSeq(diagnostics, 1, max) ELSE diagnostics
    BY DEF CapDiagnostics
  <1>2. /\ report = None /\ TypeOK /\ content \in Logs /\ limits \in Limits
        /\ HeadOfLog /\ Sourced /\ ExitsApart /\ RegistryPosition /\ ExitFound /\ AllKept
        /\ diagnostics \in Seq(Diagnostic)
    BY <1>1, UnderWay
  <1>3. /\ UNCHANGED <<content, limits, lines, truncated_lines, truncated_chars>>
        /\ UNCHANGED <<next, raised, selected, evidence_truncated, report>>
    BY DEF CapDiagnostics, lateUnchanged
  <1>4. max \in Nat /\ Len(diagnostics) \in Nat
    BY <1>2, TextTypes, LenProperties
  <1> HIDE DEF max
  <1>5. /\ diagnostics' \in Seq(Diagnostic)
        /\ \A k \in DOMAIN diagnostics' : k \in DOMAIN diagnostics /\ diagnostics'[k] = diagnostics[k]
        /\ ~diagnostics_truncated' => diagnostics' = diagnostics
    <2>1. CASE Len(diagnostics) > max
      <3>1. diagnostics' = SubSeq(diagnostics, 1, max)
        BY <1>1, <2>1
      <3>2. \A i \in 1..max : diagnostics[i] \in Diagnostic
        BY <1>2, <1>4, <2>1, ElementOfSeq
      <3>3. /\ diagnostics' \in Seq(Diagnostic) /\ Len(diagnostics') = max
            /\ \A i \in 1..max : diagnostics'[i] = diagnostics[i]
        BY <1>2, <1>4, <2>1, <3>1, <3>2, SubSeqProperties
      <3>4. DOMAIN diagnostics' = 1..max /\ DOMAIN diagnostics = 1..Len(diagnostics)
        BY <1>2, <3>3, LenProperties
      <3>5. \A k \in 1..max : k \in 1..Len(diagnostics)
        BY <1>4, <2>1
      <3>6. diagnostics_truncated'
        BY <1>1, <2>1, Zenon
      <3>7. QED BY <3>3, <3>4, <3>5, <3>6
    <2>2. CASE ~(Len(diagnostics) > max)
      BY <1>1, <1>2, <2>2
    <2>3. QED BY <2>1, <2>2
  <1>6. ~diagnostics_truncated
    BY <1>1, <1>2 DEF RegistryPosition
  <1>7. TypeOK'
    BY <1>1, <1>2, <1>3, <1>5 DEF TypeOK
  <1>8. Sourced' /\ ExitsApart'
    BY <1>2, <1>3, <1>5 DEF Sourced, ExitsApart
  <1>9. Tried' = Tried /\ Heard' = Heard
    BY <1>3 DEF Tried, Heard
  <1>10. RegistryPosition'
    BY <1>1, <1>2, <1>3, <1>5, <1>6, <1>9 DEF RegistryPosition
  <1>11. ExitFound'
    <2>1. \A k \in DOMAIN diagnostics' : diagnostics'[k].parser # "pipeline"
      BY <1>1, <1>2, <1>5 DEF ExitFound
    <2>2. /\ ExitLines(lines') # {} /\ ~diagnostics_truncated'
          /\ selected' # None \/ diagnostics' # << >>
          => HasExit(diagnostics')
      BY <1>2, <1>3, <1>5, <1>6 DEF ExitFound
    <2>3. QED BY <1>1, <2>1, <2>2 DEF ExitFound
  <1>12. AllKept'
    BY <1>2, <1>3, <1>5, <1>6, <1>9 DEF AllKept
  <1>13. HeadOfLog'
    BY <1>2, <1>3, SameHead
  <1>14. QED
    BY <1>1, <1>2, <1>3, <1>7, <1>8, <1>10, <1>11, <1>12, <1>13 DEF PipelineInv, TheReport

(* What the rescue finds at the tail: at most one exit code, without lines. *)
LEMMA RescuedIs ==
  ASSUME content \in Logs, limits \in Limits
  PROVE  /\ Rescued \in Seq(Diagnostic)
         /\ \A k \in DOMAIN Rescued :
              k = 1 /\ IsRescued(Rescued[k]) /\ Rescued[k].code = LastCode(NormalizedTail)
         /\ HasExit(Rescued) <=> ExitLines(NormalizedTail) # {}
  <1> DEFINE p == ProcessFailure(NormalizedTail, "pipeline")
             r == Rescued
  <1>1. /\ p \in Seq(Diagnostic) /\ Len(p) = (IF ExitLines(NormalizedTail) = {} THEN 0 ELSE 1)
        /\ \A k \in DOMAIN p :
             /\ k = 1 /\ ExitLines(NormalizedTail) # {} /\ IsExit(p[k]) /\ p[k].parser = "pipeline"
             /\ p[k].code = LastCode(NormalizedTail)
    <2>1. /\ p \in Seq(Diagnostic) /\ Len(p) = IF ExitLines(NormalizedTail) = {} THEN 0 ELSE 1
          /\ \A k \in DOMAIN p :
               /\ k = 1 /\ ExitLines(NormalizedTail) # {} /\ IsExit(p[k]) /\ p[k].parser = "pipeline"
               /\ p[k].code = NormalizedTail[Most(ExitLines(NormalizedTail))].code
      BY TailIsLines, ProcessFailureIs
    <2> HIDE DEF p
    <2>2. QED BY <2>1 DEF LastCode
  <1>2. r = [k \in DOMAIN p |-> [p[k] EXCEPT !.evidence = << >>]]
    BY DEF Rescued
  <1>3. DOMAIN p = 1..Len(p) /\ Len(p) \in Nat
    BY <1>1, LenProperties
  <1> HIDE DEF p, r
  <1>4. \A k \in 1..Len(p) :
          r[k] \in Diagnostic /\ IsRescued(r[k]) /\ r[k].code = LastCode(NormalizedTail)
    <2>1. SUFFICES ASSUME NEW k \in 1..Len(p)
                   PROVE  /\ r[k] \in Diagnostic /\ IsRescued(r[k])
                          /\ r[k].code = LastCode(NormalizedTail)
      OBVIOUS
    <2>2. /\ p[k] \in Diagnostic /\ IsExit(p[k]) /\ p[k].parser = "pipeline"
          /\ p[k].code = LastCode(NormalizedTail)
      BY <1>1, <1>3, ElementOfSeq
    <2>3. r[k] = [p[k] EXCEPT !.evidence = << >>]
      BY <1>2, <1>3
    <2>4. << >> \in Seq(Nat)
      OBVIOUS
    <2>5. r[k] \in Diagnostic
      BY <2>2, <2>3, <2>4 DEF Diagnostic
    <2>6. r[k].parser = "pipeline" /\ r[k].evidence = << >> /\ r[k].code = p[k].code
      BY <2>2, <2>3 DEF Diagnostic
    <2>7. QED BY <2>2, <2>5, <2>6 DEF IsRescued, IsExit
  <1>5. r \in [1..Len(p) -> Diagnostic]
    BY <1>2, <1>3, <1>4
  <1>6. r \in Seq(Diagnostic) /\ DOMAIN r = 1..Len(p)
    BY <1>3, <1>5, SeqDef
  <1>7. \A k \in DOMAIN r : k = 1 /\ IsRescued(r[k]) /\ r[k].code = LastCode(NormalizedTail)
    BY <1>1, <1>3, <1>4, <1>6
  <1>8. HasExit(r) <=> ExitLines(NormalizedTail) # {}
    <2>1. HasExit(r) => ExitLines(NormalizedTail) # {}
      BY <1>1, <1>3, <1>6 DEF HasExit
    <2>2. ASSUME ExitLines(NormalizedTail) # {} PROVE HasExit(r)
      <3>1. 1 \in DOMAIN r
        BY <1>1, <1>6, <2>2
      <3>2. QED BY <1>7, <3>1 DEF HasExit, IsRescued
    <2>3. QED BY <2>1, <2>2
  <1>9. QED BY <1>6, <1>7, <1>8 DEF r

(* The rescue adds the exit code of the tail only where the head gave none. *)
LEMMA RescueTailInv ==
  ASSUME PipelineInv, RescueTail
  PROVE  PipelineInv'
  <1>1. /\ phase = "rescue" /\ phase' = "evidence" /\ truncated_lines /\ ~HasExit(diagnostics)
        /\ diagnostics' = diagnostics \o Rescued
    BY DEF RescueTail, NeedsRescue
  <1>2. /\ report = None /\ TypeOK /\ content \in Logs /\ limits \in Limits
        /\ HeadOfLog /\ Sourced /\ ExitsApart /\ RegistryPosition /\ ExitFound /\ AllKept
        /\ diagnostics \in Seq(Diagnostic)
    BY <1>1, UnderWay
  <1>3. /\ UNCHANGED <<content, limits, lines, truncated_lines, truncated_chars>>
        /\ UNCHANGED <<next, raised, selected, diagnostics_truncated, evidence_truncated, report>>
    BY DEF RescueTail, lateUnchanged
  <1>4. /\ Rescued \in Seq(Diagnostic)
        /\ \A k \in DOMAIN Rescued :
             k = 1 /\ IsRescued(Rescued[k]) /\ Rescued[k].code = LastCode(NormalizedTail)
        /\ HasExit(Rescued) <=> ExitLines(NormalizedTail) # {}
    BY <1>2, RescuedIs
  <1>5. /\ diagnostics' \in Seq(Diagnostic) /\ (diagnostics' = << >> => diagnostics = << >>)
        /\ \A k \in DOMAIN diagnostics' :
             \/ k \in DOMAIN diagnostics /\ diagnostics'[k] = diagnostics[k]
             \/ /\ k \notin DOMAIN diagnostics
                /\ \E j \in DOMAIN Rescued :
                     k = Len(diagnostics) + j /\ diagnostics'[k] = Rescued[j]
        /\ HasExit(diagnostics') <=> HasExit(diagnostics) \/ HasExit(Rescued)
        /\ \A parser, n : Cites(parser, n, diagnostics) => Cites(parser, n, diagnostics')
    BY <1>1, <1>2, <1>4, Joined
  <1>6. TypeOK'
    BY <1>1, <1>2, <1>3, <1>5 DEF TypeOK
  <1>7. Sourced'
    BY <1>2, <1>3, <1>4, <1>5 DEF Sourced
  <1>8. ExitsApart'
    <2>1. \A k \in DOMAIN diagnostics' : IsExit(diagnostics'[k]) => k = Len(diagnostics) + 1
      BY <1>1, <1>4, <1>5 DEF HasExit
    <2>2. QED BY <2>1 DEF ExitsApart
  <1>9. Tried' = Tried /\ Heard' = Heard
    BY <1>3 DEF Tried, Heard
  <1>10. RegistryPosition'
    BY <1>1, <1>2, <1>3, <1>5, <1>9 DEF RegistryPosition
  <1>11. HeadOfLog' /\ NormalizedTail' = NormalizedTail
    BY <1>2, <1>3, SameHead
  <1>12. ExitFound'
    <2>1. ExitLines(lines) = {} \/ diagnostics_truncated \/ selected = None
      BY <1>1, <1>2 DEF ExitFound
    <2>2. /\ ExitLines(lines) # {} /\ ~diagnostics_truncated
          => selected' = None /\ diagnostics = << >>
      BY <1>1, <1>2, <1>3 DEF ExitFound
    <2>3. ExitLines(NormalizedTail) # {} => HasExit(diagnostics')
      BY <1>4, <1>5
    <2>4. /\ ExitLines(lines) # {} /\ ~diagnostics_truncated
          /\ selected # None \/ diagnostics' # << >>
          => HasExit(diagnostics')
      <3>1. \A k \in DOMAIN Rescued : IsExit(Rescued[k])
        BY <1>4 DEF IsRescued
      <3>2. ASSUME diagnostics = << >>, diagnostics' # << >> PROVE HasExit(diagnostics')
        <4>1. 1 \in DOMAIN diagnostics' /\ DOMAIN diagnostics = {}
          BY <1>5, <3>2, HeadIsFirst, EmptySeq
        <4>2. QED BY <1>5, <3>1, <4>1 DEF HasExit
      <3>3. QED BY <1>3, <2>2, <3>2
    <2>5. \A k \in DOMAIN diagnostics' :
            diagnostics'[k].parser = "pipeline" => diagnostics'[k].code = LastCode(NormalizedTail)
      <3>1. \A k \in DOMAIN diagnostics : diagnostics[k].parser # "pipeline"
        BY <1>1, <1>2 DEF ExitFound
      <3>2. QED BY <1>4, <1>5, <3>1
    <2>6. QED BY <1>1, <1>3, <1>11, <2>1, <2>3, <2>4, <2>5 DEF ExitFound
  <1>13. AllKept'
    BY <1>2, <1>3, <1>5, <1>9 DEF AllKept
  <1>14. QED
    BY <1>1, <1>2, <1>3, <1>6, <1>7, <1>8, <1>10, <1>11, <1>12, <1>13 DEF PipelineInv, TheReport

(* No rescue is needed where the head gave an exit code or was not cut. *)
LEMMA NoRescueInv ==
  ASSUME PipelineInv, NoRescue
  PROVE  PipelineInv'
  <1>1. phase = "rescue" /\ phase' = "evidence" /\ (truncated_lines => HasExit(diagnostics))
    BY DEF NoRescue, NeedsRescue
  <1>2. /\ report = None /\ TypeOK /\ content \in Logs /\ limits \in Limits
        /\ HeadOfLog /\ Sourced /\ ExitsApart /\ RegistryPosition /\ ExitFound /\ AllKept
    BY <1>1, UnderWay
  <1>3. /\ UNCHANGED <<content, limits, lines, truncated_lines, truncated_chars>>
        /\ UNCHANGED <<next, raised, selected, diagnostics, diagnostics_truncated,
                       evidence_truncated, report>>
    BY DEF NoRescue, lateUnchanged
  <1>4. TypeOK'
    BY <1>1, <1>2, <1>3 DEF TypeOK
  <1>5. Sourced' /\ ExitsApart'
    BY <1>2, <1>3 DEF Sourced, ExitsApart
  <1>6. Tried' = Tried /\ Heard' = Heard
    BY <1>3 DEF Tried, Heard
  <1>7. RegistryPosition' /\ AllKept'
    BY <1>1, <1>2, <1>3, <1>6 DEF RegistryPosition, AllKept
  <1>8. HeadOfLog'
    BY <1>2, <1>3, SameHead
  <1>9. ExitFound'
    <2>1. \A k \in DOMAIN diagnostics : diagnostics[k].parser # "pipeline"
      BY <1>1, <1>2 DEF ExitFound
    <2>2. QED BY <1>1, <1>2, <1>3, <2>1 DEF ExitFound
  <1>10. QED
    BY <1>1, <1>2, <1>3, <1>4, <1>5, <1>7, <1>8, <1>9 DEF PipelineInv, TheReport

(* Capping the evidence keeps a diagnostic's first line. *)
LEMMA CappedIs ==
  ASSUME limits \in ParseLimits, NEW d \in Diagnostic
  PROVE  LET c == Capped(d)
         IN  /\ c \in Diagnostic /\ c.parser = d.parser /\ c.code = d.code
             /\ c.evidence = << >> <=> d.evidence = << >>
             /\ d.evidence # << >> => Head(c.evidence) = Head(d.evidence)
             /\ \A n \in DOMAIN c.evidence : n \in DOMAIN d.evidence /\ c.evidence[n] = d.evidence[n]
             /\ Len(d.evidence) <= 1 => c.evidence = d.evidence
  <1> DEFINE c == Capped(d)
             e == d.evidence
             max == limits.max_context_lines
             short == IF Len(e) > max THEN SubSeq(e, 1, max) ELSE e
  <1>1. d \in [parser : Parsers \cup {"pipeline"}, code : Nat \cup {None}, evidence : Seq(Nat)]
    BY DEF Diagnostic
  <1>2. e \in Seq(Nat) /\ Len(e) \in Nat /\ DOMAIN e = 1..Len(e) /\ max \in Nat \ {0}
    BY <1>1, LenProperties DEF ParseLimits
  <1>3. c = [d EXCEPT !.evidence = short]
    BY DEF Capped
  <1> HIDE DEF c, max
  <1>4. c.parser = d.parser /\ c.code = d.code /\ c.evidence = short
    BY <1>1, <1>3
  <1>5. /\ short \in Seq(Nat) /\ (short = << >> <=> e = << >>)
        /\ \A n \in DOMAIN short : n \in DOMAIN e /\ short[n] = e[n]
        /\ Len(e) <= 1 => short = e
    <2>1. CASE Len(e) > max
      <3>1. short = SubSeq(e, 1, max)
        BY <2>1
      <3>2. \A i \in 1..max : e[i] \in Nat
        BY <1>2, <2>1, ElementOfSeq
      <3> HIDE DEF short, e
      <3>3. short \in Seq(Nat) /\ Len(short) = max /\ \A i \in 1..max : short[i] = e[i]
        BY <1>2, <2>1, <3>1, <3>2, SubSeqProperties
      <3>4. DOMAIN short = 1..max
        BY <3>3, LenProperties
      <3>5. short # << >> /\ e # << >>
        BY <1>2, <2>1, <3>3, EmptySeq
      <3>6. \A k \in 1..max : k \in 1..Len(e)
        BY <1>2, <2>1
      <3>7. QED BY <1>2, <2>1, <3>3, <3>4, <3>5, <3>6
    <2>2. CASE ~(Len(e) > max)
      BY <1>2, <2>2
    <2>3. QED BY <2>1, <2>2
  <1> HIDE DEF short
  <1>6. c \in Diagnostic
    BY <1>1, <1>3, <1>5 DEF Diagnostic
  <1>7. e # << >> => Head(short) = Head(e)
    BY <1>2, <1>5, HeadIsFirst
  <1>8. QED BY <1>4, <1>5, <1>6, <1>7 DEF c

(* Capping the evidence changes neither who found what nor where it stands. *)
LEMMA CapEvidenceInv ==
  ASSUME PipelineInv, CapEvidence
  PROVE  PipelineInv'
  <1>1. /\ phase = "evidence" /\ phase' = "report" /\ evidence_truncated' \in BOOLEAN
        /\ diagnostics' = [k \in DOMAIN diagnostics |-> Capped(diagnostics[k])]
    BY DEF CapEvidence
  <1>2. /\ report = None /\ TypeOK /\ content \in Logs /\ limits \in Limits
        /\ HeadOfLog /\ Sourced /\ ExitsApart /\ RegistryPosition /\ ExitFound /\ AllKept
        /\ diagnostics \in Seq(Diagnostic)
    BY <1>1, UnderWay
  <1>3. /\ UNCHANGED <<content, limits, lines, truncated_lines, truncated_chars>>
        /\ UNCHANGED <<next, raised, selected, diagnostics_truncated, report>>
    BY DEF CapEvidence, lateUnchanged
  <1>4. /\ DOMAIN diagnostics = 1..Len(diagnostics) /\ Len(diagnostics) \in Nat
        /\ \A k \in DOMAIN diagnostics : diagnostics[k] \in Diagnostic
    BY <1>2, LenProperties, ElementOfSeq
  <1>5. /\ DOMAIN diagnostics' = DOMAIN diagnostics
        /\ \A k \in DOMAIN diagnostics :
             LET d == diagnostics[k]
                 c == diagnostics'[k]
             IN  /\ c \in Diagnostic /\ c.parser = d.parser /\ c.code = d.code
                 /\ c.evidence = << >> <=> d.evidence = << >>
                 /\ d.evidence # << >> => Head(c.evidence) = Head(d.evidence)
                 /\ \A n \in DOMAIN c.evidence :
                      n \in DOMAIN d.evidence /\ c.evidence[n] = d.evidence[n]
                 /\ Len(d.evidence) <= 1 => c.evidence = d.evidence
    BY <1>1, <1>2, <1>4, CappedIs, TextTypes
  <1>6. diagnostics' \in Seq(Diagnostic)
    <2>1. diagnostics' \in [1..Len(diagnostics) -> Diagnostic]
      BY <1>1, <1>4, <1>5
    <2>2. QED BY <1>4, <2>1, SeqDef
  <1>7. /\ \A k \in DOMAIN diagnostics :
             /\ diagnostics'[k].parser = diagnostics[k].parser
             /\ IsExit(diagnostics'[k]) <=> IsExit(diagnostics[k])
        /\ HasExit(diagnostics') <=> HasExit(diagnostics)
        /\ diagnostics' = << >> <=> diagnostics = << >>
        /\ \A parser, n : Cites(parser, n, diagnostics) => Cites(parser, n, diagnostics')
    <2>1. \A k \in DOMAIN diagnostics :
            /\ diagnostics'[k].parser = diagnostics[k].parser
            /\ IsExit(diagnostics'[k]) <=> IsExit(diagnostics[k])
      BY <1>5 DEF IsExit
    <2>2. HasExit(diagnostics') <=> HasExit(diagnostics)
      BY <1>5, <2>1 DEF HasExit
    <2>3. diagnostics' = << >> <=> diagnostics = << >>
      BY <1>2, <1>5, <1>6, HeadIsFirst
    <2>4. \A parser, n : Cites(parser, n, diagnostics) => Cites(parser, n, diagnostics')
      BY <1>5 DEF Cites
    <2>5. QED BY <2>1, <2>2, <2>3, <2>4
  <1>8. TypeOK'
    BY <1>1, <1>2, <1>3, <1>6 DEF TypeOK
  <1>9. Sourced'
    <2>1. SUFFICES ASSUME NEW k \in DOMAIN diagnostics
                   PROVE  LET c == diagnostics'[k]
                          IN  IsRescued(c) \/ IsExitOf(c, lines) \/ IsFailureOf(c, lines)
      BY <1>3, <1>5 DEF Sourced
    <2>2. CASE IsRescued(diagnostics[k])
      BY <1>5, <1>7, <2>2 DEF IsRescued
    <2>3. CASE IsExitOf(diagnostics[k], lines)
      <3>1. Len(diagnostics[k].evidence) <= 1
        BY <2>3 DEF IsExitOf
      <3>2. diagnostics'[k].evidence = diagnostics[k].evidence
        BY <1>5, <3>1
      <3>3. QED BY <1>5, <2>3, <3>2 DEF IsExitOf
    <2>4. CASE IsFailureOf(diagnostics[k], lines)
      BY <1>5, <2>4 DEF IsFailureOf
    <2>5. QED BY <1>2, <2>2, <2>3, <2>4 DEF Sourced
  <1>10. ExitsApart'
    BY <1>2, <1>5, <1>7 DEF ExitsApart
  <1>11. Tried' = Tried /\ Heard' = Heard
    BY <1>3 DEF Tried, Heard
  <1>12. RegistryPosition'
    BY <1>1, <1>2, <1>3, <1>7, <1>11 DEF RegistryPosition
  <1>13. HeadOfLog' /\ NormalizedTail' = NormalizedTail
    BY <1>2, <1>3, SameHead
  <1>14. ExitFound'
    <2>1. \A k \in DOMAIN diagnostics' :
            diagnostics'[k].parser = "pipeline" =>
              /\ ExitLines(lines) = {} \/ diagnostics_truncated \/ selected = None
              /\ truncated_lines /\ diagnostics'[k].code = LastCode(NormalizedTail)
      BY <1>1, <1>2, <1>5, <1>7 DEF ExitFound
    <2>2. /\ ExitLines(lines) # {} /\ ~diagnostics_truncated
          /\ selected # None \/ diagnostics' # << >>
          => HasExit(diagnostics')
      BY <1>2, <1>7 DEF ExitFound
    <2>3. truncated_lines /\ ExitLines(NormalizedTail) # {} => HasExit(diagnostics')
      BY <1>1, <1>2, <1>7 DEF ExitFound
    <2>4. QED BY <1>1, <1>3, <1>13, <2>1, <2>2, <2>3 DEF ExitFound
  <1>15. AllKept'
    BY <1>2, <1>3, <1>7, <1>11 DEF AllKept
  <1>16. QED
    BY <1>1, <1>2, <1>3, <1>8, <1>9, <1>10, <1>12, <1>13, <1>14, <1>15 DEF PipelineInv, TheReport

(* The exit code of a report is that of one of its diagnostics, if any has one. *)
LEMMA ExitCodeIs ==
  ASSUME NEW ds \in Seq(Diagnostic)
  PROVE  /\ ExitCode(ds) \in Nat \cup {None} /\ (ExitCode(ds) = None <=> ~HasExit(ds))
         /\ HasExit(ds) => \E k \in DOMAIN ds : IsExit(ds[k]) /\ ExitCode(ds) = ds[k].code
  <1>1. CASE ~HasExit(ds)
    BY <1>1 DEF ExitCode
  <1>2. CASE HasExit(ds)
    <2> DEFINE E == {k \in DOMAIN ds : IsExit(ds[k])}
               IsFirst(k) == IsExit(ds[k]) /\ \A j \in 1..k - 1 : ~IsExit(ds[j])
    <2>1. DOMAIN ds = 1..Len(ds) /\ Len(ds) \in Nat
      BY LenProperties
    <2>2. E \in SUBSET Nat /\ E # {}
      BY <1>2, <2>1 DEF HasExit
    <2>3. PICK k \in E : \A y \in E : k <= y
      BY <2>2, LeastNatural
    <2>4. k \in DOMAIN ds /\ IsFirst(k)
      BY <2>1, <2>2, <2>3
    <2>5. PICK m \in DOMAIN ds : IsFirst(m) /\ ExitCode(ds) = ds[m].code
      BY <1>2, <2>4 DEF ExitCode
    <2>6. ds[m].code \in Nat /\ ds[m].code # None
      <3>1. ds[m] \in Diagnostic
        BY <2>1, <2>5, ElementOfSeq
      <3>2. QED BY <2>5, <3>1 DEF Diagnostic, IsExit
    <2>7. QED BY <1>2, <2>5, <2>6
  <1>3. QED BY <1>1, <1>2

(* parse_failures is a count, and zero only where no parser raised. *)
LEMMA RaisedAreCounted ==
  ASSUME raised \subseteq Parsers
  PROVE  Cardinality(raised) \in Nat /\ (Cardinality(raised) = 0 <=> raised = {})
  <1>1. IsFiniteSet(DOMAIN Specialized)
    BY ParserNames, FS_Interval
  <1>2. IsFiniteSet(SpecializedNames)
    <2>1. Specialized \in Surjection(DOMAIN Specialized, SpecializedNames)
      BY RegistryAssumption DEF Surjection, SpecializedNames
    <2>2. QED BY <1>1, <2>1, FS_Surjection
  <1>3. IsFiniteSet(Parsers)
    BY <1>2, FS_AddElement DEF Parsers
  <1>4. IsFiniteSet(raised)
    BY <1>3, FS_Subset
  <1>5. QED BY <1>4, FS_CardinalityType, FS_EmptySet

(* The report is made of what was found, and says what was cut and who      *)
(* raised.                                                                  *)
LEMMA MakeReportInv ==
  ASSUME PipelineInv, MakeReport
  PROVE  PipelineInv'
  <1>1. /\ phase = "report" /\ phase' = "done"
        /\ report' = [diagnostics |-> diagnostics, exit_code |-> ExitCode(diagnostics),
                      truncated |-> Truncated, parse_failures |-> Cardinality(raised),
                      fatal |-> FALSE]
    BY DEF MakeReport
  <1>2. /\ report = None /\ TypeOK /\ content \in Logs /\ limits \in Limits
        /\ HeadOfLog /\ Sourced /\ ExitsApart /\ RegistryPosition /\ ExitFound /\ AllKept
        /\ diagnostics \in Seq(Diagnostic)
    BY <1>1, UnderWay
  <1>3. /\ UNCHANGED <<content, limits, lines, truncated_lines, truncated_chars>>
        /\ UNCHANGED <<next, raised, selected, diagnostics, diagnostics_truncated,
                       evidence_truncated>>
    BY DEF MakeReport, lateUnchanged
  <1>4. report' \in Report
    <2>1. ExitCode(diagnostics) \in Nat \cup {None}
      BY <1>2, ExitCodeIs
    <2>2. Cardinality(raised) \in Nat
      BY <1>2, RaisedAreCounted DEF TypeOK
    <2>3. Truncated \in BOOLEAN
      BY DEF Truncated
    <2>4. QED BY <1>1, <1>2, <2>1, <2>2, <2>3 DEF Report
  <1>5. TypeOK'
    BY <1>1, <1>2, <1>3, <1>4, NoneAssumption DEF TypeOK
  <1>6. Sourced' /\ ExitsApart'
    BY <1>2, <1>3 DEF Sourced, ExitsApart
  <1>7. Tried' = Tried /\ Heard' = Heard
    BY <1>3 DEF Tried, Heard
  <1>8. RegistryPosition' /\ AllKept'
    BY <1>1, <1>2, <1>3, <1>7 DEF RegistryPosition, AllKept
  <1>9. HeadOfLog' /\ NormalizedTail' = NormalizedTail
    BY <1>2, <1>3, SameHead
  <1>10. ExitFound'
    BY <1>1, <1>2, <1>3, <1>9 DEF ExitFound
  <1>11. TheReport'
    BY <1>1, <1>3 DEF TheReport, Truncated
  <1>12. QED
    BY <1>1, <1>2, <1>3, <1>5, <1>6, <1>8, <1>9, <1>10, <1>11 DEF PipelineInv

(* The catch-all's report has its type too, whenever it strikes. *)
LEMMA FatalInv ==
  ASSUME PipelineInv, Fatal
  PROVE  PipelineInv'
  <1>1. /\ phase' = "done"
        /\ report' = [diagnostics |-> <<[parser |-> "pipeline", code |-> None, evidence |-> << >>]>>,
                      exit_code |-> None, truncated |-> FALSE, parse_failures |-> 0,
                      fatal |-> TRUE]
    BY DEF Fatal
  <1>2. TypeOK /\ content \in Logs /\ limits \in Limits
    BY DEF PipelineInv
  <1>3. report' \in Report /\ report'.fatal
    <2>1. [parser |-> "pipeline", code |-> None, evidence |-> << >>] \in Diagnostic
      BY DEF Diagnostic
    <2>2. <<[parser |-> "pipeline", code |-> None, evidence |-> << >>]>> \in Seq(Diagnostic)
      BY <2>1
    <2>3. QED BY <1>1, <2>2 DEF Report
  <1>4. /\ UNCHANGED <<content, limits, lines, truncated_lines, truncated_chars>>
        /\ UNCHANGED <<next, raised, selected, diagnostics, diagnostics_truncated,
                       evidence_truncated>>
    BY DEF Fatal, lateUnchanged
  <1>5. TypeOK'
    BY <1>1, <1>2, <1>3, <1>4, NoneAssumption DEF TypeOK
  <1>6. ~Going'
    BY <1>3, NoneAssumption DEF Going
  <1>7. QED BY <1>1, <1>2, <1>3, <1>4, <1>5, <1>6 DEF PipelineInv, TheReport

(* Nothing changes after the end. *)
LEMMA StandStill ==
  ASSUME PipelineInv, UNCHANGED vars
  PROVE  PipelineInv'
  BY DEF PipelineInv, vars, TypeOK, Start, Going, HeadOfLog, Sourced, ExitsApart, RegistryPosition,
         Tried, ExitFound, NormalizedTail, AllKept, Heard, TheReport, Truncated

(* What holds of parse_log at every point: whatever the text, the limits,   *)
(* the registry and the parsers that raise, each diagnostic has its source  *)
(* and none that a parser returned has gone unless a cap says so.           *)
THEOREM PipelineInvariant == Spec => []PipelineInv
  <1>1. Init => PipelineInv
    BY InitInv
  <1>2. PipelineInv /\ [Next]_vars => PipelineInv'
    <2>1. SUFFICES ASSUME PipelineInv, [Next]_vars PROVE PipelineInv'
      OBVIOUS
    <2>2. CASE Normalize
      BY <2>1, <2>2, NormalizeInv
    <2>3. CASE ParserRuns
      BY <2>1, <2>3, ParserRunsInv
    <2>4. CASE ParserDetectsNothing \/ ParserRaises
      BY <2>1, <2>4, PassedOverInv
    <2>5. CASE SpecializedSuffice
      BY <2>1, <2>5, SpecializedSufficeInv
    <2>6. CASE FallbackRuns
      BY <2>1, <2>6, FallbackRunsInv
    <2>7. CASE FallbackRaises
      BY <2>1, <2>7, FallbackRaisesInv
    <2>8. CASE CapDiagnostics
      BY <2>1, <2>8, CapDiagnosticsInv
    <2>9. CASE RescueTail
      BY <2>1, <2>9, RescueTailInv
    <2>10. CASE NoRescue
      BY <2>1, <2>10, NoRescueInv
    <2>11. CASE CapEvidence
      BY <2>1, <2>11, CapEvidenceInv
    <2>12. CASE MakeReport
      BY <2>1, <2>12, MakeReportInv
    <2>13. CASE Fatal
      BY <2>1, <2>13, FatalInv
    <2>14. CASE Returned \/ UNCHANGED vars
      BY <2>1, <2>14, StandStill DEF Returned
    <2>15. QED
      BY <2>1, <2>2, <2>3, <2>4, <2>5, <2>6, <2>7, <2>8, <2>9, <2>10, <2>11, <2>12, <2>13, <2>14
      DEF Next
  <1>3. QED BY <1>1, <1>2, PTL DEF Spec

(* The state of parse_log has its type: the lines stay within the line cap, *)
(* the registry's position within the registry, and a report is there just  *)
(* when parse_log has returned.                                             *)
THEOREM TypeCorrect == Spec => []TypeOK
  <1>1. PipelineInv => TypeOK
    BY DEF PipelineInv
  <1>2. QED BY <1>1, PipelineInvariant, PTL

-----------------------------------------------------------------------------
(* What the report promises. *)

(* What is known once parse_log has returned a report that is not the       *)
(* catch-all's.                                                             *)
LEMMA AtReport ==
  ASSUME PipelineInv, Reported
  PROVE  /\ TypeOK /\ content \in Logs /\ limits \in Limits /\ phase = "done"
         /\ HeadOfLog /\ Sourced /\ ExitsApart /\ RegistryPosition /\ ExitFound /\ AllKept
         /\ lines \in Seq(Line) /\ diagnostics \in Seq(Diagnostic)
         /\ report.diagnostics = diagnostics /\ report.exit_code = ExitCode(diagnostics)
         /\ report.truncated = Truncated /\ report.parse_failures = Cardinality(raised)
         /\ next = Len(Specialized) + 1 /\ SpecializedNames = Tried
  <1>1. /\ TypeOK /\ content \in Logs /\ limits \in Limits /\ phase = "done"
        /\ HeadOfLog /\ Sourced /\ ExitsApart /\ RegistryPosition /\ ExitFound /\ AllKept
        /\ TheReport
    BY DEF PipelineInv, Reported, Going, TypeOK
  <1>2. /\ report.diagnostics = diagnostics /\ report.exit_code = ExitCode(diagnostics)
        /\ report.truncated = Truncated /\ report.parse_failures = Cardinality(raised)
    BY <1>1 DEF TheReport, Reported
  <1>3. next = Len(Specialized) + 1
    BY <1>1 DEF RegistryPosition
  <1>4. SpecializedNames = Tried
    <2>1. 1..next - 1 = DOMAIN Specialized
      BY <1>3, ParserNames
    <2>2. QED BY <2>1 DEF SpecializedNames, Tried
  <1>5. QED BY <1>1, <1>2, <1>3, <1>4 DEF TypeOK

(* The last marker of lines that have one. *)
LEMMA LastCodeIs ==
  ASSUME NEW ls \in Seq(Line), NEW n \in ExitLines(ls), \A m \in ExitLines(ls) : m <= n
  PROVE  LastCode(ls) = ls[n].code
  <1>1. ExitLines(ls) \in SUBSET Nat /\ IsFiniteSet(ExitLines(ls))
    BY PositionsOf DEF ExitLines
  <1>2. Most(ExitLines(ls)) \in ExitLines(ls) /\ n <= Most(ExitLines(ls))
    BY <1>1, MostIs
  <1>3. Most(ExitLines(ls)) = n
    BY <1>1, <1>2
  <1>4. QED BY <1>3 DEF LastCode

(* A tail that the limits do not cut again and that the log's last marker   *)
(* stands whole in: the marker is its last one too, for what the slice made *)
(* of its first line comes before.                                          *)
LEMMA TailEndsAsTheLog ==
  ASSUME content \in Logs, limits \in Limits, ExitLines(content.lines) # {}, TailHoldsLast
  PROVE  LastCode(NormalizedTail) = LastCode(content.lines)
  <1> DEFINE N     == Len(content.lines)
             L     == Length(content)
             from  == TailOf(content)
             first == (from + 1) \div 2
             top   == Most(ExitLines(content.lines))
             tail  == NormalizedTail
  <1>1. /\ content \in Log /\ content.lines \in Seq(Line) /\ N \in Nat /\ L = 2 * N
        /\ limits.max_total_lines \in Nat \ {0}
    BY TextTypes
  <1>2. from \in Nat \ {0} /\ from <= L + 1
    BY <1>1, PipelineAssumption DEF TailOf
  <1>3. DOMAIN content.lines = 1..N /\ ExitLines(content.lines) \subseteq 1..N
    BY <1>1, LenProperties DEF ExitLines
  <1>4. /\ top \in ExitLines(content.lines) /\ \A m \in ExitLines(content.lines) : m <= top
        /\ top \in 1..N
    <2>1. ExitLines(content.lines) \in SUBSET Nat /\ IsFiniteSet(ExitLines(content.lines))
      BY <1>1, PositionsOf DEF ExitLines
    <2>2. QED BY <1>3, <2>1, MostIs
  <1>5. /\ 2 * top - 1 >= from
        /\ ~CharsCut(content, from, L, limits) /\ ~LinesCut(content, from, L, limits)
    BY DEF TailHoldsLast
  <1>6. CharCut(content, from, L, limits) = L
    BY <1>5 DEF CharCut
  <1>7. LineCut(content, from, L, limits.max_total_lines) = L
    <2>1. Cardinality(Breaks(content, from, L)) \in Nat
      <3>1. L \in Nat /\ L <= 2 * Len(content.lines)
        BY <1>1
      <3> HIDE DEF L, from
      <3>2. QED BY <1>1, <1>2, <3>1, BreaksAreCounted
    <2>2. ~(Cardinality(Breaks(content, from, L)) >= limits.max_total_lines)
      BY <1>5, <1>6 DEF LinesCut
    <2>3. Cardinality(Breaks(content, from, L)) < limits.max_total_lines
      BY <1>1, <2>1, <2>2
    <2>4. QED BY <2>3 DEF LineCut
  <1>8. tail = [k \in 1..(L + 1) \div 2 - first + 1 |-> Fragment(content, first + k - 1, from, L)]
    BY <1>6, <1>7 DEF NormalizedTail, Normalized
  <1>9. (L + 1) \div 2 = N
    <2>1. \A x \in Nat : (2 * x + 1) \div 2 = x
      OBVIOUS
    <2> HIDE DEF L, N
    <2>2. QED BY <1>1, <2>1
  <1>10. tail \in Seq(Line)
    BY TailIsLines
  <1> HIDE DEF tail, top, L, N, from
  <1>11. first \in Nat /\ first >= 1 /\ first <= top /\ from >= 2 * first - 1 /\ from <= 2 * first
    BY <1>2, <1>4, <1>5
  <1> HIDE DEF first
  <1>12. /\ DOMAIN tail = 1..N - first + 1
         /\ \A k \in 1..N - first + 1 : tail[k] = Fragment(content, first + k - 1, from, L)
    BY <1>8, <1>9
  <1>13. ASSUME NEW k \in 1..N - first + 1, from <= 2 * (first + k - 1) - 1
         PROVE  tail[k] = content.lines[first + k - 1] /\ first + k - 1 \in 1..N
    <2>1. first + k - 1 \in 1..N /\ 2 * (first + k - 1) <= L
      BY <1>1, <1>11
    <2>2. Fragment(content, first + k - 1, from, L) = content.lines[first + k - 1]
      BY <1>13, <2>1 DEF Fragment
    <2>3. QED BY <1>12, <2>1, <2>2
  <1> DEFINE n == top - first + 1
  <1>14. n \in 1..N - first + 1 /\ first + n - 1 = top
    BY <1>1, <1>4, <1>11
  <1>15. n \in ExitLines(tail) /\ tail[n] = content.lines[top]
    <2>1. tail[n] = content.lines[top]
      BY <1>5, <1>13, <1>14
    <2>2. content.lines[top].kind = "exit"
      BY <1>4 DEF ExitLines
    <2>3. QED BY <1>12, <1>14, <2>1, <2>2 DEF ExitLines
  <1>16. ASSUME NEW m \in ExitLines(tail) PROVE m <= n
    <2>1. m \in 1..N - first + 1 /\ tail[m].kind = "exit"
      BY <1>12 DEF ExitLines
    <2>2. SUFFICES ASSUME ~(m <= n) PROVE FALSE
      OBVIOUS
    <2>3. first + m - 1 > top /\ from <= 2 * (first + m - 1) - 1
      <3>1. m \in Nat /\ n \in Nat /\ top \in Nat /\ first + n - 1 = top
        BY <1>1, <1>4, <1>11, <1>14, <2>1
      <3> HIDE DEF n
      <3>2. first + m - 1 > top
        BY <1>11, <2>2, <3>1
      <3>3. from \in Nat
        BY <1>2
      <3>4. QED BY <1>5, <1>11, <3>1, <3>2, <3>3
    <2>4. tail[m] = content.lines[first + m - 1] /\ first + m - 1 \in 1..N
      BY <1>13, <2>1, <2>3
    <2>5. first + m - 1 \in ExitLines(content.lines)
      BY <1>3, <2>1, <2>4 DEF ExitLines
    <2>6. QED BY <1>1, <1>4, <2>3, <2>5, <2>4
  <1> HIDE DEF n
  <1>17. LastCode(tail) = content.lines[top].code
    BY <1>10, <1>15, <1>16, LastCodeIs
  <1>18. LastCode(content.lines) = content.lines[top].code
    BY <1>1, <1>4, LastCodeIs
  <1>19. QED BY <1>17, <1>18 DEF tail

(* A report names the last marker of the lines that were read if a parser   *)
(* brought it that far, else that of the tail if the log was cut by lines.  *)
LEMMA WhoseExitCode ==
  ASSUME PipelineInv, Reported
  PROVE  /\ report.exit_code = IF HeadTells THEN LastCode(lines)
                               ELSE IF truncated_lines THEN LastCode(NormalizedTail) ELSE None
         /\ ExitLines(lines) # {} /\ ~diagnostics_truncated /\ selected # None => HeadTells
  <1>1. /\ Sourced /\ ExitsApart /\ ExitFound /\ phase = "done"
        /\ diagnostics \in Seq(Diagnostic)
        /\ report.diagnostics = diagnostics /\ report.exit_code = ExitCode(diagnostics)
    BY AtReport
  <1>2. /\ ExitCode(diagnostics) = None <=> ~HasExit(diagnostics)
        /\ HasExit(diagnostics) =>
             \E k \in DOMAIN diagnostics :
               IsExit(diagnostics[k]) /\ ExitCode(diagnostics) = diagnostics[k].code
    BY <1>1, ExitCodeIs
  <1>3. \A k \in DOMAIN diagnostics :
          /\ diagnostics[k].parser \in Parsers \/ diagnostics[k].parser = "pipeline"
          /\ IsExit(diagnostics[k]) /\ diagnostics[k].parser \in Parsers =>
               diagnostics[k].code = LastCode(lines)
    <2>1. \A k \in DOMAIN diagnostics :
            diagnostics[k].parser \in Parsers \/ diagnostics[k].parser = "pipeline"
      BY <1>1 DEF Sourced, IsRescued, IsExitOf, IsFailureOf
    <2>2. ASSUME NEW k \in DOMAIN diagnostics, IsExit(diagnostics[k]),
                 diagnostics[k].parser \in Parsers
          PROVE  diagnostics[k].code = LastCode(lines)
      <3>1. IsExitOf(diagnostics[k], lines)
        BY <1>1, <2>2, ParserNames DEF Sourced, IsRescued, IsFailureOf, IsExit
      <3>2. QED BY <3>1 DEF IsExitOf, LastCode
    <2>3. QED BY <2>1, <2>2
  <1>4. HeadTells <=>
          \E k \in DOMAIN diagnostics : IsExit(diagnostics[k]) /\ diagnostics[k].parser \in Parsers
    BY <1>1 DEF HeadTells
  <1>5. ASSUME HeadTells PROVE ExitCode(diagnostics) = LastCode(lines)
    <2>1. PICK k \in DOMAIN diagnostics :
            IsExit(diagnostics[k]) /\ diagnostics[k].parser \in Parsers
      BY <1>4, <1>5
    <2>2. PICK m \in DOMAIN diagnostics :
            IsExit(diagnostics[m]) /\ ExitCode(diagnostics) = diagnostics[m].code
      BY <1>2, <2>1 DEF HasExit
    <2>3. diagnostics[m].parser # "pipeline"
      BY <1>1, <2>1, <2>2, ParserNames DEF ExitsApart
    <2>4. QED BY <1>3, <2>2, <2>3
  <1>6. ASSUME ~HeadTells, truncated_lines
        PROVE  ExitCode(diagnostics) = LastCode(NormalizedTail)
    <2>1. CASE HasExit(diagnostics)
      <3>1. PICK k \in DOMAIN diagnostics :
              IsExit(diagnostics[k]) /\ ExitCode(diagnostics) = diagnostics[k].code
        BY <1>2, <2>1
      <3>2. diagnostics[k].parser = "pipeline"
        BY <1>3, <1>4, <1>6, <3>1
      <3>3. QED BY <1>1, <3>1, <3>2 DEF ExitFound
    <2>2. CASE ~HasExit(diagnostics)
      BY <1>1, <1>2, <1>6, <2>2 DEF ExitFound, LastCode
    <2>3. QED BY <2>1, <2>2
  <1>7. ASSUME ~HeadTells, ~truncated_lines
        PROVE  ExitCode(diagnostics) = None
    <2>1. \A k \in DOMAIN diagnostics : diagnostics[k].parser # "pipeline"
      BY <1>1, <1>7 DEF ExitFound
    <2>2. ~HasExit(diagnostics)
      BY <1>3, <1>4, <1>7, <2>1 DEF HasExit
    <2>3. QED BY <1>2, <2>2
  <1>8. ASSUME ExitLines(lines) # {}, ~diagnostics_truncated, selected # None
        PROVE  HeadTells
    <2>1. HasExit(diagnostics)
      BY <1>1, <1>8 DEF ExitFound
    <2>2. \A k \in DOMAIN diagnostics : diagnostics[k].parser # "pipeline"
      BY <1>1, <1>8 DEF ExitFound
    <2>3. QED BY <1>3, <1>4, <2>1, <2>2 DEF HasExit
  <1>9. QED BY <1>1, <1>5, <1>6, <1>7, <1>8

(* The exit code of a report is the last one of the head or, where that     *)
(* told none and the log was cut by lines, the last one of the tail; it is  *)
(* the last one that the job printed but for the losses that the property   *)
(* names.                                                                   *)
THEOREM ExitCodeSurvivesAll == Spec => []ExitCodeSurvives
  <1>1. PipelineInv => ExitCodeSurvives
    <2>1. SUFFICES ASSUME PipelineInv, Reported, ExitLines(content.lines) # {}
                   PROVE  \/ report.exit_code = LastCode(content.lines)
                          \/ truncated_chars
                          \/ truncated_lines /\ (HeadTells \/ ~TailHoldsLast)
                          \/ ~truncated_lines /\ diagnostics_truncated
                          \/ ~truncated_lines /\ selected = None /\ report.parse_failures > 0
      BY WhoseExitCode DEF ExitCodeSurvives
    <2>2. /\ TypeOK /\ content \in Logs /\ limits \in Limits /\ phase = "done"
          /\ HeadOfLog /\ RegistryPosition /\ report.parse_failures = Cardinality(raised)
      BY <2>1, AtReport
    <2>3. /\ report.exit_code = IF HeadTells THEN LastCode(lines)
                                ELSE IF truncated_lines THEN LastCode(NormalizedTail) ELSE None
          /\ ExitLines(lines) # {} /\ ~diagnostics_truncated /\ selected # None => HeadTells
      BY <2>1, WhoseExitCode
    <2>4. CASE truncated_lines
      <3>1. ~HeadTells /\ TailHoldsLast => report.exit_code = LastCode(content.lines)
        BY <2>1, <2>2, <2>3, <2>4, TailEndsAsTheLog
      <3>2. QED BY <2>4, <3>1
    <2>5. CASE ~truncated_lines /\ ~truncated_chars
      <3>1. lines = content.lines
        BY <2>2, <2>5, HeadIsTheLogs
      <3>2. selected = None => report.parse_failures > 0
        <4>1. selected = None => raised # {} /\ raised \subseteq Parsers
          BY <2>2 DEF RegistryPosition, TypeOK
        <4>2. QED BY <2>2, <4>1, RaisedAreCounted
      <3>3. QED BY <2>1, <2>3, <2>5, <3>1, <3>2
    <2>6. QED BY <2>4, <2>5
  <1>2. QED BY <1>1, PipelineInvariant, PTL

(* A report names one exit code, each parser says it at most once, and a    *)
(* rescued one stands alone.                                                *)
THEOREM NamesOneExitCode == Spec => []OneExitCode
  <1>1. PipelineInv => OneExitCode
    <2>1. SUFFICES ASSUME PipelineInv, Reported,
                          NEW k \in DOMAIN report.diagnostics, NEW m \in DOMAIN report.diagnostics,
                          IsExit(report.diagnostics[k]), IsExit(report.diagnostics[m])
                   PROVE  /\ report.diagnostics[k].code = report.diagnostics[m].code
                          /\ k # m => /\ report.diagnostics[k].parser # report.diagnostics[m].parser
                                      /\ report.diagnostics[k].parser # "pipeline"
      BY DEF OneExitCode
    <2>2. report.diagnostics = diagnostics /\ Sourced /\ ExitsApart
      BY <2>1, AtReport
    <2>3. k # m => /\ diagnostics[k].parser # diagnostics[m].parser
                   /\ diagnostics[k].parser # "pipeline" /\ diagnostics[m].parser # "pipeline"
      BY <2>1, <2>2 DEF ExitsApart
    <2>4. k # m => IsExitOf(diagnostics[k], lines) /\ IsExitOf(diagnostics[m], lines)
      BY <2>1, <2>2, <2>3 DEF Sourced, IsRescued, IsFailureOf, IsExit
    <2>5. QED BY <2>2, <2>3, <2>4 DEF IsExitOf
  <1>2. QED BY <1>1, PipelineInvariant, PTL

(* A line that a report cites is the line of the log where that failure     *)
(* stands, and the excerpt an agent is shown begins with it.                *)
THEOREM LinesAreTheLogsOwn == Spec => []LinesAreTheLogs
  <1>1. PipelineInv => LinesAreTheLogs
    <2>1. SUFFICES ASSUME PipelineInv, Reported,
                          NEW k \in DOMAIN diagnostics, diagnostics[k].evidence # << >>
                   PROVE  LET d     == diagnostics[k]
                              cited == content.lines[Head(d.evidence)]
                          IN  /\ \A n \in DOMAIN d.evidence : d.evidence[n] \in 1..Len(content.lines)
                              /\ Excerpt(d)[1] = cited
                              /\ IF IsExit(d) THEN cited.kind = "exit" /\ cited.code = d.code
                                 ELSE cited.kind = d.parser
      <3>1. Reported /\ PipelineInv => report.diagnostics = diagnostics
        BY AtReport
      <3>2. QED BY <3>1 DEF LinesAreTheLogs
    <2> DEFINE d == diagnostics[k]
               h == Head(d.evidence)
    <2>2. /\ content \in Logs /\ limits \in Limits /\ HeadOfLog /\ Sourced
          /\ lines \in Seq(Line) /\ diagnostics \in Seq(Diagnostic)
      BY <2>1, AtReport
    <2>3. /\ DOMAIN lines \subseteq 1..Len(content.lines)
          /\ \A n \in DOMAIN lines : lines[n].kind # "plain" => lines[n] = content.lines[n]
      BY <2>2, HeadIsTheLogs
    <2>4. d \in Diagnostic /\ d.evidence \in Seq(Nat)
      <3>1. k \in 1..Len(diagnostics)
        BY <2>2, LenProperties
      <3>2. d \in Diagnostic
        BY <2>2, <3>1, ElementOfSeq
      <3>3. QED BY <3>2 DEF Diagnostic
    <2>5. h = d.evidence[1] /\ 1 \in DOMAIN d.evidence
      BY <2>1, <2>4, HeadIsFirst
    <2>6. /\ \A n \in DOMAIN d.evidence : d.evidence[n] \in DOMAIN lines
          /\ IF IsExit(d) THEN lines[h].kind = "exit" /\ lines[h].code = d.code
             ELSE lines[h].kind = d.parser /\ d.parser \in Parsers
      <3>1. CASE IsExitOf(d, lines)
        <4> DEFINE last == Most(ExitLines(lines))
        <4>1. last \in ExitLines(lines)
          <5>1. ExitLines(lines) \in SUBSET DOMAIN lines
            BY DEF ExitLines
          <5>2. QED BY <2>2, <3>1, <5>1, PositionsOf, MostIs DEF IsExitOf
        <4>2. d.evidence = <<last>> /\ d.code = lines[last].code
          BY <3>1 DEF IsExitOf
        <4>3. last \in DOMAIN lines /\ lines[last].kind = "exit" /\ lines[last] \in Line
          <5>1. last \in DOMAIN lines /\ lines[last].kind = "exit"
            BY <4>1 DEF ExitLines
          <5>2. last \in 1..Len(lines)
            BY <2>2, <5>1, LenProperties
          <5>3. QED BY <2>2, <5>1, <5>2, ElementOfSeq
        <4> HIDE DEF last
        <4>4. DOMAIN d.evidence = {1} /\ d.evidence[1] = last
          BY <4>2
        <4>5. IsExit(d)
          BY <4>2, <4>3, NoneAssumption DEF IsExit, Line
        <4>6. QED BY <2>5, <4>2, <4>3, <4>4, <4>5
      <3>2. CASE IsFailureOf(d, lines)
        BY <3>2 DEF IsFailureOf, FailureLines, IsExit
      <3>3. ~IsRescued(d)
        BY <2>1 DEF IsRescued
      <3>4. QED BY <2>2, <3>1, <3>2, <3>3 DEF Sourced
    <2> HIDE DEF h
    <2>7. h \in DOMAIN lines /\ lines[h] = content.lines[h]
      <3>1. h \in DOMAIN lines
        BY <2>5, <2>6
      <3>2. lines[h].kind # "plain"
        BY <2>6, ParserNames
      <3>3. QED BY <2>3, <3>1, <3>2
    <2>8. Excerpt(d)[1] = content.lines[h]
      <3>1. 1 \in DOMAIN d.evidence \cap 1..ExcerptCap
        BY <2>2, <2>5, TextTypes DEF ExcerptCap
      <3>2. lines = Normalized(content, 1, Length(content), limits)
        BY <2>2 DEF HeadOfLog
      <3>3. Excerpt(d)[1] = IF d.evidence[1] \in DOMAIN lines THEN lines[d.evidence[1]] ELSE None
        BY <3>1, <3>2 DEF Excerpt
      <3>4. QED BY <2>5, <2>7, <3>3
    <2>9. QED BY <2>3, <2>6, <2>7, <2>8 DEF h
  <1>2. QED BY <1>1, PipelineInvariant, PTL

(* In a report that claims to be whole, a failure is cited, or its parser   *)
(* raised, or only the fallback knew it and a specialized parser spoke.     *)
LEMMA LossIsToldOf ==
  ASSUME PipelineInv, Reported, ~report.truncated
  PROVE  /\ lines = content.lines
         /\ \A i \in DOMAIN content.lines :
              LET parser == content.lines[i].kind
              IN  parser \in Parsers =>
                    \/ Cites(parser, i, diagnostics)
                    \/ parser \in raised /\ report.parse_failures > 0
                    \/ parser = Fallback /\ selected = "specialized"
  <1>1. /\ TypeOK /\ content \in Logs /\ limits \in Limits /\ phase = "done"
        /\ HeadOfLog /\ RegistryPosition /\ AllKept
        /\ report.truncated = Truncated /\ report.parse_failures = Cardinality(raised)
        /\ SpecializedNames = Tried
    BY AtReport
  <1>2. ~truncated_lines /\ ~truncated_chars /\ ~diagnostics_truncated
    BY <1>1 DEF Truncated
  <1>3. lines = content.lines
    BY <1>1, <1>2, HeadIsTheLogs
  <1>4. SUFFICES ASSUME NEW i \in DOMAIN content.lines, content.lines[i].kind \in Parsers
                 PROVE  LET parser == content.lines[i].kind
                        IN  \/ Cites(parser, i, diagnostics)
                            \/ parser \in raised /\ report.parse_failures > 0
                            \/ parser = Fallback /\ selected = "specialized"
    BY <1>3
  <1> DEFINE parser == content.lines[i].kind
  <1>5. i \in FailureLines(lines, parser)
    BY <1>3 DEF FailureLines
  <1>6. CASE parser \in Heard
    BY <1>1, <1>2, <1>5, <1>6 DEF AllKept
  <1>7. CASE parser \in raised
    BY <1>1, <1>7, RaisedAreCounted DEF TypeOK
  <1>8. CASE parser \notin Heard /\ parser \notin raised
    <2>1. parser = Fallback
      BY <1>1, <1>4, <1>8 DEF Heard, Parsers
    <2>2. selected # Fallback
      BY <1>8, <2>1 DEF Heard
    <2>3. selected # None
      BY <1>1, <1>8, <2>1 DEF RegistryPosition
    <2>4. QED BY <1>1, <2>1, <2>2, <2>3 DEF TypeOK
  <1>9. QED BY <1>6, <1>7, <1>8

(* Nothing is lost in silence: a failure that the report leaves out was cut *)
(* off, or its parser raised, and the report says so -- or it is one that   *)
(* only the fallback knows, which a specialized parser keeps from running.  *)
THEOREM LossesAreTold == Spec => []NothingLostSilently
  <1>1. PipelineInv => NothingLostSilently
    <2>1. SUFFICES ASSUME PipelineInv, Reported, ~report.truncated
                   PROVE  \A i \in DOMAIN content.lines :
                            LET parser == content.lines[i].kind
                            IN  parser \in Parsers =>
                                  \/ \E k \in DOMAIN report.diagnostics :
                                       LET d == report.diagnostics[k]
                                       IN  d.parser = parser /\ d.evidence # << >>
                                           /\ Head(d.evidence) = i
                                  \/ parser \in raised /\ report.parse_failures > 0
                                  \/ parser = Fallback /\ selected = "specialized"
      BY DEF NothingLostSilently
    <2>2. report.diagnostics = diagnostics
      BY <2>1, AtReport
    <2>3. QED BY <2>1, <2>2, LossIsToldOf DEF Cites
  <1>2. QED BY <1>1, PipelineInvariant, PTL

(* "No failures found", in a report that owns up to no cut and no parser's  *)
(* failure, is true of the log: no parser knows a failure in it, and no     *)
(* line of it is the marker of an exit code.                                *)
THEOREM CleanIsClean == Spec => []CleanMeansClean
  <1>1. PipelineInv => CleanMeansClean
    <2>1. SUFFICES ASSUME PipelineInv, report # None, Status(report) = "no_failures_found",
                          report.parse_failures = 0, ~report.truncated,
                          NEW i \in DOMAIN content.lines
                   PROVE  content.lines[i].kind \in {"plain", "quoted"}
      BY DEF CleanMeansClean
    <2>2. Reported /\ report.diagnostics = << >>
      BY <2>1 DEF Status, Reported
    <2>3. /\ TypeOK /\ content \in Logs /\ limits \in Limits /\ diagnostics = << >>
          /\ RegistryPosition /\ ExitFound /\ report.truncated = Truncated
          /\ report.parse_failures = Cardinality(raised)
      BY <2>1, <2>2, AtReport
    <2>4. raised = {}
      BY <2>1, <2>3, RaisedAreCounted DEF TypeOK
    <2>5. ~diagnostics_truncated /\ phase = "done"
      BY <2>1, <2>2, <2>3, AtReport DEF Truncated
    <2>6. selected # None /\ selected # "specialized"
      BY <2>3, <2>4, <2>5 DEF RegistryPosition
    <2>7. ExitLines(lines) = {}
      BY <2>3, <2>5, <2>6 DEF ExitFound, HasExit
    <2>8. /\ lines = content.lines
          /\ content.lines[i].kind \in Parsers =>
               \/ Cites(content.lines[i].kind, i, diagnostics)
               \/ content.lines[i].kind \in raised
               \/ selected = "specialized"
      BY <2>1, <2>2, LossIsToldOf
    <2>9. content.lines[i].kind \notin Parsers
      BY <2>3, <2>4, <2>6, <2>8 DEF Cites
    <2>10. content.lines[i].kind # "exit"
      BY <2>7, <2>8 DEF ExitLines
    <2>11. content.lines[i].kind \in Kinds
      <3>1. content.lines \in Seq(Line)
        BY <2>3, TextTypes
      <3>2. i \in 1..Len(content.lines)
        BY <3>1, LenProperties
      <3>3. content.lines[i] \in Line
        BY <3>1, <3>2, ElementOfSeq
      <3>4. QED BY <3>3 DEF Line
    <2>12. QED BY <2>9, <2>10, <2>11 DEF Kinds
  <1>2. QED BY <1>1, PipelineInvariant, PTL

=============================================================================
