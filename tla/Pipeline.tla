------------------------------ MODULE Pipeline ------------------------------
(***************************************************************************)
(* parsing/pipeline.py: parse_log from the text of a log to the report --  *)
(* the truncation of the text (normalizer.py), the parser registry and its *)
(* fallback, the caps, the rescue of the exit code from a truncated tail,  *)
(* and the catch-all that makes parse_log total.  build_clusters, which    *)
(* the same function calls, is module Clustering.                          *)
(*                                                                         *)
(* The text is a sequence of lines of two characters each, the line break  *)
(* counted with the second, so that a cut can fall inside a line.  Whole   *)
(* lines keep their meaning; a line cut in two keeps none, but the second  *)
(* half of a line that quotes an exit marker begins with that marker.      *)
(***************************************************************************)
EXTENDS Integers, Sequences, FiniteSets

CONSTANTS
  Logs,                 \* the texts given to parse_log
  Limits,               \* the ParseLimits it may be given
  TailChars,            \* _TAIL_RESCUE_CHARS
  Specialized,          \* the registry's specialized parsers, in order
  BlockLines,           \* parser -> how many lines one of its failures spans
  None                  \* Python's None

Fallback == "generic"

SpecializedNames == {Specialized[k] : k \in DOMAIN Specialized}

Parsers == SpecializedNames \cup {Fallback}

(* A line is plain, the marker of an exit code, a quotation of such a       *)
(* marker after other text, or the first line of a failure some parser      *)
(* knows.                                                                   *)
Kinds == {"plain", "exit", "quoted"} \cup Parsers

Line == [kind : Kinds, code : Nat]

Plain == [kind |-> "plain", code |-> 0]

Log == [lines : Seq(Line), newline : BOOLEAN]   \* newline: the last line is ended

ParseLimits ==
  [max_total_chars : Nat \ {0}, max_total_lines : Nat \ {0},
   max_diagnostics : Nat, max_context_lines : Nat \ {0}]

ASSUME PipelineAssumption ==
  /\ Logs \subseteq Log
  /\ Limits \subseteq ParseLimits
  /\ TailChars \in Nat \ {0}
  /\ BlockLines \in [Parsers -> Nat \ {0}]

(* The registry holds each parser once, and no name means two things. *)
ASSUME RegistryAssumption ==
  /\ Specialized \in Seq(STRING)
  /\ \A j, k \in DOMAIN Specialized : Specialized[j] = Specialized[k] => j = k
  /\ Fallback \notin SpecializedNames
  /\ Parsers \cap {"plain", "exit", "quoted", "pipeline"} = {}

VARIABLES
  content,              \* the text given
  limits,               \* the limits given
  phase,                \* how far parse_log has got
  lines,                \* the lines the head of the text was normalized to
  truncated_lines,      \* norm_stats["truncated_lines"]
  truncated_chars,      \* norm_stats["truncated_chars"]
  next,                 \* the registry's parser to try next
  raised,               \* the parsers that raised; parse_failures counts them
  selected,             \* selected_parser
  diagnostics,          \* the diagnostics, as far as they have been produced
  diagnostics_truncated,
  evidence_truncated,
  report                \* the FailureReport, or None

vars == <<content, limits, phase, lines, truncated_lines, truncated_chars, next, raised,
          selected, diagnostics, diagnostics_truncated, evidence_truncated, report>>

-----------------------------------------------------------------------------
(* The text and its slices: characters `from` to `to` of the content.       *)

Length(text) == 2 * Len(text.lines)

Breaks(text, from, to) ==
  {i \in 1..Len(text.lines) :
     2 * i \in from..to /\ (i < Len(text.lines) \/ text.newline)}

(* What line i of the text reads as when the slice cuts into it. *)
Fragment(text, i, from, to) ==
  IF from <= 2 * i - 1
  THEN IF 2 * i <= to THEN text.lines[i] ELSE Plain
  ELSE IF text.lines[i].kind = "quoted"
       THEN [kind |-> "exit", code |-> text.lines[i].code]
       ELSE Plain

(* Mutant: an unended line after the last break allowed slips through. *)
LineCut_late(text, from, to, cap) ==
  IF Cardinality(Breaks(text, from, to)) <= cap
  THEN to
  ELSE 2 * (CHOOSE i \in Breaks(text, from, to) :
              Cardinality({j \in Breaks(text, from, to) : j <= i}) = cap)

(* _bounded_splitlines: the line break that fills the cap ends the text. *)
LineCut(text, from, to, cap) ==
  IF Cardinality(Breaks(text, from, to)) < cap
  THEN to
  ELSE 2 * (CHOOSE i \in Breaks(text, from, to) :
              Cardinality({j \in Breaks(text, from, to) : j <= i}) = cap)

(* normalize: the character cap applies only where the line cap would not. *)
CharsCut(text, from, to, lim) ==
  /\ to - from + 1 > lim.max_total_chars
  /\ Cardinality(Breaks(text, from, from + lim.max_total_chars - 1)) < lim.max_total_lines

CharCut(text, from, to, lim) ==
  IF CharsCut(text, from, to, lim) THEN from + lim.max_total_chars - 1 ELSE to

LinesCut(text, from, to, lim) ==
  Cardinality(Breaks(text, from, CharCut(text, from, to, lim))) >= lim.max_total_lines

Normalized(text, from, to, lim) ==
  LET end   == LineCut(text, from, CharCut(text, from, to, lim), lim.max_total_lines)
      first == (from + 1) \div 2
      last  == (end + 1) \div 2
  IN  [k \in 1..last - first + 1 |-> Fragment(text, first + k - 1, from, end)]

TailOf(text) == IF Length(text) > TailChars THEN Length(text) - TailChars + 1 ELSE 1

NormalizedTail == Normalized(content, TailOf(content), Length(content), limits)

-----------------------------------------------------------------------------
(* What the parsers find. *)

Most(S) == CHOOSE x \in S : \A y \in S : y <= x

ExitLines(ls) == {n \in DOMAIN ls : ls[n].kind = "exit"}

(* Used by a mutant: the first marker counts. *)
ProcessFailure_first(ls, parser) ==
  IF ExitLines(ls) = {} THEN << >>
  ELSE LET n == CHOOSE n \in ExitLines(ls) : \A m \in ExitLines(ls) : n <= m
       IN  <<[parser |-> parser, code |-> ls[n].code, evidence |-> <<n>>]>>

(* find_process_failure: the last marker counts. *)
ProcessFailure(ls, parser) ==
  IF ExitLines(ls) = {} THEN << >>
  ELSE <<[parser |-> parser, code |-> ls[Most(ExitLines(ls))].code,
          evidence |-> <<Most(ExitLines(ls))>>]>>

FailureLines(ls, parser) == {n \in DOMAIN ls : ls[n].kind = parser}

Ascending(S) ==
  CHOOSE s \in [1..Cardinality(S) -> S] :
    /\ \A j, k \in DOMAIN s : j < k => s[j] < s[k]
    /\ \A x \in S : \E k \in DOMAIN s : s[k] = x

Block(ls, parser, first) ==
  [k \in 1..(IF first + BlockLines[parser] - 1 > Len(ls)
             THEN Len(ls) - first + 1 ELSE BlockLines[parser]) |-> first + k - 1]

Failures(ls, parser) ==
  LET first == Ascending(FailureLines(ls, parser))
  IN  [k \in DOMAIN first |->
         [parser |-> parser, code |-> None, evidence |-> Block(ls, parser, first[k])]]

(* A specialized parser puts the exit code last, the fallback puts it first. *)
Parsed(ls, parser) ==
  IF parser = Fallback
  THEN ProcessFailure(ls, parser) \o Failures(ls, parser)
  ELSE Failures(ls, parser) \o ProcessFailure(ls, parser)

IsExit(d) == d.code # None

HasExit(ds) == \E k \in DOMAIN ds : IsExit(ds[k])

-----------------------------------------------------------------------------

Diagnostic ==
  [parser : Parsers \cup {"pipeline"}, code : Nat \cup {None}, evidence : Seq(Nat)]

Report ==
  [diagnostics : Seq(Diagnostic), exit_code : Nat \cup {None},
   truncated : BOOLEAN, parse_failures : Nat, fatal : BOOLEAN]

ASSUME NoneAssumption == None \notin Nat \cup Report \cup {"specialized", Fallback}

TypeOK ==
  /\ content \in Log
  /\ limits \in ParseLimits
  /\ phase \in {"normalize", "registry", "cap", "rescue", "evidence", "report", "done"}
  /\ lines \in Seq(Line)
  /\ Len(lines) <= limits.max_total_lines
  /\ {truncated_lines, truncated_chars, diagnostics_truncated, evidence_truncated}
       \subseteq BOOLEAN
  /\ next \in 1..Len(Specialized) + 1
  /\ raised \subseteq Parsers
  /\ selected \in {"specialized", Fallback, None}
  /\ diagnostics \in Seq(Diagnostic)
  /\ report \in Report \cup {None}
  /\ report # None <=> phase = "done"

Init ==
  /\ content \in Logs
  /\ limits \in Limits
  /\ phase = "normalize"
  /\ lines = << >>
  /\ truncated_lines = FALSE
  /\ truncated_chars = FALSE
  /\ next = 1
  /\ raised = {}
  /\ selected = None
  /\ diagnostics = << >>
  /\ diagnostics_truncated = FALSE
  /\ evidence_truncated = FALSE
  /\ report = None

Normalize ==
  /\ phase = "normalize"
  /\ lines' = Normalized(content, 1, Length(content), limits)
  /\ truncated_chars' = CharsCut(content, 1, Length(content), limits)
  /\ truncated_lines' = LinesCut(content, 1, Length(content), limits)
  /\ phase' = "registry"
  /\ UNCHANGED <<content, limits, next, raised, selected, diagnostics,
                 diagnostics_truncated, evidence_truncated, report>>

registryUnchanged ==
  UNCHANGED <<content, limits, lines, truncated_lines, truncated_chars,
              diagnostics_truncated, evidence_truncated, report>>

(* A parser detects its tool by its failures, or by other traces of it. *)
ParserRuns ==
  /\ phase = "registry" /\ next <= Len(Specialized)
  /\ diagnostics' = diagnostics \o Parsed(lines, Specialized[next])
  /\ next' = next + 1
  /\ UNCHANGED <<phase, raised, selected>> /\ registryUnchanged

ParserDetectsNothing ==
  /\ phase = "registry" /\ next <= Len(Specialized)
  /\ FailureLines(lines, Specialized[next]) = {}
  /\ next' = next + 1
  /\ UNCHANGED <<phase, raised, selected, diagnostics>> /\ registryUnchanged

(* Mutant: a parser that raises takes the earlier ones' results with it. *)
ParserRaises_all ==
  /\ phase = "registry" /\ next <= Len(Specialized)
  /\ raised' = raised \cup {Specialized[next]}
  /\ next' = next + 1
  /\ diagnostics' = << >>
  /\ UNCHANGED <<phase, selected>> /\ registryUnchanged

ParserRaises ==
  /\ phase = "registry" /\ next <= Len(Specialized)
  /\ raised' = raised \cup {Specialized[next]}
  /\ next' = next + 1
  /\ UNCHANGED <<phase, selected, diagnostics>> /\ registryUnchanged

(* Mutant: that a specialized parser ran is enough to keep the fallback out. *)
SpecializedSuffice_ran ==
  /\ phase = "registry" /\ next > Len(Specialized)
  /\ selected' = "specialized"
  /\ phase' = "cap"
  /\ UNCHANGED <<next, raised, diagnostics>> /\ registryUnchanged

SpecializedSuffice ==
  /\ phase = "registry" /\ next > Len(Specialized)
  /\ diagnostics # << >>
  /\ selected' = "specialized"
  /\ phase' = "cap"
  /\ UNCHANGED <<next, raised, diagnostics>> /\ registryUnchanged

FallbackRuns ==
  /\ phase = "registry" /\ next > Len(Specialized)
  /\ diagnostics = << >>
  /\ diagnostics' = Parsed(lines, Fallback)
  /\ selected' = Fallback
  /\ phase' = "cap"
  /\ UNCHANGED <<next, raised>> /\ registryUnchanged

FallbackRaises ==
  /\ phase = "registry" /\ next > Len(Specialized)
  /\ diagnostics = << >>
  /\ raised' = raised \cup {Fallback}
  /\ phase' = "cap"
  /\ UNCHANGED <<next, selected, diagnostics>> /\ registryUnchanged

lateUnchanged ==
  UNCHANGED <<content, limits, lines, truncated_lines, truncated_chars, next, raised, selected>>

CapDiagnostics ==
  /\ phase = "cap"
  /\ diagnostics_truncated' = (Len(diagnostics) > limits.max_diagnostics)
  /\ diagnostics' = IF Len(diagnostics) > limits.max_diagnostics
                    THEN SubSeq(diagnostics, 1, limits.max_diagnostics) ELSE diagnostics
  /\ phase' = "rescue"
  /\ UNCHANGED <<evidence_truncated, report>> /\ lateUnchanged

(* Mutant: the rescue does not ask whether the head had an exit code. *)
NeedsRescue_always == truncated_lines

NeedsRescue == truncated_lines /\ ~HasExit(diagnostics)

(* Mutant: the first marker of the tail is rescued. *)
Rescued_first ==
  [k \in DOMAIN ProcessFailure_first(NormalizedTail, "pipeline") |->
     [ProcessFailure_first(NormalizedTail, "pipeline")[k] EXCEPT !.evidence = << >>]]

(* Mutant: the rescued exit code keeps the line number it has in the tail. *)
Rescued_withEvidence == ProcessFailure(NormalizedTail, "pipeline")

(* _rescue_tail_exit_code: the exit code at the tail, with no line claims. *)
Rescued ==
  [k \in DOMAIN ProcessFailure(NormalizedTail, "pipeline") |->
     [ProcessFailure(NormalizedTail, "pipeline")[k] EXCEPT !.evidence = << >>]]

RescueTail ==
  /\ phase = "rescue"
  /\ NeedsRescue
  /\ diagnostics' = diagnostics \o Rescued
  /\ phase' = "evidence"
  /\ UNCHANGED <<diagnostics_truncated, evidence_truncated, report>> /\ lateUnchanged

NoRescue ==
  /\ phase = "rescue"
  /\ ~NeedsRescue
  /\ phase' = "evidence"
  /\ UNCHANGED <<diagnostics, diagnostics_truncated, evidence_truncated, report>>
  /\ lateUnchanged

(* _cap_evidence: the first max_context_lines lines stay. *)
Capped(d) ==
  [d EXCEPT !.evidence = IF Len(@) > limits.max_context_lines
                         THEN SubSeq(@, 1, limits.max_context_lines) ELSE @]

CapEvidence ==
  /\ phase = "evidence"
  /\ evidence_truncated' = (\E k \in DOMAIN diagnostics :
                              Len(diagnostics[k].evidence) > limits.max_context_lines)
  /\ diagnostics' = [k \in DOMAIN diagnostics |-> Capped(diagnostics[k])]
  /\ phase' = "report"
  /\ UNCHANGED <<diagnostics_truncated, report>> /\ lateUnchanged

(* exit_code: the first diagnostic that has one. *)
ExitCode(ds) ==
  IF HasExit(ds)
  THEN ds[CHOOSE k \in DOMAIN ds : IsExit(ds[k]) /\ \A j \in 1..k - 1 : ~IsExit(ds[j])].code
  ELSE None

Truncated ==
  truncated_lines \/ truncated_chars \/ diagnostics_truncated \/ evidence_truncated

MakeReport ==
  /\ phase = "report"
  /\ report' = [diagnostics |-> diagnostics, exit_code |-> ExitCode(diagnostics),
                truncated |-> Truncated, parse_failures |-> Cardinality(raised),
                fatal |-> FALSE]
  /\ phase' = "done"
  /\ UNCHANGED <<diagnostics, diagnostics_truncated, evidence_truncated>> /\ lateUnchanged

(* _fatal_report: an exception anywhere else ends in a report of its own. *)
Fatal ==
  /\ phase # "done"
  /\ report' = [diagnostics |-> <<[parser |-> "pipeline", code |-> None, evidence |-> << >>]>>,
                exit_code |-> None, truncated |-> FALSE, parse_failures |-> 0,
                fatal |-> TRUE]
  /\ phase' = "done"
  /\ UNCHANGED <<diagnostics, diagnostics_truncated, evidence_truncated>> /\ lateUnchanged

(* _status of mcp/adapter.py: what the report is summed up as. *)
Status(r) ==
  IF r.fatal THEN "parser_error"
  ELSE IF r.diagnostics = << >> THEN "no_failures_found"
  ELSE "failures_found"

(* _build_excerpt there: the text is normalized once more, and the first of *)
(* the lines that the diagnostic stands on are read from it.                *)
ExcerptCap == IF limits.max_context_lines < 5 THEN limits.max_context_lines ELSE 5

Excerpt(d) ==
  LET again == Normalized(content, 1, Length(content), limits)
  IN  [k \in DOMAIN d.evidence \cap 1..ExcerptCap |->
         IF d.evidence[k] \in DOMAIN again THEN again[d.evidence[k]] ELSE None]

Returned == phase = "done" /\ UNCHANGED vars

Next ==
  \/ Normalize
  \/ ParserRuns \/ ParserDetectsNothing \/ ParserRaises
  \/ SpecializedSuffice \/ FallbackRuns \/ FallbackRaises
  \/ CapDiagnostics \/ RescueTail \/ NoRescue \/ CapEvidence
  \/ MakeReport \/ Fatal \/ Returned

Spec == Init /\ [][Next]_vars

-----------------------------------------------------------------------------
(* What the report promises. *)

Reported == report # None /\ ~report.fatal

(* The last exit code that lines show. *)
LastCode(ls) == IF ExitLines(ls) = {} THEN None ELSE ls[Most(ExitLines(ls))].code

(* A parser's marker, read in the head of the log, got into the report. *)
HeadTells ==
  \E k \in DOMAIN report.diagnostics :
    IsExit(report.diagnostics[k]) /\ report.diagnostics[k].parser \in Parsers

(* The log's last marker stands whole in the tail that the rescue reads,    *)
(* and the limits, which apply to the tail as well, do not cut it again.    *)
TailHoldsLast ==
  /\ 2 * Most(ExitLines(content.lines)) - 1 >= TailOf(content)
  /\ ~CharsCut(content, TailOf(content), Length(content), limits)
  /\ ~LinesCut(content, TailOf(content), Length(content), limits)

(* A report's exit code is the last one in the lines that were read; where  *)
(* they gave the report none and the log was cut at the line limit, it is   *)
(* the last one in the tail; and otherwise there is none.  A log's own last *)
(* exit code is therefore the report's, unless the log was cut by           *)
(* characters, for which there is no rescue; was cut by lines behind a      *)
(* marker that the head already gave, or with its last marker out of the    *)
(* rescue's reach; or was not cut and the cap on diagnostics fell on the    *)
(* marker, or every parser raised.                                          *)
ExitCodeSurvives ==
  Reported =>
    /\ report.exit_code = IF HeadTells THEN LastCode(lines)
                          ELSE IF truncated_lines THEN LastCode(NormalizedTail) ELSE None
    /\ ExitLines(lines) # {} /\ ~diagnostics_truncated /\ selected # None => HeadTells
    /\ ExitLines(content.lines) # {} =>
         \/ report.exit_code = LastCode(content.lines)
         \/ truncated_chars
         \/ truncated_lines /\ (HeadTells \/ ~TailHoldsLast)
         \/ ~truncated_lines /\ diagnostics_truncated
         \/ ~truncated_lines /\ selected = None /\ report.parse_failures > 0

(* However many parsers co-emit the exit code, and whether or not it was    *)
(* rescued, a report names one exit code: clustering can collapse them all. *)
OneExitCode ==
  Reported =>
    \A k, m \in DOMAIN report.diagnostics :
      LET d == report.diagnostics[k]
          e == report.diagnostics[m]
      IN  IsExit(d) /\ IsExit(e) =>
            d.code = e.code /\ (k # m => d.parser # e.parser /\ d.parser # "pipeline")

(* Line fidelity: a line a report cites is the line of the original log     *)
(* where that failure stands, whatever was cut, capped or rescued, and the  *)
(* excerpt that an agent is shown begins with that line.                    *)
LinesAreTheLogs ==
  Reported =>
    \A k \in DOMAIN report.diagnostics :
      LET d == report.diagnostics[k]
      IN  d.evidence # << >> =>
            /\ \A n \in DOMAIN d.evidence : d.evidence[n] \in 1..Len(content.lines)
            /\ LET cited == content.lines[Head(d.evidence)]
               IN  /\ Excerpt(d)[1] = cited
                   /\ IF IsExit(d) THEN cited.kind = "exit" /\ cited.code = d.code
                      ELSE cited.kind = d.parser

(* Nothing is lost in silence: a failure in the log that is not reported    *)
(* was cut off and the report says so, or its own parser raised and the     *)
(* report counts that -- another parser's exception costs it nothing -- or  *)
(* only the fallback knows it and a specialized parser spoke.               *)
NothingLostSilently ==
  Reported =>
    \A i \in DOMAIN content.lines :
      LET parser == content.lines[i].kind
      IN  parser \in Parsers =>
            \/ \E k \in DOMAIN report.diagnostics :
                 LET d == report.diagnostics[k]
                 IN  d.parser = parser /\ d.evidence # << >> /\ Head(d.evidence) = i
            \/ report.truncated
            \/ parser \in raised /\ report.parse_failures > 0
            \/ parser = Fallback /\ selected = "specialized"

(* The status an agent reads first: "no failures found", in a report that   *)
(* says neither that it is truncated nor that a parser failed, means that   *)
(* the log has no failure in it that any parser knows, and no exit code.    *)
CleanMeansClean ==
  /\ report # None
  /\ Status(report) = "no_failures_found"
  /\ report.parse_failures = 0 /\ ~report.truncated
  => \A i \in DOMAIN content.lines : content.lines[i].kind \in {"plain", "quoted"}

(* D5 of docs/plans/section-6-scale.md: the rescue cannot forge a marker,   *)
(* so the exit code it finds is one the job printed.                        *)
RescueForgesNothing ==
  Reported /\ report.exit_code # None =>
    \E i \in DOMAIN content.lines :
      content.lines[i].kind = "exit" /\ content.lines[i].code = report.exit_code

=============================================================================
