---------------------------- MODULE Segmentation ----------------------------
(***************************************************************************)
(* parsing/segmentation.py: build_sections, which gives every log line the *)
(* id of the workflow group it stands in and builds the tree of groups.    *)
(* One action per kind of line the loop meets, and one for the assignment  *)
(* after the loop that ends the sections still open at the end of the log. *)
(*                                                                         *)
(* Clustering reads section_id from the first evidence line of a failure,  *)
(* so a wrong span or a wrong stamp puts a failure in the wrong CI step.   *)
(* Titles and kinds are left out: the code copies them from the line.      *)
(***************************************************************************)
EXTENDS Integers, Sequences, FiniteSets

CONSTANT Logs           \* the logs given to build_sections

Marker == {"group", "endgroup", "other"}

ASSUME LogsAssumption == Logs \subseteq Seq(Marker)

NoSection == -1         \* Python's None, where a section id is expected

VARIABLES
  log,                  \* the markers of the lines; raw_lineno is the index
  pos,                  \* last_lineno
  nextId,               \* next_id
  built,                \* section id -> [start, end, parent]
  stack,                \* open_stack
  sectionOf,            \* line number -> section_id, for the lines read
  finished              \* the assignment after the loop has been made

vars == <<log, pos, nextId, built, stack, sectionOf, finished>>

Ids == 0..nextId - 1

Section == [start : Nat, end : Nat, parent : Int]

TypeOK ==
  /\ log \in Seq(Marker)
  /\ pos \in 0..Len(log)
  /\ nextId \in Nat
  /\ built \in [Ids -> Section]
  /\ stack \in Seq(Ids)
  /\ sectionOf \in [1..pos -> Ids \cup {NoSection}]
  /\ finished \in BOOLEAN

-----------------------------------------------------------------------------

Top == IF stack = << >> THEN NoSection ELSE stack[Len(stack)]

OpenIds == {stack[i] : i \in 1..Len(stack)}

Stamped(id) == [l \in 1..pos + 1 |-> IF l = pos + 1 THEN id ELSE sectionOf[l]]

Init ==
  /\ log \in Logs
  /\ pos = 0
  /\ nextId = 0
  /\ built = [k \in {} |-> 0]
  /\ stack = << >>
  /\ sectionOf = [l \in {} |-> 0]
  /\ finished = FALSE

ReadLine(m) ==
  /\ pos < Len(log)
  /\ log[pos + 1] = m
  /\ pos' = pos + 1
  /\ UNCHANGED <<log, finished>>

(* Mutant: every section hangs off the top level. *)
NewSection_orphan == [start |-> pos + 1, end |-> pos + 1, parent |-> NoSection]

NewSection == [start |-> pos + 1, end |-> pos + 1, parent |-> Top]

(* Mutant: next_id is not advanced, so the next section takes the same id. *)
OpenGroup_sameId ==
  /\ ReadLine("group")
  /\ built' = [k \in 0..nextId |-> IF k = nextId THEN NewSection ELSE built[k]]
  /\ stack' = Append(stack, nextId)
  /\ sectionOf' = Stamped(nextId)
  /\ UNCHANGED nextId

OpenGroup ==
  /\ ReadLine("group")
  /\ built' = [k \in 0..nextId |-> IF k = nextId THEN NewSection ELSE built[k]]
  /\ stack' = Append(stack, nextId)
  /\ nextId' = nextId + 1
  /\ sectionOf' = Stamped(nextId)

(* Mutant: ENDGROUP pops the section and forgets to end it. *)
CloseGroup_unended ==
  /\ ReadLine("endgroup")
  /\ stack # << >>
  /\ stack' = SubSeq(stack, 1, Len(stack) - 1)
  /\ sectionOf' = Stamped(Top)
  /\ UNCHANGED <<nextId, built>>

(* Mutant: ENDGROUP closes the outermost open section. *)
CloseGroup_outermost ==
  /\ ReadLine("endgroup")
  /\ stack # << >>
  /\ built' = [built EXCEPT ![Head(stack)].end = pos + 1]
  /\ stack' = Tail(stack)
  /\ sectionOf' = Stamped(Head(stack))
  /\ UNCHANGED nextId

CloseGroup ==
  /\ ReadLine("endgroup")
  /\ stack # << >>
  /\ built' = [built EXCEPT ![Top].end = pos + 1]
  /\ stack' = SubSeq(stack, 1, Len(stack) - 1)
  /\ sectionOf' = Stamped(Top)
  /\ UNCHANGED nextId

(* Ordinary content, and an ENDGROUP that closes nothing. *)
PlainLine ==
  /\ ReadLine("other") \/ (ReadLine("endgroup") /\ stack = << >>)
  /\ sectionOf' = Stamped(Top)
  /\ UNCHANGED <<nextId, built, stack>>

(* Mutant: only the innermost open section is ended at the end of the log. *)
Finish_innermost ==
  /\ ~finished
  /\ pos = Len(log)
  /\ built' = [k \in Ids |->
                 IF k = Top THEN [built[k] EXCEPT !.end = pos] ELSE built[k]]
  /\ finished' = TRUE
  /\ UNCHANGED <<log, pos, nextId, stack, sectionOf>>

Finish ==
  /\ ~finished
  /\ pos = Len(log)
  /\ built' = [k \in Ids |->
                 IF k \in OpenIds THEN [built[k] EXCEPT !.end = pos] ELSE built[k]]
  /\ finished' = TRUE
  /\ UNCHANGED <<log, pos, nextId, stack, sectionOf>>

Next == OpenGroup \/ CloseGroup \/ PlainLine \/ Finish

Spec == Init /\ [][Next]_vars

-----------------------------------------------------------------------------
(* What the result promises. *)

Contains(s, l) == built[s].start <= l /\ l <= built[s].end

Count(m, i, j) == Cardinality({k \in i..j : log[k] = m})

(* The line that ends the group opened at line i: the first one by which   *)
(* as many groups were closed as opened since i, or the last line.         *)
MatchingLine(i) ==
  LET balanced == {j \in i..Len(log) : Count("group", i, j) = Count("endgroup", i, j)}
  IN  IF balanced = {} THEN Len(log)
      ELSE CHOOSE j \in balanced : \A k \in balanced : j <= k

(* build_sections pairs GROUP and ENDGROUP markers as brackets: there is   *)
(* one section per GROUP line, in line order, and it ends at the bracket   *)
(* that matches it, or at the end of the log if none does.                 *)
SpansMatchBrackets ==
  finished =>
    /\ {built[s].start : s \in Ids} = {l \in 1..Len(log) : log[l] = "group"}
    /\ \A s, t \in Ids : s < t => built[s].start < built[t].start
    /\ \A s \in Ids : built[s].end = MatchingLine(built[s].start)

(* Whatever the markers, the spans build_sections returns are a tree: two  *)
(* sections are disjoint or the later one is inside the earlier.           *)
SpansNest ==
  finished =>
    \A s, t \in Ids : s < t =>
      \/ built[s].end < built[t].start
      \/ built[t].end <= built[s].end

(* parent_id names the innermost section around a section's first line,    *)
(* though it is set before the span of that section is known.              *)
ParentIsInnermost ==
  finished =>
    \A s \in Ids :
      LET around == {t \in Ids : t < s /\ Contains(t, built[s].start)}
      IN  IF around = {} THEN built[s].parent = NoSection
          ELSE /\ built[s].parent \in around
               /\ \A t \in around : t <= built[s].parent

(* The section_id stamped on a line is the innermost section whose final   *)
(* span holds the line, and None exactly for a line in no section -- even  *)
(* though lines are stamped before any span is known.                      *)
StampIsInnermost ==
  finished =>
    \A l \in 1..Len(log) :
      LET holding == {s \in Ids : Contains(s, l)}
      IN  IF holding = {} THEN sectionOf[l] = NoSection
          ELSE /\ sectionOf[l] \in holding
               /\ \A s \in holding : s <= sectionOf[l]

-----------------------------------------------------------------------------
(* Refinement of the reference algorithm: what its sections would be now.  *)

CurrentEnd(s) == IF s \in OpenIds THEN pos ELSE built[s].end

EagerBuilt == [s \in Ids |-> [built[s] EXCEPT !.end = CurrentEnd(s)]]

Eager == INSTANCE EagerSegmentation WITH built <- EagerBuilt

(* The linear build_sections implements the reference algorithm the        *)
(* differential test keeps: it stamps the same section on every line, and  *)
(* its sections, once finished, are the reference's.                       *)
ImplementsReference == Eager!Spec /\ [](finished => built = EagerBuilt)

=============================================================================
