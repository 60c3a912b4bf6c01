------------------------- MODULE EagerSegmentation -------------------------
(***************************************************************************)
(* The specification build_sections is held to: the algorithm it replaced, *)
(* kept verbatim in tests/test_parsing_segmentation.py as the reference of *)
(* the differential test.  It reads the log one line at a time and rewrites*)
(* the end line of EVERY open section on every line, so at any moment the  *)
(* sections it has built are the right answer for the lines read so far.   *)
(*                                                                         *)
(* A log is the sequence of its lines' workflow markers; raw_lineno is the *)
(* index, because the normalizer numbers lines from 1 without gaps.        *)
(***************************************************************************)
EXTENDS Integers, Sequences

CONSTANT Logs           \* the logs given to build_sections

Marker == {"group", "endgroup", "other"}

NoSection == -1         \* Python's None, where a section id is expected

VARIABLES
  log,                  \* the markers of the lines
  pos,                  \* raw_lineno of the last line read, 0 before the first
  nextId,               \* next_id
  built,                \* section id -> [start, end, parent]
  stack,                \* open_stack: the ids of the open sections
  sectionOf             \* line number -> section_id, for the lines read

vars == <<log, pos, nextId, built, stack, sectionOf>>

Top == IF stack = << >> THEN NoSection ELSE stack[Len(stack)]

OpenIds == {stack[i] : i \in 1..Len(stack)}

(* The end line of every section in `ids` becomes the line being read. *)
Stretched(sections, ids) ==
  [k \in DOMAIN sections |->
     IF k \in ids THEN [sections[k] EXCEPT !.end = pos + 1] ELSE sections[k]]

Stamped(id) == [l \in 1..pos + 1 |-> IF l = pos + 1 THEN id ELSE sectionOf[l]]

NewSection == [start |-> pos + 1, end |-> pos + 1, parent |-> Top]

WithNewSection ==
  [k \in 0..nextId |-> IF k = nextId THEN NewSection ELSE built[k]]

Init ==
  /\ log \in Logs
  /\ pos = 0
  /\ nextId = 0
  /\ built = [k \in {} |-> 0]
  /\ stack = << >>
  /\ sectionOf = [l \in {} |-> 0]

ReadLine(m) ==
  /\ pos < Len(log)
  /\ log[pos + 1] = m
  /\ pos' = pos + 1
  /\ UNCHANGED log

OpenGroup ==
  /\ ReadLine("group")
  /\ built' = Stretched(WithNewSection, OpenIds)
  /\ stack' = Append(stack, nextId)
  /\ nextId' = nextId + 1
  /\ sectionOf' = Stamped(nextId)

CloseGroup ==
  /\ ReadLine("endgroup")
  /\ stack # << >>
  /\ built' = Stretched(built, OpenIds)
  /\ stack' = SubSeq(stack, 1, Len(stack) - 1)
  /\ sectionOf' = Stamped(Top)
  /\ UNCHANGED nextId

(* Ordinary content, and an ENDGROUP that closes nothing. *)
PlainLine ==
  /\ ReadLine("other") \/ (ReadLine("endgroup") /\ stack = << >>)
  /\ built' = Stretched(built, OpenIds)
  /\ sectionOf' = Stamped(Top)
  /\ UNCHANGED <<nextId, stack>>

Next == OpenGroup \/ CloseGroup \/ PlainLine

Spec == Init /\ [][Next]_vars

=============================================================================
