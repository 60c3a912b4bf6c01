---------------------------- MODULE PytestParser ----------------------------
(***************************************************************************)
(* parsing/parsers/pytest_parser.py: find the FAILURES and ERRORS blocks,  *)
(* split them at the headlines of the tests, and correlate each headline   *)
(* with a test id from the short summary or the progress lines.            *)
(*                                                                         *)
(* The two dictionaries of the parser are functions of the lines: their    *)
(* keys are in the order in which an id first occurs, and hold what its    *)
(* last occurrence says.                                                   *)
(***************************************************************************)
EXTENDS StackTrace

VARIABLES
  step,                 \* "blocks" while _find_blocks runs, then "chunks"
  i,                    \* the lines _find_blocks has read
  block_start,
  blocks,
  short_summary_start

blockVars == <<step, i, block_start, blocks, short_summary_start>>

pytestVars == <<blockVars, traceVars>>

PytestTypeOK ==
  /\ TraceTypeOK
  /\ step \in {"blocks", "chunks"}
  /\ i \in 0..Len(lines)
  /\ block_start \in 1..Len(lines) + 1 \cup {None}
  /\ blocks \in Seq([first : Nat, last : 0..Len(lines)])
  /\ short_summary_start \in 1..Len(lines) + 1 \cup {None}

PytestInit ==
  /\ NoTrace
  /\ step = "blocks"
  /\ i = 0
  /\ block_start = None
  /\ blocks = << >>
  /\ short_summary_start = None

-----------------------------------------------------------------------------
(* detect, _find_blocks.                                                     *)

PytestDetects ==
  \/ LinesOf({"session", "summary"}) \cup Commands({"pytest"}) # {}
  \/ \E n \in LinesOf({"block"}) : lines[n].word = "FAILURES"

PytestSkips ==
  /\ turn = "pytest" /\ ~PytestDetects
  /\ turn' = TurnAfter("pytest")
  /\ UNCHANGED <<lines, diagnostics, pytestVars>>

Scans(kinds) ==
  /\ turn = "pytest" /\ PytestDetects
  /\ step = "blocks"
  /\ i < Len(lines)
  /\ lines[i + 1].kind \in kinds
  /\ i' = i + 1
  /\ UNCHANGED <<lines, turn, diagnostics, step, traceVars>>

Banners == {"session", "block", "ruler", "summary"}

ClosedBy(n) ==
  IF block_start # None THEN Append(blocks, [first |-> block_start, last |-> n - 1]) ELSE blocks

ScanBlockStart ==
  /\ Scans({"block"})
  /\ blocks' = ClosedBy(i + 1)
  /\ block_start' = i + 2
  /\ UNCHANGED short_summary_start

ScanBanner ==
  /\ Scans(Banners \ {"block"})
  /\ blocks' = ClosedBy(i + 1)
  /\ block_start' = None
  /\ short_summary_start' = IF lines[i + 1].kind = "summary" /\ short_summary_start = None
                            THEN i + 2 ELSE short_summary_start

ScanLine ==
  /\ Scans(Kinds \ Banners)
  /\ UNCHANGED <<block_start, blocks, short_summary_start>>

(* Mutant: a block that the end of the log cuts short is forgotten. *)
EndBlocks_drop ==
  /\ turn = "pytest" /\ PytestDetects
  /\ step = "blocks" /\ i = Len(lines)
  /\ step' = "chunks"
  /\ UNCHANGED <<lines, turn, diagnostics, i, block_start, blocks, short_summary_start, traceVars>>

(* Mutant: one line too many. *)
EndBlocks_past ==
  /\ turn = "pytest" /\ PytestDetects
  /\ step = "blocks" /\ i = Len(lines)
  /\ step' = "chunks"
  /\ blocks' = ClosedBy(Len(lines) + 2)
  /\ UNCHANGED <<lines, turn, diagnostics, i, block_start, short_summary_start, traceVars>>

EndBlocks ==
  /\ turn = "pytest" /\ PytestDetects
  /\ step = "blocks" /\ i = Len(lines)
  /\ step' = "chunks"
  /\ blocks' = ClosedBy(Len(lines) + 1)
  /\ UNCHANGED <<lines, turn, diagnostics, i, block_start, short_summary_start, traceVars>>

-----------------------------------------------------------------------------
(* _split_failure_chunks: from one headline of a block to the next.          *)

BlockAt(n) == {k \in DOMAIN blocks : n \in blocks[k].first .. blocks[k].last}

Separators == {n \in LinesOf({"separator"}) : BlockAt(n) # {}}

ChunkFrom(n) ==
  LET later == {m \in Separators : m > n /\ BlockAt(m) = BlockAt(n)}
  IN  [first |-> n,
       last |-> IF later # {} THEN Min(later) - 1
                ELSE blocks[CHOOSE k \in BlockAt(n) : TRUE].last]

Unread == {n \in Separators : n > at}

-----------------------------------------------------------------------------
(* _build_diagnostic.                                                        *)

(* The name pytest puts into a headline: the parts of the id after the      *)
(* file, joined by dots; the file itself when it could not be collected.    *)
Headline(n) ==
  IF Len(lines[n].test) = 1 THEN lines[n].test ELSE Tail(lines[n].test)

(* The words around the name: none, "ERROR at setup of", "ERROR at teardown *)
(* of" or "ERROR collecting".                                               *)
Name(n) == IF lines[n].word = "call" THEN Headline(n) ELSE <<lines[n].word>> \o Headline(n)

(* Mutant: the name is matched with the words around it. *)
BareName_whole(n) == Name(n)

BareName(n) == Headline(n)

(* tid == bare or tid.endswith("::" + bare).  A name with a dot in it is the *)
(* end of no id.                                                            *)
Matches(test_id, bare) ==
  /\ Len(bare) = 1
  /\ test_id = bare \/ (Len(test_id) > 1 /\ test_id[Len(test_id)] = bare[1])

ShortSummary ==
  IF short_summary_start = None THEN {}
  ELSE {n \in LinesOf({"short"}) : n >= short_summary_start}

Progress == LinesOf({"progress"})

Matching(table, bare) == {n \in table : Matches(lines[n].test, bare)}

TestId(n) ==
  LET short == Matching(ShortSummary, BareName(n))
      run   == Matching(Progress, BareName(n))
  IN  IF short # {} THEN lines[Min(short)].test
      ELSE IF run # {} THEN lines[Min(run)].test
      ELSE Name(n)

Entries(table, test_id) == {n \in table : lines[n].test = test_id}

(* Mutant: the first outcome of a test stands. *)
ProgressLine_first(test_id) ==
  IF Entries(Progress, test_id) = {} THEN None ELSE Min(Entries(Progress, test_id))

ProgressLine(test_id) ==
  IF Entries(Progress, test_id) = {} THEN None ELSE Max(Entries(Progress, test_id))

Outcome(n) ==
  IF ProgressLine(TestId(n)) # None THEN lines[ProgressLine(TestId(n))].word
  ELSE IF lines[n].word = "call" THEN "failed" ELSE "error"

(* The summary's words, if its last line for the test has any. *)
ShortMessage(test_id) ==
  LET last == Max(Entries(ShortSummary, test_id))
  IN  IF Entries(ShortSummary, test_id) # {} /\ lines[last].word = "message"
      THEN last ELSE None

Built(n) ==
  [Found("pytest", "TEST_FAILURE", n) EXCEPT
     !.test_id = TestId(n),
     !.outcome = Outcome(n),
     !.message = IF ShortMessage(TestId(n)) # None THEN ShortMessage(TestId(n)) ELSE raised,
     !.exception = raised,
     !.located = PrimaryFrame(frames),
     !.file = PrimaryFrame(frames),
     !.evidence = (chunk.first .. chunk.last) \cup ({ProgressLine(TestId(n))} \ {None})]

OpenChunk ==
  /\ turn = "pytest" /\ step = "chunks"
  /\ chunk = None
  /\ Unread # {}
  /\ StartTrace(ChunkFrom(Min(Unread)))
  /\ UNCHANGED <<lines, turn, diagnostics, blockVars>>

ReadChunk ==
  /\ turn = "pytest"
  /\ ReadTrace
  /\ UNCHANGED <<lines, turn, diagnostics, blockVars>>

BuildDiagnostic ==
  /\ turn = "pytest"
  /\ TraceRead
  /\ diagnostics' = Append(diagnostics, Built(chunk.first))
  /\ chunk' = None
  /\ at' = chunk.last
  /\ frames' = {} /\ raised' = None /\ in_exception_run' = FALSE
  /\ UNCHANGED <<lines, turn, blockVars>>

PytestReturns ==
  /\ turn = "pytest" /\ step = "chunks"
  /\ chunk = None
  /\ Unread = {}
  /\ diagnostics' = diagnostics \o ProcessFailure("pytest")
  /\ turn' = TurnAfter("pytest")
  /\ UNCHANGED <<lines, pytestVars>>

PytestNext ==
  \/ PytestSkips \/ ScanBlockStart \/ ScanBanner \/ ScanLine \/ EndBlocks
  \/ OpenChunk \/ ReadChunk \/ BuildDiagnostic \/ PytestReturns

=============================================================================
