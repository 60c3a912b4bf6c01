---------------------------- MODULE JsTestParser ----------------------------
(***************************************************************************)
(* parsing/parsers/js_test_parser.py: one parser for jest and vitest.  A   *)
(* bullet begins the block of a failed test, which ends before the next    *)
(* bullet, the banner of a suite or the footer of the run; the suite of a  *)
(* test is the one whose banner was read last.                             *)
(***************************************************************************)
EXTENDS ParserLog

VARIABLES
  j,                    \* the lines read
  current_file,         \* the banner of the current suite, or None
  bullet                \* the bullet of the block being collected, or None

jsVars == <<j, current_file, bullet>>

JsTypeOK ==
  /\ j \in 0..Len(lines)
  /\ current_file \in DOMAIN lines \cup {None}
  /\ bullet \in 1..j \cup {None}

JsInit == j = 0 /\ current_file = None /\ bullet = None

(* A vitest run has a line of its own; a suite's banner is recognised when  *)
(* nothing follows the file's name.                                         *)
JsDetects ==
  /\ LinesOf({"bullet"}) # {}
  /\ LinesOf({"suite", "run"}) \cup Commands({"jest", "vitest"}) # {}

JsSkips ==
  /\ turn = "js_test" /\ ~JsDetects
  /\ turn' = TurnAfter("js_test")
  /\ UNCHANGED <<lines, diagnostics, jsVars>>

JsRuns == turn = "js_test" /\ JsDetects /\ UNCHANGED lines

Ahead(kinds) == j < Len(lines) /\ lines[j + 1].kind \in kinds

(* Mutant: the block of a test reaches into the next suite. *)
BlockEnds_bullets == {"bullet", "footer"}

BlockEnds == {"bullet", "suite", "footer"}

ReadSuite ==
  /\ JsRuns
  /\ bullet = None /\ Ahead({"suite"})
  /\ current_file' = j + 1
  /\ j' = j + 1
  /\ UNCHANGED <<turn, diagnostics, bullet>>

ReadBullet ==
  /\ JsRuns
  /\ bullet = None /\ Ahead({"bullet"})
  /\ bullet' = j + 1
  /\ j' = j + 1
  /\ UNCHANGED <<turn, diagnostics, current_file>>

(* What is neither the first line nor the end of a block. *)
Others == Kinds \ (IF bullet = None THEN BlockEnds \ {"footer"} ELSE BlockEnds)

(* Mutant: a footer outside of blocks is looked at again and again. *)
ReadJsLine_stays ==
  /\ JsRuns
  /\ Ahead(Others)
  /\ j' = IF Ahead({"footer"}) THEN j ELSE j + 1
  /\ UNCHANGED <<turn, diagnostics, current_file, bullet>>

(* A line outside of blocks, or a line of the block. *)
ReadJsLine ==
  /\ JsRuns
  /\ Ahead(Others)
  /\ j' = j + 1
  /\ UNCHANGED <<turn, diagnostics, current_file, bullet>>

JsFrames(block) == block \cap LinesOf({"jsFrame"})

(* The message is the first line with something on it that is not one of    *)
(* the two values compared.                                                 *)
JsMessage(block) ==
  LET worded == {n \in block \ {bullet} :
                   lines[n].kind # "blank" /\ lines[n].word \notin {"Expected:", "Received:"}}
  IN  IF worded = {} THEN None ELSE Min(worded)

JsBuilt(block) ==
  [Found("js_test", "TEST_FAILURE", bullet) EXCEPT
     !.suite = current_file,
     !.outcome = "failed",
     !.message = JsMessage(block),
     !.located = PrimaryFrame(JsFrames(block)),
     !.file = IF JsFrames(block) # {} THEN PrimaryFrame(JsFrames(block)) ELSE current_file,
     !.evidence = block]

(* The line that ends a block is read again, by the loop outside. *)
EndBlock ==
  /\ JsRuns
  /\ bullet # None
  /\ Ahead(BlockEnds) \/ j = Len(lines)
  /\ diagnostics' = Append(diagnostics, JsBuilt(bullet..j))
  /\ bullet' = None
  /\ UNCHANGED <<turn, j, current_file>>

JsReturns ==
  /\ JsRuns
  /\ bullet = None /\ j = Len(lines)
  /\ diagnostics' = diagnostics \o ProcessFailure("js_test")
  /\ turn' = TurnAfter("js_test")
  /\ UNCHANGED jsVars

JsNext == JsSkips \/ ReadSuite \/ ReadBullet \/ ReadJsLine \/ EndBlock \/ JsReturns

=============================================================================
