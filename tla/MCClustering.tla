---------------------------- MODULE MCClustering ----------------------------
(***************************************************************************)
(* build_clusters on what the parsers emit for a small log of 22 lines, in *)
(* registry order, each parser's exit code last: any set of the failures   *)
(* below, as far as the log goes, with the exit code read from the log, cut*)
(* off with it, or rescued from its tail.                                  *)
(***************************************************************************)
EXTENDS Clustering, SequencesExt

CONSTANT MaxCompilerErrors

TestA == [type |-> "test_failure", severity |-> "error", tool |-> "pytest", code |-> None,
          file |-> "tests/test_a.py", line |-> 5, column |-> None, test |-> "tests/test_a.py::t1",
          message |-> "assert 3 == 4", confidence |-> 90, evidence |-> <<2, 3>>,
          frames |-> {<<"tests/test_a.py", 5>>, <<"src/a.py", 9>>}, parser |-> "pytest"]

(* The same test, reported again at teardown; another test through the same *)
(* helper, with the same message at the same place; and a jest test.        *)
TestATeardown == [TestA EXCEPT !.line = 20, !.message = "fixture leaked", !.evidence = <<4, 5>>,
                               !.frames = {<<"tests/test_a.py", 20>>}]

TestB == [TestA EXCEPT !.test = "tests/test_a.py::t2", !.evidence = <<6, 7>>]

TestJ == [TestA EXCEPT !.tool = "jest", !.file = "src/a.test.ts", !.line = 7,
                       !.test = "src/a.test.ts::adds", !.evidence = <<8>>, !.frames = {},
                       !.parser = "js_test"]

Tests == <<TestA, TestATeardown, TestB, TestJ>>

(* tsc reports one error under a Windows path and under a posix path, and   *)
(* again at another line; GitHub echoes the first twice as annotations, the *)
(* path column taking the marker in; and tsc warns of the same file.        *)
Tsc == [type |-> "compiler_error", severity |-> "error", tool |-> "tsc", code |-> "TS2304",
        file |-> "src\\b.ts", line |-> 3, column |-> 1, test |-> None,
        message |-> "cannot find 'x'", confidence |-> 90, evidence |-> <<10>>,
        frames |-> {}, parser |-> "compiler"]

TscPosix == [Tsc EXCEPT !.file = "src/b.ts", !.message = "Cannot find 'x'", !.evidence = <<11>>]

TscElsewhere == [TscPosix EXCEPT !.line = 30, !.evidence = <<12>>]

TscEcho == [Tsc EXCEPT !.file = "##[error]src/b.ts", !.evidence = <<13>>]

TscEchoAgain == [TscEcho EXCEPT !.evidence = <<14>>]

TscWarning == [TscPosix EXCEPT !.severity = "warning", !.line = 9, !.message = "unused",
                               !.evidence = <<15>>]

(* eslint at the line of the tsc warning, and at the line of the jest test. *)
Lint == [TscWarning EXCEPT !.type = "lint_error", !.severity = "error", !.tool = "eslint",
                           !.code = "no-unused", !.message = "'y' is unused", !.evidence = <<16>>]

LintTest == [Lint EXCEPT !.file = "src/a.test.ts", !.line = 7, !.evidence = <<17>>]

Compiler == <<Tsc, TscPosix, TscElsewhere, TscEcho, TscEchoAgain, TscWarning, Lint, LintTest>>

ExitCode(parser) ==
  [type |-> "process_failure", severity |-> "error", tool |-> None, code |-> None,
   file |-> None, line |-> None, column |-> None, test |-> None,
   message |-> "process completed with exit code 1", confidence |-> 85,
   evidence |-> <<20>>, frames |-> {}, parser |-> parser]

Rescued == [ExitCode("pipeline") EXCEPT !.evidence = << >>]

(* The fallback parser's exit code comes first. *)
Generic == <<[ExitCode("generic") EXCEPT !.type = "unknown", !.file = "src/c.c", !.line = 3,
                !.message = "bad", !.evidence = <<15>>],
             [ExitCode("generic") EXCEPT !.type = "unknown", !.file = "src/c.c", !.line = 3,
                !.message = "worse", !.evidence = <<18>>]>>

(* Failures without a test that share a stack frame, and two exit codes:    *)
(* no parser emits them, but build_clusters' own tests do.                  *)
Crash == [TestA EXCEPT !.type = "exception", !.test = None, !.tool = None]

HandMade == <<Crash,
              [Crash EXCEPT !.file = "src/d.py", !.frames = {<<"src/a.py", 9>>}],
              ExitCode("generic"),
              [ExitCode("generic") EXCEPT !.message = "process completed with exit code 2"]>>

(* The emissions a sequence of failures allows: those of any subset.        *)
Pick(seq, S) == [k \in 1..Cardinality(S) |-> seq[SetToSortSeq(S, <)[k]]]

Picks(seq, max) ==
  {Pick(seq, S) : S \in {T \in SUBSET (1..Len(seq)) : Cardinality(T) <= max}}

If(condition, emission) == IF condition THEN emission ELSE << >>

SomeEmissions ==
  {t \o If(exit = "logged" /\ t # << >>, <<ExitCode("pytest")>>) \o c
     \o If(exit = "logged" /\ c # << >>, <<ExitCode("compiler")>>)
     \o If(exit = "rescued", <<Rescued>>) :
       t \in Picks(Tests, 3), c \in Picks(Compiler, MaxCompilerErrors),
       exit \in {"logged", "lost", "rescued"}}
  \cup {e \o g : e \in {<<ExitCode("generic")>>, << >>}, g \in Picks(Generic, 2)}
  \cup Picks(HandMade, 4)

Marked == {13, 14, 20}

Sections == [l \in 1..22 |-> IF l \in 2..8 THEN 0 ELSE IF l \in 10..17 THEN 1 ELSE None]

(* norm_path and normalize_message on the spellings above. *)
Path(p) == CASE p = None -> "" [] p = "src\\b.ts" -> "src/b.ts" [] OTHER -> p

Message(m) == CASE m = None -> "" [] m = "Cannot find 'x'" -> "cannot find 'x'" [] OTHER -> m

EmptyPath == ""

=============================================================================
