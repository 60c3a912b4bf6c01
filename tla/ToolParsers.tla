---------------------------- MODULE ToolParsers ----------------------------
(***************************************************************************)
(* _run_registry of parsing/pipeline.py with the parsers it runs: each     *)
(* specialized parser in its turn reads the whole log, and the fallback    *)
(* (parsers/generic_parser.py) speaks if none of them found anything.      *)
(* Parsers that raise are in module Pipeline.                              *)
(***************************************************************************)
EXTENDS PytestParser, JsTestParser, CompilerParser

vars == <<lines, turn, diagnostics, pytestVars, jsVars, compilerVars>>

TypeOK ==
  /\ lines \in Seq(Line)
  /\ turn \in {Registry[k] : k \in DOMAIN Registry} \cup {"done"}
  /\ diagnostics \in Seq(Diagnostic)
  /\ PytestTypeOK /\ JsTypeOK /\ CompilerTypeOK

Init ==
  /\ lines \in Logs
  /\ turn = TurnAfter("none")
  /\ diagnostics = << >>
  /\ PytestInit /\ JsInit /\ CompilerInit

GenericFailures ==
  [k \in DOMAIN Sorted(LinesOf({"fileError"})) |->
     LET n == Sorted(LinesOf({"fileError"}))[k]
     IN  [Found("generic", "UNKNOWN", n) EXCEPT !.message = n, !.file = n]]

Fallback ==
  /\ turn = "generic"
  /\ diagnostics = << >>
  /\ diagnostics' = ProcessFailure("generic") \o GenericFailures
  /\ turn' = TurnAfter("generic")
  /\ UNCHANGED <<lines, pytestVars, jsVars, compilerVars>>

NoFallback ==
  /\ turn = "generic"
  /\ diagnostics # << >>
  /\ turn' = TurnAfter("generic")
  /\ UNCHANGED <<lines, diagnostics, pytestVars, jsVars, compilerVars>>

Returned == turn = "done" /\ UNCHANGED vars

Next ==
  \/ PytestNext /\ UNCHANGED <<jsVars, compilerVars>>
  \/ JsNext /\ UNCHANGED <<pytestVars, compilerVars>>
  \/ CompilerNext /\ UNCHANGED <<pytestVars, jsVars>>
  \/ Fallback \/ NoFallback \/ Returned

Spec == Init /\ [][Next]_vars

(* A function that is called goes on until it returns. *)
FairSpec == Spec /\ WF_vars(Next)

-----------------------------------------------------------------------------
(* What the parsers promise about what the tools printed.                    *)

Reports(type, parser) ==
  {k \in DOMAIN diagnostics : diagnostics[k].type = type /\ diagnostics[k].parser = parser}

PytestFailures == Reports("TEST_FAILURE", "pytest")

StartingAt(n, reports) == {k \in reports : diagnostics[k].start = n}

(* The lines printed for the failure that begins at line n. *)
OwnLines(n) == {m \in n..Len(lines) : \A k \in n..m : k = n \/ lines[k].whose = n}

(* Those up to a line that looks like a banner. *)
UpToRuler(n) == {m \in OwnLines(n) : \A k \in n..m : lines[k].kind # "ruler"}

RulerBefore(n) ==
  \E r \in LinesOf({"ruler"}) :
    r < n /\ ~\E m \in LinesOf({"block"}) : r < m /\ m < n

(* pytest_parser.py:3-5, one diagnostic per failed test: every failure that *)
(* pytest printed yields exactly one diagnostic, which stands on exactly    *)
(* the lines printed for it -- up to a line of its output that looks like a *)
(* banner, and unless one in the output of an earlier failure closed the    *)
(* block.                                                                   *)
LostOnlyToRulers ==
  turn = "done" /\ PytestDetects =>
    \A n \in LinesOf({"separator"}) :
      LET reports == StartingAt(n, PytestFailures)
      IN  IF RulerBefore(n) THEN reports = {}
          ELSE /\ Cardinality(reports) = 1
               /\ \A k \in reports : diagnostics[k].evidence \ Progress = UpToRuler(n)

(* The tests the log names whose name is that of the failure at line n. *)
Namesakes(n) ==
  {t \in {lines[m].test : m \in LinesOf({"progress", "short", "separator"})} :
     t[Len(t)] = lines[n].test[Len(lines[n].test)]}

(* A function's failure is given the id of its test, whatever words the     *)
(* headline has around the name, if the log gives the id and no other test  *)
(* in it has the same name (pytest_parser.py:200-210).                      *)
IdIsTheTests ==
  \A k \in PytestFailures :
    LET n == diagnostics[k].start
    IN  /\ Namesakes(n) = {lines[n].test}
        /\ Len(lines[n].test) <= 2
        /\ \E m \in Progress \cup ShortSummary : lines[m].test = lines[n].test
        => diagnostics[k].test_id = lines[n].test

(* What is told of a failure is its own story.  A failure of a phase other  *)
(* than the call is an error (pytest_parser.py:212-216), and none is told   *)
(* as a test that passed, though its run says so of the call before the     *)
(* teardown: this holds where the log has one run of pytest that tells of   *)
(* the test.  With several (a retry, tox) the last progress line of the log *)
(* counts (pytest_parser.py:117), so that the outcome may be that of        *)
(* another run, a pass too, but it is then what that run's line says.  The  *)
(* words are those of a summary line for this test or of its own traceback. *)
StoryIsItsOwn ==
  \A k \in PytestFailures :
    LET d    == diagnostics[k]
        n    == d.start
        told == {m \in Progress : lines[m].test = lines[n].test}
    IN  Namesakes(n) = {lines[n].test} =>
          /\ \/ d.outcome = "error"
             \/ d.outcome = "failed" /\ lines[n].word = "call"
             \/ told # {} /\ Max(told) \notin Session(lines, n) /\ d.outcome = lines[Max(told)].word
          /\ d.message # None =>
               \/ lines[d.message].kind = "short" /\ lines[d.message].test = lines[n].test
               \/ lines[d.message].kind = "E" /\ d.message \in OwnLines(n)

(* The first lines of the exceptions in the failure at line n.               *)
Raised(n) == {m \in UpToRuler(n) : lines[m].kind = "E" /\ lines[m].word = "raised"}

(* stacktrace.py:86-91: of a chain of exceptions the one reported is the    *)
(* last one raised.                                                         *)
LastRaised ==
  \A k \in PytestFailures :
    LET d == diagnostics[k]
    IN  IF Raised(d.start) = {} THEN d.exception = None
        ELSE /\ d.exception \in UpToRuler(d.start)
             /\ d.exception >= Max(Raised(d.start))

(* stacktrace.py:34-36 and 87-91: what is reported is the exception, not a  *)
(* continuation of it.                                                      *)
HeaderIsReported ==
  \A k \in PytestFailures :
    LET d == diagnostics[k]
    IN  Raised(d.start) # {} => d.exception = Max(Raised(d.start))

(* stacktrace.py:134-141: a failure whose traceback passes through the      *)
(* project is located there, and in the traceback of the last exception if  *)
(* that one does -- unless a captured line of output reads as a frame.      *)
LocatedInProject ==
  \A k \in PytestFailures :
    LET d         == diagnostics[k]
        framesOf  == {m \in UpToRuler(d.start) : lines[m].kind = "frame"}
        project   == {m \in framesOf : lines[m].word = "project"}
        earlier   == Raised(d.start) \ {d.exception}
        last      == {m \in project : \A e \in earlier : m > e}
    IN  (\A m \in framesOf : lines[m].word # "captured") =>
          /\ d.located = None <=> framesOf = {}
          /\ project # {} => d.located \in (IF last # {} THEN last ELSE project)
          /\ \A m \in last : m <= d.located

(* Every failed test of jest or vitest yields one diagnostic, under the     *)
(* suite that printed it and on its own lines, except where the banner of a *)
(* slow suite, which carries a duration, is not recognised.                 *)
JsTestsKeepTheirLines ==
  turn = "done" /\ JsDetects =>
    \A n \in LinesOf({"bullet"}) :
      LET reports == StartingAt(n, Reports("TEST_FAILURE", "js_test"))
          banner  == lines[n].whose
          own     == OwnLines(n)
      IN  /\ Cardinality(reports) = 1
          /\ \A k \in reports :
               LET d == diagnostics[k]
               IN  /\ own \subseteq d.evidence
                   /\ d.evidence \cap LinesOf({"slowSuite"}) = {} => d.evidence = own
                   /\ \/ banner = 0 /\ d.suite = None
                      \/ banner # 0 /\ d.suite = banner
                      \/ banner # 0 /\ lines[banner].kind = "slowSuite"

(* Every row that eslint printed under a path yields one diagnostic for     *)
(* that file, and no row yields one for a path that a blank line separates  *)
(* it from.                                                                 *)
RowsUnderTheirFile ==
  turn = "done" /\ CompilerDetects =>
    \A n \in LinesOf({"row"}) :
      LET reports == StartingAt(n, Reports("LINT_ERROR", "compiler"))
      IN  /\ lines[n].whose # 0 =>
               Cardinality(reports) = 1 /\ \A k \in reports : diagnostics[k].file = lines[n].whose
          /\ \A k \in reports : \A m \in diagnostics[k].file..n : lines[m].kind # "blank"

(* Clustering relies on it: a cluster that a compiler's error opened would  *)
(* take in two tests, so failed tests come first, however the log mixes the *)
(* tools (module Clustering, TestIsUnitOfFailure).                          *)
TestsComeFirst ==
  \A k, m \in DOMAIN diagnostics :
    /\ diagnostics[k].type = "TEST_FAILURE"
    /\ diagnostics[m].type \in {"COMPILER_ERROR", "LINT_ERROR"}
    => k < m

(* js_test_parser.py:59-74 and 92-97 move an index by hand, in two loops of *)
(* which the inner one stops at lines the outer one reads again, and the    *)
(* chunks of a block are found from one another: every log is read to its   *)
(* end by every parser.                                                     *)
ParsingEnds == <>(turn = "done")

(* The rule that two failing tests never share a cluster takes their ids    *)
(* for different ones (docs/plans/section-5-correlation.md:148-151).        *)
TwoTestsTwoIds ==
  \A k, m \in PytestFailures :
    lines[diagnostics[k].start].test # lines[diagnostics[m].start].test =>
      diagnostics[k].test_id # diagnostics[m].test_id

=============================================================================
