----------------------------- MODULE ParserLog -----------------------------
(***************************************************************************)
(* What the tool parsers share: the normalized lines they read, the list   *)
(* of diagnostics they add to, and the order in which the registry         *)
(* (parsing/parsers/__init__.py) lets them run.                            *)
(*                                                                         *)
(* A line is what the expressions of the parsers see in it: its kind, the  *)
(* id of the test it names, and one more word.  A value that a parser      *)
(* copies out of a line is the number of that line.                        *)
(***************************************************************************)
EXTENDS Integers, Sequences, FiniteSets, FiniteSetsExt

CONSTANTS
  Logs,                 \* the sequences of lines the parsers are given
  Ids,                  \* test ids: the parts that "::" joins, a file first
  None                  \* Python's None

Kinds ==
  {"session", "progress", "block", "ruler", "summary", "separator", "short",  \* pytest
   "frame", "E", "blankE",                                    \* its tracebacks
   "suite", "slowSuite", "bullet", "jsFrame", "footer", "run",   \* jest, vitest
   "tsc", "path", "row", "problems",                             \* tsc, eslint
   "fileError",                                                  \* the fallback
   "blank", "text", "indented", "command", "exit"}

(* `whose` is not in the text.  It is the line that begins the failure or    *)
(* the file for which the tool printed this line, 0 if there is none: the   *)
(* properties compare with it what the parsers, which never read it, make   *)
(* of the lines.                                                            *)
Line == [kind : Kinds, test : Ids \cup {None}, word : STRING, whose : Nat]

(* What a progress line says of a test. *)
Outcomes == {"passed", "failed", "error", "skipped", "xfailed", "xpassed"}

(* The expressions for these lines match only where a name stands. *)
ASSUME LogsAssumption ==
  /\ Ids \subseteq Seq(STRING) \ {<< >>}
  /\ Logs \subseteq Seq(Line)
  /\ \A log \in Logs : \A n \in DOMAIN log :
       /\ log[n].kind \in {"progress", "separator", "short"} => log[n].test # None
       /\ log[n].kind = "progress" => log[n].word \in Outcomes

(* The lines that the tool printed for what begins at line n, and the next.  *)
Own(log, n) == {m \in n + 1..Len(log) : \A k \in n + 1..m : log[k].whose = n}

After(log, n) == {m \in n + 1..Len(log) : m \notin Own(log, n) /\ n + 1..m - 1 \subseteq Own(log, n)}

(* The lines of the run of pytest that printed line n: those from the       *)
(* banner of its session on, and before that of the next.                   *)
Session(log, n) ==
  {m \in DOMAIN log :
     \A k \in DOMAIN log : log[k].kind = "session" => (k <= m <=> k <= n)}

(* What pytest prints for a failure, from its headline on: under the title  *)
(* of a block, and up to another headline or banner; of its exceptions,     *)
(* each on a new line of its own, the first line before the others.  Output *)
(* of the test is among these lines: what looks like a frame or a plain     *)
(* banner is provided for, what looks like a headline or a title is not.    *)
(* The last progress line that the same run of pytest printed for the test  *)
(* tells of the failure; another run in the log may say anything of it.     *)
PytestPrints(log, n) ==
  /\ \E m \in 1..n - 1 :
       log[m].kind = "block" /\ \A k \in m..n : log[k].kind \notin {"session", "summary"}
  /\ \A m \in Own(log, n) :
       /\ log[m].kind \notin {"separator", "block", "session", "summary", "progress"}
       /\ log[m].kind = "frame" => log[m].word \in {"project", "dependency", "captured"}
       /\ log[m].kind = "E" =>
            IF log[m].word = "raised" THEN log[m - 1].kind # "E"
            ELSE \E k \in n + 1..m - 1 : log[k].kind = "E" /\ log[k].word = "raised"
  /\ \A m \in After(log, n) : log[m].kind \in {"separator", "block", "session", "summary"}
  /\ LET told == {m \in Session(log, n) : log[m].kind = "progress" /\ log[m].test = log[n].test}
     IN  \A m \in told : (\A k \in told : k <= m) =>
           log[m].word \in (IF log[n].word = "call" THEN {"failed", "error"} ELSE {"error"})

(* What jest prints for a failed test, from its bullet on: below the banner *)
(* of its suite if there is one, and up to another bullet, another suite or *)
(* the footer.                                                              *)
JestPrints(log, n) ==
  LET banner == log[n].whose
  IN  /\ banner # 0 => banner < n /\ log[banner].kind \in {"suite", "slowSuite"}
      /\ \A m \in banner + 1..n - 1 : log[m].kind \notin {"suite", "slowSuite"}
      /\ \A m \in Own(log, n) : log[m].kind \notin {"bullet", "suite", "slowSuite", "footer"}
      /\ \A m \in After(log, n) : log[m].kind \in {"bullet", "suite", "slowSuite", "footer"}

(* What eslint prints for a file, up to one of its rows. *)
EslintPrints(log, n) ==
  log[n].whose # 0 =>
    /\ log[n].whose < n /\ log[log[n].whose].kind = "path"
    /\ \A m \in log[n].whose + 1..n - 1 : log[m].kind = "row"

(* What `whose` means: an assumption on the tools, which the parsers' own   *)
(* claims are about, and not on what else is in the log.                    *)
ASSUME PrintedAssumption ==
  \A log \in Logs : \A n \in DOMAIN log :
    /\ log[n].kind = "separator" => PytestPrints(log, n)
    /\ log[n].kind = "bullet" => JestPrints(log, n)
    /\ log[n].kind = "row" => EslintPrints(log, n)

ASSUME NoneAssumption == None \notin Nat \cup Seq(STRING) \cup [first : Nat, last : Nat]

VARIABLES
  lines,                \* the log
  turn,                 \* the parser whose turn it is in the registry
  diagnostics           \* what the parsers have produced

Registry == <<"pytest", "js_test", "compiler", "generic">>

(* Mutant: the compilers' parser before those of the test runners. *)
TurnAfter_compilerFirst(parser) ==
  [none |-> "compiler", compiler |-> "pytest", pytest |-> "js_test", js_test |-> "generic",
   generic |-> "done"][parser]

TurnAfter(parser) ==
  [none |-> "pytest", pytest |-> "js_test", js_test |-> "compiler", compiler |-> "generic",
   generic |-> "done"][parser]

LinesOf(kinds) == {n \in DOMAIN lines : lines[n].kind \in kinds}

Commands(tools) == {n \in LinesOf({"command"}) : lines[n].word \in tools}

-----------------------------------------------------------------------------
Numbers == Nat \cup {None}

Diagnostic ==
  [parser : {Registry[k] : k \in DOMAIN Registry},
   type : {"TEST_FAILURE", "COMPILER_ERROR", "LINT_ERROR", "PROCESS_FAILURE",
           "UNKNOWN"},
   start : Nat,                             \* the first line it stands on
   test_id : Seq(STRING) \cup {None},      \* pytest's; jest's is the suite
   suite : Numbers,                         \* and the bullet, where it starts
   outcome : Outcomes \cup {None},
   message : Numbers, exception : Numbers,  \* the line with the words
   located : Numbers,                       \* the line of the primary frame
   file : Numbers,                          \* the line that names the file
   evidence : SUBSET Nat]

(* A diagnostic of which only the first line is known. *)
Found(parser, type, start) ==
  [parser |-> parser, type |-> type, start |-> start, test_id |-> None, suite |-> None,
   outcome |-> None, message |-> None, exception |-> None, located |-> None,
   file |-> None, evidence |-> {start}]

(* find_process_failure: the last exit marker, which each parser co-emits. *)
ProcessFailure(parser) ==
  IF LinesOf({"exit"}) = {} THEN << >>
  ELSE <<Found(parser, "PROCESS_FAILURE", Max(LinesOf({"exit"})))>>

InProject(n) == lines[n].word # "dependency"

(* Mutant: the outermost frame of the project. *)
PrimaryFrame_first(frames) ==
  IF \E n \in frames : InProject(n) THEN Min({n \in frames : InProject(n)})
  ELSE IF frames # {} THEN Max(frames) ELSE None

(* primary_frame: the last frame of the project, or else the last frame. *)
PrimaryFrame(frames) ==
  IF \E n \in frames : InProject(n) THEN Max({n \in frames : InProject(n)})
  ELSE IF frames # {} THEN Max(frames) ELSE None

=============================================================================
