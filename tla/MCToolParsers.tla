--------------------------- MODULE MCToolParsers ----------------------------
(* Logs as pytest, jest, tsc and eslint print them: what is printed is built *)
(* here from what failed, and each line remembers for what it was printed.  *)
EXTENDS ToolParsers, SequencesExt

CONSTANTS
  MaxTrace,             \* lines of a traceback
  MaxSuites,            \* lines of a jest run
  MaxCompiled           \* lines of a tsc and eslint run

Raw(kind, test, word) == [kind |-> kind, test |-> test, word |-> word, whose |-> 0]

Bare(kind) == Raw(kind, None, "")

Worded(kind, word) == Raw(kind, None, word)

LastBefore(s, n, kinds) ==
  IF \E m \in 1..n - 1 : s[m].kind \in kinds
  THEN Max({m \in 1..n - 1 : s[m].kind \in kinds}) ELSE 0

FailureEnds ==
  {"session", "progress", "block", "summary", "short", "suite", "slowSuite", "footer",
   "exit", "tsc", "path", "row", "problems"}

(* A row belongs to a path with rows only in between, a bullet to the suite  *)
(* before it, any other line to the failure that is being told.              *)
Whose(s, n) ==
  LET opened == LastBefore(s, n, FailureEnds \cup {"separator", "bullet"})
      path   == LastBefore(s, n, Kinds \ {"row"})
  IN  CASE s[n].kind = "row"    -> IF path # 0 /\ s[path].kind = "path" THEN path ELSE 0
        [] s[n].kind = "bullet" -> LastBefore(s, n, {"suite", "slowSuite"})
        [] s[n].kind \in FailureEnds \cup {"separator"} -> 0
        [] OTHER -> IF opened # 0 /\ s[opened].kind \in {"separator", "bullet"}
                    THEN opened ELSE 0

Printed(s) == [n \in DOMAIN s |-> [s[n] EXCEPT !.whose = Whose(s, n)]]

UpTo(S, max) == UNION {[1..k -> S] : k \in 0..max}

-----------------------------------------------------------------------------
(* pytest: the same name in two files, and as a method.                      *)

A == <<"a.py", "t">>
B == <<"b.py", "t">>
C == <<"a.py", "u">>
Method == <<"a.py", "K", "t">>
Uncollected == <<"c.py">>

TestIds == {A, B, C, Method, Uncollected}

Failure(test, phase) == [test |-> test, phase |-> phase]

Calls == {Failure(t, "call") : t \in {A, B, C, Method}}

Errors == {Failure(A, "teardown"), Failure(B, "setup"), Failure(Uncollected, "collecting")}

CallLists == {s \in UpTo(Calls, 2) : Len(s) = 2 => s[1] # s[2]}

ErrorLists == UpTo(Errors, 1)

Plain == <<Worded("frame", "project"), Worded("E", "raised"), Worded("E", "rest")>>

Ruled == <<Worded("frame", "dependency"), Worded("E", "raised"), Bare("ruler"), Bare("text")>>

Garbled == <<Bare("text")>>

ProgressOf(f, calls) ==
  LET line(outcome) == Raw("progress", f.test, outcome)
  IN  CASE f.phase = "call"       -> <<line("failed")>>
        [] f.phase = "setup"      -> <<line("error")>>
        [] f.phase = "collecting" -> << >>
        [] f.phase = "teardown"   ->
             IF \E k \in DOMAIN calls : calls[k].test = f.test
             THEN <<line("error")>> ELSE <<line("passed"), line("error")>>

Chunk(f, body) == <<Raw("separator", f.test, f.phase)>> \o body

Told(block, fs, bodyOf(_)) ==
  IF fs = << >> THEN << >>
  ELSE <<Worded("block", block)>>
         \o FlattenSeq([k \in DOMAIN fs |-> Chunk(fs[k], bodyOf(fs[k]))])

PytestLog(calls, errors, verbose, summary, bodyOf(_)) ==
  LET all == calls \o errors
  IN  <<Bare("session")>>
      \o (IF verbose THEN FlattenSeq([k \in DOMAIN all |-> ProgressOf(all[k], calls)]) ELSE << >>)
      \o Told("ERRORS", errors, bodyOf) \o Told("FAILURES", calls, bodyOf)
      \o (IF summary = "none" THEN << >>
          ELSE <<Bare("summary")>>
                 \o [k \in DOMAIN all |-> Raw("short", all[k].test, summary)]
                 \o <<Bare("ruler")>>)

(* The bodies: all plain, or one with a ruler in its output, or garbled. *)
PytestLogs ==
  {PytestLog(calls, errors, v, s,
             LAMBDA f : IF calls # << >> /\ f = calls[1] THEN body ELSE Plain) :
     calls \in CallLists, errors \in ErrorLists, v \in BOOLEAN,
     s \in {"none", "message", "bare"}, body \in {Plain, Ruled, Garbled}}

(* Two runs of pytest in one log, as a retry or tox prints them: a failed    *)
(* one, and before or behind it one that failed too, or that passed.         *)
Passing ==
  {<<Bare("session")>> \o (IF v THEN <<Raw("progress", A, "passed")>> ELSE << >>) : v \in BOOLEAN}

Failing ==
  {PytestLog(IF f.phase = "call" THEN <<f>> ELSE << >>, IF f.phase = "call" THEN << >> ELSE <<f>>,
             v, s, LAMBDA g : Plain) :
     f \in {Failure(A, "call"), Failure(A, "teardown")}, v \in BOOLEAN, s \in {"none", "message"}}

TwoRunLogs ==
  {x \o y : x \in Failing, y \in Failing \cup Passing} \cup {x \o y : x \in Passing, y \in Failing}

(* The instance for two tests of one name. *)
NamesakeLogs ==
  {PytestLog(calls, << >>, v, "message", LAMBDA f : Plain) :
     calls \in CallLists, v \in BOOLEAN}

-----------------------------------------------------------------------------
(* Tracebacks: frames, exceptions and their continuations, blank E lines.    *)

TraceLines ==
  {Worded("frame", w) : w \in {"project", "dependency", "captured"}}
    \cup {Worded("E", w) : w \in {"raised", "rest"}}
    \cup {Bare("blankE"), Bare("text")}

(* An exception begins after a line that is not part of one; its blank and   *)
(* further lines follow it.                                                  *)
IsTrace(s) ==
  \A n \in DOMAIN s :
    LET inside == n > 1 /\ s[n - 1].kind \in {"E", "blankE"}
    IN  IF s[n].kind = "E" /\ s[n].word = "raised" THEN ~inside
        ELSE s[n].kind \in {"E", "blankE"} => inside

Tracebacks == {s \in UpTo(TraceLines, MaxTrace) : IsTrace(s)}

TraceLogs ==
  {<<Worded("block", "FAILURES"), Raw("separator", A, "call")>> \o s \o <<Bare("ruler")>> :
     s \in Tracebacks}

-----------------------------------------------------------------------------
SuiteLines ==
  {Bare("suite"), Bare("slowSuite"), Bare("bullet"), Bare("footer"),
   Worded("jsFrame", "project"), Worded("jsFrame", "dependency")}

SuiteLogs == UpTo(SuiteLines, MaxSuites) \cup {<<Bare("run")>> \o s : s \in UpTo(SuiteLines, MaxSuites - 1)}

CompilerLogs ==
  UpTo({Bare("tsc"), Bare("path"), Bare("row"), Bare("blank"), Bare("problems"),
        Bare("indented")}, MaxCompiled)

-----------------------------------------------------------------------------
(* Several tools in one log, and none of them.                               *)

Parts ==
  {PytestLog(<<Failure(A, "call")>>, << >>, TRUE, "message", LAMBDA f : Plain),
   <<Bare("suite"), Bare("bullet"), Worded("indented", "Expected:"), Bare("indented"),
     Worded("jsFrame", "project"), Bare("footer")>>,
   <<Bare("tsc"), Bare("path"), Bare("row"), Bare("blank"), Bare("problems")>>}

MixedLogs ==
  {x \o y \o z \o <<Bare("exit")>> : x, y, z \in Parts \cup {<< >>}}
    \cup {<<Bare("fileError"), Worded("command", tool)>> : tool \in {"pytest", "jest", "tsc", "ls"}}

AllLogs ==
  {Printed(s) : s \in PytestLogs \cup TwoRunLogs \cup TraceLogs \cup SuiteLogs
                        \cup CompilerLogs \cup MixedLogs}

SomeNamesakes == {Printed(s) : s \in NamesakeLogs}

SomeTraces == {Printed(s) : s \in TraceLogs}

=============================================================================
