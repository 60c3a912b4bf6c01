--------------------------- MODULE CompilerParser ---------------------------
(***************************************************************************)
(* parsing/parsers/compiler_parser.py: tsc's errors, each on a line of its *)
(* own, and after them eslint's, in rows under the path of a file.  Any    *)
(* line that is not indented is taken for such a path; a blank line ends   *)
(* the rows of a file.                                                     *)
(***************************************************************************)
EXTENDS ParserLog

VARIABLES
  pass,                 \* "tsc", then "eslint"
  read,                 \* the lines _extract_eslint has read
  header                \* current_file: the line taken for a path, or None

compilerVars == <<pass, read, header>>

CompilerTypeOK ==
  /\ pass \in {"tsc", "eslint"}
  /\ read \in 0..Len(lines)
  /\ header \in 1..read \cup {None}

CompilerInit == pass = "tsc" /\ read = 0 /\ header = None

CompilerDetects == LinesOf({"tsc", "problems"}) \cup Commands({"tsc", "eslint"}) # {}

CompilerSkips ==
  /\ turn = "compiler" /\ ~CompilerDetects
  /\ turn' = TurnAfter("compiler")
  /\ UNCHANGED <<lines, diagnostics, compilerVars>>

CompilerRuns == turn = "compiler" /\ CompilerDetects /\ UNCHANGED lines

Sorted(S) ==
  CHOOSE s \in [1..Cardinality(S) -> S] :
    /\ \A k, m \in DOMAIN s : k < m => s[k] < s[m]
    /\ \A n \in S : \E k \in DOMAIN s : s[k] = n

TscErrors ==
  [k \in DOMAIN Sorted(LinesOf({"tsc"})) |->
     LET n == Sorted(LinesOf({"tsc"}))[k]
     IN  [Found("compiler", "COMPILER_ERROR", n) EXCEPT !.message = n, !.file = n]]

ExtractTsc ==
  /\ CompilerRuns
  /\ pass = "tsc"
  /\ diagnostics' = diagnostics \o TscErrors
  /\ pass' = "eslint"
  /\ UNCHANGED <<turn, read, header>>

EslintReads(kinds) ==
  /\ CompilerRuns
  /\ pass = "eslint"
  /\ read < Len(lines)
  /\ lines[read + 1].kind \in kinds
  /\ read' = read + 1
  /\ UNCHANGED <<turn, pass>>

(* Kinds of lines that begin with a space, or may. *)
Indented == {"indented", "row", "jsFrame", "bullet", "run"}

ReadRow ==
  /\ EslintReads({"row"})
  /\ header # None
  /\ diagnostics' = Append(diagnostics,
       [Found("compiler", "LINT_ERROR", read + 1) EXCEPT !.message = read + 1, !.file = header])
  /\ UNCHANGED header

(* A row without a file, the summary, and what is indented. *)
PassOver ==
  /\ EslintReads(Indented \cup {"problems"})
  /\ lines[read + 1].kind = "row" => header = None
  /\ UNCHANGED <<diagnostics, header>>

(* Mutant: a blank line does not end a file's rows. *)
ReadBlank_pass ==
  /\ EslintReads({"blank"})
  /\ UNCHANGED <<diagnostics, header>>

ReadBlank ==
  /\ EslintReads({"blank"})
  /\ header' = None
  /\ UNCHANGED diagnostics

ReadPath ==
  /\ EslintReads(Kinds \ (Indented \cup {"problems", "blank"}))
  /\ header' = read + 1
  /\ UNCHANGED diagnostics

CompilerReturns ==
  /\ CompilerRuns
  /\ pass = "eslint" /\ read = Len(lines)
  /\ diagnostics' = diagnostics \o ProcessFailure("compiler")
  /\ turn' = TurnAfter("compiler")
  /\ UNCHANGED compilerVars

CompilerNext ==
  \/ CompilerSkips \/ ExtractTsc \/ ReadRow \/ PassOver \/ ReadBlank \/ ReadPath
  \/ CompilerReturns

=============================================================================
