----------------------------- MODULE StackTrace -----------------------------
(***************************************************************************)
(* parse_python_traceback of parsing/stacktrace.py, line by line: frames   *)
(* are collected, and of the exceptions only the last one raised is kept.  *)
(* Lines that begin with E come in runs; the first line of a run is taken  *)
(* for the exception, the others for its continuation.                     *)
(***************************************************************************)
EXTENDS ParserLog

VARIABLES
  chunk,                \* the slice of the log, or None
  at,                   \* the line to be read next
  frames,               \* the frames so far
  raised,               \* the line of the exception: exception_type and message
  in_exception_run

traceVars == <<chunk, at, frames, raised, in_exception_run>>

TraceTypeOK ==
  /\ chunk \in [first : Nat, last : Nat] \cup {None}
  /\ at \in Nat
  /\ chunk # None => at \in chunk.first .. chunk.last + 1
  /\ frames \subseteq DOMAIN lines
  /\ raised \in DOMAIN lines \cup {None}
  /\ in_exception_run \in BOOLEAN

NoTrace ==
  /\ chunk = None
  /\ at = 0
  /\ frames = {}
  /\ raised = None
  /\ in_exception_run = FALSE

StartTrace(slice) ==
  /\ chunk' = slice
  /\ at' = slice.first
  /\ frames' = {}
  /\ raised' = None
  /\ in_exception_run' = FALSE

TraceRead == chunk # None /\ at > chunk.last

Reads(kinds) ==
  /\ chunk # None
  /\ at <= chunk.last
  /\ lines[at].kind \in kinds
  /\ at' = at + 1
  /\ UNCHANGED chunk

ReadFrame ==
  /\ Reads({"frame"})
  /\ frames' = frames \cup {at}
  /\ in_exception_run' = FALSE
  /\ UNCHANGED raised

(* Mutant: the first exception of a chain is kept. *)
ReadException_first ==
  /\ Reads({"E"})
  /\ raised' = IF in_exception_run \/ raised # None THEN raised ELSE at
  /\ in_exception_run' = TRUE
  /\ UNCHANGED frames

ReadException ==
  /\ Reads({"E"})
  /\ raised' = IF in_exception_run THEN raised ELSE at
  /\ in_exception_run' = TRUE
  /\ UNCHANGED frames

(* Any other line, an E with nothing behind it included, ends the run. *)
ReadOther ==
  /\ Reads(Kinds \ {"frame", "E"})
  /\ in_exception_run' = FALSE
  /\ UNCHANGED <<frames, raised>>

ReadTrace == ReadFrame \/ ReadException \/ ReadOther

=============================================================================
