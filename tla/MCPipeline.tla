----------------------------- MODULE MCPipeline -----------------------------
(* parse_log on every log of at most MaxLogLines lines, under limits that   *)
(* cut it by lines, by characters, by diagnostics and by evidence.          *)
EXTENDS Pipeline

CONSTANT MaxLogLines

TwoParsers == <<"pytest", "compiler">>

Blocks == [pytest |-> 2, compiler |-> 1, generic |-> 1]

Of(kind, code) == [kind |-> kind, code |-> code]

LineKinds ==
  {Plain, Of("exit", 1), Of("exit", 2), Of("quoted", 9)}
    \cup {Of(p, 0) : p \in {"pytest", "compiler", "generic"}}

SomeLogs ==
  {[lines |-> ls, newline |-> n] :
     ls \in UNION {[1..k -> LineKinds] : k \in 0..MaxLogLines}, n \in BOOLEAN}

Limit(chars, ls, ds, context) ==
  [max_total_chars |-> chars, max_total_lines |-> ls,
   max_diagnostics |-> ds, max_context_lines |-> context]

SomeLimits == {Limit(20, 2, 3, 1), Limit(20, 3, 1, 2), Limit(5, 4, 1, 1), Limit(5, 4, 4, 2)}

=============================================================================
