---------------------------- MODULE MCMcpServer -----------------------------
(* Agents that analyze four logs through one file, and name another file    *)
(* that is out of bounds, with a cache of two reports.                      *)
EXTENDS McpServer

CONSTANTS p1, p2, clean, one, pair, many

TwoPaths == {p1, p2}

OnePath == {p1}

LogTexts == {clean, one, pair, many}

(* No failure, a lone one, two with an echo, and more than are shown. *)
Sizes ==
  [t \in LogTexts |-> CASE t = clean -> << >>
                        [] t = one   -> <<1>>
                        [] t = pair  -> <<2, 1>>
                        [] t = many  -> <<1, 1, 1>>]

=============================================================================
