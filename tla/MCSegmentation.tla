--------------------------- MODULE MCSegmentation ---------------------------
(* build_sections on every log of at most MaxLines lines. *)
EXTENDS Segmentation

CONSTANT MaxLines

AllLogs == UNION {[1..n -> Marker] : n \in 0..MaxLines}

=============================================================================
