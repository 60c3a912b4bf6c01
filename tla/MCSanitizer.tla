---------------------------- MODULE MCSanitizer -----------------------------
(* Every short line, and longer ones put together from two phrases.          *)
EXTENDS Sanitizer

CONSTANT MaxAtoms       \* the atoms of a short line

Given == {The(kind) : kind \in Plain \ {"open"}} \cup {Secret(class) : class \in Shapes}

Short == UNION {[1..n -> Given] : n \in 0..MaxAtoms}

Leads ==
  {<< >>, <<The("name")>>, <<The(";"), The("name")>>, <<The("["), The("name")>>,
   <<The("bearer"), The("space")>>,
   <<The("authorization"), The("colon"), The("space"), The("word"), The("space")>>,
   <<The("authorization"), The("colon"), The("space"), The("bearer"), The("space")>>,
   <<The("://")>>, <<The("://"), The("word"), The("colon")>>}

Values == {<<The("word")>>, <<The("opaque")>>} \cup {<<Secret(class)>> : class \in Shapes}

Ends1 == {<< >>, <<The("at")>>, <<The("quote")>>, <<The("space")>>}

Phrases == {l \o v \o e : l \in Leads, v \in Values, e \in Ends1}

SomeLines == {t \in Short \cup {p \o q : p, q \in Phrases} : IsLexed(t)}

=============================================================================
