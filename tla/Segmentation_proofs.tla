------------------------ MODULE Segmentation_proofs ------------------------
(***************************************************************************)
(* Proofs about Segmentation for every set of logs: type correctness, the  *)
(* shape of the section tree, the stamps on the lines, and that it         *)
(* implements the reference algorithm of EagerSegmentation.                *)
(*                                                                         *)
(* The invariant speaks of CurrentEnd, the end a section would have if the *)
(* log ended here: an open section's own end field is stale until Finish.  *)
(***************************************************************************)
EXTENDS Segmentation, SequenceTheorems, FiniteSetTheorems, TLAPS

ViewContains(s, l) == built[s].start <= l /\ l <= CurrentEnd(s)

(* Sections start on lines already read, in the order of their ids, and    *)
(* end where they start or later.                                          *)
StartsInOrder ==
  /\ \A s \in Ids : 1 <= built[s].start /\ built[s].start <= pos
  /\ \A s \in Ids : built[s].start <= built[s].end /\ built[s].end <= pos
  /\ \A s, t \in Ids : s < t => built[s].start < built[t].start

StackSorted == \A i, j \in 1..Len(stack) : i < j => stack[i] < stack[j]

(* What opened after a closed section started is either after it or closed *)
(* inside it.                                                              *)
ClosedNest ==
  \A s, t \in Ids :
    s < t /\ s \notin OpenIds =>
      \/ built[s].end < built[t].start
      \/ t \notin OpenIds /\ built[t].end <= built[s].end

StampsRight ==
  \A l \in 1..pos :
    /\ sectionOf[l] = NoSection => \A t \in Ids : ~ViewContains(t, l)
    /\ sectionOf[l] # NoSection =>
         /\ ViewContains(sectionOf[l], l)
         /\ \A t \in Ids : ViewContains(t, l) => t <= sectionOf[l]

ParentsRight ==
  \A s \in Ids :
    /\ built[s].parent = NoSection =>
         \A t \in Ids : t < s => CurrentEnd(t) < built[s].start
    /\ built[s].parent # NoSection =>
         /\ built[s].parent \in Ids
         /\ built[s].parent < s
         /\ built[s].start <= CurrentEnd(built[s].parent)
         /\ \A t \in Ids :
              built[s].parent < t /\ t < s => CurrentEnd(t) < built[s].start

FinishedInv ==
  finished => pos = Len(log) /\ \A s \in OpenIds : built[s].end = pos

SegInv ==
  /\ TypeOK
  /\ StartsInOrder
  /\ StackSorted
  /\ ClosedNest
  /\ StampsRight
  /\ ParentsRight
  /\ FinishedInv

-----------------------------------------------------------------------------
(* The stack seen as a set with a greatest element. *)

(* The open ids are the top of the stack and those below it, all less. *)
LEMMA TopOfStack ==
  ASSUME TypeOK, StackSorted
  PROVE  /\ OpenIds \subseteq Ids
         /\ stack # << >> => Top \in OpenIds /\ \A s \in OpenIds : s <= Top
         /\ stack = << >> => OpenIds = {} /\ Top = NoSection
<1>1. Len(stack) \in Nat /\ \A i \in 1..Len(stack) : stack[i] \in Ids
  BY ElementOfSeq, LenProperties DEF TypeOK
<1>2. OpenIds \subseteq Ids
  BY <1>1 DEF OpenIds
<1>3. ASSUME stack # << >>
      PROVE  Top \in OpenIds /\ \A s \in OpenIds : s <= Top
  <2>1. Len(stack) \in 1..Len(stack)
    BY <1>1, <1>3, EmptySeq DEF TypeOK
  <2>2. Top = stack[Len(stack)]
    BY <1>3 DEF Top
  <2>3. \A i \in 1..Len(stack) : stack[i] <= stack[Len(stack)]
    BY <1>1, <2>1 DEF StackSorted, Ids
  <2> QED
    BY <2>1, <2>2, <2>3 DEF OpenIds
<1>4. ASSUME stack = << >>
      PROVE  OpenIds = {} /\ Top = NoSection
  BY <1>4, Len(<<>>) = 0 DEF OpenIds, Top
<1> QED
  BY <1>2, <1>3, <1>4

(* Opening a section pushes its id, the greatest so far, on the stack. *)
LEMMA OpenPushes ==
  ASSUME TypeOK, StackSorted, OpenGroup
  PROVE  /\ stack' \in Seq(Ids')
         /\ StackSorted'
         /\ OpenIds' = OpenIds \cup {nextId}
<1>1. stack \in Seq(Ids') /\ nextId \in Ids'
  BY SeqMonotonic DEF TypeOK, OpenGroup, Ids
<1>2. /\ stack' \in Seq(Ids')
      /\ Len(stack') = Len(stack) + 1
      /\ \A i \in 1..Len(stack) : stack'[i] = stack[i]
      /\ stack'[Len(stack) + 1] = nextId
  BY <1>1, AppendProperties DEF OpenGroup
<1>3. Len(stack) \in Nat /\ \A i \in 1..Len(stack) : stack[i] \in Ids
  BY ElementOfSeq, LenProperties DEF TypeOK
<1>4. StackSorted'
  <2> SUFFICES ASSUME NEW i \in 1..Len(stack) + 1, NEW j \in 1..Len(stack) + 1,
                      i < j
               PROVE  stack'[i] < stack'[j]
    BY <1>2 DEF StackSorted
  <2>1. CASE j = Len(stack) + 1
    <3>1. i \in 1..Len(stack)
      BY <1>3, <2>1
    <3>2. stack'[i] = stack[i] /\ stack'[j] = nextId /\ stack[i] \in 0..nextId - 1
      BY <1>2, <1>3, <2>1, <3>1 DEF Ids
    <3>3. nextId \in Nat
      BY DEF TypeOK
    <3> QED
      BY <3>2, <3>3
  <2>2. CASE j \in 1..Len(stack)
    BY <1>2, <1>3, <2>2 DEF StackSorted
  <2> QED
    BY <1>3, <2>1, <2>2
<1>5. OpenIds' = OpenIds \cup {nextId}
  BY <1>2, <1>3 DEF OpenIds
<1> QED
  BY <1>2, <1>4, <1>5

(* Closing a section takes exactly the top away from the open ids. *)
LEMMA ClosePops ==
  ASSUME TypeOK, StackSorted, CloseGroup
  PROVE  /\ stack' \in Seq(Ids')
         /\ StackSorted'
         /\ OpenIds' = OpenIds \ {Top}
<1>1. stack # << >> /\ stack' = SubSeq(stack, 1, Len(stack) - 1) /\ Ids' = Ids
  BY DEF CloseGroup, Ids
<1>2. Len(stack) \in Nat \ {0} /\ \A i \in 1..Len(stack) : stack[i] \in Ids
  BY <1>1, ElementOfSeq, EmptySeq DEF TypeOK
<1>3. /\ stack' \in Seq(Ids)
      /\ Len(stack') = Len(stack) - 1
      /\ \A i \in 1..Len(stack) - 1 : stack'[i] = stack[i]
  <2> DEFINE n == Len(stack) - 1
  <2>1. n \in Int /\ 1 \in Int /\ \A i \in 1..n : stack[i] \in Ids
    BY <1>2
  <2> HIDE DEF n
  <2>2. /\ SubSeq(stack, 1, n) \in Seq(Ids)
        /\ Len(SubSeq(stack, 1, n)) = IF 1 <= n THEN n - 1 + 1 ELSE 0
        /\ \A i \in 1..n - 1 + 1 : SubSeq(stack, 1, n)[i] = stack[1 + i - 1]
    BY <2>1, SubSeqProperties
  <2>3. n \in Nat /\ n - 1 + 1 = n /\ \A i \in 1..n : 1 + i - 1 = i
    BY <1>2 DEF n
  <2>4. /\ Len(SubSeq(stack, 1, n)) = n
        /\ \A i \in 1..n : SubSeq(stack, 1, n)[i] = stack[i]
    BY <2>2, <2>3
  <2> QED
    BY <1>1, <2>2, <2>4 DEF n
<1>4. StackSorted'
  BY <1>2, <1>3 DEF StackSorted
<1>5. Top = stack[Len(stack)]
  BY <1>1 DEF Top
<1>6. \A i \in 1..Len(stack) - 1 : stack[i] # Top
  <2> SUFFICES ASSUME NEW i \in 1..Len(stack) - 1
               PROVE  stack[i] # stack[Len(stack)]
    BY <1>5
  <2>1. i \in 1..Len(stack) /\ Len(stack) \in 1..Len(stack) /\ i < Len(stack)
    BY <1>2
  <2>2. stack[i] < stack[Len(stack)]
    BY <2>1 DEF StackSorted
  <2>3. stack[i] \in 0..nextId - 1 /\ nextId \in Nat
    BY <1>2, <2>1 DEF Ids, TypeOK
  <2> QED
    BY <2>2, <2>3
<1>7. OpenIds' = OpenIds \ {Top}
  BY <1>2, <1>3, <1>5, <1>6 DEF OpenIds
<1> QED
  BY <1>1, <1>3, <1>4, <1>7

-----------------------------------------------------------------------------
(* Type correctness. *)

(* Stamping a line with an id extends sectionOf by that line. *)
LEMMA StampedType ==
  ASSUME TypeOK, NEW S, Ids \cup {NoSection} \subseteq S, NEW id \in S
  PROVE  Stamped(id) \in [1..pos + 1 -> S]
BY DEF TypeOK, Stamped

(* Setting the end of a section changes no other field of it. *)
LEMMA EndedSection ==
  ASSUME NEW r \in Section, NEW e \in Nat
  PROVE  /\ [r EXCEPT !.end = e] \in Section
         /\ [r EXCEPT !.end = e].start = r.start
         /\ [r EXCEPT !.end = e].end = e
         /\ [r EXCEPT !.end = e].parent = r.parent
BY DEF Section

(* Every step keeps the types. *)
LEMMA TypeStep ==
  ASSUME TypeOK, StackSorted, [Next]_vars
  PROVE  TypeOK'
<1>1. Top \in Ids \cup {NoSection} /\ (stack # << >> => Top \in Ids)
  BY TopOfStack
<1>2. pos \in Nat /\ nextId \in Nat /\ Len(log) \in Nat
  BY LenProperties DEF TypeOK
<1>3. CASE OpenGroup
  <2>1. /\ log' = log /\ pos' = pos + 1 /\ pos < Len(log) /\ nextId' = nextId + 1
        /\ sectionOf' = Stamped(nextId) /\ finished' = finished
        /\ built' = [k \in 0..nextId |-> IF k = nextId THEN NewSection ELSE built[k]]
    BY <1>3 DEF OpenGroup, ReadLine
  <2>2. Ids' = 0..nextId
    BY <1>2, <2>1 DEF Ids
  <2>3. NewSection \in Section
    BY <1>1, <1>2 DEF NewSection, Section, NoSection, Ids
  <2>4. built' \in [Ids' -> Section]
    BY <1>2, <2>1, <2>2, <2>3 DEF TypeOK, Ids
  <2>5. sectionOf' \in [1..pos' -> Ids' \cup {NoSection}]
    <3>1. Ids \cup {NoSection} \subseteq Ids' \cup {NoSection} /\ nextId \in Ids'
      <4>1. Ids \subseteq 0..nextId /\ nextId \in 0..nextId
        BY <1>2 DEF Ids
      <4> QED
        BY <2>2, <4>1
    <3> QED
      BY <2>1, <3>1, StampedType
  <2> QED
    BY <1>2, <1>3, <2>1, <2>4, <2>5, OpenPushes DEF TypeOK
<1>4. CASE CloseGroup
  <2>1. /\ log' = log /\ pos' = pos + 1 /\ pos < Len(log) /\ nextId' = nextId
        /\ sectionOf' = Stamped(Top) /\ finished' = finished
        /\ built' = [built EXCEPT ![Top].end = pos + 1]
        /\ Top \in Ids /\ Ids' = Ids
    BY <1>1, <1>4 DEF CloseGroup, ReadLine, Ids
  <2>2. [built[Top] EXCEPT !.end = pos + 1] \in Section
    <3>1. built[Top] \in Section /\ pos + 1 \in Nat
      BY <1>2, <2>1 DEF TypeOK
    <3> QED
      BY <3>1, EndedSection
  <2>3. built' \in [Ids' -> Section]
    BY <2>1, <2>2 DEF TypeOK
  <2>4. sectionOf' \in [1..pos' -> Ids' \cup {NoSection}]
    BY <1>1, <2>1, StampedType
  <2> QED
    BY <1>2, <1>4, <2>1, <2>3, <2>4, ClosePops DEF TypeOK
<1>5. CASE PlainLine
  <2>1. /\ log' = log /\ pos' = pos + 1 /\ pos < Len(log) /\ nextId' = nextId
        /\ sectionOf' = Stamped(Top) /\ finished' = finished
        /\ built' = built /\ stack' = stack /\ Ids' = Ids
    BY <1>5 DEF PlainLine, ReadLine, Ids
  <2>2. sectionOf' \in [1..pos' -> Ids' \cup {NoSection}]
    BY <1>1, <2>1, StampedType
  <2> QED
    BY <1>2, <2>1, <2>2 DEF TypeOK
<1>6. CASE Finish
  <2>1. /\ log' = log /\ pos' = pos /\ nextId' = nextId /\ stack' = stack
        /\ sectionOf' = sectionOf /\ finished' = TRUE /\ Ids' = Ids
        /\ built' = [k \in Ids |->
             IF k \in OpenIds THEN [built[k] EXCEPT !.end = pos] ELSE built[k]]
    BY <1>6 DEF Finish, Ids
  <2>2. \A k \in Ids : [built[k] EXCEPT !.end = pos] \in Section
    BY <1>2, EndedSection DEF TypeOK
  <2>3. built' \in [Ids' -> Section]
    BY <2>1, <2>2 DEF TypeOK
  <2> QED
    BY <2>1, <2>3 DEF TypeOK
<1>7. CASE UNCHANGED vars
  BY <1>7 DEF TypeOK, vars, Ids
<1> QED
  BY <1>3, <1>4, <1>5, <1>6, <1>7 DEF Next

-----------------------------------------------------------------------------
(* What each action does to the sections, the stack and the stamps, one    *)
(* element at a time.                                                      *)

NumbersOK ==
  /\ pos \in Nat /\ nextId \in Nat /\ Len(log) \in Nat
  /\ \A s \in Ids : /\ s \in Int /\ 0 <= s /\ s < nextId
                    /\ built[s] \in Section
                    /\ built[s].start \in Int /\ built[s].end \in Int
                    /\ built[s].parent \in Int
  /\ \A l \in 1..pos : sectionOf[l] \in Ids \cup {NoSection}
  /\ NoSection \in Int /\ NoSection \notin Ids

(* The types as plain facts about numbers, as the SMT solver wants them. *)
LEMMA Numbers ==
  ASSUME TypeOK
  PROVE  NumbersOK
BY SMTT(40), LenProperties DEF NumbersOK, TypeOK, Ids, Section, NoSection

OpenEffect ==
  /\ pos' = pos + 1 /\ log' = log /\ finished' = finished /\ pos < Len(log)
  /\ Ids' = Ids \cup {nextId} /\ nextId \notin Ids
  /\ OpenIds' = OpenIds \cup {nextId} /\ OpenIds \subseteq Ids
  /\ \A s \in Ids : built'[s] = built[s]
  /\ built'[nextId].start = pos + 1 /\ built'[nextId].end = pos + 1
  /\ built'[nextId].parent = Top
  /\ \A l \in 1..pos : sectionOf'[l] = sectionOf[l]
  /\ sectionOf'[pos + 1] = nextId
  /\ \A s \in Ids :
       CurrentEnd(s)' = IF s \in OpenIds THEN pos + 1 ELSE built[s].end
  /\ \A s : s = nextId => CurrentEnd(s)' = pos + 1

(* What OpenGroup does, as an effect on the numbers. *)
LEMMA OpenFacts ==
  ASSUME TypeOK, StackSorted, OpenGroup
  PROVE  OpenEffect
<1>1. pos \in Nat /\ nextId \in Nat
  BY Numbers DEF NumbersOK
<1>2. /\ pos' = pos + 1 /\ log' = log /\ finished' = finished /\ pos < Len(log)
      /\ nextId' = nextId + 1 /\ sectionOf' = Stamped(nextId)
      /\ built' = [k \in 0..nextId |-> IF k = nextId THEN NewSection ELSE built[k]]
  BY DEF OpenGroup, ReadLine
<1>3. Ids' = Ids \cup {nextId} /\ nextId \notin Ids /\ nextId \in 0..nextId
      /\ Ids \subseteq 0..nextId
  BY <1>1, <1>2 DEF Ids
<1>4. /\ OpenIds' = OpenIds \cup {nextId} /\ OpenIds \subseteq Ids
  BY OpenPushes, TopOfStack
<1>5. /\ \A s \in Ids : built'[s] = built[s]
      /\ built'[nextId] = NewSection
  BY <1>2, <1>3
<1>6. /\ built'[nextId].start = pos + 1 /\ built'[nextId].end = pos + 1
      /\ built'[nextId].parent = Top
  BY <1>5 DEF NewSection
<1>7. /\ \A l \in 1..pos : sectionOf'[l] = sectionOf[l]
      /\ sectionOf'[pos + 1] = nextId
  BY <1>1, <1>2 DEF Stamped
<1>8. /\ \A s \in Ids :
           CurrentEnd(s)' = IF s \in OpenIds THEN pos + 1 ELSE built[s].end
      /\ \A s : s = nextId => CurrentEnd(s)' = pos + 1
  BY <1>2, <1>3, <1>4, <1>5 DEF CurrentEnd
<1> QED
  BY <1>2, <1>3, <1>4, <1>5, <1>6, <1>7, <1>8 DEF OpenEffect

CloseEffect ==
  /\ pos' = pos + 1 /\ log' = log /\ finished' = finished /\ pos < Len(log)
  /\ Ids' = Ids /\ Top \in OpenIds /\ OpenIds \subseteq Ids
  /\ OpenIds' = OpenIds \ {Top}
  /\ \A s \in OpenIds : s <= Top
  /\ \A s \in Ids : /\ built'[s].start = built[s].start
                    /\ built'[s].parent = built[s].parent
                    /\ built'[s].end = IF s = Top THEN pos + 1 ELSE built[s].end
  /\ \A l \in 1..pos : sectionOf'[l] = sectionOf[l]
  /\ sectionOf'[pos + 1] = Top
  /\ \A s \in Ids :
       CurrentEnd(s)' = IF s \in OpenIds THEN pos + 1 ELSE built[s].end

(* What CloseGroup does, as an effect on the numbers. *)
LEMMA CloseFacts ==
  ASSUME TypeOK, StackSorted, CloseGroup
  PROVE  CloseEffect
<1>1. pos \in Nat /\ \A s \in Ids : built[s] \in Section
  BY Numbers DEF NumbersOK
<1>2. /\ pos' = pos + 1 /\ log' = log /\ finished' = finished /\ pos < Len(log)
      /\ nextId' = nextId /\ sectionOf' = Stamped(Top) /\ stack # << >>
      /\ built' = [built EXCEPT ![Top].end = pos + 1]
  BY DEF CloseGroup, ReadLine
<1>3. /\ Top \in OpenIds /\ OpenIds \subseteq Ids
      /\ \A s \in OpenIds : s <= Top
      /\ OpenIds' = OpenIds \ {Top}
  BY <1>2, TopOfStack, ClosePops
<1>4. Ids' = Ids
  BY <1>2 DEF Ids
<1>5. \A s \in Ids : built'[s] = IF s = Top THEN [built[s] EXCEPT !.end = pos + 1]
                                 ELSE built[s]
  BY <1>2, <1>3 DEF TypeOK
<1>6. \A s \in Ids : /\ built'[s].start = built[s].start
                     /\ built'[s].parent = built[s].parent
                     /\ built'[s].end = IF s = Top THEN pos + 1 ELSE built[s].end
  <2> SUFFICES ASSUME NEW s \in Ids
               PROVE  /\ built'[s].start = built[s].start
                      /\ built'[s].parent = built[s].parent
                      /\ built'[s].end = IF s = Top THEN pos + 1 ELSE built[s].end
    OBVIOUS
  <2>1. CASE s = Top
    <3>1. built[s] \in Section /\ pos + 1 \in Nat
      BY <1>1
    <3>2. built'[s] = [built[s] EXCEPT !.end = pos + 1]
      BY <1>5, <2>1
    <3> QED
      BY <2>1, <3>1, <3>2, EndedSection
  <2>2. CASE s # Top
    BY <1>5, <2>2
  <2> QED
    BY <2>1, <2>2
<1>7. /\ \A l \in 1..pos : sectionOf'[l] = sectionOf[l]
      /\ sectionOf'[pos + 1] = Top
  BY <1>1, <1>2 DEF Stamped
<1>8. \A s \in Ids :
        CurrentEnd(s)' = IF s \in OpenIds THEN pos + 1 ELSE built[s].end
  BY <1>2, <1>3, <1>6 DEF CurrentEnd
<1> QED
  BY <1>2, <1>3, <1>4, <1>6, <1>7, <1>8 DEF CloseEffect

PlainEffect ==
  /\ pos' = pos + 1 /\ log' = log /\ finished' = finished /\ pos < Len(log)
  /\ Ids' = Ids /\ built' = built /\ stack' = stack
  /\ OpenIds' = OpenIds /\ OpenIds \subseteq Ids
  /\ \A l \in 1..pos : sectionOf'[l] = sectionOf[l]
  /\ sectionOf'[pos + 1] = Top
  /\ \A s \in Ids :
       CurrentEnd(s)' = IF s \in OpenIds THEN pos + 1 ELSE built[s].end

(* What PlainLine does, as an effect on the numbers. *)
LEMMA PlainFacts ==
  ASSUME TypeOK, StackSorted, PlainLine
  PROVE  PlainEffect
<1>1. pos \in Nat /\ OpenIds \subseteq Ids
  BY Numbers, TopOfStack DEF NumbersOK
<1>2. /\ pos' = pos + 1 /\ log' = log /\ finished' = finished /\ pos < Len(log)
      /\ nextId' = nextId /\ sectionOf' = Stamped(Top)
      /\ built' = built /\ stack' = stack
  BY DEF PlainLine, ReadLine
<1>3. Ids' = Ids /\ OpenIds' = OpenIds
  BY <1>2 DEF Ids, OpenIds
<1>4. /\ \A l \in 1..pos : sectionOf'[l] = sectionOf[l]
      /\ sectionOf'[pos + 1] = Top
  BY <1>1, <1>2 DEF Stamped
<1> QED
  BY <1>1, <1>2, <1>3, <1>4 DEF CurrentEnd, PlainEffect

FinishEffect ==
  /\ pos' = pos /\ log' = log /\ finished' = TRUE /\ pos = Len(log)
  /\ nextId' = nextId /\ sectionOf' = sectionOf /\ stack' = stack
  /\ Ids' = Ids /\ OpenIds' = OpenIds /\ OpenIds \subseteq Ids
  /\ \A s \in Ids : /\ built'[s].start = built[s].start
                    /\ built'[s].parent = built[s].parent
                    /\ built'[s].end = CurrentEnd(s)
  /\ \A s \in Ids : CurrentEnd(s)' = CurrentEnd(s)

(* What Finish does, as an effect on the numbers. *)
LEMMA FinishFacts ==
  ASSUME TypeOK, StackSorted, Finish
  PROVE  FinishEffect
<1>1. /\ pos' = pos /\ log' = log /\ finished' = TRUE /\ pos = Len(log)
      /\ nextId' = nextId /\ sectionOf' = sectionOf /\ stack' = stack
      /\ built' = [k \in Ids |->
           IF k \in OpenIds THEN [built[k] EXCEPT !.end = pos] ELSE built[k]]
  BY DEF Finish
<1>2. Ids' = Ids /\ OpenIds' = OpenIds /\ OpenIds \subseteq Ids
  BY <1>1, TopOfStack DEF Ids, OpenIds
<1>3. \A s \in Ids : built[s] \in Section /\ pos \in Nat
  BY Numbers DEF NumbersOK
<1>4. \A s \in Ids : /\ built'[s].start = built[s].start
                     /\ built'[s].parent = built[s].parent
                     /\ built'[s].end = CurrentEnd(s)
  BY <1>1, <1>3, EndedSection DEF CurrentEnd
<1>5. \A s \in Ids : CurrentEnd(s)' = CurrentEnd(s)
  BY <1>1, <1>2, <1>4 DEF CurrentEnd
<1> QED
  BY <1>1, <1>2, <1>4, <1>5 DEF FinishEffect

-----------------------------------------------------------------------------
(* Each action preserves the invariant. *)

(* Reading a line that opens no section leaves the sections around the     *)
(* earlier lines as they were, and the line is in exactly the open ones.   *)
LEMMA StampsExtend ==
  ASSUME NumbersOK, StampsRight, Ids' = Ids, pos' = pos + 1,
         \A l \in 1..pos : sectionOf'[l] = sectionOf[l],
         sectionOf'[pos + 1] = Top,
         OpenIds = {} => Top = NoSection,
         OpenIds # {} => Top \in OpenIds /\ \A t \in OpenIds : t <= Top,
         OpenIds \subseteq Ids,
         \A l \in 1..pos, t \in Ids : ViewContains(t, l)' <=> ViewContains(t, l),
         \A l, t : l = pos + 1 /\ t \in Ids => (ViewContains(t, l)' <=> t \in OpenIds)
  PROVE  StampsRight'
<1> SUFFICES ASSUME NEW l \in 1..pos + 1
             PROVE  /\ sectionOf'[l] = NoSection =>
                         \A t \in Ids : ~ViewContains(t, l)'
                    /\ sectionOf'[l] # NoSection =>
                         /\ ViewContains(sectionOf[l], l)'
                         /\ \A t \in Ids : ViewContains(t, l)' => t <= sectionOf'[l]
  BY DEF StampsRight
<1>1. \A s \in Ids : s = sectionOf'[l] /\ ViewContains(s, l)' =>
        ViewContains(sectionOf[l], l)'
  BY DEF ViewContains, CurrentEnd
<1>2. CASE l = pos + 1
  BY <1>1, <1>2 DEF NumbersOK
<1>3. CASE l \in 1..pos
  <2>1. sectionOf'[l] = sectionOf[l] /\ sectionOf[l] \in Ids \cup {NoSection}
    BY <1>3 DEF NumbersOK
  <2>2. \A t \in Ids : ViewContains(t, l)' <=> ViewContains(t, l)
    BY <1>3
  <2>3. CASE sectionOf[l] = NoSection
    BY <1>3, <2>1, <2>2, <2>3 DEF StampsRight
  <2>4. CASE sectionOf[l] # NoSection
    <3>1. /\ ViewContains(sectionOf[l], l) /\ sectionOf[l] \in Ids
          /\ \A t \in Ids : ViewContains(t, l) => t <= sectionOf[l]
      BY <1>3, <2>1, <2>4 DEF StampsRight
    <3> QED
      BY <1>1, <2>1, <2>2, <2>4, <3>1
  <2> QED
    BY <2>3, <2>4
<1> QED
  BY <1>2, <1>3 DEF NumbersOK

(* Parents stay innermost where no section is added and no open one ends early. *)
LEMMA ParentsKeep ==
  ASSUME NumbersOK, StartsInOrder, ParentsRight, Ids' = Ids,
         \A s \in Ids : /\ built'[s].start = built[s].start
                        /\ built'[s].parent = built[s].parent,
         \A s \in Ids :
           CurrentEnd(s)' = IF s \in OpenIds THEN pos + 1 ELSE built[s].end
  PROVE  ParentsRight'
<1> SUFFICES ASSUME NEW s \in Ids
             PROVE  /\ built[s].parent = NoSection =>
                         \A t \in Ids : t < s => CurrentEnd(t)' < built[s].start
                    /\ built[s].parent # NoSection =>
                         /\ built[s].parent \in Ids
                         /\ built[s].parent < s
                         /\ built[s].start <= CurrentEnd(built[s].parent)'
                         /\ \A t \in Ids : built[s].parent < t /\ t < s =>
                              CurrentEnd(t)' < built[s].start
  BY DEF ParentsRight
<1>1. \A t \in Ids : /\ CurrentEnd(t) < built[s].start =>
                          CurrentEnd(t)' < built[s].start
                     /\ built[s].start <= CurrentEnd(t) =>
                          built[s].start <= CurrentEnd(t)'
  BY DEF NumbersOK, StartsInOrder, CurrentEnd
<1>2. CASE built[s].parent = NoSection
  BY <1>1, <1>2 DEF ParentsRight
<1>3. CASE built[s].parent # NoSection
  <2>1. \A p \in Ids : p = built[s].parent /\ built[s].start <= CurrentEnd(p)' =>
          built[s].start <= CurrentEnd(built[s].parent)'
    BY DEF CurrentEnd
  <2> QED
    BY <1>1, <1>3, <2>1 DEF ParentsRight
<1> QED
  BY <1>2, <1>3

(* OpenGroup preserves the invariant. *)
LEMMA OpenStep ==
  ASSUME SegInv, OpenGroup
  PROVE  StartsInOrder' /\ ClosedNest' /\ StampsRight' /\ ParentsRight'
<1>1. NumbersOK /\ OpenEffect
  BY Numbers, OpenFacts DEF SegInv
<1>2. StartsInOrder /\ ClosedNest /\ StampsRight /\ ParentsRight
  BY DEF SegInv
<1>3. StartsInOrder'
  BY SMTT(40), <1>1, <1>2 DEF StartsInOrder, NumbersOK, OpenEffect
<1>4. ClosedNest'
  BY SMTT(40), <1>1, <1>2 DEF ClosedNest, StartsInOrder, NumbersOK, OpenEffect
<1>5. ASSUME NEW l \in 1..pos, NEW t \in Ids
      PROVE  ViewContains(t, l)' <=> ViewContains(t, l)
  BY <1>1 DEF ViewContains, CurrentEnd, NumbersOK, OpenEffect
<1>6. StampsRight'
  <2> SUFFICES ASSUME NEW l \in 1..pos + 1
               PROVE  /\ sectionOf'[l] = NoSection =>
                           \A t \in Ids' : ~ViewContains(t, l)'
                      /\ sectionOf'[l] # NoSection =>
                           /\ ViewContains(sectionOf[l], l)'
                           /\ \A t \in Ids' : ViewContains(t, l)' => t <= sectionOf'[l]
    BY <1>1 DEF StampsRight, OpenEffect
  <2>1. CASE l = pos + 1
    <3>1. sectionOf'[l] = nextId /\ nextId # NoSection
      BY <1>1, <2>1 DEF NumbersOK, OpenEffect, NoSection
    <3>2. CurrentEnd(sectionOf[l])' = pos + 1
      BY <1>1, <3>1 DEF OpenEffect, CurrentEnd
    <3>3. ViewContains(sectionOf[l], l)'
      BY <1>1, <2>1, <3>1, <3>2 DEF ViewContains, NumbersOK, OpenEffect
    <3>4. \A t \in Ids' : t <= nextId
      BY <1>1 DEF NumbersOK, OpenEffect
    <3> QED
      BY <3>1, <3>3, <3>4
  <2>2. CASE l \in 1..pos
    <3>1. sectionOf'[l] = sectionOf[l] /\ sectionOf[l] \in Ids \cup {NoSection}
      BY <1>1, <2>2 DEF NumbersOK, OpenEffect
    <3>2. \A t : t = nextId => ~ViewContains(t, l)'
      BY <1>1, <2>2 DEF ViewContains, NumbersOK, OpenEffect
    <3>3. \A t \in Ids' : ViewContains(t, l)' => t \in Ids /\ ViewContains(t, l)
      BY <1>1, <1>5, <2>2, <3>2 DEF OpenEffect
    <3>4. CASE sectionOf[l] = NoSection
      BY <1>2, <2>2, <3>1, <3>3, <3>4 DEF StampsRight
    <3>5. CASE sectionOf[l] # NoSection
      <4>1. ViewContains(sectionOf[l], l) /\ sectionOf[l] \in Ids
        BY <1>2, <2>2, <3>1, <3>5 DEF StampsRight
      <4>2. \A s \in Ids : s = sectionOf[l] => ViewContains(s, l)'
        BY <1>5, <2>2, <4>1
      <4>3. ViewContains(sectionOf[l], l)'
        BY <3>1, <4>1, <4>2 DEF ViewContains, CurrentEnd
      <4> QED
        BY <1>2, <2>2, <3>1, <3>3, <3>5, <4>3 DEF StampsRight
    <3> QED
      BY <3>4, <3>5
  <2> QED
    BY <1>1, <2>1, <2>2 DEF NumbersOK
<1>7. ParentsRight'
  <2> SUFFICES ASSUME NEW s \in Ids'
               PROVE  /\ built'[s].parent = NoSection =>
                           \A t \in Ids' : t < s => CurrentEnd(t)' < built'[s].start
                      /\ built'[s].parent # NoSection =>
                           /\ built'[s].parent \in Ids'
                           /\ built'[s].parent < s
                           /\ built'[s].start <= CurrentEnd(built[s].parent)'
                           /\ \A t \in Ids' : built'[s].parent < t /\ t < s =>
                                CurrentEnd(t)' < built'[s].start
    BY DEF ParentsRight
  <2>1. CASE s = nextId
    <3>1. /\ built'[s].parent = Top /\ built'[s].start = pos + 1
          /\ \A t \in Ids' : t < s => t \in Ids
      BY <1>1, <2>1 DEF NumbersOK, OpenEffect
    <3>2. /\ Top = NoSection => OpenIds = {}
          /\ Top # NoSection => Top \in OpenIds /\ \A t \in OpenIds : t <= Top
      BY <1>1, TopOfStack DEF SegInv, NumbersOK
    <3>3. \A t \in Ids : t \notin OpenIds => CurrentEnd(t)' < pos + 1
      BY <1>1, <1>2 DEF NumbersOK, OpenEffect, StartsInOrder
    <3>4. \A t \in Ids : t \in OpenIds => CurrentEnd(t)' = pos + 1
      BY <1>1 DEF OpenEffect
    <3>5. CASE Top = NoSection
      BY <3>1, <3>2, <3>3, <3>5
    <3>6. CASE Top # NoSection
      <4>1. Top \in OpenIds /\ Top \in Ids /\ Top \in Ids' /\ Top < s
        BY <1>1, <2>1, <3>2, <3>6 DEF NumbersOK, OpenEffect
      <4>2. \A p : p = Top => CurrentEnd(p)' = pos + 1
        BY <3>4, <4>1
      <4>3. CurrentEnd(built[s].parent)' = pos + 1
        BY <3>1, <4>2 DEF CurrentEnd
      <4>4. \A t \in Ids : Top < t => t \notin OpenIds
        BY <1>1, <3>2, <3>6, <4>1 DEF NumbersOK
      <4> QED
        BY <1>1, <3>1, <3>3, <3>6, <4>1, <4>3, <4>4 DEF NumbersOK
    <3> QED
      BY <3>5, <3>6
  <2>2. CASE s \in Ids
    <3>1. /\ built'[s] = built[s]
          /\ built[s].start <= pos
          /\ \A t \in Ids' : t < s => t \in Ids
      BY <1>1, <1>2, <2>2 DEF NumbersOK, OpenEffect, StartsInOrder
    <3>2. \A t \in Ids : /\ CurrentEnd(t) < built[s].start =>
                              CurrentEnd(t)' < built[s].start
                         /\ built[s].start <= CurrentEnd(t) =>
                              built[s].start <= CurrentEnd(t)'
      BY <1>1, <2>2, <3>1 DEF NumbersOK, OpenEffect, CurrentEnd
    <3>3. built[s].parent # NoSection =>
            \A p : p = built[s].parent =>
              p \in Ids /\ p < s /\ built[s].start <= CurrentEnd(p)'
      BY <1>2, <2>2, <3>2 DEF ParentsRight
    <3>4. built[s].parent # NoSection =>
            built'[s].start <= CurrentEnd(built[s].parent)'
      BY <3>1, <3>3 DEF CurrentEnd
    <3> QED
      BY <1>1, <1>2, <2>2, <3>1, <3>2, <3>3, <3>4 DEF ParentsRight, OpenEffect
  <2> QED
    BY <1>1, <2>1, <2>2 DEF OpenEffect
<1> QED
  BY <1>3, <1>4, <1>6, <1>7

(* CloseGroup preserves the invariant. *)
LEMMA CloseStep ==
  ASSUME SegInv, CloseGroup
  PROVE  StartsInOrder' /\ ClosedNest' /\ StampsRight' /\ ParentsRight'
<1>1. NumbersOK /\ CloseEffect
  BY Numbers, CloseFacts DEF SegInv
<1>2. StartsInOrder /\ ClosedNest /\ StampsRight /\ ParentsRight
  BY DEF SegInv
<1>3. StartsInOrder'
  <2>1. \A s \in Ids' : /\ 1 <= built'[s].start /\ built'[s].start <= pos'
                        /\ built'[s].start <= built'[s].end /\ built'[s].end <= pos'
    BY <1>1, <1>2 DEF StartsInOrder, NumbersOK, CloseEffect
  <2>2. \A s, t \in Ids' : s < t => built'[s].start < built'[t].start
    BY <1>1, <1>2 DEF StartsInOrder, CloseEffect
  <2> QED
    BY <2>1, <2>2 DEF StartsInOrder
<1>4. ClosedNest'
  <2> SUFFICES ASSUME NEW s \in Ids, NEW t \in Ids, s < t, s \notin OpenIds'
               PROVE  \/ built'[s].end < built'[t].start
                      \/ t \notin OpenIds' /\ built'[t].end <= built'[s].end
    BY <1>1 DEF ClosedNest, CloseEffect
  <2>1. CASE s = Top
    BY <1>1, <1>2, <2>1 DEF NumbersOK, CloseEffect, StartsInOrder
  <2>2. CASE s # Top
    BY <1>1, <1>2, <2>2 DEF NumbersOK, CloseEffect, ClosedNest
  <2> QED
    BY <2>1, <2>2
<1>5. ASSUME NEW l \in 1..pos, NEW t \in Ids
      PROVE  ViewContains(t, l)' <=> ViewContains(t, l)
  BY SMTT(40), <1>1 DEF ViewContains, CurrentEnd, NumbersOK, CloseEffect
<1>6. ASSUME NEW l, l = pos + 1, NEW t \in Ids
      PROVE  ViewContains(t, l)' <=> t \in OpenIds
  BY <1>1, <1>2, <1>6 DEF ViewContains, NumbersOK, CloseEffect, StartsInOrder
<1>7. StampsRight'
  <2>1. \A l \in 1..pos : sectionOf'[l] = sectionOf[l]
    BY <1>1 DEF CloseEffect
  <2>2. sectionOf'[pos + 1] = Top /\ Top \in OpenIds /\ \A t \in OpenIds : t <= Top
    BY <1>1 DEF CloseEffect
  <2> QED
    BY <1>1, <1>2, <1>5, <1>6, <2>1, <2>2, StampsExtend DEF CloseEffect
<1>8. ParentsRight'
  <2>1. \A s \in Ids : /\ built'[s].start = built[s].start
                       /\ built'[s].parent = built[s].parent
    BY <1>1 DEF CloseEffect
  <2>2. \A s \in Ids : CurrentEnd(s)' = IF s \in OpenIds THEN pos + 1 ELSE built[s].end
    BY <1>1 DEF CloseEffect
  <2> QED
    BY <1>1, <1>2, <2>1, <2>2, ParentsKeep DEF CloseEffect
<1> QED
  BY <1>3, <1>4, <1>7, <1>8

(* PlainLine preserves the invariant. *)
LEMMA PlainStep ==
  ASSUME SegInv, PlainLine
  PROVE  StartsInOrder' /\ ClosedNest' /\ StampsRight' /\ ParentsRight'
<1>1. NumbersOK /\ PlainEffect
  BY Numbers, PlainFacts DEF SegInv
<1>2. StartsInOrder /\ ClosedNest /\ StampsRight /\ ParentsRight
  BY DEF SegInv
<1>3. StartsInOrder'
  BY <1>1, <1>2 DEF StartsInOrder, NumbersOK, PlainEffect
<1>4. ClosedNest'
  BY <1>1, <1>2 DEF ClosedNest, PlainEffect
<1>5. ASSUME NEW l \in 1..pos, NEW t \in Ids
      PROVE  ViewContains(t, l)' <=> ViewContains(t, l)
  BY <1>1 DEF ViewContains, CurrentEnd, NumbersOK, PlainEffect
<1>6. ASSUME NEW l, l = pos + 1, NEW t \in Ids
      PROVE  ViewContains(t, l)' <=> t \in OpenIds
  BY <1>1, <1>2, <1>6 DEF ViewContains, NumbersOK, PlainEffect, StartsInOrder
<1>7. StampsRight'
  <2>1. /\ OpenIds = {} => Top = NoSection
        /\ OpenIds # {} => Top \in OpenIds /\ \A t \in OpenIds : t <= Top
    BY TopOfStack DEF SegInv
  <2> QED
    BY <1>1, <1>2, <1>5, <1>6, <2>1, StampsExtend DEF PlainEffect
<1>8. ParentsRight'
  <2>1. \A s \in Ids : /\ built'[s].start = built[s].start
                       /\ built'[s].parent = built[s].parent
    BY <1>1 DEF PlainEffect
  <2>2. \A s \in Ids : CurrentEnd(s)' = IF s \in OpenIds THEN pos + 1 ELSE built[s].end
    BY <1>1 DEF PlainEffect
  <2> QED
    BY <1>1, <1>2, <2>1, <2>2, ParentsKeep DEF PlainEffect
<1> QED
  BY <1>3, <1>4, <1>7, <1>8

(* Finish preserves the invariant. *)
LEMMA FinishStep ==
  ASSUME SegInv, Finish
  PROVE  StartsInOrder' /\ ClosedNest' /\ StampsRight' /\ ParentsRight'
<1>1. NumbersOK /\ FinishEffect
  BY Numbers, FinishFacts DEF SegInv
<1>2. StartsInOrder /\ ClosedNest /\ StampsRight /\ ParentsRight
  BY DEF SegInv
<1>3. StartsInOrder'
  BY <1>1, <1>2 DEF StartsInOrder, NumbersOK, FinishEffect, CurrentEnd
<1>4. ClosedNest'
  BY <1>1, <1>2 DEF ClosedNest, FinishEffect, CurrentEnd
<1>5. \A t \in Ids, l \in 1..pos : ViewContains(t, l)' <=> ViewContains(t, l)
  BY <1>1 DEF ViewContains, FinishEffect
<1>6. StampsRight'
  <2>1. \A l \in 1..pos : sectionOf[l] \in Ids =>
          (ViewContains(sectionOf[l], l)' <=> ViewContains(sectionOf[l], l))
    BY <1>1 DEF ViewContains, FinishEffect, CurrentEnd
  <2> QED
    BY <1>1, <1>2, <1>5, <2>1 DEF StampsRight, NumbersOK, FinishEffect
<1>7. ParentsRight'
  <2>1. \A s \in Ids : built[s].parent \in Ids =>
          CurrentEnd(built[s].parent)' = CurrentEnd(built[s].parent)
    BY <1>1 DEF FinishEffect, CurrentEnd
  <2> QED
    BY <1>1, <1>2, <2>1 DEF ParentsRight, FinishEffect
<1> QED
  BY <1>3, <1>4, <1>6, <1>7

-----------------------------------------------------------------------------
(* The invariant and what follows from it. *)

(* The invariant holds before the first line. *)
LEMMA SegInvInit ==
  ASSUME Init
  PROVE  SegInv
<1>1. /\ pos = 0 /\ nextId = 0 /\ stack = << >> /\ finished = FALSE
      /\ built = [k \in {} |-> 0] /\ sectionOf = [l \in {} |-> 0]
      /\ log \in Seq(Marker)
  BY LogsAssumption DEF Init
<1>2. Ids = {} /\ 1..pos = {} /\ 1..Len(stack) = {} /\ Len(log) \in Nat
  BY <1>1, LenProperties DEF Ids
<1>3. TypeOK
  <2>1. pos \in 0..Len(log) /\ nextId \in Nat
    BY <1>1, <1>2
  <2>2. built \in [Ids -> Section]
    BY <1>1, <1>2
  <2>3. sectionOf \in [1..pos -> Ids \cup {NoSection}]
    BY <1>1, <1>2
  <2>4. stack \in Seq(Ids)
    BY <1>1, EmptySeq
  <2> QED
    BY <1>1, <2>1, <2>2, <2>3, <2>4, finished \in BOOLEAN DEF TypeOK
<1> QED
  BY <1>1, <1>2, <1>3
     DEF SegInv, StartsInOrder, StackSorted, ClosedNest, StampsRight, ParentsRight,
         FinishedInv

(* While a line is left to read, the ends have not been assigned. *)
LEMMA NotFinishedYet ==
  ASSUME SegInv, pos < Len(log)
  PROVE  ~finished
<1>1. pos # Len(log)
  BY Numbers DEF SegInv, NumbersOK
<1> QED
  BY <1>1 DEF SegInv, FinishedInv

(* Every step preserves the invariant. *)
LEMMA SegInvStep ==
  ASSUME SegInv, [Next]_vars
  PROVE  SegInv'
<1>1. TypeOK'
  BY TypeStep DEF SegInv
<1>2. CASE OpenGroup
  <2>1. StackSorted'
    BY <1>2, OpenPushes DEF SegInv
  <2>2. FinishedInv'
    <3>1. finished' = finished /\ pos < Len(log)
      BY <1>2, OpenFacts DEF SegInv, OpenEffect
    <3> QED
      BY <3>1, NotFinishedYet DEF FinishedInv
  <2> QED
    BY <1>1, <1>2, <2>1, <2>2, OpenStep DEF SegInv
<1>3. CASE CloseGroup
  <2>1. StackSorted'
    BY <1>3, ClosePops DEF SegInv
  <2>2. FinishedInv'
    <3>1. finished' = finished /\ pos < Len(log)
      BY <1>3, CloseFacts DEF SegInv, CloseEffect
    <3> QED
      BY <3>1, NotFinishedYet DEF FinishedInv
  <2> QED
    BY <1>1, <1>3, <2>1, <2>2, CloseStep DEF SegInv
<1>4. CASE PlainLine
  <2>1. StackSorted'
    BY <1>4, PlainFacts DEF SegInv, StackSorted, PlainEffect
  <2>2. FinishedInv'
    <3>1. finished' = finished /\ pos < Len(log)
      BY <1>4, PlainFacts DEF SegInv, PlainEffect
    <3> QED
      BY <3>1, NotFinishedYet DEF FinishedInv
  <2> QED
    BY <1>1, <1>4, <2>1, <2>2, PlainStep DEF SegInv
<1>5. CASE Finish
  <2>1. FinishEffect
    BY <1>5, FinishFacts DEF SegInv
  <2>2. StackSorted'
    BY <2>1 DEF SegInv, StackSorted, FinishEffect
  <2>3. FinishedInv'
    BY <2>1 DEF FinishedInv, FinishEffect, CurrentEnd
  <2> QED
    BY <1>1, <1>5, <2>2, <2>3, FinishStep DEF SegInv
<1>6. CASE UNCHANGED vars
  BY <1>6 DEF vars, SegInv, TypeOK, StartsInOrder, StackSorted, ClosedNest, StampsRight,
              ParentsRight, FinishedInv, Ids, OpenIds, ViewContains, CurrentEnd
<1> QED
  BY <1>2, <1>3, <1>4, <1>5, <1>6 DEF Next

(* For every set of logs, SegInv holds throughout build_sections. *)
THEOREM SegInvariant == Spec => []SegInv
<1>1. Init => SegInv
  BY SegInvInit
<1>2. SegInv /\ [Next]_vars => SegInv'
  BY SegInvStep
<1> QED
  BY <1>1, <1>2, PTL DEF Spec

(* Every variable of build_sections keeps its type; in particular every    *)
(* id on the stack and on a line is the id of a section that was built.    *)
THEOREM TypeCorrect == Spec => []TypeOK
<1>1. SegInv => TypeOK
  BY DEF SegInv
<1> QED
  BY <1>1, SegInvariant, PTL

(* Once finished, every section's end field is its current end.            *)
LEMMA FinishedEnds ==
  ASSUME SegInv, finished
  PROVE  \A s \in Ids : built[s].end = CurrentEnd(s)
BY TopOfStack DEF SegInv, FinishedInv, CurrentEnd

(* The sections of a finished log are nested or disjoint, however the      *)
(* markers were balanced.                                                  *)
THEOREM SpansAlwaysNest == Spec => []SpansNest
<1>1. ASSUME SegInv PROVE SpansNest
  <2> SUFFICES ASSUME finished, NEW s \in Ids, NEW t \in Ids, s < t
               PROVE  built[s].end < built[t].start \/ built[t].end <= built[s].end
    BY DEF SpansNest
  <2>1. StartsInOrder /\ ClosedNest /\ FinishedInv /\ NumbersOK
    BY <1>1, Numbers DEF SegInv
  <2>2. CASE s \in OpenIds
    BY <2>1, <2>2 DEF FinishedInv, StartsInOrder
  <2>3. CASE s \notin OpenIds
    BY <2>1, <2>3 DEF ClosedNest
  <2> QED
    BY <2>2, <2>3
<1> QED
  BY <1>1, SegInvariant, PTL

(* The section stamped on a line while reading is the innermost section    *)
(* holding the line once all spans are known.                              *)
THEOREM StampsAlwaysInnermost == Spec => []StampIsInnermost
<1>1. ASSUME SegInv PROVE StampIsInnermost
  <2> SUFFICES ASSUME finished, NEW l \in 1..Len(log)
               PROVE  LET holding == {s \in Ids : Contains(s, l)}
                      IN  IF holding = {} THEN sectionOf[l] = NoSection
                          ELSE /\ sectionOf[l] \in holding
                               /\ \A s \in holding : s <= sectionOf[l]
    BY DEF StampIsInnermost
  <2>1. l \in 1..pos /\ sectionOf[l] \in Ids \cup {NoSection}
    BY <1>1, Numbers DEF SegInv, FinishedInv, NumbersOK
  <2>2. \A s \in Ids : Contains(s, l) <=> ViewContains(s, l)
    BY <1>1, FinishedEnds DEF Contains, ViewContains
  <2>3. /\ sectionOf[l] = NoSection => \A t \in Ids : ~ViewContains(t, l)
        /\ sectionOf[l] # NoSection =>
             /\ ViewContains(sectionOf[l], l)
             /\ \A t \in Ids : ViewContains(t, l) => t <= sectionOf[l]
    BY <1>1, <2>1 DEF SegInv, StampsRight
  <2> QED
    BY <2>1, <2>2, <2>3
<1> QED
  BY <1>1, SegInvariant, PTL

(* parent_id is the innermost section around a section's first line. *)
THEOREM ParentsAlwaysInnermost == Spec => []ParentIsInnermost
<1>1. ASSUME SegInv PROVE ParentIsInnermost
  <2> SUFFICES ASSUME finished, NEW s \in Ids
               PROVE  LET around == {t \in Ids : t < s /\ Contains(t, built[s].start)}
                      IN  IF around = {} THEN built[s].parent = NoSection
                          ELSE /\ built[s].parent \in around
                               /\ \A t \in around : t <= built[s].parent
    BY DEF ParentIsInnermost
  <2> DEFINE around == {t \in Ids : t < s /\ Contains(t, built[s].start)}
  <2>1. StartsInOrder /\ ParentsRight /\ NumbersOK
    BY <1>1, Numbers DEF SegInv
  <2>2. \A t \in Ids : t \in around <=> t < s /\ built[s].start <= CurrentEnd(t)
    BY <1>1, <2>1, FinishedEnds DEF Contains, StartsInOrder, NumbersOK
  <2>3. \A t \in Ids : CurrentEnd(t) \in Int
    BY <2>1 DEF NumbersOK, CurrentEnd
  <2> HIDE DEF around
  <2>4. around \subseteq Ids
    BY DEF around
  <2>5. CASE built[s].parent = NoSection
    <3>1. around = {}
      BY <2>1, <2>2, <2>3, <2>4, <2>5 DEF ParentsRight, NumbersOK
    <3> QED
      BY <2>5, <3>1 DEF around
  <2>6. CASE built[s].parent # NoSection
    <3>1. /\ built[s].parent \in around
          /\ \A t \in Ids : built[s].parent < t /\ t < s =>
               CurrentEnd(t) < built[s].start
      BY <2>1, <2>2, <2>6 DEF ParentsRight
    <3>2. \A t \in around : t <= built[s].parent
      BY <2>1, <2>2, <2>3, <2>4, <3>1 DEF NumbersOK
    <3> QED
      BY <3>1, <3>2 DEF around
  <2> QED
    BY <2>5, <2>6
<1> QED
  BY <1>1, SegInvariant, PTL

-----------------------------------------------------------------------------
(* Refinement of the reference algorithm. *)

(* Sections with the same fields are the same. *)
LEMMA SectionsEqual ==
  ASSUME NEW r \in Section, NEW q \in Section,
         r.start = q.start, r.end = q.end, r.parent = q.parent
  PROVE  r = q
BY DEF Section

EagerFieldsOK ==
  \A s \in Ids : /\ EagerBuilt[s] \in Section
                 /\ EagerBuilt[s].start = built[s].start
                 /\ EagerBuilt[s].end = CurrentEnd(s)
                 /\ EagerBuilt[s].parent = built[s].parent

(* The fields of a section as the reference algorithm has it now. *)
LEMMA EagerFields == TypeOK => EagerFieldsOK
<1> SUFFICES ASSUME TypeOK, NEW s \in Ids
             PROVE  /\ EagerBuilt[s] \in Section
                    /\ EagerBuilt[s].start = built[s].start
                    /\ EagerBuilt[s].end = CurrentEnd(s)
                    /\ EagerBuilt[s].parent = built[s].parent
  BY DEF EagerFieldsOK
<1>1. built[s] \in Section /\ CurrentEnd(s) \in Nat
  BY Numbers DEF NumbersOK, Section, CurrentEnd
<1>2. EagerBuilt[s] = [built[s] EXCEPT !.end = CurrentEnd(s)]
  BY DEF EagerBuilt
<1> QED
  BY <1>1, <1>2, EndedSection

(* An eager rewrite of the open sections' ends, seen through the mapping.  *)
LEMMA StretchedIsEager ==
  ASSUME EagerFieldsOK', NEW f, DOMAIN f = Ids',
         NEW open, pos \in Nat,
         \A s \in Ids' : /\ f[s] \in Section
                         /\ built'[s].start = f[s].start
                         /\ built'[s].parent = f[s].parent
                         /\ CurrentEnd(s)' = IF s \in open THEN pos + 1 ELSE f[s].end
  PROVE  EagerBuilt' = Eager!Stretched(f, open)
<1>1. ASSUME NEW s \in Ids'
      PROVE  EagerBuilt'[s] = IF s \in open THEN [f[s] EXCEPT !.end = pos + 1] ELSE f[s]
  <2>1. /\ EagerBuilt'[s] \in Section
        /\ EagerBuilt'[s].start = f[s].start
        /\ EagerBuilt'[s].end = IF s \in open THEN pos + 1 ELSE f[s].end
        /\ EagerBuilt'[s].parent = f[s].parent
    BY DEF EagerFieldsOK
  <2>2. f[s] \in Section /\ pos + 1 \in Nat
    OBVIOUS
  <2>3. CASE s \in open
    <3>1. /\ [f[s] EXCEPT !.end = pos + 1] \in Section
          /\ [f[s] EXCEPT !.end = pos + 1].start = f[s].start
          /\ [f[s] EXCEPT !.end = pos + 1].end = pos + 1
          /\ [f[s] EXCEPT !.end = pos + 1].parent = f[s].parent
      BY <2>2, EndedSection
    <3> DEFINE r == EagerBuilt'[s]
               q == [f[s] EXCEPT !.end = pos + 1]
    <3>2. /\ r \in Section /\ q \in Section
          /\ r.start = q.start /\ r.end = q.end /\ r.parent = q.parent
      BY <2>1, <2>3, <3>1
    <3> HIDE DEF r, q
    <3>3. r = q
      BY <3>2, SectionsEqual
    <3> QED
      BY <2>3, <3>3 DEF r, q
  <2>4. CASE s \notin open
    BY <2>1, <2>2, <2>4, SectionsEqual
  <2> QED
    BY <2>3, <2>4
<1>2. EagerBuilt' = [s \in Ids' |-> EagerBuilt'[s]]
  BY DEF EagerBuilt
<1> QED
  BY <1>1, <1>2 DEF Eager!Stretched

(* Every step is a step of the reference algorithm, or a stutter of it. *)
LEMMA EagerStep ==
  ASSUME SegInv, SegInv', [Next]_vars
  PROVE  [Eager!Next]_(Eager!vars)
<1>1. TypeOK /\ StackSorted /\ NumbersOK /\ EagerFieldsOK /\ EagerFieldsOK'
  <2>1. TypeOK' => EagerFieldsOK'
    BY EagerFields, PTL
  <2> QED
    BY <2>1, Numbers, EagerFields DEF SegInv
<1>2. Eager!OpenIds = OpenIds /\ Eager!Top = Top
  BY DEF Eager!OpenIds, OpenIds, Eager!Top, Top, Eager!NoSection, NoSection
<1>3. \A id : Eager!Stamped(id) = Stamped(id)
  BY DEF Eager!Stamped, Stamped
<1>4. CASE OpenGroup
  <2>1. OpenEffect
    BY <1>1, <1>4, OpenFacts
  <2> DEFINE f == Eager!WithNewSection
  <2>2. f = [k \in 0..nextId |-> IF k = nextId THEN NewSection ELSE EagerBuilt[k]]
    BY <1>2 DEF Eager!WithNewSection, Eager!NewSection, NewSection
  <2> HIDE DEF f
  <2>3. DOMAIN f = Ids' /\ nextId \in 0..nextId /\ Ids \subseteq 0..nextId
    <3>1. nextId' = nextId + 1
      BY <1>4 DEF OpenGroup
    <3> QED
      BY <1>1, <2>2, <3>1 DEF NumbersOK, Ids
  <2>4. f[nextId] = NewSection /\ \A s \in Ids : f[s] = EagerBuilt[s]
    BY <2>1, <2>2, <2>3 DEF OpenEffect
  <2>5. NewSection \in Section /\ NewSection.start = pos + 1 /\ NewSection.end = pos + 1
        /\ NewSection.parent = Top
    <3>1. Top \in Int
      BY <1>1, TopOfStack DEF NumbersOK
    <3> QED
      BY <1>1, <3>1 DEF NewSection, Section, NumbersOK
  <2>6. \A s \in Ids' :
          /\ f[s] \in Section
          /\ built'[s].start = f[s].start
          /\ built'[s].parent = f[s].parent
          /\ CurrentEnd(s)' = IF s \in OpenIds THEN pos + 1 ELSE f[s].end
    <3> SUFFICES ASSUME NEW s \in Ids'
                 PROVE  /\ f[s] \in Section
                        /\ built'[s].start = f[s].start
                        /\ built'[s].parent = f[s].parent
                        /\ CurrentEnd(s)' = IF s \in OpenIds THEN pos + 1 ELSE f[s].end
      OBVIOUS
    <3>1. CASE s = nextId
      BY <2>1, <2>4, <2>5, <3>1 DEF OpenEffect
    <3>2. CASE s \in Ids
      <4>1. f[s] = EagerBuilt[s] /\ built'[s] = built[s]
            /\ CurrentEnd(s)' = IF s \in OpenIds THEN pos + 1 ELSE built[s].end
        BY <2>1, <2>4, <3>2 DEF OpenEffect
      <4> QED
        BY <1>1, <3>2, <4>1 DEF EagerFieldsOK, CurrentEnd
    <3> QED
      BY <2>1, <3>1, <3>2 DEF OpenEffect
  <2>7. EagerBuilt' = Eager!Stretched(f, OpenIds)
    BY <1>1, <2>3, <2>6, StretchedIsEager DEF NumbersOK
  <2> QED
    BY <1>2, <1>3, <1>4, <2>7
       DEF OpenGroup, ReadLine, Eager!OpenGroup, Eager!ReadLine, Eager!Next, f
<1>5. CASE CloseGroup
  <2>1. CloseEffect
    BY <1>1, <1>5, CloseFacts
  <2>2. DOMAIN EagerBuilt = Ids'
    BY <2>1 DEF EagerBuilt, CloseEffect
  <2>3. \A s \in Ids' :
          /\ EagerBuilt[s] \in Section
          /\ built'[s].start = EagerBuilt[s].start
          /\ built'[s].parent = EagerBuilt[s].parent
          /\ CurrentEnd(s)' = IF s \in OpenIds THEN pos + 1 ELSE EagerBuilt[s].end
    BY <1>1, <2>1 DEF EagerFieldsOK, CloseEffect, CurrentEnd
  <2>4. EagerBuilt' = Eager!Stretched(EagerBuilt, OpenIds)
    BY <1>1, <2>2, <2>3, StretchedIsEager DEF NumbersOK
  <2> QED
    BY <1>2, <1>3, <1>5, <2>4
       DEF CloseGroup, ReadLine, Eager!CloseGroup, Eager!ReadLine, Eager!Next
<1>6. CASE PlainLine
  <2>1. PlainEffect
    BY <1>1, <1>6, PlainFacts
  <2>2. DOMAIN EagerBuilt = Ids'
    BY <2>1 DEF EagerBuilt, PlainEffect
  <2>3. \A s \in Ids' :
          /\ EagerBuilt[s] \in Section
          /\ built'[s].start = EagerBuilt[s].start
          /\ built'[s].parent = EagerBuilt[s].parent
          /\ CurrentEnd(s)' = IF s \in OpenIds THEN pos + 1 ELSE EagerBuilt[s].end
    BY <1>1, <2>1 DEF EagerFieldsOK, PlainEffect, CurrentEnd
  <2>4. EagerBuilt' = Eager!Stretched(EagerBuilt, OpenIds)
    BY <1>1, <2>2, <2>3, StretchedIsEager DEF NumbersOK
  <2> QED
    BY <1>2, <1>3, <1>6, <2>4
       DEF PlainLine, ReadLine, Eager!PlainLine, Eager!ReadLine, Eager!Next
<1>7. CASE Finish
  <2>1. FinishEffect
    BY <1>1, <1>7, FinishFacts
  <2>2. ASSUME NEW s \in Ids
        PROVE  EagerBuilt'[s] = EagerBuilt[s]
    <3>1. /\ EagerBuilt'[s] \in Section /\ EagerBuilt[s] \in Section
          /\ EagerBuilt'[s].start = EagerBuilt[s].start
          /\ EagerBuilt'[s].end = EagerBuilt[s].end
          /\ EagerBuilt'[s].parent = EagerBuilt[s].parent
      BY <1>1, <2>1 DEF EagerFieldsOK, FinishEffect
    <3> QED
      BY <3>1, SectionsEqual
  <2>3. EagerBuilt' = [s \in Ids |-> EagerBuilt'[s]]
        /\ EagerBuilt = [s \in Ids |-> EagerBuilt[s]]
    BY <2>1 DEF EagerBuilt, FinishEffect
  <2>4. EagerBuilt' = EagerBuilt
    BY <2>2, <2>3
  <2> QED
    BY <2>1, <2>4 DEF FinishEffect, Eager!vars
<1>8. CASE UNCHANGED vars
  <2>1. EagerBuilt' = EagerBuilt
    BY <1>8 DEF vars, EagerBuilt, CurrentEnd, Ids, OpenIds
  <2> QED
    BY <1>8, <2>1 DEF vars, Eager!vars
<1> QED
  BY <1>4, <1>5, <1>6, <1>7, <1>8 DEF Next

(* build_sections implements the reference algorithm of its differential   *)
(* test on every log, not only on the random ones the test draws.          *)
THEOREM RefinesReference == Spec => ImplementsReference
<1>1. Init => Eager!Init
  <2> SUFFICES ASSUME Init PROVE EagerBuilt = [k \in {} |-> 0]
    BY DEF Init, Eager!Init
  <2>1. Ids = {}
    BY DEF Init, Ids
  <2> QED
    BY <2>1 DEF EagerBuilt
<1>2. SegInv /\ SegInv' /\ [Next]_vars => [Eager!Next]_(Eager!vars)
  BY EagerStep
<1>3. SegInv => (finished => built = EagerBuilt)
  <2> SUFFICES ASSUME SegInv, finished PROVE built = EagerBuilt
    OBVIOUS
  <2>1. EagerFieldsOK /\ NumbersOK /\ built = [s \in Ids |-> built[s]]
    BY EagerFields, Numbers DEF SegInv, TypeOK
  <2>2. \A s \in Ids : built[s] = EagerBuilt[s]
    BY <2>1, FinishedEnds, SectionsEqual DEF EagerFieldsOK, NumbersOK
  <2> QED
    BY <2>1, <2>2 DEF EagerBuilt
<1> QED
  BY <1>1, <1>2, <1>3, SegInvariant, PTL DEF Spec, Eager!Spec, ImplementsReference

-----------------------------------------------------------------------------
(* The brackets.  Since an open group began, more groups were opened than   *)
(* closed, by as many as are open from it to the top of the stack; since a  *)
(* closed one began, as many at its end, and not before.                    *)

CountIn(ls, m, i, j) == Cardinality({k \in i..j : ls[k] = m})

Opened(i, j) == CountIn(log, "group", i, j)

Closed(i, j) == CountIn(log, "endgroup", i, j)

StartsAreGroups ==
  {built[s].start : s \in Ids} = {l \in 1..pos : log[l] = "group"}

OpenAreUnmatched ==
  \A i \in 1..Len(stack) :
    LET a == built[stack[i]].start
    IN  /\ Opened(a, pos) = Closed(a, pos) + Len(stack) - i + 1
        /\ \A j \in a..pos : Opened(a, j) > Closed(a, j)

ClosedAreMatched ==
  \A s \in Ids \ OpenIds :
    LET a == built[s].start
        e == built[s].end
    IN  /\ Opened(a, e) = Closed(a, e)
        /\ \A j \in a..e - 1 : Opened(a, j) > Closed(a, j)

BracketInv == SegInv /\ StartsAreGroups /\ OpenAreUnmatched /\ ClosedAreMatched

(* Counting lines: none in an empty stretch, one more line at a time. *)
LEMMA CountNext ==
  ASSUME NEW ls, NEW m, NEW i \in Int, NEW j \in Int
  PROVE  /\ CountIn(ls, m, i, j) \in Nat
         /\ j < i => CountIn(ls, m, i, j) = 0
         /\ i <= j + 1 =>
              CountIn(ls, m, i, j + 1) = CountIn(ls, m, i, j) + IF ls[j + 1] = m THEN 1 ELSE 0
<1> DEFINE L(n) == {k \in i..n : ls[k] = m}
<1>1. IsFiniteSet(L(j)) /\ CountIn(ls, m, i, j) = Cardinality(L(j)) /\ Cardinality(L(j)) \in Nat
  <2>1. IsFiniteSet(i..j)
    BY FS_Interval
  <2>2. IsFiniteSet(L(j))
    BY <2>1, FS_Subset
  <2> QED
    BY <2>2, FS_CardinalityType DEF CountIn
<1>2. ASSUME j < i PROVE CountIn(ls, m, i, j) = 0
  <2>1. L(j) = {}
    BY <1>2
  <2> QED
    BY <1>1, <2>1, FS_EmptySet
<1>3. ASSUME i <= j + 1
      PROVE  CountIn(ls, m, i, j + 1) = CountIn(ls, m, i, j) + IF ls[j + 1] = m THEN 1 ELSE 0
  <2>1. CountIn(ls, m, i, j + 1) = Cardinality(L(j + 1))
    BY DEF CountIn
  <2>2. CASE ls[j + 1] = m
    <3>1. L(j + 1) = L(j) \cup {j + 1} /\ j + 1 \notin L(j)
      BY <1>3, <2>2
    <3> HIDE DEF L
    <3>2. Cardinality(L(j) \cup {j + 1}) = Cardinality(L(j)) + 1
      BY <1>1, <3>1, FS_AddElement
    <3> QED
      BY <1>1, <2>1, <2>2, <3>1, <3>2
  <2>3. CASE ls[j + 1] # m
    <3>1. L(j + 1) = L(j)
      BY <1>3, <2>3
    <3> HIDE DEF L
    <3> QED
      BY <1>1, <2>1, <2>3, <3>1
  <2> QED
    BY <2>2, <2>3
<1> QED
  BY <1>1, <1>2, <1>3

(* The section on a place of the stack, and where it starts. *)
LEMMA OnStack ==
  ASSUME SegInv
  PROVE  /\ Len(stack) \in Nat /\ pos \in Nat /\ nextId \in Nat
         /\ \A i \in 1..Len(stack) :
              /\ stack[i] \in Ids /\ stack[i] \in OpenIds
              /\ built[stack[i]].start \in Nat
              /\ 1 <= built[stack[i]].start /\ built[stack[i]].start <= pos
         /\ \A s \in Ids : /\ built[s].start \in Nat /\ built[s].end \in Nat
                           /\ 1 <= built[s].start /\ built[s].start <= built[s].end
                           /\ built[s].end <= pos
<1>1. TypeOK /\ StartsInOrder
  BY DEF SegInv
<1>2. Len(stack) \in Nat /\ \A i \in 1..Len(stack) : stack[i] \in Ids
  BY <1>1, ElementOfSeq, LenProperties DEF TypeOK
<1>3. pos \in Nat /\ nextId \in Nat /\ \A s \in Ids : built[s] \in Section
  BY <1>1, Numbers DEF NumbersOK
<1>4. \A s \in Ids : built[s].start \in Nat /\ built[s].end \in Nat
  BY <1>3 DEF Section
<1>5. \A i \in 1..Len(stack) : stack[i] \in OpenIds
  BY DEF OpenIds
<1> QED
  BY <1>1, <1>2, <1>3, <1>4, <1>5 DEF StartsInOrder

(* A GROUP line opens one more bracket than it closes, around all open ones. *)
LEMMA OpenBrackets ==
  ASSUME BracketInv, OpenGroup
  PROVE  StartsAreGroups' /\ OpenAreUnmatched' /\ ClosedAreMatched'
<1> DEFINE p == pos + 1
           G(a, j) == CountIn(log, "group", a, j)
           E(a, j) == CountIn(log, "endgroup", a, j)
<1>1. SegInv /\ TypeOK /\ StackSorted /\ StartsAreGroups /\ OpenAreUnmatched /\ ClosedAreMatched
  BY DEF BracketInv, SegInv
<1>2. OpenEffect
  BY <1>1, OpenFacts
<1>3. log[p] = "group" /\ stack' = Append(stack, nextId)
  BY DEF OpenGroup, ReadLine
<1>4. /\ pos \in Nat /\ p \in Nat /\ Len(stack) \in Nat
      /\ \A i \in 1..Len(stack) :
           /\ stack[i] \in Ids /\ built[stack[i]].start \in Nat
           /\ 1 <= built[stack[i]].start /\ built[stack[i]].start <= pos
      /\ \A s \in Ids : built[s].start \in Nat
  BY <1>1, OnStack
<1>5. \A a \in 1..pos : G(a, p) = G(a, pos) + 1 /\ E(a, p) = E(a, pos)
                        /\ G(a, pos) \in Nat /\ E(a, pos) \in Nat
  <2>1. SUFFICES ASSUME NEW a \in 1..pos
                 PROVE  G(a, pos + 1) = G(a, pos) + 1 /\ E(a, pos + 1) = E(a, pos)
                        /\ G(a, pos) \in Nat /\ E(a, pos) \in Nat
    OBVIOUS
  <2>2. a \in Int /\ pos \in Int /\ a <= pos + 1
    BY <1>4
  <2>3. /\ G(a, pos + 1) = G(a, pos) + (IF log[pos + 1] = "group" THEN 1 ELSE 0)
        /\ E(a, pos + 1) = E(a, pos) + (IF log[pos + 1] = "endgroup" THEN 1 ELSE 0)
        /\ G(a, pos) \in Nat /\ E(a, pos) \in Nat
    BY <2>2, CountNext
  <2> HIDE DEF G, E
  <2> QED
    BY <1>3, <2>3
<1>6. G(p, p) = 1 /\ E(p, p) = 0
  <2>1. p \in Int /\ pos \in Int /\ pos < p /\ p <= pos + 1
    BY <1>4
  <2>2. /\ G(p, pos + 1) = G(p, pos) + (IF log[pos + 1] = "group" THEN 1 ELSE 0)
        /\ E(p, pos + 1) = E(p, pos) + (IF log[pos + 1] = "endgroup" THEN 1 ELSE 0)
        /\ G(p, pos) = 0 /\ E(p, pos) = 0
    BY <2>1, CountNext
  <2> HIDE DEF G, E
  <2> QED
    BY <1>3, <2>2
<1>7. /\ pos' = p /\ log' = log
      /\ Ids' = Ids \cup {nextId} /\ nextId \notin Ids
      /\ OpenIds' = OpenIds \cup {nextId}
      /\ \A s \in Ids : built'[s] = built[s]
      /\ built'[nextId].start = p
  BY <1>2 DEF OpenEffect
<1>8. /\ Len(stack') = Len(stack) + 1 /\ stack'[Len(stack) + 1] = nextId
      /\ \A i \in 1..Len(stack) : stack'[i] = stack[i]
  BY <1>1, <1>3, AppendProperties DEF TypeOK
<1> HIDE DEF p
<1>9. StartsAreGroups'
  <2>1. {built'[s].start : s \in Ids'} = {built[s].start : s \in Ids} \cup {p}
    BY <1>7
  <2>2. {l \in 1..p : log[l] = "group"} = {l \in 1..pos : log[l] = "group"} \cup {p}
    BY <1>3, <1>4 DEF p
  <2> QED
    BY <1>1, <1>7, <2>1, <2>2 DEF StartsAreGroups
<1>10. OpenAreUnmatched'
  <2>1. SUFFICES ASSUME NEW i \in 1..Len(stack) + 1
                 PROVE  LET a == built'[stack'[i]].start
                        IN  /\ G(a, p) = E(a, p) + (Len(stack) + 1) - i + 1
                            /\ \A j \in a..p : G(a, j) > E(a, j)
    BY <1>7, <1>8 DEF OpenAreUnmatched, Opened, Closed
  <2> HIDE DEF G, E
  <2>2. CASE i = Len(stack) + 1
    <3>1. built'[stack'[i]].start = p
      BY <1>7, <1>8, <2>2
    <3>2. \A j \in p..p : j = p
      BY <1>4
    <3>3. G(p, p) = E(p, p) + (Len(stack) + 1) - i + 1 /\ \A j \in p..p : G(p, j) > E(p, j)
      BY <1>4, <1>6, <2>2, <3>2
    <3> QED
      BY <3>1, <3>3
  <2>3. CASE i \in 1..Len(stack)
    <3> DEFINE a == built[stack[i]].start
    <3>1. built'[stack'[i]].start = a /\ a \in 1..pos
      BY <1>4, <1>7, <1>8, <2>3
    <3>2. /\ G(a, pos) = E(a, pos) + Len(stack) - i + 1
          /\ \A j \in a..pos : G(a, j) > E(a, j)
      BY <1>1, <2>3 DEF OpenAreUnmatched, Opened, Closed, G, E
    <3>3. G(a, p) = G(a, pos) + 1 /\ E(a, p) = E(a, pos) /\ G(a, pos) \in Nat /\ E(a, pos) \in Nat
      BY <1>5, <3>1
    <3> HIDE DEF a
    <3>4. G(a, p) = E(a, p) + (Len(stack) + 1) - i + 1 /\ G(a, p) > E(a, p)
      BY <1>4, <2>1, <2>3, <3>2, <3>3
    <3>5. \A j \in a..p : j \in a..pos \/ j = p
      BY <1>4, <3>1 DEF p
    <3>6. \A j \in a..p : G(a, j) > E(a, j)
      BY <3>2, <3>4, <3>5
    <3> QED
      BY <3>1, <3>4, <3>6
  <2> QED
    BY <1>4, <2>2, <2>3
<1>11. ClosedAreMatched'
  <2>1. Ids' \ OpenIds' \subseteq Ids \ OpenIds
    BY <1>7
  <2>2. \A s \in Ids' \ OpenIds' : built'[s] = built[s]
    BY <1>7
  <2> QED
    BY <1>1, <1>7, <2>1, <2>2 DEF ClosedAreMatched, Opened, Closed
<1> QED
  BY <1>9, <1>10, <1>11

(* An ENDGROUP line closes the top of the stack and matches it. *)
LEMMA CloseBrackets ==
  ASSUME BracketInv, CloseGroup
  PROVE  StartsAreGroups' /\ OpenAreUnmatched' /\ ClosedAreMatched'
<1> DEFINE p == pos + 1
           G(a, j) == CountIn(log, "group", a, j)
           E(a, j) == CountIn(log, "endgroup", a, j)
<1>1. SegInv /\ TypeOK /\ StackSorted /\ StartsAreGroups /\ OpenAreUnmatched /\ ClosedAreMatched
  BY DEF BracketInv, SegInv
<1>2. CloseEffect
  BY <1>1, CloseFacts
<1>3. log[p] = "endgroup" /\ stack # << >> /\ stack' = SubSeq(stack, 1, Len(stack) - 1)
  BY DEF CloseGroup, ReadLine
<1>4. /\ pos \in Nat /\ p \in Nat /\ Len(stack) \in Nat
      /\ \A i \in 1..Len(stack) :
           /\ stack[i] \in Ids /\ built[stack[i]].start \in Nat
           /\ 1 <= built[stack[i]].start /\ built[stack[i]].start <= pos
      /\ \A s \in Ids : built[s].start \in Nat /\ built[s].end \in Nat /\ built[s].end <= pos
  BY <1>1, OnStack
<1>5. \A a \in 1..pos : G(a, p) = G(a, pos) /\ E(a, p) = E(a, pos) + 1
                        /\ G(a, pos) \in Nat /\ E(a, pos) \in Nat
  <2>1. SUFFICES ASSUME NEW a \in 1..pos
                 PROVE  G(a, pos + 1) = G(a, pos) /\ E(a, pos + 1) = E(a, pos) + 1
                        /\ G(a, pos) \in Nat /\ E(a, pos) \in Nat
    OBVIOUS
  <2>2. a \in Int /\ pos \in Int /\ a <= pos + 1
    BY <1>4
  <2>3. /\ G(a, pos + 1) = G(a, pos) + (IF log[pos + 1] = "group" THEN 1 ELSE 0)
        /\ E(a, pos + 1) = E(a, pos) + (IF log[pos + 1] = "endgroup" THEN 1 ELSE 0)
        /\ G(a, pos) \in Nat /\ E(a, pos) \in Nat
    BY <2>2, CountNext
  <2> HIDE DEF G, E
  <2> QED
    BY <1>3, <2>3
<1>6. /\ pos' = p /\ log' = log /\ Ids' = Ids
      /\ OpenIds' = OpenIds \ {Top} /\ Top \in OpenIds /\ OpenIds \subseteq Ids
      /\ \A s \in Ids : /\ built'[s].start = built[s].start
                        /\ built'[s].end = IF s = Top THEN p ELSE built[s].end
  BY <1>2 DEF CloseEffect
<1>7. Len(stack) # 0 /\ Top = stack[Len(stack)]
  BY <1>1, <1>3, EmptySeq DEF TypeOK, Top
<1>8. /\ Len(stack') = Len(stack) - 1
      /\ \A i \in 1..Len(stack) - 1 : stack'[i] = stack[i]
  <2> DEFINE n == Len(stack) - 1
  <2>1. n \in Nat /\ 1 \in Int /\ n \in Int /\ \A i \in 1..n : stack[i] \in Ids
    BY <1>4, <1>7
  <2> HIDE DEF n
  <2>2. /\ Len(SubSeq(stack, 1, n)) = IF 1 <= n THEN n - 1 + 1 ELSE 0
        /\ \A i \in 1..n - 1 + 1 : SubSeq(stack, 1, n)[i] = stack[1 + i - 1]
    BY <2>1, SubSeqProperties
  <2>3. n - 1 + 1 = n /\ (~(1 <= n) => n = 0) /\ \A i \in 1..n : 1 + i - 1 = i
    BY <2>1
  <2>4. Len(SubSeq(stack, 1, n)) = n /\ \A i \in 1..n : SubSeq(stack, 1, n)[i] = stack[i]
    BY <2>2, <2>3
  <2> QED
    BY <1>3, <2>4 DEF n
<1> HIDE DEF p
<1>9. StartsAreGroups'
  <2>1. {built'[s].start : s \in Ids'} = {built[s].start : s \in Ids}
    BY <1>6
  <2>2. {l \in 1..p : log[l] = "group"} = {l \in 1..pos : log[l] = "group"}
    BY <1>3, <1>4 DEF p
  <2> QED
    BY <1>1, <1>6, <2>1, <2>2 DEF StartsAreGroups
<1>10. ASSUME NEW i \in 1..Len(stack), NEW a, a = built[stack[i]].start
       PROVE  /\ G(a, p) = E(a, p) + (Len(stack) - 1) - i + 1
              /\ \A j \in a..pos : G(a, j) > E(a, j)
              /\ a \in 1..pos
  <2>1. a \in 1..pos
    BY <1>4, <1>10
  <2>2. /\ G(a, pos) = E(a, pos) + Len(stack) - i + 1
        /\ \A j \in a..pos : G(a, j) > E(a, j)
    BY <1>1, <1>10 DEF OpenAreUnmatched, Opened, Closed, G, E
  <2>3. G(a, p) = G(a, pos) /\ E(a, p) = E(a, pos) + 1 /\ G(a, pos) \in Nat /\ E(a, pos) \in Nat
    BY <1>5, <2>1
  <2> HIDE DEF G, E
  <2> QED
    BY <1>4, <1>10, <2>1, <2>2, <2>3
<1>11. OpenAreUnmatched'
  <2>1. SUFFICES ASSUME NEW i \in 1..Len(stack) - 1
                 PROVE  LET a == built'[stack'[i]].start
                        IN  /\ G(a, p) = E(a, p) + (Len(stack) - 1) - i + 1
                            /\ \A j \in a..p : G(a, j) > E(a, j)
    BY <1>6, <1>8 DEF OpenAreUnmatched, Opened, Closed
  <2> DEFINE a == built[stack[i]].start
  <2>2. i \in 1..Len(stack) /\ stack[i] \in Ids
    BY <1>4
  <2>3. built'[stack'[i]].start = a
    BY <1>6, <1>8, <2>2
  <2>4. /\ G(a, p) = E(a, p) + (Len(stack) - 1) - i + 1
        /\ \A j \in a..pos : G(a, j) > E(a, j)
        /\ a \in 1..pos
    BY <1>10, <2>2
  <2> HIDE DEF a, G, E
  <2>5. G(a, p) \in Nat /\ E(a, p) \in Nat
    BY SMTT(40), <1>4, <1>5, <2>4
  <2>6. G(a, p) > E(a, p)
    BY <1>4, <2>1, <2>4, <2>5
  <2>7. \A j \in a..p : j \in a..pos \/ j = p
    BY <1>4, <2>4 DEF p
  <2> QED
    BY <2>3, <2>4, <2>6, <2>7
<1>12. ClosedAreMatched'
  <2>1. SUFFICES ASSUME NEW s \in Ids, s \notin OpenIds \/ s = Top
                 PROVE  LET a == built'[s].start
                            e == built'[s].end
                        IN  /\ G(a, e) = E(a, e)
                            /\ \A j \in a..e - 1 : G(a, j) > E(a, j)
    BY <1>6 DEF ClosedAreMatched, Opened, Closed
  <2>2. CASE s = Top
    <3> DEFINE a == built[Top].start
    <3>1. built'[s].start = a /\ built'[s].end = p
      BY <1>6, <2>2
    <3>2. Len(stack) \in 1..Len(stack) /\ a = built[stack[Len(stack)]].start
      BY <1>4, <1>7
    <3>3. /\ G(a, p) = E(a, p) + (Len(stack) - 1) - Len(stack) + 1
          /\ \A j \in a..pos : G(a, j) > E(a, j)
          /\ a \in 1..pos
      BY <1>10, <3>2
    <3>5. p - 1 = pos
      BY <1>4 DEF p
    <3> HIDE DEF a, G, E
    <3>4. G(a, p) \in Nat /\ E(a, p) \in Nat
      BY <1>4, <1>5, <3>3
    <3>6. G(a, p) = E(a, p)
      BY <1>4, <3>3, <3>4
    <3> QED
      BY <3>1, <3>3, <3>5, <3>6
  <2>3. CASE s # Top
    <3>1. s \in Ids \ OpenIds /\ built'[s].start = built[s].start /\ built'[s].end = built[s].end
      BY <1>6, <2>1, <2>3
    <3> QED
      BY <1>1, <3>1 DEF ClosedAreMatched, Opened, Closed
  <2> QED
    BY <2>2, <2>3
<1> QED
  BY <1>9, <1>11, <1>12

(* Other lines count as no bracket of an open group: an ENDGROUP among them *)
(* meets an empty stack.                                                    *)
LEMMA PlainBrackets ==
  ASSUME BracketInv, PlainLine
  PROVE  StartsAreGroups' /\ OpenAreUnmatched' /\ ClosedAreMatched'
<1> DEFINE p == pos + 1
           G(a, j) == CountIn(log, "group", a, j)
           E(a, j) == CountIn(log, "endgroup", a, j)
<1>1. SegInv /\ TypeOK /\ StackSorted /\ StartsAreGroups /\ OpenAreUnmatched /\ ClosedAreMatched
  BY DEF BracketInv, SegInv
<1>2. PlainEffect
  BY <1>1, PlainFacts
<1>3. log[p] = "other" \/ (log[p] = "endgroup" /\ stack = << >>)
  BY DEF PlainLine, ReadLine
<1>4. /\ pos \in Nat /\ p \in Nat /\ Len(stack) \in Nat
      /\ \A i \in 1..Len(stack) :
           /\ stack[i] \in Ids /\ built[stack[i]].start \in Nat
           /\ 1 <= built[stack[i]].start /\ built[stack[i]].start <= pos
  BY <1>1, OnStack
<1>5. /\ pos' = p /\ log' = log /\ Ids' = Ids /\ OpenIds' = OpenIds
      /\ built' = built /\ stack' = stack
  BY <1>2 DEF PlainEffect
<1>6. StartsAreGroups'
  <2>1. {l \in 1..p : log[l] = "group"} = {l \in 1..pos : log[l] = "group"}
    BY <1>3, <1>4
  <2> HIDE DEF p
  <2> QED
    BY <1>1, <1>5, <2>1 DEF StartsAreGroups
<1>7. OpenAreUnmatched'
  <2> HIDE DEF p
  <2>1. SUFFICES ASSUME NEW i \in 1..Len(stack)
                 PROVE  LET a == built[stack[i]].start
                        IN  /\ G(a, p) = E(a, p) + Len(stack) - i + 1
                            /\ \A j \in a..p : G(a, j) > E(a, j)
    BY <1>5 DEF OpenAreUnmatched, Opened, Closed
  <2> DEFINE a == built[stack[i]].start
  <2>2. a \in 1..pos /\ log[p] = "other"
    <3>1. stack # << >>
      BY <1>4, <2>1, Len(<< >>) = 0
    <3> QED
      BY <1>3, <1>4, <3>1
  <2>3. /\ G(a, pos) = E(a, pos) + Len(stack) - i + 1
        /\ \A j \in a..pos : G(a, j) > E(a, j)
    BY <1>1 DEF OpenAreUnmatched, Opened, Closed
  <2>4. G(a, p) = G(a, pos) /\ E(a, p) = E(a, pos) /\ G(a, pos) \in Nat /\ E(a, pos) \in Nat
    <3>1. a \in Int /\ pos \in Int /\ a <= pos + 1
      BY <1>4, <2>2
    <3> HIDE DEF a
    <3>2. /\ G(a, pos + 1) = G(a, pos) + (IF log[pos + 1] = "group" THEN 1 ELSE 0)
          /\ E(a, pos + 1) = E(a, pos) + (IF log[pos + 1] = "endgroup" THEN 1 ELSE 0)
          /\ G(a, pos) \in Nat /\ E(a, pos) \in Nat
      BY <3>1, CountNext
    <3> HIDE DEF G, E
    <3> QED
      BY <2>2, <3>2 DEF p
  <2> HIDE DEF a, G, E
  <2>5. pos \in a..pos
    BY <1>4, <2>2
  <2>6. G(a, p) > E(a, p)
    BY <2>3, <2>4, <2>5
  <2>7. \A j \in a..p : j \in a..pos \/ j = p
    BY <1>4, <2>2 DEF p
  <2>8. G(a, p) = E(a, p) + Len(stack) - i + 1 /\ \A j \in a..p : G(a, j) > E(a, j)
    BY <2>3, <2>4, <2>6, <2>7
  <2> QED
    BY <2>8 DEF a
<1>8. ClosedAreMatched'
  BY <1>1, <1>5 DEF ClosedAreMatched, Opened, Closed
<1> QED
  BY <1>6, <1>7, <1>8

(* Ending the open sections changes no start and no closed section. *)
LEMMA FinishBrackets ==
  ASSUME BracketInv, Finish
  PROVE  StartsAreGroups' /\ OpenAreUnmatched' /\ ClosedAreMatched'
<1>1. SegInv /\ TypeOK /\ StackSorted /\ StartsAreGroups /\ OpenAreUnmatched /\ ClosedAreMatched
  BY DEF BracketInv, SegInv
<1>2. /\ pos' = pos /\ log' = log /\ Ids' = Ids /\ OpenIds' = OpenIds /\ stack' = stack
      /\ \A s \in Ids : /\ built'[s].start = built[s].start
                        /\ s \notin OpenIds => built'[s].end = built[s].end
  BY <1>1, FinishFacts DEF FinishEffect, CurrentEnd
<1>3. \A i \in 1..Len(stack) : stack[i] \in Ids
  BY <1>1, OnStack
<1>4. StartsAreGroups'
  <2>1. {built'[s].start : s \in Ids'} = {built[s].start : s \in Ids}
    BY <1>2
  <2> QED
    BY <1>1, <1>2, <2>1 DEF StartsAreGroups
<1>5. OpenAreUnmatched'
  BY <1>1, <1>2, <1>3 DEF OpenAreUnmatched, Opened, Closed
<1>6. ClosedAreMatched'
  BY <1>1, <1>2 DEF ClosedAreMatched, Opened, Closed
<1> QED
  BY <1>4, <1>5, <1>6

(* The brackets are paired at every point of every log. *)
THEOREM BracketInvariant == Spec => []BracketInv
<1>1. Init => BracketInv
  <2> SUFFICES ASSUME Init PROVE BracketInv
    OBVIOUS
  <2>1. Ids = {} /\ Len(stack) = 0 /\ pos = 0
    BY DEF Init, Ids
  <2>2. {built[s].start : s \in Ids} = {} /\ {l \in 1..pos : log[l] = "group"} = {}
    BY <2>1
  <2> QED
    BY <2>1, <2>2, SegInvInit
       DEF BracketInv, StartsAreGroups, OpenAreUnmatched, ClosedAreMatched
<1>2. BracketInv /\ [Next]_vars => BracketInv'
  <2> SUFFICES ASSUME BracketInv, [Next]_vars PROVE BracketInv'
    OBVIOUS
  <2>1. SegInv'
    BY SegInvStep DEF BracketInv
  <2>2. StartsAreGroups' /\ OpenAreUnmatched' /\ ClosedAreMatched'
    <3>1. CASE UNCHANGED vars
      BY <3>1 DEF BracketInv, vars, StartsAreGroups, OpenAreUnmatched, ClosedAreMatched,
                  Ids, OpenIds, Opened, Closed
    <3> QED
      BY <3>1, OpenBrackets, CloseBrackets, PlainBrackets, FinishBrackets DEF Next
  <2> QED
    BY <2>1, <2>2 DEF BracketInv
<1> QED
  BY <1>1, <1>2, PTL DEF Spec

(* build_sections pairs GROUP and ENDGROUP markers as brackets, in every    *)
(* log: one section per GROUP line, in the order of the lines, and each     *)
(* ends at the bracket that matches it, or with the log if none does.       *)
THEOREM SpansAreBrackets == Spec => []SpansMatchBrackets
<1>1. ASSUME BracketInv PROVE SpansMatchBrackets
  <2>1. SUFFICES ASSUME finished
                 PROVE  /\ {built[s].start : s \in Ids} = {l \in 1..Len(log) : log[l] = "group"}
                        /\ \A s, t \in Ids : s < t => built[s].start < built[t].start
                        /\ \A s \in Ids : built[s].end = MatchingLine(built[s].start)
    BY DEF SpansMatchBrackets
  <2>2. /\ SegInv /\ StartsAreGroups /\ OpenAreUnmatched /\ ClosedAreMatched
        /\ StartsInOrder /\ FinishedInv
    BY <1>1 DEF BracketInv, SegInv
  <2>3. pos = Len(log) /\ \A s \in OpenIds : built[s].end = pos
    BY <2>1, <2>2 DEF FinishedInv
  <2>4. ASSUME NEW s \in Ids
        PROVE  built[s].end = MatchingLine(built[s].start)
    <3> DEFINE a == built[s].start
               e == built[s].end
               balanced == {j \in a..Len(log) : Count("group", a, j) = Count("endgroup", a, j)}
    <3>1. a \in Nat /\ e \in Nat /\ 1 <= a /\ a <= e /\ e <= pos /\ pos \in Nat
      BY <2>2, OnStack
    <3>2. \A j : Count("group", a, j) = Opened(a, j) /\ Count("endgroup", a, j) = Closed(a, j)
      BY DEF Count, Opened, Closed, CountIn
    <3>3. MatchingLine(a) = IF balanced = {} THEN Len(log)
                            ELSE CHOOSE j \in balanced : \A k \in balanced : j <= k
      BY DEF MatchingLine
    <3>4. \A j \in a..Len(log) : Opened(a, j) \in Nat /\ Closed(a, j) \in Nat
      <4>1. \A j \in a..Len(log) : j \in Int /\ a \in Int
        BY <3>1
      <4> QED
        BY <4>1, CountNext DEF Opened, Closed
    <3>5. \A j : j \in balanced <=> j \in a..Len(log) /\ Opened(a, j) = Closed(a, j)
      BY <3>2
    <3> HIDE DEF balanced
    <3>6. CASE s \in OpenIds
      <4>1. PICK i \in 1..Len(stack) : stack[i] = s
        BY <3>6 DEF OpenIds
      <4>2. \A j \in a..pos : Opened(a, j) > Closed(a, j)
        BY <2>2, <4>1 DEF OpenAreUnmatched
      <4>3. balanced = {}
        <5>1. \A j \in a..Len(log) : Opened(a, j) # Closed(a, j)
          BY <2>3, <3>4, <4>2
        <5> QED
          BY <3>5, <5>1
      <4> QED
        BY <2>3, <3>3, <3>6, <4>3
    <3>7. CASE s \notin OpenIds
      <4>1. Opened(a, e) = Closed(a, e) /\ \A j \in a..e - 1 : Opened(a, j) > Closed(a, j)
        BY <2>2, <3>7 DEF ClosedAreMatched
      <4> HIDE DEF a, e
      <4>2. e \in balanced
        BY <2>3, <3>1, <3>5, <4>1
      <4>3. \A k \in balanced : e <= k /\ k \in Nat
        <5>1. SUFFICES ASSUME NEW k \in balanced, k < e PROVE FALSE
          BY <2>3, <3>1, <3>5
        <5>2. k \in a..Len(log) /\ k \in a..e - 1 /\ Opened(a, k) = Closed(a, k)
          BY <2>3, <3>1, <3>5, <5>1
        <5> QED
          BY <3>4, <4>1, <5>2
      <4>4. (CHOOSE j \in balanced : \A k \in balanced : j <= k) = e
        <5> DEFINE first == CHOOSE j \in balanced : \A k \in balanced : j <= k
        <5>1. first \in balanced /\ \A k \in balanced : first <= k
          BY <4>2, <4>3
        <5> HIDE DEF first
        <5>2. first = e
          BY <3>1, <4>2, <4>3, <5>1 DEF e
        <5> QED
          BY <5>2 DEF first
      <4>5. MatchingLine(a) = e
        BY <3>3, <4>2, <4>4
      <4> QED
        BY <4>5 DEF a, e
    <3> QED
      BY <3>6, <3>7
  <2> QED
    BY <2>2, <2>3, <2>4 DEF StartsAreGroups, StartsInOrder
<1> QED
  BY <1>1, BracketInvariant, PTL

=============================================================================
