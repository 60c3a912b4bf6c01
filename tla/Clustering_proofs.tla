-------------------------- MODULE Clustering_proofs ---------------------------
(***************************************************************************)
(* What build_clusters promises, proved for every sequence of diagnostics, *)
(* every normalization of paths and messages and every set of marker       *)
(* lines.  The invariant follows the passes: deduplication picks the first *)
(* of each key; correlation and the exit codes distribute the picked ones  *)
(* over the builders, each once; duplicates follow their originals; and    *)
(* each builder is emitted once, best first.                               *)
(***************************************************************************)
EXTENDS Clustering, OrderTheorems, SequenceTheorems

Builders == 1..Len(builders)

-----------------------------------------------------------------------------
(* The inductive invariant. *)

(* Each index handled has a representative, the first one with its key. *)
FirstOfKey ==
  /\ DOMAIN repOf = IF phase = "dedup" THEN Indices \ pending ELSE Indices
  /\ phase = "dedup" =>
       /\ pending \subseteq Indices /\ builders = << >>
       /\ \A i \in pending, j \in Indices : i <= j => j \in pending
  /\ \A i \in DOMAIN repOf :
       /\ repOf[i] \in Representatives /\ repOf[i] <= i
       /\ DedupKey(repOf[i]) = DedupKey(i)
  /\ \A r, s \in Representatives : DedupKey(r) = DedupKey(s) => r = s

(* What each pass has still to handle. *)
Work ==
  /\ phase = "correlate" => pending \subseteq {i \in Representatives : ~IsPF(i)}
  /\ phase = "exit_codes" => pending \subseteq {i \in Representatives : IsPF(i)}
  /\ phase = "duplicates" => pending = {}
  /\ phase = "emit" => pending \subseteq Builders

(* The representatives that no builder holds yet. *)
Unplaced ==
  {i \in Representatives :
     \/ phase = "dedup"
     \/ phase = "correlate" /\ (i \in pending \/ IsPF(i))
     \/ phase = "exit_codes" /\ i \in pending}

(* The builders hold the others, each in one place. *)
Partition ==
  /\ \A i \in Representatives \ Unplaced : \E b \in Builders : i \in Held(builders[b])
  /\ \A b \in Builders :
       /\ Held(builders[b]) \subseteq Representatives \ Unplaced
       /\ builders[b].members \cap builders[b].summary = {}
       /\ builders[b].members \cap builders[b].consequence = {}
       /\ builders[b].summary \cap builders[b].consequence = {}
       /\ builders[b].anchor \in builders[b].members
       /\ builders[b].duplicate =
            IF phase = "emit" THEN DuplicatesOf(Held(builders[b])) ELSE {}
  /\ \A b, c \in Builders : b # c => Held(builders[b]) \cap Held(builders[c]) = {}

(* Exit codes are consequences wherever there is anything else, all of them *)
(* of the best builder; and they are alone where there is nothing else.     *)
ExitCodesApart ==
  \A b \in Builders :
    /\ \A i \in builders[b].members : IsPF(i) => ~HasOutput
    /\ \A i \in builders[b].summary : ~IsPF(i)
    /\ \A i \in builders[b].consequence : IsPF(i) /\ HasOutput /\ IsBest(b, Builders)
    /\ phase \in {"dedup", "correlate"} => builders[b].consequence = {}
    /\ ~HasOutput => Held(builders[b]) = {builders[b].anchor}

(* A builder is about the test of its anchor, and no other builder is. *)
TestsApart ==
  /\ \A b \in Builders : \A i \in builders[b].members :
       diagnostics[i].test # None => diagnostics[i].test = diagnostics[builders[b].anchor].test
  /\ \A b, c \in Builders :
       /\ diagnostics[builders[b].anchor].test # None
       /\ diagnostics[builders[b].anchor].test = diagnostics[builders[c].anchor].test
       => b = c

(* The correlation reads the diagnostics in order. *)
InOrder ==
  phase = "correlate" =>
    \A b \in Builders, i \in pending : \A j \in builders[b].members : j < i

(* What a summary repeats is in its builder. *)
Echoes ==
  \A b \in Builders : \A i \in builders[b].summary :
    /\ IsMarkerEvidence(i)
    /\ \E t \in builders[b].members :
         /\ ~IsMarkerEvidence(t)
         /\ NormMessage(diagnostics[t].message) = NormMessage(diagnostics[i].message)
         /\ diagnostics[t].line = diagnostics[i].line

(* Cluster c is what builder b became. *)
Emitted(c, b) ==
  /\ IsPrimary(clusters[c].primary, builders[b].members)
  /\ clusters[c] = ClusterOf(b, clusters[c].primary)

EmittedOnce ==
  /\ phase # "emit" => clusters = << >>
  /\ clusters \in Seq({ClusterOf(b, i) : b \in Builders, i \in Indices})
  /\ \A c \in DOMAIN clusters : \E b \in Builders \ pending : Emitted(c, b)
  /\ phase = "emit" => \A b \in Builders \ pending : \E c \in DOMAIN clusters : Emitted(c, b)
  /\ \A b \in Builders, c, e \in DOMAIN clusters : Emitted(c, b) /\ Emitted(e, b) => c = e

EmittedInOrder ==
  HasOutput =>
    \A c \in DOMAIN clusters, b \in Builders :
      Emitted(c, b) =>
        /\ \A e \in DOMAIN clusters, d \in Builders :
             c < e /\ Emitted(e, d) => RanksBefore(ClusterRank(b), ClusterRank(d))
        /\ \A d \in pending : RanksBefore(ClusterRank(b), ClusterRank(d))

Fields ==
  /\ diagnostics \in Emissions
  /\ phase \in Phases
  /\ builders \in Seq(Builder)

ClusterInv ==
  /\ Fields /\ FirstOfKey /\ Work /\ Partition /\ ExitCodesApart /\ TestsApart /\ InOrder
  /\ Echoes /\ EmittedOnce /\ EmittedInOrder

-----------------------------------------------------------------------------
(* The diagnostics never change, and what is said of them alone does not. *)

(* The diagnostics are a finite sequence of diagnostics, whichever emission *)
(* was given.                                                               *)
LEMMA InputTypes ==
  ASSUME Fields
  PROVE  /\ diagnostics \in Seq(Diagnostic) /\ Len(diagnostics) \in Nat
         /\ Indices = 1..Len(diagnostics) /\ Indices \subseteq Nat
         /\ \A k \in Indices : diagnostics[k] \in Diagnostic
  BY EmissionsAssumption, LenProperties DEF Fields, Indices

(* What is computed from the diagnostics alone stays as it is while they    *)
(* do.                                                                      *)
LEMMA SameInput ==
  ASSUME diagnostics' = diagnostics
  PROVE  /\ Indices' = Indices /\ Builder' = Builder
         /\ \A k : IsPF(k)' <=> IsPF(k)
         /\ \A k : DedupKey(k)' = DedupKey(k)
         /\ \A k : IsMarkerEvidence(k)' <=> IsMarkerEvidence(k)
         /\ \A k, S : IsPrimary(k, S)' <=> IsPrimary(k, S)
  <1>1. Indices' = Indices
    BY DEF Indices
  <1>2. Builder' = Builder
    BY <1>1 DEF Builder
  <1>3. ASSUME NEW k PROVE IsPF(k)' <=> IsPF(k)
    BY DEF IsPF
  <1>4. ASSUME NEW k PROVE DedupKey(k)' = DedupKey(k)
    BY DEF DedupKey
  <1>5. ASSUME NEW k PROVE IsMarkerEvidence(k)' <=> IsMarkerEvidence(k)
    BY DEF IsMarkerEvidence, EvidenceOf
  <1>6. ASSUME NEW k PROVE MemberRank(k)' = MemberRank(k)
    BY DEF MemberRank, Unlocated, Earliest, EvidenceOf
  <1>7. ASSUME NEW k, NEW S PROVE IsPrimary(k, S)' <=> IsPrimary(k, S)
    BY <1>6 DEF IsPrimary, RanksBefore
  <1>8. QED
    BY <1>1, <1>2, <1>3, <1>4, <1>5, <1>7

(* The representatives and their duplicates depend on the dedup pass alone. *)
LEMMA SameRepresentatives ==
  ASSUME diagnostics' = diagnostics, repOf' = repOf
  PROVE  /\ Representatives' = Representatives /\ (HasOutput' <=> HasOutput)
         /\ \A S : DuplicatesOf(S)' = DuplicatesOf(S)
  <1>1. Representatives' = Representatives
    BY DEF Representatives
  <1>2. HasOutput' <=> HasOutput
    BY <1>1, SameInput DEF HasOutput
  <1>3. ASSUME NEW S PROVE DuplicatesOf(S)' = DuplicatesOf(S)
    BY SameInput DEF DuplicatesOf
  <1>4. QED BY <1>1, <1>2, <1>3

(* The rank of a builder is that of its members. *)
LEMMA SameRank ==
  ASSUME diagnostics' = diagnostics, NEW b, builders'[b].members = builders[b].members
  PROVE  ClusterRank(b)' = ClusterRank(b)
  BY DEF ClusterRank, PrimaryOf, IsPrimary, RanksBefore, MemberRank, EvidenceOf, Earliest,
         Unlocated, Least

(* A builder stays the best as long as nobody's members change. *)
LEMMA SameBest ==
  ASSUME diagnostics' = diagnostics, NEW bs, NEW b \in bs,
         \A c \in bs : builders'[c].members = builders[c].members
  PROVE  IsBest(b, bs)' <=> IsBest(b, bs)
  <1>1. ASSUME NEW c \in bs PROVE ClusterRank(c)' = ClusterRank(c)
    BY <1>1, SameRank
  <1>2. ASSUME NEW c \in bs
        PROVE  RanksBefore(ClusterRank(b), ClusterRank(c))' <=>
                 RanksBefore(ClusterRank(b), ClusterRank(c))
    BY <1>1 DEF RanksBefore
  <1>3. QED BY <1>2 DEF IsBest

-----------------------------------------------------------------------------
(* Builders under construction. *)

(* What changes in a builder that a member joins. *)
LEMMA AddMemberFacts ==
  ASSUME NEW r \in Builder, NEW i \in Indices
  PROVE  LET n == AddMember(r, i)
         IN  /\ n \in Builder /\ n.anchor = r.anchor
             /\ n.members = r.members \cup {i} /\ n.summary = r.summary
             /\ n.consequence = r.consequence /\ n.duplicate = r.duplicate
             /\ Held(n) = Held(r) \cup {i}
  BY DEF AddMember, Builder, Held

(* What changes in a builder that a summary joins. *)
LEMMA AddSummaryFacts ==
  ASSUME NEW r \in Builder, NEW i \in Indices
  PROVE  LET n == AddSummary(r, i)
         IN  /\ n \in Builder /\ n.anchor = r.anchor
             /\ n.members = r.members /\ n.summary = r.summary \cup {i}
             /\ n.consequence = r.consequence /\ n.duplicate = r.duplicate
             /\ Held(n) = Held(r) \cup {i}
  BY DEF AddSummary, Builder, Held

(* What changes in a builder that an exit code joins. *)
LEMMA AddConsequenceFacts ==
  ASSUME NEW r \in Builder, NEW i \in Indices
  PROVE  LET n == AddConsequence(r, i)
         IN  /\ n \in Builder /\ n.anchor = r.anchor
             /\ n.members = r.members /\ n.summary = r.summary
             /\ n.consequence = r.consequence \cup {i} /\ n.duplicate = r.duplicate
             /\ Held(n) = Held(r) \cup {i}
  BY DEF AddConsequence, Builder, Held

(* A builder is opened with its anchor as its only member. *)
LEMMA NewBuilderFacts ==
  ASSUME NEW i \in Indices
  PROVE  LET n == NewBuilder(i)
         IN  /\ n \in Builder /\ n.anchor = i
             /\ n.members = {i} /\ n.summary = {}
             /\ n.consequence = {} /\ n.duplicate = {}
             /\ Held(n) = {i}
  BY DEF NewBuilder, Builder, Held

(* What changes in a builder when its duplicates are attached. *)
LEMMA DuplicatesFacts ==
  ASSUME NEW r \in Builder
  PROVE  LET n == WithDuplicates(r)
         IN  /\ n \in Builder /\ n.anchor = r.anchor
             /\ n.members = r.members /\ n.summary = r.summary
             /\ n.consequence = r.consequence /\ n.duplicate = DuplicatesOf(Held(r))
             /\ Held(n) = Held(r)
  BY DEF WithDuplicates, Builder, Held, DuplicatesOf

-----------------------------------------------------------------------------
(* The passes that handle no builder. *)

(* build_clusters begins with the invariant. *)
LEMMA InitInv == Init => ClusterInv
  <1> SUFFICES ASSUME Init PROVE ClusterInv
    OBVIOUS
  <1>1. builders = << >> /\ clusters = << >> /\ Builders = {}
    BY DEF Init, Builders
  <1>2. Representatives = {}
    BY DEF Init, Representatives
  <1>3. Fields
    BY <1>1, EmptySeq DEF Init, Fields, Phases
  <1>4. FirstOfKey
    BY <1>2, <1>3 DEF Init, FirstOfKey
  <1>5. EmittedOnce /\ EmittedInOrder
    BY <1>1, EmptySeq DEF Init, EmittedOnce, EmittedInOrder
  <1>6. QED
    BY <1>1, <1>2, <1>3, <1>4, <1>5
    DEF Init, ClusterInv, Work, Partition, ExitCodesApart, TestsApart, InOrder, Echoes

(* As long as there is no builder, there is nothing to say of builders. *)
LEMMA NoBuilders ==
  ASSUME builders' = << >>, clusters' = << >>, phase' \in {"dedup", "correlate"},
         Representatives' \subseteq Unplaced'
  PROVE  /\ Partition' /\ ExitCodesApart' /\ TestsApart' /\ InOrder' /\ Echoes'
         /\ EmittedOnce' /\ EmittedInOrder'
  <1>1. Builders' = {}
    BY DEF Builders
  <1>2. EmittedOnce'
    BY <1>1, EmptySeq DEF EmittedOnce
  <1>3. EmittedInOrder'
    BY <1>1 DEF EmittedInOrder
  <1>4. QED
    BY <1>1, <1>2, <1>3 DEF Partition, ExitCodesApart, TestsApart, InOrder, Echoes

(* The dedup loop keeps the invariant: the first of a key represents it. *)
LEMMA DedupInv ==
  ASSUME ClusterInv, FirstOccurrence \/ LaterOccurrence
  PROVE  ClusterInv'
  <1>1. PICK i \in pending, r \in Representatives \cup pending :
          /\ r \in Representatives \/ r = i
          /\ phase = "dedup" /\ IsNext(i)
          /\ repOf' = Placed(i, r) /\ pending' = pending \ {i}
          /\ UNCHANGED <<diagnostics, phase, builders, clusters>>
          /\ DedupKey(r) = DedupKey(i)
          /\ r = i => \A q \in Representatives : DedupKey(q) # DedupKey(i)
    <2>1. CASE FirstOccurrence
      BY <2>1 DEF FirstOccurrence
    <2>2. CASE LaterOccurrence
      <3>1. PICK i \in pending, r \in Representatives :
              /\ phase = "dedup" /\ IsNext(i) /\ DedupKey(r) = DedupKey(i)
              /\ repOf' = Placed(i, r) /\ pending' = pending \ {i}
              /\ UNCHANGED <<diagnostics, phase, builders, clusters>>
        BY <2>2 DEF LaterOccurrence
      <3>2. r # i
        BY <3>1 DEF ClusterInv, FirstOfKey, Representatives
      <3>3. QED BY <3>1, <3>2
    <2>3. QED BY <2>1, <2>2
  <1>2. /\ Indices \subseteq Nat /\ i \in Indices /\ DOMAIN repOf = Indices \ pending
        /\ \A j \in pending : i <= j
        /\ \A j \in Indices \ pending : j < i
    BY <1>1, InputTypes DEF ClusterInv, FirstOfKey, IsNext
  <1>3. /\ DOMAIN repOf' = Indices \ pending'
        /\ repOf'[i] = r /\ \A j \in Indices \ pending : repOf'[j] = repOf[j]
    BY <1>1, <1>2 DEF Placed
  <1>4. r <= i /\ (r # i => r \in DOMAIN repOf /\ repOf[r] = r)
    <2>1. CASE r = i
      BY <1>2, <2>1
    <2>2. CASE r # i
      <3>1. r \in Representatives
        BY <1>1, <2>2
      <3>2. r \in DOMAIN repOf /\ repOf[r] = r
        BY <3>1 DEF Representatives
      <3>3. r \in Indices \ pending /\ r < i /\ r \in Nat /\ i \in Nat
        BY <1>2, <3>2
      <3>4. QED BY <3>2, <3>3
    <2>3. QED BY <2>1, <2>2
  <1>5. Representatives' = IF r = i THEN Representatives \cup {i} ELSE Representatives
    BY <1>1, <1>2, <1>3, <1>4 DEF Representatives
  <1>6. FirstOfKey'
    <2>1. \A j \in DOMAIN repOf' :
            /\ repOf'[j] \in Representatives' /\ repOf'[j] <= j
            /\ DedupKey(repOf'[j]) = DedupKey(j)
      BY <1>1, <1>2, <1>3, <1>4, <1>5 DEF ClusterInv, FirstOfKey
    <2>2. \A q, s \in Representatives' : DedupKey(q) = DedupKey(s) => q = s
      BY <1>1, <1>2, <1>4, <1>5 DEF ClusterInv, FirstOfKey
    <2>3. \A j \in pending', k \in Indices : j <= k => k \in pending'
      BY <1>1, <1>2 DEF ClusterInv, FirstOfKey
    <2>4. pending' \subseteq Indices /\ builders' = << >>
      BY <1>1 DEF ClusterInv, FirstOfKey
    <2>5. QED
      BY <1>1, <1>3, <2>1, <2>2, <2>3, <2>4, SameInput DEF FirstOfKey
  <1>7. Representatives' \subseteq Unplaced'
    BY <1>1 DEF Unplaced
  <1>8. /\ builders' = << >> /\ clusters' = << >> /\ phase' \in {"dedup", "correlate"}
    BY <1>1 DEF ClusterInv, FirstOfKey, EmittedOnce
  <1>9. /\ Partition' /\ ExitCodesApart' /\ TestsApart' /\ InOrder' /\ Echoes'
        /\ EmittedOnce' /\ EmittedInOrder'
    BY <1>7, <1>8, NoBuilders
  <1>10. Fields'
    BY <1>1, SameInput DEF ClusterInv, Fields
  <1>11. QED
    BY <1>1, <1>6, <1>9, <1>10 DEF ClusterInv, Work

(* Where no cluster has been emitted, there is nothing to say of clusters. *)
LEMMA NoClusters ==
  ASSUME clusters' = << >>, phase' # "emit"
  PROVE  EmittedOnce' /\ EmittedInOrder'
  <1>1. EmittedOnce'
    BY EmptySeq DEF EmittedOnce
  <1>2. EmittedInOrder'
    BY DEF EmittedInOrder
  <1>3. QED BY <1>1, <1>2

(* Setting the exit codes apart before the correlation keeps the invariant. *)
LEMMA SplitInv ==
  ASSUME ClusterInv, SplitExitCodes
  PROVE  ClusterInv'
  <1>1. /\ phase = "dedup" /\ pending = {} /\ phase' = "correlate"
        /\ pending' = {i \in Representatives : ~IsPF(i)}
        /\ UNCHANGED <<diagnostics, repOf, builders, clusters>>
    BY DEF SplitExitCodes, StartPass
  <1>2. builders' = << >> /\ clusters' = << >>
    BY <1>1 DEF ClusterInv, FirstOfKey, EmittedOnce
  <1>3. Representatives' = Representatives
    BY <1>1, SameRepresentatives
  <1>4. \A k : IsPF(k)' <=> IsPF(k)
    BY <1>1, SameInput
  <1>5. Representatives' \subseteq Unplaced'
    BY <1>1, <1>3, <1>4 DEF Unplaced
  <1>6. FirstOfKey'
    <2>1. \A k : DedupKey(k)' = DedupKey(k)
      BY <1>1, SameInput
    <2>2. DOMAIN repOf' = Indices'
      BY <1>1, SameInput DEF ClusterInv, FirstOfKey
    <2>3. QED BY <1>1, <1>3, <2>1, <2>2 DEF ClusterInv, FirstOfKey
  <1>7. Work'
    BY <1>1, <1>3, <1>4 DEF Work
  <1>8. Fields'
    BY <1>1, SameInput DEF ClusterInv, Fields, Phases
  <1>9. QED
    BY <1>1, <1>2, <1>5, <1>6, <1>7, <1>8, NoBuilders DEF ClusterInv

(* The next pass finds the builders as they were and the same diagnostics *)
(* still without one.                                                     *)
LEMMA NextPassInv ==
  ASSUME ClusterInv, StartExitCodes \/ StartDuplicates
  PROVE  ClusterInv'
  <1>1. /\ UNCHANGED <<diagnostics, repOf, builders, clusters>> /\ pending = {}
        /\ \/ /\ phase = "correlate" /\ phase' = "exit_codes"
              /\ pending' = {i \in Representatives : IsPF(i)}
           \/ phase = "exit_codes" /\ phase' = "duplicates" /\ pending' = {}
    BY DEF StartExitCodes, StartDuplicates, StartPass
  <1>2. /\ Representatives' = Representatives /\ (HasOutput' <=> HasOutput)
        /\ Builders' = Builders
    BY <1>1, SameRepresentatives DEF Builders
  <1>3. /\ \A k : IsPF(k)' <=> IsPF(k)
        /\ \A k : DedupKey(k)' = DedupKey(k)
        /\ \A k : IsMarkerEvidence(k)' <=> IsMarkerEvidence(k)
        /\ Indices' = Indices
    BY <1>1, SameInput
  <1>4. Unplaced' = Unplaced
    BY <1>1, <1>2, <1>3 DEF Unplaced
  <1>5. Fields'
    BY <1>1, SameInput DEF ClusterInv, Fields, Phases
  <1>6. FirstOfKey'
    BY <1>1, <1>2, <1>3 DEF ClusterInv, FirstOfKey
  <1>7. Work'
    BY <1>1, <1>2, <1>3 DEF Work
  <1>8. Partition'
    BY <1>1, <1>2, <1>4 DEF ClusterInv, Partition, Held
  <1>9. ExitCodesApart'
    <2>1. ASSUME NEW b \in Builders PROVE IsBest(b, Builders)' <=> IsBest(b, Builders)
      BY <1>1, <1>2, SameBest
    <2>2. QED BY <1>1, <1>2, <1>3, <2>1 DEF ClusterInv, ExitCodesApart, Held
  <1>10. TestsApart' /\ InOrder'
    BY <1>1, <1>2 DEF ClusterInv, TestsApart, InOrder
  <1>11. Echoes'
    BY <1>1, <1>2, <1>3 DEF ClusterInv, Echoes
  <1>12. EmittedOnce' /\ EmittedInOrder'
    BY <1>1, NoClusters DEF ClusterInv, EmittedOnce
  <1>13. QED
    BY <1>5, <1>6, <1>7, <1>8, <1>9, <1>10, <1>11, <1>12 DEF ClusterInv

-----------------------------------------------------------------------------
(* One diagnostic is given its place. *)

(* The representative whose turn it is is in no builder yet. *)
LEMMA NotYetHeld ==
  ASSUME ClusterInv, phase \in {"correlate", "exit_codes"}, NEW i \in pending
  PROVE  /\ i \in Representatives /\ i \in Indices
         /\ \A b \in Builders : i \notin Held(builders[b])
         /\ phase = "correlate" => ~IsPF(i) /\ HasOutput
         /\ phase = "exit_codes" => IsPF(i)
  <1>1. i \in Representatives /\ i \in Unplaced
    BY DEF ClusterInv, Work, Unplaced
  <1>2. Representatives \subseteq Indices
    BY DEF ClusterInv, FirstOfKey, Representatives
  <1>3. \A b \in Builders : i \notin Held(builders[b])
    BY <1>1 DEF ClusterInv, Partition
  <1>4. /\ phase = "correlate" => ~IsPF(i) /\ HasOutput
        /\ phase = "exit_codes" => IsPF(i)
    BY DEF ClusterInv, Work, HasOutput
  <1>5. QED BY <1>1, <1>2, <1>3, <1>4

(* Builder w, an old or a new one, becomes n, which holds what w held and i. *)
Places(i, w, n) ==
  /\ phase' = phase /\ pending' = pending \ {i}
  /\ UNCHANGED <<diagnostics, repOf, clusters>>
  /\ Len(builders') \in {Len(builders), Len(builders) + 1}
  /\ builders' \in Seq(Builder) /\ Builders' = Builders \cup {w}
  /\ builders'[w] = n /\ \A b \in Builders \ {w} : builders'[b] = builders[b]
  /\ Held(n) = (IF w \in Builders THEN Held(builders[w]) ELSE {}) \cup {i}
  /\ n.members \cap n.summary = {}
  /\ n.members \cap n.consequence = {}
  /\ n.summary \cap n.consequence = {}
  /\ n.anchor \in n.members /\ n.duplicate = {}

(* Putting a representative into one builder, old or new, keeps what the    *)
(* invariant says of places.                                                *)
LEMMA PlacesInv ==
  ASSUME ClusterInv, phase \in {"correlate", "exit_codes"}, NEW i \in pending, NEW w, NEW n,
         Places(i, w, n)
  PROVE  /\ Fields' /\ FirstOfKey' /\ Work' /\ Partition'
         /\ EmittedOnce' /\ EmittedInOrder'
         /\ Representatives' = Representatives /\ (HasOutput' <=> HasOutput)
  <1>1. /\ UNCHANGED <<diagnostics, phase, repOf, clusters>> /\ pending' = pending \ {i}
        /\ Builders' = Builders \cup {w}
    BY DEF Places
  <1>2. /\ Representatives' = Representatives /\ (HasOutput' <=> HasOutput)
        /\ Indices' = Indices /\ Builder' = Builder
        /\ \A k : IsPF(k)' <=> IsPF(k)
        /\ \A k : DedupKey(k)' = DedupKey(k)
    BY <1>1, SameInput, SameRepresentatives
  <1>3. Fields'
    BY <1>1, <1>2 DEF ClusterInv, Fields, Places
  <1>4. FirstOfKey'
    BY <1>1, <1>2 DEF ClusterInv, FirstOfKey
  <1>5. Work'
    BY <1>1, <1>2 DEF ClusterInv, Work
  <1>6. Unplaced' = Unplaced \ {i}
    BY <1>1, <1>2, NotYetHeld DEF Unplaced
  <1>7. /\ i \in Representatives /\ \A b \in Builders : i \notin Held(builders[b])
    BY NotYetHeld
  <1>8. Partition'
    <2>1. ASSUME NEW k \in Representatives' \ Unplaced'
          PROVE  \E b \in Builders' : k \in Held(builders'[b])
      <3>1. CASE k = i
        BY <1>1, <3>1 DEF Places
      <3>2. CASE k # i
        <4>1. PICK b \in Builders : k \in Held(builders[b])
          BY <1>2, <1>6, <3>2 DEF ClusterInv, Partition
        <4>2. QED BY <1>1, <4>1 DEF Places
      <3>3. QED BY <3>1, <3>2
    <2>2. ASSUME NEW b \in Builders'
          PROVE  /\ Held(builders'[b]) \subseteq Representatives' \ Unplaced'
                 /\ builders'[b].members \cap builders'[b].summary = {}
                 /\ builders'[b].members \cap builders'[b].consequence = {}
                 /\ builders'[b].summary \cap builders'[b].consequence = {}
                 /\ builders'[b].anchor \in builders'[b].members
                 /\ builders'[b].duplicate = {}
      <3>1. CASE b = w
        BY <1>2, <1>6, <1>7, <3>1 DEF ClusterInv, Partition, Places
      <3>2. CASE b # w
        BY <1>1, <1>2, <1>6, <1>7, <3>2 DEF ClusterInv, Partition, Places
      <3>3. QED BY <3>1, <3>2
    <2>3. ASSUME NEW b \in Builders', NEW c \in Builders', b # c
          PROVE  Held(builders'[b]) \cap Held(builders'[c]) = {}
      <3>1. CASE b # w /\ c # w
        BY <1>1, <2>3, <3>1 DEF ClusterInv, Partition, Places
      <3>2. \A d \in Builders \ {w} : Held(n) \cap Held(builders[d]) = {}
        BY <1>7 DEF ClusterInv, Partition, Places
      <3>3. CASE b = w \/ c = w
        BY <1>1, <2>3, <3>2, <3>3 DEF Places
      <3>4. QED BY <3>1, <3>3
    <2>4. phase' # "emit"
      BY <1>1
    <2>5. QED
      BY <2>1, <2>2, <2>3, <2>4 DEF Partition, Held
  <1>9. EmittedOnce' /\ EmittedInOrder'
    BY <1>1, NoClusters DEF ClusterInv, EmittedOnce
  <1>10. QED
    BY <1>2, <1>3, <1>4, <1>5, <1>8, <1>9

(* A builder replaced in the list: the others stay. *)
LEMMA ReplacedBuilder ==
  ASSUME builders \in Seq(Builder), NEW w \in Builders, NEW n \in Builder,
         builders' = [builders EXCEPT ![w] = n], diagnostics' = diagnostics
  PROVE  /\ builders' \in Seq(Builder) /\ Builders' = Builders \cup {w}
         /\ Len(builders') = Len(builders)
         /\ builders'[w] = n /\ \A b \in Builders \ {w} : builders'[b] = builders[b]
  BY ExceptSeq DEF Builders

(* A builder added at the end of the list: the others stay. *)
LEMMA AppendedBuilder ==
  ASSUME builders \in Seq(Builder), NEW n \in Builder,
         builders' = Append(builders, n)
  PROVE  LET w == Len(builders) + 1
         IN  /\ builders' \in Seq(Builder) /\ Builders' = Builders \cup {w}
             /\ Len(builders') = w /\ w \notin Builders
             /\ builders'[w] = n /\ \A b \in Builders \ {w} : builders'[b] = builders[b]
  <1>1. Len(builders) \in Nat
    BY LenProperties
  <1>2. /\ builders' \in Seq(Builder) /\ Len(builders') = Len(builders) + 1
        /\ \A b \in 1..Len(builders) : builders'[b] = builders[b]
        /\ builders'[Len(builders) + 1] = n
    BY AppendProperties
  <1>3. QED BY <1>1, <1>2 DEF Builders

(* Rule S1 keeps the invariant: a summary repeats a member of the builder   *)
(* it joins.                                                                *)
LEMMA JoinSummaryInv ==
  ASSUME ClusterInv, JoinSummary
  PROVE  ClusterInv'
  <1>1. PICK i \in pending, w \in Builders :
          /\ phase = "correlate" /\ IsNext(i) /\ IsTarget(w, 1, i)
          /\ builders' = [builders EXCEPT ![w] = AddSummary(@, i)]
          /\ pending' = pending \ {i}
          /\ UNCHANGED <<diagnostics, phase, repOf, clusters>>
    BY DEF JoinSummary, Builders
  <1> DEFINE old == builders[w]
             n == AddSummary(old, i)
  <1>2. i \in Indices /\ ~IsPF(i) /\ HasOutput /\ \A b \in Builders : i \notin Held(builders[b])
    BY <1>1, NotYetHeld
  <1>3. builders \in Seq(Builder) /\ old \in Builder
    BY ElementOfSeq DEF ClusterInv, Fields, Builders
  <1>4. /\ n \in Builder /\ n.anchor = old.anchor /\ n.members = old.members
        /\ n.summary = old.summary \cup {i} /\ n.consequence = old.consequence
        /\ n.duplicate = old.duplicate /\ Held(n) = Held(old) \cup {i}
    BY <1>2, <1>3, AddSummaryFacts
  <1>5. builders' = [builders EXCEPT ![w] = n]
    BY <1>1
  <1> HIDE DEF n
  <1>6. /\ builders' \in Seq(Builder) /\ Builders' = Builders \cup {w}
        /\ Len(builders') = Len(builders)
        /\ builders'[w] = n /\ \A b \in Builders \ {w} : builders'[b] = builders[b]
    BY <1>1, <1>3, <1>4, <1>5, ReplacedBuilder
  <1>7. Places(i, w, n)
    <2>1. i \notin old.members /\ i \notin old.consequence
      BY <1>2 DEF Held
    <2>2. QED
      BY <1>1, <1>4, <1>6, <2>1 DEF ClusterInv, Partition, Places
  <1>8. /\ Fields' /\ FirstOfKey' /\ Work' /\ Partition' /\ EmittedOnce' /\ EmittedInOrder'
        /\ (HasOutput' <=> HasOutput)
    BY <1>1, <1>7, PlacesInv
  <1>9. /\ \A k : IsPF(k)' <=> IsPF(k)
        /\ \A k : IsMarkerEvidence(k)' <=> IsMarkerEvidence(k)
        /\ Builders' = Builders
    BY <1>1, <1>6, SameInput
  <1>10. /\ S1(i, w) /\ Builders' = Builders
    BY <1>1, <1>6 DEF IsTarget, Targets, Applies, Rules
  <1>11. ExitCodesApart'
    BY <1>1, <1>2, <1>4, <1>6, <1>8, <1>9 DEF ClusterInv, ExitCodesApart
  <1>12. TestsApart'
    BY <1>1, <1>4, <1>6, <1>9 DEF ClusterInv, TestsApart
  <1>13. InOrder'
    BY <1>1, <1>4, <1>6, <1>9 DEF ClusterInv, InOrder
  <1>14. Echoes'
    BY <1>1, <1>4, <1>6, <1>9, <1>10 DEF ClusterInv, Echoes, S1
  <1>15. QED BY <1>8, <1>11, <1>12, <1>13, <1>14 DEF ClusterInv

(* A diagnostic that a rule takes into a cluster is not about another test *)
(* than the cluster's: when the anchor, which was read before it, names no *)
(* test, neither does the diagnostic.                                      *)
LEMMA JoinsItsTest ==
  ASSUME ClusterInv, phase = "correlate", NEW i \in pending, NEW b \in Builders,
         NEW r \in 2..Len(Rules), IsTarget(b, r, i), diagnostics[i].test # None
  PROVE  diagnostics[builders[b].anchor].test = diagnostics[i].test
  <1> DEFINE a == builders[b].anchor
  <1>1. a \in builders[b].members /\ a < i
    BY DEF ClusterInv, Partition, InOrder
  <1>2. ~IsPF(a)
    BY <1>1, NotYetHeld DEF ClusterInv, ExitCodesApart
  <1>3. a \in Indices /\ i \in Indices
    <2>1. builders[b] \in Builder
      BY ElementOfSeq DEF ClusterInv, Fields, Builders
    <2>2. QED BY <2>1, NotYetHeld DEF Builder
  <1>4. a \in DOMAIN diagnostics /\ i \in DOMAIN diagnostics /\ diagnostics \in Emissions
    BY <1>3, InputTypes DEF ClusterInv, Fields, Indices
  <1>5. diagnostics[a].test # None
    BY <1>1, <1>2, <1>4, TestsComeFirst DEF IsPF
  <1>6. Applies(Rules[r], i, b)
    BY DEF IsTarget, Targets
  <1>7. C1(i, b) \/ C2a(i, b) \/ C2b(i, b) \/ C3(i, b)
    <2>1. Rules[r] \in {"C1", "C2a", "C2b", "C3"}
      BY DEF Rules
    <2>2. Rules[r] # "S1"
      BY <2>1
    <2>3. QED BY <1>6, <2>2 DEF Applies
  <1>8. ~C2b(i, b)
    BY DEF C2b
  <1>9. CASE C1(i, b)
    BY <1>9 DEF C1
  <1>10. CASE C2a(i, b) \/ C3(i, b)
    BY <1>5, <1>10 DEF C2a, C3, G1Blocks
  <1>11. QED BY <1>7, <1>8, <1>9, <1>10

(* The C rules and the opening of a cluster keep the invariant: no builder  *)
(* takes in a second test.                                                  *)
LEMMA JoinMemberInv ==
  ASSUME ClusterInv, JoinMember
  PROVE  ClusterInv'
  <1>1. PICK i \in pending, w \in Builders, r \in 2..Len(Rules) :
          /\ phase = "correlate" /\ IsNext(i) /\ IsTarget(w, r, i)
          /\ builders' = [builders EXCEPT ![w] = AddMember(@, i)]
          /\ pending' = pending \ {i}
          /\ UNCHANGED <<diagnostics, phase, repOf, clusters>>
    BY DEF JoinMember, Builders
  <1> DEFINE old == builders[w]
             n == AddMember(old, i)
  <1>2. i \in Indices /\ ~IsPF(i) /\ HasOutput /\ \A b \in Builders : i \notin Held(builders[b])
    BY <1>1, NotYetHeld
  <1>3. builders \in Seq(Builder) /\ old \in Builder
    BY ElementOfSeq DEF ClusterInv, Fields, Builders
  <1>4. /\ n \in Builder /\ n.anchor = old.anchor /\ n.members = old.members \cup {i}
        /\ n.summary = old.summary /\ n.consequence = old.consequence
        /\ n.duplicate = old.duplicate /\ Held(n) = Held(old) \cup {i}
    BY <1>2, <1>3, AddMemberFacts
  <1>5. builders' = [builders EXCEPT ![w] = n]
    BY <1>1
  <1> HIDE DEF n
  <1>6. /\ builders' \in Seq(Builder) /\ Builders' = Builders \cup {w}
        /\ Len(builders') = Len(builders)
        /\ builders'[w] = n /\ \A b \in Builders \ {w} : builders'[b] = builders[b]
    BY <1>1, <1>3, <1>4, <1>5, ReplacedBuilder
  <1>7. Places(i, w, n)
    <2>1. i \notin old.summary /\ i \notin old.consequence
      BY <1>2 DEF Held
    <2>2. QED
      BY <1>1, <1>4, <1>6, <2>1 DEF ClusterInv, Partition, Places
  <1>8. /\ Fields' /\ FirstOfKey' /\ Work' /\ Partition' /\ EmittedOnce' /\ EmittedInOrder'
        /\ (HasOutput' <=> HasOutput)
    BY <1>1, <1>7, PlacesInv
  <1>9. /\ \A k : IsPF(k)' <=> IsPF(k)
        /\ \A k : IsMarkerEvidence(k)' <=> IsMarkerEvidence(k)
        /\ Builders' = Builders
    BY <1>1, <1>6, SameInput
  <1>10. diagnostics[i].test # None => diagnostics[i].test = diagnostics[old.anchor].test
    BY <1>1, JoinsItsTest
  <1>11. ExitCodesApart'
    BY <1>1, <1>2, <1>4, <1>6, <1>8, <1>9 DEF ClusterInv, ExitCodesApart
  <1>12. TestsApart'
    BY <1>1, <1>4, <1>6, <1>9, <1>10 DEF ClusterInv, TestsApart
  <1>13. InOrder'
    <2>1. \A j \in pending' : i < j
      BY <1>1, InputTypes DEF ClusterInv, Work, Representatives, FirstOfKey, IsNext
    <2>2. QED BY <1>1, <1>4, <1>6, <1>9, <2>1 DEF ClusterInv, InOrder
  <1>14. Echoes'
    BY <1>1, <1>4, <1>6, <1>9 DEF ClusterInv, Echoes
  <1>15. QED BY <1>8, <1>11, <1>12, <1>13, <1>14 DEF ClusterInv

(* A diagnostic that no rule takes is not about a test that has a cluster. *)
LEMMA OpenClusterInv ==
  ASSUME ClusterInv, OpenCluster
  PROVE  ClusterInv'
  <1>1. PICK i \in pending :
          /\ phase = "correlate" /\ IsNext(i)
          /\ \A r \in 1..Len(Rules) : Targets(r, i) = {}
          /\ builders' = Append(builders, NewBuilder(i))
          /\ pending' = pending \ {i}
          /\ UNCHANGED <<diagnostics, phase, repOf, clusters>>
    BY DEF OpenCluster
  <1> DEFINE w == Len(builders) + 1
             n == NewBuilder(i)
  <1>2. i \in Indices /\ ~IsPF(i) /\ HasOutput
    BY <1>1, NotYetHeld
  <1>3. /\ n \in Builder /\ n.anchor = i /\ n.members = {i} /\ n.summary = {}
        /\ n.consequence = {} /\ n.duplicate = {} /\ Held(n) = {i}
    BY <1>2, NewBuilderFacts
  <1>4. builders' = Append(builders, n)
    BY <1>1
  <1> HIDE DEF n
  <1>5. /\ builders' \in Seq(Builder) /\ Builders' = Builders \cup {w}
        /\ Len(builders') = w /\ w \notin Builders
        /\ builders'[w] = n /\ \A b \in Builders \ {w} : builders'[b] = builders[b]
    BY <1>3, <1>4, AppendedBuilder DEF ClusterInv, Fields
  <1> HIDE DEF w
  <1>6. Places(i, w, n)
    BY <1>1, <1>3, <1>5 DEF Places, w
  <1>7. /\ Fields' /\ FirstOfKey' /\ Work' /\ Partition' /\ EmittedOnce' /\ EmittedInOrder'
        /\ (HasOutput' <=> HasOutput)
    BY <1>1, <1>6, PlacesInv
  <1>8. /\ \A k : IsPF(k)' <=> IsPF(k)
        /\ \A k : IsMarkerEvidence(k)' <=> IsMarkerEvidence(k)
    BY <1>1, SameInput
  <1>9. \A b \in Builders :
          diagnostics[i].test # None => diagnostics[builders[b].anchor].test # diagnostics[i].test
    <2>1. Targets(2, i) = {} /\ Rules[2] = "C1"
      BY <1>1 DEF Rules
    <2>2. \A b \in Builders : ~Applies("C1", i, b)
      BY <2>1 DEF Targets, Builders
    <2>3. \A b \in Builders : ~C1(i, b)
      BY <2>2 DEF Applies
    <2>4. QED BY <2>3 DEF C1
  <1>10. /\ phase = "correlate" /\ phase' = phase
         /\ Builders' = Builders \cup {w} /\ w \notin Builders
         /\ builders'[w] = n /\ \A b \in Builders : builders'[b] = builders[b]
         /\ n.anchor = i /\ n.members = {i} /\ n.summary = {}
         /\ n.consequence = {} /\ Held(n) = {i} /\ diagnostics' = diagnostics
    BY <1>1, <1>3, <1>5
  <1>11. ExitCodesApart'
    BY <1>2, <1>7, <1>8, <1>10 DEF ClusterInv, ExitCodesApart
  <1>12. TestsApart'
    BY <1>9, <1>10 DEF ClusterInv, TestsApart
  <1>13. InOrder'
    <2>1. \A j \in pending' : i < j
      BY <1>1, InputTypes DEF ClusterInv, Work, Representatives, FirstOfKey, IsNext
    <2>2. pending' \subseteq pending
      BY <1>1
    <2>3. QED BY <1>10, <2>1, <2>2 DEF ClusterInv, InOrder
  <1>14. Echoes'
    BY <1>8, <1>10 DEF ClusterInv, Echoes
  <1>15. QED BY <1>7, <1>11, <1>12, <1>13, <1>14 DEF ClusterInv

(* What find_process_failure says of an exit code. *)
LEMMA ExitCodeFacts ==
  ASSUME Fields, NEW i \in Indices, IsPF(i)
  PROVE  diagnostics[i].severity = "error" /\ diagnostics[i].test = None
  <1>1. diagnostics \in Emissions /\ i \in DOMAIN diagnostics
    BY InputTypes DEF Fields, Indices
  <1>2. QED BY <1>1, ExitCodesAreErrors DEF IsPF

(* An exit code gets a cluster of its own only where no parser found        *)
(* anything.                                                                *)
LEMMA ExitCodeAloneInv ==
  ASSUME ClusterInv, ExitCodeAlone
  PROVE  ClusterInv'
  <1>1. PICK i \in pending :
          /\ phase = "exit_codes" /\ ~HasOutput
          /\ builders' = Append(builders, NewBuilder(i))
          /\ pending' = pending \ {i}
          /\ UNCHANGED <<diagnostics, phase, repOf, clusters>>
    BY DEF ExitCodeAlone
  <1> DEFINE w == Len(builders) + 1
             n == NewBuilder(i)
  <1>2. i \in Indices /\ IsPF(i)
    BY <1>1, NotYetHeld
  <1>3. /\ n \in Builder /\ n.anchor = i /\ n.members = {i} /\ n.summary = {}
        /\ n.consequence = {} /\ n.duplicate = {} /\ Held(n) = {i}
    BY <1>2, NewBuilderFacts
  <1>4. builders' = Append(builders, n)
    BY <1>1
  <1> HIDE DEF n
  <1>5. /\ builders' \in Seq(Builder) /\ Builders' = Builders \cup {w}
        /\ Len(builders') = w /\ w \notin Builders
        /\ builders'[w] = n /\ \A b \in Builders \ {w} : builders'[b] = builders[b]
    BY <1>3, <1>4, AppendedBuilder DEF ClusterInv, Fields
  <1> HIDE DEF w
  <1>6. Places(i, w, n)
    BY <1>1, <1>3, <1>5 DEF Places, w
  <1>7. /\ Fields' /\ FirstOfKey' /\ Work' /\ Partition' /\ EmittedOnce' /\ EmittedInOrder'
        /\ (HasOutput' <=> HasOutput)
    BY <1>1, <1>6, PlacesInv
  <1>8. /\ \A k : IsPF(k)' <=> IsPF(k)
        /\ \A k : IsMarkerEvidence(k)' <=> IsMarkerEvidence(k)
    BY <1>1, SameInput
  <1>9. diagnostics[i].test = None
    BY <1>2, ExitCodeFacts DEF ClusterInv
  <1>10. /\ phase = "exit_codes" /\ phase' = phase /\ ~HasOutput
         /\ Builders' = Builders \cup {w} /\ w \notin Builders
         /\ builders'[w] = n /\ \A b \in Builders : builders'[b] = builders[b]
         /\ n.anchor = i /\ n.members = {i} /\ n.summary = {}
         /\ n.consequence = {} /\ Held(n) = {i} /\ diagnostics' = diagnostics
    BY <1>1, <1>3, <1>5
  <1>11. ExitCodesApart'
    BY <1>7, <1>8, <1>10 DEF ClusterInv, ExitCodesApart
  <1>12. TestsApart'
    BY <1>9, <1>10 DEF ClusterInv, TestsApart
  <1>13. InOrder'
    BY <1>10 DEF InOrder
  <1>14. Echoes'
    BY <1>8, <1>10 DEF ClusterInv, Echoes
  <1>15. QED BY <1>7, <1>11, <1>12, <1>13, <1>14 DEF ClusterInv

(* Rule C4: an exit code follows from the best builder, which stays the     *)
(* best.                                                                    *)
LEMMA ExitCodeFollowsInv ==
  ASSUME ClusterInv, ExitCodeFollows
  PROVE  ClusterInv'
  <1>1. PICK i \in pending, w \in Builders :
          /\ phase = "exit_codes" /\ HasOutput /\ IsBest(w, Builders)
          /\ builders' = [builders EXCEPT ![w] = AddConsequence(@, i)]
          /\ pending' = pending \ {i}
          /\ UNCHANGED <<diagnostics, phase, repOf, clusters>>
    BY DEF ExitCodeFollows, Builders
  <1> DEFINE old == builders[w]
             n == AddConsequence(old, i)
  <1>2. i \in Indices /\ IsPF(i) /\ \A b \in Builders : i \notin Held(builders[b])
    BY <1>1, NotYetHeld
  <1>3. builders \in Seq(Builder) /\ old \in Builder
    BY ElementOfSeq DEF ClusterInv, Fields, Builders
  <1>4. /\ n \in Builder /\ n.anchor = old.anchor /\ n.members = old.members
        /\ n.summary = old.summary /\ n.consequence = old.consequence \cup {i}
        /\ n.duplicate = old.duplicate /\ Held(n) = Held(old) \cup {i}
    BY <1>2, <1>3, AddConsequenceFacts
  <1>5. builders' = [builders EXCEPT ![w] = n]
    BY <1>1
  <1> HIDE DEF n
  <1>6. /\ builders' \in Seq(Builder) /\ Builders' = Builders \cup {w}
        /\ Len(builders') = Len(builders)
        /\ builders'[w] = n /\ \A b \in Builders \ {w} : builders'[b] = builders[b]
    BY <1>1, <1>3, <1>4, <1>5, ReplacedBuilder
  <1>7. Places(i, w, n)
    <2>1. i \notin old.members /\ i \notin old.summary
      BY <1>2 DEF Held
    <2>2. QED
      BY <1>1, <1>4, <1>6, <2>1 DEF ClusterInv, Partition, Places
  <1>8. /\ Fields' /\ FirstOfKey' /\ Work' /\ Partition' /\ EmittedOnce' /\ EmittedInOrder'
        /\ (HasOutput' <=> HasOutput)
    BY <1>1, <1>7, PlacesInv
  <1>9. /\ \A k : IsPF(k)' <=> IsPF(k)
        /\ \A k : IsMarkerEvidence(k)' <=> IsMarkerEvidence(k)
        /\ Builders' = Builders
    BY <1>1, <1>6, SameInput
  <1>10. \A b \in Builders : IsBest(b, Builders)' <=> IsBest(b, Builders)
    <2>1. \A b \in Builders : builders'[b].members = builders[b].members
      BY <1>4, <1>6
    <2>2. ASSUME NEW bs, bs = Builders, NEW b \in bs PROVE IsBest(b, bs)' <=> IsBest(b, bs)
      BY <1>1, <2>1, <2>2, SameBest
    <2>3. QED BY <1>9, <2>2 DEF IsBest
  <1>11. ExitCodesApart'
    <2>1. ASSUME NEW b \in Builders
          PROVE  /\ \A j \in builders'[b].members : ~IsPF(j)
                 /\ \A j \in builders'[b].summary : ~IsPF(j)
                 /\ \A j \in builders'[b].consequence : IsPF(j) /\ IsBest(b, Builders)
      BY <1>1, <1>2, <1>4, <1>6 DEF ClusterInv, ExitCodesApart
    <2>2. phase' = "exit_codes" /\ HasOutput'
      BY <1>1, <1>8
    <2>3. QED BY <1>9, <1>10, <2>1, <2>2 DEF ExitCodesApart
  <1>12. TestsApart'
    BY <1>1, <1>4, <1>6, <1>9 DEF ClusterInv, TestsApart
  <1>13. InOrder'
    BY <1>1 DEF InOrder
  <1>14. Echoes'
    BY <1>1, <1>4, <1>6, <1>9 DEF ClusterInv, Echoes
  <1>15. QED BY <1>8, <1>11, <1>12, <1>13, <1>14 DEF ClusterInv

-----------------------------------------------------------------------------
(* The duplicates follow their originals. *)

(* Attaching the duplicates keeps the invariant, and ends the building. *)
LEMMA AttachInv ==
  ASSUME ClusterInv, AttachDuplicates
  PROVE  ClusterInv'
  <1>1. /\ phase = "duplicates" /\ phase' = "emit" /\ pending' = Builders
        /\ builders' = [b \in Builders |-> WithDuplicates(builders[b])]
        /\ UNCHANGED <<diagnostics, repOf, clusters>>
    BY DEF AttachDuplicates, Builders
  <1>2. /\ \A b \in Builders : builders[b] \in Builder
        /\ Len(builders) \in Nat /\ clusters = << >>
    BY <1>1, ElementOfSeq, LenProperties DEF ClusterInv, Fields, Builders, EmittedOnce
  <1>3. /\ \A b \in Builders :
             /\ builders'[b] \in Builder /\ builders'[b].anchor = builders[b].anchor
             /\ builders'[b].members = builders[b].members
             /\ builders'[b].summary = builders[b].summary
             /\ builders'[b].consequence = builders[b].consequence
             /\ builders'[b].duplicate = DuplicatesOf(Held(builders[b]))
             /\ Held(builders'[b]) = Held(builders[b])
    BY <1>1, <1>2, DuplicatesFacts
  <1>4. builders' \in Seq(Builder) /\ Builders' = Builders
    <2>1. builders' \in [1..Len(builders) -> Builder]
      BY <1>1, <1>3 DEF Builders
    <2>2. builders' \in Seq(Builder) /\ Len(builders') = Len(builders)
      BY <1>2, <2>1, SeqDef
    <2>3. QED BY <2>2 DEF Builders
  <1>5. /\ Representatives' = Representatives /\ (HasOutput' <=> HasOutput)
        /\ \A S : DuplicatesOf(S)' = DuplicatesOf(S)
    BY <1>1, SameRepresentatives
  <1>6. /\ \A k : IsPF(k)' <=> IsPF(k)
        /\ \A k : DedupKey(k)' = DedupKey(k)
        /\ \A k : IsMarkerEvidence(k)' <=> IsMarkerEvidence(k)
        /\ Indices' = Indices /\ Builder' = Builder
    BY <1>1, SameInput
  <1>7. Unplaced' = {} /\ Unplaced = {}
    BY <1>1 DEF Unplaced
  <1>8. Fields'
    BY <1>1, <1>4, <1>6 DEF ClusterInv, Fields, Phases
  <1>9. FirstOfKey'
    BY <1>1, <1>5, <1>6 DEF ClusterInv, FirstOfKey
  <1>10. Work'
    BY <1>1, <1>4 DEF Work
  <1>11. Partition'
    <2>1. ASSUME NEW b \in Builders
          PROVE  /\ Held(builders'[b]) \subseteq Representatives' \ Unplaced'
                 /\ builders'[b].members \cap builders'[b].summary = {}
                 /\ builders'[b].members \cap builders'[b].consequence = {}
                 /\ builders'[b].summary \cap builders'[b].consequence = {}
                 /\ builders'[b].anchor \in builders'[b].members
                 /\ builders'[b].duplicate = DuplicatesOf(Held(builders[b]))'
      <3> DEFINE h == Held(builders[b])
      <3>1. /\ h \subseteq Representatives \ Unplaced
            /\ builders[b].members \cap builders[b].summary = {}
            /\ builders[b].members \cap builders[b].consequence = {}
            /\ builders[b].summary \cap builders[b].consequence = {}
            /\ builders[b].anchor \in builders[b].members
        BY DEF ClusterInv, Partition
      <3>2. Held(builders[b])' = h
        BY <1>3 DEF Held
      <3>3. DuplicatesOf(Held(builders[b]))' = DuplicatesOf(h)
        BY <1>1, <3>2, SameInput DEF DuplicatesOf
      <3>4. QED BY <1>3, <1>5, <1>7, <3>1, <3>3
    <2>2. \A i \in Representatives' \ Unplaced' : \E b \in Builders : i \in Held(builders'[b])
      BY <1>3, <1>5, <1>7 DEF ClusterInv, Partition
    <2>3. \A b, c \in Builders : b # c => Held(builders'[b]) \cap Held(builders'[c]) = {}
      BY <1>3 DEF ClusterInv, Partition
    <2>4. QED BY <1>1, <1>4, <2>1, <2>2, <2>3 DEF Partition
  <1>12. ExitCodesApart'
    <2>1. ASSUME NEW bs, bs = Builders, NEW b \in bs PROVE IsBest(b, bs)' <=> IsBest(b, bs)
      BY <1>1, <1>3, <2>1, SameBest
    <2>2. \A b \in Builders : IsBest(b, Builders)' <=> IsBest(b, Builders)
      BY <1>4, <2>1 DEF IsBest
    <2>3. QED
      BY <1>1, <1>3, <1>4, <1>5, <1>6, <2>2 DEF ClusterInv, ExitCodesApart
  <1>13. TestsApart'
    BY <1>1, <1>3, <1>4 DEF ClusterInv, TestsApart
  <1>14. InOrder'
    BY <1>1 DEF InOrder
  <1>15. Echoes'
    BY <1>1, <1>3, <1>4, <1>6 DEF ClusterInv, Echoes
  <1>16. EmittedOnce'
    <2>1. clusters' = << >>
      BY <1>1, <1>2
    <2>2. QED BY <1>1, <1>4, <2>1, EmptySeq DEF EmittedOnce
  <1>17. EmittedInOrder'
    BY <1>1, <1>2 DEF EmittedInOrder
  <1>18. QED
    BY <1>8, <1>9, <1>10, <1>11, <1>12, <1>13, <1>14, <1>15, <1>16, <1>17 DEF ClusterInv

-----------------------------------------------------------------------------
(* Emission. *)

(* No two builders become one cluster: the primary is in one of them only. *)
LEMMA EmittedFromOne ==
  ASSUME Partition, NEW c, NEW b \in Builders, NEW d \in Builders, Emitted(c, b), Emitted(c, d)
  PROVE  b = d
  <1>1. /\ clusters[c].primary \in Held(builders[b])
        /\ clusters[c].primary \in Held(builders[d])
    BY DEF Emitted, IsPrimary, Held
  <1>2. QED BY <1>1 DEF Partition

(* Emitting the best of the builders left keeps the clusters in order, each *)
(* emitted once.                                                            *)
LEMMA EmitInv ==
  ASSUME ClusterInv, EmitCluster
  PROVE  ClusterInv'
  <1>1. PICK b \in pending :
          /\ phase = "emit"
          /\ HasOutput => IsBest(b, pending)
          /\ \E primary \in builders[b].members :
               /\ IsPrimary(primary, builders[b].members)
               /\ clusters' = Append(clusters, ClusterOf(b, primary))
          /\ pending' = pending \ {b}
          /\ UNCHANGED <<diagnostics, phase, repOf, builders>>
    BY DEF EmitCluster
  <1>2. PICK primary \in builders[b].members :
          /\ IsPrimary(primary, builders[b].members)
          /\ clusters' = Append(clusters, ClusterOf(b, primary))
    BY <1>1
  <1> DEFINE Possible == {ClusterOf(d, i) : d \in Builders, i \in Indices}
             new == ClusterOf(b, primary)
  <1>3. b \in Builders /\ pending \subseteq Builders
    BY <1>1 DEF ClusterInv, Work
  <1>4. primary \in Indices
    <2>1. builders[b] \in Builder
      BY <1>3, ElementOfSeq DEF ClusterInv, Fields, Builders
    <2>2. QED BY <2>1 DEF Builder
  <1>5. clusters \in Seq(Possible) /\ new \in Possible
    BY <1>3, <1>4 DEF ClusterInv, EmittedOnce
  <1> HIDE DEF Possible, new
  <1>6. PICK m \in Nat :
        /\ clusters' \in Seq(Possible) /\ DOMAIN clusters' = DOMAIN clusters \cup {m}
        /\ m \notin DOMAIN clusters /\ \A c \in DOMAIN clusters : c < m /\ c \in Nat
        /\ clusters'[m] = new
        /\ \A c \in DOMAIN clusters : clusters'[c] = clusters[c]
    <2>1. clusters' = Append(clusters, new)
      BY <1>2 DEF new
    <2>2. Len(clusters) \in Nat /\ DOMAIN clusters = 1..Len(clusters)
      BY <1>5, LenProperties
    <2>3. /\ clusters' \in Seq(Possible) /\ Len(clusters') = Len(clusters) + 1
          /\ clusters'[Len(clusters) + 1] = new
          /\ \A c \in DOMAIN clusters : clusters'[c] = clusters[c]
      BY <1>5, <2>1, <2>2, AppendProperties
    <2>4. DOMAIN clusters' = 1..Len(clusters) + 1
      BY <2>3, LenProperties
    <2>5. QED BY <2>2, <2>3, <2>4
  <1>7. new.primary = primary
    BY DEF new, ClusterOf
  <1>8. /\ \A i, S : IsPrimary(i, S)' <=> IsPrimary(i, S)
        /\ Builders' = Builders /\ Indices' = Indices
        /\ \A d, i : ClusterOf(d, i)' = ClusterOf(d, i)
    <2>1. \A d, i : ClusterOf(d, i)' = ClusterOf(d, i)
      BY <1>1 DEF ClusterOf, SectionOfFirst
    <2>2. QED BY <1>1, <2>1, SameInput DEF Builders
  <1>9. \A c \in DOMAIN clusters, d \in Builders : Emitted(c, d)' <=> Emitted(c, d)
    BY <1>1, <1>6, <1>8 DEF Emitted
  <1>10. Emitted(m, b)'
    BY <1>1, <1>2, <1>6, <1>7, <1>8 DEF Emitted, new
  <1>11. ASSUME NEW d \in Builders, Emitted(m, d)' PROVE d = b
    <2>1. primary \in Held(builders[b])
      BY DEF Held
    <2>2. IsPrimary(primary, builders[d].members)
      BY <1>1, <1>6, <1>7, <1>8, <1>11 DEF Emitted
    <2>3. primary \in Held(builders[d])
      BY <2>2 DEF IsPrimary, Held
    <2>4. QED BY <1>3, <2>1, <2>3 DEF ClusterInv, Partition
  <1>12. \A c \in DOMAIN clusters : ~Emitted(c, b)
    <2>1. SUFFICES ASSUME NEW c \in DOMAIN clusters, Emitted(c, b) PROVE FALSE
      OBVIOUS
    <2>2. PICK d \in Builders \ pending : Emitted(c, d)
      BY DEF ClusterInv, EmittedOnce
    <2>3. d = b
      BY <1>3, <2>1, <2>2, EmittedFromOne DEF ClusterInv
    <2>4. QED BY <2>2, <2>3
  <1>13. EmittedOnce'
    <2>1. clusters' \in Seq(Possible')
      BY <1>6, <1>8 DEF Possible
    <2>2. \A c \in DOMAIN clusters' : \E d \in Builders \ pending' : Emitted(c, d)'
      BY <1>1, <1>3, <1>6, <1>9, <1>10 DEF ClusterInv, EmittedOnce
    <2>3. \A d \in Builders \ pending' : \E c \in DOMAIN clusters' : Emitted(c, d)'
      BY <1>1, <1>6, <1>9, <1>10 DEF ClusterInv, EmittedOnce
    <2>4. \A d \in Builders : \A c, e \in DOMAIN clusters' :
            Emitted(c, d)' /\ Emitted(e, d)' => c = e
      BY <1>6, <1>9, <1>11, <1>12 DEF ClusterInv, EmittedOnce
    <2>5. phase' = "emit"
      BY <1>1
    <2>6. QED BY <1>8, <2>1, <2>2, <2>3, <2>4, <2>5 DEF EmittedOnce, Possible
  <1>14. /\ Representatives' = Representatives /\ (HasOutput' <=> HasOutput)
         /\ \A S : DuplicatesOf(S)' = DuplicatesOf(S)
    BY <1>1, SameRepresentatives
  <1>15. \A d \in Builders : ClusterRank(d)' = ClusterRank(d)
    BY <1>1, SameRank
  <1>16. EmittedInOrder'
    <2>1. SUFFICES ASSUME HasOutput,
                          NEW c \in DOMAIN clusters', NEW d \in Builders, Emitted(c, d)'
                   PROVE  /\ \A e \in DOMAIN clusters', f \in Builders :
                               c < e /\ Emitted(e, f)' => RanksBefore(ClusterRank(d), ClusterRank(f))
                          /\ \A f \in pending' : RanksBefore(ClusterRank(d), ClusterRank(f))
      <3>1. pending' \subseteq Builders
        BY <1>1, <1>3
      <3> DEFINE Ahead(d, f) == RanksBefore(ClusterRank(d), ClusterRank(f))
      <3>2. \A d, f \in Builders : Ahead(d, f)' <=> Ahead(d, f)
        BY <1>15 DEF RanksBefore
      <3>3. QED BY <1>8, <1>14, <2>1, <3>1, <3>2 DEF EmittedInOrder
    <2>2. CASE c = m
      <3>1. d = b
        BY <1>11, <2>1, <2>2
      <3>2. \A f \in pending' : RanksBefore(ClusterRank(d), ClusterRank(f))
        BY <1>1, <2>1, <3>1 DEF IsBest
      <3>3. \A e \in DOMAIN clusters' : ~(c < e)
        BY <1>6, <2>2
      <3>4. QED BY <3>2, <3>3
    <2>3. CASE c # m
      <3>1. c \in DOMAIN clusters /\ Emitted(c, d)
        BY <1>6, <1>9, <2>1, <2>3
      <3>2. /\ \A e \in DOMAIN clusters, f \in Builders :
                 c < e /\ Emitted(e, f) => RanksBefore(ClusterRank(d), ClusterRank(f))
            /\ \A f \in pending : RanksBefore(ClusterRank(d), ClusterRank(f))
        BY <2>1, <3>1 DEF ClusterInv, EmittedInOrder
      <3>3. QED BY <1>1, <1>6, <1>9, <1>11, <3>2
    <2>4. QED BY <2>2, <2>3
  <1>17. /\ \A k : IsPF(k)' <=> IsPF(k)
         /\ \A k : DedupKey(k)' = DedupKey(k)
         /\ \A k : IsMarkerEvidence(k)' <=> IsMarkerEvidence(k)
         /\ Builder' = Builder
    BY <1>1, SameInput
  <1>18. Fields' /\ Work'
    BY <1>1, <1>3, <1>8, <1>17 DEF ClusterInv, Fields, Work
  <1>19. FirstOfKey'
    BY <1>1, <1>8, <1>14, <1>17 DEF ClusterInv, FirstOfKey
  <1>20. Partition'
    <2>1. Unplaced' = Unplaced
      BY <1>1, <1>14 DEF Unplaced
    <2>2. QED BY <1>1, <1>8, <1>14, <2>1 DEF ClusterInv, Partition
  <1>21. ExitCodesApart'
    <2>1. ASSUME NEW bs, bs = Builders, NEW d \in bs PROVE IsBest(d, bs)' <=> IsBest(d, bs)
      BY <1>1, <2>1, SameBest
    <2>2. \A d \in Builders : IsBest(d, Builders)' <=> IsBest(d, Builders)
      BY <1>8, <2>1 DEF IsBest
    <2>3. QED BY <1>1, <1>8, <1>14, <1>17, <2>2 DEF ClusterInv, ExitCodesApart
  <1>22. TestsApart' /\ InOrder'
    BY <1>1, <1>8 DEF ClusterInv, TestsApart, InOrder
  <1>23. Echoes'
    BY <1>1, <1>8, <1>17 DEF ClusterInv, Echoes
  <1>24. QED
    BY <1>13, <1>16, <1>18, <1>19, <1>20, <1>21, <1>22, <1>23 DEF ClusterInv

(* Nothing moves when build_clusters has returned. *)
LEMMA StutterInv ==
  ASSUME ClusterInv, UNCHANGED vars
  PROVE  ClusterInv'
  <1>1. UNCHANGED <<diagnostics, phase, pending, repOf, builders, clusters>>
    BY DEF vars
  <1>2. Builders' = Builders /\ Representatives' = Representatives /\ (HasOutput' <=> HasOutput)
    BY <1>1, SameRepresentatives DEF Builders
  <1>3. /\ \A k : IsPF(k)' <=> IsPF(k)
        /\ \A k : DedupKey(k)' = DedupKey(k)
        /\ \A k : IsMarkerEvidence(k)' <=> IsMarkerEvidence(k)
        /\ \A i, S : IsPrimary(i, S)' <=> IsPrimary(i, S)
        /\ Indices' = Indices /\ Builder' = Builder
    BY <1>1, SameInput
  <1>4. /\ Unplaced' = Unplaced
        /\ \A d, i : ClusterOf(d, i)' = ClusterOf(d, i)
        /\ \A c, d : Emitted(c, d)' <=> Emitted(c, d)
    <2>1. \A d, i : ClusterOf(d, i)' = ClusterOf(d, i)
      BY <1>1 DEF ClusterOf, SectionOfFirst
    <2>2. QED BY <1>1, <1>2, <1>3, <2>1 DEF Unplaced, Emitted
  <1>5. Fields' /\ FirstOfKey' /\ Work'
    BY <1>1, <1>2, <1>3 DEF ClusterInv, Fields, FirstOfKey, Work
  <1>6. Partition'
    BY <1>1, <1>2, <1>4, SameRepresentatives DEF ClusterInv, Partition
  <1>7. ExitCodesApart'
    <2>1. ASSUME NEW bs, bs = Builders, NEW d \in bs PROVE IsBest(d, bs)' <=> IsBest(d, bs)
      BY <1>1, <2>1, SameBest
    <2>2. \A d \in Builders : IsBest(d, Builders)' <=> IsBest(d, Builders)
      BY <1>2, <2>1 DEF IsBest
    <2>3. QED BY <1>1, <1>2, <1>3, <2>2 DEF ClusterInv, ExitCodesApart
  <1>8. TestsApart' /\ InOrder' /\ Echoes'
    BY <1>1, <1>2, <1>3 DEF ClusterInv, TestsApart, InOrder, Echoes
  <1>9. EmittedOnce'
    BY <1>1, <1>2, <1>3, <1>4 DEF ClusterInv, EmittedOnce
  <1>10. EmittedInOrder'
    <2>1. \A d : ClusterRank(d)' = ClusterRank(d)
      BY <1>1, SameRank
    <2> DEFINE Ahead(d, f) == RanksBefore(ClusterRank(d), ClusterRank(f))
    <2>2. \A d, f : Ahead(d, f)' <=> Ahead(d, f)
      BY <2>1 DEF RanksBefore
    <2>3. QED BY <1>1, <1>2, <1>4, <2>2 DEF ClusterInv, EmittedInOrder
  <1>11. QED
    BY <1>5, <1>6, <1>7, <1>8, <1>9, <1>10 DEF ClusterInv

(* The builders partition the diagnostics read so far, and the clusters are *)
(* the builders taken, in every reachable state of build_clusters.          *)
THEOREM ClusterInvariant == Spec => []ClusterInv
  <1>1. ASSUME ClusterInv, [Next]_vars PROVE ClusterInv'
    <2>1. CASE FirstOccurrence \/ LaterOccurrence
      BY <1>1, <2>1, DedupInv
    <2>2. CASE SplitExitCodes
      BY <1>1, <2>2, SplitInv
    <2>3. CASE JoinSummary
      BY <1>1, <2>3, JoinSummaryInv
    <2>4. CASE JoinMember
      BY <1>1, <2>4, JoinMemberInv
    <2>5. CASE OpenCluster
      BY <1>1, <2>5, OpenClusterInv
    <2>6. CASE StartExitCodes \/ StartDuplicates
      BY <1>1, <2>6, NextPassInv
    <2>7. CASE ExitCodeAlone
      BY <1>1, <2>7, ExitCodeAloneInv
    <2>8. CASE ExitCodeFollows
      BY <1>1, <2>8, ExitCodeFollowsInv
    <2>9. CASE AttachDuplicates
      BY <1>1, <2>9, AttachInv
    <2>10. CASE EmitCluster
      BY <1>1, <2>10, EmitInv
    <2>11. CASE Returned \/ UNCHANGED vars
      BY <1>1, <2>11, StutterInv DEF Returned
    <2>12. QED
      BY <1>1, <2>1, <2>2, <2>3, <2>4, <2>5, <2>6, <2>7, <2>8, <2>9, <2>10, <2>11 DEF Next
  <1>2. QED
    BY <1>1, InitInv, PTL DEF Spec

-----------------------------------------------------------------------------
(* What is in a cluster. *)

(* A cluster emitted for a builder names what the builder holds, in the     *)
(* builder's roles.                                                         *)
LEMMA InCluster ==
  ASSUME ClusterInv, NEW c \in DOMAIN clusters, NEW b \in Builders, Emitted(c, b)
  PROVE  /\ clusters[c].primary \in builders[b].members
         /\ \A i : <<i, "secondary">> \in clusters[c].related <=>
                     i \in builders[b].members /\ i # clusters[c].primary
         /\ \A i : <<i, "summary">> \in clusters[c].related <=> i \in builders[b].summary
         /\ \A i : <<i, "consequence">> \in clusters[c].related <=> i \in builders[b].consequence
         /\ \A i : <<i, "duplicate">> \in clusters[c].related <=> i \in builders[b].duplicate
         /\ \A p \in clusters[c].related : p[2] \in Roles /\ p = <<p[1], p[2]>>
         /\ clusters[c].classification = diagnostics[clusters[c].primary].type
         /\ \A i : i \in RelatedIn(c) <=> \E x \in Roles : <<i, x>> \in clusters[c].related
         /\ \A i : Holds(c, i) <=> i \in Held(builders[b]) \cup builders[b].duplicate
  <1> DEFINE p == clusters[c].primary
             R == ((builders[b].members \ {p}) \X {"secondary"})
                    \cup (builders[b].summary \X {"summary"})
                    \cup (builders[b].consequence \X {"consequence"})
                    \cup (builders[b].duplicate \X {"duplicate"})
  <1>1. /\ clusters[c].related = R
        /\ clusters[c].classification = diagnostics[p].type
    BY DEF Emitted, ClusterOf
  <1>2. p \in builders[b].members
    BY DEF Emitted, IsPrimary
  <1> HIDE DEF p
  <1>3. /\ \A i : <<i, "secondary">> \in R <=> i \in builders[b].members /\ i # p
        /\ \A i : <<i, "summary">> \in R <=> i \in builders[b].summary
        /\ \A i : <<i, "consequence">> \in R <=> i \in builders[b].consequence
        /\ \A i : <<i, "duplicate">> \in R <=> i \in builders[b].duplicate
    OBVIOUS
  <1>4. \A q \in R : q[2] \in Roles /\ q = <<q[1], q[2]>>
    BY DEF Roles
  <1> HIDE DEF R
  <1>5. \A i : i \in RelatedIn(c) <=> \E x \in Roles : <<i, x>> \in R
    <2>1. \A i : i \in RelatedIn(c) <=> \E q \in R : q[1] = i
      BY <1>1 DEF RelatedIn
    <2>2. \A i : (\E q \in R : q[1] = i) => \E x \in Roles : <<i, x>> \in R
      BY <1>4
    <2>3. \A i, x : <<i, x>> \in R => \E q \in R : q[1] = i
      <3>1. \A i, x : <<i, x>>[1] = i
        OBVIOUS
      <3>2. QED BY <3>1
    <2>4. QED BY <2>1, <2>2, <2>3
  <1>6. \A i : Holds(c, i) <=> i \in Held(builders[b]) \cup builders[b].duplicate
    <2>1. \A i : Holds(c, i) <=> i = p \/ \E x \in Roles : <<i, x>> \in R
      BY <1>5 DEF Holds, p
    <2>2. QED BY <1>2, <1>3, <2>1 DEF Held, Roles
  <1>7. QED
    BY <1>1, <1>2, <1>3, <1>4, <1>5, <1>6 DEF p

(* In the end every builder is a cluster and every cluster was a builder. *)
LEMMA AllEmitted ==
  ASSUME ClusterInv, Done
  PROVE  /\ \A c \in DOMAIN clusters : \E b \in Builders : Emitted(c, b)
         /\ \A b \in Builders : \E c \in DOMAIN clusters : Emitted(c, b)
         /\ \A b \in Builders : builders[b].duplicate = DuplicatesOf(Held(builders[b]))
         /\ Unplaced = {}
  BY DEF ClusterInv, EmittedOnce, Done, Partition, Unplaced

(* Where the diagnostic i is: with its representative, in one cluster. *)
LEMMA WhereItIs ==
  ASSUME ClusterInv, Done, NEW i \in Indices
  PROVE  /\ repOf[i] \in Representatives /\ repOf[i] \in Indices
         /\ \E b \in Builders : repOf[i] \in Held(builders[b])
         /\ \A c \in DOMAIN clusters, b \in Builders :
              Emitted(c, b) =>
                /\ Holds(c, i) <=> repOf[i] \in Held(builders[b])
                /\ <<i, "duplicate">> \in clusters[c].related
                     <=> repOf[i] \in Held(builders[b]) /\ repOf[i] # i
  <1>1. repOf[i] \in Representatives /\ DOMAIN repOf = Indices
    BY DEF ClusterInv, FirstOfKey, Done
  <1>2. repOf[i] \in Indices /\ repOf[repOf[i]] = repOf[i]
    BY <1>1 DEF Representatives
  <1>3. \E b \in Builders : repOf[i] \in Held(builders[b])
    BY <1>1, AllEmitted DEF ClusterInv, Partition
  <1>4. ASSUME NEW c \in DOMAIN clusters, NEW b \in Builders, Emitted(c, b)
        PROVE  /\ Holds(c, i) <=> repOf[i] \in Held(builders[b])
               /\ <<i, "duplicate">> \in clusters[c].related
                    <=> repOf[i] \in Held(builders[b]) /\ repOf[i] # i
    <2>1. /\ Holds(c, i) <=> i \in Held(builders[b]) \cup builders[b].duplicate
          /\ <<i, "duplicate">> \in clusters[c].related <=> i \in builders[b].duplicate
      BY <1>4, InCluster
    <2>2. i \in builders[b].duplicate <=> repOf[i] # i /\ repOf[i] \in Held(builders[b])
      BY AllEmitted DEF DuplicatesOf
    <2>3. i \in Held(builders[b]) => repOf[i] = i
      BY DEF ClusterInv, Partition, Representatives
    <2>4. QED BY <2>1, <2>2, <2>3
  <1>5. QED BY <1>1, <1>2, <1>3, <1>4

(* Nothing build_clusters was given is lost, doubled or given two roles. *)
THEOREM NothingLost == Spec => []NonLossy
  <1>1. ClusterInv => NonLossy
    <2>1. SUFFICES ASSUME ClusterInv, Done, NEW i \in Indices
                   PROVE  /\ \E c \in DOMAIN clusters : Holds(c, i)
                          /\ \A c, e \in DOMAIN clusters : Holds(c, i) /\ Holds(e, i) => c = e
                          /\ \A c \in DOMAIN clusters :
                               /\ clusters[c].primary \notin RelatedIn(c)
                               /\ \A p, q \in clusters[c].related : p[1] = q[1] => p = q
      BY DEF NonLossy
    <2>2. \E c \in DOMAIN clusters : Holds(c, i)
      BY <2>1, WhereItIs, AllEmitted
    <2>3. ASSUME NEW c \in DOMAIN clusters, NEW e \in DOMAIN clusters, Holds(c, i), Holds(e, i)
          PROVE  c = e
      <3>1. PICK b \in Builders : Emitted(c, b)
        BY <2>1, AllEmitted
      <3>2. PICK d \in Builders : Emitted(e, d)
        BY <2>1, AllEmitted
      <3>3. repOf[i] \in Held(builders[b]) /\ repOf[i] \in Held(builders[d])
        BY <2>1, <2>3, <3>1, <3>2, WhereItIs
      <3>4. b = d
        BY <2>1, <3>3 DEF ClusterInv, Partition
      <3>5. QED BY <2>1, <3>1, <3>2, <3>4 DEF ClusterInv, EmittedOnce
    <2>4. ASSUME NEW c \in DOMAIN clusters
          PROVE  /\ clusters[c].primary \notin RelatedIn(c)
                 /\ \A p, q \in clusters[c].related : p[1] = q[1] => p = q
      <3>1. PICK b \in Builders : Emitted(c, b)
        BY <2>1, AllEmitted
      <3> DEFINE r == builders[b]
      <3>2. /\ r.members \cap r.summary = {} /\ r.members \cap r.consequence = {}
            /\ r.summary \cap r.consequence = {}
            /\ r.members \cap r.duplicate = {} /\ r.summary \cap r.duplicate = {}
            /\ r.consequence \cap r.duplicate = {}
        <4>1. \A k \in Held(r) : repOf[k] = k
          BY <2>1 DEF ClusterInv, Partition, Representatives
        <4>2. \A k \in r.duplicate : repOf[k] # k
          <5>1. r.duplicate = DuplicatesOf(Held(r))
            BY <2>1, AllEmitted
          <5>2. QED BY <5>1 DEF DuplicatesOf
        <4>3. /\ r.members \cap r.summary = {} /\ r.members \cap r.consequence = {}
              /\ r.summary \cap r.consequence = {}
          BY <2>1 DEF ClusterInv, Partition
        <4>4. QED BY <4>1, <4>2, <4>3 DEF Held
      <3>3. /\ clusters[c].primary \in r.members
            /\ \A k : <<k, "secondary">> \in clusters[c].related <=>
                        k \in r.members /\ k # clusters[c].primary
            /\ \A k : <<k, "summary">> \in clusters[c].related <=> k \in r.summary
            /\ \A k : <<k, "consequence">> \in clusters[c].related <=> k \in r.consequence
            /\ \A k : <<k, "duplicate">> \in clusters[c].related <=> k \in r.duplicate
            /\ \A p \in clusters[c].related : p[2] \in Roles /\ p = <<p[1], p[2]>>
            /\ \A k : k \in RelatedIn(c) <=> \E x \in Roles : <<k, x>> \in clusters[c].related
        BY <2>1, <3>1, InCluster
      <3> HIDE DEF r
      <3>4. clusters[c].primary \notin RelatedIn(c)
        BY <3>2, <3>3 DEF Roles
      <3>5. ASSUME NEW k, NEW x \in Roles, NEW y \in Roles,
                   <<k, x>> \in clusters[c].related, <<k, y>> \in clusters[c].related
            PROVE  x = y
        BY <3>2, <3>3, <3>5 DEF Roles
      <3>6. QED BY <3>3, <3>4, <3>5
    <2>5. QED BY <2>2, <2>3, <2>4
  <1>2. QED
    BY <1>1, ClusterInvariant, PTL

-----------------------------------------------------------------------------
(* Repeats. *)

(* Two diagnostics are the same failure just when dedup_key makes one key   *)
(* of them.                                                                 *)
LEMMA SameFailureIsSameKey ==
  ASSUME NEW i, NEW j
  PROVE  SameFailure(i, j) <=> DedupKey(i) = DedupKey(j)
  BY DEF SameFailure, DedupKey

(* At the end a diagnostic is a duplicate just when an earlier one is the   *)
(* same failure.                                                            *)
LEMMA FirstRepresents ==
  ASSUME ClusterInv, Done, NEW j \in Indices
  PROVE  /\ repOf[j] # j => repOf[j] \in 1..j - 1 /\ SameFailure(repOf[j], j)
         /\ repOf[j] = j => \A i \in 1..j - 1 : ~SameFailure(i, j)
  <1>1. /\ DOMAIN repOf = Indices /\ Indices = 1..Len(diagnostics) /\ Len(diagnostics) \in Nat
        /\ \A i \in Indices : /\ repOf[i] \in Representatives /\ repOf[i] <= i
                              /\ DedupKey(repOf[i]) = DedupKey(i)
        /\ \A r, s \in Representatives : DedupKey(r) = DedupKey(s) => r = s
        /\ Representatives \subseteq Indices
    BY InputTypes DEF ClusterInv, FirstOfKey, Done, Representatives
  <1>2. repOf[j] # j => repOf[j] \in 1..j - 1 /\ SameFailure(repOf[j], j)
    <2>1. repOf[j] \in Indices /\ repOf[j] <= j /\ DedupKey(repOf[j]) = DedupKey(j)
      BY <1>1
    <2>2. SameFailure(repOf[j], j)
      BY <2>1, SameFailureIsSameKey
    <2>3. repOf[j] # j => repOf[j] \in 1..j - 1
      BY <1>1, <2>1
    <2>4. QED BY <2>2, <2>3
  <1>3. ASSUME repOf[j] = j, NEW i \in 1..j - 1, SameFailure(i, j) PROVE FALSE
    <2>1. i \in Indices /\ i < j /\ DedupKey(i) = DedupKey(j)
      BY <1>1, <1>3, SameFailureIsSameKey
    <2>2. repOf[i] = j /\ repOf[i] <= i /\ repOf[i] \in Nat
      <3>1. /\ repOf[i] \in Representatives /\ repOf[j] \in Representatives
            /\ DedupKey(repOf[i]) = DedupKey(repOf[j]) /\ repOf[i] <= i
        BY <1>1, <2>1
      <3>2. repOf[i] = repOf[j]
        BY <1>1, <3>1
      <3>3. QED BY <1>1, <1>3, <3>1, <3>2
    <2>3. QED BY <2>1, <2>2
  <1>4. QED BY <1>2, <1>3

(* A repeat is reported beside its first occurrence and an annotation's echo *)
(* beside the tool's own report, whatever the diagnostics.                   *)
THEOREM RepeatsAreBeside == Spec => []RepeatsBesideOriginal
  <1>1. ASSUME ClusterInv, Done PROVE DuplicateBesideOriginal
    <2>1. SUFFICES ASSUME NEW c \in DOMAIN clusters, NEW j \in Indices, Holds(c, j)
                   PROVE  IF \E i \in 1..j - 1 : SameFailure(i, j)
                          THEN /\ <<j, "duplicate">> \in clusters[c].related
                               /\ \E i \in 1..j - 1 :
                                    /\ SameFailure(i, j) /\ Holds(c, i)
                                    /\ <<i, "duplicate">> \notin clusters[c].related
                          ELSE <<j, "duplicate">> \notin clusters[c].related
      BY DEF DuplicateBesideOriginal
    <2>2. PICK b \in Builders : Emitted(c, b)
      BY <1>1, AllEmitted
    <2>3. /\ repOf[j] \in Held(builders[b]) /\ repOf[j] \in Indices
          /\ repOf[repOf[j]] = repOf[j]
          /\ <<j, "duplicate">> \in clusters[c].related <=> repOf[j] # j
      BY <1>1, <2>1, <2>2, WhereItIs DEF Representatives
    <2>4. Holds(c, repOf[j]) /\ <<repOf[j], "duplicate">> \notin clusters[c].related
      BY <1>1, <2>2, <2>3, WhereItIs
    <2>5. CASE repOf[j] = j
      BY <1>1, <2>3, <2>5, FirstRepresents
    <2>6. CASE repOf[j] # j
      BY <1>1, <2>3, <2>4, <2>6, FirstRepresents
    <2>7. QED BY <2>5, <2>6
  <1>2. ASSUME ClusterInv, Done PROVE EchoBesideOriginal
    <2>1. SUFFICES ASSUME NEW c \in DOMAIN clusters, NEW i \in Indices,
                          <<i, "summary">> \in clusters[c].related
                   PROVE  /\ diagnostics[i].type # "process_failure"
                          /\ \E t \in Indices \ {i} :
                               /\ t = clusters[c].primary \/ <<t, "secondary">> \in clusters[c].related
                               /\ ~IsMarkerEvidence(t)
                               /\ NormMessage(diagnostics[t].message) = NormMessage(diagnostics[i].message)
                               /\ diagnostics[t].line = diagnostics[i].line
      BY DEF EchoBesideOriginal
    <2>2. PICK b \in Builders : Emitted(c, b)
      BY <1>2, AllEmitted
    <2>3. i \in builders[b].summary
      BY <1>2, <2>1, <2>2, InCluster
    <2>4. ~IsPF(i) /\ IsMarkerEvidence(i)
      BY <1>2, <2>3 DEF ClusterInv, ExitCodesApart, Echoes
    <2>5. PICK t \in builders[b].members :
            /\ ~IsMarkerEvidence(t)
            /\ NormMessage(diagnostics[t].message) = NormMessage(diagnostics[i].message)
            /\ diagnostics[t].line = diagnostics[i].line
      BY <1>2, <2>3 DEF ClusterInv, Echoes
    <2>6. t \in Indices /\ t # i
      <3>1. builders[b] \in Builder
        BY <1>2, ElementOfSeq DEF ClusterInv, Fields, Builders
      <3>2. QED BY <2>4, <2>5, <3>1 DEF Builder
    <2>7. t = clusters[c].primary \/ <<t, "secondary">> \in clusters[c].related
      BY <1>2, <2>2, InCluster
    <2>8. QED BY <2>4, <2>5, <2>6, <2>7 DEF IsPF
  <1>3. ClusterInv => RepeatsBesideOriginal
    BY <1>1, <1>2 DEF RepeatsBesideOriginal
  <1>4. QED
    BY <1>3, ClusterInvariant, PTL

-----------------------------------------------------------------------------
(* Tests. *)

(* In the result, a test's failures are in one cluster, and that is of no *)
(* other test.                                                            *)
THEOREM OneClusterPerTest == Spec => []TestIsUnitOfFailure
  <1>1. ASSUME ClusterInv, Done,
               NEW c \in DOMAIN clusters, NEW e \in DOMAIN clusters,
               NEW i \in Indices, NEW j \in Indices,
               diagnostics[i].test # None, diagnostics[j].test # None,
               i = clusters[c].primary \/ <<i, "secondary">> \in clusters[c].related,
               j = clusters[e].primary \/ <<j, "secondary">> \in clusters[e].related
        PROVE  c = e <=> diagnostics[i].test = diagnostics[j].test
    <2>1. PICK b \in Builders : Emitted(c, b)
      BY <1>1, AllEmitted
    <2>2. PICK d \in Builders : Emitted(e, d)
      BY <1>1, AllEmitted
    <2>3. i \in builders[b].members
      BY <1>1, <2>1, InCluster
    <2>4. j \in builders[d].members
      BY <1>1, <2>2, InCluster
    <2>5. /\ diagnostics[i].test = diagnostics[builders[b].anchor].test
          /\ diagnostics[j].test = diagnostics[builders[d].anchor].test
      BY <1>1, <2>3, <2>4 DEF ClusterInv, TestsApart
    <2>6. c = e <=> b = d
      BY <1>1, <2>1, <2>2, EmittedFromOne DEF ClusterInv, EmittedOnce
    <2>7. QED BY <1>1, <2>5, <2>6 DEF ClusterInv, TestsApart
  <1>2. ClusterInv => TestIsUnitOfFailure
    BY <1>1 DEF TestIsUnitOfFailure
  <1>3. QED
    BY <1>2, ClusterInvariant, PTL

-----------------------------------------------------------------------------
(* Ranks. *)

(* Sets of emission indices are finite. *)
LEMMA FinitelyMany ==
  ASSUME Fields, NEW S \in SUBSET Indices
  PROVE  IsFiniteSet(S) /\ Cardinality(S) \in Nat
  <1>1. IsFiniteSet(1..Len(diagnostics))
    <2>1. Len(diagnostics) \in Int /\ 1 \in Int
      BY InputTypes
    <2>2. QED BY <2>1, FS_Interval
  <1>2. IsFiniteSet(S)
    BY <1>1, FS_Subset DEF Indices
  <1>3. QED BY <1>2, FS_CardinalityType

(* The ranks of members and of clusters are compared as tuples are. *)
LEMMA BeforeIs ==
  ASSUME NEW a, NEW b
  PROVE  RanksBefore(a, b) <=> Before(a, b)
  BY DEF RanksBefore, Before

(* min() of a non-empty set of naturals is its least element. *)
LEMMA LeastIs ==
  ASSUME NEW T \in SUBSET Nat, T # {}
  PROVE  Least(T) \in T /\ \A y \in T : Least(T) <= y
  <1>1. \E x \in T : \A y \in T : x <= y
    BY LeastNatural
  <1>2. QED BY <1>1 DEF Least

(* The two ladders rank by natural numbers. *)
LEMMA RungsOfLadders ==
  /\ \A x \in DOMAIN TypeRank : TypeRank[x] \in Nat
  /\ \A x \in DOMAIN SeverityRank : SeverityRank[x] \in Nat
  BY DEF TypeRank, SeverityRank

(* A member's rank is a tuple of six numbers that ends with its own index. *)
LEMMA MemberRanks ==
  ASSUME Fields, NEW i \in Indices
  PROVE  /\ MemberRank(i) \in Ranks(6) /\ MemberRank(i)[6] = i
         /\ Earliest(i) \in Nat /\ Unlocated(i) \in Nat
         /\ diagnostics[i].confidence \in Nat
         /\ TypeRank[diagnostics[i].type] \in Nat
  <1>1. diagnostics[i] \in Diagnostic /\ i \in Nat
    BY InputTypes
  <1>2. /\ diagnostics[i].type \in DOMAIN TypeRank
        /\ diagnostics[i].severity \in DOMAIN SeverityRank
        /\ diagnostics[i].confidence \in Nat
        /\ diagnostics[i].evidence \in Seq(Nat)
    BY <1>1 DEF Diagnostic
  <1>3. EvidenceOf(i) \in SUBSET Nat
    <2>1. \A k \in DOMAIN diagnostics[i].evidence : diagnostics[i].evidence[k] \in Nat
      BY <1>2, ElementOfSeq, LenProperties
    <2>2. QED BY <2>1 DEF EvidenceOf
  <1>4. Earliest(i) \in Nat
    BY <1>3, LeastIs DEF Earliest
  <1>5. Unlocated(i) \in Nat
    BY DEF Unlocated
  <1>6. /\ SeverityRank[diagnostics[i].severity] \in Nat
        /\ TypeRank[diagnostics[i].type] \in Nat
    BY <1>2, RungsOfLadders
  <1>7. MemberRank(i) \in Ranks(6) /\ MemberRank(i)[6] = i
    <2> DEFINE severity == SeverityRank[diagnostics[i].severity]
               type     == TypeRank[diagnostics[i].type]
               located  == Unlocated(i)
               doubt    == -diagnostics[i].confidence
               earliest == Earliest(i)
    <2>1. /\ severity \in Int /\ type \in Int /\ located \in Int /\ doubt \in Int
          /\ earliest \in Int
      BY <1>2, <1>4, <1>5, <1>6
    <2>2. MemberRank(i) = <<severity, type, located, doubt, earliest, i>>
      BY DEF MemberRank
    <2> HIDE DEF severity, type, located, doubt, earliest
    <2>3. QED BY <1>1, <2>1, <2>2 DEF Ranks
  <1>8. QED BY <1>2, <1>4, <1>5, <1>6, <1>7

(* A set of members has one primary at most. *)
LEMMA OnePrimary ==
  ASSUME Fields, NEW S \in SUBSET Indices, NEW i, NEW j, IsPrimary(i, S), IsPrimary(j, S)
  PROVE  i = j
  <1> SUFFICES ASSUME i # j PROVE FALSE
    OBVIOUS
  <1>1. i \in Indices /\ j \in Indices
    BY DEF IsPrimary
  <1>2. /\ Before(MemberRank(i), MemberRank(j))
        /\ Before(MemberRank(j), MemberRank(i))
    BY BeforeIs DEF IsPrimary
  <1>3. MemberRank(i) \in Ranks(6) /\ MemberRank(j) \in Ranks(6)
    BY <1>1, MemberRanks
  <1>4. QED BY <1>2, <1>3, BeforeAsymmetric

(* The best of a cluster's diagnostics: one always is. *)
LEMMA SomePrimary ==
  ASSUME Fields, NEW S \in SUBSET Indices, S # {}
  PROVE  \E i \in S : IsPrimary(i, S)
  <1> DEFINE R == {p \in S \X S : Before(MemberRank(p[1]), MemberRank(p[2]))}
  <1>1. IsFiniteSet(S)
    BY FinitelyMany
  <1>2. \A i \in S : MemberRank(i) \in Ranks(6) /\ MemberRank(i)[6] = i
    BY MemberRanks
  <1>3. \A x, y \in S : <<x, y>> \in R <=> Before(MemberRank(x), MemberRank(y))
    OBVIOUS
  <1> HIDE DEF R
  <1>4. ASSUME NEW x \in S, NEW y \in S, NEW z \in S, <<x, y>> \in R, <<y, z>> \in R
        PROVE  <<x, z>> \in R
    BY <1>2, <1>3, <1>4, BeforeTransitive
  <1>5. ASSUME NEW x \in S, NEW y \in S, x # y
        PROVE  <<x, y>> \in R \/ <<y, x>> \in R
    BY <1>2, <1>3, <1>5, BeforeTotal
  <1>6. PICK x \in S : \A y \in S \ {x} : <<x, y>> \in R
    BY <1>1, <1>4, <1>5, LeastOfFinite
  <1>7. QED BY <1>3, <1>6, BeforeIs DEF IsPrimary

(* A cluster's rank is a tuple of seven numbers that ends with its own      *)
(* index.                                                                   *)
LEMMA ClusterRanks ==
  ASSUME ClusterInv, NEW b \in Builders
  PROVE  /\ IsPrimary(PrimaryOf(builders[b].members), builders[b].members)
         /\ PrimaryOf(builders[b].members) \in Indices
         /\ ClusterRank(b) \in Ranks(7) /\ ClusterRank(b)[7] = b
         /\ ClusterRank(b)[1] =
              IF \E i \in builders[b].members : diagnostics[i].severity = "error" THEN 0 ELSE 1
         /\ ClusterRank(b)[2] = TypeRank[diagnostics[PrimaryOf(builders[b].members)].type]
  <1> DEFINE members == builders[b].members
             primary == PrimaryOf(members)
             cited   == {i \in members : EvidenceOf(i) # {}}
             first   == IF cited = {} THEN 0 ELSE Least({Earliest(i) : i \in cited})
             errors  == IF \E i \in members : diagnostics[i].severity = "error" THEN 0 ELSE 1
  <1>1. members \in SUBSET Indices /\ members # {} /\ b \in Nat
    <2>1. builders[b] \in Builder
      BY ElementOfSeq DEF ClusterInv, Fields, Builders
    <2>2. members # {}
      BY DEF ClusterInv, Partition
    <2>3. QED BY <2>1, <2>2 DEF Builder, Builders
  <1>2. IsPrimary(primary, members) /\ primary \in Indices
    <2>1. \E i \in members : IsPrimary(i, members)
      BY <1>1, SomePrimary DEF ClusterInv
    <2>2. IsPrimary(primary, members)
      BY <2>1 DEF PrimaryOf
    <2>3. QED BY <1>1, <2>2 DEF IsPrimary
  <1>3. /\ TypeRank[diagnostics[primary].type] \in Int
        /\ Unlocated(primary) \in Int /\ -diagnostics[primary].confidence \in Int
    BY <1>2, MemberRanks DEF ClusterInv
  <1>4. -Cardinality(members) \in Int
    <2>1. Cardinality(members) \in Nat
      BY <1>1, FinitelyMany DEF ClusterInv
    <2>2. QED BY <2>1
  <1>5. first \in Int
    <2>1. {Earliest(i) : i \in cited} \in SUBSET Nat
      BY <1>1, MemberRanks DEF ClusterInv
    <2>2. CASE cited # {}
      <3>1. {Earliest(i) : i \in cited} # {}
        BY <2>2
      <3>2. Least({Earliest(i) : i \in cited}) \in Nat
        BY <2>1, <3>1, LeastIs
      <3>3. QED BY <2>2, <3>2
    <2>3. CASE cited = {}
      BY <2>3
    <2>4. QED BY <2>2, <2>3
  <1>6. errors \in Int
    OBVIOUS
  <1>7. ClusterRank(b) = <<errors, TypeRank[diagnostics[primary].type], Unlocated(primary),
                           -diagnostics[primary].confidence, -Cardinality(members), first, b>>
    BY DEF ClusterRank
  <1> HIDE DEF members, primary, cited, first, errors
  <1>8. /\ ClusterRank(b) \in Ranks(7) /\ ClusterRank(b)[7] = b
        /\ ClusterRank(b)[1] = errors
        /\ ClusterRank(b)[2] = TypeRank[diagnostics[primary].type]
    BY <1>1, <1>3, <1>4, <1>5, <1>6, <1>7 DEF Ranks
  <1>9. QED BY <1>2, <1>8 DEF members, primary, errors

(* What the emitted clusters say of their builders' ranks. *)
LEMMA ClusterOrder ==
  ASSUME ClusterInv, NEW c \in DOMAIN clusters, NEW b \in Builders, Emitted(c, b)
  PROVE  /\ clusters[c].primary = PrimaryOf(builders[b].members)
         /\ ClusterRank(b)[2] = TypeRank[clusters[c].classification]
         /\ ClusterRank(b)[1] = IF HasError(c) THEN 0 ELSE 1
         /\ TypeRank[clusters[c].classification] \in Nat
  <1>1. builders[b].members \in SUBSET Indices
    <2>1. builders[b] \in Builder
      BY ElementOfSeq DEF ClusterInv, Fields, Builders
    <2>2. QED BY <2>1 DEF Builder
  <1>2. clusters[c].primary = PrimaryOf(builders[b].members)
    BY <1>1, ClusterRanks, OnePrimary DEF Emitted, ClusterInv
  <1>3. /\ ClusterRank(b)[2] = TypeRank[clusters[c].classification]
        /\ TypeRank[clusters[c].classification] \in Nat
    BY <1>2, ClusterRanks, InCluster, MemberRanks DEF ClusterInv
  <1>4. HasError(c) <=> \E i \in builders[b].members : diagnostics[i].severity = "error"
    BY <1>1, InCluster DEF HasError
  <1>5. QED BY <1>2, <1>3, <1>4, ClusterRanks

(* Where there is output, an earlier cluster's builder has the better rank. *)
LEMMA EarlierIsBetter ==
  ASSUME ClusterInv, HasOutput, NEW c \in DOMAIN clusters, NEW e \in DOMAIN clusters,
         NEW b \in Builders, NEW d \in Builders, Emitted(c, b), Emitted(e, d), c < e
  PROVE  Before(ClusterRank(b), ClusterRank(d))
  BY BeforeIs DEF ClusterInv, EmittedInOrder

(* Without output every cluster is one exit code. *)
LEMMA ExitCodesAlone ==
  ASSUME ClusterInv, ~HasOutput, NEW c \in DOMAIN clusters, NEW b \in Builders, Emitted(c, b)
  PROVE  /\ Held(builders[b]) = {clusters[c].primary} /\ IsPF(clusters[c].primary)
         /\ clusters[c].primary \in Indices
  <1>1. Held(builders[b]) = {builders[b].anchor} /\ clusters[c].primary \in Held(builders[b])
    BY InCluster DEF ClusterInv, ExitCodesApart, Held
  <1>2. clusters[c].primary \in Representatives /\ Representatives \subseteq Indices
    BY <1>1 DEF ClusterInv, Partition, Representatives, FirstOfKey
  <1>3. QED BY <1>1, <1>2 DEF HasOutput

(* Nothing but an exit code shares an exit code's key. *)
LEMMA KeyTellsExitCodes ==
  ASSUME ClusterInv, Done, NEW i \in Indices
  PROVE  IsPF(repOf[i]) <=> IsPF(i)
  <1>1. DedupKey(repOf[i]) = DedupKey(i)
    BY DEF ClusterInv, FirstOfKey, Done
  <1>2. QED BY <1>1 DEF DedupKey, IsPF

(* The report's headline is never an exit code where there is anything else. *)
THEOREM ExitCodesExplainNothing == Spec => []ExitCodeNeverExplains
  <1>1. ASSUME ClusterInv, Done, NEW i \in Indices, IsPF(i)
        PROVE  IF \A j \in Indices : IsPF(j)
               THEN \E c \in DOMAIN clusters : Holds(c, i) /\ SameFailure(clusters[c].primary, i)
               ELSE i \in RelatedIn(1) /\ \A c \in DOMAIN clusters : clusters[c].primary # i
    <2>1. /\ repOf[i] \in Representatives /\ repOf[i] \in Indices /\ IsPF(repOf[i])
          /\ DedupKey(repOf[i]) = DedupKey(i)
      BY <1>1, WhereItIs, KeyTellsExitCodes DEF ClusterInv, FirstOfKey, Done
    <2>2. PICK b \in Builders : repOf[i] \in Held(builders[b])
      BY <1>1, WhereItIs
    <2>3. PICK c \in DOMAIN clusters : Emitted(c, b)
      BY <1>1, AllEmitted
    <2>4. Holds(c, i)
      BY <1>1, <2>2, <2>3, WhereItIs
    <2>5. CASE \A j \in Indices : IsPF(j)
      <3>1. ~HasOutput
        BY <1>1, <2>5 DEF HasOutput, Representatives, ClusterInv, FirstOfKey
      <3>2. repOf[i] = clusters[c].primary
        BY <1>1, <2>2, <2>3, <3>1, ExitCodesAlone
      <3>3. SameFailure(clusters[c].primary, i)
        BY <2>1, <3>2, SameFailureIsSameKey
      <3>4. QED BY <2>4, <2>5, <3>3
    <2>6. CASE ~\A j \in Indices : IsPF(j)
      <3>1. HasOutput
        <4>1. PICK j \in Indices : ~IsPF(j)
          BY <2>6
        <4>2. repOf[j] \in Representatives /\ ~IsPF(repOf[j])
          BY <1>1, <4>1, WhereItIs, KeyTellsExitCodes
        <4>3. QED BY <4>2 DEF HasOutput
      <3>2. \A d \in Builders : \A k \in builders[d].members : ~IsPF(k)
        BY <1>1, <3>1 DEF ClusterInv, ExitCodesApart
      <3>3. \A e \in DOMAIN clusters : clusters[e].primary # i
        BY <1>1, <3>2, AllEmitted, InCluster
      <3>4. repOf[i] \in builders[b].consequence /\ IsBest(b, Builders)
        BY <1>1, <2>1, <2>2, <3>2 DEF ClusterInv, ExitCodesApart, Held
      <3>5. 1 \in DOMAIN clusters /\ c \in Nat /\ (c = 1 \/ 1 < c)
        <4>1. DOMAIN clusters = 1..Len(clusters) /\ Len(clusters) \in Nat
          BY <1>1, LenProperties DEF ClusterInv, EmittedOnce
        <4>2. QED BY <4>1
      <3>6. c = 1
        <4>1. SUFFICES ASSUME 1 < c PROVE FALSE
          BY <3>5
        <4>2. PICK d \in Builders : Emitted(1, d)
          BY <1>1, <3>5, AllEmitted
        <4>3. Before(ClusterRank(d), ClusterRank(b))
          BY <1>1, <2>3, <3>1, <3>5, <4>1, <4>2, EarlierIsBetter
        <4>4. /\ ClusterRank(d) \in Ranks(7) /\ ClusterRank(b) \in Ranks(7)
          BY <1>1, ClusterRanks
        <4>5. ~Before(ClusterRank(b), ClusterRank(d))
          BY <4>3, <4>4, BeforeAsymmetric
        <4>6. d = b
          BY <3>4, <4>5, BeforeIs DEF IsBest
        <4>7. QED BY <1>1, <2>3, <3>5, <4>1, <4>2, <4>6 DEF ClusterInv, EmittedOnce
      <3>7. i \in RelatedIn(1)
        BY <2>4, <3>3, <3>5, <3>6 DEF Holds
      <3>8. QED BY <2>6, <3>3, <3>7
    <2>7. QED BY <2>5, <2>6
  <1>2. ClusterInv => ExitCodeNeverExplains
    BY <1>1 DEF ExitCodeNeverExplains
  <1>3. QED
    BY <1>2, ClusterInvariant, PTL

(* No cluster without an error comes before one with an error, and no *)
(* vaguer one before a more concrete one alike in that.               *)
THEOREM BestComesFirst == Spec => []BestFirst
  <1>1. ASSUME ClusterInv, Done, NEW c \in DOMAIN clusters, NEW e \in DOMAIN clusters, c < e
        PROVE  /\ HasError(e) => HasError(c)
               /\ (HasError(e) <=> HasError(c)) =>
                    TypeRank[clusters[c].classification] <= TypeRank[clusters[e].classification]
    <2>1. PICK b \in Builders : Emitted(c, b)
      BY <1>1, AllEmitted
    <2>2. PICK d \in Builders : Emitted(e, d)
      BY <1>1, AllEmitted
    <2>3. CASE HasOutput
      <3>1. PICK k \in 1..7 :
              /\ ClusterRank(b)[k] < ClusterRank(d)[k]
              /\ \A j \in 1..k - 1 : ClusterRank(b)[j] = ClusterRank(d)[j]
        <4>1. Before(ClusterRank(b), ClusterRank(d))
          BY <1>1, <2>1, <2>2, <2>3, EarlierIsBetter
        <4>2. DOMAIN ClusterRank(b) = 1..7
          BY <1>1, ClusterRanks DEF Ranks
        <4>3. QED BY <4>1, <4>2 DEF Before
      <3>2. /\ ClusterRank(b)[1] = IF HasError(c) THEN 0 ELSE 1
            /\ ClusterRank(b)[2] = TypeRank[clusters[c].classification]
            /\ TypeRank[clusters[c].classification] \in Nat
        BY <1>1, <2>1, ClusterOrder
      <3>3. /\ ClusterRank(d)[1] = IF HasError(e) THEN 0 ELSE 1
            /\ ClusterRank(d)[2] = TypeRank[clusters[e].classification]
            /\ TypeRank[clusters[e].classification] \in Nat
        BY <1>1, <2>2, ClusterOrder
      <3> HIDE DEF HasError
      <3>4. CASE k = 1
        BY <3>1, <3>2, <3>3, <3>4
      <3>5. CASE k = 2
        BY <3>1, <3>2, <3>3, <3>5
      <3>6. CASE k > 2
        BY <3>1, <3>2, <3>3, <3>6
      <3>7. QED BY <3>4, <3>5, <3>6
    <2>4. CASE ~HasOutput
      <3>1. /\ IsPF(clusters[c].primary) /\ clusters[c].primary \in Indices
            /\ IsPF(clusters[e].primary) /\ clusters[e].primary \in Indices
        BY <1>1, <2>1, <2>2, <2>4, ExitCodesAlone
      <3>2. HasError(c)
        BY <1>1, <3>1, ExitCodeFacts DEF HasError, ClusterInv
      <3>3. /\ clusters[c].classification = "process_failure"
            /\ clusters[e].classification = "process_failure"
        BY <1>1, <2>1, <2>2, <3>1, InCluster DEF IsPF
      <3>4. TypeRank["process_failure"] \in Nat
        BY RungsOfLadders DEF TypeRank
      <3>5. QED BY <3>2, <3>3, <3>4
    <2>5. QED BY <2>3, <2>4
  <1>2. ClusterInv => BestFirst
    BY <1>1 DEF BestFirst
  <1>3. QED
    BY <1>2, ClusterInvariant, PTL

(* Every field of the state is of its type. *)
THEOREM TypeCorrect == Spec => []TypeOK
  <1>1. ASSUME ClusterInv PROVE TypeOK
    <2>1. diagnostics \in Seq(Diagnostic) /\ Indices = 1..Len(diagnostics)
      BY <1>1, InputTypes DEF ClusterInv
    <2>2. pending \subseteq 1..(IF phase = "emit" THEN Len(builders) ELSE Len(diagnostics))
      BY <1>1, <2>1 DEF ClusterInv, Fields, Phases, Work, FirstOfKey, Builders, Representatives
    <2>3. DOMAIN repOf \subseteq Indices /\ \A i \in DOMAIN repOf : repOf[i] \in DOMAIN repOf
      BY <1>1 DEF ClusterInv, FirstOfKey, Representatives
    <2>4. ASSUME NEW c \in DOMAIN clusters
          PROVE  /\ clusters[c].primary \in Indices
                 /\ clusters[c].related \subseteq Indices \X Roles
                 /\ clusters[c].classification = diagnostics[clusters[c].primary].type
      <3>1. PICK b \in Builders : Emitted(c, b)
        BY <1>1 DEF ClusterInv, EmittedOnce
      <3>2. builders[b] \in Builder
        BY <1>1, ElementOfSeq DEF ClusterInv, Fields, Builders
      <3>3. /\ builders[b].members \subseteq Indices /\ builders[b].summary \subseteq Indices
            /\ builders[b].consequence \subseteq Indices /\ builders[b].duplicate \subseteq Indices
        BY <3>2 DEF Builder
      <3>4. /\ clusters[c].related =
                 ((builders[b].members \ {clusters[c].primary}) \X {"secondary"})
                    \cup (builders[b].summary \X {"summary"})
                    \cup (builders[b].consequence \X {"consequence"})
                    \cup (builders[b].duplicate \X {"duplicate"})
            /\ clusters[c].classification = diagnostics[clusters[c].primary].type
        BY <3>1 DEF Emitted, ClusterOf
      <3>5. clusters[c].primary \in Indices
        BY <3>1, <3>3 DEF Emitted, IsPrimary
      <3>6. clusters[c].related \subseteq Indices \X Roles
        BY <3>3, <3>4 DEF Roles
      <3>7. QED BY <3>4, <3>5, <3>6
    <2>5. QED BY <1>1, <2>1, <2>2, <2>3, <2>4 DEF TypeOK, ClusterInv, Fields
  <1>2. QED
    BY <1>1, ClusterInvariant, PTL

-----------------------------------------------------------------------------
(* The ladders leave no ties. *)

(* Of any builders one, and only one, is the best. *)
LEMMA SomeBest ==
  ASSUME ClusterInv, NEW bs \in SUBSET Builders, bs # {}
  PROVE  /\ \E b \in bs : IsBest(b, bs)
         /\ \A b, d \in bs : IsBest(b, bs) /\ IsBest(d, bs) => b = d
  <1> DEFINE R == {p \in bs \X bs : Before(ClusterRank(p[1]), ClusterRank(p[2]))}
  <1>1. IsFiniteSet(bs)
    <2>1. Len(builders) \in Int /\ 1 \in Int
      BY LenProperties DEF ClusterInv, Fields
    <2>2. IsFiniteSet(1..Len(builders))
      BY <2>1, FS_Interval
    <2>3. QED BY <2>2, FS_Subset DEF Builders
  <1>2. \A b \in bs : ClusterRank(b) \in Ranks(7) /\ ClusterRank(b)[7] = b
    BY ClusterRanks
  <1>3. \A x, y \in bs : <<x, y>> \in R <=> Before(ClusterRank(x), ClusterRank(y))
    OBVIOUS
  <1> HIDE DEF R
  <1>4. ASSUME NEW x \in bs, NEW y \in bs, NEW z \in bs, <<x, y>> \in R, <<y, z>> \in R
        PROVE  <<x, z>> \in R
    BY <1>2, <1>3, <1>4, BeforeTransitive
  <1>5. ASSUME NEW x \in bs, NEW y \in bs, x # y
        PROVE  <<x, y>> \in R \/ <<y, x>> \in R
    BY <1>2, <1>3, <1>5, BeforeTotal
  <1>6. PICK x \in bs : \A y \in bs \ {x} : <<x, y>> \in R
    BY <1>1, <1>4, <1>5, LeastOfFinite
  <1>7. IsBest(x, bs)
    BY <1>3, <1>6, BeforeIs DEF IsBest
  <1>8. ASSUME NEW b \in bs, NEW d \in bs, IsBest(b, bs), IsBest(d, bs), b # d PROVE FALSE
    <2>1. Before(ClusterRank(b), ClusterRank(d)) /\ Before(ClusterRank(d), ClusterRank(b))
      BY <1>8, BeforeIs DEF IsBest
    <2>2. QED BY <1>2, <2>1, BeforeAsymmetric
  <1>9. QED BY <1>7, <1>8

(* Of the work left one, and only one, is next. *)
LEMMA OnlyNext ==
  ASSUME pending \subseteq Nat, pending # {}
  PROVE  /\ \E i \in pending : IsNext(i)
         /\ \A i, j \in pending : IsNext(i) /\ IsNext(j) => i = j
  <1>1. \E i \in pending : \A j \in pending : i <= j
    BY LeastNatural
  <1>2. QED BY <1>1 DEF IsNext

(* Wherever build_clusters asks for a first, a least or a best one, there   *)
(* is one and only one: its min() and sorts never meet a tie, so its result *)
(* does not hang on the order in which they look, and it never waits.       *)
OneChoice ==
  pending # {} =>
    /\ \E i \in pending : IsNext(i) /\ \A j \in pending : IsNext(j) => j = i
    /\ phase = "exit_codes" /\ HasOutput =>
         \E w \in Builders : IsBest(w, Builders) /\ \A v \in Builders : IsBest(v, Builders) => v = w
    /\ phase = "emit" =>
         /\ \E b \in pending : IsBest(b, pending) /\ \A d \in pending : IsBest(d, pending) => d = b
         /\ \A b \in pending :
              \E i \in builders[b].members :
                /\ IsPrimary(i, builders[b].members)
                /\ \A j \in builders[b].members : IsPrimary(j, builders[b].members) => j = i

(* No choice of build_clusters is a tie, at any point, for any diagnostics. *)
THEOREM NoTies == Spec => []OneChoice
  <1>1. ASSUME ClusterInv, pending # {}
        PROVE  \E i \in pending : IsNext(i) /\ \A j \in pending : IsNext(j) => j = i
    <2>1. pending \subseteq Nat
      BY <1>1, InputTypes
      DEF ClusterInv, Fields, Phases, Work, FirstOfKey, Builders, Representatives
    <2>2. QED BY <1>1, <2>1, OnlyNext
  <1>2. ASSUME ClusterInv, phase = "exit_codes", HasOutput
        PROVE  \E w \in Builders :
                 IsBest(w, Builders) /\ \A v \in Builders : IsBest(v, Builders) => v = w
    <2>1. PICK i \in Representatives : ~IsPF(i)
      BY <1>2 DEF HasOutput
    <2>2. i \notin Unplaced
      BY <1>2, <2>1 DEF Unplaced, ClusterInv, Work
    <2>3. Builders # {}
      BY <1>2, <2>1, <2>2 DEF ClusterInv, Partition
    <2>4. QED BY <1>2, <2>3, SomeBest
  <1>3. ASSUME ClusterInv, phase = "emit", pending # {}
        PROVE  \E b \in pending : IsBest(b, pending) /\ \A d \in pending : IsBest(d, pending) => d = b
    <2>1. pending \in SUBSET Builders
      BY <1>3 DEF ClusterInv, Work
    <2>2. QED BY <1>3, <2>1, SomeBest
  <1>4. ASSUME ClusterInv, phase = "emit", NEW b \in pending
        PROVE  \E i \in builders[b].members :
                 /\ IsPrimary(i, builders[b].members)
                 /\ \A j \in builders[b].members : IsPrimary(j, builders[b].members) => j = i
    <2>1. builders[b] \in Builder /\ builders[b].members # {}
      BY <1>4, ElementOfSeq DEF ClusterInv, Fields, Work, Builders, Partition
    <2>2. builders[b].members \in SUBSET Indices
      BY <2>1 DEF Builder
    <2>3. \E i \in builders[b].members : IsPrimary(i, builders[b].members)
      BY <1>4, <2>1, <2>2, SomePrimary DEF ClusterInv
    <2>4. QED BY <1>4, <2>2, <2>3, OnePrimary DEF ClusterInv
  <1>5. ClusterInv => OneChoice
    BY <1>1, <1>2, <1>3, <1>4 DEF OneChoice
  <1>6. QED
    BY <1>5, ClusterInvariant, PTL

=============================================================================
