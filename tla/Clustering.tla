----------------------------- MODULE Clustering -----------------------------
(***************************************************************************)
(* parsing/clustering.py: build_clusters, which groups the diagnostics the *)
(* parsers emitted into failures and picks the failure to report first.    *)
(*                                                                         *)
(* A diagnostic is named by its emission index.  The lists a cluster under *)
(* construction keeps (members, summary, consequence, duplicate) are sets  *)
(* of indices here: the code reads them through min, any and len and sorts *)
(* the result by emission index at the end, so their order shows nowhere.  *)
(* One action per iteration of the dedup loop and of _correlate, one per   *)
(* later pass, and one per cluster of the ranked list that is emitted.     *)
(***************************************************************************)
EXTENDS Integers, Sequences, FiniteSets

CONSTANTS
  Emissions,            \* the tuples of diagnostics given to build_clusters
  MarkerLines,          \* the log lines with an ERROR or WARNING marker
  SectionOf,            \* log line -> section_id
  NormPath(_),          \* norm_path
  NormMessage(_),       \* normalize_message
  NoPath,               \* norm_path(None), the empty string
  None                  \* Python's None

VARIABLES
  diagnostics,          \* the input, in emission order
  phase,                \* the pass build_clusters is in
  pending,              \* what the pass has still to handle: diagnostics, or builders
  repOf,                \* index -> the first emitted index with the same key
  builders,             \* the clusters under construction, in creation order
  clusters              \* the result

vars == <<diagnostics, phase, pending, repOf, builders, clusters>>

Indices == 1..Len(diagnostics)

Phases == {"dedup", "correlate", "exit_codes", "duplicates", "emit"}

Roles == {"secondary", "summary", "consequence", "duplicate"}

(* The loops run in order: the next element is the least one left. *)
IsNext(i) == i \in pending /\ \A j \in pending : i <= j

-----------------------------------------------------------------------------
(* Deduplication. *)

(* Mutant: the key tells parsers apart, the field the code leaves out.     *)
DedupKey_parser(i) ==
  LET d == diagnostics[i]
  IN  <<d.type, d.severity, d.tool, d.code, NormPath(d.file), d.line, d.column,
        d.test, NormMessage(d.message), d.parser>>

DedupKey(i) ==
  LET d == diagnostics[i]
  IN  <<d.type, d.severity, d.tool, d.code, NormPath(d.file), d.line, d.column,
        d.test, NormMessage(d.message)>>

IsPF(i) == diagnostics[i].type = "process_failure"

Representatives == {i \in DOMAIN repOf : repOf[i] = i}

-----------------------------------------------------------------------------
(* The two ranking ladders; a lower tuple wins. *)

TypeRank == [test_failure |-> 0, exception |-> 1, compiler_error |-> 2, lint_error |-> 3,
             dependency_error |-> 4, unknown |-> 5, process_failure |-> 6]

SeverityRank == [error |-> 0, warning |-> 1, info |-> 2]

Least(S) == CHOOSE x \in S : \A y \in S : x <= y

EvidenceOf(i) == {diagnostics[i].evidence[k] : k \in DOMAIN diagnostics[i].evidence}

Earliest(i) == IF EvidenceOf(i) = {} THEN 0 ELSE Least(EvidenceOf(i))

Unlocated(i) == IF diagnostics[i].file = None THEN 1 ELSE 0

RanksBefore(a, b) ==
  \E k \in DOMAIN a : a[k] < b[k] /\ \A j \in 1..k - 1 : a[j] = b[j]

MemberRank(i) ==
  <<SeverityRank[diagnostics[i].severity], TypeRank[diagnostics[i].type], Unlocated(i),
    -diagnostics[i].confidence, Earliest(i), i>>

IsPrimary(i, members) ==
  /\ i \in members
  /\ \A j \in members \ {i} : RanksBefore(MemberRank(i), MemberRank(j))

PrimaryOf(members) == CHOOSE i \in members : IsPrimary(i, members)

(* Mutant: a warning-only cluster of a concrete type may outrank an error. *)
ClusterRank_noSeverity(b) ==
  <<TypeRank[diagnostics[PrimaryOf(builders[b].members)].type], b>>

ClusterRank(b) ==
  LET members  == builders[b].members
      primary  == PrimaryOf(members)
      cited    == {i \in members : EvidenceOf(i) # {}}
  IN  <<IF \E i \in members : diagnostics[i].severity = "error" THEN 0 ELSE 1,
        TypeRank[diagnostics[primary].type],
        Unlocated(primary),
        -diagnostics[primary].confidence,
        -Cardinality(members),
        IF cited = {} THEN 0 ELSE Least({Earliest(i) : i \in cited}),
        b>>

IsBest(b, bs) ==
  /\ b \in bs
  /\ \A c \in bs \ {b} : RanksBefore(ClusterRank(b), ClusterRank(c))

-----------------------------------------------------------------------------
(* The correlation rules: does diagnostic i fall to builder b?  The C rules *)
(* look at the builder's anchor only, its first member.                     *)

IsMarkerEvidence(i) ==
  EvidenceOf(i) # {} /\ EvidenceOf(i) \subseteq MarkerLines

(* Mutant: two tests may share a cluster. *)
G1Blocks_never(a, i) == FALSE

G1Blocks(a, i) ==
  /\ diagnostics[a].test # None
  /\ diagnostics[i].test # None
  /\ diagnostics[a].test # diagnostics[i].test

S1(i, b) ==
  /\ IsMarkerEvidence(i)
  /\ \E t \in builders[b].members :
       /\ NormMessage(diagnostics[i].message) = NormMessage(diagnostics[t].message)
       /\ diagnostics[i].line = diagnostics[t].line
       /\ diagnostics[i].column = diagnostics[t].column
       /\ ~IsMarkerEvidence(t)

C1(i, b) ==
  /\ diagnostics[i].test # None
  /\ diagnostics[builders[b].anchor].test = diagnostics[i].test

SameFile(i, a) ==
  /\ NormPath(diagnostics[i].file) # NoPath
  /\ NormPath(diagnostics[i].file) = NormPath(diagnostics[a].file)

C2a(i, b) ==
  LET a == builders[b].anchor
  IN  /\ ~G1Blocks(a, i)
      /\ SameFile(i, a)
      /\ diagnostics[i].line # None
      /\ diagnostics[i].line = diagnostics[a].line

C2b(i, b) ==
  LET a == builders[b].anchor
  IN  /\ ~G1Blocks(a, i)
      /\ SameFile(i, a)
      /\ diagnostics[i].tool # None
      /\ diagnostics[i].tool = diagnostics[a].tool
      /\ diagnostics[i].test = None
      /\ diagnostics[a].test = None

FrameSet(i) == {<<NormPath(f[1]), f[2]>> : f \in diagnostics[i].frames}

C3(i, b) ==
  LET a == builders[b].anchor
  IN  /\ ~G1Blocks(a, i)
      /\ FrameSet(i) \cap FrameSet(a) # {}

Rules == <<"S1", "C1", "C2a", "C2b", "C3">>

Applies(rule, i, b) ==
  \/ rule = "S1"  /\ S1(i, b)
  \/ rule = "C1"  /\ C1(i, b)
  \/ rule = "C2a" /\ C2a(i, b)
  \/ rule = "C2b" /\ C2b(i, b)
  \/ rule = "C3"  /\ C3(i, b)

(* Rule-major: the first rule that matches any builder, and of the builders *)
(* it matches the first created.                                            *)
Targets(r, i) == {b \in 1..Len(builders) : Applies(Rules[r], i, b)}

IsTarget(b, r, i) ==
  /\ b \in Targets(r, i)
  /\ \A c \in Targets(r, i) : b <= c
  /\ \A q \in 1..r - 1 : Targets(q, i) = {}

-----------------------------------------------------------------------------
(* The state. *)

Diagnostic ==
  [type : DOMAIN TypeRank, severity : DOMAIN SeverityRank,
   tool : {None} \cup STRING, code : {None} \cup STRING, file : {None} \cup STRING,
   line : {None} \cup Nat, column : {None} \cup Nat, test : {None} \cup STRING,
   message : {None} \cup STRING, confidence : Nat, evidence : Seq(Nat),
   frames : SUBSET (STRING \X Nat), parser : STRING]

ASSUME EmissionsAssumption == Emissions \subseteq Seq(Diagnostic)

(* find_process_failure makes every exit code an error. *)
ASSUME ExitCodesAreErrors ==
  \A e \in Emissions : \A k \in DOMAIN e :
    e[k].type = "process_failure" => e[k].severity = "error" /\ e[k].test = None

(* The parsers of tests come first in the registry, and every failure they  *)
(* emit names its test (ToolParsers, TestsComeFirst).                       *)
ASSUME TestsComeFirst ==
  \A e \in Emissions : \A k, m \in DOMAIN e :
    k < m /\ e[m].test # None => e[k].test # None \/ e[k].type = "process_failure"

Builder ==
  [anchor : Indices, members : SUBSET Indices, summary : SUBSET Indices,
   consequence : SUBSET Indices, duplicate : SUBSET Indices]

TypeOK ==
  /\ diagnostics \in Seq(Diagnostic)
  /\ phase \in Phases
  /\ pending \subseteq 1..(IF phase = "emit" THEN Len(builders) ELSE Len(diagnostics))
  /\ DOMAIN repOf \subseteq Indices
  /\ \A i \in DOMAIN repOf : repOf[i] \in DOMAIN repOf
  /\ builders \in Seq(Builder)
  /\ \A c \in DOMAIN clusters :
       /\ clusters[c].primary \in Indices
       /\ clusters[c].related \subseteq Indices \X Roles
       /\ clusters[c].classification = diagnostics[clusters[c].primary].type

NewBuilder(i) ==
  [anchor |-> i, members |-> {i}, summary |-> {}, consequence |-> {}, duplicate |-> {}]

Init ==
  /\ diagnostics \in Emissions
  /\ phase = "dedup"
  /\ pending = Indices
  /\ repOf = [i \in {} |-> 0]
  /\ builders = << >>
  /\ clusters = << >>

AddMember(b, i) == [b EXCEPT !.members = @ \cup {i}]

AddSummary(b, i) == [b EXCEPT !.summary = @ \cup {i}]

AddConsequence(b, i) == [b EXCEPT !.consequence = @ \cup {i}]

Placed(i, r) == [j \in DOMAIN repOf \cup {i} |-> IF j = i THEN r ELSE repOf[j]]

(* The first diagnostic with its key represents it. *)
FirstOccurrence ==
  \E i \in pending :
    /\ phase = "dedup" /\ IsNext(i)
    /\ \A r \in Representatives : DedupKey(r) # DedupKey(i)
    /\ repOf' = Placed(i, i)
    /\ pending' = pending \ {i}
    /\ UNCHANGED <<diagnostics, phase, builders, clusters>>

LaterOccurrence ==
  \E i \in pending, r \in Representatives :
    /\ phase = "dedup" /\ IsNext(i)
    /\ DedupKey(r) = DedupKey(i)
    /\ repOf' = Placed(i, r)
    /\ pending' = pending \ {i}
    /\ UNCHANGED <<diagnostics, phase, builders, clusters>>

StartPass(p, work) ==
  /\ phase' = p
  /\ pending' = work
  /\ UNCHANGED <<diagnostics, repOf, builders, clusters>>

SplitExitCodes ==
  /\ phase = "dedup" /\ pending = {}
  /\ StartPass("correlate", {i \in Representatives : ~IsPF(i)})

JoinSummary ==
  \E i \in pending, b \in 1..Len(builders) :
    /\ phase = "correlate" /\ IsNext(i)
    /\ IsTarget(b, 1, i)
    /\ builders' = [builders EXCEPT ![b] = AddSummary(@, i)]
    /\ pending' = pending \ {i}
    /\ UNCHANGED <<diagnostics, phase, repOf, clusters>>

JoinMember ==
  \E i \in pending, b \in 1..Len(builders), r \in 2..Len(Rules) :
    /\ phase = "correlate" /\ IsNext(i)
    /\ IsTarget(b, r, i)
    /\ builders' = [builders EXCEPT ![b] = AddMember(@, i)]
    /\ pending' = pending \ {i}
    /\ UNCHANGED <<diagnostics, phase, repOf, clusters>>

OpenCluster ==
  \E i \in pending :
    /\ phase = "correlate" /\ IsNext(i)
    /\ \A r \in 1..Len(Rules) : Targets(r, i) = {}
    /\ builders' = Append(builders, NewBuilder(i))
    /\ pending' = pending \ {i}
    /\ UNCHANGED <<diagnostics, phase, repOf, clusters>>

StartExitCodes ==
  /\ phase = "correlate" /\ pending = {}
  /\ StartPass("exit_codes", {i \in Representatives : IsPF(i)})

(* Is there anything but exit codes to cluster? *)
HasOutput == \E i \in Representatives : ~IsPF(i)

(* Mutant: an exit code always opens a cluster of its own. *)
ExitCodeAlone_always ==
  \E i \in pending :
    /\ phase = "exit_codes" /\ IsNext(i)
    /\ builders' = Append(builders, NewBuilder(i))
    /\ pending' = pending \ {i}
    /\ UNCHANGED <<diagnostics, phase, repOf, clusters>>

(* With nothing else to report, each distinct exit code is a cluster. *)
ExitCodeAlone ==
  \E i \in pending :
    /\ phase = "exit_codes" /\ IsNext(i)
    /\ ~HasOutput
    /\ builders' = Append(builders, NewBuilder(i))
    /\ pending' = pending \ {i}
    /\ UNCHANGED <<diagnostics, phase, repOf, clusters>>

(* Otherwise it is a consequence of the best-ranked cluster. *)
ExitCodeFollows ==
  \E i \in pending, w \in 1..Len(builders) :
    /\ phase = "exit_codes" /\ IsNext(i)
    /\ HasOutput
    /\ IsBest(w, 1..Len(builders))
    /\ builders' = [builders EXCEPT ![w] = AddConsequence(@, i)]
    /\ pending' = pending \ {i}
    /\ UNCHANGED <<diagnostics, phase, repOf, clusters>>

StartDuplicates ==
  /\ phase = "exit_codes" /\ pending = {}
  /\ StartPass("duplicates", {})

DuplicatesOf(reps) == {i \in Indices : repOf[i] # i /\ repOf[i] \in reps}

(* Mutant: only the duplicates of members are attached. *)
Held_members(b) == b.members

(* The representatives a builder holds, whatever their role. *)
Held(b) == b.members \cup b.summary \cup b.consequence

WithDuplicates(b) == [b EXCEPT !.duplicate = DuplicatesOf(Held(b))]

AttachDuplicates ==
  /\ phase = "duplicates"
  /\ builders' = [b \in 1..Len(builders) |-> WithDuplicates(builders[b])]
  /\ phase' = "emit"
  /\ pending' = 1..Len(builders)
  /\ UNCHANGED <<diagnostics, repOf, clusters>>

(* The section of the primary's first evidence line, if the log has it. *)
SectionOfFirst(evidence) ==
  IF evidence # << >> /\ Head(evidence) \in DOMAIN SectionOf
  THEN SectionOf[Head(evidence)] ELSE None

(* Mutant: the cluster is classified by its first member. *)
ClusterOf_anchor(b, primary) ==
  [primary        |-> primary,
   related        |-> ((builders[b].members \ {primary}) \X {"secondary"})
                        \cup (builders[b].summary \X {"summary"})
                        \cup (builders[b].consequence \X {"consequence"})
                        \cup (builders[b].duplicate \X {"duplicate"}),
   classification |-> diagnostics[builders[b].anchor].type,
   section        |-> SectionOfFirst(diagnostics[primary].evidence)]

ClusterOf(b, primary) ==
  [primary        |-> primary,
   related        |-> ((builders[b].members \ {primary}) \X {"secondary"})
                        \cup (builders[b].summary \X {"summary"})
                        \cup (builders[b].consequence \X {"consequence"})
                        \cup (builders[b].duplicate \X {"duplicate"}),
   classification |-> diagnostics[primary].type,
   section        |-> SectionOfFirst(diagnostics[primary].evidence)]

(* Clusters come out best first; exit codes alone are left unranked.        *)
EmitCluster ==
  \E b \in pending :
    /\ phase = "emit"
    /\ IF HasOutput THEN IsBest(b, pending) ELSE IsNext(b)
    /\ \E primary \in builders[b].members :
         /\ IsPrimary(primary, builders[b].members)
         /\ clusters' = Append(clusters, ClusterOf(b, primary))
    /\ pending' = pending \ {b}
    /\ UNCHANGED <<diagnostics, phase, repOf, builders>>

Done == phase = "emit" /\ pending = {}

Returned == Done /\ UNCHANGED vars

Next ==
  \/ FirstOccurrence \/ LaterOccurrence \/ SplitExitCodes
  \/ JoinSummary \/ JoinMember \/ OpenCluster \/ StartExitCodes
  \/ ExitCodeAlone \/ ExitCodeFollows \/ StartDuplicates
  \/ AttachDuplicates \/ EmitCluster \/ Returned

Spec == Init /\ [][Next]_vars

-----------------------------------------------------------------------------
(* What the result promises. *)

RelatedIn(c) == {p[1] : p \in clusters[c].related}

Holds(c, i) == i = clusters[c].primary \/ i \in RelatedIn(c)

(* build_clusters is non-lossy (its docstring): every diagnostic it was     *)
(* given is in exactly one cluster, once, under exactly one role.           *)
NonLossy ==
  Done =>
    \A i \in Indices :
      /\ \E c \in DOMAIN clusters : Holds(c, i)
      /\ \A c, e \in DOMAIN clusters : Holds(c, i) /\ Holds(e, i) => c = e
      /\ \A c \in DOMAIN clusters :
           /\ clusters[c].primary \notin RelatedIn(c)
           /\ \A p, q \in clusters[c].related : p[1] = q[1] => p = q

(* Two diagnostics report one failure, whatever the parser that found it,   *)
(* the lines it was found on and the spelling of its path and message.      *)
SameFailure(i, j) ==
  LET d == diagnostics[i]
      e == diagnostics[j]
  IN  /\ \A f \in {"type", "severity", "tool", "code", "line", "column", "test"} : d[f] = e[f]
      /\ NormPath(d.file) = NormPath(e.file)
      /\ NormMessage(d.message) = NormMessage(e.message)

DuplicateBesideOriginal ==
  \A c \in DOMAIN clusters, j \in Indices :
    Holds(c, j) =>
      IF \E i \in 1..j - 1 : SameFailure(i, j)
      THEN /\ <<j, "duplicate">> \in clusters[c].related
           /\ \E i \in 1..j - 1 :
                /\ SameFailure(i, j) /\ Holds(c, i)
                /\ <<i, "duplicate">> \notin clusters[c].related
      ELSE <<j, "duplicate">> \notin clusters[c].related

EchoBesideOriginal ==
  \A c \in DOMAIN clusters, i \in Indices :
    <<i, "summary">> \in clusters[c].related =>
      /\ diagnostics[i].type # "process_failure"
      /\ \E t \in Indices \ {i} :
           /\ t = clusters[c].primary \/ <<t, "secondary">> \in clusters[c].related
           /\ ~IsMarkerEvidence(t)
           /\ NormMessage(diagnostics[t].message) = NormMessage(diagnostics[i].message)
           /\ diagnostics[t].line = diagnostics[i].line

(* A repeat of a failure is reported beside its first occurrence, whatever  *)
(* role that has, and never becomes a failure of its own; and what a CI     *)
(* annotation repeats is shown as a summary, beside the tool's own report   *)
(* of the same message and position, and never instead (rule S1).           *)
RepeatsBesideOriginal == Done => DuplicateBesideOriginal /\ EchoBesideOriginal

(* The exit code explains nothing (rule C4): it heads a cluster only when   *)
(* no parser found anything else, and is otherwise in the first cluster.    *)
ExitCodeNeverExplains ==
  Done =>
    \A i \in Indices :
      IsPF(i) =>
        IF \A j \in Indices : IsPF(j)
        THEN \E c \in DOMAIN clusters :
               Holds(c, i) /\ SameFailure(clusters[c].primary, i)
        ELSE i \in RelatedIn(1) /\ \A c \in DOMAIN clusters : clusters[c].primary # i

HasError(c) ==
  \E i \in Indices :
    /\ i = clusters[c].primary \/ <<i, "secondary">> \in clusters[c].related
    /\ diagnostics[i].severity = "error"

(* The first cluster is the report's headline: no cluster with an error     *)
(* comes after one without, and of those alike in that, none whose primary  *)
(* is the more concrete kind of failure comes after a vaguer one.           *)
BestFirst ==
  Done =>
    \A c, e \in DOMAIN clusters :
      c < e =>
        /\ HasError(e) => HasError(c)
        /\ (HasError(e) <=> HasError(c)) =>
             TypeRank[clusters[c].classification] <= TypeRank[clusters[e].classification]

(* The test is the unit of failure (_g1_blocks): two diagnostics that name  *)
(* a test and are told apart in their cluster from echoes and repeats are   *)
(* in one cluster exactly if they name the same test.                       *)
TestIsUnitOfFailure ==
  Done =>
    \A c, e \in DOMAIN clusters, i, j \in Indices :
      /\ diagnostics[i].test # None /\ diagnostics[j].test # None
      /\ i = clusters[c].primary \/ <<i, "secondary">> \in clusters[c].related
      /\ j = clusters[e].primary \/ <<j, "secondary">> \in clusters[e].related
      => (c = e <=> diagnostics[i].test = diagnostics[j].test)

=============================================================================
