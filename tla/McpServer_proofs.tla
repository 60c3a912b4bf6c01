--------------------------- MODULE McpServer_proofs ---------------------------
(***************************************************************************)
(* What module McpServer promises of its cache of reports, proved for every *)
(* size of the cache and every set of paths, logs and clusters.  The        *)
(* argument is that the cache holds no report twice: then its length counts *)
(* the reports in it, and a cache that is full holds MaxCache of them.      *)
(***************************************************************************)
EXTENDS McpServer, FiniteSetTheorems, SequenceTheorems, TLAPS

-----------------------------------------------------------------------------
(* Sequences without repetition. *)

Distinct(s) == \A i, j \in 1..Len(s) : s[i] = s[j] => i = j

Elements(s) == {s[k] : k \in 1..Len(s)}

(* A sequence without repetition has as many elements as it is long. *)
LEMMA DistinctCounts ==
  ASSUME NEW S, NEW s \in Seq(S), Distinct(s)
  PROVE  IsFiniteSet(Elements(s)) /\ Cardinality(Elements(s)) = Len(s)
  <1>1. s \in [1..Len(s) -> Elements(s)] /\ Len(s) \in Nat
    BY LenProperties DEF Elements
  <1>2. s \in Bijection(1..Len(s), Elements(s))
    BY <1>1 DEF Bijection, Injection, Surjection, IsInjective, Distinct, Elements
  <1>3. IsFiniteSet(1..Len(s)) /\ Cardinality(1..Len(s)) = Len(s)
    <2>1. Len(s) \in Nat
      BY LenProperties
    <2>2. \A n \in Nat : IsFiniteSet(1..n) /\ Cardinality(1..n) = n
      BY FS_Interval
    <2>3. QED BY <2>1, <2>2
  <1>4. QED
    BY <1>2, <1>3, FS_Bijection DEF ExistsBijection

(* A new key at the end of the cache's order. *)
LEMMA DistinctAppend ==
  ASSUME NEW S, NEW s \in Seq(S), Distinct(s), NEW e \in S, e \notin Elements(s)
  PROVE  /\ Append(s, e) \in Seq(S)
         /\ Distinct(Append(s, e))
         /\ Elements(Append(s, e)) = Elements(s) \cup {e}
         /\ Len(Append(s, e)) = Len(s) + 1
         /\ Append(s, e)[Len(s) + 1] = e
  BY AppendProperties, LenProperties DEF Distinct, Elements

(* The oldest key taken off the cache's order. *)
LEMMA DistinctTail ==
  ASSUME NEW S, NEW s \in Seq(S), Distinct(s), s # << >>
  PROVE  /\ Tail(s) \in Seq(S)
         /\ Distinct(Tail(s))
         /\ Elements(Tail(s)) = Elements(s) \ {s[1]}
         /\ Len(Tail(s)) = Len(s) - 1
  <1>1. /\ Tail(s) \in Seq(S) /\ Len(Tail(s)) = Len(s) - 1 /\ Len(s) \in Nat \ {0}
        /\ \A i \in 1..Len(Tail(s)) : Tail(s)[i] = s[i + 1]
    BY HeadTailProperties, LenProperties, EmptySeq
  <1>2. Distinct(Tail(s))
    BY <1>1 DEF Distinct
  <1>3. Elements(Tail(s)) \subseteq Elements(s) \ {s[1]}
    BY <1>1 DEF Elements, Distinct
  <1>4. ASSUME NEW k \in 1..Len(s), s[k] # s[1]
        PROVE  s[k] \in Elements(Tail(s))
    <2>1. k - 1 \in 1..Len(Tail(s)) /\ Tail(s)[k - 1] = s[k]
      BY <1>1, <1>4
    <2>2. QED BY <2>1 DEF Elements
  <1>5. Elements(s) \ {s[1]} \subseteq Elements(Tail(s))
    BY <1>4 DEF Elements
  <1>6. QED
    BY <1>1, <1>2, <1>3, <1>5

-----------------------------------------------------------------------------
(* The inductive invariant. *)

NoRepeats ==
  /\ cache \in Seq(Texts)
  /\ Distinct(cache)
  /\ Len(cache) <= MaxCache

(* Only reports that were issued are cached, the last one always is, and    *)
(* one is missing only after the cache has filled up.                       *)
CacheOfIssued ==
  /\ Cached \subseteq issued
  /\ issued # {} => latest \in Cached
  /\ issued \ Cached # {} => Len(cache) = MaxCache

Fields ==
  /\ file \in [Paths -> Texts \cup Faults]
  /\ answer.kind \in ResultKinds
  /\ answer.report \in Texts \cup {None}
  /\ issued \subseteq Texts
  /\ latest \in issued \cup {None}

CacheInv == Fields /\ NoRepeats /\ CacheOfIssued

(* The keys of the cache are as many as its order is long. *)
LEMMA CachedElements ==
  ASSUME NoRepeats
  PROVE  /\ Cached = Elements(cache) /\ Cached \subseteq Texts
         /\ Cardinality(Cached) = Len(cache)
  <1>1. Cached = Elements(cache) /\ Cached \subseteq Texts
    BY LenProperties DEF NoRepeats, Cached, Elements
  <1>2. QED
    BY <1>1, DistinctCounts DEF NoRepeats

(* What _cache_put makes of the cache. *)
LEMMA StoredKeeps ==
  ASSUME NoRepeats, NEW report \in Texts, report \notin Cached, cache' = Stored(report)
  PROVE  /\ NoRepeats'
         /\ Cached' = (IF IsFull THEN Cached \ {cache[1]} ELSE Cached) \cup {report}
         /\ IsFull => cache # << >> /\ Len(cache') = MaxCache
         /\ cache' # << >> /\ cache'[Len(cache')] = report
  <1> DEFINE kept == IF IsFull THEN Tail(cache) ELSE cache
  <1>1. cache' = Append(kept, report)
    BY DEF Stored
  <1>2. IsFull => cache # << >>
    BY McpServerAssumption, EmptySeq DEF IsFull
  <1>3. /\ kept \in Seq(Texts) /\ Distinct(kept) /\ Len(kept) \in Nat
        /\ Elements(kept) = IF IsFull THEN Elements(cache) \ {cache[1]} ELSE Elements(cache)
        /\ IsFull => Len(kept) = Len(cache) - 1
        /\ Len(kept) < MaxCache
    <2>1. Len(cache) \in Nat
      BY LenProperties DEF NoRepeats
    <2>2. CASE IsFull
      <3>1. /\ Tail(cache) \in Seq(Texts) /\ Distinct(Tail(cache))
            /\ Elements(Tail(cache)) = Elements(cache) \ {cache[1]}
            /\ Len(Tail(cache)) = Len(cache) - 1
        BY <1>2, <2>2, DistinctTail DEF NoRepeats
      <3>2. Len(cache) > 0 /\ Len(cache) <= MaxCache
        BY <2>1, <2>2, McpServerAssumption DEF IsFull, NoRepeats
      <3>3. QED BY <2>1, <2>2, <3>1, <3>2, McpServerAssumption
    <2>3. CASE ~IsFull
      BY <2>1, <2>3, McpServerAssumption DEF NoRepeats, IsFull
    <2>4. QED BY <2>2, <2>3
  <1>4. report \notin Elements(kept)
    <2>1. report \notin Elements(cache)
      BY CachedElements
    <2>2. Elements(kept) \subseteq Elements(cache)
      BY <1>3
    <2>3. QED BY <2>1, <2>2
  <1> HIDE DEF kept
  <1>5. /\ cache' \in Seq(Texts) /\ Distinct(cache')
        /\ Elements(cache') = Elements(kept) \cup {report}
        /\ Len(cache') = Len(kept) + 1 /\ cache'[Len(cache')] = report
    BY <1>1, <1>3, <1>4, DistinctAppend
  <1>6. NoRepeats'
    BY <1>3, <1>5, McpServerAssumption DEF NoRepeats
  <1>7. Cached' = Elements(cache')
    BY <1>5, LenProperties DEF Cached, Elements
  <1>8. IsFull => Len(cache') = MaxCache
    BY <1>3, <1>5, LenProperties, McpServerAssumption DEF IsFull, NoRepeats
  <1>9. QED
    BY <1>1, <1>2, <1>3, <1>5, <1>6, <1>7, <1>8, CachedElements, EmptySeq

(* A server begins with an empty cache. *)
LEMMA InitInv == Init => CacheInv
  <1> SUFFICES ASSUME Init PROVE CacheInv
    OBVIOUS
  <1>1. cache \in Seq(Texts) /\ Len(cache) = 0
    BY EmptySeq DEF Init
  <1>2. Cached = {} /\ NoRepeats
    BY <1>1, McpServerAssumption, LenProperties DEF Init, Cached, NoRepeats, Distinct
  <1>3. QED
    BY <1>2 DEF Init, CacheInv, Fields, CacheOfIssued, Result, ResultKinds

(* analyze_ci_log keeps the invariant: it evicts one report at most, and    *)
(* only for another.                                                        *)
LEMMA AnalyzeInv ==
  ASSUME CacheInv, Analyze
  PROVE  CacheInv'
  <1>1. PICK p \in AllowedPaths :
          /\ file[p] \in Texts
          /\ cache' = Stored(file[p])
          /\ issued' = issued \cup {file[p]}
          /\ latest' = file[p]
          /\ Answers("summary", file[p],
                     [shown |-> 1..Shown(file[p]), omitted |-> Omitted(file[p])])
    BY DEF Analyze
  <1> DEFINE report == file[p]
  <1>2. Fields'
    BY <1>1 DEF CacheInv, Fields, Answers, Result, ResultKinds
  <1>3. CASE report \in Cached
    <2>1. cache' = cache
      BY <1>1, <1>3 DEF Stored
    <2>2. QED
      BY <1>1, <1>2, <1>3, <2>1 DEF CacheInv, NoRepeats, CacheOfIssued, Cached
  <1>4. CASE report \notin Cached
    <2>1. /\ NoRepeats'
          /\ Cached' = (IF IsFull THEN Cached \ {cache[1]} ELSE Cached) \cup {report}
          /\ IsFull => Len(cache') = MaxCache
      BY <1>1, <1>4, StoredKeeps DEF CacheInv
    <2>2. ~IsFull => issued \subseteq Cached
      BY McpServerAssumption, LenProperties DEF IsFull, CacheInv, CacheOfIssued, NoRepeats
    <2>3. CacheOfIssued'
      BY <1>1, <2>1, <2>2 DEF CacheInv, CacheOfIssued
    <2>4. QED BY <1>2, <2>1, <2>3 DEF CacheInv
  <1>5. QED BY <1>3, <1>4

(* Every other call leaves the cache and what was issued alone. *)
LEMMA OtherCalls ==
  ASSUME CacheInv,
         \/ Rewrite \/ PathRejected \/ ReadFails \/ UnknownReport \/ FullReport
         \/ UnknownCluster \/ ClusterDetail \/ UNCHANGED vars
  PROVE  CacheInv' /\ UNCHANGED <<cache, history>>
  <1>1. UNCHANGED <<cache, issued, latest>>
    BY DEF Rewrite, PathRejected, ReadFails, UnknownReport, FullReport, UnknownCluster,
           ClusterDetail, vars, history
  <1>2. file' \in [Paths -> Texts \cup Faults]
    BY McpServerAssumption
    DEF Rewrite, PathRejected, ReadFails, UnknownReport, FullReport, UnknownCluster,
        ClusterDetail, vars, Answers, CacheInv, Fields
  <1>3. answer'.kind \in ResultKinds /\ answer'.report \in Texts \cup {None}
    <2>1. CASE ReadFails
      <3>1. PICK p \in AllowedPaths : file[p] \in Faults /\ answer' = Result(ReadResult(file[p]), None, None)
        BY <2>1 DEF ReadFails, Answers
      <3>2. ReadResult(file[p]) \in {"file_not_found", "decode_error", "raised"}
        <4>1. CASE file[p] = "FileNotFoundError"
          BY <4>1, Zenon DEF ReadResult
        <4>2. CASE file[p] = "OSError"
          BY <4>2, Zenon DEF ReadResult
        <4>3. CASE file[p] = "UnicodeDecodeError"
          BY <4>3, Zenon DEF ReadResult
        <4>4. QED BY <3>1, <4>1, <4>2, <4>3 DEF Faults
      <3>3. QED BY <3>1, <3>2 DEF Result, ResultKinds
    <2>2. CASE FullReport \/ UnknownCluster \/ ClusterDetail
      BY <2>2, CachedElements
      DEF FullReport, UnknownCluster, ClusterDetail, Answers, Result, ResultKinds, CacheInv
    <2>3. CASE Rewrite \/ PathRejected \/ UnknownReport \/ UNCHANGED vars
      BY <2>3
      DEF Rewrite, PathRejected, UnknownReport, vars, Answers, Result, ResultKinds, CacheInv,
          Fields
    <2>4. QED BY <2>1, <2>2, <2>3
  <1>4. QED
    BY <1>1, <1>2, <1>3 DEF CacheInv, Fields, NoRepeats, CacheOfIssued, Cached, history

(* So does every tool call, and a file that changes. *)
LEMMA NextInv == CacheInv /\ [Next]_vars => CacheInv'
  BY AnalyzeInv, OtherCalls DEF Next

-----------------------------------------------------------------------------
(* What holds of every sequence of tool calls. *)

(* The invariant holds whatever the texts, the files and the calls are. *)
THEOREM CacheInvariant == Spec => []CacheInv
  BY InitInv, NextInv, PTL DEF Spec

(* Every variable keeps its type, and the cache of mcp/server.py never      *)
(* holds more than MaxCache reports nor one of them twice.                  *)
THEOREM TypeCorrect == Spec => []TypeOK
  <1>1. CacheInv => TypeOK
    BY CachedElements DEF CacheInv, Fields, NoRepeats, TypeOK
  <1>2. QED
    BY <1>1, CacheInvariant, PTL

(* A report that was issued and can no longer be given was pushed out of a  *)
(* cache that is full, and it is not the last one (_cache_put).             *)
THEOREM LostOnlyToNewer == Spec => []EvictedOnlyByNewer
  <1>1. CacheInv => EvictedOnlyByNewer
    BY CachedElements DEF CacheInv, CacheOfIssued, EvictedOnlyByNewer
  <1>2. QED
    BY <1>1, CacheInvariant, PTL

(* What leaves the cache is its oldest report, for one that was not there.  *)
THEOREM OldestLeaves == Spec => EvictsOldestForNew
  <1>1. ASSUME CacheInv, [Next]_vars, NEW r \in Cached,
               r \notin {cache'[k] : k \in DOMAIN cache'}
        PROVE  r = Head(cache) /\ cache'[Len(cache')] \notin Cached
    <2>1. r \notin Cached'
      BY <1>1 DEF Cached
    <2>2. PICK report \in Texts : cache' = Stored(report)
      BY <1>1, <2>1, OtherCalls DEF Next, Analyze, Cached
    <2>3. report \notin Cached
      BY <2>1, <2>2 DEF Stored, Cached
    <2>4. /\ Cached' = (IF IsFull THEN Cached \ {cache[1]} ELSE Cached) \cup {report}
          /\ IsFull => cache # << >>
          /\ cache'[Len(cache')] = report
      BY <1>1, <2>2, <2>3, StoredKeeps DEF CacheInv
    <2>5. r = cache[1] /\ cache # << >>
      BY <2>1, <2>4
    <2>6. Head(cache) = cache[1]
      BY <2>5, HeadTailProperties DEF CacheInv, NoRepeats
    <2>7. QED
      BY <2>3, <2>4, <2>5, <2>6
  <1>2. CacheInv /\ [Next]_vars =>
          [\A r \in Cached :
             r \notin {cache'[k] : k \in DOMAIN cache'} =>
               r = Head(cache) /\ cache'[Len(cache')] \notin Cached]_vars
    BY <1>1
  <1>3. QED
    BY <1>2, CacheInvariant, PTL DEF Spec, EvictsOldestForNew

=============================================================================
