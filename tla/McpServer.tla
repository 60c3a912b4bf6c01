----------------------------- MODULE McpServer ------------------------------
(***************************************************************************)
(* mcp/server.py and mcp/adapter.py: the tools an agent calls to have a    *)
(* log file analyzed and to drill down into the report, and the cache of   *)
(* reports between the two calls.  One action per outcome of a tool call;  *)
(* the file may change, and any number of calls may come, in between.      *)
(*                                                                         *)
(* Parsing is a function of the text, and a report's id is the hash of the *)
(* text, so a text stands for its report and for its id; of a report, the  *)
(* sizes of its clusters matter.                                           *)
(***************************************************************************)
EXTENDS Integers, Sequences, FiniteSets, Functions

CONSTANTS
  Paths,                \* the paths an agent names
  AllowedPaths,         \* those inside an allowed root
  Texts,                \* the texts a log file may hold
  ClusterSizes,         \* text -> the number of diagnostics in each cluster
  Labels,               \* the n of the cluster ids "cn" an agent asks for
  MaxCache,             \* _MAX_CACHE
  MaxShown,             \* max_clusters_shown
  None                  \* Python's None

(* How reading a file may fail. *)
Faults == {"FileNotFoundError", "OSError", "UnicodeDecodeError"}

ASSUME McpServerAssumption ==
  /\ AllowedPaths \subseteq Paths
  /\ ClusterSizes \in [Texts -> Seq(Nat \ {0})]
  /\ Labels \subseteq Nat
  /\ MaxCache \in Nat \ {0}
  /\ MaxShown \in Nat \ {0}

VARIABLES
  file,                 \* path -> the text of the file, or how reading it fails
  cache,                \* _report_cache: its keys in insertion order
  answer,               \* the result of the last call
  issued,               \* history: the report ids agents were given
  latest                \* history: the last of them

vars == <<file, cache, answer, issued, latest>>

history == <<issued, latest>>

Cached == {cache[k] : k \in DOMAIN cache}

(* A result: its kind, the report it is about, and what it says of it.     *)
Result(kind, report, body) == [kind |-> kind, report |-> report, body |-> body]

ResultKinds ==
  {"none", "path_not_allowed", "file_not_found", "decode_error", "raised", "summary",
   "full", "detail", "unknown_report", "unknown_cluster"}

TypeOK ==
  /\ file \in [Paths -> Texts \cup Faults]
  /\ cache \in Seq(Texts)
  /\ Len(cache) <= MaxCache
  /\ Cardinality(Cached) = Len(cache)
  /\ answer.kind \in ResultKinds
  /\ answer.report \in Texts \cup {None}
  /\ issued \subseteq Texts
  /\ latest \in issued \cup {None}

Init ==
  /\ file \in [Paths -> Texts \cup Faults]
  /\ cache = << >>
  /\ answer = Result("none", None, None)
  /\ issued = {}
  /\ latest = None

(* A new log is fetched to the file, or it is removed or damaged. *)
Rewrite ==
  \E p \in Paths, f \in Texts \cup Faults :
    /\ file' = [file EXCEPT ![p] = f]
    /\ UNCHANGED <<cache, answer, history>>

Answers(kind, report, body) ==
  /\ answer' = Result(kind, report, body)
  /\ UNCHANGED file

-----------------------------------------------------------------------------
(* build_summary. *)

Clusters(r) == Len(ClusterSizes[r])

TotalDiagnostics(r) == FoldFunction(+, 0, ClusterSizes[r])

Shown(r) == IF Clusters(r) <= MaxShown THEN Clusters(r) ELSE MaxShown

(* summary_dict["omitted"], or None where the key is left out. *)
Omitted(r) ==
  IF TotalDiagnostics(r) > Shown(r) \/ Clusters(r) > Shown(r)
  THEN TotalDiagnostics(r) - Shown(r)
  ELSE None

-----------------------------------------------------------------------------
(* analyze_ci_log. *)

PathRejected ==
  \E p \in Paths \ AllowedPaths :
    /\ Answers("path_not_allowed", None, None)
    /\ UNCHANGED <<cache, history>>

(* Only OSErrors are turned into an error result; the rest escape. *)
ReadResult(fault) ==
  CASE fault = "FileNotFoundError"  -> "file_not_found"
    [] fault = "OSError"            -> "decode_error"
    [] fault = "UnicodeDecodeError" -> "raised"

ReadFails ==
  \E p \in AllowedPaths :
    /\ file[p] \in Faults
    /\ Answers(ReadResult(file[p]), None, None)
    /\ UNCHANGED <<cache, history>>

(* Mutant: the cache may grow one report beyond its bound. *)
IsFull_late == Len(cache) > MaxCache

IsFull == Len(cache) >= MaxCache

(* Mutant: a report that is cached again takes another one's place. *)
Stored_twice(report) ==
  IF IsFull THEN Append(Tail(cache), report) ELSE Append(cache, report)

(* _cache_put: the first key goes when a new one finds the dict full, and  *)
(* assigning to a key that is there leaves it where it is.                  *)
Stored(report) ==
  IF report \in Cached THEN cache
  ELSE Append(IF IsFull THEN Tail(cache) ELSE cache, report)

Analyze ==
  \E p \in AllowedPaths :
    /\ file[p] \in Texts
    /\ cache' = Stored(file[p])
    /\ issued' = issued \cup {file[p]}
    /\ latest' = file[p]
    /\ Answers("summary", file[p],
               [shown |-> 1..Shown(file[p]), omitted |-> Omitted(file[p])])

-----------------------------------------------------------------------------
(* get_full_report and get_cluster_detail. *)

UnknownReport ==
  \E r \in Texts :
    /\ r \notin Cached
    /\ Answers("unknown_report", r, None)
    /\ UNCHANGED <<cache, history>>

FullReport ==
  \E r \in Cached :
    /\ Answers("full", r, None)
    /\ UNCHANGED <<cache, history>>

Index(label) == label - 1               \* of report.clusters, from 0

UnknownCluster ==
  \E r \in Cached, label \in Labels :
    /\ Index(label) < 0 \/ Index(label) >= Clusters(r)
    /\ Answers("unknown_cluster", r, label)
    /\ UNCHANGED <<cache, history>>

ClusterDetail ==
  \E r \in Cached, label \in Labels :
    /\ Index(label) >= 0 /\ Index(label) < Clusters(r)
    /\ Answers("detail", r, [label |-> label, position |-> Index(label) + 1])
    /\ UNCHANGED <<cache, history>>

Next ==
  \/ Rewrite \/ PathRejected \/ ReadFails \/ Analyze
  \/ UnknownReport \/ FullReport \/ UnknownCluster \/ ClusterDetail

Spec == Init /\ [][Next]_vars

-----------------------------------------------------------------------------
(* What the tools promise. *)

(* A report the cache cannot give was pushed out by MaxCache reports that   *)
(* are still there, none of them a repeat; and the last one issued can      *)
(* always be given.                                                         *)
EvictedOnlyByNewer ==
  \A r \in issued \ Cached : Cardinality(Cached) = MaxCache /\ r # latest

(* A report leaves the cache for a new one only, and only the one that has  *)
(* been in it the longest.                                                  *)
EvictsOldestForNew ==
  [][\A r \in Cached :
       r \notin {cache'[k] : k \in DOMAIN cache'} =>
         r = Head(cache) /\ cache'[Len(cache')] \notin Cached]_vars

(* The contract tests/test_mcp_server.py states: a file that cannot be      *)
(* decoded is reported as an error result.                                  *)
UndecodableIsAnError == answer.kind # "raised"

=============================================================================
