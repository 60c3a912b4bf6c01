--------------------------- MODULE Ingestion_proofs ---------------------------
(***************************************************************************)
(* What module Ingestion promises, proved for every history of GitHub's    *)
(* runs, every set of jobs and every page size.  The inductive invariant   *)
(* IngestInv says in which phase each field of the command can be relied   *)
(* on; the promises, which speak of the disk and of how a command ended,   *)
(* follow from it.                                                         *)
(***************************************************************************)
EXTENDS Ingestion, FiniteSetTheorems, TLAPS

-----------------------------------------------------------------------------
(* The inductive invariant. *)

Writing == {"open_log", "write_log", "open_sidecar", "write_sidecar"}

(* A run that has started has an attempt. *)
StartedRunsCount == \A r \in Runs : runs[r].status # "none" => runs[r].attempt >= 1

(* Between the listings the chosen run may be started again, so its attempt *)
(* only grows.                                                              *)
ChosenRun ==
  /\ phase \notin {"idle", "runs"} => run \in Listing
  /\ phase = "jobs" => run.attempt <= runs[run.id].attempt

(* What is left of earlier commands is gone before it could be read. *)
LeftOver ==
  /\ phase \in {"idle", "runs", "jobs"} => todo = {}
  /\ phase \in {"runs", "jobs"} => listed = {}
  /\ phase \in Writing => job \in todo

ListedAreTheRuns ==
  \A j \in listed :
    run \in Listing /\ RunOf[j] = run.id /\ run.attempt <= AttemptOf[j]

(* What the loop has done, and what it has done for the job in hand. *)
LoopSaved ==
  /\ phase # "idle" =>
       \A j \in listed \ todo : log[j] = Complete /\ sidecar[j] = run
  /\ phase \in {"open_sidecar", "write_sidecar"} => log[job] = Complete

(* The sidecar is written last. *)
SidecarVouches ==
  \A j \in Jobs : sidecar[j] \notin {Absent, Partial} => j \in vouched

IngestInv ==
  /\ TypeOK
  /\ StartedRunsCount
  /\ ChosenRun
  /\ LeftOver
  /\ ListedAreTheRuns
  /\ LoopSaved
  /\ SidecarVouches
  /\ SuccessMeansSaved
  /\ OnlyNewestFailuresSaved

-----------------------------------------------------------------------------
(* The actions. *)

(* An empty directory, before any command, satisfies the invariant. *)
LEMMA InitInv == Init => IngestInv
  BY NoneAssumption, IngestionAssumption
  DEF Init, IngestInv, TypeOK, StartedRunsCount, ChosenRun, LeftOver, Writing,
      ListedAreTheRuns, LoopSaved, SidecarVouches, SuccessMeansSaved,
      OnlyNewestFailuresSaved, RunState, Killed

(* The codes of the faults are codes, and none of them says success. *)
LEMMA FaultsAreNoSuccess ==
  ASSUME NEW f \in Faults
  PROVE  ExitCode[f] \in Killed..5 /\ ExitCode[f] # 0
  <1>1. f \in {"401", "403", "404", "other status", "unreachable"}
    BY DEF Faults
  <1>2. CASE f = "401" \/ f = "403"
    <2>1. ExitCode[f] = 3 BY <1>2, Zenon DEF ExitCode, Faults
    <2>2. QED BY <2>1 DEF Killed
  <1>3. CASE f = "404"
    <2>1. ExitCode[f] = 4 BY <1>3, Zenon DEF ExitCode, Faults
    <2>2. QED BY <2>1 DEF Killed
  <1>4. CASE f = "other status"
    <2>1. ExitCode[f] = Raised BY <1>4, Zenon DEF ExitCode, Faults
    <2>2. QED BY <2>1 DEF Killed, Raised
  <1>5. CASE f = "unreachable"
    <2>1. f # "401" /\ f # "403" /\ f # "404" /\ f # "other status"
      BY <1>5
    <2>2. ExitCode[f] = 5 BY <1>5, <2>1, Zenon DEF ExitCode, Faults
    <2>3. QED BY <2>2 DEF Killed
  <1>6. QED BY <1>1, <1>2, <1>3, <1>4, <1>5

(* A command may end at any point, as long as it does not claim success. *)
LEMMA FailingIsSafe ==
  ASSUME IngestInv, NEW c \in Killed..5, c # 0, Exit(c),
         UNCHANGED <<runs, run, newest, listed, disk>>
  PROVE  IngestInv'
  BY DEF IngestInv, TypeOK, StartedRunsCount, ChosenRun, LeftOver, Writing,
         ListedAreTheRuns, LoopSaved, SidecarVouches, SuccessMeansSaved,
         OnlyNewestFailuresSaved, Exit, disk

(* What GitHub does leaves the command and the disk alone, and an attempt never goes back. *)
LEMMA GitHubIsSafe ==
  ASSUME IngestInv, RunStarts \/ RunEnds
  PROVE  IngestInv'
  <1>1. /\ runs' \in [Runs -> RunState]
        /\ \A r \in Runs : runs'[r].attempt >= runs[r].attempt
        /\ \A r \in Runs : runs'[r].status # "none" => runs'[r].attempt >= 1
    <2>1. CASE RunStarts
      BY <2>1, IngestionAssumption DEF IngestInv, TypeOK, RunStarts, RunState, StartedRunsCount
    <2>2. CASE RunEnds
      BY <2>2, IngestionAssumption DEF IngestInv, TypeOK, RunEnds, RunState, StartedRunsCount
    <2>3. QED BY <2>1, <2>2
  <1>2. UNCHANGED <<command, disk>>
    BY DEF RunStarts, RunEnds
  <1>3. ChosenRun'
    BY <1>1, <1>2, IngestionAssumption
    DEF IngestInv, TypeOK, ChosenRun, Listing, RunState, command, disk
  <1>4. QED
    BY <1>1, <1>2, <1>3
    DEF IngestInv, TypeOK, StartedRunsCount, LeftOver, Writing,
        ListedAreTheRuns, LoopSaved, SidecarVouches, SuccessMeansSaved,
        OnlyNewestFailuresSaved, command, disk

(* If everything fits on one page, the page is everything. *)
LEMMA OnePageIsAll ==
  ASSUME NEW S, IsFiniteSet(S), NEW size \in Nat, NEW page \in PagesOf(S, size),
         Cardinality(S) <= size
  PROVE  page = S
  <1>1. page \in SUBSET S /\ Cardinality(page) = Cardinality(S)
    BY FS_CardinalityType DEF PagesOf
  <1>2. QED
    BY <1>1, FS_Subset

(* Choosing the latest failed run keeps the invariant, whatever page GitHub *)
(* listed.                                                                  *)
LEMMA ChooseRunInv ==
  ASSUME IngestInv, ChooseRun
  PROVE  IngestInv'
  <1>1. PICK page \in PagesOf(FailedRuns, RunsPerPage), r \in Runs :
             r \in Latest(page) /\ run' = [id |-> r, attempt |-> runs[r].attempt]
    BY DEF ChooseRun, PagesOf, Latest, FailedRuns
  <1>2. r \in FailedRuns /\ r \in Runs /\ runs[r].status = "failure"
    BY <1>1 DEF PagesOf, Latest, FailedRuns
  <1>3. run' \in Listing /\ run'.id = r /\ run'.attempt = runs'[r].attempt
    BY <1>1, <1>2, IngestionAssumption
    DEF ChooseRun, Listing, IngestInv, TypeOK, StartedRunsCount, RunState
  <1>4. Cardinality(newest') <= RunsPerPage =>
          \A s \in newest' : CreatedAt[s] <= CreatedAt[run'.id]
    <2>1. SUFFICES ASSUME Cardinality(FailedRuns) <= RunsPerPage
                   PROVE  \A s \in FailedRuns : CreatedAt[s] <= CreatedAt[r]
      BY <1>3 DEF ChooseRun
    <2>2. IsFiniteSet(FailedRuns)
      BY FS_Subset, IngestionAssumption DEF FailedRuns
    <2>3. page = FailedRuns
      BY <1>1, <2>1, <2>2, OnePageIsAll, IngestionAssumption
    <2>4. QED BY <1>1, <2>3 DEF Latest
  <1>5. OnlyNewestFailuresSaved'
    BY <1>4 DEF IngestInv, OnlyNewestFailuresSaved, ChooseRun, disk
  <1>6. TypeOK' /\ ChosenRun'
    <2>1. UNCHANGED <<runs, listed, todo, job, log, sidecar, vouched, code>>
      BY DEF ChooseRun, disk
    <2>2. phase = "runs" /\ phase' = "jobs" /\ newest' \subseteq Runs
      BY DEF ChooseRun, FailedRuns
    <2>3. TypeOK'
      BY <1>3, <2>1, <2>2 DEF IngestInv, TypeOK
    <2>4. run'.attempt <= runs'[run'.id].attempt
      BY <1>3, <1>2, <2>1, IngestionAssumption DEF IngestInv, TypeOK, Listing
    <2>5. QED
      BY <1>3, <2>2, <2>3, <2>4 DEF ChosenRun
  <1>7. QED
    BY <1>5, <1>6, NoneAssumption
    DEF IngestInv, TypeOK, StartedRunsCount, LeftOver, Writing, ListedAreTheRuns, LoopSaved,
        SidecarVouches, SuccessMeansSaved, ChooseRun, disk

(* The jobs listed are of the run's attempt by now, which is not before the one chosen. *)
LEMMA ListJobsInv ==
  ASSUME IngestInv, ListJobs
  PROVE  IngestInv'
  <1>1. PICK page \in PagesOf(JobsNow(run.id), JobsPerPage), concluded \in Concluded(run.id) :
             listed' = Failed(page, concluded)
    BY DEF ListJobs
  <1>2. listed' \subseteq JobsNow(run.id) \cap FailedJobs
    BY <1>1 DEF PagesOf, Failed
  <1>3. ListedAreTheRuns'
    BY <1>2, IngestionAssumption
    DEF ListJobs, ListedAreTheRuns, IngestInv, TypeOK, ChosenRun, JobsNow, Listing, RunState
  <1>4. listed' = todo'
    BY DEF ListJobs
  <1>5. QED
    BY <1>2, <1>3, <1>4, NoneAssumption
    DEF ListJobs, IngestInv, TypeOK, StartedRunsCount, ChosenRun, LeftOver, Writing, LoopSaved,
        SidecarVouches, SuccessMeansSaved, OnlyNewestFailuresSaved, disk

(* Before the last write: each file operation touches the job in hand alone. *)
LEMMA FilesInv ==
  ASSUME IngestInv, OpenLog \/ WriteLog \/ OpenSidecar
  PROVE  IngestInv'
  <1> USE DEF IngestInv, TypeOK, StartedRunsCount, ChosenRun, LeftOver, Writing,
              ListedAreTheRuns, LoopSaved, SidecarVouches, SuccessMeansSaved,
              OnlyNewestFailuresSaved
  <1>1. job \in todo /\ job \in Jobs /\ code = None /\ code # 0
    BY NoneAssumption, IngestionAssumption DEF OpenLog, WriteLog, OpenSidecar, Killed
  <1>2. CASE OpenLog
    BY <1>1, <1>2 DEF OpenLog
  <1>3. CASE WriteLog
    BY <1>1, <1>3 DEF WriteLog
  <1>4. CASE OpenSidecar
    BY <1>1, <1>4 DEF OpenSidecar
  <1>5. QED BY <1>2, <1>3, <1>4

(* The last write: the job is saved in full, and the command claims success *)
(* only when nothing is left.                                               *)
LEMMA WriteSidecarInv ==
  ASSUME IngestInv, WriteSidecar
  PROVE  IngestInv'
  <1> USE DEF IngestInv
  <1>1. /\ job \in todo /\ job \in listed /\ job \in Jobs /\ job \in FailedJobs
        /\ code = None /\ code # 0 /\ run \in Listing
        /\ log[job] = Complete /\ log' = log
    BY NoneAssumption, IngestionAssumption
    DEF WriteSidecar, TypeOK, LeftOver, Writing, Killed, ChosenRun, LoopSaved
  <1>2. /\ sidecar' = [sidecar EXCEPT ![job] = run]
        /\ vouched' = vouched \cup {job}
        /\ UNCHANGED <<runs, run, newest, listed, log>>
        /\ job' = None
        /\ \/ todo = {job} /\ todo' = {} /\ phase' = "idle" /\ code' = 0
           \/ todo' = todo \ {job} /\ phase' = "fetch" /\ code' = code
    BY DEF WriteSidecar, Saved, Exit
  <1>3. TypeOK'
    BY <1>1, <1>2 DEF TypeOK, Killed
  <1>4. \A j \in listed' \ todo' : log'[j] = Complete /\ sidecar'[j] = run'
    BY <1>1, <1>2 DEF LoopSaved, TypeOK, WriteSidecar
  <1>5. LoopSaved' /\ SuccessMeansSaved'
    BY <1>1, <1>2, <1>4 DEF LoopSaved, SuccessMeansSaved
  <1>6. SidecarVouches'
    BY <1>1, <1>2 DEF SidecarVouches, TypeOK
  <1>7. OnlyNewestFailuresSaved'
    BY <1>1, <1>2 DEF OnlyNewestFailuresSaved, ListedAreTheRuns, TypeOK
  <1>8. QED
    BY <1>1, <1>2, <1>3, <1>5, <1>6, <1>7
    DEF StartedRunsCount, ChosenRun, LeftOver, Writing, ListedAreTheRuns

(* Every step, of the command or of GitHub, keeps the invariant. *)
LEMMA NextInv == IngestInv /\ [Next]_vars => IngestInv'
  <1> SUFFICES ASSUME IngestInv, [Next]_vars PROVE IngestInv'
    OBVIOUS
  <1>1. CASE RunStarts \/ RunEnds
    BY <1>1, GitHubIsSafe
  <1>2. CASE Refused
    BY <1>2, FailingIsSafe DEF Refused, Killed
  <1>3. CASE Begin
    BY <1>3, NoneAssumption
    DEF Begin, IngestInv, TypeOK, StartedRunsCount, ChosenRun, LeftOver, Writing,
        ListedAreTheRuns, LoopSaved, SidecarVouches, SuccessMeansSaved,
        OnlyNewestFailuresSaved, disk, Killed
  <1>4. CASE RequestFails
    BY <1>4, FailingIsSafe, FaultsAreNoSuccess DEF RequestFails
  <1>5. CASE NoFailedRuns \/ NoFailedJobs
    BY <1>5, FailingIsSafe DEF NoFailedRuns, NoFailedJobs, Killed
  <1>6. CASE ChooseRun
    BY <1>6, ChooseRunInv
  <1>7. CASE ListJobs
    BY <1>7, ListJobsInv
  <1>8. CASE FetchLog
    BY <1>8
    DEF FetchLog, IngestInv, TypeOK, StartedRunsCount, ChosenRun, LeftOver, Writing,
        ListedAreTheRuns, LoopSaved, SidecarVouches, SuccessMeansSaved,
        OnlyNewestFailuresSaved, disk
  <1>9. CASE OpenLog \/ WriteLog \/ OpenSidecar
    BY <1>9, FilesInv
  <1>10. CASE WriteSidecar
    BY <1>10, WriteSidecarInv
  <1>11. CASE Stopped
    BY <1>11, FailingIsSafe DEF Stopped, Killed, Raised
  <1>12. CASE UNCHANGED vars
    BY <1>12
    DEF vars, IngestInv, TypeOK, StartedRunsCount, ChosenRun, LeftOver, Writing,
        ListedAreTheRuns, LoopSaved, SidecarVouches, SuccessMeansSaved,
        OnlyNewestFailuresSaved
  <1>13. QED
    BY <1>1, <1>2, <1>3, <1>4, <1>5, <1>6, <1>7, <1>8, <1>9, <1>10, <1>11, <1>12
    DEF Next, Ingest

-----------------------------------------------------------------------------
(* What holds of every ingest command. *)

(* The invariant holds, whatever GitHub does and wherever a command is      *)
(* stopped (github/ingestion.py, github/models.py, cli.py).                 *)
THEOREM IngestInvariant == Spec => []IngestInv
  BY InitInv, NextInv, PTL DEF Spec

(* Every variable keeps its type; job is one of todo, todo of listed, and   *)
(* a command that runs has no exit code yet.                                *)
THEOREM TypeCorrect == Spec => []TypeOK
  BY IngestInvariant, PTL DEF IngestInv

(* Exit code 0 means that every failed job of the listing is on disk in     *)
(* full, whatever earlier commands left half written.                       *)
THEOREM SuccessIsSaved == Spec => []SuccessMeansSaved
  BY IngestInvariant, PTL DEF IngestInv

(* What is saved are failures of the run that was chosen, the newest one    *)
(* where the failed runs fit on a page (resolve_latest_failed_run).         *)
THEOREM SavedAreNewestFailures == Spec => []OnlyNewestFailuresSaved
  BY IngestInvariant, PTL DEF IngestInv

(* The parse command accepts half a log only after an interrupted second    *)
(* saving (save_raw_log and load_raw_log).                                  *)
THEOREM AcceptedIsWhole == Spec => []AcceptedLogIsWhole
  <1>1. ASSUME IngestInv, NEW j \in Jobs, ParseResult(j) = 0
        PROVE  j \in vouched
    <2>1. CASE log[j] = Absent
      <3>1. ParseResult(j) = 4 BY <2>1, Zenon DEF ParseResult
      <3>2. QED BY <3>1, <1>1
    <2>2. CASE log[j] # Absent /\ sidecar[j] \in {Absent, Partial}
      <3>1. ParseResult(j) = Raised BY <2>2, Zenon DEF ParseResult
      <3>2. QED BY <3>1, <1>1 DEF Raised
    <2>3. CASE sidecar[j] \notin {Absent, Partial}
      BY <2>3, <1>1 DEF IngestInv, SidecarVouches
    <2>4. QED BY <2>1, <2>2, <2>3
  <1>2. IngestInv => AcceptedLogIsWhole
    BY <1>1 DEF AcceptedLogIsWhole
  <1>3. QED
    BY <1>2, IngestInvariant, PTL

(* The files of a job that was saved in full change only while a command    *)
(* is working on that very job.                                             *)
THEOREM SavedIsStable == Spec => SavedStaysSaved
  <1>1. ASSUME IngestInv, [Next]_vars, NEW j \in vouched,
               log'[j] # log[j] \/ sidecar'[j] # sidecar[j]
        PROVE  j = job /\ j \in todo
    <2>1. OpenLog \/ WriteLog \/ OpenSidecar \/ WriteSidecar
      BY <1>1
      DEF Next, Ingest, vars, disk, RunStarts, RunEnds, Refused, Begin, RequestFails,
          NoFailedRuns, ChooseRun, NoFailedJobs, ListJobs, FetchLog, Stopped
    <2>2. job \in todo
      BY <2>1, <1>1 DEF IngestInv, LeftOver, Writing, OpenLog, WriteLog, OpenSidecar, WriteSidecar
    <2>3. j = job
      BY <2>1, <1>1
      DEF IngestInv, TypeOK, OpenLog, WriteLog, OpenSidecar, WriteSidecar, Saved
    <2>4. QED BY <2>2, <2>3
  <1>2. IngestInv /\ [Next]_vars =>
          [\A j \in vouched :
             log'[j] # log[j] \/ sidecar'[j] # sidecar[j] => j = job /\ j \in todo]_vars
    BY <1>1
  <1>3. QED
    BY <1>2, IngestInvariant, PTL DEF Spec, SavedStaysSaved

(* What AcceptedIsWhole leans on: when a job is saved for the first time,   *)
(* its log is whole and its sidecar names the run that was chosen, so only  *)
(* a second saving can come between (save_raw_log writes the sidecar last). *)
VouchedInFull ==
  [][\A j \in vouched' \ vouched : log'[j] = Complete /\ sidecar'[j] = run]_vars

(* No job is vouched for before it is whole, for any runs and page sizes. *)
THEOREM VouchedAreWhole == Spec => VouchedInFull
  <1>1. ASSUME IngestInv, [Next]_vars, NEW j \in vouched', j \notin vouched
        PROVE  log'[j] = Complete /\ sidecar'[j] = run
    <2>1. WriteSidecar
      BY <1>1
      DEF Next, Ingest, vars, disk, RunStarts, RunEnds, Refused, Begin, RequestFails,
          NoFailedRuns, ChooseRun, NoFailedJobs, ListJobs, FetchLog, OpenLog, WriteLog,
          OpenSidecar, Stopped
    <2>2. j = job /\ j \in Jobs
      BY <1>1, <2>1, IngestionAssumption
      DEF WriteSidecar, Saved, IngestInv, TypeOK, LeftOver, Writing
    <2>3. QED
      BY <1>1, <2>1, <2>2 DEF WriteSidecar, Saved, IngestInv, TypeOK, LoopSaved
  <1>2. IngestInv /\ [Next]_vars =>
          [\A j \in vouched' \ vouched : log'[j] = Complete /\ sidecar'[j] = run]_vars
    BY <1>1
  <1>3. QED
    BY <1>2, IngestInvariant, PTL DEF Spec, VouchedInFull

=============================================================================
