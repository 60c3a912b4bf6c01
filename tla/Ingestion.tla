----------------------------- MODULE Ingestion ------------------------------
(***************************************************************************)
(* github/ingestion.py, client.py and models.py under the ingest command   *)
(* of cli.py: find the latest failed run, list its failed jobs, and save   *)
(* the log of each as a .log file and a .json sidecar.  GitHub goes on     *)
(* running workflows between two requests, a request may fail, and the     *)
(* process may be stopped between two file operations and started again.   *)
(*                                                                         *)
(* GitHub is external: it lists runs and jobs a page at a time in an order *)
(* nobody guarantees, and the log of a finished job never changes.         *)
(***************************************************************************)
EXTENDS Integers, FiniteSets

CONSTANTS
  CreatedAt,            \* run -> when it was created
  RunOf, AttemptOf,     \* job -> its run, and which attempt of the run it is in
  FailedJobs,           \* the jobs whose conclusion is "failure"
  MaxAttempts,          \* bound: how often a run may be run
  RunsPerPage,          \* per_page of list_workflow_runs
  JobsPerPage,          \* the page size list_jobs_for_run leaves to GitHub
  Absent, Partial, Complete, \* how much of a file is on disk
  None                  \* Python's None

Raised == -1            \* the command ended with an uncaught exception

Killed == -2            \* or was stopped from outside

Runs == DOMAIN CreatedAt

Jobs == DOMAIN RunOf

ASSUME IngestionAssumption ==
  /\ IsFiniteSet(Runs) /\ CreatedAt \in [Runs -> Nat]
  /\ IsFiniteSet(Jobs) /\ RunOf \in [Jobs -> Runs]
  /\ AttemptOf \in [Jobs -> 1..MaxAttempts]
  /\ FailedJobs \subseteq Jobs
  /\ MaxAttempts \in Nat
  /\ RunsPerPage \in Nat \ {0} /\ JobsPerPage \in Nat \ {0}

(* Python's None is no exit code. *)
ASSUME NoneAssumption == None \notin Killed..5

VARIABLES
  runs,                 \* GitHub: run -> its attempt, 0 before the first, and status
  phase,                \* what the ingest command does next, "idle" if it does not run
  run,                  \* the run that was chosen, as it was listed
  newest,               \* history: the failed runs there were when it was listed
  listed,               \* the failed jobs of the page that was listed
  todo,                 \* those whose logs are still to be saved
  job,                  \* the job whose log is being saved
  log,                  \* disk: job -> its .log file
  sidecar,              \* disk: job -> its .json file
  vouched,              \* history: the jobs that were once saved in full
  code                  \* how the last ingest command ended

vars == <<runs, phase, run, newest, listed, todo, job, log, sidecar, vouched, code>>

command == <<phase, run, newest, listed, todo, job, code>>

disk == <<log, sidecar, vouched>>

RunState == [attempt : 0..MaxAttempts, status : {"none", "running", "failure", "success"}]

Listing == [id : Runs, attempt : 1..MaxAttempts]

TypeOK ==
  /\ runs \in [Runs -> RunState]
  /\ phase \in {"idle", "runs", "jobs", "fetch", "open_log", "write_log",
                "open_sidecar", "write_sidecar"}
  /\ run \in Listing \cup {None}
  /\ newest \subseteq Runs
  /\ listed \subseteq FailedJobs
  /\ todo \subseteq listed
  /\ job \in todo \cup {None}
  /\ log \in [Jobs -> {Absent, Partial, Complete}]
  /\ sidecar \in [Jobs -> Listing \cup {Absent, Partial}]
  /\ vouched \subseteq Jobs
  /\ code \in Killed..5 \cup {None}
  /\ code = None \/ phase = "idle"

Init ==
  /\ runs = [r \in Runs |-> [attempt |-> 0, status |-> "none"]]
  /\ phase = "idle"
  /\ run = None
  /\ newest = {}
  /\ listed = {}
  /\ todo = {}
  /\ job = None
  /\ log = [j \in Jobs |-> Absent]
  /\ sidecar = [j \in Jobs |-> Absent]
  /\ vouched = {}
  /\ code = None

-----------------------------------------------------------------------------
(* GitHub. *)

JobsNow(r) == {j \in Jobs : RunOf[j] = r /\ AttemptOf[j] = runs[r].attempt}

FailedRuns == {r \in Runs : runs[r].status = "failure"}

(* A page of at most `size` of the elements, whichever. *)
PagesOf(S, size) ==
  {P \in SUBSET S : Cardinality(P) = IF Cardinality(S) < size THEN Cardinality(S) ELSE size}

RunStarts ==
  \E r \in Runs :
    /\ runs[r].status # "running" /\ runs[r].attempt < MaxAttempts
    /\ runs' = [runs EXCEPT ![r] = [attempt |-> @.attempt + 1, status |-> "running"]]
    /\ UNCHANGED <<command, disk>>

(* A run may fail without a failed job, but not succeed with one. *)
RunEnds ==
  \E r \in Runs, status \in {"failure", "success"} :
    /\ runs[r].status = "running"
    /\ status = "success" => JobsNow(r) \cap FailedJobs = {}
    /\ runs' = [runs EXCEPT ![r] = [attempt |-> @.attempt, status |-> status]]
    /\ UNCHANGED <<command, disk>>

-----------------------------------------------------------------------------
(* The ingest command. *)

Exit(with) ==
  /\ phase' = "idle"
  /\ code' = with
  /\ todo' = {}
  /\ job' = None

(* No token, or a repository that is not owner/repo. *)
Refused ==
  /\ phase = "idle"
  /\ Exit(2)
  /\ UNCHANGED <<runs, run, newest, listed, disk>>

Begin ==
  /\ phase = "idle"
  /\ phase' = "runs"
  /\ run' = None
  /\ newest' = {}
  /\ listed' = {}
  /\ code' = None
  /\ UNCHANGED <<runs, todo, job, disk>>

(* What the client raises and main turns into an exit code; a GitHubAPIError *)
(* of any other status escapes it.                                          *)
Faults == {"401", "403", "404", "other status", "unreachable"}

ExitCode ==
  [f \in Faults |-> CASE f = "401" -> 3 [] f = "403" -> 3 [] f = "404" -> 4
                      [] f = "other status" -> Raised [] f = "unreachable" -> 5]

RequestFails ==
  /\ phase \in {"runs", "jobs", "fetch"}
  /\ \E f \in Faults : Exit(ExitCode[f])
  /\ UNCHANGED <<runs, run, newest, listed, disk>>

NoFailedRuns ==
  /\ phase = "runs"
  /\ FailedRuns = {}
  /\ Exit(1)
  /\ UNCHANGED <<runs, run, newest, listed, disk>>

(* Mutant: whatever run the page shows first is the latest.                 *)
Latest_first(page) == page

(* max by created_at: any of the latest, as the order of the page has it. *)
Latest(page) == {r \in page : \A s \in page : CreatedAt[s] <= CreatedAt[r]}

ChooseRun ==
  /\ phase = "runs"
  /\ \E page \in PagesOf(FailedRuns, RunsPerPage) : \E r \in Latest(page) :
       run' = [id |-> r, attempt |-> runs[r].attempt]
  /\ newest' = FailedRuns
  /\ phase' = "jobs"
  /\ UNCHANGED <<runs, listed, todo, job, code, disk>>

(* The jobs of a run that is going on may have no conclusion yet. *)
Concluded(r) ==
  IF runs[r].status = "running" THEN SUBSET JobsNow(r) ELSE {JobsNow(r)}

(* Mutant: the conclusion is not looked at. *)
Failed_any(page, concluded) == page

Failed(page, concluded) == page \cap concluded \cap FailedJobs

NoFailedJobs ==
  /\ phase = "jobs"
  /\ \E page \in PagesOf(JobsNow(run.id), JobsPerPage), concluded \in Concluded(run.id) :
       Failed(page, concluded) = {}
  /\ Exit(1)
  /\ UNCHANGED <<runs, run, newest, listed, disk>>

ListJobs ==
  /\ phase = "jobs"
  /\ \E page \in PagesOf(JobsNow(run.id), JobsPerPage), concluded \in Concluded(run.id) :
       /\ Failed(page, concluded) # {}
       /\ listed' = Failed(page, concluded)
       /\ todo' = Failed(page, concluded)
  /\ phase' = "fetch"
  /\ UNCHANGED <<runs, run, newest, job, code, disk>>

FetchLog ==
  /\ phase = "fetch"
  /\ job' \in todo
  /\ phase' = "open_log"
  /\ UNCHANGED <<runs, run, newest, listed, todo, code, disk>>

-----------------------------------------------------------------------------
(* save_raw_log.  Opening a file for writing empties it. *)

(* Mutant: the sidecar is written before the log. *)
OpenLog_afterSidecar ==
  /\ phase = "open_log"
  /\ log' = [log EXCEPT ![job] = Partial]
  /\ sidecar' = [sidecar EXCEPT ![job] = run]
  /\ phase' = "write_log"
  /\ UNCHANGED <<runs, run, newest, listed, todo, job, vouched, code>>

OpenLog ==
  /\ phase = "open_log"
  /\ log' = [log EXCEPT ![job] = Partial]
  /\ phase' = "write_log"
  /\ UNCHANGED <<runs, run, newest, listed, todo, job, sidecar, vouched, code>>

WriteLog ==
  /\ phase = "write_log"
  /\ log' = [log EXCEPT ![job] = Complete]
  /\ phase' = "open_sidecar"
  /\ UNCHANGED <<runs, run, newest, listed, todo, job, sidecar, vouched, code>>

OpenSidecar ==
  /\ phase = "open_sidecar"
  /\ sidecar' = [sidecar EXCEPT ![job] = Partial]
  /\ phase' = "write_sidecar"
  /\ UNCHANGED <<runs, run, newest, listed, todo, job, log, vouched, code>>

(* Mutant: the files are named after the run alone. *)
Saved_byRun ==
  /\ sidecar' = [j \in Jobs |-> IF RunOf[j] = RunOf[job] THEN run ELSE sidecar[j]]
  /\ vouched' = vouched \cup {job}

Saved ==
  /\ sidecar' = [sidecar EXCEPT ![job] = run]
  /\ vouched' = vouched \cup {job}

(* Mutant: the command ends with the first job. *)
WriteSidecar_one ==
  /\ phase = "write_sidecar"
  /\ Saved
  /\ Exit(0)
  /\ UNCHANGED <<runs, run, newest, listed, log>>

(* Mutant: the job stays to be saved. *)
WriteSidecar_again ==
  /\ phase = "write_sidecar"
  /\ Saved
  /\ phase' = "fetch"
  /\ job' = None
  /\ UNCHANGED <<runs, run, newest, listed, todo, code, log>>

(* The sidecar is written, and the loop goes on to the next job. *)
WriteSidecar ==
  /\ phase = "write_sidecar"
  /\ Saved
  /\ IF todo = {job} THEN Exit(0)
     ELSE phase' = "fetch" /\ todo' = todo \ {job} /\ job' = None /\ UNCHANGED code
  /\ UNCHANGED <<runs, run, newest, listed, log>>

(* A file operation raises an OSError, or someone stops the process. *)
Stopped ==
  \/ /\ phase \in {"open_log", "write_log", "open_sidecar", "write_sidecar"}
     /\ Exit(Raised)
     /\ UNCHANGED <<runs, run, newest, listed, disk>>
  \/ /\ phase # "idle"
     /\ Exit(Killed)
     /\ UNCHANGED <<runs, run, newest, listed, disk>>

Ingest ==
  \/ RequestFails \/ NoFailedRuns \/ ChooseRun \/ NoFailedJobs \/ ListJobs
  \/ FetchLog \/ OpenLog \/ WriteLog \/ OpenSidecar \/ WriteSidecar

Next == RunStarts \/ RunEnds \/ Refused \/ Begin \/ Ingest \/ Stopped

Spec == Init /\ [][Next]_vars

(* Every request has a timeout, so a command that runs keeps taking steps. *)
FairSpec == Spec /\ WF_vars(Ingest)

-----------------------------------------------------------------------------
(* The parse command on the files of a job: load_raw_log wants both.        *)

ParseResult(j) ==
  CASE log[j] = Absent      -> 4
    [] log[j] # Absent /\ sidecar[j] \in {Absent, Partial} -> Raised
    [] log[j] # Absent /\ sidecar[j] \notin {Absent, Partial} -> 0

-----------------------------------------------------------------------------
(* What the ingest command promises. *)

(* Exit code 0 is said only of a command that saved something, and every    *)
(* failed job it was shown is then on disk in full, under the run it chose, *)
(* whatever earlier commands left half written.                             *)
SuccessMeansSaved ==
  code = 0 => listed # {} /\ \A j \in listed : log[j] = Complete /\ sidecar[j] = run

(* The sidecar vouches for the log: the log is written before it, so what   *)
(* the parse command accepts is a whole log -- except that saving a job for *)
(* a second time may be cut short and leave the old sidecar with half a log.*)
AcceptedLogIsWhole ==
  \A j \in Jobs : ParseResult(j) = 0 /\ log[j] # Complete => j \in vouched

(* Once saved in full, the files of a job are touched again only by a       *)
(* command that was shown the job again and is working on it.               *)
SavedStaysSaved ==
  [][\A j \in vouched :
       log'[j] # log[j] \/ sidecar'[j] # sidecar[j] => j = job /\ j \in todo]_vars

(* Only failures are saved, each under its own run, and under an attempt    *)
(* that is not later than the job's -- it may be earlier, when the run was  *)
(* started again between the two listings.  They are those of the newest    *)
(* failed run (resolve_latest_failed_run): where all failed runs fit on a   *)
(* page, none was created after it, in whatever order GitHub lists them.    *)
OnlyNewestFailuresSaved ==
  /\ \A j \in Jobs :
       /\ log[j] # Absent => j \in FailedJobs
       /\ sidecar[j] \notin {Absent, Partial} =>
            sidecar[j].id = RunOf[j] /\ sidecar[j].attempt <= AttemptOf[j]
  /\ run # None /\ Cardinality(newest) <= RunsPerPage =>
       \A r \in newest : CreatedAt[r] <= CreatedAt[run.id]

(* A command that begins ends: the loop over the jobs makes progress. *)
CommandEnds == phase # "idle" ~> phase = "idle"

(* tests/test_ingestion.py, test_ingest_latest_failure_saves_one_fixture_   *)
(* per_failed_job: exit code 0 means a fixture for every failed job of the  *)
(* run, where it is as it was when it was listed.                           *)
OneFixturePerFailedJob ==
  code = 0 /\ runs[run.id] = [attempt |-> run.attempt, status |-> "failure"] =>
    \A j \in JobsNow(run.id) \cap FailedJobs : log[j] = Complete

=============================================================================
