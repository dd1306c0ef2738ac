----------------------------- MODULE IatiImport -----------------------------
(***************************************************************************)
(* A scheduled import of an IATI file (akvo/rsr/models/iati_import.py and   *)
(* iati_import_job.py).  The command iati_import reads the enabled imports  *)
(* once, then goes through them with check_execution, so the copy of the    *)
(* row it works on may be hours old.  Every save writes the whole row.      *)
(*                                                                          *)
(* One import is modelled, with the jobs it has and the processes that run  *)
(* the command.                                                             *)
(***************************************************************************)
EXTENDS Naturals, FiniteSets

CONSTANTS
    Process,    \* processes that may run the command
    Job,        \* rows IatiImportJob may hold
    NoJob,
    MaxTime,    \* bound of the clock
    NoTime,     \* the null next_execution
    MaxCrashes  \* bound: how often a process may be killed

ASSUME ImportAssumption ==
    /\ IsFiniteSet(Job)
    /\ NoJob \notin Job
    /\ MaxTime \in Nat
    /\ NoTime \notin Nat
    /\ MaxCrashes \in Nat

VARIABLES
    now,         \* the clock, in units of the import's frequency
    import,      \* the row: enabled, frequency (is one set?), next_execution, running
    jobStatus,   \* IatiImportJob.status, "none" before the row exists
    step,        \* where a process is
    self,        \* its copy of the import
    job,         \* the job it executes
    crashes,     \* number of killed processes
    ended,       \* history: jobs whose execution raised or was killed
    form,        \* the row as a save in the admin read it, while that save goes on
    putBack      \* history: a save in the admin wrote an old "running" back

rows == <<import, jobStatus>>
locals == <<step, self, job>>
desk == <<form, putBack>>
vars == <<now, rows, locals, crashes, ended, desk>>

Time == 0 .. MaxTime + 1
Import == [enabled : BOOLEAN, frequency : BOOLEAN, running : BOOLEAN,
           next_execution : Time \cup {NoTime}]
Step == {"idle", "check", "mark", "schedule", "create", "retrieve", "import",
         "save", "finally"}
JobStatus == {"none", "pending", "retrieving", "completed", "cancelled", "no changes"}

TypeOK ==
    /\ now \in 0 .. MaxTime
    /\ import \in Import
    /\ jobStatus \in [Job -> JobStatus]
    /\ step \in [Process -> Step]
    /\ self \in [Process -> Import]
    /\ job \in [Process -> Job \cup {NoJob}]
    /\ crashes \in 0 .. MaxCrashes
    /\ ended \in SUBSET Job
    /\ form \in SUBSET Import
    /\ putBack \in BOOLEAN

PendingJobs == {j \in Job : jobStatus[j] = "pending"}
NewJobs == {j \in Job : jobStatus[j] = "none"}

\* it_is_time_to_execute.  run_immediately never holds here: save clears it
\* and moves next_execution instead.
IsDue(i) == i.enabled /\ i.next_execution # NoTime /\ i.next_execution < now

\* IatiImport.save: what becomes of next_execution.
NextExecution(frequency, next, runImmediately) ==
    IF runImmediately \/ (frequency /\ next = NoTime) THEN now ELSE next

-----------------------------------------------------------------------------
Unscheduled == [enabled |-> FALSE, frequency |-> FALSE, running |-> FALSE,
                next_execution |-> NoTime]

Init ==
    /\ now = 0
    /\ import = Unscheduled
    /\ jobStatus = [j \in Job |-> "none"]
    /\ step = [p \in Process |-> "idle"]
    /\ self = [p \in Process |-> Unscheduled]
    /\ job = [p \in Process |-> NoJob]
    /\ crashes = 0
    /\ ended = {}
    /\ form = {}
    /\ putBack = FALSE

Tick ==
    /\ now < MaxTime
    /\ now' = now + 1
    /\ UNCHANGED <<rows, locals, crashes, ended, desk>>

(* The admin.                                                               *)

\* The view reads the row, sets the fields of the form in it (next_execution and
\* running are read-only) and later saves all of it: processes may have written the
\* row in between.  Bound: one such save at a time.
OpenForm ==
    /\ form = {}
    /\ form' = {import}
    /\ UNCHANGED <<now, rows, locals, crashes, ended, putBack>>

SaveForm(i, enabled, frequency, runImmediately) ==
    /\ import' = [i EXCEPT
           !.enabled = enabled,
           !.frequency = frequency,
           !.next_execution = NextExecution(frequency, @, runImmediately)]
    /\ form' = form \ {i}
    /\ putBack' = (putBack \/ i.running # import.running)
    /\ UNCHANGED <<now, jobStatus, locals, crashes, ended>>

\* A job with an uploaded file.  IatiImportJobAdmin.save_model then sets
\* run_immediately on an import it does not save, so the import stays as it was.
UploadJob(j) ==
    /\ jobStatus[j] = "none"
    /\ jobStatus' = [jobStatus EXCEPT ![j] = "pending"]
    /\ UNCHANGED <<now, import, locals, crashes, ended, desk>>

(* The command.                                                             *)

Go(p, s) == step' = [step EXCEPT ![p] = s]

\* Mutated form of StartCommand: an import that is marked as running is skipped.
StartCommandUnlessRunning(p) ==
    /\ step[p] = "idle"
    /\ import.enabled /\ ~import.running
    /\ self' = [self EXCEPT ![p] = import]
    /\ Go(p, "check")
    /\ UNCHANGED <<now, rows, job, crashes, ended, desk>>

StartCommand(p) ==
    /\ step[p] = "idle"
    /\ import.enabled
    /\ self' = [self EXCEPT ![p] = import]
    /\ Go(p, "check")
    /\ UNCHANGED <<now, rows, job, crashes, ended, desk>>

\* check_execution.  Two pending jobs are an error, a single one is the job of
\* this execution, and without any execute_import creates one.
CheckExecution(p) ==
    /\ step[p] = "check"
    /\ \/ /\ Cardinality(PendingJobs) <= 1
          /\ IsDue(self[p])
          /\ job' = [job EXCEPT ![p] =
                 IF PendingJobs = {} THEN NoJob ELSE CHOOSE j \in PendingJobs : TRUE]
          /\ Go(p, "mark")
       \/ /\ Cardinality(PendingJobs) > 1 \/ ~IsDue(self[p])
          /\ Go(p, "idle")
          /\ UNCHANGED job
    /\ UNCHANGED <<now, rows, self, crashes, ended, desk>>

\* execute_import writes its copy of the row, with what it has changed so far.
SaveSelf(p, i) ==
    /\ self' = [self EXCEPT ![p] = i]
    /\ import' = i
    /\ putBack' = FALSE
    /\ UNCHANGED form

MarkRunning(p) ==
    /\ step[p] = "mark"
    /\ SaveSelf(p, [self[p] EXCEPT !.running = TRUE])
    /\ Go(p, "schedule")
    /\ UNCHANGED <<now, jobStatus, job, crashes, ended>>

\* set_next_execution, before the job runs: missed executions are made up for.
SetNextExecution(p) ==
    /\ step[p] = "schedule"
    /\ SaveSelf(p, [self[p] EXCEPT !.next_execution =
           IF self[p].frequency THEN @ + 1 ELSE NoTime])
    /\ Go(p, IF job[p] = NoJob THEN "create" ELSE "retrieve")
    /\ UNCHANGED <<now, jobStatus, job, crashes, ended>>

CreateJob(p) ==
    /\ step[p] = "create"
    /\ \E j \in NewJobs :
          /\ jobStatus' = [jobStatus EXCEPT ![j] = "pending"]
          /\ job' = [job EXCEPT ![p] = j]
    /\ Go(p, "retrieve")
    /\ UNCHANGED <<now, import, self, crashes, ended, desk>>

\* fetch_file or is_new_file saves the job with the status it has in memory.
RetrieveFile(p) ==
    /\ step[p] = "retrieve"
    /\ jobStatus' = [jobStatus EXCEPT ![job[p]] = "retrieving"]
    /\ Go(p, "import")
    /\ UNCHANGED <<now, import, self, job, crashes, ended, desk>>

\* Mutated forms of FinishJob: the final job.save is missing, or a job is saved
\* with the status it has while its activities are imported.
FinishJobUnsaved(p) ==
    /\ step[p] \in {"retrieve", "import"}
    /\ Go(p, "finally")
    /\ UNCHANGED <<now, rows, self, job, crashes, ended, desk>>

FinishJobInProgress(p) ==
    /\ step[p] = "import"
    /\ jobStatus' = [jobStatus EXCEPT ![job[p]] = "in progress"]
    /\ Go(p, "finally")
    /\ UNCHANGED <<now, import, self, job, crashes, ended, desk>>

\* The rest of run and job.save: the file is missing, unchanged or not usable, or
\* its activities are imported, each in a transaction of its own.
FinishJob(p) ==
    /\ \/ /\ step[p] = "retrieve"
          /\ jobStatus' = [jobStatus EXCEPT ![job[p]] = "cancelled"]
       \/ /\ step[p] = "import"
          /\ \E s \in {"completed", "cancelled", "no changes"} :
                jobStatus' = [jobStatus EXCEPT ![job[p]] = s]
    /\ Go(p, "finally")
    /\ UNCHANGED <<now, import, self, job, crashes, ended, desk>>

\* Mutated form of Raise: there is no finally block.
RaiseThrough(p) ==
    /\ step[p] \in {"create", "retrieve", "import"}
    /\ ended' = ended \cup ({job[p]} \ {NoJob})
    /\ job' = [job EXCEPT ![p] = NoJob]
    /\ Go(p, "idle")
    /\ UNCHANGED <<now, rows, self, crashes, desk>>

\* Anything raises: the job is not saved, the finally block is executed.
Raise(p) ==
    /\ step[p] \in {"create", "retrieve", "import"}
    /\ ended' = ended \cup ({job[p]} \ {NoJob})
    /\ Go(p, "finally")
    /\ UNCHANGED <<now, rows, self, job, crashes, desk>>

ClearRunning(p) ==
    /\ step[p] = "finally"
    /\ SaveSelf(p, [self[p] EXCEPT !.running = FALSE])
    /\ job' = [job EXCEPT ![p] = NoJob]
    /\ Go(p, "idle")
    /\ UNCHANGED <<now, jobStatus, crashes, ended>>

\* The process is killed.
Crash(p) ==
    /\ step[p] # "idle"
    /\ crashes < MaxCrashes
    /\ crashes' = crashes + 1
    /\ ended' = ended \cup ({job[p]} \ {NoJob})
    /\ job' = [job EXCEPT ![p] = NoJob]
    /\ Go(p, "idle")
    /\ UNCHANGED <<now, rows, self, desk>>

Execution(p) ==
    \/ CheckExecution(p) \/ MarkRunning(p) \/ SetNextExecution(p) \/ CreateJob(p)
    \/ RetrieveFile(p) \/ FinishJob(p) \/ Raise(p) \/ ClearRunning(p)

Next ==
    \/ Tick
    \/ \E enabled, frequency, runImmediately \in BOOLEAN :
          \E i \in form : SaveForm(i, enabled, frequency, runImmediately)
    \/ OpenForm
    \/ \E j \in Job : UploadJob(j)
    \/ \E p \in Process : StartCommand(p) \/ Execution(p) \/ Crash(p)

Spec == Init /\ [][Next]_vars

\* The command is started again and again, and a process keeps running.
Fairness == \A p \in Process : WF_vars(StartCommand(p)) /\ WF_vars(Execution(p))
FairSpec == Spec /\ Fairness

-----------------------------------------------------------------------------
(* Properties.                                                              *)

Executing(p) == step[p] \in {"schedule", "create", "retrieve", "import", "finally"}

\* With one process, running tells whether the import executes, whatever raises:
\* it is wrong only after a process was killed, or as long as the last to write the
\* row was a save in the admin that put back the value it had read.
RunningShown ==
    /\ \A p \in Process : Executing(p) => import.running \/ putBack
    /\ import.running => putBack \/ crashes > 0 \/ \E p \in Process : Executing(p)

\* A job that says it is retrieving its file is being executed, or its execution
\* raised or was killed: such a job is never taken up again.
RetrievingIsExecuted ==
    \A j \in Job : jobStatus[j] = "retrieving" =>
        j \in ended \/ \E p \in Process : job[p] = j /\ Executing(p)

\* An enabled import whose time has come gets another time, so it is executed or
\* run by the admin, unless it is disabled or more than one job is pending.  A
\* killed process and a raising job do not block the schedule.
DueRuns ==
    \A n \in Time :
        (/\ import.enabled
         /\ import.next_execution = n
         /\ n < now
         /\ Cardinality(PendingJobs) <= 1)
        ~> (\/ ~import.enabled
            \/ import.next_execution # n
            \/ Cardinality(PendingJobs) > 1)
=============================================================================
