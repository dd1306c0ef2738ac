----------------------------- MODULE IatiProofs -----------------------------
(* Proofs about IatiImport and IatiExport, each on its own, for every set of *)
(* processes, jobs, exports, organisations and runs.                        *)
EXTENDS IatiImport, IatiExport, WellFoundedInduction, TLAPS

(***************************************************************************)
(* The import job.                                                          *)
(***************************************************************************)

\* A process that is going to set the next execution has read a time that has passed.
DueRead ==
    \A p \in Process : step[p] \in {"mark", "schedule"} =>
        /\ self[p].next_execution \in Nat
        /\ self[p].next_execution < now

ImportTypeInv == TypeOK /\ DueRead

\* How a process writes the row.
LEMMA SaveSelfType ==
    ASSUME TypeOK, NEW p \in Process, NEW i \in Import, SaveSelf(p, i)
    PROVE  /\ import' \in Import
           /\ self' \in [Process -> Import]
           /\ form' \in SUBSET Import /\ putBack' \in BOOLEAN
           /\ self'[p] = i
           /\ \A q \in Process : q # p => self'[q] = self[q]
BY DEF SaveSelf, TypeOK

\* No step leaves the types.
LEMMA ImportTypeStep == ImportTypeInv /\ [Next]_vars => ImportTypeInv'
<1> SUFFICES ASSUME ImportTypeInv, [Next]_vars
             PROVE  ImportTypeInv'
  OBVIOUS
<1> USE ImportAssumption DEF ImportTypeInv
<1>1. /\ now \in Nat /\ now <= MaxTime
      /\ import \in Import /\ jobStatus \in [Job -> JobStatus]
      /\ step \in [Process -> Step] /\ self \in [Process -> Import]
      /\ job \in [Process -> Job \cup {NoJob}]
      /\ crashes \in 0 .. MaxCrashes /\ ended \in SUBSET Job
      /\ form \in SUBSET Import /\ putBack \in BOOLEAN
  BY DEF TypeOK
<1>2. CASE Tick
  <2>1. now' \in 0 .. MaxTime /\ now < now'
    BY <1>1, <1>2 DEF Tick
  <2>2. TypeOK'
    BY <1>1, <1>2, <2>1 DEF Tick, TypeOK, rows, locals, desk
  <2>3. DueRead'
    BY <1>1, <1>2, <2>1 DEF Tick, DueRead, locals
  <2>4. QED
    BY <2>2, <2>3
<1>3. ASSUME NEW i \in form, NEW enabled \in BOOLEAN, NEW frequency \in BOOLEAN,
             NEW runImmediately \in BOOLEAN,
             SaveForm(i, enabled, frequency, runImmediately)
      PROVE  ImportTypeInv'
  <2>1. i \in Import
    BY <1>1
  <2>2. NextExecution(frequency, i.next_execution, runImmediately)
            \in Time \cup {NoTime}
    BY <1>1, <2>1 DEF NextExecution, Time, Import
  <2>3. import' \in Import
    BY <1>3, <2>1, <2>2 DEF SaveForm, Import
  <2>4. form' \in SUBSET Import /\ putBack' \in BOOLEAN
    BY <1>1, <1>3 DEF SaveForm
  <2>5. TypeOK'
    BY <1>1, <1>3, <2>3, <2>4 DEF SaveForm, TypeOK, locals
  <2>6. DueRead'
    BY <1>1, <1>3 DEF SaveForm, DueRead, locals
  <2>7. QED
    BY <2>5, <2>6
<1>o. CASE OpenForm
  <2>1. form' \in SUBSET Import /\ UNCHANGED <<now, rows, locals, crashes, ended, putBack>>
    BY <1>1, <1>o DEF OpenForm
  <2>2. QED
    BY <1>1, <2>1 DEF TypeOK, DueRead, rows, locals
<1>4. ASSUME NEW j \in Job, UploadJob(j)
      PROVE  ImportTypeInv'
  <2>1. TypeOK'
    BY <1>1, <1>4 DEF UploadJob, TypeOK, JobStatus, locals, desk
  <2>2. DueRead'
    BY <1>1, <1>4 DEF UploadJob, DueRead, locals
  <2>3. QED
    BY <2>1, <2>2
<1>5. ASSUME NEW p \in Process, StartCommand(p)
      PROVE  ImportTypeInv'
  <2>1. TypeOK'
    BY <1>1, <1>5 DEF StartCommand, Go, TypeOK, Step, rows, desk
  <2>2. DueRead'
    BY <1>1, <1>5 DEF StartCommand, Go, DueRead
  <2>3. QED
    BY <2>1, <2>2
<1>6. ASSUME NEW p \in Process, CheckExecution(p)
      PROVE  ImportTypeInv'
  <2>1. (CHOOSE j \in PendingJobs : TRUE) \in Job \/ PendingJobs = {}
    BY DEF PendingJobs
  <2>2. job' \in [Process -> Job \cup {NoJob}]
    BY <1>1, <1>6, <2>1 DEF CheckExecution
  <2>3. TypeOK'
    BY <1>1, <1>6, <2>2 DEF CheckExecution, Go, TypeOK, Step, rows, desk
  <2>4. IsDue(self[p]) => self[p].next_execution \in Nat /\ self[p].next_execution < now
    BY <1>1 DEF IsDue, Import, Time
  <2>5. DueRead'
    BY <1>1, <1>6, <2>4 DEF CheckExecution, Go, DueRead
  <2>6. QED
    BY <2>3, <2>5
<1>7. ASSUME NEW p \in Process, MarkRunning(p)
      PROVE  ImportTypeInv'
  <2> DEFINE i == [self[p] EXCEPT !.running = TRUE]
  <2>1. i \in Import /\ i.next_execution = self[p].next_execution
    BY <1>1 DEF Import
  <2>2. SaveSelf(p, i)
    BY <1>7 DEF MarkRunning
  <2> HIDE DEF i
  <2>3. TypeOK'
    BY <1>1, <1>7, <2>1, <2>2, SaveSelfType DEF MarkRunning, Go, TypeOK, Step
  <2>4. DueRead'
    BY <1>1, <1>7, <2>1, <2>2, SaveSelfType DEF MarkRunning, Go, DueRead
  <2>5. QED
    BY <2>3, <2>4
<1>8. ASSUME NEW p \in Process, SetNextExecution(p)
      PROVE  ImportTypeInv'
  <2> DEFINE next == IF self[p].frequency THEN self[p].next_execution + 1 ELSE NoTime
             i == [self[p] EXCEPT !.next_execution = next]
  <2>1. next \in Time \cup {NoTime}
    BY <1>1, <1>8 DEF SetNextExecution, DueRead, Time
  <2> HIDE DEF next
  <2>2. i \in Import
    BY <1>1, <2>1 DEF Import
  <2>3. SaveSelf(p, i)
    BY <1>8 DEF SetNextExecution, next
  <2> HIDE DEF i
  <2>4. TypeOK'
    BY <1>1, <1>8, <2>2, <2>3, SaveSelfType DEF SetNextExecution, Go, TypeOK, Step
  <2>5. DueRead'
    BY <1>1, <1>8, <2>2, <2>3, SaveSelfType DEF SetNextExecution, Go, DueRead
  <2>6. QED
    BY <2>4, <2>5
<1>9. ASSUME NEW p \in Process,
             CreateJob(p) \/ RetrieveFile(p) \/ FinishJob(p) \/ Raise(p) \/ Crash(p)
      PROVE  ImportTypeInv'
  <2>1. jobStatus' \in [Job -> JobStatus]
    BY <1>1, <1>9 DEF CreateJob, RetrieveFile, FinishJob, Raise, Crash, rows, JobStatus
  <2>2. job' \in [Process -> Job \cup {NoJob}]
    BY <1>1, <1>9 DEF CreateJob, RetrieveFile, FinishJob, Raise, Crash, NewJobs
  <2>3. crashes' \in 0 .. MaxCrashes /\ ended' \in SUBSET Job
    <3>1. CASE Crash(p)
      <4>1. crashes \in Nat /\ crashes < MaxCrashes /\ crashes' = crashes + 1
        BY <1>1, <3>1 DEF Crash
      <4>2. crashes' \in 0 .. MaxCrashes
        BY <4>1
      <4>3. ended' \in SUBSET Job
        BY <1>1, <3>1 DEF Crash
      <4>4. QED
        BY <4>2, <4>3
    <3>2. CASE Raise(p)
      BY <1>1, <3>2 DEF Raise
    <3>3. QED
      BY <1>1, <1>9, <3>1, <3>2 DEF CreateJob, RetrieveFile, FinishJob
  <2>4. PICK s \in {"retrieve", "import", "finally", "idle"} : Go(p, s)
    BY <1>9 DEF CreateJob, RetrieveFile, FinishJob, Raise, Crash
  <2>5. UNCHANGED <<now, import, self, form, putBack>>
    BY <1>9 DEF CreateJob, RetrieveFile, FinishJob, Raise, Crash, rows, desk
  <2>6. TypeOK'
    BY <1>1, <2>1, <2>2, <2>3, <2>4, <2>5 DEF Go, TypeOK, Step
  <2>7. DueRead'
    BY <1>1, <2>4, <2>5 DEF Go, DueRead
  <2>8. QED
    BY <2>6, <2>7
<1>10. ASSUME NEW p \in Process, ClearRunning(p)
       PROVE  ImportTypeInv'
  <2> DEFINE i == [self[p] EXCEPT !.running = FALSE]
  <2>1. i \in Import
    BY <1>1 DEF Import
  <2>2. SaveSelf(p, i)
    BY <1>10 DEF ClearRunning
  <2> HIDE DEF i
  <2>3. TypeOK'
    BY <1>1, <1>10, <2>1, <2>2, SaveSelfType DEF ClearRunning, Go, TypeOK, Step
  <2>4. DueRead'
    BY <1>1, <1>10, <2>1, <2>2, SaveSelfType DEF ClearRunning, Go, DueRead
  <2>5. QED
    BY <2>3, <2>4
<1>11. CASE UNCHANGED vars
  <2>1. TypeOK'
    BY <1>11 DEF TypeOK, vars, rows, locals, desk
  <2>2. DueRead'
    BY <1>11 DEF DueRead, vars, rows, locals
  <2>3. QED
    BY <2>1, <2>2
<1>12. QED
  BY <1>2, <1>3, <1>o, <1>4, <1>5, <1>6, <1>7, <1>8, <1>9, <1>10, <1>11 DEF Next, Execution

\* The initial states are of their types.
LEMMA ImportTypeInit == Init => ImportTypeInv
<1> SUFFICES ASSUME Init PROVE ImportTypeInv
  OBVIOUS
<1>1. Unscheduled \in Import
  BY DEF Unscheduled, Import
<1>2. now \in 0 .. MaxTime /\ crashes \in 0 .. MaxCrashes
  BY ImportAssumption DEF Init
<1>3. TypeOK
  BY <1>1, <1>2 DEF Init, TypeOK, JobStatus, Step
<1>4. DueRead
  BY DEF Init, DueRead
<1>5. QED
  BY <1>3, <1>4 DEF ImportTypeInv

\* The schedule stays within the clock, however many processes work on old copies
\* of the row: a next execution is set only from one whose time has passed.
THEOREM ImportTypes == Spec => []TypeOK
<1>1. Init => ImportTypeInv
  BY ImportTypeInit
<1>2. ImportTypeInv /\ [Next]_vars => ImportTypeInv'
  BY ImportTypeStep
<1>3. ImportTypeInv => TypeOK
  BY DEF ImportTypeInv
<1>4. QED
  BY <1>1, <1>2, <1>3, PTL DEF Spec

(* Jobs -----------------------------------------------------------------------*)

\* The strengthening of RetrievingIsExecuted: whoever retrieves has not got to the
\* finally block.  There the job of a process may be retrieved by another one.
Retrieving ==
    \A j \in Job : jobStatus[j] = "retrieving" =>
        j \in ended \/ \E p \in Process : job[p] = j /\ step[p] = "import"

\* A job leaves retrieving with its process, or by an exception.
LEMMA RetrievingStep == TypeOK /\ Retrieving /\ [Next]_vars => Retrieving'
<1> SUFFICES ASSUME TypeOK, Retrieving, [Next]_vars,
                    NEW j \in Job, jobStatus'[j] = "retrieving"
             PROVE  j \in ended' \/ \E p \in Process : job'[p] = j /\ step'[p] = "import"
  BY DEF Retrieving
<1> USE ImportAssumption
<1>1. /\ jobStatus \in [Job -> JobStatus] /\ step \in [Process -> Step]
      /\ job \in [Process -> Job \cup {NoJob}]
  BY DEF TypeOK
<1>2. jobStatus[j] = "retrieving" =>
          j \in ended \/ \E p \in Process : job[p] = j /\ step[p] = "import"
  BY DEF Retrieving
<1>3. CASE UNCHANGED <<jobStatus, job, step, ended>>
  BY <1>2, <1>3
<1>4. ASSUME NEW i \in Job, UploadJob(i)
      PROVE  j \in ended' \/ \E p \in Process : job'[p] = j /\ step'[p] = "import"
  BY <1>1, <1>2, <1>4 DEF UploadJob, locals
<1>5. ASSUME NEW p \in Process,
             StartCommand(p) \/ CheckExecution(p) \/ MarkRunning(p)
                \/ SetNextExecution(p) \/ ClearRunning(p)
      PROVE  j \in ended' \/ \E q \in Process : job'[q] = j /\ step'[q] = "import"
  <2>1. step[p] # "import" /\ jobStatus' = jobStatus /\ ended' = ended
    BY <1>5 DEF StartCommand, CheckExecution, MarkRunning, SetNextExecution,
       ClearRunning, rows
  <2>2. \A q \in Process : q # p => job'[q] = job[q] /\ step'[q] = step[q]
    BY <1>1, <1>5 DEF StartCommand, CheckExecution, MarkRunning, SetNextExecution,
       ClearRunning, Go
  <2>3. QED
    BY <1>2, <2>1, <2>2
<1>6. ASSUME NEW p \in Process, CreateJob(p)
      PROVE  j \in ended' \/ \E q \in Process : job'[q] = j /\ step'[q] = "import"
  <2>1. step[p] # "import" /\ jobStatus[j] = "retrieving" /\ ended' = ended
    BY <1>1, <1>6 DEF CreateJob, NewJobs
  <2>2. \A q \in Process : q # p => job'[q] = job[q] /\ step'[q] = step[q]
    BY <1>1, <1>6 DEF CreateJob, Go
  <2>3. QED
    BY <1>2, <2>1, <2>2
<1>7. ASSUME NEW p \in Process, RetrieveFile(p)
      PROVE  j \in ended' \/ \E q \in Process : job'[q] = j /\ step'[q] = "import"
  <2>1. step' = [step EXCEPT ![p] = "import"] /\ job' = job /\ ended' = ended
    BY <1>7 DEF RetrieveFile, Go
  <2>2. CASE job[p] = j
    BY <1>1, <2>1, <2>2
  <2>3. CASE job[p] # j
    <3>1. jobStatus[j] = "retrieving"
      BY <1>1, <1>7, <2>3 DEF RetrieveFile
    <3>2. QED
      BY <1>1, <1>2, <2>1, <3>1
  <2>4. QED
    BY <2>2, <2>3
<1>8. ASSUME NEW p \in Process, FinishJob(p)
      PROVE  j \in ended' \/ \E q \in Process : job'[q] = j /\ step'[q] = "import"
  <2>1. PICK s \in {"completed", "cancelled", "no changes"} :
            jobStatus' = [jobStatus EXCEPT ![job[p]] = s]
    BY <1>8 DEF FinishJob
  <2>2. job[p] # j /\ jobStatus[j] = "retrieving"
    BY <1>1, <2>1
  <2>3. step' = [step EXCEPT ![p] = "finally"] /\ job' = job /\ ended' = ended
    BY <1>8 DEF FinishJob, Go
  <2>4. QED
    BY <1>1, <1>2, <2>2, <2>3
<1>9. ASSUME NEW p \in Process, Raise(p) \/ Crash(p)
      PROVE  j \in ended' \/ \E q \in Process : job'[q] = j /\ step'[q] = "import"
  <2>1. jobStatus' = jobStatus /\ ended' = ended \cup ({job[p]} \ {NoJob})
    BY <1>9 DEF Raise, Crash, rows
  <2>2. \A q \in Process : q # p => job'[q] = job[q] /\ step'[q] = step[q]
    BY <1>1, <1>9 DEF Raise, Crash, Go
  <2>3. CASE job[p] = j
    BY <2>1, <2>3
  <2>4. CASE job[p] # j
    BY <1>2, <2>1, <2>2, <2>4
  <2>5. QED
    BY <2>3, <2>4
<1>10. QED
  BY <1>3, <1>4, <1>5, <1>6, <1>7, <1>8, <1>9 DEF Next, Execution, vars, rows, locals,
     Tick, OpenForm, SaveForm

\* A job is left saying that it retrieves its file only by an exception or a killed
\* process, even if processes share a job.
THEOREM RetrievingInvariant == Spec => []RetrievingIsExecuted
<1> DEFINE Inv == ImportTypeInv /\ Retrieving
<1>1. Init => Inv
  BY ImportTypeInit DEF Init, Retrieving
<1>2. Inv /\ [Next]_vars => Inv'
  BY ImportTypeStep, RetrievingStep DEF ImportTypeInv
<1>3. Inv => RetrievingIsExecuted
  BY DEF Retrieving, RetrievingIsExecuted, Executing
<1> HIDE DEF Inv
<1>4. QED
  BY <1>1, <1>2, <1>3, PTL DEF Spec

(* running --------------------------------------------------------------------*)

\* What a process writes while it executes says that the import is running.
RunningWritten ==
    /\ \A p \in Process : Executing(p) => self[p].running
    /\ import.running => putBack \/ crashes > 0 \/ \E p \in Process : Executing(p)

\* A process that executes keeps running set in its copy of the row and writes
\* it.
LEMMA RunningStep == TypeOK /\ RunningWritten /\ [Next]_vars => RunningWritten'
<1> SUFFICES ASSUME TypeOK, RunningWritten, [Next]_vars
             PROVE  RunningWritten'
  OBVIOUS
<1> USE ImportAssumption
<1>1. /\ step \in [Process -> Step] /\ self \in [Process -> Import]
      /\ import \in Import /\ crashes \in Nat
  BY DEF TypeOK
<1>2. /\ \A p \in Process : Executing(p) => self[p].running
      /\ import.running => putBack \/ crashes > 0 \/ \E p \in Process : Executing(p)
  BY DEF RunningWritten
<1>3. CASE UNCHANGED <<self, import, step, crashes, putBack>>
  BY <1>2, <1>3 DEF RunningWritten, Executing
<1>4. ASSUME NEW i \in form, NEW enabled \in BOOLEAN, NEW frequency \in BOOLEAN,
             NEW runImmediately \in BOOLEAN,
             SaveForm(i, enabled, frequency, runImmediately)
      PROVE  RunningWritten'
  <2>1. i \in Import
    BY DEF TypeOK
  <2>2. import'.running = i.running
    BY <1>4, <2>1 DEF SaveForm, Import
  <2>3. putBack' = (putBack \/ i.running # import.running)
    BY <1>4 DEF SaveForm
  <2>4. UNCHANGED <<self, step, crashes>>
    BY <1>4 DEF SaveForm, locals
  <2>5. QED
    BY <1>2, <2>2, <2>3, <2>4 DEF RunningWritten, Executing
<1>5. ASSUME NEW p \in Process, StartCommand(p) \/ CheckExecution(p)
      PROVE  RunningWritten'
  <2>1. ~Executing(p) /\ ~Executing(p)'
    BY <1>1, <1>5 DEF StartCommand, CheckExecution, Go, Executing
  <2>2. \A q \in Process : q # p => self'[q] = self[q] /\ step'[q] = step[q]
    BY <1>1, <1>5 DEF StartCommand, CheckExecution, Go
  <2>3. UNCHANGED <<import, crashes, putBack>>
    BY <1>5 DEF StartCommand, CheckExecution, rows, desk
  <2>4. QED
    BY <1>2, <2>1, <2>2, <2>3 DEF RunningWritten, Executing
<1>6. ASSUME NEW p \in Process, MarkRunning(p) \/ SetNextExecution(p)
      PROVE  RunningWritten'
  <2>1. self'[p].running /\ Executing(p)'
    <3>1. CASE MarkRunning(p)
      BY <1>1, <3>1 DEF MarkRunning, SaveSelf, Go, Executing, Import
    <3>2. CASE SetNextExecution(p)
      <4>1. self[p].running
        BY <1>2, <3>2 DEF SetNextExecution, Executing
      <4>2. self'[p].running = self[p].running
        BY <1>1, <3>2 DEF SetNextExecution, SaveSelf, Import
      <4>3. step'[p] \in {"create", "retrieve"}
        BY <1>1, <3>2 DEF SetNextExecution, Go
      <4>4. QED
        BY <4>1, <4>2, <4>3 DEF Executing
    <3>3. QED
      BY <1>6, <3>1, <3>2
  <2>2. \A q \in Process : q # p => self'[q] = self[q] /\ step'[q] = step[q]
    BY <1>1, <1>6 DEF MarkRunning, SetNextExecution, SaveSelf, Go
  <2>3. QED
    BY <1>2, <2>1, <2>2 DEF RunningWritten, Executing
<1>7. ASSUME NEW p \in Process,
             CreateJob(p) \/ RetrieveFile(p) \/ FinishJob(p) \/ Raise(p)
      PROVE  RunningWritten'
  <2>1. Executing(p) /\ Executing(p)'
    BY <1>1, <1>7 DEF CreateJob, RetrieveFile, FinishJob, Raise, Go, Executing
  <2>2. \A q \in Process : q # p => step'[q] = step[q]
    BY <1>1, <1>7 DEF CreateJob, RetrieveFile, FinishJob, Raise, Go
  <2>3. UNCHANGED <<self, import, crashes, putBack>>
    BY <1>7 DEF CreateJob, RetrieveFile, FinishJob, Raise, rows, desk
  <2>4. QED
    BY <1>2, <2>1, <2>2, <2>3 DEF RunningWritten, Executing
<1>8. ASSUME NEW p \in Process, ClearRunning(p)
      PROVE  RunningWritten'
  <2>1. ~Executing(p)' /\ ~import'.running
    BY <1>1, <1>8 DEF ClearRunning, SaveSelf, Go, Executing, Import
  <2>2. \A q \in Process : q # p => self'[q] = self[q] /\ step'[q] = step[q]
    BY <1>1, <1>8 DEF ClearRunning, SaveSelf, Go
  <2>3. QED
    BY <1>2, <2>1, <2>2 DEF RunningWritten, Executing
<1>9. ASSUME NEW p \in Process, Crash(p)
      PROVE  RunningWritten'
  <2>1. crashes' > 0 /\ ~Executing(p)' /\ self' = self
    BY <1>1, <1>9 DEF Crash, Go, Executing
  <2>2. \A q \in Process : q # p => step'[q] = step[q]
    BY <1>1, <1>9 DEF Crash, Go
  <2>3. QED
    BY <1>2, <2>1, <2>2 DEF RunningWritten, Executing
<1>10. QED
  BY <1>3, <1>4, <1>5, <1>6, <1>7, <1>8, <1>9 DEF Next, Execution, vars, rows, locals,
     desk, Tick, UploadJob, OpenForm

\* However many processes run the command, an import that says it is running and
\* is not was left by a killed process, or by a save in the admin that put back the
\* flag it had read and that no process has written over since.
THEOREM RunningIsExecuting ==
    Spec => [](import.running =>
                   putBack \/ crashes > 0 \/ \E p \in Process : Executing(p))
<1> DEFINE Inv == ImportTypeInv /\ RunningWritten
<1>1. Init => Inv
  BY ImportTypeInit DEF Init, Unscheduled, RunningWritten, Executing
<1>2. Inv /\ [Next]_vars => Inv'
  BY ImportTypeStep, RunningStep DEF ImportTypeInv
<1>3. Inv => (import.running =>
                  putBack \/ crashes > 0 \/ \E p \in Process : Executing(p))
  BY DEF RunningWritten
<1> HIDE DEF Inv
<1>4. QED
  BY <1>1, <1>2, <1>3, PTL DEF Spec

\* A lone process clears the flag only when it ends, so that an import that executes
\* says so, unless a save in the admin has put an old flag back.
LEMMA LoneExecution ==
    ASSUME NEW p, Process = {p}, TypeOK, RunningWritten,
           Executing(p) => import.running \/ putBack, [Next]_vars
    PROVE  Executing(p)' => import'.running \/ putBack'
<1> SUFFICES ASSUME Executing(p)'
             PROVE  import'.running \/ putBack'
  OBVIOUS
<1>1. /\ step \in [Process -> Step] /\ self \in [Process -> Import] /\ import \in Import
      /\ Executing(p) => self[p].running
  BY DEF TypeOK, RunningWritten
<1>2. CASE UNCHANGED <<import, step, putBack>>
  BY <1>2 DEF Executing
<1>3. ASSUME NEW i \in form, NEW enabled \in BOOLEAN, NEW frequency \in BOOLEAN,
             NEW runImmediately \in BOOLEAN,
             SaveForm(i, enabled, frequency, runImmediately)
      PROVE  import'.running \/ putBack'
  <2>1. i \in Import
    BY DEF TypeOK
  <2>2. import'.running = i.running
    BY <1>3, <2>1 DEF SaveForm, Import
  <2>3. QED
    BY <1>3, <2>2 DEF SaveForm, locals, Executing
<1>4. CASE StartCommand(p) \/ CheckExecution(p) \/ ClearRunning(p) \/ Crash(p)
  BY <1>1, <1>4 DEF StartCommand, CheckExecution, ClearRunning, Crash, Go, Executing
<1>5. CASE MarkRunning(p)
  BY <1>1, <1>5 DEF MarkRunning, SaveSelf, Import
<1>6. CASE SetNextExecution(p)
  <2>1. self[p].running
    BY <1>1, <1>6 DEF SetNextExecution, Executing
  <2>2. import'.running = self[p].running
    BY <1>1, <1>6 DEF SetNextExecution, SaveSelf, Import
  <2>3. QED
    BY <2>1, <2>2
<1>7. CASE CreateJob(p) \/ RetrieveFile(p) \/ FinishJob(p) \/ Raise(p)
  <2>1. Executing(p) /\ UNCHANGED <<import, putBack>>
    BY <1>7 DEF CreateJob, RetrieveFile, FinishJob, Raise, Executing, rows, desk
  <2>2. QED
    BY <2>1
<1>8. QED
  BY <1>2, <1>3, <1>4, <1>5, <1>6, <1>7 DEF Next, Execution, vars, rows, locals, desk,
     Tick, UploadJob, OpenForm

\* running tells whether the import executes if one process runs the command, as
\* under cron when no run takes longer than the interval, but for a killed process
\* and for a flag that a save in the admin put back.
THEOREM RunningShownInvariant ==
    ASSUME NEW p, Process = {p}
    PROVE  Spec => []RunningShown
<1> DEFINE Inv == ImportTypeInv /\ RunningWritten /\ (Executing(p) => import.running \/ putBack)
<1>1. Init => Inv
  BY ImportTypeInit DEF Init, Unscheduled, RunningWritten, Executing
<1>2. Inv /\ [Next]_vars => Inv'
  BY ImportTypeStep, RunningStep, LoneExecution DEF ImportTypeInv
<1>3. Inv => RunningShown
  BY DEF RunningWritten, RunningShown
<1> HIDE DEF Inv
<1>4. QED
  BY <1>1, <1>2, <1>3, PTL DEF Spec

(***************************************************************************)
(* The exports.                                                             *)
(***************************************************************************)

(* The export a run is at ---------------------------------------------------*)

\* A set of ids that is not empty has a least one.
LEMMA LeastIsLeast ==
    ASSUME NEW S \in SUBSET Nat, S # {}
    PROVE  Least(S) \in S /\ \A x \in S : Least(S) <= x
<1>1. PICK m \in S : \A y \in S : ~(<<y, m>> \in OpToRel(<, Nat))
  BY NatLessThanWellFounded, WFMin
<1>2. \A y \in S : m <= y
  <2>1. SUFFICES ASSUME NEW y \in S, ~(m <= y) PROVE FALSE
    OBVIOUS
  <2>2. y < m
    BY <2>1
  <2>3. <<y, m>> \in Nat \X Nat /\ <<y, m>>[1] < <<y, m>>[2]
    BY <2>2
  <2>4. <<y, m>> \in OpToRel(<, Nat)
    BY <2>3, Zenon DEF OpToRel
  <2>5. QED
    BY <1>1, <2>4, Zenon
<1>3. QED
  BY <1>2 DEF Least

\* The export a run is at is one of its list, and a row that once existed.
LEMMA CurrentInList ==
    ASSUME ExportTypeOK, RunsInHand, NEW r \in Run, stage[r] # "idle"
    PROVE  /\ Current(r) \in todo[r] /\ Current(r) \in Export /\ Current(r) \in Nat
           /\ \A x \in todo[r] : Current(r) <= x
           /\ status[Current(r)] # "none"
<1>1. todo[r] \in SUBSET Export /\ todo[r] # {}
  BY DEF ExportTypeOK, RunsInHand
<1>2. todo[r] \in SUBSET Nat
  BY <1>1, ExportAssumption
<1>3. Current(r) \in todo[r] /\ \A x \in todo[r] : Current(r) <= x
  BY <1>1, <1>2, LeastIsLeast DEF Current
<1>4. QED
  BY <1>1, <1>2, <1>3 DEF RunsInHand

(* Types --------------------------------------------------------------------*)

\* The bound on the number of crashes is kept.
LEMMA KillsBounded ==
    ASSUME ExportTypeOK, NEW r \in Run, KillRun(r)
    PROVE  kills' \in 0 .. MaxKills
<1>1. kills \in 0 .. MaxKills /\ MaxKills \in Nat
  BY ExportAssumption DEF ExportTypeOK
<1>2. kills < MaxKills /\ kills' = kills + 1
  BY DEF KillRun
<1>3. QED
  BY <1>1, <1>2

\* So is the bound on the number of PATCHes, and what a PATCH reads is typed.
LEMMA PatchTypes ==
    ASSUME ExportTypeOK, NEW e \in Export, NEW isLatest \in BOOLEAN,
           ReadPatch(e, isLatest)
    PROVE  patches' \in 0 .. MaxPatches /\ patch' \in SUBSET Patch
<1>1. patches \in 0 .. MaxPatches /\ MaxPatches \in Nat
  BY ExportAssumption DEF ExportTypeOK
<1>2. patches < MaxPatches /\ patches' = patches + 1
  BY DEF ReadPatch
<1>3. patches' \in 0 .. MaxPatches
  BY <1>1, <1>2
<1>4. status[e] \in Status /\ hasFile[e] \in BOOLEAN
  BY DEF ExportTypeOK
<1>5. [export |-> e, status |-> status[e], hasFile |-> hasFile[e],
       latest |-> isLatest, set |-> FALSE] \in Patch
  BY <1>4 DEF Patch
<1>6. patch' \in SUBSET Patch
  BY <1>5 DEF ReadPatch
<1>7. QED
  BY <1>3, <1>6

\* No step leaves the types.
LEMMA ExportTypeStep == ExportTypeOK /\ RunsInHand /\ [ExportNext]_exportVars => ExportTypeOK'
<1> SUFFICES ASSUME ExportTypeOK, RunsInHand, [ExportNext]_exportVars
             PROVE  ExportTypeOK'
  OBVIOUS
<1> USE ExportAssumption DEF ExportTypeOK, Status, Stage
<1>1. ASSUME NEW e \in Export, RequestExport(e)
      PROVE  ExportTypeOK'
  BY <1>1 DEF RequestExport, runs, calls
<1>2. ASSUME NEW e \in Export, DeleteExport(e)
      PROVE  ExportTypeOK'
  BY <1>2 DEF DeleteExport, runs, calls
<1>3. ASSUME NEW e \in Export, NEW isLatest \in BOOLEAN, ReadPatch(e, isLatest)
      PROVE  ExportTypeOK'
  <2>1. UNCHANGED <<exportRows, runs, kills, interrupted, overwritten>>
    BY <1>3 DEF ReadPatch
  <2>2. QED
    BY <1>3, <2>1, PatchTypes DEF exportRows, runs
<1>4. ASSUME NEW p \in patch, SetLatest(p)
      PROVE  ExportTypeOK'
  <2>1. p \in Patch /\ p.export \in Export
    BY DEF Patch
  <2>2. patch' \in SUBSET Patch
    BY <1>4, <2>1 DEF SetLatest, Patch
  <2>3. latest' \in [Export -> BOOLEAN]
    BY <1>4, <2>1 DEF SetLatest
  <2>4. QED
    BY <1>4, <2>2, <2>3 DEF SetLatest, runs
<1>s. ASSUME NEW p \in patch, SavePatch(p)
      PROVE  ExportTypeOK'
  <2>1. /\ p.export \in Export /\ p.status \in Status /\ p.hasFile \in BOOLEAN
        /\ p.latest \in BOOLEAN
    BY DEF Patch
  <2>2. QED
    BY <1>s, <2>1 DEF SavePatch, runs
<1>d. CASE DropPatch
  BY <1>d DEF DropPatch, exportRows, runs
<1>5. ASSUME NEW r \in Run, StartRun(r)
      PROVE  ExportTypeOK'
  BY <1>5 DEF StartRun, exportRows, calls
<1>6. ASSUME NEW r \in Run, StartExport(r)
      PROVE  ExportTypeOK'
  BY <1>6 DEF StartExport, calls
<1>7. ASSUME NEW r \in Run, Generate(r)
      PROVE  ExportTypeOK'
  BY <1>7 DEF Generate, calls
<1>8. ASSUME NEW r \in Run, Complete(r)
      PROVE  ExportTypeOK'
  BY <1>8 DEF Complete, calls
<1>9. ASSUME NEW r \in Run, ClearLatest(r)
      PROVE  ExportTypeOK'
  BY <1>9 DEF ClearLatest, LatestOf, exportRows, calls
<1>10. ASSUME NEW r \in Run, CommitLatest(r)
       PROVE  ExportTypeOK'
  BY <1>10 DEF CommitLatest, NextExport, calls
<1>11. ASSUME NEW r \in Run, CancelExport(r)
       PROVE  ExportTypeOK'
  BY <1>11 DEF CancelExport, NextExport, calls
<1>12. ASSUME NEW r \in Run, EndRun(r), stage[r] # "idle", UNCHANGED <<exportRows, calls>>,
              kills' \in 0 .. MaxKills
       PROVE  ExportTypeOK'
  <2>1. Current(r) \in Export
    BY <1>12, CurrentInList
  <2>2. QED
    BY <1>12, <2>1 DEF EndRun, exportRows, calls
<1>13. ASSUME NEW r \in Run, RaiseDeleted(r)
       PROVE  ExportTypeOK'
  BY <1>12, <1>13 DEF RaiseDeleted
<1>14. ASSUME NEW r \in Run, KillRun(r)
       PROVE  ExportTypeOK'
  BY <1>12, <1>14, KillsBounded DEF KillRun
<1>15. CASE UNCHANGED exportVars
  BY <1>15 DEF exportVars, exportRows, runs, calls
<1>16. QED
  BY <1>1, <1>2, <1>3, <1>4, <1>s, <1>d, <1>5, <1>6, <1>7, <1>8, <1>9, <1>10, <1>11,
     <1>13, <1>14, <1>15 DEF ExportNext, UserStep, RunStep

(* Rows stuck in progress ---------------------------------------------------*)

\* A row is in progress only while a run handles it, after a crash, or when a PATCH
\* wrote it back.
LEMMA StuckStep ==
    ExportTypeOK /\ RunsInHand /\ StuckOnlyByCrash /\ [ExportNext]_exportVars => StuckOnlyByCrash'
<1> SUFFICES ASSUME ExportTypeOK, RunsInHand, StuckOnlyByCrash, [ExportNext]_exportVars,
                    NEW e \in Export, status'[e] = "in progress"
             PROVE  \/ e \in (interrupted \cup overwritten)'
                    \/ \E r \in Run : /\ stage'[r] \in {"generate", "complete"}
                                      /\ Current(r)' = e
  BY DEF StuckOnlyByCrash
<1> DEFINE Handled == \/ e \in interrupted \cup overwritten
                      \/ \E r \in Run : /\ stage[r] \in {"generate", "complete"}
                                        /\ Current(r) = e
<1>1. status[e] = "in progress" => Handled
  BY DEF StuckOnlyByCrash
<1>2. ASSUME UserStep
      PROVE  Handled'
  <2>1. UNCHANGED <<runs, interrupted>> /\ overwritten \subseteq overwritten'
    BY <1>2 DEF UserStep, RequestExport, DeleteExport, ReadPatch, SetLatest, SavePatch,
       DropPatch, calls
  <2>2. status[e] = "in progress" \/ e \in overwritten'
    <3>1. CASE \E p \in patch : SavePatch(p)
      <4>1. PICK p \in patch : SavePatch(p)
        BY <3>1
      <4>2. CASE p.export = e
        <5>1. status'[e] = p.status
          BY <4>1, <4>2 DEF SavePatch, ExportTypeOK
        <5>2. QED
          BY <4>1, <4>2, <5>1 DEF SavePatch
      <4>3. CASE p.export # e
        BY <4>1, <4>3 DEF SavePatch, ExportTypeOK
      <4>4. QED
        BY <4>2, <4>3
    <3>2. CASE ~\E p \in patch : SavePatch(p)
      BY <1>2, <3>2 DEF UserStep, RequestExport, DeleteExport, ReadPatch, SetLatest,
         DropPatch, exportRows, ExportTypeOK
    <3>3. QED
      BY <3>1, <3>2
  <2>3. QED
    BY <1>1, <2>1, <2>2 DEF runs, Current
<1>3. ASSUME NEW r \in Run, StartRun(r)
      PROVE  Handled'
  BY <1>1, <1>3 DEF calls, StartRun, exportRows, Current, ExportTypeOK
<1>4. ASSUME NEW r \in Run, StartExport(r)
      PROVE  Handled'
  BY <1>1, <1>4 DEF calls, StartExport, At, Current, ExportTypeOK
<1>5. ASSUME NEW r \in Run, Generate(r)
      PROVE  Handled'
  BY <1>1, <1>5 DEF calls, Generate, At, Current, ExportTypeOK
<1>6. ASSUME NEW r \in Run, Complete(r)
      PROVE  Handled'
  BY <1>1, <1>6 DEF calls, Complete, At, Current, ExportTypeOK
<1>7. ASSUME NEW r \in Run, ClearLatest(r)
      PROVE  Handled'
  BY <1>1, <1>7 DEF calls, ClearLatest, At, Current, ExportTypeOK, exportRows
<1>8. ASSUME NEW r \in Run, CommitLatest(r)
      PROVE  Handled'
  BY <1>1, <1>8 DEF calls, CommitLatest, NextExport, At, Current, ExportTypeOK
<1>9. ASSUME NEW r \in Run, CancelExport(r)
      PROVE  Handled'
  BY <1>1, <1>9 DEF calls, CancelExport, NextExport, At, Current, ExportTypeOK
<1>10. ASSUME NEW r \in Run, RaiseDeleted(r)
       PROVE  Handled'
  BY <1>1, <1>10 DEF calls, RaiseDeleted, EndRun, Exists, Current, ExportTypeOK, exportRows
<1>11. ASSUME NEW r \in Run, KillRun(r)
       PROVE  Handled'
  BY <1>1, <1>11 DEF calls, KillRun, EndRun, Current, ExportTypeOK, exportRows
<1>12. ASSUME UNCHANGED exportVars
       PROVE  Handled'
  BY <1>1, <1>12 DEF calls, exportVars, exportRows, runs, Current
<1>13. QED
  BY <1>2, <1>3, <1>4, <1>5, <1>6, <1>7, <1>8, <1>9, <1>10, <1>11, <1>12
     DEF ExportNext, RunStep

(* What a run has in hand ---------------------------------------------------*)

\* A row that was created stays created, with its file unless it is deleted or
\* overwritten.
LEMMA RowsStay ==
    ASSUME ExportTypeOK, RunsInHand, [ExportNext]_exportVars, NEW e \in Export, status[e] # "none"
    PROVE  /\ status'[e] # "none"
           /\ Exists(e)' => e \in overwritten' \/ (Exists(e) /\ (hasFile[e] => hasFile'[e]))
           /\ e \in overwritten => e \in overwritten'
<1> DEFINE Stays == /\ status'[e] # "none"
                    /\ Exists(e)' => \/ e \in overwritten'
                                     \/ Exists(e) /\ (hasFile[e] => hasFile'[e])
                    /\ e \in overwritten => e \in overwritten'
<1>1. ASSUME NEW p \in patch, SavePatch(p)
      PROVE  Stays
  <2>1. p.status # "none" /\ p.export \in Export
    BY DEF RunsInHand, ExportTypeOK, Patch
  <2>2. CASE p.export = e
    <3>1. status'[e] = p.status /\ hasFile'[e] = p.hasFile
      BY <1>1, <2>2 DEF SavePatch, ExportTypeOK
    <3>2. e \in overwritten' \/ (status[e] = p.status /\ hasFile[e] = p.hasFile)
      BY <1>1, <2>2 DEF SavePatch
    <3>3. overwritten \subseteq overwritten'
      BY <1>1 DEF SavePatch
    <3>4. QED
      BY <2>1, <3>1, <3>2, <3>3 DEF Exists
  <2>3. CASE p.export # e
    BY <1>1, <2>3 DEF SavePatch, ExportTypeOK, Exists
  <2>4. QED
    BY <2>2, <2>3
<1>2. ASSUME UserStep, ~\E p \in patch : SavePatch(p)
      PROVE  Stays
  BY <1>2 DEF UserStep, RequestExport, DeleteExport, ReadPatch, SetLatest, DropPatch,
     exportRows, calls, Exists, ExportTypeOK
<1>3. ASSUME NEW r \in Run, RunStep(r) \/ StartRun(r) \/ KillRun(r)
      PROVE  Stays
  BY <1>3 DEF RunStep, StartExport, Generate, Complete, ClearLatest, CommitLatest,
     CancelExport, RaiseDeleted, StartRun, KillRun, At, Exists, ExportTypeOK, exportRows,
     calls
<1>4. QED
  BY <1>1, <1>2, <1>3 DEF ExportNext, exportVars, exportRows, calls, Exists

\* A PATCH works on a row that was created.
LEMMA PatchStep ==
    ASSUME ExportTypeOK, RunsInHand, [ExportNext]_exportVars, NEW p \in patch'
    PROVE  p.status # "none" /\ status'[p.export] # "none"
<1>1. CASE p \in patch
  <2>1. p.status # "none" /\ status[p.export] # "none" /\ p.export \in Export
    BY <1>1 DEF RunsInHand, ExportTypeOK, Patch
  <2>2. QED
    BY <2>1, RowsStay
<1>2. CASE \E e \in Export, isLatest \in BOOLEAN : ReadPatch(e, isLatest)
  BY <1>2 DEF ReadPatch, Exists, exportRows
<1>3. CASE \E q \in patch : SetLatest(q)
  <2>1. PICK q \in patch : SetLatest(q)
    BY <1>3
  <2>2. q.status # "none" /\ status[q.export] # "none" /\ q \in Patch
    BY DEF RunsInHand, ExportTypeOK
  <2>3. p.status = q.status /\ p.export = q.export /\ status' = status
    BY <2>1, <2>2 DEF SetLatest, Patch
  <2>4. QED
    BY <2>2, <2>3
<1>4. CASE patch' = {} \/ UNCHANGED patch
  BY <1>1, <1>4
<1>5. QED
  BY <1>2, <1>3, <1>4 DEF ExportNext, UserStep, RunStep, exportVars, calls, RequestExport,
     DeleteExport, SavePatch, DropPatch, StartRun, KillRun, StartExport, Generate,
     Complete, ClearLatest, CommitLatest, CancelExport, RaiseDeleted

\* No step breaks what a run has in hand.
LEMMA HandStep == ExportTypeOK /\ RunsInHand /\ [ExportNext]_exportVars => RunsInHand'
<1> SUFFICES ASSUME ExportTypeOK, RunsInHand, [ExportNext]_exportVars, NEW x \in Run
             PROVE  (/\ stage[x] = "idle" <=> todo[x] = {}
                     /\ \A e \in todo[x] : status[e] # "none"
                     /\ stage[x] \in {"complete", "clear", "commit"} /\ Exists(Current(x))
                            => hasFile[Current(x)] \/ Current(x) \in overwritten
                     /\ \A e \in cleared[x] :
                            stage[x] = "commit"
                            /\ OrganisationOf[e] = OrganisationOf[Current(x)])'
  BY PatchStep DEF RunsInHand
<1> DEFINE Hand == /\ stage[x] = "idle" <=> todo[x] = {}
                   /\ \A e \in todo[x] : status[e] # "none"
                   /\ stage[x] \in {"complete", "clear", "commit"} /\ Exists(Current(x))
                          => hasFile[Current(x)] \/ Current(x) \in overwritten
                   /\ \A e \in cleared[x] :
                          stage[x] = "commit"
                          /\ OrganisationOf[e] = OrganisationOf[Current(x)]
<1>1. Hand
  BY DEF RunsInHand
<1>2. /\ todo[x] \subseteq Export
      /\ stage[x] # "idle" => Current(x) \in todo[x] /\ Current(x) \in Export
  BY CurrentInList DEF ExportTypeOK
<1>3. \A e \in todo[x] :
         /\ status'[e] # "none"
         /\ Exists(e)' => e \in overwritten' \/ (Exists(e) /\ (hasFile[e] => hasFile'[e]))
         /\ e \in overwritten => e \in overwritten'
  BY <1>1, <1>2, RowsStay
\* A run that is not stepping keeps what it has.
<1>4. ASSUME todo'[x] = todo[x], stage'[x] = stage[x], cleared'[x] = cleared[x]
      PROVE  Hand'
  <2>1. Current(x)' = Current(x)
    BY <1>4 DEF Current
  <2>2. QED
    BY <1>1, <1>2, <1>3, <1>4, <2>1
<1>5. ASSUME UserStep
      PROVE  Hand'
  <2>1. UNCHANGED runs
    BY <1>5 DEF UserStep, RequestExport, DeleteExport, ReadPatch, SetLatest, SavePatch,
       DropPatch
  <2>2. QED
    BY <1>4, <2>1 DEF runs
<1>6. ASSUME NEW r \in Run, StartRun(r)
      PROVE  Hand'
  <2>1. CASE r = x
    BY <1>1, <1>6, <2>1 DEF StartRun, ExportTypeOK, exportRows
  <2>2. CASE r # x
    BY <1>4, <1>6, <2>2 DEF StartRun, ExportTypeOK
  <2>3. QED
    BY <2>1, <2>2
<1>7. ASSUME NEW r \in Run, RunStep(r), r # x
      PROVE  Hand'
  BY <1>4, <1>7 DEF RunStep, StartExport, Generate, Complete, ClearLatest,
     CommitLatest, CancelExport, RaiseDeleted, NextExport, EndRun, ExportTypeOK
<1>8. ASSUME StartExport(x)
      PROVE  Hand'
  BY <1>1, <1>2, <1>3, <1>8 DEF StartExport, At, ExportTypeOK
<1>9. ASSUME Generate(x)
      PROVE  Hand'
  <2>1. Current(x)' = Current(x)
    BY <1>9 DEF Generate, Current
  <2>2. QED
    BY <1>1, <1>2, <1>3, <1>9, <2>1 DEF Generate, At, ExportTypeOK
<1>10. ASSUME Complete(x)
       PROVE  Hand'
  <2>1. Current(x)' = Current(x)
    BY <1>10 DEF Complete, Current
  <2>2. QED
    BY <1>1, <1>2, <1>3, <1>10, <2>1 DEF Complete, At, ExportTypeOK
<1>11. ASSUME ClearLatest(x)
       PROVE  Hand'
  <2>1. Current(x)' = Current(x)
    BY <1>11 DEF ClearLatest, Current
  <2>2. cleared'[x] = LatestOf(OrganisationOf[Current(x)]) /\ stage'[x] = "commit"
    BY <1>11 DEF ClearLatest, ExportTypeOK
  <2>3. QED
    BY <1>1, <1>2, <1>3, <1>11, <2>1, <2>2 DEF ClearLatest, At, LatestOf, ExportTypeOK
<1>12. ASSUME NextExport(x), stage[x] # "idle"
       PROVE  Hand'
  BY <1>1, <1>2, <1>3, <1>12 DEF NextExport, ExportTypeOK
<1>13. ASSUME EndRun(x), stage[x] # "idle"
       PROVE  Hand'
  BY <1>1, <1>13 DEF EndRun, ExportTypeOK
<1>14. ASSUME RunStep(x)
       PROVE  Hand'
  BY <1>8, <1>9, <1>10, <1>11, <1>12, <1>13, <1>14
     DEF RunStep, CommitLatest, CancelExport, RaiseDeleted, At
<1>15. ASSUME NEW r \in Run, KillRun(r)
       PROVE  Hand'
  BY <1>4, <1>13, <1>15 DEF KillRun, EndRun, ExportTypeOK
<1>16. ASSUME UNCHANGED exportVars
       PROVE  Hand'
  BY <1>4, <1>16 DEF exportVars, runs
<1>17. QED
  BY <1>5, <1>6, <1>7, <1>14, <1>15, <1>16 DEF ExportNext

(* The order of the files ---------------------------------------------------*)

\* What a PATCH holds and writes back, it has read.
LEMMA PatchFiles ==
    ASSUME ExportTypeOK, NEW e \in Export, HasFile(e)',
           \/ \E x \in Export, isLatest \in BOOLEAN : ReadPatch(x, isLatest)
           \/ \E p \in patch : SetLatest(p) \/ SavePatch(p)
           \/ DropPatch
    PROVE  HasFile(e)
<1>1. CASE \E x \in Export, isLatest \in BOOLEAN : ReadPatch(x, isLatest)
  BY <1>1 DEF ReadPatch, HasFile, exportRows
<1>2. ASSUME NEW p \in patch, SetLatest(p)
      PROVE  HasFile(e)
  <2>1. p \in Patch
    BY DEF ExportTypeOK
  <2>2. \A q \in patch' : q.export = p.export /\ q.hasFile = p.hasFile
    BY <1>2, <2>1 DEF SetLatest, Patch
  <2>3. hasFile' = hasFile
    BY <1>2 DEF SetLatest
  <2>4. QED
    BY <2>2, <2>3 DEF HasFile
<1>3. ASSUME NEW p \in patch, SavePatch(p)
      PROVE  HasFile(e)
  <2>1. patch' = {} /\ hasFile'[e]
    BY <1>3 DEF SavePatch, HasFile
  <2>2. CASE p.export = e
    BY <1>3, <2>1, <2>2 DEF SavePatch, HasFile, ExportTypeOK
  <2>3. CASE p.export # e
    BY <1>3, <2>1, <2>3 DEF SavePatch, HasFile, ExportTypeOK
  <2>4. QED
    BY <2>2, <2>3
<1>4. CASE DropPatch
  BY <1>4 DEF DropPatch, HasFile, exportRows
<1>5. QED
  BY <1>1, <1>2, <1>3, <1>4

\* Runs that do not overlap generate the files in the order of the requests.
LEMMA OrderStep ==
    ASSUME ~Overlap, ExportTypeOK, RunsInHand, FilesInOrder, [ExportNext]_exportVars
    PROVE  FilesInOrder'
<1> USE DEF ExportTypeOK
<1>1. \A e \in Export : e \in Nat
  BY ExportAssumption
<1>2. \A r \in Run : stage[r] # "idle" =>
         /\ Current(r) \in todo[r] /\ Current(r) \in Export
         /\ \A x \in todo[r] : Current(r) <= x
         /\ status[Current(r)] # "none"
  BY CurrentInList
<1> DEFINE Ordered(r) ==
              /\ \A e \in Export \ overwritten : status[e] = "pending" =>
                     e \in todo[r] \/ \A x \in todo[r] : x < e
              /\ \A e \in todo[r] \ overwritten :
                     IF e = Current(r) /\ stage[r] # "start" THEN status[e] # "pending"
                     ELSE status[e] \in {"pending", "deleted"}
              /\ Current(r) \notin overwritten =>
                     (Exists(Current(r)) =>
                          \A e \in Export : HasFile(e) => e <= Current(r))
<1>h. ASSUME NEW r \in Run,
             \A x \in Run : stage'[x] # "idle" => x = r,
             \A e, x \in Export : status'[e] = "none" /\ status'[x] # "none" => x < e,
             \A e \in Export, x \in Export \ overwritten' :
                 HasFile(e)' /\ status'[x] \in {"none", "pending"} => e < x,
             stage'[r] # "idle" => Ordered(r)'
      PROVE  FilesInOrder'
  BY <1>h DEF FilesInOrder
<1>3. ASSUME NEW e \in Export, RequestExport(e)
      PROVE  FilesInOrder'
  <2>1. /\ \A x \in Export : status'[x] = IF x = e THEN "pending" ELSE status[x]
        /\ status[e] = "none" /\ \A x \in Export : x < e => status[x] # "none"
        /\ UNCHANGED <<hasFile, patch, overwritten, todo, stage>>
        /\ \A r \in Run : Current(r)' = Current(r)
        /\ \A x \in Export : HasFile(x)' = HasFile(x)
    BY <1>3 DEF RequestExport, runs, Current, calls, HasFile
  <2>2. \A r \in Run : \A x \in todo[r] : status[x] # "none" /\ x < e /\ x # e
    BY <1>1, <2>1 DEF RunsInHand, FilesInOrder
  <2>3. \A x, y \in Export : status'[x] = "none" /\ status'[y] # "none" => y < x
    BY <1>1, <2>1 DEF FilesInOrder
  <2>4. \A x \in Export, y \in Export \ overwritten :
            HasFile(x) /\ status'[y] \in {"none", "pending"} => x < y
    BY <2>1 DEF FilesInOrder
  <2>5. \A r \in Run : stage[r] # "idle" =>
           /\ status'[Current(r)] = status[Current(r)]
           /\ Exists(Current(r))' = Exists(Current(r))
           /\ \A x \in todo[r] : status'[x] = status[x]
           /\ \A x \in Export \ overwritten : status'[x] = "pending" =>
                 x \in todo[r] \/ \A y \in todo[r] : y < x
    BY <1>2, <2>1, <2>2 DEF FilesInOrder, Exists
  <2>6. QED
    BY <2>1, <2>3, <2>4, <2>5 DEF FilesInOrder, Exists
<1>4. ASSUME UNCHANGED <<todo, stage>>, overwritten \subseteq overwritten',
             \A x \in Export : status[x] = "none" <=> status'[x] = "none",
             \A x \in Export \ overwritten' : status'[x] \in {status[x], "deleted"},
             \A x \in Export : HasFile(x)' => HasFile(x)
      PROVE  FilesInOrder'
  <2>1. \A r \in Run : Current(r)' = Current(r)
    BY <1>4 DEF Current
  <2>2. \A x \in Export \ overwritten' :
            /\ status'[x] = "pending" => status[x] = "pending"
            /\ status'[x] \in {"none", "pending"} => status[x] \in {"none", "pending"}
            /\ Exists(x)' => Exists(x)
            /\ x \notin overwritten
    BY <1>4 DEF Exists
  <2>3. /\ \A r, x \in Run : stage'[r] # "idle" /\ stage'[x] # "idle" => r = x
        /\ \A e, x \in Export : status'[e] = "none" /\ status'[x] # "none" => x < e
        /\ \A e \in Export, x \in Export \ overwritten' :
              HasFile(e)' /\ status'[x] \in {"none", "pending"} => e < x
    BY <1>4, <2>2 DEF FilesInOrder
  <2>4. ASSUME NEW r \in Run, stage[r] # "idle"
        PROVE  /\ \A e \in Export \ overwritten' : status'[e] = "pending" =>
                     e \in todo[r] \/ \A x \in todo[r] : x < e
               /\ \A e \in todo[r] \ overwritten' :
                     IF e = Current(r) /\ stage[r] # "start" THEN status'[e] # "pending"
                     ELSE status'[e] \in {"pending", "deleted"}
               /\ Current(r) \notin overwritten' =>
                     (Exists(Current(r))' => \A e \in Export : HasFile(e)' => e <= Current(r))
    <3>1. \A e \in Export \ overwritten' : status'[e] = "pending" =>
              e \in todo[r] \/ \A x \in todo[r] : x < e
      BY <2>2, <2>4 DEF FilesInOrder
    <3>2. ASSUME NEW e \in todo[r] \ overwritten'
          PROVE  IF e = Current(r) /\ stage[r] # "start" THEN status'[e] # "pending"
                 ELSE status'[e] \in {"pending", "deleted"}
      BY <1>4, <2>2, <2>4, <3>2 DEF FilesInOrder
    <3>3. ASSUME Current(r) \notin overwritten', Exists(Current(r)),
                 NEW e \in Export, HasFile(e)'
          PROVE  e <= Current(r)
      BY <1>2, <1>4, <2>2, <2>4, <3>3 DEF FilesInOrder
    <3>4. Current(r) \notin overwritten' => (Exists(Current(r))' => Exists(Current(r)))
      BY <1>2, <2>1, <2>2, <2>4 DEF Exists
    <3>5. QED
      BY <2>1, <3>1, <3>2, <3>3, <3>4
  <2>5. QED
    BY <1>4, <2>1, <2>3, <2>4 DEF FilesInOrder
<1>d. ASSUME NEW e \in Export, DeleteExport(e)
      PROVE  FilesInOrder'
  <2>1. /\ \A x \in Export : status[x] = "none" <=> status'[x] = "none"
        /\ \A x \in Export : status'[x] \in {status[x], "deleted"}
        /\ \A x \in Export : hasFile'[x] => hasFile[x]
        /\ UNCHANGED <<todo, stage, patch, overwritten>>
    BY <1>d DEF DeleteExport, Exists, runs, calls
  <2>2. QED
    BY <1>4, <2>1 DEF HasFile
<1>p. ASSUME \/ \E x \in Export, isLatest \in BOOLEAN : ReadPatch(x, isLatest)
             \/ \E p \in patch : SetLatest(p)
             \/ DropPatch
      PROVE  FilesInOrder'
  <2>1. UNCHANGED <<status, todo, stage, overwritten>>
    BY <1>p DEF ReadPatch, SetLatest, DropPatch, exportRows, runs
  <2>2. \A x \in Export : HasFile(x)' => HasFile(x)
    BY <1>p, PatchFiles
  <2>3. QED
    BY <1>4, <2>1, <2>2
<1>s. ASSUME NEW p \in patch, SavePatch(p)
      PROVE  FilesInOrder'
  <2>1. UNCHANGED <<todo, stage>> /\ overwritten \subseteq overwritten'
    BY <1>s DEF SavePatch, runs
  <2>2. p.export \in Export /\ p.status # "none" /\ status[p.export] # "none"
    BY DEF RunsInHand, Patch
  <2>3. \A x \in Export : x # p.export => status'[x] = status[x]
    BY <1>s DEF SavePatch
  <2>4. status'[p.export] = p.status
    BY <1>s, <2>2 DEF SavePatch
  <2>5. p.export \notin overwritten' => p.status = status[p.export]
    BY <1>s DEF SavePatch
  <2>6. \A x \in Export : HasFile(x)' => HasFile(x)
    BY <1>s, PatchFiles
  <2>7. QED
    BY <1>4, <2>1, <2>2, <2>3, <2>4, <2>5, <2>6
<1>5. ASSUME NEW r \in Run, StartRun(r)
      PROVE  FilesInOrder'
  <2>1. /\ \A x \in Run : stage[x] = "idle" /\ (x # r => stage'[x] = "idle")
        /\ stage'[r] = "start" /\ UNCHANGED <<status, hasFile, patch, overwritten>>
        /\ todo'[r] = {e \in Export : status[e] = "pending"} /\ todo'[r] # {}
    BY <1>5 DEF StartRun, exportRows, calls
  <2>2. Current(r)' \in todo'[r]
    BY <1>1, <2>1, LeastIsLeast DEF Current
  <2>3. \A x \in Export : HasFile(x)' = HasFile(x)
    BY <2>1 DEF HasFile
  <2>4. \A e \in Export : HasFile(e) /\ Current(r)' \notin overwritten => e <= Current(r)'
    BY <1>1, <2>1, <2>2 DEF FilesInOrder
  <2>5. QED
    BY <1>1, <2>1, <2>2, <2>3, <2>4 DEF FilesInOrder
<1>6. ASSUME NEW r \in Run, StartExport(r) \/ Complete(r) \/ ClearLatest(r)
      PROVE  FilesInOrder'
  <2>1. /\ \A x \in Export : x # Current(r) => status'[x] = status[x]
        /\ status'[Current(r)] \in {"in progress", "completed"} \/ stage[r] = "clear"
        /\ stage[r] = "clear" => status' = status
        /\ stage[r] # "idle" /\ stage'[r] \notin {"idle", "start"}
        /\ \A x \in Run : x # r => stage'[x] = stage[x]
        /\ UNCHANGED <<hasFile, todo, patch, overwritten>>
        /\ \A x \in Run : Current(x)' = Current(x)
        /\ Exists(Current(r))
    BY <1>2, <1>6 DEF StartExport, Complete, ClearLatest, At, Current, exportRows, calls
  <2>2. \A x \in Run : stage'[x] # "idle" <=> x = r
    BY <2>1 DEF FilesInOrder
  <2>3. \A x \in Export : status'[x] = "pending" => status[x] = "pending"
    BY <2>1
  <2>4. Current(r) \notin overwritten => status'[Current(r)] # "pending"
    BY <1>2, <2>1, <2>3 DEF FilesInOrder
  <2>5. /\ Current(r) \notin overwritten => \A e \in Export : HasFile(e) => e <= Current(r)
        /\ \A e \in Export \ overwritten : status'[e] = "pending" =>
               e \in todo[r] \/ \A x \in todo[r] : x < e
    BY <2>1, <2>3 DEF FilesInOrder
  <2>6. ASSUME NEW e \in todo[r] \ overwritten, e # Current(r)
        PROVE  status'[e] \in {"pending", "deleted"}
    BY <2>1, <2>6 DEF FilesInOrder
  <2>7. \A x \in Export : status'[x] = "none" <=> status[x] = "none"
    BY <1>2, <2>1
  <2>8. /\ \A e, x \in Export : status'[e] = "none" /\ status'[x] # "none" => x < e
        /\ \A e \in Export, x \in Export \ overwritten :
               HasFile(e) /\ status'[x] \in {"none", "pending"} => e < x
    BY <2>3, <2>7 DEF FilesInOrder
  <2>9. /\ \A x \in Export : HasFile(x)' = HasFile(x)
        /\ todo'[r] = todo[r] /\ Current(r)' = Current(r)
        /\ stage'[r] \notin {"idle", "start"}
    BY <2>1 DEF HasFile
  <2>10. Ordered(r)'
    BY <2>1, <2>4, <2>5, <2>6, <2>9
  <2>11. QED
    BY <1>h, <2>1, <2>2, <2>8, <2>9, <2>10
<1>7. ASSUME NEW r \in Run, Generate(r)
      PROVE  FilesInOrder'
  <2>1. /\ \A x \in Export : hasFile'[x] => hasFile[x] \/ x = Current(r)
        /\ stage[r] = "generate" /\ stage'[r] = "complete"
        /\ \A x \in Run : x # r => stage'[x] = stage[x]
        /\ UNCHANGED <<status, todo, patch, overwritten>>
        /\ \A x \in Run : Current(x)' = Current(x)
        /\ Exists(Current(r))
    BY <1>2, <1>7 DEF Generate, At, Current, calls
  <2>2. Current(r) \notin overwritten => status[Current(r)] # "pending"
    BY <1>2, <2>1 DEF FilesInOrder
  <2>3. \A x \in Export \ overwritten :
            status[x] \in {"none", "pending"} => Current(r) < x
    BY <1>1, <1>2, <2>1, <2>2 DEF FilesInOrder
  <2>4. \A x \in Export : HasFile(x)' => HasFile(x) \/ x = Current(r)
    BY <2>1 DEF HasFile
  <2>5. \A e \in Export, x \in Export \ overwritten :
            HasFile(e)' /\ status[x] \in {"none", "pending"} => e < x
    BY <2>3, <2>4 DEF FilesInOrder
  <2>6. \A x \in Run : stage'[x] # "idle" <=> x = r
    BY <2>1 DEF FilesInOrder
  <2>7. Current(r) \notin overwritten => \A e \in Export : HasFile(e)' => e <= Current(r)
    BY <1>1, <1>2, <2>1, <2>4 DEF FilesInOrder
  <2>8. /\ \A e \in Export \ overwritten : status[e] = "pending" =>
              e \in todo[r] \/ \A x \in todo[r] : x < e
        /\ \A e \in todo[r] \ overwritten : IF e = Current(r) THEN status[e] # "pending"
              ELSE status[e] \in {"pending", "deleted"}
    BY <2>1 DEF FilesInOrder
  <2>9. QED
    BY <2>1, <2>5, <2>6, <2>7, <2>8 DEF FilesInOrder
<1>8. ASSUME NEW r \in Run, NextExport(r), stage[r] \notin {"idle", "start"},
             UNCHANGED <<hasFile, calls>>,
             status' \in {status, [status EXCEPT ![Current(r)] = "cancelled"]}
      PROVE  FilesInOrder'
  <2>1. /\ todo'[r] = todo[r] \ {Current(r)}
        /\ stage'[r] \in {"idle", "start"}
        /\ stage'[r] = "idle" <=> todo'[r] = {}
        /\ \A x \in Run : x # r => stage'[x] = stage[x]
    BY <1>2, <1>8 DEF NextExport
  <2>2. /\ \A x \in Export : x # Current(r) => status'[x] = status[x]
        /\ status'[Current(r)] \in {status[Current(r)], "cancelled"}
        /\ \A x \in Export : status[x] = "none" <=> status'[x] = "none"
        /\ \A x \in Export : status'[x] = "pending" => status[x] = "pending"
    BY <1>2, <1>8
  <2>3. Current(r) \notin overwritten => status[Current(r)] # "pending"
    BY <1>2, <1>8 DEF FilesInOrder
  <2>4. stage'[r] # "idle" => Current(r)' \in todo'[r] /\ Current(r)' \in Export
    BY <1>1, <2>1, LeastIsLeast DEF Current
  <2>5. \A x \in Export : HasFile(x)' = HasFile(x) /\ overwritten' = overwritten
    BY <1>8 DEF HasFile, calls
  <2>6. \A x \in Run : stage'[x] # "idle" => x = r
    BY <1>8, <2>1 DEF FilesInOrder
  <2>7. /\ \A e, x \in Export : status'[e] = "none" /\ status'[x] # "none" => x < e
        /\ \A e \in Export, x \in Export \ overwritten :
               HasFile(e) /\ status'[x] \in {"none", "pending"} => e < x
    BY <2>2 DEF FilesInOrder
  <2>8. \A e \in Export \ overwritten : status'[e] = "pending" =>
            e \in todo'[r] \/ \A x \in todo'[r] : x < e
    BY <1>8, <2>1, <2>2, <2>3 DEF FilesInOrder
  <2>9. ASSUME NEW e \in todo'[r] \ overwritten
        PROVE  status'[e] \in {"pending", "deleted"} /\ e \in Export
    BY <1>8, <2>1, <2>2, <2>9 DEF FilesInOrder
  <2>10. stage'[r] # "idle" /\ Current(r)' \notin overwritten =>
            (Exists(Current(r))' => \A e \in Export : HasFile(e) => e <= Current(r)')
    <3>1. SUFFICES ASSUME stage'[r] # "idle", Current(r)' \notin overwritten,
                          Exists(Current(r))', NEW e \in Export, HasFile(e)
                   PROVE  e <= Current(r)'
      OBVIOUS
    <3>2. status'[Current(r)'] = "pending"
      BY <2>4, <2>9, <3>1 DEF Exists
    <3>3. e < Current(r)'
      BY <2>4, <2>7, <3>1, <3>2
    <3>4. QED
      BY <1>1, <2>4, <3>1, <3>3
  <2>11. stage'[r] # "idle" => stage'[r] = "start"
    BY <2>1
  <2>12. ASSUME stage'[r] # "idle"
         PROVE  Ordered(r)'
    <3>1. \A e \in Export \ overwritten' : status'[e] = "pending" =>
              e \in todo'[r] \/ \A x \in todo'[r] : x < e
      BY <2>5, <2>8
    <3>2. \A e \in todo'[r] \ overwritten' : status'[e] \in {"pending", "deleted"}
      BY <2>5, <2>9
    <3>3. Current(r)' \notin overwritten' =>
              (Exists(Current(r))' => \A e \in Export : HasFile(e)' => e <= Current(r)')
      BY <2>5, <2>10, <2>12
    <3>4. stage'[r] = "start"
      BY <2>11, <2>12
    <3>5. QED
      BY <3>1, <3>2, <3>3, <3>4
  <2>13. QED
    BY <1>h, <2>5, <2>6, <2>7, <2>12
<1>9. ASSUME NEW r \in Run, CommitLatest(r) \/ CancelExport(r)
      PROVE  FilesInOrder'
  <2>1. /\ NextExport(r) /\ stage[r] \notin {"idle", "start"} /\ UNCHANGED <<hasFile, calls>>
        /\ status' \in {status, [status EXCEPT ![Current(r)] = "cancelled"]}
    BY <1>9 DEF CommitLatest, CancelExport, At, calls
  <2>2. QED
    BY <1>8, <2>1
<1>10. ASSUME NEW r \in Run, stage[r] # "idle", EndRun(r), UNCHANGED <<exportRows, calls>>
       PROVE  FilesInOrder'
  <2>1. \A x \in Run : stage'[x] = "idle"
    BY <1>10 DEF EndRun, FilesInOrder
  <2>2. QED
    BY <1>10, <2>1 DEF FilesInOrder, exportRows, calls, HasFile
<1>k. ASSUME NEW r \in Run, RaiseDeleted(r) \/ KillRun(r)
      PROVE  FilesInOrder'
  <2>1. stage[r] # "idle" /\ EndRun(r) /\ UNCHANGED <<exportRows, calls>>
    BY <1>k DEF RaiseDeleted, KillRun
  <2>2. QED
    BY <1>10, <2>1
<1>11. ASSUME UNCHANGED exportVars
       PROVE  FilesInOrder'
  BY <1>11 DEF exportVars, exportRows, runs, calls, FilesInOrder, Current, HasFile, Exists
<1>12. QED
  BY <1>3, <1>d, <1>p, <1>s, <1>5, <1>6, <1>7, <1>9, <1>k, <1>11
     DEF ExportNext, UserStep, RunStep

(* The invariant ------------------------------------------------------------*)

\* The invariant holds in the first state.
LEMMA ExportInvInit == ExportInit => ExportInv
<1> SUFFICES ASSUME ExportInit
             PROVE  ExportInv
  OBVIOUS
<1>1. ExportTypeOK
  BY ExportAssumption DEF ExportInit, ExportTypeOK, Status, Stage
<1>2. StuckOnlyByCrash /\ RunsInHand
  BY DEF ExportInit, StuckOnlyByCrash, RunsInHand
<1>3. FilesInOrder
  BY DEF ExportInit, FilesInOrder, HasFile
<1>4. QED
  BY <1>1, <1>2, <1>3 DEF ExportInv

\* Every step keeps the invariant.
LEMMA ExportInvStep == ExportInv /\ [ExportNext]_exportVars => ExportInv'
BY ExportTypeStep, StuckStep, HandStep, OrderStep DEF ExportInv

\* Exports keep ExportInv whatever users, runs and crashes do: the types, what a
\* run has in hand, and the order of the files if runs do not overlap.
THEOREM ExportInvariant == ExportSpec => []ExportInv
BY ExportInvInit, ExportInvStep, PTL DEF ExportSpec

\* An export that stays in progress is one whose run was killed or is at it, or one
\* to which a PATCH wrote that status back.
THEOREM StuckByCrash == ExportSpec => []StuckOnlyByCrash
<1>1. ExportInv => StuckOnlyByCrash
  BY DEF ExportInv
<1>2. QED
  BY <1>1, ExportInvariant, PTL

(* The file that is served --------------------------------------------------*)

\* Runs that do not overlap never replace the public file by an older one.
LEMMA ServedStep ==
    ASSUME ~Overlap, ExportInv, [ExportNext]_exportVars, ~UserStep,
           \A r \in Run : CommitLatest(r) => Current(r) \notin overwritten,
           NEW o \in Organisation, NEW e \in ServedCandidates(o)
    PROVE  \E x \in ServedCandidates(o)' : e <= x
<1> USE DEF ServedCandidates, LatestOf
<1>1. /\ ExportTypeOK /\ RunsInHand /\ FilesInOrder
      /\ e \in Export /\ e \in Nat
      /\ Exists(e) /\ latest[e] /\ hasFile[e] /\ OrganisationOf[e] = o
  BY ExportAssumption DEF ExportInv
<1>2. ASSUME latest'[e], hasFile'[e], Exists(e)'
      PROVE  \E x \in ServedCandidates(o)' : e <= x
  BY <1>1, <1>2
<1>3. ASSUME NEW r \in Run, CommitLatest(r)
      PROVE  \E x \in ServedCandidates(o)' : e <= x
  <2> DEFINE c == Current(r)
  <2>1. /\ stage[r] = "commit" /\ Exists(c)
        /\ \A x \in Export : latest'[x] <=> x = c \/ (latest[x] /\ x \notin cleared[r])
        /\ UNCHANGED <<status, hasFile>>
    BY <1>3 DEF CommitLatest, At
  <2>2. c \in Export /\ c \in Nat
    BY <1>1, <2>1, CurrentInList
  <2>3. CASE e \notin cleared[r]
    BY <1>1, <1>2, <2>1, <2>3 DEF Exists
  <2>4. CASE e \in cleared[r]
    <3>1. OrganisationOf[c] = o /\ hasFile[c] /\ e <= c
      BY <1>1, <1>3, <2>1, <2>2, <2>4 DEF RunsInHand, FilesInOrder, HasFile
    <3>2. c \in ServedCandidates(o)'
      BY <2>1, <2>2, <3>1 DEF Exists
    <3>3. QED
      BY <3>1, <3>2
  <2>5. QED
    BY <2>3, <2>4
<1>4. ASSUME NEW r \in Run, RunStep(r) \/ StartRun(r) \/ KillRun(r), ~CommitLatest(r)
      PROVE  \E x \in ServedCandidates(o)' : e <= x
  <2>1. latest' = latest /\ hasFile'[e] /\ Exists(e)'
    BY <1>1, <1>4 DEF RunStep, StartExport, Generate, Complete, ClearLatest,
       CancelExport, RaiseDeleted, StartRun, KillRun, Exists, ExportTypeOK, exportRows
  <2>2. QED
    BY <1>1, <1>2, <2>1
<1>5. ASSUME UNCHANGED exportVars
      PROVE  \E x \in ServedCandidates(o)' : e <= x
  BY <1>1, <1>2, <1>5 DEF exportVars, exportRows, Exists
<1>6. QED
  BY <1>3, <1>4, <1>5 DEF ExportNext

\* As long as no run starts before the previous one has ended, the public file
\* of an organisation is replaced by newer ones only, unless a PATCH wrote back the
\* row of the export that is done.
THEOREM ServedInOrder == ASSUME ~Overlap PROVE ExportSpec => ServedNeverOlder
<1> DEFINE Allowed ==
              \/ UserStep
              \/ \E r \in Run : CommitLatest(r) /\ Current(r) \in overwritten
              \/ \A o \in Organisation : \A e \in ServedCandidates(o) :
                    \E x \in ServedCandidates(o)' : e <= x
<1>1. ExportInv /\ [ExportNext]_exportVars => [Allowed]_exportVars
  BY ServedStep
<1>2. QED
  BY <1>1, ExportInvariant, PTL DEF ExportSpec, ServedNeverOlder
=============================================================================
