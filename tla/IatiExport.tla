----------------------------- MODULE IatiExport -----------------------------
(***************************************************************************)
(* The exports of IATI files (akvo/rsr/models/iati_export.py).  A user      *)
(* requests an export over REST; the command iati_export, started by cron   *)
(* every minute, works off the pending ones and marks the last as the       *)
(* latest, the file the public view of the organisation serves.             *)
(*                                                                          *)
(* A run of the command reads the list of pending exports once and then     *)
(* handles them by id.  Every step of it is a statement or a transaction of *)
(* its own, so other runs, REST calls and crashes come in between.  A PATCH *)
(* reads the row, and in the end writes all of it back.                     *)
(***************************************************************************)
EXTENDS Naturals

CONSTANTS
    Export,         \* ids that IatiExport rows may get, in the order of creation
    Organisation,
    OrganisationOf, \* export.reporting_organisation
    Run,            \* cron processes that may execute the command
    Overlap,        \* whether cron starts a run while another one goes on
    MaxKills,       \* bound: how often a run may be killed
    MaxPatches      \* bound: number of PATCHes

ASSUME ExportAssumption ==
    /\ Export \subseteq Nat
    /\ OrganisationOf \in [Export -> Organisation]
    /\ Overlap \in BOOLEAN
    /\ MaxKills \in Nat
    /\ MaxPatches \in Nat

VARIABLES
    status,      \* IatiExport.status, "none" before and "deleted" after the row
    hasFile,     \* IatiExport.iati_file is not empty
    latest,      \* IatiExport.latest
    todo,        \* exports a run read as pending and has not handled yet
    stage,       \* where a run is in create_iati_file for the least of them
    cleared,     \* rows a run's open transaction sets to latest=False
    kills,       \* number of killed runs
    interrupted, \* history: exports whose run ended before they were handled
    patch,       \* the PATCH under way: the row it read, and the latest it sets
    overwritten, \* history: exports whose row a PATCH wrote back as it no longer was
    patches      \* number of PATCHes

exportRows == <<status, hasFile, latest>>
runs == <<todo, stage, cleared>>
calls == <<patch, overwritten, patches>>
exportVars == <<exportRows, runs, kills, interrupted, calls>>

Status == {"none", "pending", "in progress", "completed", "cancelled", "deleted"}
Stage == {"idle", "start", "generate", "complete", "clear", "commit"}
Patch == [export : Export, status : Status, hasFile : BOOLEAN, latest : BOOLEAN,
          set : BOOLEAN]

ExportTypeOK ==
    /\ status \in [Export -> Status]
    /\ hasFile \in [Export -> BOOLEAN]
    /\ latest \in [Export -> BOOLEAN]
    /\ todo \in [Run -> SUBSET Export]
    /\ stage \in [Run -> Stage]
    /\ cleared \in [Run -> SUBSET Export]
    /\ kills \in 0 .. MaxKills
    /\ interrupted \in SUBSET Export
    /\ patch \in SUBSET Patch
    /\ overwritten \in SUBSET Export
    /\ patches \in 0 .. MaxPatches

Exists(e) == status[e] \notin {"none", "deleted"}
LatestOf(o) == {e \in Export : Exists(e) /\ latest[e] /\ OrganisationOf[e] = o}

\* Mutated form of Least: Meta.ordering is by descending id.
Greatest(S) == CHOOSE e \in S : \A x \in S : x <= e

\* Meta.ordering: a run handles the exports it read by ascending id.
Least(S) == CHOOSE e \in S : \A x \in S : e <= x
Current(r) == Least(todo[r])

\* The public view: the newest of the latest exports that has a file.
ServedCandidates(o) == {e \in LatestOf(o) : hasFile[e]}

-----------------------------------------------------------------------------
ExportInit ==
    /\ status = [e \in Export |-> "none"]
    /\ hasFile = [e \in Export |-> FALSE]
    /\ latest = [e \in Export |-> FALSE]
    /\ todo = [r \in Run |-> {}]
    /\ stage = [r \in Run |-> "idle"]
    /\ cleared = [r \in Run |-> {}]
    /\ kills = 0
    /\ interrupted = {}
    /\ patch = {}
    /\ overwritten = {}
    /\ patches = 0

(* REST calls.                                                              *)

RequestExport(e) ==
    /\ status[e] = "none"
    /\ \A x \in Export : x < e => status[x] # "none"
    /\ status' = [status EXCEPT ![e] = "pending"]
    /\ UNCHANGED <<hasFile, latest, runs, kills, interrupted, calls>>

DeleteExport(e) ==
    /\ Exists(e)
    /\ status' = [status EXCEPT ![e] = "deleted"]
    /\ hasFile' = [hasFile EXCEPT ![e] = FALSE]
    /\ latest' = [latest EXCEPT ![e] = FALSE]
    /\ UNCHANGED <<runs, kills, interrupted, calls>>

\* A PATCH with is_latest: the view reads the row.  Bound: one PATCH at a time.
ReadPatch(e, isLatest) ==
    /\ patch = {}
    /\ patches < MaxPatches
    /\ patches' = patches + 1
    /\ Exists(e)
    /\ patch' = {[export |-> e, status |-> status[e], hasFile |-> hasFile[e],
                  latest |-> isLatest, set |-> FALSE]}
    /\ UNCHANGED <<exportRows, runs, kills, interrupted, overwritten>>

\* The serializer sets is_latest, whatever the status of the export.
SetLatest(p) ==
    /\ ~p.set
    /\ Exists(p.export)
    /\ latest' = IF p.latest
           THEN [x \in Export |-> x = p.export \/
                    (latest[x] /\ x \notin LatestOf(OrganisationOf[p.export]))]
           ELSE [latest EXCEPT ![p.export] = FALSE]
    /\ patch' = {[p EXCEPT !.set = TRUE]}
    /\ UNCHANGED <<status, hasFile, runs, kills, interrupted, overwritten, patches>>

\* Then it saves the row, with the status and file it has read.  Django inserts a
\* row that was deleted meanwhile.
SavePatch(p) ==
    /\ p.set
    /\ status' = [status EXCEPT ![p.export] = p.status]
    /\ hasFile' = [hasFile EXCEPT ![p.export] = p.hasFile]
    /\ latest' = [latest EXCEPT ![p.export] = p.latest]
    /\ patch' = {}
    /\ overwritten' =
           IF <<status[p.export], hasFile[p.export]>> = <<p.status, p.hasFile>>
             THEN overwritten ELSE overwritten \cup {p.export}
    /\ UNCHANGED <<runs, kills, interrupted, patches>>

\* The row was deleted before is_latest was set, which raises, or the worker is
\* killed.
DropPatch ==
    /\ patch # {}
    /\ patch' = {}
    /\ UNCHANGED <<exportRows, runs, kills, interrupted, overwritten, patches>>

(* The command.                                                             *)

\* Mutated form of StartRun: a lock that a killed run left behind is respected.
StartRunUnlocked(r) ==
    LET pending == {e \in Export : status[e] = "pending"}
    IN  /\ stage[r] = "idle"
        /\ \A x \in Run : stage[x] = "idle"
        /\ kills = 0
        /\ pending # {}
        /\ todo' = [todo EXCEPT ![r] = pending]
        /\ stage' = [stage EXCEPT ![r] = "start"]
        /\ UNCHANGED <<exportRows, cleared, kills, interrupted, calls>>

StartRun(r) ==
    LET pending == {e \in Export : status[e] = "pending"}
    IN  /\ stage[r] = "idle"
        /\ Overlap \/ \A x \in Run : stage[x] = "idle"
        /\ pending # {}
        /\ todo' = [todo EXCEPT ![r] = pending]
        /\ stage' = [stage EXCEPT ![r] = "start"]
        /\ UNCHANGED <<exportRows, cleared, kills, interrupted, calls>>

\* The run is at step s of create_iati_file and its export still exists.
At(r, s) == stage[r] = s /\ Exists(Current(r))

\* The loop goes on to the next export, or the command ends.
NextExport(r) ==
    /\ todo' = [todo EXCEPT ![r] = todo[r] \ {Current(r)}]
    /\ stage' = [stage EXCEPT ![r] =
           IF todo[r] = {Current(r)} THEN "idle" ELSE "start"]
    /\ cleared' = [cleared EXCEPT ![r] = {}]

\* update_status(STATUS_IN_PROGRESS), without a look at the present status.
StartExport(r) ==
    /\ At(r, "start")
    /\ status' = [status EXCEPT ![Current(r)] = "in progress"]
    /\ stage' = [stage EXCEPT ![r] = "generate"]
    /\ UNCHANGED <<hasFile, latest, todo, cleared, kills, interrupted, calls>>

\* IatiXML, save_file and update_iati_file.
Generate(r) ==
    /\ At(r, "generate")
    /\ hasFile' = [hasFile EXCEPT ![Current(r)] = TRUE]
    /\ stage' = [stage EXCEPT ![r] = "complete"]
    /\ UNCHANGED <<status, latest, todo, cleared, kills, interrupted, calls>>

Complete(r) ==
    /\ At(r, "complete")
    /\ status' = [status EXCEPT ![Current(r)] = "completed"]
    /\ stage' = [stage EXCEPT ![r] = "clear"]
    /\ UNCHANGED <<hasFile, latest, todo, cleared, kills, interrupted, calls>>

\* First statement of the transaction in is_latest: the rows it finds are those
\* committed by now (READ COMMITTED), whatever other runs are about to commit.
ClearLatest(r) ==
    /\ At(r, "clear")
    /\ cleared' = [cleared EXCEPT ![r] = LatestOf(OrganisationOf[Current(r)])]
    /\ stage' = [stage EXCEPT ![r] = "commit"]
    /\ UNCHANGED <<exportRows, todo, kills, interrupted, calls>>

CommitLatest(r) ==
    /\ At(r, "commit")
    /\ latest' = [e \in Export |->
           e = Current(r) \/ (latest[e] /\ e \notin cleared[r])]
    /\ NextExport(r)
    /\ UNCHANGED <<status, hasFile, kills, interrupted, calls>>

\* Mutated form of CancelExport: the exception is swallowed.
CancelExportSilently(r) ==
    /\ \E s \in {"generate", "complete", "clear", "commit"} : At(r, s)
    /\ NextExport(r)
    /\ UNCHANGED <<exportRows, kills, interrupted, calls>>

\* There are no projects, or something raises: STATUS_CANCELLED.  A transaction
\* that was open is rolled back.
CancelExport(r) ==
    /\ \E s \in {"generate", "complete", "clear", "commit"} : At(r, s)
    /\ status' = [status EXCEPT ![Current(r)] = "cancelled"]
    /\ NextExport(r)
    /\ UNCHANGED <<hasFile, latest, kills, interrupted, calls>>

\* The run is over before its list is.
EndRun(r) ==
    /\ todo' = [todo EXCEPT ![r] = {}]
    /\ stage' = [stage EXCEPT ![r] = "idle"]
    /\ cleared' = [cleared EXCEPT ![r] = {}]
    /\ interrupted' = interrupted \cup
           (IF stage[r] = "start" THEN {} ELSE {Current(r)})

\* The row was deleted: save(update_fields=...) raises, in the handler as well.
RaiseDeleted(r) ==
    /\ stage[r] # "idle"
    /\ ~Exists(Current(r))
    /\ EndRun(r)
    /\ UNCHANGED <<exportRows, kills, calls>>

\* The process is killed.
KillRun(r) ==
    /\ stage[r] # "idle"
    /\ kills < MaxKills
    /\ kills' = kills + 1
    /\ EndRun(r)
    /\ UNCHANGED <<exportRows, calls>>

RunStep(r) ==
    \/ StartExport(r) \/ Generate(r) \/ Complete(r) \/ ClearLatest(r)
    \/ CommitLatest(r) \/ CancelExport(r) \/ RaiseDeleted(r)

UserStep ==
    \/ \E e \in Export :
          \/ RequestExport(e) \/ DeleteExport(e)
          \/ \E isLatest \in BOOLEAN : ReadPatch(e, isLatest)
    \/ \E p \in patch : SetLatest(p) \/ SavePatch(p)
    \/ DropPatch

ExportNext ==
    \/ UserStep
    \/ \E r \in Run : StartRun(r) \/ RunStep(r) \/ KillRun(r)

ExportSpec == ExportInit /\ [][ExportNext]_exportVars

\* Cron starts the command every minute and a process keeps running.
ExportFairness ==
    /\ WF_exportVars(\E r \in Run : StartRun(r))
    /\ \A r \in Run : WF_exportVars(RunStep(r))
FairExportSpec == ExportSpec /\ ExportFairness

-----------------------------------------------------------------------------
(* Properties.                                                              *)

\* A row stays "in progress" only while some run is handling it, or for good if
\* its run was killed or a PATCH wrote that status back: nothing ever picks it up
\* again.
StuckOnlyByCrash ==
    \A e \in Export : status[e] = "in progress" =>
        \/ e \in interrupted \cup overwritten
        \/ \E r \in Run : stage[r] \in {"generate", "complete"} /\ Current(r) = e

\* What a run has in hand: a list that is not empty, a file once it is generated,
\* and in its transaction only rows of the organisation it exports for.
RunsInHand ==
    /\ \A r \in Run :
          /\ stage[r] = "idle" <=> todo[r] = {}
          /\ \A e \in todo[r] : status[e] # "none"
          /\ stage[r] \in {"complete", "clear", "commit"} /\ Exists(Current(r)) =>
                 hasFile[Current(r)] \/ Current(r) \in overwritten
          /\ \A e \in cleared[r] :
                 stage[r] = "commit" /\ OrganisationOf[e] = OrganisationOf[Current(r)]
    /\ \A p \in patch : p.status # "none" /\ status[p.export] # "none"

\* The exports that have a file, or may get it back from a PATCH.
HasFile(e) == hasFile[e] \/ \E p \in patch : p.export = e /\ p.hasFile

\* Runs that do not overlap generate the files in the order of the requests, but
\* for the exports whose row was overwritten.
FilesInOrder ==
    /\ \A r, x \in Run : stage[r] # "idle" /\ stage[x] # "idle" => r = x
    /\ \A e, x \in Export : status[e] = "none" /\ status[x] # "none" => x < e
    /\ \A e \in Export, x \in Export \ overwritten :
          HasFile(e) /\ status[x] \in {"none", "pending"} => e < x
    /\ \A r \in Run : stage[r] # "idle" =>
          /\ \A e \in Export \ overwritten : status[e] = "pending" =>
                 e \in todo[r] \/ \A x \in todo[r] : x < e
          /\ \A e \in todo[r] \ overwritten :
                 IF e = Current(r) /\ stage[r] # "start" THEN status[e] # "pending"
                 ELSE status[e] \in {"pending", "deleted"}
          /\ Current(r) \notin overwritten =>
                (Exists(Current(r)) => \A e \in Export : HasFile(e) => e <= Current(r))

\* The inductive invariant.
ExportInv ==
    /\ ExportTypeOK
    /\ StuckOnlyByCrash
    /\ RunsInHand
    /\ ~Overlap => FilesInOrder

\* No step of the command makes the organisation's public file disappear or go
\* back to an older export; only users do, by is_latest or by deleting, and a run
\* that handles an export again because a PATCH has put an old status back.
ServedNeverOlder ==
    [][ \/ UserStep
        \/ \E r \in Run : CommitLatest(r) /\ Current(r) \in overwritten
        \/ \A o \in Organisation : \A e \in ServedCandidates(o) :
              \E x \in ServedCandidates(o)' : e <= x ]_exportVars

\* A requested export is handled in the end, or deleted, unless its run is killed
\* or a PATCH wrote over its progress.  A deleted row in the list ends a run, which
\* delays the others only, as long as PATCHes do not insert it again and again.
RequestsEnd ==
    \A e \in Export :
        status[e] = "pending" ~>
            (\/ status[e] \in {"completed", "cancelled", "deleted"}
             \/ e \in interrupted
             \/ e \in overwritten /\ status[e] = "in progress"
             \/ \E x \in overwritten : status[x] = "deleted")
=============================================================================
