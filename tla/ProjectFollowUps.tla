-------------------------- MODULE ProjectFollowUps --------------------------
(***************************************************************************)
(* What has to follow an edit of a project: its IATI checks are performed  *)
(* again (akvo/rsr/models/project.py, the command perform_iati_checks, the *)
(* list of the IATI section) and its entry in the cache of the project     *)
(* directory is dropped (akvo/rest/cache.py).                              *)
(*                                                                         *)
(* An edit through the REST API writes the object, then drops the entry,   *)
(* then sets the flag run_iati_checks, each on its own (the creation of an *)
(* object is a transaction, which ends before its entry is dropped).  Runs *)
(* of the checks read all flagged projects at once and go through them;    *)
(* readers of the directory fill the cache.  All of them are concurrent.   *)
(*                                                                         *)
(* A save of a project compares the row in memory with the database and    *)
(* writes up to three times: status, iati_status, and what was asked for.  *)
(* Each is committed on its own, but in update_iati_checks.                *)
(***************************************************************************)
EXTENDS Naturals, FiniteSets, FiniteSetsExt

CONSTANTS
    Project,        \* ids of the projects: a set of numbers
    Broken,         \* projects on which a check raises
    Editor,         \* workers that serve edits
    Command,        \* runs of perform_iati_checks
    View,           \* workers that serve the list of the IATI section
    Reader,         \* workers that serve the directory, runs that populate it
    Code,           \* the codes of iati_status that edits use
    Patched,        \* bound: the projects that are saved as a whole
    None,           \* no entry in the cache
    MaxEdits,       \* bound: edits
    MaxKills        \* bound: killed requests and runs

Checker == Command \cup View

\* CODE_TO_STATUS and STATUS_TO_CODE.
CodeToStatus ==
    [code \in {"", "1", "2", "3", "4", "5", "6"} |->
        CASE code = "" -> "N" [] code = "1" -> "H" [] code = "2" -> "A"
          [] code \in {"3", "4", "6"} -> "C" [] code = "5" -> "L"]
StatusToCode ==
    [st \in {"N", "H", "A", "C", "L", "R"} |->
        CASE st = "N" -> "" [] st = "H" -> "1" [] st = "A" -> "2"
          [] st \in {"C", "R"} -> "3" [] st = "L" -> "5"]

\* The two statuses of a row of Project as a process holds it in memory.  Edits give
\* a project an IATI status, so the legacy "R", which no code has, does not occur.
Status == {CodeToStatus[code] : code \in DOMAIN CodeToStatus}
Row == [iatiStatus : DOMAIN CodeToStatus, status : Status]

VARIABLES
    version,        \* how many edits changed what the checks and the directory read
    iatiStatus, status, runIatiChecks,      \* columns of Project
    checks,         \* the version the stored IatiCheck rows were computed from
    cached,         \* the version in the directory's cache, or None
    editor,         \* what each editor's request is at
    checker,        \* what each run of the checks is at
    reader,         \* what each fill of the cache is at
    kills,
    undropped,      \* history: no entry was dropped since the last edit
    unscheduled,    \* history: no flag was set since the last edit
    overtaken,      \* history: the last checks stored were older than an edit
    outdated,       \* history: so was the last entry stored
    mixed           \* history: saves met, or one was cut short, or of a mixed row

project == <<version, iatiStatus, status, runIatiChecks>>
history == <<undropped, unscheduled, overtaken, outdated, mixed>>
vars == <<project, checks, cached, editor, checker, reader, kills, history>>

RowOf(p) == [iatiStatus |-> iatiStatus[p], status |-> status[p]]

\* A request that has written its object; that holds a row, which it will save as a
\* whole, or for its flag; that is in a save and has read orig, written the status
\* or written the IATI status.  A run: the projects left, the version its checks
\* were made from, and what its save read.  A fill of the cache.
Saving == [at : {"begun", "statusWritten", "iatiWritten"}, project : Project, row : Row,
           whole : BOOLEAN, flag : BOOLEAN, orig : Row]
Request == [at : {"written"}, project : Project]
               \cup [at : {"held"}, project : Project, row : Row, whole : BOOLEAN,
                     flag : BOOLEAN]
               \cup Saving
Run == [rows : UNION {[left -> Row] : left \in SUBSET Project}, found : Nat \cup {None},
        orig : Row \cup {None}]
Filling == [project : Project, seen : Nat]

ASSUME FollowUpsAssumption ==
    /\ Project \subseteq Nat /\ IsFiniteSet(Project)
    /\ Broken \subseteq Project /\ Patched \subseteq Project
    /\ Code \subseteq DOMAIN CodeToStatus
    /\ None \notin Nat /\ None \notin Row \cup Request
    /\ Editor \cap Checker = {}
    /\ MaxEdits \in Nat /\ MaxKills \in Nat

TypeOK ==
    /\ version \in [Project -> Nat]
    /\ iatiStatus \in [Project -> DOMAIN CodeToStatus]
    /\ status \in [Project -> Status]
    /\ runIatiChecks \in [Project -> BOOLEAN]
    /\ checks \in [Project -> Nat]
    /\ cached \in [Project -> Nat \cup {None}]
    /\ editor \in [Editor -> Request \cup {None}]
    /\ checker \in [Checker -> Run]
    \* Checks are computed of a project on the list only.
    /\ \A c \in Checker : checker[c].found # None => DOMAIN checker[c].rows # {}
    /\ \A c \in Checker : checker[c].orig # None => checker[c].found # None
    /\ reader \in [Reader -> Filling \cup {None}]
    /\ kills \in 0 .. MaxKills
    /\ \A h \in {undropped, unscheduled, overtaken, outdated, mixed} : h \subseteq Project
    \* Nothing has been computed from what is not written yet.
    /\ \A p \in Project : checks[p] <= version[p]
    /\ \A p \in Project : cached[p] = None \/ cached[p] <= version[p]

-----------------------------------------------------------------------------
\* Projects are ordered by descending id.
Following(c) == CHOOSE p \in DOMAIN checker[c].rows :
                    \A q \in DOMAIN checker[c].rows : q <= p

Agree(row) == CodeToStatus[row.iatiStatus] = row.status

\* Mutated form of StatusFollows: the IATI status is taken for the legacy one.
StatusFollowsUnconverted(row, orig) ==
    [row EXCEPT !.status = IF row.iatiStatus # orig.iatiStatus THEN row.iatiStatus ELSE @]

\* Mutated form of IatiFollows: the code is written as it is held.
IatiFollowsNot(row, orig) == row

\* Project.save on a row read earlier: the legacy status follows an IATI status that
\* is not the stored one, then the other way round.
StatusFollows(row, orig) ==
    [row EXCEPT !.status = IF row.iatiStatus # orig.iatiStatus
                             THEN CodeToStatus[row.iatiStatus] ELSE @]

IatiFollows(row, orig) ==
    [row EXCEPT !.iatiStatus = IF row.status # orig.status
                                 THEN StatusToCode[row.status] ELSE @]

\* The saves of p under way.
Saves(p) ==
    {e \in Editor : /\ editor[e] # None /\ editor[e].project = p
                    /\ editor[e].at \in {"begun", "statusWritten", "iatiWritten"}}
        \cup {c \in Checker : checker[c].orig # None /\ Following(c) = p}

\* A save x wrote a status of p while another was under way.
Meets(x, p) == mixed' = IF Saves(p) \subseteq {x} THEN mixed ELSE mixed \cup {p}

\* A save for the flag begins with a row read at different times.
Takes(p, row) == mixed' = IF Agree(row) THEN mixed ELSE mixed \cup {p}

Off == [rows |-> << >>, found |-> None, orig |-> None]

Init ==
    /\ version = [p \in Project |-> 0]
    /\ iatiStatus = [p \in Project |-> "2"]
    /\ status = [p \in Project |-> "A"]
    /\ runIatiChecks = [p \in Project |-> FALSE]
    /\ checks = [p \in Project |-> 0]
    /\ cached = [p \in Project |-> None]
    /\ editor = [e \in Editor |-> None]
    /\ checker = [c \in Checker |-> Off]
    /\ reader = [r \in Reader |-> None]
    /\ kills = 0
    /\ undropped = {} /\ unscheduled = {} /\ overtaken = {} /\ outdated = {}
    /\ mixed = {}

-----------------------------------------------------------------------------
(* Edits: create, update and destroy of PublicProjectViewSet.               *)

\* PATCHes of projects that are not written yet.
Patches == {f \in Editor : editor[f] # None /\ editor[f].at # "written" /\ editor[f].whole}

CanEdit(e) ==
    /\ editor[e] = None
    /\ MapThenSumSet(LAMBDA p : version[p], Project) + Cardinality(Patches) < MaxEdits

\* What the checks and the directory read of p was changed by an edit.
Edited(p) ==
    /\ version' = [version EXCEPT ![p] = @ + 1]
    /\ undropped' = undropped \cup {p}
    /\ unscheduled' = unscheduled \cup {p}

\* An object of the project (a location, a budget, a partnership) is written.
WriteObject(e, p) ==
    /\ CanEdit(e)
    /\ Edited(p)
    /\ editor' = [editor EXCEPT ![e] = [at |-> "written", project |-> p]]
    /\ UNCHANGED <<iatiStatus, status, runIatiChecks, checks, cached, checker,
                   reader, kills, overtaken, outdated, mixed>>

\* A request for the project itself reads it, and gives it an IATI status.
OpenPatch(e, p, code) ==
    /\ CanEdit(e)
    /\ editor' = [editor EXCEPT ![e] =
           [at |-> "held", project |-> p, whole |-> TRUE, flag |-> runIatiChecks[p],
            row |-> [iatiStatus |-> code, status |-> status[p]]]]
    /\ UNCHANGED <<project, checks, cached, checker, reader, kills, history>>

\* Mutated form of DropEntry: the key is not the project's.
DropNothing(e) ==
    /\ editor[e] # None /\ editor[e].at = "written"
    /\ editor' = [editor EXCEPT ![e] = [at |-> "held", project |-> @.project,
                 whole |-> FALSE, flag |-> TRUE, row |-> RowOf(@.project)]]
    /\ undropped' = undropped \ {editor[e].project}
    /\ UNCHANGED <<project, checks, cached, checker, reader, kills, unscheduled,
                   overtaken, outdated, mixed>>

\* get_project_for_object reads the project, then its cache entry is deleted.
DropEntry(e) ==
    /\ editor[e] # None /\ editor[e].at = "written"
    /\ editor' = [editor EXCEPT ![e] = [at |-> "held", project |-> @.project,
                 whole |-> FALSE, flag |-> TRUE, row |-> RowOf(@.project)]]
    /\ cached' = [cached EXCEPT ![editor[e].project] = None]
    /\ undropped' = undropped \ {editor[e].project}
    /\ outdated' = outdated \ {editor[e].project}
    /\ UNCHANGED <<project, checks, checker, reader, kills, unscheduled, overtaken,
                   mixed>>

-----------------------------------------------------------------------------
(* Project.save of a request: of the row that a PATCH holds, or of the flag *)
(* (schedule_iati_checks on the row just read).                             *)

At(e, where) == editor[e] # None /\ editor[e].at \in where

\* orig is read.
BeginSave(e) ==
    LET p == editor[e].project
    IN  /\ At(e, {"held"})
        /\ editor' = [editor EXCEPT ![e] =
               [at |-> "begun", project |-> p, row |-> @.row, whole |-> @.whole,
                flag |-> @.flag, orig |-> RowOf(p)]]
        /\ IF editor[e].whole THEN mixed' = mixed ELSE Takes(p, editor[e].row)
        /\ UNCHANGED <<project, checks, cached, checker, reader, kills, undropped,
                       unscheduled, overtaken, outdated>>

StatusDue(e) == At(e, {"begun"}) /\ editor[e].row.iatiStatus # editor[e].orig.iatiStatus
IatiDue(e) == /\ At(e, {"begun", "statusWritten"}) /\ ~StatusDue(e)
              /\ editor[e].row.status # editor[e].orig.status
LastDue(e) == At(e, {"begun", "statusWritten", "iatiWritten"}) /\ ~StatusDue(e) /\ ~IatiDue(e)

\* save(update_fields=['status'])
WriteStatus(e) ==
    LET p == editor[e].project
        row == StatusFollows(editor[e].row, editor[e].orig)
    IN  /\ StatusDue(e)
        /\ status' = [status EXCEPT ![p] = row.status]
        /\ editor' = [editor EXCEPT ![e].at = "statusWritten", ![e].row = row]
        /\ Meets(e, p)
        /\ UNCHANGED <<version, iatiStatus, runIatiChecks, checks, cached, checker, reader,
                       kills, undropped, unscheduled, overtaken, outdated>>

\* save(update_fields=['iati_status'])
WriteIati(e) ==
    LET p == editor[e].project
        row == IatiFollows(editor[e].row, editor[e].orig)
    IN  /\ IatiDue(e)
        /\ iatiStatus' = [iatiStatus EXCEPT ![p] = row.iatiStatus]
        /\ editor' = [editor EXCEPT ![e].at = "iatiWritten", ![e].row = row]
        /\ Meets(e, p)
        /\ UNCHANGED <<version, status, runIatiChecks, checks, cached, checker, reader,
                       kills, undropped, unscheduled, overtaken, outdated>>

\* The row of a PATCH is written, with all its columns as they are held; if a status
\* was written before, both are new.
SavePatch(e) ==
    LET p == editor[e].project
        row == editor[e].row
    IN  /\ LastDue(e) /\ editor[e].whole
        /\ Edited(p)
        /\ iatiStatus' = [iatiStatus EXCEPT ![p] = row.iatiStatus]
        /\ status' = [status EXCEPT ![p] = row.status]
        /\ runIatiChecks' = [runIatiChecks EXCEPT ![p] = editor[e].flag]
        /\ editor' = [editor EXCEPT ![e] = [at |-> "written", project |-> p]]
        /\ IF Saves(p) \subseteq {e} /\ editor[e].at # "begun"
             THEN mixed' = mixed \ {p} ELSE Meets(e, p)
        /\ UNCHANGED <<checks, cached, checker, reader, kills, overtaken, outdated>>

\* save(update_fields=['run_iati_checks'])
Schedule(e) ==
    LET p == editor[e].project
    IN  /\ LastDue(e) /\ ~editor[e].whole
        /\ runIatiChecks' = [runIatiChecks EXCEPT ![p] = TRUE]
        /\ editor' = [editor EXCEPT ![e] = None]
        /\ unscheduled' = unscheduled \ {p}
        /\ UNCHANGED <<version, iatiStatus, status, checks, cached, checker, reader, kills,
                       undropped, overtaken, outdated, mixed>>

-----------------------------------------------------------------------------
(* Runs of the checks.                                                      *)

\* All flagged projects are read in one query.
StartRun(c) ==
    LET flagged == {p \in Project : runIatiChecks[p]}
    IN  /\ checker[c] = Off
        /\ flagged # {}
        /\ checker' = [checker EXCEPT ![c].rows = [p \in flagged |-> RowOf(p)]]
        /\ UNCHANGED <<project, checks, cached, editor, reader, kills, history>>

\* check_mandatory_fields of the next project, with its related objects as they
\* are now.  The list of the IATI section leaves iati_status out of its query:
\* it is read here.  A check that raises ends the run.
PerformChecks(c) ==
    LET p == Following(c)
        kept == checker[c].rows
        read == IF c \in View THEN [kept EXCEPT ![p] = [iatiStatus |-> iatiStatus[p],
                                                       status |-> kept[p].status]]
                ELSE kept
    IN  /\ checker[c] # Off /\ checker[c].found = None
        /\ checker' = [checker EXCEPT ![c] =
               IF p \in Broken THEN Off ELSE [rows |-> read, found |-> version[p],
                                                 orig |-> None]]
        /\ UNCHANGED <<project, checks, cached, editor, reader, kills, history>>

\* The save of the flag reads orig, in the transaction of update_iati_checks.
BeginStore(c) ==
    LET p == Following(c)
    IN  /\ checker[c].found # None /\ checker[c].orig = None
        /\ checker' = [checker EXCEPT ![c].orig = RowOf(p)]
        /\ Takes(p, checker[c].rows[p])
        /\ UNCHANGED <<project, checks, cached, editor, reader, kills, undropped,
                       unscheduled, overtaken, outdated>>

\* The next project of the list, once the checks of p are stored.
GoOn(c, p) ==
    /\ checks' = [checks EXCEPT ![p] = checker[c].found]
    /\ checker' = [checker EXCEPT ![c] =
           [rows |-> [q \in DOMAIN @.rows \ {p} |-> @.rows[q]], found |-> None,
            orig |-> None]]
    /\ overtaken' = IF checker[c].found # version[p]
                      THEN overtaken \cup {p} ELSE overtaken \ {p}

\* Mutated forms of StoreChecks: the flag is not cleared, or those of the whole
\* list are.
StoreChecksOnly(c) ==
    /\ checker[c].orig # None
    /\ GoOn(c, Following(c))
    /\ UNCHANGED <<project, cached, editor, reader, kills, undropped, unscheduled,
                   outdated, mixed>>

StoreChecksClearAll(c) ==
    /\ checker[c].orig # None
    /\ GoOn(c, Following(c))
    /\ runIatiChecks' = [q \in Project |->
           q \notin DOMAIN checker[c].rows /\ runIatiChecks[q]]
    /\ UNCHANGED <<version, iatiStatus, status, cached, editor, reader, kills,
                   undropped, unscheduled, outdated, mixed>>

\* The transaction of update_iati_checks is committed: old checks out, new ones in,
\* the flag cleared on the row read at the start of the run, with the statuses that
\* its save writes.
StoreChecks(c) ==
    LET p == Following(c)
        orig == checker[c].orig
        held == checker[c].rows[p]
        row == StatusFollows(held, orig)
    IN  /\ orig # None
        /\ GoOn(c, p)
        /\ runIatiChecks' = [runIatiChecks EXCEPT ![p] = FALSE]
        /\ status' = [status EXCEPT ![p] =
               IF held.iatiStatus # orig.iatiStatus THEN row.status ELSE @]
        /\ iatiStatus' = [iatiStatus EXCEPT ![p] =
               IF row.status # orig.status THEN IatiFollows(row, orig).iatiStatus ELSE @]
        /\ IF held = orig THEN mixed' = mixed ELSE Meets(c, p)
        /\ UNCHANGED <<version, cached, editor, reader, kills, undropped, unscheduled,
                       outdated>>

-----------------------------------------------------------------------------
(* The directory: serialized_project under cache_with_key.                  *)

\* A miss: the project is serialized from the database.
Miss(r, p) ==
    /\ reader[r] = None
    /\ cached[p] = None
    /\ reader' = [reader EXCEPT ![r] = [project |-> p, seen |-> version[p]]]
    /\ UNCHANGED <<project, checks, cached, editor, checker, kills, history>>

\* populate_project_directory_cache deletes the entry and fills it again.
Populate(r, p) ==
    /\ reader[r] = None
    /\ cached' = [cached EXCEPT ![p] = None]
    /\ reader' = [reader EXCEPT ![r] = [project |-> p, seen |-> version[p]]]
    /\ undropped' = undropped \ {p}
    /\ outdated' = outdated \ {p}
    /\ UNCHANGED <<project, checks, editor, checker, kills, unscheduled, overtaken,
                   mixed>>

\* cache.set, without a timeout, of what was serialized.
Fill(r) ==
    LET p == reader[r].project
    IN  /\ reader[r] # None
        /\ cached' = [cached EXCEPT ![p] = reader[r].seen]
        /\ reader' = [reader EXCEPT ![r] = None]
        /\ outdated' = IF reader[r].seen # version[p]
                         THEN outdated \cup {p} ELSE outdated \ {p}
        /\ UNCHANGED <<project, checks, editor, checker, kills, undropped,
                       unscheduled, overtaken, mixed>>

-----------------------------------------------------------------------------
\* A request or a run dies where it is: a save may be cut short after a status was
\* written, a PATCH after the IATI status, which the checks read, was.
KillEditor(e) ==
    LET p == editor[e].project
    IN  /\ editor[e] # None
        /\ editor' = [editor EXCEPT ![e] = None]
        /\ mixed' = IF At(e, {"statusWritten", "iatiWritten"}) THEN mixed \cup {p} ELSE mixed
        /\ IF At(e, {"iatiWritten"}) /\ editor[e].whole
             THEN Edited(p) ELSE UNCHANGED <<version, undropped, unscheduled>>
        /\ UNCHANGED <<checker, reader>>

Kill ==
    /\ kills < MaxKills
    /\ kills' = kills + 1
    /\ \/ \E e \in Editor : KillEditor(e)
       \/ \E c \in Checker : checker[c] # Off /\ checker' = [checker EXCEPT ![c] = Off]
          /\ UNCHANGED <<editor, reader, version, undropped, unscheduled, mixed>>
       \/ \E r \in Reader : reader[r] # None /\ reader' = [reader EXCEPT ![r] = None]
          /\ UNCHANGED <<editor, checker, version, undropped, unscheduled, mixed>>
    /\ UNCHANGED <<iatiStatus, status, runIatiChecks, checks, cached, overtaken, outdated>>

Next ==
    \/ \E e \in Editor, p \in Project : WriteObject(e, p)
    \/ \E e \in Editor, p \in Patched, code \in Code : OpenPatch(e, p, code)
    \/ \E e \in Editor : BeginSave(e) \/ WriteStatus(e) \/ WriteIati(e)
    \/ \E e \in Editor : SavePatch(e)
    \/ \E e \in Editor : DropEntry(e)
    \/ \E e \in Editor : Schedule(e)
    \/ \E c \in Checker : StartRun(c)
    \/ \E c \in Checker : PerformChecks(c)
    \/ \E c \in Checker : BeginStore(c)
    \/ \E c \in Checker : StoreChecks(c)
    \/ \E r \in Reader, p \in Project : Miss(r, p)
    \/ \E r \in Reader, p \in Project : Populate(r, p)
    \/ \E r \in Reader : Fill(r)
    \/ Kill

Spec == Init /\ [][Next]_vars

\* Cron starts perform_iati_checks every five minutes, and a run goes on; nobody
\* has to look at the lists or to edit.
FairSpec ==
    /\ Spec
    /\ \A c \in Command : /\ WF_vars(StartRun(c)) /\ WF_vars(PerformChecks(c))
                          /\ WF_vars(BeginStore(c)) /\ WF_vars(StoreChecks(c))

-----------------------------------------------------------------------------
(* Properties.                                                              *)

\* A project that is not flagged has the checks of its latest edit, unless no
\* flag was set since (the request is not there yet or was killed) or the last
\* checks stored were computed before the edit.  No other order of the steps of
\* concurrent requests, of runs that overlap and of killed runs loses an edit.
UnflaggedIsChecked ==
    \A p \in Project \ (unscheduled \cup overtaken) :
        runIatiChecks[p] \/ checks[p] = version[p]

\* The directory serves a project as it is, unless its entry was not dropped
\* since the last edit or was computed before the edit and stored after it: the
\* entry never times out, so nothing else corrects it.
DirectoryUpToDate ==
    \A p \in Project \ (undropped \cup outdated) : cached[p] \in {None, version[p]}

\* Between the writes of its saves, the two statuses of a project agree, although a
\* save of the flag writes both from a row that may be as old as a whole run of
\* checks: it may bring an old status back, but a pair that belongs together.  They
\* may differ only after a save was cut short, after a save wrote a status while
\* another of the project was under way, or after the flag was saved on a row with
\* statuses of different times (of the list of the IATI section, or read in the
\* middle of a save), until a save brings a new pair.
StatusesAgree ==
    \A p \in Project \ mixed :
        \/ Agree(RowOf(p))
        \/ \E e \in Editor : At(e, {"statusWritten", "iatiWritten"}) /\ editor[e].project = p

\* Flagged projects get their checks, whatever is edited and however runs
\* overlap: all of them but those behind one whose checks raise.
FlagIsServed ==
    \A p \in Project : (\A q \in Broken : q < p) =>
        (runIatiChecks[p] ~> ~runIatiChecks[p])
=============================================================================
