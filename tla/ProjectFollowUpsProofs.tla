------------------------ MODULE ProjectFollowUpsProofs ------------------------
(* Proofs about ProjectFollowUps, for any number of projects, editors, runs   *)
(* and readers.                                                               *)
EXTENDS ProjectFollowUps, FiniteSetTheorems, WellFoundedInduction, TLAPS

(* Statuses -------------------------------------------------------------------*)

\* Both conversions of statuses stay within the statuses there are, and a status is
\* that of its code.
LEMMA Codes ==
    /\ \A code \in DOMAIN CodeToStatus : CodeToStatus[code] \in Status
    /\ \A st \in Status : /\ StatusToCode[st] \in DOMAIN CodeToStatus
                         /\ CodeToStatus[StatusToCode[st]] = st
<1>1. Status = {"N", "H", "A", "C", "L"}
  BY DEF Status, CodeToStatus
<1>2. \A code \in DOMAIN CodeToStatus : CodeToStatus[code] \in Status
  BY DEF Status
<1>3. \A st \in {"N", "H", "A", "C", "L"} : /\ StatusToCode[st] \in DOMAIN CodeToStatus
                                          /\ CodeToStatus[StatusToCode[st]] = st
  BY DEF StatusToCode, CodeToStatus
<1>4. QED
  BY <1>1, <1>2, <1>3

\* What save makes of a row is a row; a status that follows makes a pair.
LEMMA StatusFollowsType ==
    ASSUME NEW row \in Row, NEW orig \in Row
    PROVE  /\ StatusFollows(row, orig) \in Row
           /\ StatusFollows(row, orig).iatiStatus = row.iatiStatus
           /\ row.iatiStatus # orig.iatiStatus => Agree(StatusFollows(row, orig))
           /\ row.iatiStatus = orig.iatiStatus => StatusFollows(row, orig) = row
<1>1. CodeToStatus[row.iatiStatus] \in Status
  BY Codes DEF Row
<1>2. QED
  BY <1>1 DEF StatusFollows, Row, Agree

\* So does an IATI status that follows.
LEMMA IatiFollowsType ==
    ASSUME NEW row \in Row, NEW orig \in Row
    PROVE  /\ IatiFollows(row, orig) \in Row
           /\ IatiFollows(row, orig).status = row.status
           /\ row.status # orig.status => Agree(IatiFollows(row, orig))
           /\ row.status = orig.status => IatiFollows(row, orig) = row
<1>1. /\ StatusToCode[row.status] \in DOMAIN CodeToStatus
      /\ CodeToStatus[StatusToCode[row.status]] = row.status
  BY Codes DEF Row
<1>2. QED
  BY <1>1 DEF IatiFollows, Row, Agree

\* The greatest element of a finite set of numbers: the one with the smallest set
\* of elements from it on.
LEMMA GreatestNatural ==
    ASSUME NEW T, T \subseteq Nat, IsFiniteSet(T), T # {}
    PROVE  \E n \in T : \A m \in T : m <= n
<1> DEFINE From(n) == {m \in T : n <= m}
           Sets == {From(n) : n \in T}
<1>1. IsWellFoundedOn(StrictSubsetOrdering(T), SUBSET T)
  <2>1. FiniteSubsetsOf(T) = SUBSET T
    BY FS_FiniteSubsetsOfFinite
  <2>2. IsWellFoundedOn(StrictSubsetOrdering(T), FiniteSubsetsOf(T))
    BY FS_StrictSubsetOrderingWellFounded, Zenon
  <2>3. QED
    BY <2>1, <2>2, Zenon
<1>2. Sets \subseteq SUBSET T /\ Sets # {}
  OBVIOUS
<1>3. PICK X \in Sets : \A Y \in Sets : ~(<<Y, X>> \in StrictSubsetOrdering(T))
  <2> HIDE DEF Sets
  <2>1. QED
    BY <1>1, <1>2, WFMin
<1>4. PICK n \in T : X = From(n)
  OBVIOUS
<1>5. ASSUME NEW m \in T, ~(m <= n)
      PROVE  FALSE
  <2>1. \A k \in T : k \in Nat
    OBVIOUS
  <2>2. From(m) \subseteq From(n) /\ n \in From(n) /\ n \notin From(m)
    <3>1. \A k \in T : m <= k => n <= k
      BY <1>5, <2>1
    <3>2. n <= n
      BY <2>1
    <3>3. QED
      BY <1>5, <2>1, <3>1, <3>2
  <2>3. <<From(m), From(n)>> \in StrictSubsetOrdering(T)
    BY <2>2 DEF StrictSubsetOrdering
  <2>4. QED
    BY <1>3, <1>4, <2>3
<1>6. QED
  BY <1>5

(* Types ----------------------------------------------------------------------*)

\* A run with projects left has a next one.
LEMMA FollowingType ==
    ASSUME FollowUpsAssumption, NEW c, DOMAIN checker[c].rows \subseteq Project,
           DOMAIN checker[c].rows # {}
    PROVE  Following(c) \in DOMAIN checker[c].rows
<1> DEFINE T == DOMAIN checker[c].rows
<1>1. T \subseteq Nat /\ IsFiniteSet(T) /\ T # {}
  BY FS_Subset DEF FollowUpsAssumption
<1> HIDE DEF T
<1>2. \E p \in T : \A q \in T : q <= p
  BY <1>1, GreatestNatural
<1>3. QED
  BY <1>2 DEF T, Following

\* Nothing in memory is of what is not written yet either.
NothingAhead ==
    /\ \A c \in Checker : checker[c].found # None => checker[c].found <= version[Following(c)]
    /\ \A r \in Reader : reader[r] # None => reader[r].seen <= version[reader[r].project]

\* A run with rows and a version is a run.
LEMMA RunType ==
    ASSUME NEW left \in SUBSET Project, NEW f \in [left -> Row], NEW n \in Nat \cup {None},
           NEW orig \in Row \cup {None}
    PROVE  [rows |-> f, found |-> n, orig |-> orig] \in Run
BY DEF Run

\* A run that is off has no project left.
LEMMA OffType == Off \in Run /\ Off.found = None /\ Off.orig = None /\ DOMAIN Off.rows = {}
<1>1. << >> \in [{} -> Row]
  OBVIOUS
<1>2. QED
  BY <1>1 DEF Off, Run

\* What a run consists of.
LEMMA RunFields ==
    ASSUME TypeOK, NEW c \in Checker
    PROVE  /\ checker[c] \in Run
           /\ checker[c].rows \in [DOMAIN checker[c].rows -> Row]
           /\ DOMAIN checker[c].rows \subseteq Project
           /\ checker[c].found \in Nat \cup {None} /\ checker[c].orig \in Row \cup {None}
           /\ checker[c].orig # None => checker[c].found # None
           /\ checker[c].found # None => DOMAIN checker[c].rows # {}
           /\ checker[c] # Off /\ checker[c].found = None => DOMAIN checker[c].rows # {}
<1>1. checker[c] \in Run
  BY DEF TypeOK
<1>2. PICK left \in SUBSET Project : checker[c].rows \in [left -> Row]
  BY <1>1 DEF Run
<1>3. DOMAIN checker[c].rows = left
  BY <1>2
<1>4. /\ checker[c].orig # None => checker[c].found # None
      /\ checker[c].found # None => DOMAIN checker[c].rows # {}
  BY DEF TypeOK
<1>5. checker[c].found = None /\ left = {} => checker[c] = Off
  BY <1>1, <1>2, <1>4 DEF Off, Run
<1>6. QED
  BY <1>1, <1>2, <1>3, <1>4, <1>5 DEF Run

\* The row of a project, as it is read, is a row.
LEMMA RowOfType == ASSUME TypeOK, NEW p \in Project PROVE RowOf(p) \in Row
BY DEF TypeOK, RowOf, Row

\* Where a request goes on.
LEMMA RequestType ==
    ASSUME NEW p \in Project
    PROVE  /\ [at |-> "written", project |-> p] \in Request
           /\ \A row \in Row, whole \in BOOLEAN, flag \in BOOLEAN :
                 [at |-> "held", project |-> p, whole |-> whole, flag |-> flag, row |-> row]
                    \in Request
BY DEF Request

\* What an editor's request consists of.
LEMMA RequestFields ==
    ASSUME TypeOK, NEW e \in Editor, editor[e] # None
    PROVE  /\ editor[e].project \in Project
           /\ editor[e].at \in {"written", "held", "begun", "statusWritten", "iatiWritten"}
           /\ editor[e].at # "written" => /\ editor[e].row \in Row
                                          /\ editor[e].whole \in BOOLEAN
                                          /\ editor[e].flag \in BOOLEAN
           /\ editor[e].at \in {"begun", "statusWritten", "iatiWritten"} =>
                 editor[e] \in Saving /\ editor[e].orig \in Row
<1>1. editor[e] \in Request
  BY DEF TypeOK
<1>2. QED
  BY <1>1 DEF Request, Saving

\* A save that goes on to its next write.
LEMMA SavingStep ==
    ASSUME NEW s \in Saving, NEW x \in {"statusWritten", "iatiWritten"}, NEW row \in Row
    PROVE  LET t == [[s EXCEPT !.at = x] EXCEPT !.row = row]
           IN  /\ t \in Saving /\ t \in Request
               /\ t.at = x /\ t.row = row /\ t.project = s.project /\ t.orig = s.orig
               /\ t.whole = s.whole /\ t.flag = s.flag
BY DEF Saving, Request

\* An edit that is written, and steps that write none: nothing computed before is
\* ahead of the version.
LEMMA EditedType ==
    ASSUME FollowUpsAssumption, TypeOK, NothingAhead, NEW p \in Project,
           Edited(p) \/ UNCHANGED <<version, undropped, unscheduled>>,
           UNCHANGED <<checks, cached, checker, reader>>
    PROVE  /\ version' \in [Project -> Nat]
           /\ undropped' \subseteq Project /\ unscheduled' \subseteq Project
           /\ \A q \in Project : checks[q] <= version'[q]
           /\ \A q \in Project : cached[q] = None \/ cached[q] <= version'[q]
           /\ NothingAhead'
<1>1. /\ version' \in [Project -> Nat]
      /\ \A q \in Project : version[q] \in Nat /\ version[q] <= version'[q]
  BY DEF TypeOK, Edited
<1>2. undropped' \subseteq Project /\ unscheduled' \subseteq Project
  BY DEF TypeOK, Edited
<1>3. \A q \in Project : checks[q] \in Nat /\ checks[q] <= version'[q]
  BY <1>1 DEF TypeOK
<1>4. \A q \in Project : cached[q] = None \/ cached[q] <= version'[q]
  <2>1. \A q \in Project : cached[q] # None => cached[q] \in Nat /\ cached[q] <= version[q]
    BY DEF TypeOK
  <2>2. QED
    BY <1>1, <2>1
<1>5. ASSUME NEW c \in Checker, checker[c].found # None
      PROVE  checker[c].found <= version'[Following(c)]
  <2> DEFINE q == Following(c)
             n == checker[c].found
  <2>1. q \in Project /\ n \in Nat
    BY <1>5, RunFields, FollowingType
  <2>2. n <= version[q]
    BY <1>5 DEF NothingAhead
  <2> HIDE DEF q, n
  <2>3. version[q] \in Nat /\ version'[q] \in Nat /\ version[q] <= version'[q]
    BY <1>1, <2>1
  <2>4. n <= version'[q]
    BY <2>1, <2>2, <2>3
  <2>5. QED
    BY <2>4 DEF n, q
<1>6. ASSUME NEW r \in Reader, reader[r] # None
      PROVE  reader[r].seen <= version'[reader[r].project]
  <2> DEFINE q == reader[r].project
             n == reader[r].seen
  <2>1. q \in Project /\ n \in Nat
    BY <1>6 DEF TypeOK, Filling
  <2>2. n <= version[q]
    BY <1>6 DEF NothingAhead
  <2> HIDE DEF q, n
  <2>3. version[q] \in Nat /\ version'[q] \in Nat /\ version[q] <= version'[q]
    BY <1>1, <2>1
  <2>4. n <= version'[q]
    BY <2>1, <2>2, <2>3
  <2>5. QED
    BY <2>4 DEF n, q
<1>7. NothingAhead'
  BY <1>5, <1>6 DEF NothingAhead, Following
<1>8. QED
  BY <1>1, <1>2, <1>3, <1>4, <1>7

\* A step of an editor keeps the types, if what it writes has them.
LEMMA EditorStep ==
    ASSUME FollowUpsAssumption, TypeOK, NothingAhead, NEW e \in Editor, NEW p \in Project,
           NEW i \in Request \cup {None}, editor' = [editor EXCEPT ![e] = i],
           Edited(p) \/ UNCHANGED <<version, undropped, unscheduled>>,
           iatiStatus' \in [Project -> DOMAIN CodeToStatus],
           status' \in [Project -> Status], runIatiChecks' \in [Project -> BOOLEAN],
           mixed' \subseteq Project, kills' \in 0 .. MaxKills,
           UNCHANGED <<checks, cached, checker, reader, overtaken, outdated>>
    PROVE  TypeOK' /\ NothingAhead'
<1>1. editor' \in [Editor -> Request \cup {None}]
  BY DEF TypeOK
<1>2. /\ version' \in [Project -> Nat]
      /\ undropped' \subseteq Project /\ unscheduled' \subseteq Project
      /\ \A q \in Project : checks[q] <= version'[q]
      /\ \A q \in Project : cached[q] = None \/ cached[q] <= version'[q]
      /\ NothingAhead'
  BY EditedType
<1>3. QED
  BY <1>1, <1>2 DEF TypeOK

\* The steps of editors keep the types.
LEMMA EditorTypes ==
    ASSUME FollowUpsAssumption, TypeOK, NothingAhead, NEW e \in Editor,
           \/ \E p \in Project : WriteObject(e, p)
           \/ \E p \in Project, code \in Code : OpenPatch(e, p, code)
           \/ BeginSave(e) \/ WriteStatus(e) \/ WriteIati(e) \/ SavePatch(e)
           \/ DropEntry(e)
           \/ Schedule(e)
    PROVE  TypeOK' /\ NothingAhead'
<1>0. /\ iatiStatus \in [Project -> DOMAIN CodeToStatus] /\ status \in [Project -> Status]
      /\ runIatiChecks \in [Project -> BOOLEAN] /\ mixed \subseteq Project
      /\ kills \in 0 .. MaxKills
  BY DEF TypeOK
<1>1. ASSUME NEW p \in Project, WriteObject(e, p)
      PROVE  TypeOK' /\ NothingAhead'
  <2> DEFINE i == [at |-> "written", project |-> p]
  <2>1. i \in Request
    BY RequestType
  <2>2. editor' = [editor EXCEPT ![e] = i] /\ Edited(p)
        /\ UNCHANGED <<iatiStatus, status, runIatiChecks, checks, cached, checker,
                       reader, kills, overtaken, outdated, mixed>>
    BY <1>1 DEF WriteObject
  <2> HIDE DEF i
  <2>3. QED
    BY <1>0, <2>1, <2>2, EditorStep
<1>2. ASSUME NEW p \in Project, NEW code \in Code, OpenPatch(e, p, code)
      PROVE  TypeOK' /\ NothingAhead'
  <2> DEFINE row == [iatiStatus |-> code, status |-> status[p]]
             i == [at |-> "held", project |-> p, whole |-> TRUE, flag |-> runIatiChecks[p],
                   row |-> row]
  <2>1. row \in Row
    BY <1>0 DEF Row, FollowUpsAssumption
  <2>2. i \in Request
    BY <1>0, <2>1, RequestType
  <2>3. editor' = [editor EXCEPT ![e] = i]
        /\ UNCHANGED <<project, checks, cached, checker, reader, kills, history>>
    BY <1>2 DEF OpenPatch
  <2> HIDE DEF i
  <2>4. QED
    BY <1>0, <2>2, <2>3, EditorStep DEF project, history
<1>3. CASE BeginSave(e)
  <2> DEFINE p == editor[e].project
             i == [at |-> "begun", project |-> p, row |-> editor[e].row,
                   whole |-> editor[e].whole, flag |-> editor[e].flag, orig |-> RowOf(p)]
  <2>1. /\ p \in Project /\ editor[e].row \in Row /\ editor[e].whole \in BOOLEAN
        /\ editor[e].flag \in BOOLEAN
    BY <1>3, RequestFields DEF BeginSave, At
  <2>2. i \in Request
    BY <2>1, RowOfType DEF Request, Saving
  <2>3. editor' = [editor EXCEPT ![e] = i] /\ mixed' \subseteq mixed \cup {p}
        /\ UNCHANGED <<project, checks, cached, checker, reader, kills, undropped,
                       unscheduled, overtaken, outdated>>
    BY <1>3 DEF BeginSave, Takes
  <2> HIDE DEF i
  <2>4. QED
    BY <1>0, <2>1, <2>2, <2>3, EditorStep DEF project
<1>4. CASE WriteStatus(e)
  <2> DEFINE p == editor[e].project
             row == StatusFollows(editor[e].row, editor[e].orig)
             i == [[editor[e] EXCEPT !.at = "statusWritten"] EXCEPT !.row = row]
  <2>1. p \in Project /\ editor[e] \in Saving /\ editor[e].row \in Row /\ editor[e].orig \in Row
    BY <1>4, RequestFields DEF WriteStatus, StatusDue, At
  <2>2. row \in Row /\ row.status \in Status
    BY <2>1, StatusFollowsType DEF Row
  <2>3. /\ editor' = [editor EXCEPT ![e] = i] /\ mixed' \subseteq mixed \cup {p}
        /\ status' = [status EXCEPT ![p] = row.status]
        /\ UNCHANGED <<version, iatiStatus, runIatiChecks, checks, cached, checker, reader,
                       kills, undropped, unscheduled, overtaken, outdated>>
    BY <1>4 DEF WriteStatus, Meets
  <2> HIDE DEF row
  <2>4. i \in Request
    BY <2>1, <2>2, SavingStep
  <2> HIDE DEF i, p
  <2>5. status' \in [Project -> Status] /\ mixed' \subseteq Project
    BY <1>0, <2>1, <2>2, <2>3
  <2>6. QED
    BY <1>0, <2>1, <2>3, <2>4, <2>5, EditorStep
<1>5. CASE WriteIati(e)
  <2> DEFINE p == editor[e].project
             row == IatiFollows(editor[e].row, editor[e].orig)
             i == [[editor[e] EXCEPT !.at = "iatiWritten"] EXCEPT !.row = row]
  <2>1. p \in Project /\ editor[e] \in Saving /\ editor[e].row \in Row /\ editor[e].orig \in Row
    BY <1>5, RequestFields DEF WriteIati, IatiDue, At
  <2>2. row \in Row /\ row.iatiStatus \in DOMAIN CodeToStatus
    BY <2>1, IatiFollowsType DEF Row
  <2>3. /\ editor' = [editor EXCEPT ![e] = i] /\ mixed' \subseteq mixed \cup {p}
        /\ iatiStatus' = [iatiStatus EXCEPT ![p] = row.iatiStatus]
        /\ UNCHANGED <<version, status, runIatiChecks, checks, cached, checker, reader,
                       kills, undropped, unscheduled, overtaken, outdated>>
    BY <1>5 DEF WriteIati, Meets
  <2> HIDE DEF row
  <2>4. i \in Request
    BY <2>1, <2>2, SavingStep
  <2> HIDE DEF i, p
  <2>5. iatiStatus' \in [Project -> DOMAIN CodeToStatus] /\ mixed' \subseteq Project
    BY <1>0, <2>1, <2>2, <2>3
  <2>6. QED
    BY <1>0, <2>1, <2>3, <2>4, <2>5, EditorStep
<1>6. CASE SavePatch(e)
  <2> DEFINE p == editor[e].project
             i == [at |-> "written", project |-> p]
  <2>1. p \in Project /\ editor[e].row \in Row /\ editor[e].flag \in BOOLEAN
    BY <1>6, RequestFields DEF SavePatch, LastDue, At
  <2>2. i \in Request
    BY <2>1, RequestType
  <2>3. /\ editor' = [editor EXCEPT ![e] = i] /\ Edited(p) /\ mixed' \subseteq mixed \cup {p}
        /\ iatiStatus' = [iatiStatus EXCEPT ![p] = editor[e].row.iatiStatus]
        /\ status' = [status EXCEPT ![p] = editor[e].row.status]
        /\ runIatiChecks' = [runIatiChecks EXCEPT ![p] = editor[e].flag]
        /\ UNCHANGED <<checks, cached, checker, reader, kills, overtaken, outdated>>
    BY <1>6 DEF SavePatch, Meets
  <2>4. /\ iatiStatus' \in [Project -> DOMAIN CodeToStatus] /\ status' \in [Project -> Status]
        /\ runIatiChecks' \in [Project -> BOOLEAN] /\ mixed' \subseteq Project
    BY <1>0, <2>1, <2>3 DEF Row
  <2> HIDE DEF i, p
  <2>5. QED
    BY <1>0, <2>1, <2>2, <2>3, <2>4, EditorStep
<1>7. CASE DropEntry(e)
  <2> DEFINE p == editor[e].project
             i == [at |-> "held", project |-> p, whole |-> FALSE, flag |-> TRUE,
                   row |-> RowOf(p)]
  <2>1. p \in Project
    BY <1>7, RequestFields DEF DropEntry
  <2>2. i \in Request
    BY <2>1, RowOfType, RequestType
  <2>3. editor' = [editor EXCEPT ![e] = i] /\ UNCHANGED <<version, checker, reader>>
    BY <1>7 DEF DropEntry, project
  <2> HIDE DEF i
  <2>4. editor' \in [Editor -> Request \cup {None}]
    BY <2>2, <2>3 DEF TypeOK
  <2>5. TypeOK'
    BY <1>7, <2>1, <2>4 DEF DropEntry, TypeOK, project
  <2>6. NothingAhead'
    BY <2>3 DEF NothingAhead, Following
  <2>7. QED
    BY <2>5, <2>6
<1>8. CASE Schedule(e)
  <2> DEFINE p == editor[e].project
  <2>1. p \in Project /\ editor[e].flag \in BOOLEAN
    BY <1>8, RequestFields DEF Schedule, LastDue, At
  <2>2. runIatiChecks' \in [Project -> BOOLEAN] /\ unscheduled' \subseteq Project
    BY <1>0, <1>8, <2>1 DEF Schedule, TypeOK
  <2>3. TypeOK'
    BY <1>8, <2>2 DEF Schedule, TypeOK
  <2>4. NothingAhead'
    BY <1>8 DEF Schedule, NothingAhead, Following
  <2>5. QED
    BY <2>3, <2>4
<1>9. QED
  BY <1>1, <1>2, <1>3, <1>4, <1>5, <1>6, <1>7, <1>8

\* A step of one run leaves the others and all but what it stores alone.
LEMMA RunKept ==
    ASSUME TypeOK, NothingAhead, NEW c \in Checker, NEW i \in Run,
           checker' = [checker EXCEPT ![c] = i], UNCHANGED <<version, reader>>,
           i.found # None => i.found <= version[Following(c)'] /\ DOMAIN i.rows # {},
           i.orig # None => i.found # None
    PROVE  /\ checker' \in [Checker -> Run]
           /\ \A d \in Checker : checker'[d].found # None => DOMAIN checker'[d].rows # {}
           /\ \A d \in Checker : checker'[d].orig # None => checker'[d].found # None
           /\ NothingAhead'
<1>1. checker' \in [Checker -> Run] /\ checker'[c] = i
      /\ \A d \in Checker : d # c => checker'[d] = checker[d]
  BY DEF TypeOK
<1>2. \A d \in Checker : d # c => Following(d)' = Following(d)
  BY <1>1 DEF Following
<1>3. QED
  BY <1>1, <1>2 DEF NothingAhead, TypeOK

\* The steps of runs of the checks keep the types.
LEMMA CheckerTypes ==
    ASSUME FollowUpsAssumption, TypeOK, NothingAhead, NEW c \in Checker,
           StartRun(c) \/ PerformChecks(c) \/ BeginStore(c) \/ StoreChecks(c)
    PROVE  TypeOK' /\ NothingAhead'
<1>1. CASE StartRun(c)
  <2> DEFINE flagged == {p \in Project : runIatiChecks[p]}
             i == [rows |-> [p \in flagged |-> RowOf(p)], found |-> None, orig |-> None]
  <2>1. i \in Run
    BY RowOfType, RunType
  <2>2. checker' = [checker EXCEPT ![c] = i]
    <3> HIDE DEF flagged
    <3>1. checker' = [checker EXCEPT ![c] = [checker[c] EXCEPT !.rows =
                         [p \in flagged |-> RowOf(p)]]]
      BY <1>1 DEF StartRun, flagged
    <3>2. [Off EXCEPT !.rows = [p \in flagged |-> RowOf(p)]] = i
      BY DEF Off
    <3>3. checker[c] = Off
      BY <1>1 DEF StartRun
    <3>4. QED
      BY <3>1, <3>2, <3>3
  <2>3. i.found = None /\ i.orig = None /\ UNCHANGED <<version, reader>>
    BY <1>1 DEF StartRun, project
  <2> HIDE DEF i
  <2>4. /\ checker' \in [Checker -> Run]
        /\ \A d \in Checker : checker'[d].found # None => DOMAIN checker'[d].rows # {}
        /\ \A d \in Checker : checker'[d].orig # None => checker'[d].found # None
        /\ NothingAhead'
    BY <2>1, <2>2, <2>3, RunKept
  <2>5. QED
    BY <1>1, <2>4 DEF StartRun, TypeOK, project, history
<1>2. CASE PerformChecks(c)
  <2> DEFINE p == Following(c)
             kept == checker[c].rows
             read == IF c \in View THEN [kept EXCEPT ![p] = [iatiStatus |-> iatiStatus[p],
                                                           status |-> kept[p].status]]
                     ELSE kept
             i == [rows |-> read, found |-> version[p], orig |-> None]
  <2>1. DOMAIN kept \subseteq Project /\ kept \in [DOMAIN kept -> Row] /\ DOMAIN kept # {}
    BY <1>2, RunFields DEF PerformChecks
  <2>2. p \in DOMAIN kept
    BY <2>1, FollowingType
  <2>3. read \in [DOMAIN kept -> Row]
    <3>1. [iatiStatus |-> iatiStatus[p], status |-> kept[p].status] \in Row
      BY <2>1, <2>2 DEF Row, TypeOK
    <3>2. QED
      BY <2>1, <3>1
  <2>4. version[p] \in Nat /\ version[p] <= version[p]
    <3>1. p \in Project
      BY <2>1, <2>2
    <3> HIDE DEF p
    <3>2. QED
      BY <3>1 DEF TypeOK
  <2>5. /\ i \in Run /\ i.found = version[p] /\ i.orig = None /\ i.rows = read
        /\ DOMAIN i.rows = DOMAIN kept
    <3> HIDE DEF read
    <3>1. i \in Run
      BY <2>1, <2>3, <2>4, RunType
    <3>2. QED
      BY <2>3, <3>1
  <2> HIDE DEF i, read
  <2>6. CASE p \in Broken
    <3>1. checker' = [checker EXCEPT ![c] = Off] /\ UNCHANGED <<version, reader>>
      BY <1>2, <2>6 DEF PerformChecks, project
    <3>2. /\ checker' \in [Checker -> Run]
          /\ \A d \in Checker : checker'[d].found # None => DOMAIN checker'[d].rows # {}
          /\ \A d \in Checker : checker'[d].orig # None => checker'[d].found # None
          /\ NothingAhead'
      BY <3>1, OffType, RunKept
    <3>3. QED
      BY <1>2, <3>2 DEF PerformChecks, TypeOK, project, history
  <2>7. CASE p \notin Broken
    <3>1. checker' = [checker EXCEPT ![c] = i] /\ UNCHANGED <<version, reader>>
      BY <1>2, <2>7 DEF PerformChecks, project, i, read
    <3>2. checker'[c] = i
      BY <3>1 DEF TypeOK
    <3>3. Following(c)' = p
      BY <2>5, <3>2 DEF Following
    <3>4. /\ checker' \in [Checker -> Run]
          /\ \A d \in Checker : checker'[d].found # None => DOMAIN checker'[d].rows # {}
          /\ \A d \in Checker : checker'[d].orig # None => checker'[d].found # None
          /\ NothingAhead'
      BY <2>1, <2>4, <2>5, <3>1, <3>3, RunKept
    <3>5. QED
      BY <1>2, <3>4 DEF PerformChecks, TypeOK, project, history
  <2>8. QED
    BY <2>6, <2>7
<1>3. CASE BeginStore(c)
  <2> DEFINE p == Following(c)
             i == [checker[c] EXCEPT !.orig = RowOf(p)]
  <2>1. DOMAIN checker[c].rows \subseteq Project /\ DOMAIN checker[c].rows # {}
        /\ checker[c] \in Run /\ checker[c].found # None
    BY <1>3, RunFields DEF BeginStore
  <2>2. p \in Project
    BY <2>1, FollowingType
  <2>3. /\ i \in Run /\ i.rows = checker[c].rows /\ i.found = checker[c].found
    BY <2>1, <2>2, RowOfType DEF Run
  <2>4. checker' = [checker EXCEPT ![c] = i] /\ UNCHANGED <<version, reader>>
        /\ mixed' \subseteq mixed \cup {p}
    BY <1>3 DEF BeginStore, project, Takes
  <2>5. Following(c)' = p
    BY <2>3, <2>4 DEF Following, TypeOK
  <2>6. i.found <= version[p]
    BY <2>1, <2>3 DEF NothingAhead
  <2> HIDE DEF i, p
  <2>7. /\ checker' \in [Checker -> Run]
        /\ \A d \in Checker : checker'[d].found # None => DOMAIN checker'[d].rows # {}
        /\ \A d \in Checker : checker'[d].orig # None => checker'[d].found # None
        /\ NothingAhead'
    BY <2>1, <2>3, <2>4, <2>5, <2>6, RunKept
  <2>8. QED
    BY <1>3, <2>2, <2>4, <2>7 DEF BeginStore, TypeOK, project
<1>4. CASE StoreChecks(c)
  <2> DEFINE p == Following(c)
             kept == checker[c].rows
             left == DOMAIN kept \ {p}
             i == [rows |-> [q \in left |-> kept[q]], found |-> None, orig |-> None]
  <2>1. /\ DOMAIN kept \subseteq Project /\ kept \in [DOMAIN kept -> Row]
        /\ DOMAIN kept # {} /\ checker[c].found \in Nat /\ checker[c].found # None
        /\ checker[c].orig \in Row
    BY <1>4, RunFields DEF StoreChecks, FollowUpsAssumption
  <2>2. p \in DOMAIN kept
    BY <2>1, FollowingType
  <2>3. i \in Run /\ i.found = None /\ i.orig = None
    BY <2>1, RunType
  <2>4. checker' = [checker EXCEPT ![c] = i] /\ UNCHANGED <<version, reader>>
    BY <1>4 DEF StoreChecks, GoOn, TypeOK
  <2> HIDE DEF i
  <2>5. /\ checker' \in [Checker -> Run]
        /\ \A d \in Checker : checker'[d].found # None => DOMAIN checker'[d].rows # {}
        /\ \A d \in Checker : checker'[d].orig # None => checker'[d].found # None
        /\ NothingAhead'
    BY <2>3, <2>4, RunKept
  <2>6. /\ runIatiChecks' \in [Project -> BOOLEAN]
        /\ iatiStatus' \in [Project -> DOMAIN CodeToStatus]
        /\ status' \in [Project -> Status]
        /\ mixed' \subseteq Project
    <3> DEFINE orig == checker[c].orig
               row == StatusFollows(kept[p], orig)
               st == row.status
               code == IatiFollows(row, orig).iatiStatus
    <3>1. p \in Project /\ kept[p] \in Row /\ orig \in Row
      BY <2>1, <2>2
    <3>2. row \in Row
      BY <3>1, StatusFollowsType
    <3>3. st \in Status /\ code \in DOMAIN CodeToStatus
      BY <3>1, <3>2, IatiFollowsType DEF Row
    <3>4. /\ runIatiChecks' = [runIatiChecks EXCEPT ![p] = FALSE]
          /\ status' = [status EXCEPT ![p] =
                 IF kept[p].iatiStatus # orig.iatiStatus THEN st ELSE status[p]]
          /\ iatiStatus' = [iatiStatus EXCEPT ![p] =
                 IF st # orig.status THEN code ELSE iatiStatus[p]]
          /\ mixed' \subseteq mixed \cup {p}
      BY <1>4 DEF StoreChecks, Meets
    <3> HIDE DEF st, code, p, kept
    <3>5. QED
      BY <3>1, <3>3, <3>4 DEF TypeOK
  <2>7. checks' \in [Project -> Nat] /\ \A q \in Project : checks'[q] <= version[q]
    <3>1. checker[c].found <= version[p]
      BY <2>1 DEF NothingAhead
    <3>2. QED
      BY <1>4, <2>1, <3>1 DEF StoreChecks, GoOn, TypeOK
  <2>8. overtaken' \subseteq Project
    BY <1>4, <2>1, <2>2 DEF StoreChecks, GoOn, TypeOK
  <2> HIDE DEF p, kept, left
  <2>9. QED
    BY <1>4, <2>5, <2>6, <2>7, <2>8 DEF StoreChecks, GoOn, TypeOK
<1>5. QED
  BY <1>1, <1>2, <1>3, <1>4

\* The steps of fills of the cache keep the types.
LEMMA ReaderTypes ==
    ASSUME TypeOK, NothingAhead, NEW r \in Reader,
           (\E p \in Project : Miss(r, p) \/ Populate(r, p)) \/ Fill(r)
    PROVE  TypeOK' /\ NothingAhead'
<1>1. ASSUME NEW p \in Project, Miss(r, p) \/ Populate(r, p)
      PROVE  TypeOK' /\ NothingAhead'
  <2> DEFINE i == [project |-> p, seen |-> version[p]]
  <2>1. version[p] \in Nat /\ version[p] <= version[p]
    BY DEF TypeOK
  <2>2. i \in Filling /\ i.project = p /\ i.seen = version[p]
    BY <2>1 DEF Filling
  <2>3. reader' = [reader EXCEPT ![r] = i] /\ UNCHANGED <<version, checker>>
    BY <1>1 DEF Miss, Populate, project
  <2> HIDE DEF i
  <2>4. reader' \in [Reader -> Filling \cup {None}]
    BY <2>2, <2>3 DEF TypeOK
  <2>5. TypeOK'
    <3>1. /\ cached' \in [Project -> Nat \cup {None}]
          /\ \A q \in Project : cached'[q] = None \/ cached'[q] <= version[q]
      BY <1>1 DEF Miss, Populate, TypeOK
    <3>2. QED
      BY <1>1, <2>3, <2>4, <3>1 DEF Miss, Populate, TypeOK, project, history
  <2>6. NothingAhead'
    BY <2>1, <2>2, <2>3 DEF TypeOK, NothingAhead, Following
  <2>7. QED
    BY <2>5, <2>6
<1>2. CASE Fill(r)
  <2>1. reader[r].project \in Project /\ reader[r].seen \in Nat
        /\ reader[r].seen <= version[reader[r].project]
    BY <1>2 DEF Fill, TypeOK, Filling, NothingAhead
  <2>2. TypeOK'
    BY <1>2, <2>1 DEF Fill, TypeOK, project
  <2>3. NothingAhead'
    BY <1>2 DEF Fill, TypeOK, NothingAhead, Following, project
  <2>4. QED
    BY <2>2, <2>3
<1>3. QED
  BY <1>1, <1>2

\* A killed request or run leaves the types as they are.
LEMMA KillTypes == ASSUME FollowUpsAssumption, TypeOK, NothingAhead, Kill
                   PROVE  TypeOK' /\ NothingAhead'
<1>1. kills' \in 0 .. MaxKills
  BY DEF Kill, TypeOK, FollowUpsAssumption
<1>2. UNCHANGED <<iatiStatus, status, runIatiChecks, checks, cached, overtaken, outdated>>
  BY DEF Kill
<1>3. ASSUME NEW c \in Checker, checker' = [checker EXCEPT ![c] = Off],
             UNCHANGED <<editor, reader, version, undropped, unscheduled, mixed>>
      PROVE  TypeOK' /\ NothingAhead'
  <2>1. /\ checker' \in [Checker -> Run]
        /\ \A d \in Checker : checker'[d].found # None => DOMAIN checker'[d].rows # {}
        /\ \A d \in Checker : checker'[d].orig # None => checker'[d].found # None
        /\ NothingAhead'
    BY <1>2, <1>3, OffType, RunKept
  <2>2. QED
    BY <1>1, <1>2, <1>3, <2>1 DEF TypeOK
<1>4. ASSUME NEW e \in Editor, KillEditor(e)
      PROVE  TypeOK' /\ NothingAhead'
  <2> DEFINE p == editor[e].project
  <2>1. p \in Project
    BY <1>4, RequestFields DEF KillEditor
  <2>2. /\ editor' = [editor EXCEPT ![e] = None] /\ mixed' \subseteq mixed \cup {p}
        /\ Edited(p) \/ UNCHANGED <<version, undropped, unscheduled>>
        /\ UNCHANGED <<checker, reader>>
    BY <1>4 DEF KillEditor
  <2> HIDE DEF p
  <2>3. /\ iatiStatus' \in [Project -> DOMAIN CodeToStatus] /\ status' \in [Project -> Status]
        /\ runIatiChecks' \in [Project -> BOOLEAN] /\ mixed' \subseteq Project
    BY <1>2, <2>1, <2>2 DEF TypeOK
  <2>4. QED
    BY <1>1, <1>2, <2>1, <2>2, <2>3, EditorStep
<1>5. ASSUME NEW r \in Reader, reader' = [reader EXCEPT ![r] = None],
             UNCHANGED <<editor, checker, version, undropped, unscheduled, mixed>>
      PROVE  TypeOK' /\ NothingAhead'
  BY <1>1, <1>2, <1>5 DEF TypeOK, NothingAhead, Following
<1>6. QED
  BY <1>3, <1>4, <1>5 DEF Kill

\* Every step keeps the types and computes from versions that were written.
LEMMA FollowUpsTypeStep == TypeOK /\ NothingAhead /\ [Next]_vars => TypeOK' /\ NothingAhead'
<1> SUFFICES ASSUME TypeOK, NothingAhead, [Next]_vars
             PROVE  TypeOK' /\ NothingAhead'
  OBVIOUS
<1> USE FollowUpsAssumption
<1>1. CASE UNCHANGED vars
  BY <1>1 DEF vars, project, history, TypeOK, NothingAhead, Following
<1>2. CASE Next
  <2>1. Patched \subseteq Project
    BY DEF FollowUpsAssumption
  <2>2. QED
    BY <1>2, <2>1, EditorTypes, CheckerTypes, ReaderTypes, KillTypes DEF Next
<1>3. QED
  BY <1>1, <1>2

\* At the start nothing is under way, and nothing is newer than the projects.
LEMMA FollowUpsTypeInit == Init => TypeOK /\ NothingAhead
<1> SUFFICES ASSUME Init
             PROVE  TypeOK /\ NothingAhead
  OBVIOUS
<1> USE FollowUpsAssumption
<1>1. /\ checker \in [Checker -> Run]
      /\ \A c \in Checker : checker[c].found = None /\ checker[c].orig = None
  BY OffType DEF Init
<1>2. "2" \in DOMAIN CodeToStatus /\ "A" \in Status
  BY DEF CodeToStatus, Status
<1>3. /\ iatiStatus \in [Project -> DOMAIN CodeToStatus]
      /\ status \in [Project -> Status]
  BY <1>2 DEF Init
<1>4. /\ version \in [Project -> Nat] /\ checks \in [Project -> Nat]
      /\ cached \in [Project -> Nat \cup {None}] /\ kills \in 0 .. MaxKills
      /\ \A p \in Project : checks[p] <= version[p] /\ cached[p] = None
  BY DEF Init, FollowUpsAssumption
<1>5. TypeOK
  BY <1>1, <1>3, <1>4 DEF Init, TypeOK
<1>6. NothingAhead
  BY <1>1 DEF Init, NothingAhead
<1>7. QED
  BY <1>5, <1>6

\* However edits, runs and fills interleave and die: what the checks, the cache and
\* the workers hold was computed from a version that was written, and each run
\* goes on with a project of its list.
THEOREM FollowUpsTypes == Spec => []TypeOK
<1>1. Init => TypeOK /\ NothingAhead
  BY FollowUpsTypeInit
<1>2. TypeOK /\ NothingAhead /\ [Next]_vars => TypeOK' /\ NothingAhead'
  BY FollowUpsTypeStep
<1>3. QED
  BY <1>1, <1>2, PTL DEF Spec

(* Checks and cache -------------------------------------------------------------*)

\* A run's step on a project with a list.
LEMMA Stored ==
    ASSUME FollowUpsAssumption, TypeOK, NEW c \in Checker, StoreChecks(c)
    PROVE  /\ Following(c) \in Project
           /\ checker[c].rows[Following(c)] \in Row
<1>1. /\ DOMAIN checker[c].rows \subseteq Project /\ DOMAIN checker[c].rows # {}
      /\ checker[c].rows \in [DOMAIN checker[c].rows -> Row]
  BY RunFields DEF StoreChecks
<1>2. Following(c) \in DOMAIN checker[c].rows
  BY <1>1, FollowingType
<1>3. QED
  BY <1>1, <1>2

\* Checks are lost by the two orders named only.
LEMMA CheckedStep == TypeOK /\ UnflaggedIsChecked /\ [Next]_vars => UnflaggedIsChecked'
<1> SUFFICES ASSUME TypeOK, UnflaggedIsChecked, [Next]_vars
             PROVE  UnflaggedIsChecked'
  OBVIOUS
<1> USE FollowUpsAssumption
<1>1. CASE UNCHANGED <<version, runIatiChecks, checks, unscheduled, overtaken>>
  BY <1>1 DEF UnflaggedIsChecked
<1>2. ASSUME NEW p \in Project, Edited(p), UNCHANGED <<checks, overtaken>>,
             \A q \in Project : q # p => runIatiChecks'[q] = runIatiChecks[q]
      PROVE  UnflaggedIsChecked'
  BY <1>2 DEF Edited, UnflaggedIsChecked, TypeOK
<1>3. ASSUME NEW e \in Editor, NEW p \in Project, WriteObject(e, p)
      PROVE  UnflaggedIsChecked'
  BY <1>2, <1>3 DEF WriteObject
<1>4. ASSUME NEW e \in Editor, SavePatch(e)
      PROVE  UnflaggedIsChecked'
  <2>1. editor[e].project \in Project
    BY <1>4, RequestFields DEF SavePatch, LastDue, At
  <2>2. /\ Edited(editor[e].project) /\ UNCHANGED <<checks, overtaken>>
        /\ \A q \in Project : q # editor[e].project => runIatiChecks'[q] = runIatiChecks[q]
    BY <1>4 DEF SavePatch, TypeOK
  <2>3. QED
    BY <1>2, <2>1, <2>2
<1>5. ASSUME NEW e \in Editor, Schedule(e)
      PROVE  UnflaggedIsChecked'
  <2>1. editor[e].project \in Project
    BY <1>5, RequestFields DEF Schedule, LastDue, At
  <2>2. QED
    BY <1>5, <2>1 DEF Schedule, UnflaggedIsChecked, TypeOK
<1>6. ASSUME NEW c \in Checker, StoreChecks(c)
      PROVE  UnflaggedIsChecked'
  <2>1. Following(c) \in Project
    BY <1>6, Stored
  <2> DEFINE p == Following(c)
  <2>2. /\ runIatiChecks' = [runIatiChecks EXCEPT ![p] = FALSE]
        /\ checks' = [checks EXCEPT ![p] = checker[c].found]
        /\ overtaken' = IF checker[c].found # version[p]
                          THEN overtaken \cup {p} ELSE overtaken \ {p}
        /\ UNCHANGED <<version, unscheduled>>
    BY <1>6 DEF StoreChecks, GoOn
  <2> HIDE DEF p
  <2>3. QED
    BY <2>1, <2>2 DEF UnflaggedIsChecked, TypeOK, p
<1>7. ASSUME Kill
      PROVE  UnflaggedIsChecked'
  <2>1. UNCHANGED <<runIatiChecks, checks, overtaken>>
    BY <1>7 DEF Kill
  <2>2. ASSUME NEW e \in Editor, KillEditor(e)
        PROVE  UnflaggedIsChecked'
    <3>1. editor[e].project \in Project
      BY <2>2, RequestFields DEF KillEditor
    <3>2. Edited(editor[e].project) \/ UNCHANGED <<version, unscheduled>>
      BY <2>2 DEF KillEditor
    <3>3. QED
      BY <1>1, <1>2, <2>1, <3>1, <3>2
  <2>3. QED
    BY <1>1, <1>7, <2>1, <2>2 DEF Kill
<1>8. QED
  BY <1>1, <1>3, <1>4, <1>5, <1>6, <1>7
     DEF Next, vars, project, history, OpenPatch, BeginSave, WriteStatus, WriteIati, DropEntry,
         StartRun, PerformChecks, BeginStore, Miss, Populate, Fill

\* Whatever runs of the checks overlap with whatever edits: a project is flagged,
\* or has the checks of its latest edit, or is in one of the two orders that lose one.
THEOREM CheckedInvariant == Spec => []UnflaggedIsChecked
<1>1. Init => UnflaggedIsChecked
  BY DEF Init, UnflaggedIsChecked
<1>2. TypeOK /\ UnflaggedIsChecked /\ [Next]_vars => UnflaggedIsChecked'
  BY CheckedStep
<1>3. QED
  BY <1>1, <1>2, FollowUpsTypes, PTL DEF Spec

\* The cached entry falls behind by the two orders named only.
LEMMA DirectoryStep == TypeOK /\ DirectoryUpToDate /\ [Next]_vars => DirectoryUpToDate'
<1> SUFFICES ASSUME TypeOK, DirectoryUpToDate, [Next]_vars
             PROVE  DirectoryUpToDate'
  OBVIOUS
<1> USE FollowUpsAssumption
<1>1. CASE UNCHANGED <<version, cached, undropped, outdated>>
  BY <1>1 DEF DirectoryUpToDate
<1>2. ASSUME NEW p \in Project, Edited(p), UNCHANGED <<cached, outdated>>
      PROVE  DirectoryUpToDate'
  BY <1>2 DEF Edited, DirectoryUpToDate, TypeOK
<1>3. ASSUME NEW e \in Editor, NEW p \in Project, WriteObject(e, p)
      PROVE  DirectoryUpToDate'
  BY <1>2, <1>3 DEF WriteObject
<1>4. ASSUME NEW e \in Editor, SavePatch(e)
      PROVE  DirectoryUpToDate'
  <2>1. editor[e].project \in Project
    BY <1>4, RequestFields DEF SavePatch, LastDue, At
  <2>2. Edited(editor[e].project) /\ UNCHANGED <<cached, outdated>>
    BY <1>4 DEF SavePatch
  <2>3. QED
    BY <1>2, <2>1, <2>2
<1>5. ASSUME NEW e \in Editor, DropEntry(e)
      PROVE  DirectoryUpToDate'
  BY <1>5 DEF DropEntry, DirectoryUpToDate, TypeOK, project
<1>6. ASSUME NEW r \in Reader, NEW p \in Project, Populate(r, p)
      PROVE  DirectoryUpToDate'
  BY <1>6 DEF Populate, DirectoryUpToDate, TypeOK, project
<1>7. ASSUME NEW r \in Reader, Fill(r)
      PROVE  DirectoryUpToDate'
  BY <1>7 DEF Fill, DirectoryUpToDate, TypeOK, project
<1>8. ASSUME Kill
      PROVE  DirectoryUpToDate'
  <2>1. UNCHANGED <<cached, outdated>>
    BY <1>8 DEF Kill
  <2>2. ASSUME NEW e \in Editor, KillEditor(e)
        PROVE  DirectoryUpToDate'
    <3>1. editor[e].project \in Project
      BY <2>2, RequestFields DEF KillEditor
    <3>2. Edited(editor[e].project) \/ UNCHANGED <<version, undropped>>
      BY <2>2 DEF KillEditor
    <3>3. QED
      BY <1>1, <1>2, <2>1, <3>1, <3>2
  <2>3. QED
    BY <1>1, <1>8, <2>1, <2>2 DEF Kill
<1>9. QED
  BY <1>1, <1>3, <1>4, <1>5, <1>6, <1>7, <1>8
     DEF Next, vars, project, history, OpenPatch, BeginSave, WriteStatus, WriteIati, Schedule,
         StartRun, PerformChecks, BeginStore, StoreChecks, GoOn, Miss

\* Whoever fills the cache while whoever edits: what the directory serves is the
\* project as it is, unless its entry was not dropped yet or was stored too late.
THEOREM DirectoryInvariant == Spec => []DirectoryUpToDate
<1>1. Init => DirectoryUpToDate
  BY DEF Init, DirectoryUpToDate
<1>2. TypeOK /\ DirectoryUpToDate /\ [Next]_vars => DirectoryUpToDate'
  BY DirectoryStep
<1>3. QED
  BY <1>1, <1>2, FollowUpsTypes, PTL DEF Spec

(* Pairs of statuses ------------------------------------------------------------*)

Writing == {"statusWritten", "iatiWritten"}
Under == {"begun", "statusWritten", "iatiWritten"}

\* The statuses of one project.
AgreeAt(p) ==
    \/ p \in mixed
    \/ Agree(RowOf(p))
    \/ \E e \in Editor : At(e, Writing) /\ editor[e].project = p

\* What an editor in a save knows: what it wrote is a pair, and, unless saves of its
\* project met, the project is as it read and wrote it.
EditorKnows(e) ==
    LET p == editor[e].project
        row == editor[e].row
        orig == editor[e].orig
    IN  /\ At(e, Writing) => Agree(row)
        /\ p \notin mixed =>
             /\ At(e, {"begun"}) => RowOf(p) = orig /\ (~editor[e].whole => Agree(row))
             /\ At(e, {"statusWritten"}) =>
                   Agree(orig) /\ iatiStatus[p] = orig.iatiStatus /\ status[p] = row.status
             /\ At(e, {"iatiWritten"}) /\ ~editor[e].whole => Agree(RowOf(p))

\* What a run in its transaction knows.
CheckerKnows(c) ==
    LET p == Following(c)
    IN  checker[c].orig # None /\ p \notin mixed =>
            RowOf(p) = checker[c].orig /\ Agree(checker[c].rows[p])

Known ==
    /\ \A p \in Project : AgreeAt(p)
    /\ \A e \in Editor : EditorKnows(e)
    /\ \A c \in Checker : CheckerKnows(c)

\* Nobody else is in a save of p.
Alone(x, p) ==
    /\ \A e \in Editor : At(e, Under) /\ editor[e].project = p => e = x
    /\ \A c \in Checker : checker[c].orig # None /\ Following(c) = p => c = x

\* That is what the saves under way tell.
LEMMA SavesAlone ==
    ASSUME NEW x, NEW p, Saves(p) \subseteq {x}
    PROVE  Alone(x, p)
BY DEF Saves, Alone, At, Under

\* A step about the statuses of p is no concern of other projects, nor of saves of p
\* if there are none or if it is known that saves met.
LEMMA OthersKnow ==
    ASSUME TypeOK, Known, NEW x, NEW p \in Project,
           \A q \in Project : q # p => /\ iatiStatus'[q] = iatiStatus[q]
                                       /\ status'[q] = status[q]
                                       /\ q \in mixed => q \in mixed',
           \/ p \in mixed'
           \/ Alone(x, p)
           \/ /\ iatiStatus'[p] = iatiStatus[p] /\ status'[p] = status[p]
              /\ p \in mixed => p \in mixed',
           \A e \in Editor : e # x => editor'[e] = editor[e],
           \A e \in Editor : e = x => /\ At(e, Under) => editor[e].project = p
                                      /\ At(e, Under)' => editor'[e].project = p,
           \A c \in Checker : c # x => checker'[c] = checker[c],
           AgreeAt(p)',
           \A e \in Editor : e = x => EditorKnows(e)',
           \A c \in Checker : c = x => CheckerKnows(c)'
    PROVE  Known'
<1>1. ASSUME NEW q \in Project
      PROVE  AgreeAt(q)'
  <2>1. CASE q = p
    BY <2>1
  <2>2. CASE q # p
    <3>1. RowOf(q)' = RowOf(q) /\ (q \in mixed => q \in mixed')
      BY <2>2 DEF RowOf
    <3>2. ASSUME NEW e \in Editor, At(e, Writing), editor[e].project = q
          PROVE  At(e, Writing)' /\ editor'[e].project = q
      <4>1. e # x
        BY <2>2, <3>2 DEF At, Writing, Under
      <4>2. QED
        BY <3>2, <4>1 DEF At
    <3>3. AgreeAt(q)
      BY DEF Known
    <3>4. CASE q \in mixed
      BY <3>1, <3>4 DEF AgreeAt
    <3>5. CASE Agree(RowOf(q))
      BY <3>1, <3>5 DEF AgreeAt, Agree
    <3>6. CASE \E e \in Editor : At(e, Writing) /\ editor[e].project = q
      BY <3>2, <3>6 DEF AgreeAt
    <3>7. QED
      BY <3>3, <3>4, <3>5, <3>6 DEF AgreeAt
  <2>3. QED
    BY <2>1, <2>2
<1>2. ASSUME NEW e \in Editor
      PROVE  EditorKnows(e)'
  <2>1. CASE e = x
    BY <2>1
  <2>2. CASE e # x
    <3>1. editor'[e] = editor[e] /\ EditorKnows(e)
      BY <2>2 DEF Known
    <3>2. CASE ~At(e, Under)
      BY <3>1, <3>2 DEF EditorKnows, At, Writing, Under
    <3>3. CASE At(e, Under)
      <4>1. PICK q \in Project : q = editor[e].project
        BY <3>3, RequestFields DEF At
      <4>2. CASE q \in mixed'
        BY <3>1, <4>1, <4>2 DEF EditorKnows, At
      <4>3. CASE q \notin mixed'
        <5>1. /\ q \notin mixed /\ RowOf(q)' = RowOf(q)
              /\ iatiStatus'[q] = iatiStatus[q] /\ status'[q] = status[q]
          <6>1. CASE q # p
            BY <4>3, <6>1 DEF RowOf
          <6>2. CASE q = p
            BY <2>2, <3>3, <4>1, <4>3, <6>2 DEF RowOf, Alone
          <6>3. QED
            BY <6>1, <6>2
        <5>2. QED
          BY <3>1, <4>1, <5>1 DEF EditorKnows, At, Agree
      <4>4. QED
        BY <4>2, <4>3
    <3>4. QED
      BY <3>2, <3>3
  <2>3. QED
    BY <2>1, <2>2
<1>3. ASSUME NEW c \in Checker
      PROVE  CheckerKnows(c)'
  <2>1. CASE c = x
    BY <2>1
  <2>2. CASE c # x
    <3>1. checker'[c] = checker[c] /\ Following(c)' = Following(c) /\ CheckerKnows(c)
      BY <2>2 DEF Known, Following
    <3>2. CASE checker[c].orig = None
      BY <3>1, <3>2 DEF CheckerKnows
    <3>3. CASE checker[c].orig # None
      <4>1. PICK q \in Project : q = Following(c)
        <5>1. DOMAIN checker[c].rows \subseteq Project /\ DOMAIN checker[c].rows # {}
          BY <3>3, RunFields
        <5>2. QED
          BY <5>1, FollowingType, FollowUpsAssumption
      <4>2. CASE q \in mixed'
        BY <3>1, <4>1, <4>2 DEF CheckerKnows
      <4>3. CASE q \notin mixed'
        <5>1. q \notin mixed /\ RowOf(q)' = RowOf(q)
          <6>1. CASE q # p
            BY <4>3, <6>1 DEF RowOf
          <6>2. CASE q = p
            BY <2>2, <3>3, <4>1, <4>3, <6>2 DEF RowOf, Alone
          <6>3. QED
            BY <6>1, <6>2
        <5>2. QED
          BY <3>1, <4>1, <5>1 DEF CheckerKnows, Agree
      <4>4. QED
        BY <4>2, <4>3
    <3>4. QED
      BY <3>2, <3>3
  <2>3. QED
    BY <2>1, <2>2
<1>4. QED
  BY <1>1, <1>2, <1>3 DEF Known

\* Where nobody writes, p stays as it is, but for the editor that leaves its save.
LEMMA StillAgree ==
    ASSUME NEW x, NEW p \in Project, AgreeAt(p),
           iatiStatus'[p] = iatiStatus[p], status'[p] = status[p], p \in mixed => p \in mixed',
           \A e \in Editor : e # x => editor'[e] = editor[e],
           ~At(x, Writing)
    PROVE  AgreeAt(p)'
BY DEF AgreeAt, RowOf, Agree, At

\* A step of an editor that is in no save before or after.
LEMMA QuietEditor ==
    ASSUME FollowUpsAssumption, TypeOK, Known, NEW e \in Editor, NEW p \in Project, NEW i,
           editor' = [editor EXCEPT ![e] = i], i = None \/ i.at \notin Under,
           ~At(e, Under), UNCHANGED <<iatiStatus, status, mixed, checker>>
    PROVE  Known'
<1>1. editor'[e] = i /\ \A f \in Editor : f # e => editor'[f] = editor[f]
  BY DEF TypeOK
<1>2. ~At(e, Under)' /\ ~At(e, Writing)
  BY <1>1 DEF At, Under, Writing
<1>3. EditorKnows(e)'
  BY <1>2 DEF EditorKnows, At, Under, Writing
<1>4. AgreeAt(p)'
  BY <1>1, <1>2, StillAgree DEF Known
<1>5. \A c \in Checker : c # e
  BY DEF FollowUpsAssumption
<1>6. QED
  BY <1>1, <1>2, <1>3, <1>4, <1>5, OthersKnow

\* A run in no transaction after its step.
LEMMA QuietChecker ==
    ASSUME FollowUpsAssumption, TypeOK, Known, NEW c \in Checker, NEW i,
           checker' = [checker EXCEPT ![c] = i], i.orig = None,
           UNCHANGED <<iatiStatus, status, mixed, editor>>
    PROVE  Known'
<1>1. checker'[c] = i /\ \A d \in Checker : d # c => checker'[d] = checker[d]
  BY DEF TypeOK
<1>2. \A p \in Project : AgreeAt(p)'
  BY DEF Known, AgreeAt, RowOf, Agree, At
<1>3. \A e \in Editor : EditorKnows(e)'
  BY DEF Known, EditorKnows, RowOf, Agree, At
<1>4. CheckerKnows(c)'
  BY <1>1 DEF CheckerKnows
<1>5. ASSUME NEW d \in Checker, d # c
      PROVE  CheckerKnows(d)'
  <2>1. checker'[d] = checker[d] /\ Following(d)' = Following(d)
    BY <1>1, <1>5 DEF Following
  <2>2. CheckerKnows(d)
    BY DEF Known
  <2>3. QED
    BY <2>1, <2>2 DEF CheckerKnows, RowOf, Agree
<1>6. QED
  BY <1>2, <1>3, <1>4, <1>5 DEF Known

\* A step that changes nothing of it.
LEMMA NothingNew ==
    ASSUME Known, UNCHANGED <<iatiStatus, status, mixed, editor, checker>>
    PROVE  Known'
<1>1. ASSUME NEW p \in Project
      PROVE  AgreeAt(p)'
  BY DEF Known, AgreeAt, RowOf, Agree, At
<1>2. ASSUME NEW e \in Editor
      PROVE  EditorKnows(e)'
  BY DEF Known, EditorKnows, RowOf, Agree, At
<1>3. ASSUME NEW c \in Checker
      PROVE  CheckerKnows(c)'
  <2>1. Following(c)' = Following(c)
    BY DEF Following
  <2>2. QED
    BY <2>1 DEF Known, CheckerKnows, RowOf, Agree
<1>4. QED
  BY <1>1, <1>2, <1>3 DEF Known

\* An editor begins a save with the project as it is.
LEMMA BeginSaveKnows ==
    ASSUME FollowUpsAssumption, TypeOK, Known, NEW e \in Editor, BeginSave(e)
    PROVE  Known'
<1>1. PICK p \in Project : p = editor[e].project
  BY RequestFields DEF BeginSave, At
<1> DEFINE i == [at |-> "begun", project |-> p, row |-> editor[e].row,
                 whole |-> editor[e].whole, flag |-> editor[e].flag, orig |-> RowOf(p)]
<1>2. editor'[e] = i /\ \A f \in Editor : f # e => editor'[f] = editor[f]
  BY <1>1 DEF BeginSave, TypeOK
<1>3. /\ UNCHANGED <<iatiStatus, status, checker>>
      /\ \A q \in mixed : q \in mixed'
      /\ ~editor[e].whole /\ p \notin mixed' => Agree(editor[e].row)
  BY <1>1 DEF BeginSave, project, Takes
<1>4. ~At(e, Under) /\ ~At(e, Writing)
  BY DEF BeginSave, At, Under, Writing
<1>5. AgreeAt(p)'
  BY <1>2, <1>3, <1>4, StillAgree DEF Known
<1>6. EditorKnows(e)'
  <2>1. /\ editor'[e].at = "begun" /\ editor'[e].project = p /\ editor'[e].orig = RowOf(p)
        /\ editor'[e].whole = editor[e].whole /\ editor'[e].row = editor[e].row
    BY <1>2
  <2>2. RowOf(p)' = RowOf(p)
    BY <1>3 DEF RowOf
  <2>3. QED
    BY <1>3, <2>1, <2>2 DEF EditorKnows, At, Writing, Agree
<1>7. \A c \in Checker : c # e
  BY DEF FollowUpsAssumption
<1>8. editor'[e].project = p
  BY <1>2
<1> HIDE DEF i
<1>9. QED
  BY <1>2, <1>3, <1>4, <1>5, <1>6, <1>7, <1>8, OthersKnow

\* If an editor in a save of p is alone and has written nothing, p is a pair.
LEMMA AloneAgrees ==
    ASSUME Known, NEW x, NEW p \in Project, Alone(x, p), p \notin mixed,
           x \in Editor => ~At(x, Writing)
    PROVE  Agree(RowOf(p))
BY DEF Known, AgreeAt, Alone, At, Under, Writing

\* Writing a status.
LEMMA WriteStatusKnows ==
    ASSUME FollowUpsAssumption, TypeOK, Known, NEW e \in Editor, WriteStatus(e)
    PROVE  Known'
<1>1. editor[e] \in Saving /\ editor[e].row \in Row /\ editor[e].orig \in Row
  BY RequestFields DEF WriteStatus, StatusDue, At
<1>2. PICK p \in Project : p = editor[e].project
  BY <1>1 DEF Saving
<1>3. PICK row \in Row : row = StatusFollows(editor[e].row, editor[e].orig)
  BY <1>1, StatusFollowsType
<1> DEFINE i == [[editor[e] EXCEPT !.at = "statusWritten"] EXCEPT !.row = row]
<1>4. editor'[e] = i /\ \A f \in Editor : f # e => editor'[f] = editor[f]
  BY <1>3 DEF WriteStatus, TypeOK
<1>5. /\ i.at = "statusWritten" /\ i.project = p /\ i.row = row /\ i.orig = editor[e].orig
      /\ i.whole = editor[e].whole
  BY <1>1, <1>2 DEF Saving
<1> HIDE DEF i
<1>6. /\ UNCHANGED <<iatiStatus, checker>> /\ status' = [status EXCEPT ![p] = row.status]
      /\ Meets(e, p)
  BY <1>2, <1>3 DEF WriteStatus
<1>7. Agree(row) /\ At(e, {"begun"}) /\ At(e, Under) /\ ~At(e, Writing)
  BY <1>1, <1>3, StatusFollowsType DEF WriteStatus, StatusDue, At, Under, Writing
<1>8. /\ \A q \in mixed : q \in mixed'
      /\ p \in mixed' \/ (Alone(e, p) /\ p \notin mixed)
  BY <1>6, SavesAlone DEF Meets
<1>9. \A q \in Project : status'[q] = IF q = p THEN row.status ELSE status[q]
  BY <1>6 DEF TypeOK
<1>10. EditorKnows(e)'
  <2>1. ASSUME p \notin mixed'
        PROVE  /\ Agree(editor[e].orig) /\ iatiStatus[p] = editor[e].orig.iatiStatus
    <3>1. Alone(e, p) /\ p \notin mixed
      BY <1>8, <2>1
    <3>2. Agree(RowOf(p))
      BY <1>7, <3>1, AloneAgrees
    <3>3. RowOf(p) = editor[e].orig
      BY <1>2, <1>7, <3>1 DEF Known, EditorKnows
    <3>4. QED
      BY <3>2, <3>3 DEF RowOf
  <2>2. QED
    BY <1>4, <1>5, <1>6, <1>7, <1>9, <2>1 DEF EditorKnows, At, Agree
<1>11. AgreeAt(p)'
  <2>1. editor'[e] # None
    <3>1. i \in Request
      BY <1>1, SavingStep DEF i
    <3>2. None \notin Request
      BY DEF FollowUpsAssumption
    <3>3. QED
      BY <1>4, <3>1, <3>2
  <2>2. QED
    BY <1>4, <1>5, <2>1 DEF AgreeAt, At, Writing
<1>12. \A c \in Checker : c # e
  BY DEF FollowUpsAssumption
<1>13. At(e, Under) => editor[e].project = p /\ editor'[e].project = p
  BY <1>2, <1>4, <1>5
<1>14. QED
  BY <1>2, <1>4, <1>5, <1>6, <1>8, <1>9, <1>10, <1>11, <1>12, OthersKnow

\* Writing an IATI status: after that of the status, or where only the status held
\* is not the one stored, which a pair that is held alone cannot meet.
LEMMA WriteIatiKnows ==
    ASSUME FollowUpsAssumption, TypeOK, Known, NEW e \in Editor, WriteIati(e)
    PROVE  Known'
<1>1. editor[e] \in Saving /\ editor[e].row \in Row /\ editor[e].orig \in Row
  BY RequestFields DEF WriteIati, IatiDue, At
<1>2. PICK p \in Project : p = editor[e].project
  BY <1>1 DEF Saving
<1>3. PICK row \in Row : row = IatiFollows(editor[e].row, editor[e].orig)
  BY <1>1, IatiFollowsType
<1> DEFINE i == [[editor[e] EXCEPT !.at = "iatiWritten"] EXCEPT !.row = row]
<1>4. editor'[e] = i /\ \A f \in Editor : f # e => editor'[f] = editor[f]
  BY <1>3 DEF WriteIati, TypeOK
<1>5. /\ i.at = "iatiWritten" /\ i.project = p /\ i.row = row /\ i.orig = editor[e].orig
      /\ i.whole = editor[e].whole
  BY <1>1, <1>2 DEF Saving
<1> HIDE DEF i
<1>6. /\ UNCHANGED <<status, checker>>
      /\ iatiStatus' = [iatiStatus EXCEPT ![p] = row.iatiStatus]
      /\ Meets(e, p)
  BY <1>2, <1>3 DEF WriteIati
<1>7. Agree(row) /\ row.status = editor[e].row.status /\ At(e, Under)
      /\ editor[e].row.status # editor[e].orig.status
  BY <1>1, <1>3, IatiFollowsType DEF WriteIati, IatiDue, At, Under
<1>8. /\ \A q \in mixed : q \in mixed'
      /\ p \in mixed' \/ (Alone(e, p) /\ p \notin mixed)
  BY <1>6, SavesAlone DEF Meets
<1>9. \A q \in Project : iatiStatus'[q] = IF q = p THEN row.iatiStatus ELSE iatiStatus[q]
  BY <1>6 DEF TypeOK
<1>10. EditorKnows(e)'
  <2>1. ASSUME p \notin mixed', ~editor[e].whole
        PROVE  status[p] = row.status
    <3>1. Alone(e, p) /\ p \notin mixed
      BY <1>8, <2>1
    <3>2. CASE At(e, {"begun"})
      <4>1. Agree(RowOf(p))
        BY <3>1, <3>2, AloneAgrees DEF At, Writing
      <4>2. RowOf(p) = editor[e].orig /\ Agree(editor[e].row)
        BY <1>2, <2>1, <3>1, <3>2 DEF Known, EditorKnows
      <4>3. editor[e].row.iatiStatus = editor[e].orig.iatiStatus
        BY <3>2 DEF WriteIati, IatiDue, StatusDue
      <4>4. FALSE
        BY <1>7, <4>1, <4>2, <4>3 DEF Agree
      <4>5. QED
        BY <4>4
    <3>3. CASE At(e, {"statusWritten"})
      BY <1>2, <1>7, <3>1, <3>3 DEF Known, EditorKnows
    <3>4. QED
      BY <3>2, <3>3 DEF WriteIati, IatiDue, At
  <2>2. ASSUME p \notin mixed', ~editor[e].whole
        PROVE  Agree(RowOf(p))'
    <3>1. iatiStatus'[p] = row.iatiStatus /\ status'[p] = row.status
      BY <1>6, <1>9, <2>1, <2>2
    <3>2. QED
      BY <1>7, <3>1 DEF Agree, RowOf
  <2>3. QED
    BY <1>4, <1>5, <1>7, <2>2 DEF EditorKnows, At, Agree
<1>11. AgreeAt(p)'
  <2>1. editor'[e] # None
    <3>1. i \in Request
      BY <1>1, SavingStep DEF i
    <3>2. None \notin Request
      BY DEF FollowUpsAssumption
    <3>3. QED
      BY <1>4, <3>1, <3>2
  <2>2. QED
    BY <1>4, <1>5, <2>1 DEF AgreeAt, At, Writing
<1>12. \A c \in Checker : c # e
  BY DEF FollowUpsAssumption
<1>13. QED
  BY <1>2, <1>4, <1>5, <1>6, <1>8, <1>9, <1>10, <1>11, <1>12, OthersKnow

\* The end of a PATCH: a row that is a pair, or the one that is there.
LEMMA SavePatchKnows ==
    ASSUME FollowUpsAssumption, TypeOK, Known, NEW e \in Editor, SavePatch(e)
    PROVE  Known'
<1>1. editor[e].row \in Row /\ editor[e].orig \in Row
  BY RequestFields DEF SavePatch, LastDue, At
<1>2. PICK p \in Project : p = editor[e].project
  BY RequestFields DEF SavePatch, LastDue, At
<1>3. editor'[e] = [at |-> "written", project |-> p]
      /\ \A f \in Editor : f # e => editor'[f] = editor[f]
  BY <1>2 DEF SavePatch, TypeOK
<1>4. editor'[e].at = "written" /\ editor'[e].project = p
  BY <1>3
<1>5. /\ checker' = checker
      /\ \A q \in Project : /\ iatiStatus'[q] = IF q = p THEN editor[e].row.iatiStatus
                                               ELSE iatiStatus[q]
                            /\ status'[q] = IF q = p THEN editor[e].row.status ELSE status[q]
  BY <1>2 DEF SavePatch, TypeOK
<1>6. \/ Saves(p) \subseteq {e} /\ editor[e].at # "begun" /\ mixed' = mixed \ {p}
      \/ ~(Saves(p) \subseteq {e} /\ editor[e].at # "begun") /\ Meets(e, p)
  BY <1>2 DEF SavePatch
<1>7. /\ \A q \in mixed : q # p => q \in mixed'
      /\ p \in mixed' \/ Alone(e, p)
      /\ Alone(e, p) /\ editor[e].at = "begun" /\ p \notin mixed' => p \notin mixed
  BY <1>6, SavesAlone DEF Meets
<1>8. RowOf(p)' = editor[e].row
  BY <1>1, <1>5 DEF RowOf, Row
<1>9. AgreeAt(p)'
  <2>1. CASE p \in mixed'
    BY <2>1 DEF AgreeAt
  <2>2. CASE p \notin mixed' /\ editor[e].at = "begun"
    <3>1. Alone(e, p) /\ p \notin mixed
      BY <1>7, <2>2
    <3>2. ~At(e, Writing) /\ At(e, {"begun"})
      BY <2>2 DEF At, Writing, SavePatch, LastDue
    <3>3. Agree(RowOf(p))
      BY <3>1, <3>2, AloneAgrees
    <3>4. RowOf(p) = editor[e].orig
      BY <1>2, <3>1, <3>2 DEF Known, EditorKnows
    <3>5. /\ editor[e].row.iatiStatus = editor[e].orig.iatiStatus
          /\ editor[e].row.status = editor[e].orig.status
      BY <3>2 DEF SavePatch, LastDue, IatiDue, StatusDue, At
    <3>6. Agree(RowOf(p)')
      BY <1>8, <3>3, <3>4, <3>5 DEF Agree
    <3>7. QED
      BY <3>6 DEF AgreeAt, Agree
  <2>3. CASE p \notin mixed' /\ editor[e].at # "begun"
    <3>1. At(e, Writing)
      BY <2>3 DEF At, Writing, SavePatch, LastDue
    <3>2. Agree(RowOf(p)')
      BY <1>8, <3>1 DEF Known, EditorKnows
    <3>3. QED
      BY <3>2 DEF AgreeAt, Agree
  <2>4. QED
    BY <2>1, <2>2, <2>3
<1>10. ~At(e, Under)' /\ EditorKnows(e)'
  BY <1>4 DEF EditorKnows, At, Under, Writing
<1>11. \A c \in Checker : c # e
  BY DEF FollowUpsAssumption
<1>12. \A q \in Project : q # p => /\ iatiStatus'[q] = iatiStatus[q]
                                   /\ status'[q] = status[q]
                                   /\ q \in mixed => q \in mixed'
  BY <1>5, <1>7
<1>13. /\ \A f \in Editor : f = e => EditorKnows(f)'
       /\ \A f \in Editor : f = e => /\ At(f, Under) => editor[f].project = p
                                     /\ At(f, Under)' => editor'[f].project = p
  BY <1>2, <1>4, <1>10
<1>14. p \in mixed' \/ Alone(e, p)
  BY <1>7
<1>15. QED
  BY <1>3, <1>5, <1>9, <1>11, <1>12, <1>13, <1>14, OthersKnow

\* The end of a save, whole or cut short, that writes no status: what it wrote before
\* is a pair, or saves met, or it was cut short.
LEMMA SaveEnds ==
    ASSUME FollowUpsAssumption, TypeOK, Known, NEW e \in Editor, NEW p \in Project,
           editor[e] # None, p = editor[e].project, editor' = [editor EXCEPT ![e] = None],
           UNCHANGED <<iatiStatus, status, checker>>, \A q \in mixed : q \in mixed',
           At(e, Writing) /\ p \notin mixed' => Agree(RowOf(p))
    PROVE  Known'
<1>1. editor'[e] = None /\ \A f \in Editor : f # e => editor'[f] = editor[f]
  BY DEF TypeOK
<1>2. ~At(e, Under)' /\ EditorKnows(e)'
  BY <1>1 DEF EditorKnows, At, Under, Writing
<1>3. AgreeAt(p)'
  <2>1. CASE At(e, Writing)
    BY <2>1 DEF AgreeAt, Agree, RowOf
  <2>2. CASE ~At(e, Writing)
    BY <1>1, <2>2, StillAgree DEF Known
  <2>3. QED
    BY <2>1, <2>2
<1>4. \A c \in Checker : c # e
  BY DEF FollowUpsAssumption
<1>5. QED
  BY <1>1, <1>2, <1>3, <1>4, OthersKnow

\* The end of a save of the flag.
LEMMA ScheduleKnows ==
    ASSUME FollowUpsAssumption, TypeOK, Known, NEW e \in Editor, Schedule(e)
    PROVE  Known'
<1>1. PICK p \in Project : p = editor[e].project
  BY RequestFields DEF Schedule, LastDue, At
<1>2. ASSUME At(e, Writing), p \notin mixed
      PROVE  Agree(RowOf(p))
  <2>1. CASE At(e, {"statusWritten"})
    <3>1. editor[e].row.status = editor[e].orig.status
      BY <2>1 DEF Schedule, LastDue, IatiDue, StatusDue, At
    <3>2. QED
      BY <1>1, <1>2, <2>1, <3>1 DEF Known, EditorKnows, Agree, RowOf
  <2>2. CASE At(e, {"iatiWritten"})
    BY <1>1, <1>2, <2>2 DEF Known, EditorKnows, Schedule
  <2>3. QED
    BY <1>2, <2>1, <2>2 DEF At, Writing
<1>3. QED
  BY <1>1, <1>2, SaveEnds DEF Schedule, LastDue, At

\* A request that is killed.
LEMMA KillKnows ==
    ASSUME FollowUpsAssumption, TypeOK, Known, Kill
    PROVE  Known'
<1>1. UNCHANGED <<iatiStatus, status>>
  BY DEF Kill
<1>2. ASSUME NEW e \in Editor, KillEditor(e)
      PROVE  Known'
  <2>1. PICK p \in Project : p = editor[e].project
    BY <1>2, RequestFields DEF KillEditor
  <2>2. /\ editor[e] # None /\ editor' = [editor EXCEPT ![e] = None] /\ checker' = checker
        /\ \A q \in mixed : q \in mixed'
        /\ At(e, Writing) => p \in mixed'
    BY <1>2, <2>1 DEF KillEditor, Writing
  <2>3. QED
    BY <1>1, <2>1, <2>2, SaveEnds
<1>3. ASSUME NEW c \in Checker, checker' = [checker EXCEPT ![c] = Off], editor' = editor,
             mixed' = mixed
      PROVE  Known'
  BY <1>1, <1>3, OffType, QuietChecker
<1>4. CASE UNCHANGED <<editor, checker, mixed>>
  BY <1>1, <1>4, NothingNew
<1>5. QED
  BY <1>2, <1>3, <1>4 DEF Kill

\* A run reads what the save of its flag compares with.
LEMMA BeginStoreKnows ==
    ASSUME FollowUpsAssumption, TypeOK, Known, NEW c \in Checker, BeginStore(c)
    PROVE  Known'
<1>1. PICK p \in Project : p = Following(c)
  <2>1. DOMAIN checker[c].rows \subseteq Project /\ DOMAIN checker[c].rows # {}
    BY RunFields DEF BeginStore
  <2>2. QED
    BY <2>1, FollowingType
<1> DEFINE i == [checker[c] EXCEPT !.orig = RowOf(p)]
<1>2. i.rows = checker[c].rows /\ i.orig = RowOf(p)
  BY RunFields DEF Run
<1>3. checker'[c] = i /\ \A d \in Checker : d # c => checker'[d] = checker[d]
  BY <1>1 DEF BeginStore, TypeOK
<1> HIDE DEF i
<1>4. Following(c)' = p
  BY <1>1, <1>2, <1>3 DEF Following
<1>5. /\ UNCHANGED <<iatiStatus, status, editor>> /\ \A q \in mixed : q \in mixed'
      /\ p \notin mixed' => Agree(checker[c].rows[p])
  BY <1>1 DEF BeginStore, project, Takes
<1>6. RowOf(p)' = RowOf(p)
  BY <1>5 DEF RowOf
<1>7. CheckerKnows(c)'
  BY <1>2, <1>3, <1>4, <1>5, <1>6 DEF CheckerKnows, Agree
<1>8. AgreeAt(p)'
  BY <1>5 DEF Known, AgreeAt, Agree, RowOf, At
<1>9. \A e \in Editor : e # c
  BY DEF FollowUpsAssumption
<1>10. QED
  BY <1>3, <1>5, <1>7, <1>8, <1>9, OthersKnow

\* A pair that is held is stored over another as a pair.
LEMMA StoredAgrees ==
    ASSUME NEW held \in Row, NEW orig \in Row, Agree(held), Agree(orig), NEW code, NEW st,
           st = IF held.iatiStatus # orig.iatiStatus THEN StatusFollows(held, orig).status
                ELSE orig.status,
           code = IF StatusFollows(held, orig).status # orig.status
                    THEN IatiFollows(StatusFollows(held, orig), orig).iatiStatus
                    ELSE orig.iatiStatus
    PROVE  CodeToStatus[code] = st
<1> DEFINE row == StatusFollows(held, orig)
<1>1. row \in Row /\ row.iatiStatus = held.iatiStatus /\ Agree(row)
  BY StatusFollowsType
<1>2. CASE held.iatiStatus = orig.iatiStatus
  <2>1. row = held /\ held.status = orig.status
    BY <1>2, StatusFollowsType DEF Agree
  <2>2. QED
    BY <1>2, <2>1 DEF Agree
<1>3. CASE held.iatiStatus # orig.iatiStatus
  <2>1. st = row.status
    BY <1>3
  <2>2. CASE row.status = orig.status
    BY <2>1, <2>2 DEF Agree
  <2>3. CASE row.status # orig.status
    <3>1. Agree(IatiFollows(row, orig)) /\ IatiFollows(row, orig).status = row.status
      BY <1>1, <2>3, IatiFollowsType
    <3>2. QED
      BY <2>1, <2>3, <3>1 DEF Agree
  <2>4. QED
    BY <2>2, <2>3
<1>4. QED
  BY <1>2, <1>3

\* A run stores its checks: where no other save met it, a pair over a pair.
LEMMA StoreChecksKnows ==
    ASSUME FollowUpsAssumption, TypeOK, Known, NEW c \in Checker, StoreChecks(c)
    PROVE  Known'
<1>1. /\ checker[c].orig \in Row /\ checker[c].orig # None
      /\ Following(c) \in Project /\ checker[c].rows[Following(c)] \in Row
  BY Stored, RunFields DEF StoreChecks
<1>2. PICK p \in Project : p = Following(c)
  BY <1>1
<1>3. PICK orig \in Row, held \in Row : orig = checker[c].orig /\ held = checker[c].rows[p]
  BY <1>1, <1>2
<1> DEFINE row == StatusFollows(held, orig)
           st == IF held.iatiStatus # orig.iatiStatus THEN row.status ELSE status[p]
           code == IF row.status # orig.status THEN IatiFollows(row, orig).iatiStatus
                   ELSE iatiStatus[p]
<1>4. /\ editor' = editor
      /\ status' = [status EXCEPT ![p] = st] /\ iatiStatus' = [iatiStatus EXCEPT ![p] = code]
      /\ IF held = orig THEN mixed' = mixed ELSE Meets(c, p)
      /\ GoOn(c, p)
  BY <1>2, <1>3 DEF StoreChecks
<1>5. /\ checker'[c].orig = None
      /\ \A d \in Checker : d # c => checker'[d] = checker[d]
  BY <1>4 DEF GoOn, TypeOK
<1>6. CheckerKnows(c)'
  BY <1>5 DEF CheckerKnows
<1>7. /\ \A q \in mixed : q \in mixed'
      /\ held # orig => p \in mixed' \/ (Alone(c, p) /\ p \notin mixed)
  BY <1>4, SavesAlone DEF Meets
<1>8. /\ held = orig => st = status[p] /\ code = iatiStatus[p]
  BY StatusFollowsType
<1>9. ASSUME held # orig, p \notin mixed'
      PROVE  CodeToStatus[code] = st
  <2>1. Alone(c, p) /\ p \notin mixed
    BY <1>7, <1>9
  <2>2. RowOf(p) = orig /\ Agree(held)
    BY <1>1, <1>2, <1>3, <2>1 DEF Known, CheckerKnows
  <2>3. c \notin Editor
    BY DEF FollowUpsAssumption
  <2>4. Agree(RowOf(p))
    BY <2>1, <2>3, AloneAgrees
  <2>5. orig.iatiStatus = iatiStatus[p] /\ orig.status = status[p]
    BY <2>2 DEF RowOf
  <2>6. QED
    BY <2>2, <2>4, <2>5, StoredAgrees
<1> HIDE DEF row, st, code
<1>10. \A q \in Project : /\ status'[q] = IF q = p THEN st ELSE status[q]
                          /\ iatiStatus'[q] = IF q = p THEN code ELSE iatiStatus[q]
  BY <1>4 DEF TypeOK
<1>11. AgreeAt(p)'
  <2>1. CASE held = orig
    BY <1>4, <1>8, <1>10, <2>1 DEF Known, AgreeAt, Agree, RowOf, At
  <2>2. CASE held # orig
    BY <1>9, <1>10, <2>2 DEF AgreeAt, Agree, RowOf
  <2>3. QED
    BY <2>1, <2>2
<1>12. \A e \in Editor : e # c
  BY DEF FollowUpsAssumption
<1>13. QED
  BY <1>4, <1>5, <1>6, <1>7, <1>8, <1>10, <1>11, <1>12, OthersKnow

\* Every step keeps what is known.
LEMMA KnownStep == TypeOK /\ Known /\ [Next]_vars => Known'
<1> SUFFICES ASSUME TypeOK, Known, [Next]_vars
             PROVE  Known'
  OBVIOUS
<1> USE FollowUpsAssumption
<1>1. CASE UNCHANGED <<iatiStatus, status, mixed, editor, checker>>
  BY <1>1, NothingNew
<1>2. ASSUME NEW e \in Editor, NEW p \in Project, WriteObject(e, p)
      PROVE  Known'
  <2> DEFINE i == [at |-> "written", project |-> p]
  <2>1. editor' = [editor EXCEPT ![e] = i] /\ ~At(e, Under) /\ i.at \notin Under
        /\ UNCHANGED <<iatiStatus, status, mixed, checker>>
    BY <1>2 DEF WriteObject, CanEdit, At, Under
  <2> HIDE DEF i
  <2>2. QED
    BY <2>1, QuietEditor
<1>3. ASSUME NEW e \in Editor, NEW p \in Project, NEW code \in Code, OpenPatch(e, p, code)
      PROVE  Known'
  <2> DEFINE i == [at |-> "held", project |-> p, whole |-> TRUE, flag |-> runIatiChecks[p],
                   row |-> [iatiStatus |-> code, status |-> status[p]]]
  <2>1. editor' = [editor EXCEPT ![e] = i] /\ ~At(e, Under) /\ i.at \notin Under
        /\ UNCHANGED <<iatiStatus, status, mixed, checker>>
    BY <1>3 DEF OpenPatch, CanEdit, At, Under, project, history
  <2> HIDE DEF i
  <2>2. QED
    BY <2>1, QuietEditor
<1>4. ASSUME NEW e \in Editor, DropEntry(e)
      PROVE  Known'
  <2>1. editor[e].project \in Project
    BY <1>4, RequestFields DEF DropEntry
  <2> DEFINE i == [at |-> "held", project |-> editor[e].project, whole |-> FALSE,
                   flag |-> TRUE, row |-> RowOf(editor[e].project)]
  <2>2. editor' = [editor EXCEPT ![e] = i] /\ ~At(e, Under) /\ i.at \notin Under
        /\ UNCHANGED <<iatiStatus, status, mixed, checker>>
    BY <1>4 DEF DropEntry, At, Under, project
  <2> HIDE DEF i
  <2>3. QED
    BY <2>1, <2>2, QuietEditor
<1>5. ASSUME NEW c \in Checker, StartRun(c)
      PROVE  Known'
  <2> DEFINE f == [p \in {p \in Project : runIatiChecks[p]} |-> RowOf(p)]
             i == [checker[c] EXCEPT !.rows = f]
  <2>1. checker' = [checker EXCEPT ![c] = i] /\ UNCHANGED <<iatiStatus, status, mixed, editor>>
    BY <1>5 DEF StartRun, project, history
  <2>2. checker[c].orig = None
    BY <1>5, OffType DEF StartRun
  <2>3. i.orig = None
    BY <2>2, RunFields DEF Run
  <2> HIDE DEF i, f
  <2>4. QED
    BY <2>1, <2>3, QuietChecker
<1>6. ASSUME NEW c \in Checker, PerformChecks(c)
      PROVE  Known'
  <2> DEFINE p == Following(c)
             kept == checker[c].rows
             read == IF c \in View THEN [kept EXCEPT ![p] = [iatiStatus |-> iatiStatus[p],
                                                           status |-> kept[p].status]]
                     ELSE kept
             i == IF p \in Broken THEN Off
                  ELSE [rows |-> read, found |-> version[p], orig |-> None]
  <2>1. checker' = [checker EXCEPT ![c] = i] /\ UNCHANGED <<iatiStatus, status, mixed, editor>>
    BY <1>6 DEF PerformChecks, project, history
  <2>2. i.orig = None
    BY OffType
  <2> HIDE DEF i
  <2>3. QED
    BY <2>1, <2>2, QuietChecker
<1>7. QED
  BY <1>1, <1>2, <1>3, <1>4, <1>5, <1>6, BeginSaveKnows, WriteStatusKnows, WriteIatiKnows,
     SavePatchKnows, ScheduleKnows, KillKnows, BeginStoreKnows, StoreChecksKnows
     DEF Next, vars, project, history, Miss, Populate, Fill, FollowUpsAssumption

\* However old the rows that are saved, and whatever of their saves interleaves: the two
\* statuses of a project are a pair between the writes of a save, unless saves of it
\* met, one was cut short, or a row was saved that was no pair when it was read.
THEOREM AgreeInvariant == Spec => []StatusesAgree
<1>1. Init => Known
  <2>1. CodeToStatus["2"] = "A"
    BY DEF CodeToStatus
  <2>2. QED
    BY <2>1, OffType DEF Init, Known, AgreeAt, EditorKnows, CheckerKnows, Agree, RowOf, At
<1>2. TypeOK /\ Known /\ [Next]_vars => Known'
  BY KnownStep
<1>3. Known => StatusesAgree
  BY DEF Known, AgreeAt, StatusesAgree, Writing
<1>4. QED
  BY <1>1, <1>2, <1>3, FollowUpsTypes, PTL DEF Spec
=============================================================================
