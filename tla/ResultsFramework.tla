-------------------------- MODULE ResultsFramework --------------------------
(***************************************************************************)
(* How results frameworks are copied down a hierarchy of projects           *)
(* (rsr/models/project.py, result.py, indicator.py, indicator_period.py,    *)
(* default_period.py): a project imports the results, indicators and        *)
(* periods of its parent, and what the parent adds or edits later is copied *)
(* on to the projects that imported.                                        *)
(*                                                                          *)
(* An item is a result, an indicator of a result or a period of an          *)
(* indicator; <<c, o>> is the row of item o at project c.  A row that is    *)
(* "linked" has as its parent (parent_result, parent_indicator,             *)
(* parent_period) the row of the same item at the project's parent.         *)
(*                                                                          *)
(* A POST of a result, an indicator or a period is a transaction with all   *)
(* that save() does (rest/viewsets.py): it sees what others have committed, *)
(* and they see nothing of it until it commits.  No other request here is   *)
(* one.  A request is a list of sets of steps in "todo": the steps of the   *)
(* first set are done in any order (the lists the code loops over have an   *)
(* order of their own, which users change), and a step may put further      *)
(* steps in front.  Each step reaches the database once.  update_or_create  *)
(* is a transaction that takes what save() does below the new row with it.  *)
(*                                                                          *)
(* Not here: deletions, copy_results, dimensions, baseline values, and      *)
(* changes of the hierarchy (see ProjectHierarchy).                         *)
(***************************************************************************)
EXTENDS Naturals, Sequences, FiniteSets

CONSTANTS
    Project, Result, Indicator, Period,
    Owner,        \* the result of an indicator, the indicator of a period
    Default,      \* the periods an indicator gets from the default periods
    Hierarchies,  \* the hierarchies considered: parent of each project
    Overlapping,  \* those of them in which requests may overlap: a bound.
                  \* There no copy has copies of its own, so that a
                  \* transaction is one insertion or one update.
    Edited,       \* those of them in which items are edited: a bound
    Authors,      \* bound: the projects at which items are created
    Worker, NoProject, NoItem,
    MaxEdits,     \* bound on the number of edits
    MaxCrashes    \* bound on the number of requests that die

Item == Result \cup Indicator \cup Period
Text == 0 .. MaxEdits

\* The projects of "through" below p, in the hierarchy h, that are reached
\* through projects of "through" only.
Under(h, p, through) ==
    {c \in through :
        \A S \in SUBSET through :
            (\A d \in through : h[d] \in S \cup {p} => d \in S) => c \in S}

ASSUME FrameworkAssumption ==
    /\ NoProject \notin Project /\ NoItem \notin Item
    /\ Result \cap Indicator = {} /\ Result \cap Period = {} /\ Indicator \cap Period = {}
    /\ Hierarchies \subseteq [Project -> Project \cup {NoProject}]
    /\ Overlapping \subseteq Hierarchies /\ Edited \subseteq Hierarchies
    /\ Owner \in [Indicator \cup Period -> Result \cup Indicator]
    /\ \A i \in Indicator : Owner[i] \in Result
    /\ \A x \in Period : Owner[x] \in Indicator
    /\ Default \subseteq Period
    /\ Authors \subseteq Project
    /\ \A h \in Overlapping : \A c \in Project :
          h[c] \in Project => h[h[c]] = NoProject
    /\ \A h \in Hierarchies : \A c \in Project : c \notin Under(h, c, Project)
    /\ IsFiniteSet(Period)
    /\ MaxEdits \in Nat /\ MaxCrashes \in Nat

VARIABLES
    parentOf,     \* the project's parent
    text,         \* what the rows that exist say (title, measure, dates)
    linked,       \* the rows with a parent row
    defaultsAt,   \* the projects with default periods
    todo,         \* what each worker has still to do
    inserted,     \* the rows in each worker's open transaction
    imported,     \* history: the projects that ran import_results to its end and
                  \* got results
    chosen,       \* history: the copies of results made for one indicator only
    overlooked,   \* history: the parts that a project below missed, because its
                  \* import had read the parts and the transaction the copies
    own,          \* history: the rows that say what they were edited to say
    repair, root, \* of fix_project_hierarchy_missing_periods: "no", "running"
                  \* (and no other request since it began) or "done", and where
    edits, crashes

vars == <<parentOf, text, linked, defaultsAt, todo, inserted, imported, chosen,
          overlooked, own, repair, root, edits, crashes>>

-----------------------------------------------------------------------------
Rows == DOMAIN text
Children(p) == {c \in Project : parentOf[c] = p}
Parts(o) == {x \in DOMAIN Owner : Owner[x] = o}
PartsAt(p, o) == {x \in Parts(o) : <<p, x>> \in Rows}
HasImportedResults(c) == \E r \in Result : <<c, r>> \in linked
Idle(w) == todo[w] = <<>>
Quiet == \A w \in Worker : Idle(w)

\* What worker w has still to do, in whatever order.
StepsOf(q) == UNION {q[k] : k \in DOMAIN q}
Pending(w) == StepsOf(todo[w])

\* The projects below p that are reached through projects of "through" only.
Below(p, through) == Under(parentOf, p, through)

\* Where a row of item x at p is copied to (or updated) by save(): the projects
\* below whose row of its owner (or of x itself) is linked, all the way.
Reach(p, x) == {p} \cup Below(p, {c \in Project : <<c, x>> \in linked})

\* Where a new result of p is copied to: the projects below that have imported.
ReachOfResults(p) == {p} \cup Below(p, {c \in Project : HasImportedResults(c)})

\* Where a new default period of p is copied to: get_or_create stops at a
\* project that has it.
DefaultsFrom(p) ==
    IF p \in defaultsAt THEN {} ELSE {p} \cup Below(p, Project \ defaultsAt)

-----------------------------------------------------------------------------
(* Steps.                                                                    *)
Ops == {"commit", "offer", "readResults", "takeResult", "insertResult",
        "readIndicators", "copyIndicator", "saveAgain", "readPeriods", "copyPeriod",
        "copyDefaults", "requireResult", "importIndicator", "save", "spread",
        "renew", "walk", "fixProject", "fixIndicator", "fixed"}

Step == [op : Ops, at : Project, what : Item \cup {NoItem}, text : Text]
Do(op, p, o, t) == [op |-> op, at |-> p, what |-> o, text |-> t]

\* Steps to be done before others, if there are any.
Before(steps, others) == IF steps = {} THEN others ELSE <<steps>> \o others

Ready(w, op) == IF Idle(w) THEN {} ELSE {s \in Head(todo[w]) : s.op = op}

\* Step s of worker w is done, and brings the steps "first" with it, and "then"
\* after them.
Continue(w, s, first, then) ==
    todo' = [todo EXCEPT ![w] =
                 Before(first, Before(then, Before(Head(@) \ {s}, Tail(@))))]

Unwritten == UNCHANGED <<text, linked, defaultsAt, imported, chosen, own, repair, edits>>
Frame == UNCHANGED <<parentOf, inserted, overlooked, root, crashes>>
OnlyRows == Frame /\ UNCHANGED <<defaultsAt, imported, repair, edits>>

Write(rows, t) ==
    text' = [x \in Rows \cup rows |-> IF x \in rows THEN t ELSE text[x]]

\* The rows are given what their parents say.
Copy(rows, t) == Write(rows, t) /\ own' = own \ rows

\* What is left is only the reading.
Reads(w, s, more) == Continue(w, s, more, {}) /\ Unwritten /\ Frame

-----------------------------------------------------------------------------
(* Copying results: Project.do_import_results, copy_result_to_children,       *)
(* copy_result and Result.save.                                               *)
ReadResults(w, s) ==
    LET p == parentOf[s.at]
    IN  Reads(w, s, {Do("takeResult", s.at, r, text[<<p, r>>]) :
                        r \in {x \in Result : <<p, x>> \in Rows}})

TakeResult(w, s) ==
    Reads(w, s, IF <<s.at, s.what>> \in linked THEN {}
                ELSE {Do("insertResult", s.at, s.what, s.text)})

Offer(w, s) ==
    Reads(w, s, IF HasImportedResults(s.at)
                THEN {Do("insertResult", s.at, s.what, s.text)}
                ELSE {})

\* Mutated form of InsertResult: a result that is itself a copy is not copied on.
InsertResultOneLevel(w, s) ==
    IF <<s.at, s.what>> \in Rows
    THEN /\ todo' = [todo EXCEPT ![w] = <<>>]
         /\ Unwritten /\ Frame
    ELSE /\ Copy({<<s.at, s.what>>}, s.text)
         /\ linked' = linked \cup {<<s.at, s.what>>}
         /\ Continue(w, s, {Do("readIndicators", s.at, s.what, 0)}, {})
         /\ UNCHANGED chosen
         /\ OnlyRows

\* unique_together (project, parent_result): the second copy is an IntegrityError.
InsertResult(w, s) ==
    IF <<s.at, s.what>> \in Rows
    THEN /\ todo' = [todo EXCEPT ![w] = <<>>]
         /\ Unwritten /\ Frame
    ELSE /\ Copy({<<s.at, s.what>>}, s.text)
         /\ linked' = linked \cup {<<s.at, s.what>>}
         /\ Continue(w, s, {Do("offer", c, s.what, s.text) : c \in Children(s.at)},
                           {Do("readIndicators", s.at, s.what, 0)})
         /\ UNCHANGED chosen
         /\ OnlyRows

-----------------------------------------------------------------------------
(* Copying indicators and periods: Project.copy_indicator and copy_period,    *)
(* Indicator.save and IndicatorPeriod.save.                                   *)
CopyParts(c, o, op) ==
    {Do(op, c, x, text[<<parentOf[c], x>>]) : x \in PartsAt(parentOf[c], o)}

ReadIndicators(w, s) ==
    Reads(w, s, CopyParts(s.at, s.what, "copyIndicator"))

ReadPeriods(w, s) == Reads(w, s, CopyParts(s.at, s.what, "copyPeriod"))

\* update_or_create(result, parent_indicator).  Only a new copy gets periods.
CopyIndicator(w, s) ==
    LET here == <<s.at, s.what>>
        again == {Do("saveAgain", s.at, s.what, s.text)}
    IN  /\ IF here \in linked
           THEN /\ Copy(Reach(s.at, s.what) \X {s.what}, s.text)
                /\ Continue(w, s, again, {})
                /\ UNCHANGED linked
           ELSE LET copies == Reach(s.at, Owner[s.what]) \X {s.what}
                IN  /\ Copy(copies, s.text)
                    /\ linked' = linked \cup copies
                    /\ Continue(w, s, again, {Do("readPeriods", s.at, s.what, 0)})
        /\ OnlyRows /\ UNCHANGED chosen

CopyPeriod(w, s) ==
    /\ IF <<s.at, s.what>> \in linked
       THEN /\ Copy(Reach(s.at, s.what) \X {s.what}, s.text)
            /\ UNCHANGED linked
       ELSE LET copies == Reach(s.at, Owner[s.what]) \X {s.what}
            IN  /\ Copy(copies, s.text)
                /\ linked' = linked \cup copies
    /\ Continue(w, s, {}, {})
    /\ OnlyRows /\ UNCHANGED chosen

\* save() of a copy, and the one at the end of _update_fields_if_not_child_updated:
\* the row as it is in memory is written again.
Save(w, s) ==
    /\ Copy({<<s.at, s.what>>}, s.text)
    /\ Continue(w, s, {Do("spread", s.at, s.what, s.text)}, {})
    /\ UNCHANGED <<linked, chosen>>
    /\ OnlyRows

\* save() of the object that a user edited.
SaveEdited(w, s) ==
    /\ Write({<<s.at, s.what>>}, s.text)
    /\ own' = own \cup {<<s.at, s.what>>}
    /\ Continue(w, s, {Do("spread", s.at, s.what, s.text)}, {})
    /\ UNCHANGED <<linked, chosen>>
    /\ OnlyRows

Spread(w, s) ==
    LET link == IF s.what \in Result THEN s.what ELSE Owner[s.what]
    IN  Reads(w, s, {Do("renew", c, s.what, s.text) :
                        c \in {x \in Children(s.at) : <<x, link>> \in linked}})

\* Mutated form of Renew: the copy is written with update(), without save().
RenewOneLevel(w, s) ==
    IF <<s.at, s.what>> \in linked
    THEN /\ Copy({<<s.at, s.what>>}, s.text)
         /\ Continue(w, s, {}, {})
         /\ UNCHANGED <<linked, chosen>>
         /\ OnlyRows
    ELSE Reads(w, s, {})

\* update_indicator, update_period and the loop of Result.save.
Renew(w, s) ==
    IF <<s.at, s.what>> \in linked
    THEN Save(w, s)
    ELSE Reads(w, s, {})

-----------------------------------------------------------------------------
(* Project.import_results, import_result and import_indicator.                *)

\* do_import_results ends with the default periods; save() of a new one copies
\* it to the projects below, imported or not.
CopyDefaults(w, s) ==
    /\ defaultsAt' = IF parentOf[s.at] \in defaultsAt
                     THEN defaultsAt \cup DefaultsFrom(s.at)
                     ELSE defaultsAt
    /\ imported' = IF HasImportedResults(s.at) THEN imported \cup {s.at} ELSE imported
    /\ Continue(w, s, {}, {})
    /\ Frame /\ UNCHANGED <<text, linked, chosen, own, repair, edits>>

\* get_or_create of the result, a transaction: the copies below that save()
\* makes are made with it.
RequireResult(w, s) ==
    LET r == Owner[s.what]
        copies == ReachOfResults(s.at) \X {r}
    IN  /\ IF <<s.at, r>> \in linked
           THEN UNCHANGED <<text, linked, chosen, own>>
           ELSE /\ Copy(copies, text[<<parentOf[s.at], r>>])
                /\ linked' = linked \cup copies
                /\ chosen' = chosen \cup {<<s.at, r>>}
        /\ Continue(w, s, {Do("importIndicator", s.at, s.what, s.text)}, {})
        /\ OnlyRows

ImportIndicatorNow(w, s) ==
    Reads(w, s, IF <<s.at, s.what>> \in linked THEN {}
                ELSE {Do("copyIndicator", s.at, s.what, s.text)})

-----------------------------------------------------------------------------
(* fix_project_hierarchy_missing_periods.                                     *)

\* walk_hierarchy: the children, each with their parent (a leaf instead with
\* itself), and then what is below them.
Walk(w, s) ==
    LET walked == IF Children(s.at) = {} THEN {s.at} ELSE Children(s.at)
    IN  /\ Continue(w, s, {Do("fixProject", c, NoItem, 0) : c \in walked},
                          {Do("walk", c, NoItem, 0) : c \in Children(s.at)})
        /\ Unwritten /\ Frame

FixProject(w, s) ==
    Reads(w, s, {Do("fixIndicator", s.at, i, 0) :
                    i \in {x \in Indicator : <<s.at, x>> \in linked}})

\* Mutated form of FixIndicator: only indicators without periods are fixed.
FixIndicatorIfEmpty(w, s) ==
    Reads(w, s, IF PartsAt(s.at, s.what) # {} THEN {}
                ELSE CopyParts(s.at, s.what, "copyPeriod"))

FixIndicator(w, s) ==
    LET here == PartsAt(s.at, s.what)
        above == PartsAt(parentOf[s.at], s.what)
    IN  Reads(w, s, IF Cardinality(here) = Cardinality(above) THEN {}
                    ELSE CopyParts(s.at, s.what, "copyPeriod"))

Fixed(w, s) ==
    /\ repair' = IF repair = "running" THEN "done" ELSE repair
    /\ Continue(w, s, {}, {})
    /\ Frame /\ UNCHANGED <<text, linked, defaultsAt, imported, chosen, own, edits>>

-----------------------------------------------------------------------------
(* Requests.                                                                 *)
MayStart(w) == Idle(w) /\ (parentOf \in Overlapping \/ Quiet)

Accept(w, steps) ==
    /\ MayStart(w)
    /\ todo' = [todo EXCEPT ![w] = steps]
    /\ repair' = "no" /\ root' = NoProject
    /\ UNCHANGED <<parentOf, text, linked, imported, chosen, overlooked, own, crashes>>

Request(w, steps) == Accept(w, steps) /\ UNCHANGED <<defaultsAt, inserted, edits>>

ImportResults(w, c) ==
    /\ parentOf[c] # NoProject
    /\ ~HasImportedResults(c)
    /\ Request(w, <<{Do("readResults", c, NoItem, 0)}, {Do("copyDefaults", c, NoItem, 0)}>>)

ImportResult(w, c, r) ==
    /\ <<parentOf[c], r>> \in Rows
    /\ <<c, r>> \notin linked
    /\ Request(w, <<{Do("insertResult", c, r, text[<<parentOf[c], r>>])}>>)

ImportIndicator(w, c, i) ==
    /\ <<parentOf[c], i>> \in Rows
    /\ Request(w, <<{Do("requireResult", c, i, text[<<parentOf[c], i>>])}>>)

\* Nobody has, or is about to have, a row of the item.
Fresh(o) ==
    /\ \A p \in Project : <<p, o>> \notin Rows
    /\ \A w \in Worker : \A s \in Pending(w) : s.what # o

\* A POST, up to its last read.  Each new row is saved, and save() copies it to
\* the projects it then finds linked.
Insert(w, p, o, places, items) ==
    /\ Accept(w, <<{Do("commit", p, o, 0)}>>)
    /\ inserted' = [inserted EXCEPT ![w] = places \X items]
    /\ UNCHANGED <<defaultsAt, edits>>

CreateResult(w, p, r) ==
    /\ Fresh(r)
    /\ Insert(w, p, r, ReachOfResults(p), {r})

\* Mutated form of CreateIndicator: the copies are made without save().
CreateIndicatorOneLevel(w, p, i) ==
    /\ Fresh(i)
    /\ <<p, Owner[i]>> \in Rows
    /\ Insert(w, p, i, {p} \cup {c \in Children(p) : <<c, Owner[i]>> \in linked},
              {i} \cup (IF p \in defaultsAt THEN Parts(i) \cap Default ELSE {}))

\* add_default_periods gives the indicator its periods before save() copies it.
CreateIndicator(w, p, i) ==
    /\ Fresh(i)
    /\ <<p, Owner[i]>> \in Rows
    /\ Insert(w, p, i, Reach(p, Owner[i]),
              {i} \cup (IF p \in defaultsAt THEN Parts(i) \cap Default ELSE {}))

CreatePeriod(w, p, x) ==
    /\ x \notin Default
    /\ Fresh(x)
    /\ <<p, Owner[x]>> \in Rows
    /\ Insert(w, p, x, Reach(p, Owner[x]), {x})

\* Some worker has still to read the parts of c's parent's row of o.
ToRead(c, o) ==
    \E v \in Worker : \E t \in Pending(v) :
        t.op \in {"readIndicators", "readPeriods"} /\ t.at = c /\ t.what = o

\* Mutated form of CommitInserted: the new row itself is given a parent.
CommitInsertedLinked(w, s) ==
    LET rows == inserted[w]
    IN  /\ Write(rows, 0)
        /\ linked' = linked \cup rows
        /\ inserted' = [inserted EXCEPT ![w] = {}]
        /\ Continue(w, s, {}, {})
        /\ UNCHANGED <<parentOf, defaultsAt, imported, chosen, overlooked, own, repair,
                       root, edits, crashes>>

\* The transaction of the POST ends.
CommitInserted(w, s) ==
    LET rows == inserted[w]
        missed == {x \in Project \X DOMAIN Owner :
                      /\ <<parentOf[x[1]], x[2]>> \in rows /\ x \notin rows
                      /\ <<x[1], Owner[x[2]]>> \in linked /\ ~ToRead(x[1], Owner[x[2]])}
    IN  /\ Write(rows, 0)
        /\ linked' = linked \cup {x \in rows : x[1] # s.at}
        /\ inserted' = [inserted EXCEPT ![w] = {}]
        /\ overlooked' = overlooked \cup missed
        /\ Continue(w, s, {}, {})
        /\ UNCHANGED <<parentOf, defaultsAt, imported, chosen, own, repair, root, edits,
                       crashes>>

\* A PATCH.  clean() would refuse it for a row with a parent, but only the admin
\* calls it; the serializers do not.
Edit(w, p, o) ==
    /\ parentOf \in Edited /\ edits < MaxEdits
    /\ <<p, o>> \in Rows
    /\ edits' = edits + 1
    /\ Accept(w, <<{Do("save", p, o, edits + 1)}>>)
    /\ UNCHANGED <<defaultsAt, inserted>>

\* A new default period is copied to the projects below when it is saved;
\* project_default_periods makes it with bulk_create, without save().
AddDefaultPeriod(w, p) ==
    /\ Default # {}
    /\ p \notin defaultsAt
    /\ Accept(w, <<>>)
    /\ \/ defaultsAt' = defaultsAt \cup DefaultsFrom(p)
       \/ defaultsAt' = defaultsAt \cup {p}
    /\ UNCHANGED <<inserted, edits>>

\* The command is run while there are no requests (a bound; some may come later).
FixMissingPeriods(w, p) ==
    /\ Quiet
    /\ todo' = [todo EXCEPT ![w] = <<{Do("walk", p, NoItem, 0)}, {Do("fixed", p, NoItem, 0)}>>]
    /\ repair' = "running"
    /\ root' = p
    /\ UNCHANGED <<parentOf, text, linked, defaultsAt, inserted, imported, chosen,
                   overlooked, own, edits, crashes>>

\* The process is killed between two statements; what it wrote stays, but for an
\* open transaction.
Crash(w) ==
    /\ crashes < MaxCrashes
    /\ ~Idle(w)
    /\ crashes' = crashes + 1
    /\ todo' = [todo EXCEPT ![w] = <<>>]
    /\ inserted' = [inserted EXCEPT ![w] = {}]
    /\ repair' = "no" /\ root' = NoProject
    /\ UNCHANGED <<parentOf, text, linked, defaultsAt, imported, chosen, overlooked, own,
                   edits>>

Init ==
    /\ parentOf \in Hierarchies
    /\ text = <<>>
    /\ linked = {}
    /\ defaultsAt = {}
    /\ todo = [w \in Worker |-> <<>>]
    /\ inserted = [w \in Worker |-> {}]
    /\ imported = {}
    /\ chosen = {}
    /\ overlooked = {}
    /\ own = {}
    /\ repair = "no"
    /\ root = NoProject
    /\ edits = 0
    /\ crashes = 0

WorkerStep(w) ==
    \/ \E s \in Ready(w, "readResults") : ReadResults(w, s)
    \/ \E s \in Ready(w, "takeResult") : TakeResult(w, s)
    \/ \E s \in Ready(w, "offer") : Offer(w, s)
    \/ \E s \in Ready(w, "insertResult") : InsertResult(w, s)
    \/ \E s \in Ready(w, "readIndicators") : ReadIndicators(w, s)
    \/ \E s \in Ready(w, "readPeriods") : ReadPeriods(w, s)
    \/ \E s \in Ready(w, "copyIndicator") : CopyIndicator(w, s)
    \/ \E s \in Ready(w, "copyPeriod") : CopyPeriod(w, s)
    \/ \E s \in Ready(w, "saveAgain") : Save(w, s)
    \/ \E s \in Ready(w, "save") : SaveEdited(w, s)
    \/ \E s \in Ready(w, "spread") : Spread(w, s)
    \/ \E s \in Ready(w, "renew") : Renew(w, s)
    \/ \E s \in Ready(w, "commit") : CommitInserted(w, s)
    \/ \E s \in Ready(w, "copyDefaults") : CopyDefaults(w, s)
    \/ \E s \in Ready(w, "requireResult") : RequireResult(w, s)
    \/ \E s \in Ready(w, "importIndicator") : ImportIndicatorNow(w, s)
    \/ \E s \in Ready(w, "walk") : Walk(w, s)
    \/ \E s \in Ready(w, "fixProject") : FixProject(w, s)
    \/ \E s \in Ready(w, "fixIndicator") : FixIndicator(w, s)
    \/ \E s \in Ready(w, "fixed") : Fixed(w, s)

Next ==
    \E w \in Worker :
        \/ WorkerStep(w)
        \/ \E c \in Project : ImportResults(w, c)
        \/ \E c \in Project, r \in Result : ImportResult(w, c, r)
        \/ \E c \in Project, i \in Indicator : ImportIndicator(w, c, i)
        \/ \E p \in Authors, r \in Result : CreateResult(w, p, r)
        \/ \E p \in Authors, i \in Indicator : CreateIndicator(w, p, i)
        \/ \E p \in Authors, x \in Period : CreatePeriod(w, p, x)
        \/ \E p \in Authors, o \in Item : Edit(w, p, o)
        \/ \E p \in Authors : AddDefaultPeriod(w, p)
        \/ \E p \in Project : FixMissingPeriods(w, p)
        \/ Crash(w)

Spec == Init /\ [][Next]_vars

-----------------------------------------------------------------------------
TypeOK ==
    /\ parentOf \in Hierarchies
    /\ Rows \subseteq Project \X Item
    /\ \A x \in Rows : text[x] \in Text
    /\ linked \subseteq Rows
    /\ \A x \in linked : <<parentOf[x[1]], x[2]>> \in Rows
    /\ defaultsAt \subseteq Project
    /\ todo \in [Worker -> Seq((SUBSET Step) \ {{}})]
    /\ imported \subseteq Project
    /\ chosen \subseteq linked
    /\ inserted \in [Worker -> SUBSET (Project \X Item)]
    /\ overlooked \subseteq Project \X DOMAIN Owner
    /\ own \subseteq Rows
    /\ repair \in {"no", "running", "done"}
    /\ root \in Project \cup {NoProject}
    /\ edits \in 0 .. MaxEdits
    /\ crashes \in 0 .. MaxCrashes

OneAtATime == parentOf \notin Overlapping
Undisturbed == Quiet /\ crashes = 0

\* A copy's parts: every part of the row it was copied from has a copy.
Complete(c, o) == \A x \in PartsAt(parentOf[c], o) : <<c, x>> \in linked

\* An imported result or indicator never lacks an indicator or a period of its
\* parent once the requests have ended, whichever of the import and the creation
\* came first (Project.copy_indicator and copy_period against Indicator.save and
\* IndicatorPeriod.save).  Not so a result that was made for one indicator
\* (import_indicator).  When they overlap, all that can be lost is a part whose
\* transaction looked for the copies before there was one, and that the import
\* read too early: before the transaction committed.
NothingMissed ==
    Undisturbed =>
        \A x \in linked \ chosen : \A y \in PartsAt(parentOf[x[1]], x[2]) :
            <<x[1], y>> \in linked \cup (IF OneAtATime THEN {} ELSE overlooked)

\* A project that imported its parent's results has every result the parent has
\* created since, through any number of levels: copy_result_to_children goes on.
ImportedStayComplete ==
    Undisturbed /\ OneAtATime =>
        \A c \in imported : \A r \in Result :
            <<parentOf[c], r>> \in Rows => <<c, r>> \in linked

\* A copy says what its parent says (Result.save: "They should be the same as the
\* parent"), at every level, unless a user has edited the copy itself since the
\* parent was last copied to it; requests do not overlap here.  An edit of a copy
\* is copied on below it, and one above it undoes it.
CopiesAgree ==
    Undisturbed /\ OneAtATime =>
        \A x \in linked \ own : text[x] = text[<<parentOf[x[1]], x[2]>>]

\* After fix_project_hierarchy_missing_periods every copied indicator below the
\* project it was run on has its parent's periods, whatever died before, unless it
\* has periods of its own: the command compares numbers of periods only.
RepairedHaveAllPeriods ==
    repair = "done" =>
        \A x \in linked :
            /\ x[1] \in Below(root, Project)
            /\ x[2] \in Indicator
            /\ ({x[1]} \X Parts(x[2])) \cap Rows \subseteq linked
            => Complete(x[1], x[2])
=============================================================================
