# Akvo RSR in TLA+

Akvo RSR is a Django application in which organisations plan development
projects, report results against them and publish the data as IATI files.
This directory holds TLA+ models of the parts of it whose behaviour over time is
hard to test: sums that climb a hierarchy of projects, results frameworks that are
copied down it, the links between the two, updates that travel between enumerators
and managers, and the scheduled import, export and checks of IATI data. `src/`
below is the root of the repository; line numbers are those of the commit the
models were read from.

    tlasany M.tla                                  parse a module
    tlc -workers 2 -config X.cfg MCM.tla           model-check a run
    tlapm MProofs.tla                              check the proofs about module M

`PROJECT.json` holds, for tools, what this file says for people: the components,
the runs, for every property a mutated definition that must break it, the source
lines of every definition, the findings, the hazards and the theorems.

## 1. The system

### Components

| Component | State | Operations | What makes it hard | What makes it correct |
|---|---|---|---|---|
| **Aggregation of actual values** (`rsr/models/result/indicator_period.py`, `indicator_period_data.py`, part of `project.py`) | updates with a status and a value, the actual value of each period, links from periods to parent periods, two flags per project | save, approve, return, delete an update; bulk status change; switching the flags; relinking; `recalculate_periods` | the sums are kept by hand, along a chain of mutually recursive saves that stops early; PATCHes without a transaction, no lock, whole-row saves | a period shows its approved updates and its aggregated children; the top shows every approved update below it once |
| **Disaggregation** (`result/disaggregation*.py`) | values per dimension of updates and periods, the flag `incomplete_data` | signals after save and delete, the climb of totals, the update's serializer | a second sum beside the first, triggered by other signals | like actual values, by dimension; data that does not add up is marked |
| **Results framework copying** (`result/result.py`, `indicator.py`, part of `project.py`) | results, indicators, periods, default periods and their links | `import_results`, `import_result`, `import_indicator`, copies on creation and on edits, the repair command | steps of an import and of the parent's edits interleave; an import may die half way | a child has one copy of each item of its parent, and it says the same |
| **Project hierarchy** (`related_project.py`, `usecases/`) | rows that relate projects, links between the rows of their frameworks | relate, `change_parent`, `remove_parent`, `fix_inconsistent_result` | a move finds each row's new parent through trees of the old links | rows are linked along the hierarchy, each to its counterpart |
| **Project** (`project.py`) | the row, its statuses, budget and funds | save, publish, delete | saves with many consequences through signals | the two statuses agree; totals agree with their rows |
| **Update workflow and visibility** (`rest/views/indicator_period_data.py`) | status and author of updates | draft, submit, approve, return, delete, who sees what | rows are saved whole from memory, by requests and by recalculations | the author hears of an update that is returned |
| **Enumerators and their tokens** (`rest/views/project_enumerators.py`) | assignments, the request token of a user | assign, send, preview, return | read-modify-write without lock, a mail in between | what the token shows was mailed, and the other way round |
| **IATI import** (`iati_import.py`, `iati_import_job.py`, the command, the admin) | schedule, `running`, `next_execution`, jobs' statuses | admin saves, upload of a job, the command | runs for hours on an old copy of the row; raises and crashes | what the row says is what goes on; due imports run |
| **IATI export** (`iati_export.py`, the command, REST) | exports with a status, a file and the flag `latest` | request, delete, mark; the command | started every minute, also while it runs; lists read once | the public file only gets newer; every request is handled |
| **IATI checks** (`iati_check.py`, `perform_iati_checks`) | flag `run_iati_checks`, rows of checks | edits set the flag, the command and a list clear it | the flag is cleared after the work, on a row read before it | an edited project is checked again |
| **Caches** (`akvo/cache`, `rest/cache.py`, `rest/viewsets.py`) | cached directory, cached project filters | fill, invalidate, populate | fill races with invalidation; no timeout | no stale value for ever |
| **Employments and permissions** (`employment.py`, `permissions.py`, `signals.py`) | roles of users in organisations | request, approve | large predicates over the schema | |
| **Publishing status, users**; **IATI XML**; **reports and statistics**; **front-ends, templates, codelists, deployment** | | | conversions and rendering without behaviour over time | |

### How they interact

REST views, admin forms and management commands all end in `save` and `delete`
of Django models; the models call each other from there, directly
(`IndicatorPeriodData.save` → `IndicatorPeriod.recalculate_period` →
`IndicatorPeriod.save` → the parent's `recalculate_period` → ...) or through
signals (disaggregations, return mails, related projects). `queryset.update`,
`bulk_create` and database cascades write the same tables without any of those
calls. The settings do not switch on `ATOMIC_REQUESTS`, so each statement commits
by itself unless a function asks for a transaction. These do:

* `PublicProjectViewSet.create` (`rest/viewsets.py:188`): every POST of a project, a
  result, an indicator, a period, an update, a disaggregation or a relation, with all
  that `save` and the signals do, mails included. Its PATCHes and DELETEs are not
  transactions, and what follows a POST (the directory's cache, the flag for IATI
  checks) comes after its transaction.
* `change_parent` (`change_project_parent.py:29`), `fix_inconsistent_results`
  (`fix_inconsistent_results.py:21`), `IatiExport.is_latest` (`iati_export.py:69`),
  `update_iati_checks` (`project.py:1230`), the import of an activity
  (`iati_activity_import.py:313`) and the end of a job (`iati_import_job.py:394`);
* `rest/views/project_editor.py:24`, `default_period.py:42`, `project_role.py:89`,
  `rsr/admin.py:318`, the views of Django's admin that save or delete, and Django's own
  `update_or_create`, `get_or_create` and `delete`.
 Several web workers and the processes started by cron share one
PostgreSQL database at READ COMMITTED. Nothing takes row locks in the parts
modelled here.

The parts meet in a few tables. A recalculation of an actual value saves updates
again: in ConcurrentAggregation that can undo a status, in Disaggregation it sets
the marks of disaggregations, in UpdateReview it mails authors. The links that
ResultsFramework makes and ProjectHierarchy moves are those along which
PeriodAggregation and Disaggregation add up.

## 2. The modules

    PeriodAggregation  <--- INSTANCE ---  ConcurrentAggregation
          ^                                      ^
          |  EXTENDS                             |  EXTENDS
    MCPeriodAggregation                   MCConcurrentAggregation
    PeriodAggregationProofs <- INSTANCE - ConcurrentAggregationProofs

    IatiImport       <- MCIatiImport, IatiProofs
    IatiExport       <- MCIatiExport, IatiProofs
    ResultsFramework <- MCResultsFramework, ResultsFrameworkProofs
    ProjectHierarchy <- MCProjectHierarchy, ProjectHierarchyProofs
    Disaggregation   <- MCDisaggregation, DisaggregationProofs
    UpdateReview     <- MCUpdateReview, UpdateReviewProofs
    ProjectFollowUps <- MCProjectFollowUps, ProjectFollowUpsProofs

A definition whose name adds something to that of the definition after it
(`SaveUserQuietly` before `SaveUser`) and whose comment begins "Mutated form" is
that definition with a plausible mistake in it. No specification uses it;
`PROJECT.json` says which property must break with it.

Several modules have history variables that name the orders in which the code does
not keep what it should (`bypassed`, `stale`, `unmarked`, `overtaken`, `outdated`,
`mixed`, `untold`, `overlapped`, ...). They record exactly one cause each, at the
step where it bites, and a property that excepts them says that there is no other.

### PeriodAggregation

The promise of the aggregation: one request at a time, its steps one period save
each. It is also the abstract specification of ConcurrentAggregation.

| TLA+ | Code |
|---|---|
| `status`, `value` | rows of `IndicatorPeriodData`; draft, pending and returned are all `"unapproved"` |
| `parentPeriod`, `aggregateChildren`, `aggregateToParent`, `actualValue` | the fields of `IndicatorPeriod` and `Project` with those names |
| `SaveApproved`, `SaveUnapproved`, `DeleteUpdate` | `IndicatorPeriodData.save` and `.delete` |
| `MoveUpdate` | a PATCH with another `period`, which the serializer leaves writable |
| `SetUpdatesStatus` | the REST call `set_updates_status`, one `queryset.update` |
| `DeleteUser` | `on_delete=CASCADE` of `IndicatorPeriodData.user` |
| `SaveProject` | `Project.save` after a change of either flag |
| `RecalculatePeriods` | the command `recalculate_periods` |
| `RemoveParent`, `ChangeParent` | the use cases, which relink with `queryset.update` |
| `SetActualValue` | a period saved with a typed-in actual value |
| `loop`, `RecalculateNext` | the loops of `Project.save` and of the command, and the one recalculation of an update's save |
| `climb`, `Climb`, `Store`, `FeedsParent` | the end of `IndicatorPeriod.save`: a changed text goes on to the parent |
| `RecalculatedValue` | `recalculate_period`, `recalculate_children`, `child_periods_sum` |
| `Abort` | a killed process or an exception between two saves |

`bypassed` is a history variable. It collects the periods whose inputs changed by a
path that calls no recalculation (bulk status change, deleted user, relinking,
typed-in value, an approved update saved with another status or moved to another
period, a request that died) until something recalculates them. It is what makes the
statement of consistency exact: `TotalsConsistent` speaks of the other periods, and
every path that adds to `bypassed` is one the code does not repair.

Abstractions: only the measure "unit", where values are added up (percentages are
planned). A value that is absent counts 0, as in the sums. Texts are natural
numbers or `NoNumber`, which stands for all that `Decimal` rejects, the empty text
included. The recalculations of a loop come in any order, a superset of the order
in the code. A parent's save also saves its child periods as they are; with one
request at a time this changes nothing and is left out. The totals are
cardinalities of disjoint unions instead of folds, so that proofs about them need
no induction.

A new parent of a project is one above it (`Level`). `change_parent` does not
test this (`change_project_parent.py:53`); with a descendant as the new parent the
links form a cycle, on which a recalculation does not end. No property and no theorem
speaks about such hierarchies. `PeriodOf` is constant: a moved update is one row that
goes and another that comes (`MoveUpdate`).

### ConcurrentAggregation

The same requests at the grain of database statements, for any number of workers:
read the children, read the approved updates and save each of them again, the same
with the others, store the period, go on to the parent; at the end
`update_actual_comment` saves the period of the update once more from memory. A
worker's call stack is the record `work[w]`. Links and flags stay as they are
initially (any, at the start), so its requests are those on existing updates: PATCH,
DELETE and the bulk status change, none of which is a transaction. A POST is one, so
no other worker sees its update before its recalculation is done: here a POST only
creates updates that are not approved (`SaveUnapproved`), in one step. A POST of an
approved update, and an update moved to another period, are left to
PeriodAggregation. The rows of one loop are saved in one step; another worker's step
may come before or after all of them but not between two.

`Loop` and `Climb` map a worker that is in a recalculation to the pending work of
`PeriodAggregation`; `Sequential!Spec` is the refinement. `MemoryIsCurrent` says what
a worker holds in each phase: `self.period` with the text that is stored, the
approved and the other updates with their values as they are, and the sum so far. It
is what the refinement rests on, and what a second worker takes away.

### IatiImport

One import with its jobs and the processes that execute the command. `self[p]` is
the copy of the row the process read when it started: every save of
`execute_import` writes all of it. `step[p]` goes through `check_execution`
(`check`), `execute_import` (`mark`, `schedule`, `create`, `finally`) and
`IatiImportJob.run` (`retrieve`, `import`). The clock counts in units of the
import's frequency. Import and parsing of activities, logs, e-mails and
notifications are reduced to the ways a job ends: completed, cancelled, no
changes, or something raises (`Raise`, which a failing e-mail causes as well).
`run_immediately` is cleared by the save that sets it, so no state has it set. A save in
the admin reads the row (`OpenForm`) and writes all of it (`SaveForm`), `running` and
`next_execution` as they were read; `putBack` is set while the last write of `running`
was such a one that changed it. One form is open at a time, a bound. The
command goes through all enabled imports; the others only delay this one, and the
copy may be arbitrarily old between `StartCommand` and `CheckExecution`. The
variant of the job for Cordaid's ZIP files is not modelled.

### IatiExport

Exports by id, requested, marked and deleted over REST, and the runs of the command.
`todo[r]` is the list of pending exports a run reads once; it handles them by
ascending id, the order of the model's `Meta`, in the steps of `create_iati_file`
(`stage[r]`): in progress, file generated and saved, completed, latest. `KillRun` is
a killed process, `RaiseDeleted` the exception of an export that was deleted
meanwhile. The transaction that moves the flag `latest` has two steps, because at
READ COMMITTED its first statement sees only what others have committed
(`cleared[r]`). `Overlap` says whether cron may start a run while another is going
on; it does, so both values of the constant are checked.

A `PATCH` of `is_latest` is `ReadPatch` (the row is read), `SetLatest` (the
serializer sets the property, which has a save of its own) and `SavePatch` (the
serializer saves the whole row, with the status and the file it was read with).
`overwritten` collects the exports whose status or file was changed by that last
save. One PATCH is under way at a time; `MaxPatches` bounds how many there are. A
`PATCH` of other fields is left out.

### ResultsFramework

Results, indicators and periods are items; `<<project, item>>` is the row of an
item at a project. A request is a list of sets of steps (`todo`), each of which
reaches the database once. The steps of the first set are done in any order: the
lists the code loops over have an order that users change, and nothing may depend on
it. A step may put further sets in front (`Continue`, `Before`), as a method calls
others in a loop.

| TLA+ | Code |
|---|---|
| `text` | what the rows that exist say (titles, dates, measures, as one number) |
| `linked` | the rows with `parent_result`, `parent_indicator` or `parent_period` |
| `ImportResults`, `ImportResult`, `ImportIndicator` | `Project.import_results`, `import_result`, `import_indicator` as the editor's views call them |
| `CreateResult`, `CreateIndicator`, `CreatePeriod`, `Insert` | a POST, a transaction: the new row, its default periods and the copies `save` makes below it are in `inserted` until `CommitInserted` |
| `Edit`, `SaveEdited` | a PATCH of any row, copies included: only the admin calls `clean`, which would refuse those |
| `Offer`, `InsertResult` | `copy_result_to_children`, `copy_result` |
| `CopyIndicator`, `CopyPeriod` | `update_or_create` in `copy_indicator`, `copy_period`, with what the new row's `save` copies further |
| `Save`, `Spread`, `Renew` | `save` of an existing row, `update_indicator`, `update_period`, and the `save` at the end of `_update_fields_if_not_child_updated` |
| `AddDefaultPeriod`, `DefaultsFrom`, `CopyDefaults` | default periods, copied down as far as a project that has them; the end of `do_import_results` |
| `FixMissingPeriods`, `Walk`, `FixProject`, `FixIndicator` | the command `fix_project_hierarchy_missing_periods` |
| `Reach`, `ReachOfResults`, `Under` | the rows below to which a `save` copies or passes on what it writes, through projects that have the row's owner |
| `Crash` | a process killed between two statements |

`chosen` is a history variable: the copies of results that `import_indicator` made
because the one indicator that was asked for needs a result. Such a copy lacks the
parent's other indicators by intent, so `NothingMissed` does not speak of it.
`overlooked` collects what a commit leaves out on both sides: the parts of a project
below whose copy of the owner came after the transaction had looked for such copies, and
whose import had read the parts before the commit. `own` collects the rows that a user
edited since their parent was last copied to them. `root` is the project the repair
command was started on.

A copy of what was read travels in the step (`Step.text`), so a step may write what
is no longer so. `update_or_create` is a transaction that contains all copies made
below, and so is the transaction of a POST, whose last read and commit are two steps
(`Insert`, `CommitInserted`). In hierarchies where requests overlap (`Overlapping`)
no copy has copies of its own, so these transactions are one insertion or one update
at a time. `FrameworkAssumption` asks for hierarchies without cycles, on which the
code does not end.

### ProjectHierarchy

| TLA+ | Code |
|---|---|
| `parentOf` | `RelatedProject` |
| `at`, `link` | the project and the parent row of each result (the code treats indicators, periods and dimensions in the same way, one table after the other; default periods it does not, see the observations below) |
| `SetParent`, `DeleteRelation` | `validate_parents` and `prevent_parent_delete` before a relation is made or deleted |
| `EditRelation`, `EditChild`, `EditKind` | a relation that is edited to have another parent, another child or another kind: `validate_parents` asks about the child it will have, if it will be a parent's relation |
| `ChangeParent`, `RemoveParent`, `FixInconsistent` | the use cases |
| `Lineage`, `DirectLineage`, `Roots`, `Leaf`, `Pairs` | `usecases/utils.py` |
| `CreateRow`, `ImportRow`, `DeleteRow` | the rows come with the copies `Result.save` makes, and go with `SET_NULL` |

`change_parent` and `fix_inconsistent_result` are transactions; so every operation
is one step. A call that raises changes nothing and is no step. `unseated` is the
project that an edit of the last step left without its parent. No project has two
parents here, which the code allows where a sibling relation is edited to be a
parent's. The trees of the code are sets of rows closed under the links; "single
lineage path" is a statement about the children of its rows. `Lineage`, `Tree` and
`Forebears` are defined as the least sets with that closure and not by recursion, so
that what holds of them can be proved without an induction; where there is no cycle
the two are the same. `HierarchyAssumption` asks for finitely many projects, as a
table has.

### Disaggregation

| TLA+ | Code |
|---|---|
| `amount`, `second`, `incomplete`, `orphaned` | rows of `Disaggregation`: their values added up, that of a second row of the same dimension value (no constraint forbids it; a third is left out); those whose dimension value is gone |
| `total` | `IndicatorPeriodDisaggregation.value` |
| `SaveUpdate`, `SaveOrphaned`, `todo`, `SaveDisaggregation` | `create` and `update` of the update's serializer: the update first, then the disaggregations one by one; a POST is a transaction (`atomic`); `SaveOrphaned` and `FindTwo` are saves of a PATCH that raise |
| `PostDisaggregation`, `EditDisaggregation`, `DeleteDisaggregation` | `DisaggregationViewSet`: POST makes a row whatever there is |
| `DeleteUpdates`, `SetUpdatesStatus`, `DeleteDimensionValue` | deletions with their cascades and signals; the bulk status change |
| `Climb`, `AggregateNext`, `Aggregate`, `GoesUp` | `DisaggregationAggregation.aggregate`, which goes on to the parent period |
| `Mark`, `Flagged`, `SetFlags` | the two handlers of `incomplete_data` |
| `SaveProject`, `RemoveParent`, `RecalculateAll` | flags, links, the command `recalculate_disaggregation_aggregation` |
| `Abort` | a killed process; inside a POST or Django's `delete`, a rollback, which is no step |

`stale` and `unmarked` collect the totals and updates that a path without a signal
left behind. `DisaggregationAssumption` says of the links at the start what importing
a framework makes of them: those of a project's periods and of its dimension values
lead to the same project, and none leads back to itself (a `height` of the periods
grows along them). The actual values are not repeated here: a recalculation may save
other updates of its period and of periods above again, as far as its chain goes,
and the model lets it save any of them (`SavedAgain`).

### ProjectFollowUps

| TLA+ | Code |
|---|---|
| `version` | how often what the checks and the directory read has changed |
| `WriteObject` or `OpenPatch`, `DropEntry`, `Schedule` | the steps of a REST edit: the object or the project, the directory's cache entry, the flag |
| `BeginSave`, `WriteStatus`, `WriteIati`, `SavePatch` or `Schedule` | `Project.save`, whatever `update_fields` names: it reads the stored row, writes `status` if the other was changed, then `iati_status` likewise, then what was asked for, each on its own |
| `StatusFollows`, `IatiFollows` | `CODE_TO_STATUS` and `STATUS_TO_CODE` as that save applies them |
| `StartRun`, `PerformChecks`, `BeginStore`, `StoreChecks` | `perform_iati_checks`, and the list of the IATI section (`View`), which leaves `iati_status` out of its query |
| `Miss`, `Fill`, `Populate` | `cache_with_key` and the command that populates the cache |
| `Kill`, `KillEditor` | a process killed at any step, in the middle of a save as well |

`mixed` collects the projects of which a save was cut short after a status, or wrote
one while another save of the project was under way, or began with a row read at two
moments. The save inside `update_iati_checks` is in its transaction: it reads in
`BeginStore` and commits in `StoreChecks`.

### UpdateReview

| TLA+ | Code |
|---|---|
| `status`, `author` | columns of the updates |
| `OpenUpdate`, `PatchedRow`, `SaveRow` | a PATCH: `get_object`, `perform_update` with who becomes the author, the save of the whole row |
| `CreateUpdate`, `Commit`, `Rollback` | a POST, a transaction with its recalculation, its mails and its tokens |
| `DeleteUpdate`, `DeleteFile`, `SetUpdatesStatus` | the other REST calls; a deleted file saves the author only |
| `ReturnLetters`, `Told` | the signal that mails the author of every saved row that is returned |
| `ReadApproved`, `ReadOthers` | the recalculation, which saves the rows of the period as they were read |
| `AssignIndicators`, `SendAssignments` | `project_enumerators`, `assignment_send`, previews included |
| `ReadToken`, `WriteToken`, `Mail` | `_update_user_token`: read, change in memory, write; then the mail |
| `Kill` | a dead worker, or a mail that raises |

`uses` counts in units of `JWT_MAX_USE`. Which mails go out is part of the state
(`mailed`, `letters`, `told`), what they say is not. One project has one period.

The columns and `tokens` are as the transactions that go on have them; `heldRows`
and `heldTokens` keep, of what a POST has written, what was committed before, and
whose POST it is. `Seen` and `SeenToken` say what a worker reads: its own writes,
and of others what is committed. A row that a POST holds is locked for other writers
(`Free`). A POST that dies takes its rows and tokens back (`Rollback`), but not its
mails: `undone` collects the users whose token was taken back so. A POST that is
refused for lack of permission, which deletes the update again in the same
transaction, is left out.

## 3. What is checked

All runs use `tlc -workers 2`; the times are those of a small machine.

| Run | Bounds | Checked | States |
|---|---|---|---|
| `aggregation` | 2 projects on 2 levels, 2 periods under 1, an update below and one above | `AggregationInv`, `TotalsConsistent`, `RollUp` | 458 000 in 11 s |
| `one_worker` | 3 projects on 3 levels, 1 period each, updates on the lower two, 1 worker | `TypeOK`, `MemoryIsCurrent`, `RollUp`, `ImplementsSequential` | 1 133 000 in 40 s |
| `two_workers` | 1 period, 1 update, 2 workers | `RecalculationKeepsStatus`: violated | |
| `iati_import` | 1 process, 1 form of the admin at a time, 2 jobs, 3 times, 1 crash | `TypeOK`, `RunningShown`, `RetrievingIsExecuted`, `DueRuns` | 815 000 in 1 min |
| `iati_export` | 3 exports of 2 organisations, 1 run at a time, 1 PATCH, 1 kill | `ExportInv`, `ServedNeverOlder`, `RequestsEnd` | 151 000 in 20 s |
| `iati_export_overlap` | 2 exports, 2 runs, no PATCH | `ServedNeverOlder`: violated | |
| `framework` | 3 levels with requests one at a time and 1 edit, and 2 levels with 2 requests at once; 2 results, 1 indicator, 2 periods, 1 of them by default; 1 crash | `TypeOK`, `NothingMissed`, `ImportedStayComplete`, `CopiesAgree`, `RepairedHaveAllPeriods` | 4 190 000 in 2 min |
| `hierarchy` | 4 projects, 4 rows | `TypeOK`, `OnlyLeavingBreaksLinks`, `RelinkedToParent`, `LineageCarriedOver` | 124 000 in 2 min |
| `disaggregation` | 2 levels, 3 dimension values, 2 updates, 1 intervention | `TypeOK`, `SubtreeAddedUp`, `IncompleteTold` | 700 000 in 1 min |
| `disaggregation_off` | the same | `NothingFromOthers`: violated | |
| `follow_ups` | 2 projects, 1 of them saved whole, 2 editors, cron, a view, a reader, 2 edits, 1 kill | `TypeOK`, `UnflaggedIsChecked`, `DirectoryUpToDate`, `StatusesAgree`, `FlagIsServed` | 1 789 000 in 3 min |
| `review` | 2 users, 2 updates of one project and another project, 2 workers, 5 requests, 1 kill | `TypeOK`, `ReturnedTold`, `MailsShown`, `ShownIsMailed` | 1 357 000 in 1 min |

### What the properties say

*Aggregation.* `TotalsConsistent`: every period that is neither bypassed nor still
to be recalculated shows the sum of its approved updates and, if its project
aggregates children, of those children that aggregate to their parents. The early
stop of the chain, the flags tested in three places and the loops of `Project.save`
all have to agree for this to hold in every order of requests. `RollUp` is the same
end to end: with nothing bypassed below, a period shows every approved update of the
subtree that contributes to it once. It is not a consequence of one step: it needs
consistency on each level, and `one_worker` checks it on three. `MemoryIsCurrent`: a
worker alone saves from memory only what the tables say, after any chain of saves in
between. `ImplementsSequential`: what a worker does between two period saves cannot
be seen in the terms of `PeriodAggregation`: saving the updates again changes
nothing, and the late save of `update_actual_comment` has the text stored before.

*Frameworks.* `NothingMissed`: whichever of an import and the creation of an item
reads or writes first, the copy has the item in the end. Where they overlap one
order loses it, because each sees only what the other has committed; that order is
recorded exactly (`overlooked`) and excepted, and with requests one at a time
nothing is. Results made for one indicator (`chosen`) are excepted.
`ImportedStayComplete`: a project that has imported gets every later result, through
any number of levels. `CopiesAgree`: a copy says what its parent says at every level
after edits one at a time, unless it was edited itself since (`own`); such an edit
is copied on below, and one above undoes it. `RepairedHaveAllPeriods`: after the
repair command, and until the next request, every indicator below the project it was
run on that has no periods of its own has its parent's, whatever died before.

*Hierarchy.* `OnlyLeavingBreaksLinks`: while all rows are linked to rows of their
project's parent, only two things change that, and for one project each: a move to
another hierarchy, and an edit of its parent relation to another child or another
kind. `RelinkedToParent`: a row that gets another parent row gets one of the
project's parent, also in hierarchies that are inconsistent already.
`LineageCarriedOver`: in a move to a project that is not above, each row goes under
its counterpart, defined by common forebears and not by the trees of the code.

*Disaggregation.* `SubtreeAddedUp`: where no total below was left behind, a total is
the sum of the approved disaggregations of the whole subtree, each once.
`IncompleteTold`: between requests the mark is there exactly when the
disaggregations do not add up to the update's value. Second rows of a dimension value
count in both.

*Follow-ups.* `UnflaggedIsChecked`: a project that is not flagged has the checks of
its latest edit, but for an edit during the checks (`overtaken`) or before its flag
is set. `DirectoryUpToDate`: the same for the cache entry, but for a value computed
before the edit and stored after its invalidation (`outdated`). `StatusesAgree`:
between the writes of its saves the two statuses of a project belong together,
although every save of the flag writes both from an old row. It excepts what can
break them (`mixed`): saves that were cut short or met another of the same project,
and rows read at two moments, as those of the list of the IATI section are.
`FlagIsServed`: flagged projects get their checks, but for those with lower ids than
one whose checks raise.

*Review.* `ReturnedTold`: an update that is returned (and committed so) has had its
present author mailed since it was returned, or the mail is coming. `MailsShown`:
unless two changes of a user's token overlapped (a change in a POST lasts until that
commits) or one was rolled back with its POST after the mail was out, there is one
token, it shows a date for every project whose link was mailed and admits the uses
of all of them. `ShownIsMailed`: a date that is shown is that of a mail that was
sent, is about to be, or failed; this holds for overlapping changes as well.

*Import.* `RunningShown`: with one process at a time the flag is set while an import
executes and cleared otherwise, whatever raises; only a killed process leaves it
set, and a form of the admin that writes back the flag it had read makes it wrong
until the next write of the row. `RetrievingIsExecuted`: a job that says it
retrieves its file is being executed, or raised or was killed, in which case nothing
takes it up again. `DueRuns`: an enabled import that is due gets another time, even
after crashes, unless two jobs are pending.

*Export.* `ExportInv` holds among others `StuckOnlyByCrash`: an export in progress
is in the hands of a run, or its run was killed, or a PATCH wrote that status back
(and then nothing takes it up). `ServedNeverOlder`: no step of the command removes
an organisation's public file or puts an older one in its place, but for an export
that is handled again because a PATCH wrote its old status back. `RequestsEnd`: a
pending export is handled, deleted, lost with a killed run, or overwritten by a
PATCH (one that writes a row back that is deleted meanwhile can end run after run);
a deleted row that ends a run early only delays the rest of its list.

### Why the bounds are enough

Three levels are the least on which a chain of saves climbs more than once, can
stop in the middle, and has a middle period that is both child and parent. Two
periods of one project under one parent are the least for a loop with several
entries and for a parent with several children. One positive value tells "counted
once" from "not counted" and "counted twice"; sums of different values add nothing
that addition does not already do, and the theorems hold for all naturals. All
initial links and flags are enumerated.

Frameworks: three levels let a copy be copied on; two workers are two requests at
once; an indicator with two periods tells a number of periods from the periods, and
the second result may be created after the first was imported. No invariant says
anything of edits where requests overlap, so there are none there (`Edited`). The
theorems hold for any hierarchy and any number of items, requests, edits and
crashes. The hierarchies of four projects (`Above` orders them, up to renaming)
contain every shape of a move: to a sibling, up, down another branch, and between
two trees; `NoCycle` leaves out hierarchies with a cycle, on which the code does not
end; second parents are left out as well, and `MaxRows` of four lets each project
have a row, or one project several. Disaggregation has a dimension value that is
added up and one that is not; `MaxInterventions` bounds the calls around the
updates' own endpoints, which would multiply the states and each of which may come
at any moment. `Patched` names the projects that are saved as a whole: one is enough
for two saves to meet, and the other's edits are of its objects. `MaxEdits`,
`MaxKills`, `MaxCrashes`, `MaxPatches` and `MaxRequests` bound how often something
happens; without a PATCH the overlap of two runs alone is at fault in
`iati_export_overlap`; the runs of `perform_iati_checks` and the fills of the cache
are not bounded. Five requests let two workers return, edit and approve the same
update and assign and mail an enumerator between.

Two jobs are the least for the error of two pending ones, and the clock lets a
schedule be missed twice. Three exports put one of another organisation between two
of the same, so that lists interleave. `MaxTime` bounds the clock; `Job`, `Export`
and `Update` bound the rows. Updates can be created again after deletion, jobs and
exports cannot.

### Deadlock

The aggregation runs check deadlock. In the others rows, requests, edits or the clock
are bounded, so a behaviour may stop for lack of them, and their configurations
switch the check off; `DueRuns`, `RequestsEnd` and `FlagIsServed` say that what
should happen does.

### Fairness

* `IatiExport!ExportFairness`: the command is started again
  (`settings/90-finish.conf` lists it for every minute) and a run keeps running.
  Requests, deletions, marks and crashes are not fair.
* `ProjectFollowUps!FairSpec`: the command `perform_iati_checks` is started again
  (every five minutes in the same list) and a run keeps running. Editors, readers,
  the IATI section and kills are not fair.
* `IatiImport!Fairness`: the same for the import's command. The repository's list of
  cron jobs does not contain it: `DueRuns` holds for an installation that starts
  it periodically, which is what the command's help text ("Check all enabled
  iati_imports to see if they should execute") is about. The clock and the admin
  are not fair.

### Findings

Each of the three runs that end in a violation shows a place where the code does
not do what its own text says. `PROJECT.json` quotes the lines.

1. `two_workers`: recalculating a period saves updates as they were read, so a
   status that another worker changed meanwhile is undone. The trace is of a PATCH that
   approves an existing update; a POST would not show it, being a transaction.
2. `iati_export_overlap`: overlapping runs, which "can do no harm", can put an older
   file back in the place of a newer one.
3. `disaggregation_off`: a child project that does not aggregate to its parent keeps
   its totals, and the next computation of the parent's total adds them.

### Observations without a run of their own

What else the models show or reading the code for them turned up, for the team to
judge. The models contain these behaviours where they say so above; most are what
the history variables except.

*Aggregation.* An approved update saved with another status, or moved to another period,
leaves its value in the total. *Disaggregation.* An update may have two rows of one
dimension value; a PATCH of the update that sends this value then raises after the
update was written. Approving with a PATCH of the status alone leaves the
totals as they were; so does switching a flag or removing the parent. Deleting a
dimension value leaves disaggregations whose update can no longer be saved without
an error. Deleting a disaggregation leaves its siblings' marks.
`recalculate_disaggregation_aggregation` starts from periods without child periods
only, so a parent's own disaggregations may be lost. Disaggregations are not
validated against a new value when none is sent.

*Frameworks.* An indicator or a period may be lost to an import that overlaps its
POST, since neither sees what the other has not committed. A PATCH of a copy makes
it differ from its parent, which the admin's forms refuse. `import_results` refuses
to run again after dying half way. The repair command compares numbers of periods
only. Overlapping edits may leave an older title in a copy.

*Hierarchy.* `change_parent` to another hierarchy leaves every link as it is, to a
project above loses the counterpart (`utils.py:187-190`), and raises IndexError
where a single path ends at neither project (`utils.py:192`). Nothing forbids a
cycle of projects, and a parent is checked before it is inserted. For projects with
default periods `change_parent` raises: `utils.py:19` names their parent column
`parent_id`, so that `change_project_parent.py:53` updates `parent_id_id`. An edit
of a relation may take the parent of a project with imported rows away, or give a
project a second one. `fix_inconsistent_result` may run into the uniqueness of
parent rows after a new import.

*Follow-ups.* An edit during the checks of its project is marked as checked. A row
as old as a run of checks brings an old status back. IATI statuses 4 and 6 are
stored as 3 when the legacy status follows and is followed. A save that dies between
its writes leaves statuses that disagree, and so may two saves of one project that
meet. One project whose checks raise starves those with lower ids. Saves by the IATI
import and the admin set no flag and drop no cache entry.

*Review.* A manager who asks for the status an update already has becomes its author
(`rest/views/indicator_period_data.py:106`); the test
`test_approve_update_should_not_change_update_user` covers the first approval. Every
recalculation mails returned updates of the period again and grants further uses.
Overlapping creations of a token leave two, of which the first is updated and the
last shown. A POST that fails after its mails are out takes the links' dates and uses
back.

*Import.* `running` is set but never tested, so processes may execute the same
import at once; a form of the admin saved around the end of an execution leaves it
set for good. *Export.* A PATCH of `is_latest` during a run writes an old status and
file back; a completed export may be in progress for good. A job uploaded for an
import without a schedule never runs.

## 4. What is proved

All theorems are about the specifications the runs check, for every value of the
constants that their module's assumption admits: any finite sets of rows, any depth
of hierarchy, any number of workers, runs and requests, no bound on the clock or on
the numbers of events. They cover every invariant and every action property that the
passing runs check, but for `CopiesAgree`. Where a theorem needs one worker, or no
overlap, that is a hypothesis of its statement. Every inductive invariant named
below was checked by TLC on the run of its module before it was proved.

### PeriodAggregationProofs

For every set of projects, finite sets of periods and updates, all values,
hierarchies and flags (`ConstantsAssumption`):

* `AggregationInvariant == Spec => []AggregationInv`
* `TypeCorrect == Spec => []TypeOK`
* `Consistency == Spec => []TotalsConsistent`
* `RollUpInvariant == Spec => []RollUp`

`TotalsConsistent` is not inductive. `AggregationInv` adds to it

* `ParentsAbove`: a period's parent belongs to a higher project. Without it a period
  could be its own parent or the child of its child, and storing its value would
  change what is expected of itself;
* `OnlySelfWhenOff`: a recalculation of the period alone is waiting only while its
  project does not aggregate children. Otherwise it would store a sum without
  them;
* `TypeOK`, for the sums to be natural numbers.

The argument: an action changes the expected value of a period only if it changes
an update of it, a flag of its project, a link to it, or the value or flag of a
child. For each action the lemmas show that any such period is put into `loop`,
`climb` or `bypassed`. A period leaves them only when its value is stored, and what
is stored is the expected value. The early stop is sound because a parent whose
child keeps its text keeps its expected value, and a parent that is not fed
(`FeedsParent`) does not count the child.

`RollUp` follows from `AggregationInv` in each state, though not on one level: among
the periods where it failed, one of the lowest level would have only children where
it holds, the updates below different children are different ones, and so its own
sum would be right as well.

### ConcurrentAggregationProofs

* `ConcurrentTypes == Spec => []TypeOK`, for any number of workers;
* `LoneMemoryIsCurrent == ASSUME NEW w, Worker = {w} PROVE Spec => []MemoryIsCurrent`
* `LoneWorkerIsSequential == ASSUME NEW w, Worker = {w} PROVE Spec =>
  ImplementsSequential`
* `LoneWorkerRollsUp == ASSUME NEW w, Worker = {w} PROVE Spec => []RollUp`

The refinement is shown action by action: opening a request is the corresponding
action of `PeriodAggregation`; storing the period is its `RecalculateNext` or
`Climb`; reading, saving rows again and the trailing save of the comment are
stutters. That they are needs `MemoryIsCurrent` (`Current` of the one worker), which
in turn needs that a chain only climbs: while the stack is above the period that
was opened, `Level` grows, so nothing in the chain writes that period again and the
copy in memory stays what is stored. `LoneWorkerRollsUp` cites the theorem of
`PeriodAggregation` through the refinement. With two workers `MemoryIsCurrent` is
false, as `two_workers` shows.

### IatiProofs

Of IatiImport, for any jobs and processes:

* `ImportTypes == Spec => []TypeOK`
* `RetrievingInvariant == Spec => []RetrievingIsExecuted`
* `RunningIsExecuting`: an import that says it is running is executed by a process,
  or one was killed, or a form of the admin put the flag back. These three hold for
  any number of processes, which may share a job;
* `RunningShownInvariant == ASSUME NEW p, Process = {p} PROVE Spec => []RunningShown`

`TypeOK` needs `DueRead`: a process that is about to move the schedule on has read a
next execution that has passed. `RetrievingIsExecuted` speaks of processes that
execute; `Retrieving` says which step they are at. `RunningShown` has two directions.
The first needs `RunningWritten` (a process that executes has `running` in its own
copy, which is what each of its saves writes), the second that no other process
clears the flag meanwhile.

Of IatiExport, for every set of exports, organisations and runs (`ExportAssumption`):

* `ExportInvariant == ExportSpec => []ExportInv`
* `StuckByCrash == ExportSpec => []StuckOnlyByCrash`
* `ServedInOrder == ASSUME ~Overlap PROVE ExportSpec => ServedNeverOlder`

`StuckOnlyByCrash` needs `RunsInHand` (a run that is not idle has an export in hand,
with a row that once existed). `ServedNeverOlder` needs that a run that commits has
generated its file, that what its transaction clears belongs to the same
organisation (`RunsInHand`), and that no file is newer than the one at hand
(`FilesInOrder`). The last needs that runs do not overlap and that ids follow the
order of requests: an export that is requested while a run goes on is newer than all
of its list. All of them except the exports that a PATCH has written over
(`overwritten`), and `HasFile` counts a file that a PATCH under way may bring back.
Without the assumption the theorem is false, as `iati_export_overlap` shows.

### UpdateReviewProofs

For any users, updates, projects and finite set of workers (`ReviewAssumption`):

* `ReviewTypes == Spec => []TypeOK`
* `ReturnedInvariant == Spec => []ReturnedTold`
* `ShownInvariant == Spec => []ShownIsMailed`
* `MailsInvariant == Spec => []MailsShown`

`ReturnedTold` is inductive with the types. `ShownIsMailed` is about what the tokens
show; a worker may write back what it read before, so the strengthening says the
same of the tokens and of every hand (`TokensJustified`, `HandsJustified`). Both
hold of what is committed as well as of what the transactions that go on have
written, so that a rollback keeps them. `MailsShown` counts: for a user who was not
overlapped and from whom no token was taken back there is at most one token
(`OneToken`), who is about to write it has read what it says (`ReadIsCurrent`), and
its uses admit the links that were mailed and those written and not mailed yet
(`Admitted`, with `Posting` for the latter; `NoneYet` before there is a token). A
second change of the same token takes the user out of these, which is what
`overlapped` records.

### ProjectFollowUpsProofs

For any projects and any editors, commands, lists and readers (`FollowUpsAssumption`):

* `FollowUpsTypes == Spec => []TypeOK`
* `CheckedInvariant == Spec => []UnflaggedIsChecked`
* `DirectoryInvariant == Spec => []DirectoryUpToDate`
* `AgreeInvariant == Spec => []StatusesAgree`

`TypeOK` says that nothing stored is newer than the project; `NothingAhead` adds the
same of what runs and fills hold. `StatusesAgree` is about moments between the
writes of a save, so its proof has to say what those in a save know (`Known`): a
project's statuses agree unless a save of it is between two writes (`AgreeAt`); what
an editor is about to write is a pair and, unless saves of its project met, the row
is as the editor read it, or read and half wrote it (`EditorKnows`); the same for a
run in its transaction (`CheckerKnows`). A save that begins or ends alone
(`SavesAlone`) may forget what was mixed before; a step about one project is no
concern of the others (`OthersKnow`).

### DisaggregationProofs

For finitely many periods, dimension values and updates in any hierarchy
(`DisaggregationAssumption`):

* `DisaggregationTypes == Spec => []TypeOK`
* `IncompleteInvariant == Spec => []IncompleteTold`
* `SubtreeInvariant == Spec => []SubtreeAddedUp`

`TypeOK` needs `Prepared` (what is left of a request is about an update and
dimension values that exist) and `LinksKept` (links are those of the start or gone).
`IncompleteTold` speaks of the time between requests; `Told` is its form at any
moment, without the update whose flags are about to be set. `SubtreeAddedUp` is not
inductive: a step sees one level. `Accounted` says of each cell that nothing is
pending for and no path without a signal reached that its total is that of its own
period and of its child cells. The subtree follows in each state: of the cells that
fail, one with the least `height` has children that do not, their subtrees are
disjoint, and the total of their totals is that of the union (`TotalOfParts`).

### ProjectHierarchyProofs

For every finite set of projects, every choice of parents considered and any number
of rows (`HierarchyAssumption`):

* `HierarchyTypes == Spec => []TypeOK`, which contains that no row is linked to one that
  is gone and none is copied twice to a project (that there is no cycle of projects is
  part of it, and follows from the bound `NoCycle`);
* `RelinkedInvariant == Spec => RelinkedToParent`
* `LeavingInvariant == Spec => OnlyLeavingBreaksLinks`
* `CarriedInvariant == Spec => LineageCarriedOver`

`TypeOK` is inductive. Giving a project a new parent makes no cycle because the
lineages of the new relation are contained in unions of those of the old one
(`NewParentNoCycles`). The rest is about single steps from a typed state:

* `PairsShape`: `make_source_to_target_map` pairs rows of the source with rows of the
  target or with none, in any state. That gives `RelinkedToParent`.
* While links follow the hierarchy (`Consistent`), a row has at most one child on
  each side of a direct lineage (`TwoKids`), the rows at its ends have none
  (`NoKidsAtTheEnd`), every row is in the tree of exactly one root (`RootExists`,
  `RootsAreApart`) and a path that does not branch has one end (`LeafOfPath`). So
  every row of the moved project is paired (`MovedRowIsPaired`), and no link is left
  behind: `OnlyLeavingBreaksLinks`. An edit of a relation changes no link, so it can
  break them only for the project whose parent it takes away.
* A row and its counterpart descend from a row at the nearest common project, which
  is a root; the paths to them go through its two children; so the pair found for
  the row is its counterpart (`MovedRowIsCarried`): `LineageCarriedOver`.

### ResultsFrameworkProofs

For every set of hierarchies without cycles, any results, indicators and periods (of
these finitely many) and any number of workers (`FrameworkAssumption`):

* `FrameworkInvariant == Spec => []FrameworkInv`
* `FrameworkTypes == Spec => []TypeOK`
* `FrameworkMissesNothing == Spec => []NothingMissed`
* `FrameworkImportsStayComplete == Spec => []ImportedStayComplete`
* `FrameworkRepairs == Spec => []RepairedHaveAllPeriods`

None of the three is inductive: they speak of the time when the requests have
ended, and while requests run what a copy lacks is somewhere in a list of steps. Each
part of `FrameworkInv` says what the lists hold.

* `Core`, inductive by itself (`CoreInvariant`), has the types and what a step
  relies on. `RowsConsistent`: a row comes with the row of its owner, a copy with
  the copy of its owner, and all rows of an item are below the one that is no copy.
  `StepsReady`: what a step is about to copy is there, or the step that inserts it
  comes first, and a transaction holds only new rows, each where its parent and its
  owner are (`ToCommit`, `NewRow`). `CreatedOnce`: no two requests create the same
  item. `InOrder`: which steps may wait while another is done (`MayWait`); this is
  what is left of the program's control flow, and why nothing ends a loop early.
* `Orders`: one request at a time where that is the bound (`OneBusy`), and who is
  recorded as imported has results (`ImportedHaveResults`).
* `NotYetThere`: with requests one at a time a result about to be inserted is not
  there yet, so `unique_together` never stops a request half way. `AllInserted`: then a
  transaction also holds a copy at every project below that has the copy of the owner.
* `NothingForgotten`: a copy that lacks a part has a step that will find it, which is a
  reading of the parent's parts or the copy itself, or the part is `overlooked`. A part
  comes with the commit of its POST: an import that reads the parent's parts later finds
  it, one at a time the transaction has made the copy itself, and of two that overlapped
  the commit records what neither saw. Without crashes it gives `NothingMissed`.
* `ResultsComing`: the results an imported project lacks are being inserted, and so are
  those of an import that has not ended. It gives `ImportedStayComplete`.
* `Restoring`: while the repair runs, every period that a copy below its root lacks
  has a step of the repair above it. That the command compares numbers is enough where
  an indicator has copies only: its periods are then a subset of its parent's, and
  finite sets of equal size are equal. It gives `RepairedHaveAllPeriods`.

The proofs go by what a step does to rows and lists: `Moves` (a step is done and
brings others), `Goes` and `Halts` (what is common to all steps), `CopiesMade` (rows of
one item appear at a project and below), `Commits` (those of a transaction do). TLC
checked `FrameworkInv`, part by part, on both hierarchies of the run before it was
proved.

### What is only model-checked

* `CopiesAgree`, on a chain of three levels with one edit.
* Liveness (`DueRuns`, `RequestsEnd`, `FlagIsServed`): the proof system
  has no rule for fairness here.
* That `Lineage`, `Tree`, `Forebears` and `Under` as least sets agree with the
  recursion of the code on every hierarchy: induction over data, which the installed
  provers cannot instantiate. The runs' hierarchies were checked with both forms
  (for `Under`, all those of three projects).

## 5. The plan

Done: all nine models with their runs, and the proofs of every safety property that
the passing runs check, except `CopiesAgree`.

Next, in this order:

1. `ConcurrentAggregation` with several workers: which totals are right once all are
   idle (those of periods that no two workers had in hand at once), as a property of
   a run with two workers and as a theorem for any number.
2. The saves of child periods by a parent's save, which matter with two workers only,
   and which the property of the first item has to count.
3. A proof of `CopiesAgree`: all rows of an item and all steps about it say the same,
   but for an edit on its way down and what is below a copy that was edited itself.

To be modelled, if there is room: percentages (numerators and denominators, the text
that decides whether the chain goes on, the check for a single update); budgets and
funds of projects, publishing, deletion; the cached project filters and permissions,
which time out.

## 6. What is not modelled, and why

* IATI XML (`akvo/iati/exports`, `imports/mappers`): one class per element, each
  converting a row; no state over time.
* Reports, statistics, dashboards: read only.
* Permissions: predicates over most of the schema. UpdateReview has the one that
  decides which updates a user sees, without its exceptions for administrators and
  for one programme.
* What the components say in `PROJECT.json`: percentages, deletions of items of a
  framework, dimensions while importing, expiry of tokens and locked periods, the
  options of commands, comments, photos and the audit log.
* The periods of ancestors in UpdateReview: an approval saves their updates as well.
  Their rows are saved and mailed about in the same way as those of the period.
* Front-ends (`akvo/rsr/spa`, `dir`), templates, codelists (`akvo/codelists/store`,
  generated), translations, fixtures, migrations, container and CI files: no logic
  of the system's own.
