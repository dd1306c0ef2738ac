------------------------ MODULE ConcurrentAggregation ------------------------
(***************************************************************************)
(* The requests on updates of PeriodAggregation at the grain at which they  *)
(* reach the database: recalculate_period first reads the children, then    *)
(* reads the approved updates and saves each of them again, does the same   *)
(* with the other updates, and only then saves the period.  All saves write *)
(* whole rows, and a PATCH or a DELETE is no transaction: every statement   *)
(* commits by itself, and other workers' requests come in between.          *)
(*                                                                          *)
(* The requests that recalculate here are those on existing updates.  A     *)
(* POST is one transaction, whose row nobody sees before it commits: here   *)
(* it only creates updates that are not approved yet, its one write; an     *)
(* update created as approved is left to PeriodAggregation, and so is one   *)
(* that is moved to another period.                                         *)
(*                                                                          *)
(* With a single worker this module implements PeriodAggregation.  Links    *)
(* and flags do not change here.                                            *)
(***************************************************************************)
EXTENDS Naturals, FiniteSets

CONSTANTS
    Worker,     \* the server's workers
    Project, Period, Update, Value, ProjectOf, PeriodOf, Level, NoPeriod, NoNumber

\* As in PeriodAggregation.
ASSUME ConcurrentAssumption ==
    /\ IsFiniteSet(Period)
    /\ IsFiniteSet(Update)
    /\ Value \subseteq Nat
    /\ ProjectOf \in [Period -> Project]
    /\ PeriodOf \in [Update -> Period]
    /\ Level \in [Project -> Nat]
    /\ NoPeriod \notin Period
    /\ NoNumber \notin Nat

VARIABLES
    status, value, parentPeriod, aggregateChildren, aggregateToParent, actualValue,
    bypassed,   \* as in PeriodAggregation
    work        \* what each worker is doing

tables == <<status, value, actualValue, bypassed>>
fixed == <<parentPeriod, aggregateChildren, aggregateToParent>>
vars == <<tables, fixed, work>>

(* A worker's call stack: the recalculation of period "at", the updates it     *)
(* read ("rows", with their values), the sum so far, and self.period of the    *)
(* update the request is about, as it is in memory, for update_actual_comment. *)
Phase == {"idle", "children", "approved", "rewrite approved", "others",
          "rewrite others", "store", "comment"}
Work(updates) ==
    [phase : Phase, at : Period \cup {NoPeriod}, climbing : BOOLEAN,
     rows : [updates -> Nat], total : Nat,
     period : Period \cup {NoPeriod}, text : Nat \cup {NoNumber}]

NoWork == [phase |-> "idle", at |-> NoPeriod, climbing |-> FALSE, rows |-> <<>>,
           total |-> 0, period |-> NoPeriod, text |-> NoNumber]

\* The recalculations a single worker is going to start, in the terms of
\* PeriodAggregation.
Busy(w) == work[w].phase \notin {"idle", "comment"}
Loop == {[period |-> work[w].at, onlySelf |-> FALSE] :
            w \in {x \in Worker : Busy(x) /\ ~work[x].climbing}}
Climbing == {w \in Worker : Busy(w) /\ work[w].climbing}
Climb == IF Climbing = {} THEN NoPeriod ELSE work[CHOOSE w \in Climbing : TRUE].at

Sequential == INSTANCE PeriodAggregation WITH loop <- Loop, climb <- Climb

WorkOK ==
    /\ DOMAIN work = Worker
    /\ \A w \in Worker :
          /\ \E updates \in SUBSET Update : work[w] \in Work(updates)
          /\ Busy(w) => work[w].at \in Period
          /\ work[w].phase = "comment" => work[w].period \in Period

TypeOK == Sequential!TypeOK /\ WorkOK

Idle(w) == work[w].phase = "idle"
At(w, phase) == work[w].phase = phase
Turn(w, i) == work' = [work EXCEPT ![w] = i]

\* IndicatorPeriodData.save or delete calls recalculate_period on its period.
Recalculate(q) == [NoWork EXCEPT !.phase = "children", !.at = q, !.period = q]

-----------------------------------------------------------------------------
Init ==
    /\ work = [w \in Worker |-> NoWork]
    /\ Sequential!Init

\* A PATCH: the saved status of an existing update is "approved".
SaveApproved(w, u, v) ==
    /\ Idle(w)
    /\ status[u] # "none"
    /\ status' = [status EXCEPT ![u] = "approved"]
    /\ value' = [value EXCEPT ![u] = v]
    /\ Turn(w, Recalculate(PeriodOf[u]))
    /\ UNCHANGED <<actualValue, bypassed, fixed>>

\* A POST or a PATCH with any other status is this one write.
SaveUnapproved(w, u, v) ==
    /\ Idle(w)
    /\ status' = [status EXCEPT ![u] = "unapproved"]
    /\ value' = [value EXCEPT ![u] = v]
    /\ bypassed' = IF status[u] = "approved"
                     THEN bypassed \cup {PeriodOf[u]} ELSE bypassed
    /\ UNCHANGED <<actualValue, work, fixed>>

DeleteUpdate(w, u) ==
    /\ Idle(w)
    /\ status[u] # "none"
    /\ status' = [status EXCEPT ![u] = "none"]
    /\ value' = [value EXCEPT ![u] = 0]
    /\ IF status[u] = "approved" THEN Turn(w, Recalculate(PeriodOf[u]))
                                 ELSE UNCHANGED work
    /\ UNCHANGED <<actualValue, bypassed, fixed>>

\* set_updates_status, for one update.
SetUpdateStatus(w, u, s) ==
    /\ Idle(w)
    /\ status[u] # "none"
    /\ status' = [status EXCEPT ![u] = s]
    /\ bypassed' = IF (status[u] = "approved") # (s = "approved")
                     THEN bypassed \cup {PeriodOf[u]} ELSE bypassed
    /\ UNCHANGED <<value, actualValue, work, fixed>>

Request(w) ==
    \/ \E u \in Update, v \in Value : SaveApproved(w, u, v) \/ SaveUnapproved(w, u, v)
    \/ \E u \in Update : DeleteUpdate(w, u)
    \/ \E u \in Update, s \in {"unapproved", "approved"} : SetUpdateStatus(w, u, s)

-----------------------------------------------------------------------------
(* recalculate_period, with recalculate_children and child_periods_sum.     *)

ReadChildren(w) ==
    LET q == work[w].at
    IN  /\ At(w, "children")
        /\ Turn(w, [work[w] EXCEPT !.phase = "approved", !.total =
               IF /\ Sequential!ChildPeriods(q) # {}
                  /\ aggregateChildren[ProjectOf[q]]
                 THEN Sequential!ChildPeriodsSum(q) ELSE 0])
        /\ UNCHANGED <<tables, fixed>>

\* Mutated form of ReadApproved: a period without updates gets no number even if
\* the recalculation is not one of the period alone.
ReadApprovedOrNothing(w) ==
    LET q == work[w].at
    IN  /\ At(w, "approved")
        /\ Turn(w, [work[w] EXCEPT
               !.phase = "rewrite approved",
               !.rows = [u \in Sequential!ApprovedUpdates(q) |-> value[u]],
               !.total = IF Sequential!UpdatesOf(q) = {} THEN NoNumber
                         ELSE @ + Sequential!SumOfUpdates(q)])
        /\ UNCHANGED <<tables, fixed>>

\* The queryset is evaluated: the sum is over what is read now.
ReadApproved(w) ==
    LET q == work[w].at
    IN  /\ At(w, "approved")
        /\ Turn(w, [work[w] EXCEPT
               !.phase = "rewrite approved",
               !.rows = [u \in Sequential!ApprovedUpdates(q) |-> value[u]],
               !.total = @ + Sequential!SumOfUpdates(q)])
        /\ UNCHANGED <<tables, fixed>>

\* update.save(recalculate=False) of all rows read, with the status and value
\* they had then; Django inserts the row if it is gone.  The code saves one row
\* after another; here the rows go in one step.
SaveRows(w, s) ==
    LET rows == work[w].rows
    IN  /\ status' = [u \in Update |-> IF u \in DOMAIN rows THEN s ELSE status[u]]
        /\ value' = [u \in Update |-> IF u \in DOMAIN rows THEN rows[u] ELSE value[u]]

RewriteApproved(w) ==
    /\ At(w, "rewrite approved")
    /\ SaveRows(w, "approved")
    /\ Turn(w, [work[w] EXCEPT !.phase = "others", !.rows = <<>>])
    /\ UNCHANGED <<actualValue, bypassed, fixed>>

ReadOthers(w) ==
    LET q == work[w].at
        others == Sequential!UpdatesOf(q) \ Sequential!ApprovedUpdates(q)
    IN  /\ At(w, "others")
        /\ Turn(w, [work[w] EXCEPT
               !.phase = "rewrite others",
               !.rows = [u \in others |-> value[u]]])
        /\ UNCHANGED <<tables, fixed>>

RewriteOthers(w) ==
    /\ At(w, "rewrite others")
    /\ SaveRows(w, "unapproved")
    /\ Turn(w, [work[w] EXCEPT !.phase = "store", !.rows = <<>>])
    /\ UNCHANGED <<actualValue, bypassed, fixed>>

\* Mutated form of SavePeriod: a parent's parent is not recalculated.
SavePeriodOneLevel(w, q, text, memory, after) ==
    /\ actualValue' = [actualValue EXCEPT ![q] = text]
    /\ Turn(w, IF text # actualValue[q] /\ Sequential!FeedsParent(q) /\ ~work[w].climbing
                 THEN [memory EXCEPT !.phase = "children", !.at = parentPeriod[q],
                                     !.climbing = TRUE]
               ELSE after)

\* IndicatorPeriod.save of a row with the given text, and how it goes on: with
\* the parent, or with what comes after the chain of saves.
SavePeriod(w, q, text, memory, after) ==
    /\ actualValue' = [actualValue EXCEPT ![q] = text]
    /\ Turn(w, IF text # actualValue[q] /\ Sequential!FeedsParent(q)
                 THEN [memory EXCEPT !.phase = "children", !.at = parentPeriod[q],
                                     !.climbing = TRUE]
               ELSE after)

\* Mutated form of StorePeriod: another instance of the period is saved, so that
\* the one update_actual_comment saves later has the text of before.
StorePeriodElsewhere(w) ==
    LET i == work[w]
        after == IF i.period = NoPeriod THEN NoWork
                 ELSE [i EXCEPT !.phase = "comment", !.climbing = FALSE]
    IN  /\ At(w, "store")
        /\ SavePeriod(w, i.at, i.total, i, after)
        /\ bypassed' = bypassed \ {i.at}
        /\ UNCHANGED <<status, value, fixed>>

\* The text of self.period is kept in memory.  Once the chain has ended,
\* update_actual_comment saves self.period again.
StorePeriod(w) ==
    LET i == work[w]
        memory == IF i.at = i.period THEN [i EXCEPT !.text = i.total] ELSE i
        after == IF i.period = NoPeriod THEN NoWork
                 ELSE [memory EXCEPT !.phase = "comment", !.climbing = FALSE]
    IN  /\ At(w, "store")
        /\ SavePeriod(w, i.at, i.total, memory, after)
        /\ bypassed' = bypassed \ {i.at}
        /\ UNCHANGED <<status, value, fixed>>

\* update_actual_comment: the row is saved with the actual value in memory.
UpdateActualComment(w) ==
    LET i == work[w]
    IN  /\ At(w, "comment")
        /\ SavePeriod(w, i.period, i.text, [i EXCEPT !.period = NoPeriod], NoWork)
        /\ UNCHANGED <<status, value, bypassed, fixed>>

\* The worker is killed or something raises.
Abort(w) ==
    /\ ~Idle(w)
    /\ Turn(w, NoWork)
    /\ bypassed' = IF Busy(w) THEN bypassed \cup {work[w].at} ELSE bypassed
    /\ UNCHANGED <<status, value, actualValue, fixed>>

WorkStep(w) ==
    \/ ReadChildren(w) \/ ReadApproved(w) \/ RewriteApproved(w) \/ ReadOthers(w)
    \/ RewriteOthers(w) \/ StorePeriod(w) \/ UpdateActualComment(w)

Next == \E w \in Worker : Request(w) \/ WorkStep(w) \/ Abort(w)

Spec == Init /\ [][Next]_vars

-----------------------------------------------------------------------------
(* Properties.                                                              *)

\* Whatever a lone worker has in memory when it writes, the tables still say: the
\* children's sum, the updates it read and saves again, the text of the period the
\* update belongs to, which the saves of the chain above it leave alone.
MemoryIsCurrent ==
    \A w \in Worker :
        LET i == work[w]
        IN  /\ Busy(w) =>
                  /\ i.period \in Period
                  /\ IF i.climbing
                       THEN /\ i.text = actualValue[i.period]
                            /\ Level[ProjectOf[i.at]] < Level[ProjectOf[i.period]]
                       ELSE i.at = i.period
            /\ i.phase = "comment" => i.text = actualValue[i.period]
            /\ i.phase = "approved" =>
                  i.total = IF /\ Sequential!ChildPeriods(i.at) # {}
                               /\ aggregateChildren[ProjectOf[i.at]]
                              THEN Sequential!ChildPeriodsSum(i.at) ELSE 0
            /\ i.phase \in {"rewrite approved", "others", "rewrite others", "store"} =>
                  i.total = Sequential!RecalculatedValue(i.at, FALSE)
            /\ i.phase = "rewrite approved" =>
                  i.rows = [u \in Sequential!ApprovedUpdates(i.at) |-> value[u]]
            /\ i.phase = "rewrite others" =>
                  i.rows = [u \in Sequential!UpdatesOf(i.at)
                                      \ Sequential!ApprovedUpdates(i.at) |-> value[u]]

\* One worker at a time makes every request what PeriodAggregation says: the
\* saves in between and the trailing save of update_actual_comment are stutters.
ImplementsSequential == Sequential!Spec

\* On three levels, through the statements of each save: once the chain of saves
\* above an update has ended, every period up to the top shows every approved
\* update below it that contributes, once (the RollUp of PeriodAggregation).
RollUp == Sequential!RollUp

\* A recalculation is about values: which updates exist and which of them are
\* approved is for the requests alone to change.
RecalculationKeepsStatus ==
    [][(\E w \in Worker : WorkStep(w)) => UNCHANGED status]_vars
=============================================================================
