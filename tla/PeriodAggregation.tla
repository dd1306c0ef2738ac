-------------------------- MODULE PeriodAggregation --------------------------
(***************************************************************************)
(* The actual values of the indicator periods of a results framework       *)
(* (akvo/rsr/models/result), kept up to date while updates are saved,      *)
(* approved, returned and deleted, aggregation is switched on and off, and *)
(* projects change parent.  The measure is "unit": values are added up.    *)
(*                                                                         *)
(* One request (a REST call, an admin save, a command) runs at a time.  It *)
(* writes its own row in its first step and then recalculates periods, one *)
(* step each: IndicatorPeriod.save calls the parent's recalculate_period,  *)
(* so a chain of saves climbs the hierarchy.  A PATCH or a DELETE is not   *)
(* wrapped in a transaction, so it may end between any two steps.  A POST  *)
(* and a save in the admin are: one that fails is as if it had not been    *)
(* made.  What Abort leaves of a creation is what is left of an update     *)
(* that was created as a draft when the PATCH approving it is killed.      *)
(***************************************************************************)
EXTENDS Naturals, FiniteSets

CONSTANTS
    Project,    \* the projects of the hierarchy
    Period,     \* the indicator periods of their results frameworks
    Update,     \* the rows IndicatorPeriodData may hold
    Value,      \* the values an update, or a typed-in actual value, may have
    ProjectOf,  \* period.indicator.result.project
    PeriodOf,   \* update.period of the row; a move is to another row (MoveUpdate)
    Level,      \* depth of a project in its hierarchy, parents above children
    NoPeriod,   \* the null foreign key
    NoNumber    \* an actual_value that Decimal() rejects: '' or a text

ASSUME ConstantsAssumption ==
    /\ IsFiniteSet(Period)
    /\ IsFiniteSet(Update)
    /\ Value \subseteq Nat
    /\ ProjectOf \in [Period -> Project]
    /\ PeriodOf \in [Update -> Period]
    /\ Level \in [Project -> Nat]
    /\ NoPeriod \notin Period
    /\ NoNumber \notin Nat

VARIABLES
    status,             \* "none" (no row), "unapproved" (D, P or R) or "approved" (A)
    value,              \* IndicatorPeriodData.value (0 stands for None as well)
    parentPeriod,       \* IndicatorPeriod.parent_period
    aggregateChildren,  \* Project.aggregate_children
    aggregateToParent,  \* Project.aggregate_to_parent
    actualValue,        \* IndicatorPeriod.actual_value
    loop,               \* recalculations the running request still has to start
    climb,              \* the parent period the last save in the chain goes on to
    bypassed            \* history: periods whose inputs changed unannounced

inputs == <<status, value, parentPeriod, aggregateChildren, aggregateToParent>>
vars == <<inputs, actualValue, loop, climb, bypassed>>

Task == [period : Period, onlySelf : BOOLEAN]
Actual == Nat \cup {NoNumber}

TypeOK ==
    /\ status \in [Update -> {"none", "unapproved", "approved"}]
    /\ value \in [Update -> Nat]
    /\ parentPeriod \in [Period -> Period \cup {NoPeriod}]
    /\ aggregateChildren \in [Project -> BOOLEAN]
    /\ aggregateToParent \in [Project -> BOOLEAN]
    /\ actualValue \in [Period -> Actual]
    /\ loop \in SUBSET Task
    /\ climb \in Period \cup {NoPeriod}
    /\ bypassed \in SUBSET Period

-----------------------------------------------------------------------------
(* Sums.  The sum of a finite family of naturals is a cardinality, not a    *)
(* fold, so that the proofs need no induction over a recursive definition.  *)

Total(f) == Cardinality(UNION {{x} \X (1 .. f[x]) : x \in DOMAIN f})

\* Decimal(text) as the sums use it: what it rejects is left out.
Number(text) == IF text = NoNumber THEN 0 ELSE text

PeriodsOf(p) == {q \in Period : ProjectOf[q] = p}
UpdatesOf(q) == {u \in Update : PeriodOf[u] = q /\ status[u] # "none"}
ApprovedUpdates(q) == {u \in Update : PeriodOf[u] = q /\ status[u] = "approved"}
ChildPeriods(q) == {c \in Period : parentPeriod[c] = q}

\* child_periods_with_data(only_aggregated=True): children whose text is no
\* number stay in the set and count 0.
AggregatedChildren(q) == {c \in ChildPeriods(q) : aggregateToParent[ProjectOf[c]]}

SumOfUpdates(q) == Total([u \in ApprovedUpdates(q) |-> value[u]])
ChildPeriodsSum(q) ==
    Total([c \in AggregatedChildren(q) |-> Number(actualValue[c])])

\* Mutated form of RecalculatedValue: recalculate_children without include_self.
RecalculatedValueWithoutSelf(q, onlySelf) ==
    IF ~onlySelf /\ ChildPeriods(q) # {} /\ aggregateChildren[ProjectOf[q]]
      THEN ChildPeriodsSum(q) ELSE SumOfUpdates(q)

\* recalculate_period: what it stores, with the early return to
\* recalculate_children and the special case of only_self without data.
RecalculatedValue(q, onlySelf) ==
    IF ~onlySelf /\ ChildPeriods(q) # {} /\ aggregateChildren[ProjectOf[q]]
      THEN ChildPeriodsSum(q) + SumOfUpdates(q)
    ELSE IF onlySelf /\ UpdatesOf(q) = {} THEN NoNumber
    ELSE SumOfUpdates(q)

\* Mutated form of FeedsParent: the flag of the child's project is tested.
FeedsParentByOwnFlag(q) ==
    /\ parentPeriod[q] # NoPeriod
    /\ aggregateChildren[ProjectOf[q]]
    /\ aggregateToParent[ProjectOf[q]]

\* The test at the end of IndicatorPeriod.save.
FeedsParent(q) ==
    /\ parentPeriod[q] # NoPeriod
    /\ aggregateChildren[ProjectOf[parentPeriod[q]]]
    /\ aggregateToParent[ProjectOf[q]]

-----------------------------------------------------------------------------
Idle == loop = {} /\ climb = NoPeriod

\* Periods the running request is still going to recalculate.
Pending == {t.period : t \in loop} \cup ({climb} \ {NoPeriod})

Init ==
    /\ status = [u \in Update |-> "none"]
    /\ value = [u \in Update |-> 0]
    /\ parentPeriod \in
         {f \in [Period -> Period \cup {NoPeriod}] :
             \A q \in Period : f[q] # NoPeriod =>
                 Level[ProjectOf[f[q]]] < Level[ProjectOf[q]]}
    /\ aggregateChildren \in [Project -> BOOLEAN]
    /\ aggregateToParent \in [Project -> BOOLEAN]
    /\ actualValue = [q \in Period |-> NoNumber]
    /\ loop = {}
    /\ climb = NoPeriod
    /\ bypassed = {}

(* IndicatorPeriodData.save, for a new row and for an edited one.           *)

\* The saved status is "approved": the period is recalculated next.
SaveApproved(u, v) ==
    /\ Idle
    /\ status' = [status EXCEPT ![u] = "approved"]
    /\ value' = [value EXCEPT ![u] = v]
    /\ loop' = {[period |-> PeriodOf[u], onlySelf |-> FALSE]}
    /\ UNCHANGED <<parentPeriod, aggregateChildren, aggregateToParent,
                   actualValue, climb, bypassed>>

\* Any other status: no recalculation, even if the row was approved before.
SaveUnapproved(u, v) ==
    /\ Idle
    /\ status' = [status EXCEPT ![u] = "unapproved"]
    /\ value' = [value EXCEPT ![u] = v]
    /\ bypassed' = IF status[u] = "approved"
                     THEN bypassed \cup {PeriodOf[u]} ELSE bypassed
    /\ UNCHANGED <<parentPeriod, aggregateChildren, aggregateToParent,
                   actualValue, loop, climb>>

\* Mutated form of DeleteUpdate: the status is read when the row is gone.
DeleteUpdateUnnoticed(u) ==
    /\ Idle
    /\ status[u] # "none"
    /\ status' = [status EXCEPT ![u] = "none"]
    /\ value' = [value EXCEPT ![u] = 0]
    /\ UNCHANGED <<parentPeriod, aggregateChildren, aggregateToParent,
                   actualValue, loop, climb, bypassed>>

\* IndicatorPeriodData.delete looks at the status the row had.
DeleteUpdate(u) ==
    /\ Idle
    /\ status[u] # "none"
    /\ status' = [status EXCEPT ![u] = "none"]
    /\ value' = [value EXCEPT ![u] = 0]
    /\ loop' = IF status[u] = "approved"
                 THEN {[period |-> PeriodOf[u], onlySelf |-> FALSE]} ELSE {}
    /\ UNCHANGED <<parentPeriod, aggregateChildren, aggregateToParent,
                   actualValue, climb, bypassed>>

\* The REST serializer leaves "period" writable (only the admin's form refuses
\* a change), so a PATCH may move an update: from u to a row v of the other
\* period.  save recalculates the period it has now, not the one it had.
MoveUpdate(u, v, s, x) ==
    /\ Idle
    /\ status[u] # "none" /\ status[v] = "none"
    /\ PeriodOf[u] # PeriodOf[v]
    /\ status' = [status EXCEPT ![u] = "none", ![v] = s]
    /\ value' = [value EXCEPT ![u] = 0, ![v] = x]
    /\ loop' = IF s = "approved"
                 THEN {[period |-> PeriodOf[v], onlySelf |-> FALSE]} ELSE {}
    /\ bypassed' = IF status[u] = "approved"
                     THEN bypassed \cup {PeriodOf[u]} ELSE bypassed
    /\ UNCHANGED <<parentPeriod, aggregateChildren, aggregateToParent,
                   actualValue, climb>>

\* set_updates_status: one queryset.update over rows of one project, so
\* neither save nor a signal runs.
SetUpdatesStatus(p, us, s) ==
    /\ Idle
    /\ us # {}
    /\ \A u \in us : status[u] # "none" /\ ProjectOf[PeriodOf[u]] = p
    /\ status' = [u \in Update |-> IF u \in us THEN s ELSE status[u]]
    /\ bypassed' = bypassed \cup
         {PeriodOf[u] : u \in {x \in us : (status[x] = "approved") # (s = "approved")}}
    /\ UNCHANGED <<value, parentPeriod, aggregateChildren, aggregateToParent,
                   actualValue, loop, climb>>

\* IndicatorPeriodData.user is on_delete=CASCADE: deleting a user removes the
\* rows last saved by that user (any set of rows) without calling their delete.
DeleteUser(us) ==
    /\ Idle
    /\ us # {}
    /\ \A u \in us : status[u] # "none"
    /\ status' = [u \in Update |-> IF u \in us THEN "none" ELSE status[u]]
    /\ value' = [u \in Update |-> IF u \in us THEN 0 ELSE value[u]]
    /\ bypassed' = bypassed \cup
         {PeriodOf[u] : u \in {x \in us : status[x] = "approved"}}
    /\ UNCHANGED <<parentPeriod, aggregateChildren, aggregateToParent,
                   actualValue, loop, climb>>

\* Project.save after a change of the aggregation flags.  The code goes
\* through the project's periods first and through their parents second; here
\* the recalculations come in any order.
SaveProject(p, toChildren, toParent) ==
    /\ Idle
    /\ <<toChildren, toParent>> # <<aggregateChildren[p], aggregateToParent[p]>>
    /\ aggregateChildren' = [aggregateChildren EXCEPT ![p] = toChildren]
    /\ aggregateToParent' = [aggregateToParent EXCEPT ![p] = toParent]
    /\ loop' =
         {t \in Task :
            \/ /\ toChildren # aggregateChildren[p]
               /\ ProjectOf[t.period] = p
               /\ t.onlySelf = ~toChildren
            \/ /\ toParent # aggregateToParent[p]
               /\ \E q \in PeriodsOf(p) : parentPeriod[q] = t.period
               /\ t.onlySelf = FALSE}
    /\ UNCHANGED <<status, value, parentPeriod, actualValue, climb, bypassed>>

\* The command recalculate_periods: every period that has children.
RecalculatePeriods ==
    /\ Idle
    /\ loop' = {t \in Task : ChildPeriods(t.period) # {} /\ t.onlySelf = FALSE}
    /\ UNCHANGED <<inputs, actualValue, climb, bypassed>>

\* remove_parent and change_parent rewrite the links with queryset.update: no
\* period is saved, so nothing is recalculated.
Relink(p, target) ==
    LET moved == {q \in PeriodsOf(p) : target[q] # parentPeriod[q]}
    IN  /\ Idle
        /\ moved # {}
        /\ parentPeriod' = [q \in Period |->
               IF q \in moved THEN target[q] ELSE parentPeriod[q]]
        /\ bypassed' = bypassed \cup
               (({parentPeriod[q] : q \in moved} \cup {target[q] : q \in moved})
                  \ {NoPeriod})
        /\ UNCHANGED <<status, value, aggregateChildren, aggregateToParent,
                       actualValue, loop, climb>>

RemoveParent(p) == Relink(p, [q \in PeriodsOf(p) |-> NoPeriod])

\* Which period of the new parent a period goes to, if any, follows from the
\* lineage of both; a period without a parent gets none.  That the new parent is
\* no descendant is up to the operator: change_parent does not test it.
ChangeParent(p, newParent) ==
    /\ Level[newParent] < Level[p]
    /\ \E target \in [PeriodsOf(p) -> PeriodsOf(newParent) \cup {NoPeriod}] :
          /\ \A q \in PeriodsOf(p) : parentPeriod[q] = NoPeriod => target[q] = NoPeriod
          /\ Relink(p, target)

-----------------------------------------------------------------------------
(* The chain of IndicatorPeriod.save calls.                                 *)

\* actual_value is assigned and saved: a changed text goes on to the parent.
Store(q, text) ==
    /\ actualValue' = [actualValue EXCEPT ![q] = text]
    /\ climb' = IF text # actualValue[q] /\ FeedsParent(q)
                  THEN parentPeriod[q] ELSE NoPeriod

Climb ==
    /\ climb # NoPeriod
    /\ Store(climb, RecalculatedValue(climb, FALSE))
    /\ bypassed' = bypassed \ {climb}
    /\ UNCHANGED <<inputs, loop>>

RecalculateNext(t) ==
    /\ climb = NoPeriod
    /\ Store(t.period, RecalculatedValue(t.period, t.onlySelf))
    /\ loop' = loop \ {t}
    /\ bypassed' = bypassed \ {t.period}
    /\ UNCHANGED inputs

\* A period is saved with a typed-in actual value.  Only the admin form
\* refuses this for a period with updates, so the REST call does not.
SetActualValue(q, text) ==
    /\ Idle
    /\ Store(q, text)
    /\ bypassed' = bypassed \cup {q}
    /\ UNCHANGED <<inputs, loop>>

\* The process dies or a save raises: what was still to be recalculated is not.
Abort ==
    /\ ~Idle
    /\ loop' = {}
    /\ climb' = NoPeriod
    /\ bypassed' = bypassed \cup Pending
    /\ UNCHANGED <<inputs, actualValue>>

Next ==
    \/ \E u \in Update, v \in Value : SaveApproved(u, v)
    \/ \E u \in Update, v \in Value : SaveUnapproved(u, v)
    \/ \E u \in Update : DeleteUpdate(u)
    \/ \E u, v \in Update, s \in {"unapproved", "approved"}, x \in Value :
          MoveUpdate(u, v, s, x)
    \/ \E p \in Project, us \in SUBSET Update, s \in {"unapproved", "approved"} :
          SetUpdatesStatus(p, us, s)
    \/ \E us \in SUBSET Update : DeleteUser(us)
    \/ \E p \in Project, toChildren, toParent \in BOOLEAN :
          SaveProject(p, toChildren, toParent)
    \/ RecalculatePeriods
    \/ \E p \in Project : RemoveParent(p)
    \/ \E p, newParent \in Project : ChangeParent(p, newParent)
    \/ \E q \in Period, text \in Value \cup {NoNumber} : SetActualValue(q, text)
    \/ Climb
    \/ \E t \in loop : RecalculateNext(t)
    \/ Abort

Spec == Init /\ [][Next]_vars

-----------------------------------------------------------------------------
(* Properties.                                                              *)

\* What the period should show, from its own approved updates and the values
\* its children show now.
ExpectedValue(q) ==
    SumOfUpdates(q) +
        (IF aggregateChildren[ProjectOf[q]] THEN ChildPeriodsSum(q) ELSE 0)

\* Every period that no path bypassed and no request is still to recalculate
\* shows the sum of its approved updates and of its aggregated children.  This
\* is what the early stop in IndicatorPeriod.save (only a changed value goes on
\* to the parent) and the flag tests there and in Project.save must preserve.
TotalsConsistent ==
    \A q \in Period \ (Pending \cup bypassed) :
        Number(actualValue[q]) = ExpectedValue(q)

\* No project is linked above itself: the hierarchy the sums climb is a forest.
\* This is the bound in ChangeParent, not a claim about the code: a cycle of
\* links, on which a chain of saves need not end, is left out.
ParentsAbove ==
    \A q \in Period : parentPeriod[q] # NoPeriod =>
        Level[ProjectOf[parentPeriod[q]]] < Level[ProjectOf[q]]

\* only_self recalculations come only from switching aggregate_children off.
OnlySelfWhenOff ==
    \A t \in loop : t.onlySelf => ~aggregateChildren[ProjectOf[t.period]]

\* The inductive invariant.
AggregationInv == TypeOK /\ ParentsAbove /\ OnlySelfWhenOff /\ TotalsConsistent

\* The periods whose updates count in q: q and all that feed it, over any
\* number of levels with the flags switched on.
Contributing(q) ==
    {d \in Period : \A S \in SUBSET Period :
        (/\ q \in S
         /\ \A c \in Period : FeedsParent(c) /\ parentPeriod[c] \in S => c \in S)
        => d \in S}

\* End to end: where nothing below q is bypassed or pending, q shows every
\* approved update of its contributing subtree exactly once, however the saves
\* that brought it there were ordered and wherever the chains stopped early.
RollUp ==
    \A q \in Period :
        Contributing(q) \cap (Pending \cup bypassed) = {} =>
            Number(actualValue[q]) =
                Total([u \in {x \in Update : /\ status[x] = "approved"
                                             /\ PeriodOf[x] \in Contributing(q)}
                         |-> value[u]])
=============================================================================
