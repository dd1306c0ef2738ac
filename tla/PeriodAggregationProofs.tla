----------------------- MODULE PeriodAggregationProofs -----------------------
(* Proofs about PeriodAggregation, for every hierarchy, set of updates and  *)
(* set of values.                                                           *)
EXTENDS PeriodAggregation, FiniteSetTheorems, TLAPS

(* Totals ------------------------------------------------------------------*)

\* The sum of finitely many naturals is a natural.
LEMMA TotalType ==
    ASSUME NEW S, IsFiniteSet(S), NEW f \in [S -> Nat]
    PROVE  Total(f) \in Nat
<1> DEFINE Tally(x) == {x} \X (1 .. f[x])
           Tallies == {Tally(x) : x \in S}
           g == [x \in S |-> Tally(x)]
<1>1. IsFiniteSet(Tallies)
  <2>1. g \in Surjection(S, Tallies)
    BY DEF Surjection
  <2>2. QED
    BY <2>1, FS_Surjection
<1>2. ASSUME NEW x \in S
      PROVE  IsFiniteSet(Tally(x))
  <2>1. IsFiniteSet({x})
    BY FS_Singleton, Zenon
  <2>2. 1 \in Int /\ f[x] \in Int
    OBVIOUS
  <2>3. IsFiniteSet(1 .. f[x])
    BY <2>2, FS_Interval
  <2>4. QED
    BY <2>1, <2>3, FS_Product
<1>3. \A T \in Tallies : IsFiniteSet(T)
  BY <1>2
<1>4. IsFiniteSet(UNION Tallies)
  <2> HIDE DEF Tallies
  <2>1. QED
    BY <1>1, <1>3, FS_UNION
<1>5. Total(f) = Cardinality(UNION Tallies)
  BY DEF Total
<1>6. QED
  BY <1>4, <1>5, FS_CardinalityType

\* The sum of no naturals is 0.
LEMMA TotalOfNothing ==
    ASSUME NEW f, DOMAIN f = {}
    PROVE  Total(f) = 0
<1>1. UNION {{x} \X (1 .. f[x]) : x \in DOMAIN f} = {}
  OBVIOUS
<1>2. QED
  BY <1>1, FS_EmptySet DEF Total

(* The values recalculate_period computes ---------------------------------*)

\* Sums over updates and over child periods are naturals.
LEMMA SumsType ==
    ASSUME TypeOK, NEW q \in Period
    PROVE  /\ SumOfUpdates(q) \in Nat
           /\ ChildPeriodsSum(q) \in Nat
           /\ ExpectedValue(q) \in Nat
<1>1. IsFiniteSet(ApprovedUpdates(q)) /\ IsFiniteSet(AggregatedChildren(q))
  BY ConstantsAssumption, FS_Subset DEF ApprovedUpdates, AggregatedChildren, ChildPeriods
<1>2. SumOfUpdates(q) \in Nat
  <2>1. [u \in ApprovedUpdates(q) |-> value[u]] \in [ApprovedUpdates(q) -> Nat]
    BY DEF TypeOK, ApprovedUpdates
  <2>2. QED
    BY <1>1, <2>1, TotalType DEF SumOfUpdates
<1>3. ChildPeriodsSum(q) \in Nat
  <2>1. [c \in AggregatedChildren(q) |-> Number(actualValue[c])]
           \in [AggregatedChildren(q) -> Nat]
    BY DEF TypeOK, AggregatedChildren, ChildPeriods, Number, Actual
  <2>2. QED
    BY <1>1, <2>1, TotalType DEF ChildPeriodsSum
<1>4. QED
  BY <1>2, <1>3 DEF ExpectedValue

\* What recalculate_period stores counts as the expected value; with only_self
\* that needs the aggregation of the children to be off.
LEMMA RecalculatedIsExpected ==
    ASSUME TypeOK, NEW q \in Period, NEW onlySelf \in BOOLEAN,
           onlySelf => ~aggregateChildren[ProjectOf[q]]
    PROVE  /\ RecalculatedValue(q, onlySelf) \in Actual
           /\ Number(RecalculatedValue(q, onlySelf)) = ExpectedValue(q)
<1>1. SumOfUpdates(q) \in Nat /\ ChildPeriodsSum(q) \in Nat
  BY SumsType
<1>2. aggregateChildren[ProjectOf[q]] \in BOOLEAN
  BY ConstantsAssumption DEF TypeOK
<1>3. ChildPeriods(q) = {} => ChildPeriodsSum(q) = 0
  BY TotalOfNothing DEF ChildPeriodsSum, AggregatedChildren
<1>4. UpdatesOf(q) = {} => SumOfUpdates(q) = 0
  BY TotalOfNothing DEF SumOfUpdates, UpdatesOf, ApprovedUpdates
<1>5. NoNumber \notin Nat
  BY ConstantsAssumption
<1>6. QED
  BY <1>1, <1>2, <1>3, <1>4, <1>5 DEF RecalculatedValue, ExpectedValue, Number, Actual

\* A step that leaves a period's approved updates, its project's flag and, when
\* that flag is on, its aggregated children alone, leaves its value expected.
LEMMA ExpectedFrame ==
    ASSUME NEW q \in Period,
           ApprovedUpdates(q)' = ApprovedUpdates(q),
           \A u \in ApprovedUpdates(q) : value'[u] = value[u],
           aggregateChildren'[ProjectOf[q]] = aggregateChildren[ProjectOf[q]],
           aggregateChildren[ProjectOf[q]] =>
               /\ AggregatedChildren(q)' = AggregatedChildren(q)
               /\ \A c \in AggregatedChildren(q) :
                     Number(actualValue[c])' = Number(actualValue[c])
    PROVE  ExpectedValue(q)' = ExpectedValue(q)
<1>1. SumOfUpdates(q)' = SumOfUpdates(q)
  <2>1. [u \in ApprovedUpdates(q) |-> value[u]]' = [u \in ApprovedUpdates(q) |-> value[u]]
    OBVIOUS
  <2>2. QED
    BY <2>1 DEF SumOfUpdates
<1>2. CASE aggregateChildren[ProjectOf[q]]
  <2>1. [c \in AggregatedChildren(q) |-> Number(actualValue[c])]'
          = [c \in AggregatedChildren(q) |-> Number(actualValue[c])]
    BY <1>2
  <2>2. ChildPeriodsSum(q)' = ChildPeriodsSum(q)
    BY <2>1 DEF ChildPeriodsSum
  <2>3. QED
    BY <1>1, <1>2, <2>2 DEF ExpectedValue
<1>3. CASE ~aggregateChildren[ProjectOf[q]]
  BY <1>1, <1>3 DEF ExpectedValue
<1>4. QED
  BY <1>2, <1>3

(* Type correctness --------------------------------------------------------*)

\* A step of the chain of saves keeps the types.
LEMMA StoreType ==
    ASSUME TypeOK, NEW q \in Period, NEW text \in Actual, Store(q, text)
    PROVE  /\ actualValue' \in [Period -> Actual]
           /\ climb' \in Period \cup {NoPeriod}
BY DEF TypeOK, Store, FeedsParent

\* Rewriting the links of one project keeps the types.
LEMMA RelinkType ==
    ASSUME TypeOK, NEW p \in Project,
           NEW target \in [PeriodsOf(p) -> Period \cup {NoPeriod}], Relink(p, target)
    PROVE  TypeOK'
BY DEF TypeOK, Relink, PeriodsOf

\* No step leaves the types.  A recalculation computes a natural or NoNumber.
LEMMA TypeStep == TypeOK /\ OnlySelfWhenOff /\ [Next]_vars => TypeOK'
<1> SUFFICES ASSUME TypeOK, OnlySelfWhenOff, [Next]_vars
             PROVE  TypeOK'
  OBVIOUS
<1> USE ConstantsAssumption
<1>1. ASSUME NEW u \in Update, NEW v \in Value, SaveApproved(u, v)
      PROVE  TypeOK'
  BY <1>1 DEF TypeOK, SaveApproved, Task
<1>2. ASSUME NEW u \in Update, NEW v \in Value, SaveUnapproved(u, v)
      PROVE  TypeOK'
  BY <1>2 DEF TypeOK, SaveUnapproved
<1>3. ASSUME NEW u \in Update, DeleteUpdate(u)
      PROVE  TypeOK'
  BY <1>3 DEF TypeOK, DeleteUpdate, Task
<1>m. ASSUME NEW u \in Update, NEW v \in Update, NEW s \in {"unapproved", "approved"},
             NEW x \in Value, MoveUpdate(u, v, s, x)
      PROVE  TypeOK'
  BY <1>m DEF TypeOK, MoveUpdate, Task
<1>4. ASSUME NEW p \in Project, NEW us \in SUBSET Update,
             NEW s \in {"unapproved", "approved"}, SetUpdatesStatus(p, us, s)
      PROVE  TypeOK'
  BY <1>4 DEF TypeOK, SetUpdatesStatus
<1>5. ASSUME NEW us \in SUBSET Update, DeleteUser(us)
      PROVE  TypeOK'
  BY <1>5 DEF TypeOK, DeleteUser
<1>6. ASSUME NEW p \in Project, NEW toChildren \in BOOLEAN, NEW toParent \in BOOLEAN,
             SaveProject(p, toChildren, toParent)
      PROVE  TypeOK'
  BY <1>6 DEF TypeOK, SaveProject
<1>7. CASE RecalculatePeriods
  BY <1>7 DEF TypeOK, RecalculatePeriods, inputs
<1>8. ASSUME NEW p \in Project, RemoveParent(p)
      PROVE  TypeOK'
  BY <1>8, RelinkType DEF RemoveParent
<1>9. ASSUME NEW p \in Project, NEW newParent \in Project, ChangeParent(p, newParent)
      PROVE  TypeOK'
  <2>1. PICK target \in [PeriodsOf(p) -> PeriodsOf(newParent) \cup {NoPeriod}] :
               Relink(p, target)
    BY <1>9 DEF ChangeParent
  <2>2. target \in [PeriodsOf(p) -> Period \cup {NoPeriod}]
    BY DEF PeriodsOf
  <2>3. QED
    BY <2>1, <2>2, RelinkType
<1>10. ASSUME NEW q \in Period, NEW text \in Value \cup {NoNumber}, SetActualValue(q, text)
       PROVE  TypeOK'
  <2>1. text \in Actual
    BY DEF Actual
  <2>2. QED
    BY <1>10, <2>1, StoreType DEF TypeOK, SetActualValue, inputs
<1>11. CASE Climb
  <2>1. climb \in Period
    BY <1>11 DEF Climb, TypeOK
  <2>2. RecalculatedValue(climb, FALSE) \in Actual
    BY <2>1, RecalculatedIsExpected
  <2>3. QED
    BY <1>11, <2>1, <2>2, StoreType DEF TypeOK, Climb, inputs
<1>12. ASSUME NEW t \in loop, RecalculateNext(t)
       PROVE  TypeOK'
  <2>1. t.period \in Period /\ t.onlySelf \in BOOLEAN
    BY DEF TypeOK, Task
  <2>2. RecalculatedValue(t.period, t.onlySelf) \in Actual
    BY <2>1, RecalculatedIsExpected DEF OnlySelfWhenOff
  <2>3. QED
    BY <1>12, <2>1, <2>2, StoreType DEF TypeOK, RecalculateNext, inputs
<1>13. CASE Abort
  BY <1>13 DEF TypeOK, Abort, inputs, Pending, Task
<1>14. CASE UNCHANGED vars
  BY <1>14 DEF TypeOK, vars, inputs
<1>15. QED
  BY <1>1, <1>2, <1>3, <1>m, <1>4, <1>5, <1>6, <1>7, <1>8, <1>9, <1>10, <1>11,
     <1>12, <1>13, <1>14 DEF Next

(* The structure of the hierarchy and of the loops --------------------------*)

\* Links only ever point up the levels (Project.save and the saves of periods do
\* not touch them, change_parent looks up), and only switching aggregate_children
\* off leaves only_self recalculations behind, none of which outlives the request.
LEMMA StructureStep ==
    TypeOK /\ ParentsAbove /\ OnlySelfWhenOff /\ [Next]_vars
        => ParentsAbove' /\ OnlySelfWhenOff'
<1> SUFFICES ASSUME TypeOK, ParentsAbove, OnlySelfWhenOff, [Next]_vars
             PROVE  ParentsAbove' /\ OnlySelfWhenOff'
  OBVIOUS
<1> USE ConstantsAssumption
<1>1. ASSUME NEW u \in Update, NEW v \in Value, SaveApproved(u, v)
      PROVE  ParentsAbove' /\ OnlySelfWhenOff'
  BY <1>1 DEF SaveApproved, ParentsAbove, OnlySelfWhenOff
<1>2. ASSUME NEW u \in Update, NEW v \in Value, SaveUnapproved(u, v)
      PROVE  ParentsAbove' /\ OnlySelfWhenOff'
  BY <1>2 DEF SaveUnapproved, ParentsAbove, OnlySelfWhenOff
<1>3. ASSUME NEW u \in Update, DeleteUpdate(u)
      PROVE  ParentsAbove' /\ OnlySelfWhenOff'
  BY <1>3 DEF DeleteUpdate, ParentsAbove, OnlySelfWhenOff
<1>m. ASSUME NEW u \in Update, NEW v \in Update, NEW s \in {"unapproved", "approved"},
             NEW x \in Value, MoveUpdate(u, v, s, x)
      PROVE  ParentsAbove' /\ OnlySelfWhenOff'
  BY <1>m DEF MoveUpdate, ParentsAbove, OnlySelfWhenOff
<1>4. ASSUME NEW p \in Project, NEW us \in SUBSET Update,
             NEW s \in {"unapproved", "approved"}, SetUpdatesStatus(p, us, s)
      PROVE  ParentsAbove' /\ OnlySelfWhenOff'
  BY <1>4 DEF SetUpdatesStatus, ParentsAbove, OnlySelfWhenOff
<1>5. ASSUME NEW us \in SUBSET Update, DeleteUser(us)
      PROVE  ParentsAbove' /\ OnlySelfWhenOff'
  BY <1>5 DEF DeleteUser, ParentsAbove, OnlySelfWhenOff
<1>6. ASSUME NEW p \in Project, NEW toChildren \in BOOLEAN, NEW toParent \in BOOLEAN,
             SaveProject(p, toChildren, toParent)
      PROVE  ParentsAbove' /\ OnlySelfWhenOff'
  <2>1. ParentsAbove'
    BY <1>6 DEF SaveProject, ParentsAbove
  <2>2. ASSUME NEW t \in loop', t.onlySelf
        PROVE  ~aggregateChildren'[ProjectOf[t.period]]
    BY <1>6, <2>2 DEF SaveProject, TypeOK, Task
  <2>3. QED
    BY <2>1, <2>2 DEF OnlySelfWhenOff
<1>7. CASE RecalculatePeriods
  BY <1>7 DEF RecalculatePeriods, ParentsAbove, OnlySelfWhenOff, inputs
<1>8. ASSUME NEW p \in Project, RemoveParent(p)
      PROVE  ParentsAbove' /\ OnlySelfWhenOff'
  BY <1>8 DEF RemoveParent, Relink, ParentsAbove, OnlySelfWhenOff, PeriodsOf, TypeOK
<1>9. ASSUME NEW p \in Project, NEW newParent \in Project, ChangeParent(p, newParent)
      PROVE  ParentsAbove' /\ OnlySelfWhenOff'
  BY <1>9 DEF ChangeParent, Relink, ParentsAbove, OnlySelfWhenOff, PeriodsOf, TypeOK
<1>10. ASSUME NEW q \in Period, NEW text \in Value \cup {NoNumber}, SetActualValue(q, text)
       PROVE  ParentsAbove' /\ OnlySelfWhenOff'
  BY <1>10 DEF SetActualValue, ParentsAbove, OnlySelfWhenOff, inputs
<1>11. CASE Climb
  BY <1>11 DEF Climb, ParentsAbove, OnlySelfWhenOff, inputs
<1>12. ASSUME NEW t \in loop, RecalculateNext(t)
       PROVE  ParentsAbove' /\ OnlySelfWhenOff'
  BY <1>12 DEF RecalculateNext, ParentsAbove, OnlySelfWhenOff, inputs
<1>13. CASE Abort
  BY <1>13 DEF Abort, ParentsAbove, OnlySelfWhenOff, inputs
<1>14. CASE UNCHANGED vars
  BY <1>14 DEF vars, inputs, ParentsAbove, OnlySelfWhenOff
<1>15. QED
  BY <1>1, <1>2, <1>3, <1>m, <1>4, <1>5, <1>6, <1>7, <1>8, <1>9, <1>10, <1>11,
     <1>12, <1>13, <1>14 DEF Next

(* Consistency --------------------------------------------------------------*)

\* Storing a value in q moves no expected value, save that of the parent the
\* chain of saves goes on to.
LEMMA StoreFrame ==
    ASSUME TypeOK, NEW q \in Period, NEW text, Store(q, text), UNCHANGED inputs,
           NEW r \in Period, climb' # r
    PROVE  ExpectedValue(r)' = ExpectedValue(r)
<1> USE ConstantsAssumption
<1>1. /\ ApprovedUpdates(r)' = ApprovedUpdates(r)
      /\ AggregatedChildren(r)' = AggregatedChildren(r)
      /\ aggregateChildren'[ProjectOf[r]] = aggregateChildren[ProjectOf[r]]
      /\ \A u \in ApprovedUpdates(r) : value'[u] = value[u]
  BY DEF inputs, ApprovedUpdates, AggregatedChildren, ChildPeriods
<1>2. ASSUME aggregateChildren[ProjectOf[r]], NEW c \in AggregatedChildren(r)
      PROVE  Number(actualValue[c])' = Number(actualValue[c])
  <2>1. c \in Period /\ parentPeriod[c] = r /\ aggregateToParent[ProjectOf[c]]
    BY DEF AggregatedChildren, ChildPeriods
  <2>2. FeedsParent(c)
    BY <1>2, <2>1 DEF FeedsParent
  <2>3. actualValue'[c] = actualValue[c]
    BY <2>1, <2>2 DEF Store, TypeOK
  <2>4. QED
    BY <2>3 DEF Number
<1>3. QED
  BY <1>1, <1>2, ExpectedFrame

\* A recalculation of q makes q consistent and leaves the others as they were,
\* but for the parent that is recalculated next.
LEMMA RecalculationConsistent ==
    ASSUME TypeOK, NEW q \in Period, NEW onlySelf \in BOOLEAN,
           onlySelf => ~aggregateChildren[ProjectOf[q]],
           Store(q, RecalculatedValue(q, onlySelf)), UNCHANGED inputs,
           NEW r \in Period, climb' # r,
           r # q => Number(actualValue[r]) = ExpectedValue(r)
    PROVE  Number(actualValue[r])' = ExpectedValue(r)'
<1>1. ExpectedValue(r)' = ExpectedValue(r)
  BY StoreFrame
<1>2. CASE r = q
  <2>1. Number(RecalculatedValue(q, onlySelf)) = ExpectedValue(q)
    BY RecalculatedIsExpected
  <2>2. actualValue'[q] = RecalculatedValue(q, onlySelf)
    BY DEF Store, TypeOK
  <2>3. QED
    BY <1>1, <1>2, <2>1, <2>2 DEF Number
<1>3. CASE r # q
  <2>1. actualValue'[r] = actualValue[r]
    BY <1>3 DEF Store, TypeOK
  <2>2. QED
    BY <1>1, <1>3, <2>1 DEF Number
<1>4. QED
  BY <1>2, <1>3

\* A step that leaves the actual values and the links and flags alone, and the
\* approved updates of r too, leaves r consistent.
LEMMA OtherUpdates ==
    ASSUME NEW r \in Period, Number(actualValue[r]) = ExpectedValue(r),
           UNCHANGED <<parentPeriod, aggregateChildren, aggregateToParent, actualValue>>,
           ApprovedUpdates(r)' = ApprovedUpdates(r),
           \A u \in ApprovedUpdates(r) : value'[u] = value[u]
    PROVE  Number(actualValue[r])' = ExpectedValue(r)'
<1>1. ExpectedValue(r)' = ExpectedValue(r)
  <2>1. AggregatedChildren(r)' = AggregatedChildren(r)
    BY DEF AggregatedChildren, ChildPeriods
  <2>2. \A c \in AggregatedChildren(r) :
            Number(actualValue[c])' = Number(actualValue[c])
    BY DEF Number
  <2>3. QED
    BY <2>1, <2>2, ExpectedFrame
<1>2. QED
  BY <1>1 DEF Number

\* Rewriting links leaves every period consistent that neither loses nor gains
\* a child.
LEMMA RelinkConsistent ==
    ASSUME TypeOK, TotalsConsistent, NEW p \in Project,
           NEW target \in [PeriodsOf(p) -> Period \cup {NoPeriod}], Relink(p, target)
    PROVE  TotalsConsistent'
<1> SUFFICES ASSUME NEW r \in Period, r \notin Pending', r \notin bypassed'
             PROVE  Number(actualValue[r])' = ExpectedValue(r)'
  BY DEF TotalsConsistent
<1> USE ConstantsAssumption
<1>1. r \notin Pending /\ r \notin bypassed
  BY DEF Relink, Idle, Pending
<1>2. Number(actualValue[r]) = ExpectedValue(r)
  BY <1>1 DEF TotalsConsistent
<1>3. ChildPeriods(r)' = ChildPeriods(r)
  <2>1. ASSUME NEW c \in Period, parentPeriod[c] # parentPeriod'[c]
        PROVE  parentPeriod[c] # r /\ parentPeriod'[c] # r
    BY <2>1 DEF Relink, PeriodsOf, TypeOK
  <2>2. QED
    BY <2>1 DEF ChildPeriods
<1>4. AggregatedChildren(r)' = AggregatedChildren(r)
  BY <1>3 DEF AggregatedChildren, Relink
<1>5. \A c \in AggregatedChildren(r) : Number(actualValue[c])' = Number(actualValue[c])
  BY DEF Number, Relink
<1>6. ApprovedUpdates(r)' = ApprovedUpdates(r)
  BY DEF Relink, ApprovedUpdates
<1>7. ExpectedValue(r)' = ExpectedValue(r)
  BY <1>4, <1>5, <1>6, ExpectedFrame DEF Relink
<1>8. QED
  BY <1>2, <1>7 DEF Relink, Number

\* Whatever a step does, the periods it may leave with a stale total are those
\* it still has to recalculate and those it bypassed.
LEMMA ConsistencyStep ==
    TypeOK /\ OnlySelfWhenOff /\ TotalsConsistent /\ [Next]_vars => TotalsConsistent'
<1> SUFFICES ASSUME TypeOK, OnlySelfWhenOff, TotalsConsistent, [Next]_vars
             PROVE  TotalsConsistent'
  OBVIOUS
<1> USE ConstantsAssumption
<1> DEFINE Consistent(r) == Number(actualValue[r]) = ExpectedValue(r)
<1>a. Idle => Pending = {}
  BY DEF Idle, Pending
<1>1. ASSUME NEW u \in Update, NEW v \in Value, SaveApproved(u, v)
      PROVE  TotalsConsistent'
  <2> SUFFICES ASSUME NEW r \in Period, r \notin Pending', r \notin bypassed'
               PROVE  Consistent(r)'
    BY DEF TotalsConsistent
  <2>1. r # PeriodOf[u]
    BY <1>1 DEF SaveApproved, Pending
  <2>2. Consistent(r)
    BY <1>1, <1>a DEF SaveApproved, TotalsConsistent
  <2>3. /\ ApprovedUpdates(r)' = ApprovedUpdates(r)
        /\ \A x \in ApprovedUpdates(r) : value'[x] = value[x]
    BY <1>1, <2>1 DEF SaveApproved, ApprovedUpdates, TypeOK
  <2>4. QED
    BY <1>1, <2>2, <2>3, OtherUpdates DEF SaveApproved
<1>2. ASSUME NEW u \in Update, NEW v \in Value, SaveUnapproved(u, v)
      PROVE  TotalsConsistent'
  <2> SUFFICES ASSUME NEW r \in Period, r \notin Pending', r \notin bypassed'
               PROVE  Consistent(r)'
    BY DEF TotalsConsistent
  <2>1. r \notin bypassed /\ (status[u] = "approved" => r # PeriodOf[u])
    BY <1>2 DEF SaveUnapproved
  <2>2. Consistent(r)
    BY <1>2, <1>a, <2>1 DEF SaveUnapproved, TotalsConsistent
  <2>3. /\ ApprovedUpdates(r)' = ApprovedUpdates(r)
        /\ \A x \in ApprovedUpdates(r) : value'[x] = value[x]
    BY <1>2, <2>1 DEF SaveUnapproved, ApprovedUpdates, TypeOK
  <2>4. QED
    BY <1>2, <2>2, <2>3, OtherUpdates DEF SaveUnapproved
<1>3. ASSUME NEW u \in Update, DeleteUpdate(u)
      PROVE  TotalsConsistent'
  <2> SUFFICES ASSUME NEW r \in Period, r \notin Pending', r \notin bypassed'
               PROVE  Consistent(r)'
    BY DEF TotalsConsistent
  <2>1. status[u] = "approved" => r # PeriodOf[u]
    BY <1>3 DEF DeleteUpdate, Pending
  <2>2. Consistent(r)
    BY <1>3, <1>a DEF DeleteUpdate, TotalsConsistent
  <2>3. /\ ApprovedUpdates(r)' = ApprovedUpdates(r)
        /\ \A x \in ApprovedUpdates(r) : value'[x] = value[x]
    BY <1>3, <2>1 DEF DeleteUpdate, ApprovedUpdates, TypeOK
  <2>4. QED
    BY <1>3, <2>2, <2>3, OtherUpdates DEF DeleteUpdate
<1>m. ASSUME NEW u \in Update, NEW v \in Update, NEW s \in {"unapproved", "approved"},
             NEW x \in Value, MoveUpdate(u, v, s, x)
      PROVE  TotalsConsistent'
  <2> SUFFICES ASSUME NEW r \in Period, r \notin Pending', r \notin bypassed'
               PROVE  Consistent(r)'
    BY DEF TotalsConsistent
  <2>1. /\ r \notin bypassed
        /\ status[u] = "approved" => r # PeriodOf[u]
        /\ s = "approved" => r # PeriodOf[v]
    BY <1>m DEF MoveUpdate, Pending
  <2>2. Consistent(r)
    BY <1>m, <1>a, <2>1 DEF MoveUpdate, TotalsConsistent
  <2>3. /\ ApprovedUpdates(r)' = ApprovedUpdates(r)
        /\ \A y \in ApprovedUpdates(r) : value'[y] = value[y]
    BY <1>m, <2>1 DEF MoveUpdate, ApprovedUpdates, TypeOK
  <2>4. QED
    BY <1>m, <2>2, <2>3, OtherUpdates DEF MoveUpdate
<1>4. ASSUME NEW p \in Project, NEW us \in SUBSET Update,
             NEW s \in {"unapproved", "approved"}, SetUpdatesStatus(p, us, s)
      PROVE  TotalsConsistent'
  <2> SUFFICES ASSUME NEW r \in Period, r \notin Pending', r \notin bypassed'
               PROVE  Consistent(r)'
    BY DEF TotalsConsistent
  <2>1. /\ r \notin bypassed
        /\ \A x \in us : (status[x] = "approved") # (s = "approved") => r # PeriodOf[x]
    BY <1>4 DEF SetUpdatesStatus
  <2>2. Consistent(r)
    BY <1>4, <1>a, <2>1 DEF SetUpdatesStatus, TotalsConsistent
  <2>3. ApprovedUpdates(r)' = ApprovedUpdates(r)
    BY <1>4, <2>1 DEF SetUpdatesStatus, ApprovedUpdates, TypeOK
  <2>4. QED
    BY <1>4, <2>2, <2>3, OtherUpdates DEF SetUpdatesStatus
<1>5. ASSUME NEW us \in SUBSET Update, DeleteUser(us)
      PROVE  TotalsConsistent'
  <2> SUFFICES ASSUME NEW r \in Period, r \notin Pending', r \notin bypassed'
               PROVE  Consistent(r)'
    BY DEF TotalsConsistent
  <2>1. /\ r \notin bypassed
        /\ \A x \in us : status[x] = "approved" => r # PeriodOf[x]
    BY <1>5 DEF DeleteUser
  <2>2. Consistent(r)
    BY <1>5, <1>a, <2>1 DEF DeleteUser, TotalsConsistent
  <2>3. /\ ApprovedUpdates(r)' = ApprovedUpdates(r)
        /\ \A x \in ApprovedUpdates(r) : value'[x] = value[x]
    BY <1>5, <2>1 DEF DeleteUser, ApprovedUpdates, TypeOK
  <2>4. QED
    BY <1>5, <2>2, <2>3, OtherUpdates DEF DeleteUser
<1>6. ASSUME NEW p \in Project, NEW toChildren \in BOOLEAN, NEW toParent \in BOOLEAN,
             SaveProject(p, toChildren, toParent)
      PROVE  TotalsConsistent'
  <2> SUFFICES ASSUME NEW r \in Period, r \notin Pending', r \notin bypassed'
               PROVE  Consistent(r)'
    BY DEF TotalsConsistent
  <2>1. Consistent(r)
    BY <1>6, <1>a DEF SaveProject, TotalsConsistent
  <2>2. \A t \in loop' : t.period # r
    BY DEF Pending
  <2>3. aggregateChildren'[ProjectOf[r]] = aggregateChildren[ProjectOf[r]]
    <3>1. SUFFICES ASSUME ProjectOf[r] = p, toChildren # aggregateChildren[p]
                   PROVE  FALSE
      BY <1>6 DEF SaveProject, TypeOK
    <3>2. [period |-> r, onlySelf |-> ~toChildren] \in loop'
      BY <1>6, <3>1 DEF SaveProject, Task
    <3>3. QED
      BY <2>2, <3>2
  <2>4. AggregatedChildren(r)' = AggregatedChildren(r)
    <3>1. ASSUME NEW c \in ChildPeriods(r)
          PROVE  aggregateToParent'[ProjectOf[c]] = aggregateToParent[ProjectOf[c]]
      <4>1. SUFFICES ASSUME ProjectOf[c] = p, toParent # aggregateToParent[p]
                     PROVE  FALSE
        BY <1>6 DEF SaveProject, TypeOK, ChildPeriods
      <4>2. c \in PeriodsOf(p) /\ parentPeriod[c] = r
        BY <4>1 DEF PeriodsOf, ChildPeriods
      <4>3. [period |-> r, onlySelf |-> FALSE] \in loop'
        BY <1>6, <4>1, <4>2 DEF SaveProject, Task
      <4>4. QED
        BY <2>2, <4>3
    <3>2. ChildPeriods(r)' = ChildPeriods(r)
      BY <1>6 DEF SaveProject, ChildPeriods
    <3>3. QED
      BY <3>1, <3>2 DEF AggregatedChildren
  <2>5. /\ ApprovedUpdates(r)' = ApprovedUpdates(r)
        /\ \A x \in ApprovedUpdates(r) : value'[x] = value[x]
        /\ \A c \in AggregatedChildren(r) :
              Number(actualValue[c])' = Number(actualValue[c])
    BY <1>6 DEF SaveProject, ApprovedUpdates, Number
  <2>6. ExpectedValue(r)' = ExpectedValue(r)
    BY <2>3, <2>4, <2>5, ExpectedFrame
  <2>7. QED
    BY <1>6, <2>1, <2>6 DEF SaveProject, Number
<1>7. CASE RecalculatePeriods
  <2> SUFFICES ASSUME NEW r \in Period, r \notin Pending', r \notin bypassed'
               PROVE  Consistent(r)'
    BY DEF TotalsConsistent
  <2>1. Consistent(r)
    BY <1>7, <1>a DEF RecalculatePeriods, TotalsConsistent
  <2>2. ApprovedUpdates(r)' = ApprovedUpdates(r)
    BY <1>7 DEF RecalculatePeriods, inputs, ApprovedUpdates
  <2>3. QED
    BY <1>7, <2>1, <2>2, OtherUpdates DEF RecalculatePeriods, inputs
<1>8. ASSUME NEW p \in Project, RemoveParent(p)
      PROVE  TotalsConsistent'
  BY <1>8, RelinkConsistent DEF RemoveParent
<1>9. ASSUME NEW p \in Project, NEW newParent \in Project, ChangeParent(p, newParent)
      PROVE  TotalsConsistent'
  <2>1. PICK target \in [PeriodsOf(p) -> PeriodsOf(newParent) \cup {NoPeriod}] :
               Relink(p, target)
    BY <1>9 DEF ChangeParent
  <2>2. target \in [PeriodsOf(p) -> Period \cup {NoPeriod}]
    BY DEF PeriodsOf
  <2>3. QED
    BY <2>1, <2>2, RelinkConsistent
<1>10. ASSUME NEW q \in Period, NEW text \in Value \cup {NoNumber}, SetActualValue(q, text)
       PROVE  TotalsConsistent'
  <2> SUFFICES ASSUME NEW r \in Period, r \notin Pending', r \notin bypassed'
               PROVE  Consistent(r)'
    BY DEF TotalsConsistent
  <2>1. r # q /\ r \notin bypassed /\ climb' # r
    BY <1>10 DEF SetActualValue, Pending
  <2>2. Consistent(r)
    BY <1>10, <1>a, <2>1 DEF SetActualValue, TotalsConsistent
  <2>3. ExpectedValue(r)' = ExpectedValue(r)
    BY <1>10, <2>1, StoreFrame DEF SetActualValue
  <2>4. actualValue'[r] = actualValue[r]
    BY <1>10, <2>1 DEF SetActualValue, Store, TypeOK
  <2>5. QED
    BY <2>2, <2>3, <2>4 DEF Number
<1>11. CASE Climb
  <2> SUFFICES ASSUME NEW r \in Period, r \notin Pending', r \notin bypassed'
               PROVE  Consistent(r)'
    BY DEF TotalsConsistent
  <2>1. climb \in Period /\ climb' # r
    BY <1>11 DEF Climb, TypeOK, Pending
  <2>2. r # climb => r \notin Pending /\ r \notin bypassed
    BY <1>11 DEF Climb, Pending
  <2>3. r # climb => Consistent(r)
    BY <2>2 DEF TotalsConsistent
  <2>4. QED
    BY <1>11, <2>1, <2>3, RecalculationConsistent DEF Climb
<1>12. ASSUME NEW t \in loop, RecalculateNext(t)
       PROVE  TotalsConsistent'
  <2> SUFFICES ASSUME NEW r \in Period, r \notin Pending', r \notin bypassed'
               PROVE  Consistent(r)'
    BY DEF TotalsConsistent
  <2>1. /\ t.period \in Period /\ t.onlySelf \in BOOLEAN
        /\ t.onlySelf => ~aggregateChildren[ProjectOf[t.period]]
        /\ climb' # r
    BY DEF TypeOK, Task, OnlySelfWhenOff, Pending
  <2>2. r # t.period => r \notin Pending /\ r \notin bypassed
    BY <1>12 DEF RecalculateNext, Pending
  <2>3. r # t.period => Consistent(r)
    BY <2>2 DEF TotalsConsistent
  <2>4. QED
    BY <1>12, <2>1, <2>3, RecalculationConsistent DEF RecalculateNext
<1>13. CASE Abort
  <2> SUFFICES ASSUME NEW r \in Period, r \notin Pending', r \notin bypassed'
               PROVE  Consistent(r)'
    BY DEF TotalsConsistent
  <2>1. r \notin Pending /\ r \notin bypassed
    BY <1>13 DEF Abort
  <2>2. Consistent(r)
    BY <2>1 DEF TotalsConsistent
  <2>3. ApprovedUpdates(r)' = ApprovedUpdates(r)
    BY <1>13 DEF Abort, inputs, ApprovedUpdates
  <2>4. QED
    BY <1>13, <2>2, <2>3, OtherUpdates DEF Abort, inputs
<1>14. CASE UNCHANGED vars
  <2> SUFFICES ASSUME NEW r \in Period, r \notin Pending', r \notin bypassed'
               PROVE  Consistent(r)'
    BY DEF TotalsConsistent
  <2>1. Consistent(r)
    BY <1>14 DEF vars, Pending, TotalsConsistent
  <2>2. ApprovedUpdates(r)' = ApprovedUpdates(r)
    BY <1>14 DEF vars, inputs, ApprovedUpdates
  <2>3. QED
    BY <1>14, <2>1, <2>2, OtherUpdates DEF vars, inputs
<1>15. QED
  BY <1>1, <1>2, <1>3, <1>m, <1>4, <1>5, <1>6, <1>7, <1>8, <1>9, <1>10, <1>11,
     <1>12, <1>13, <1>14 DEF Next

(* Sums over disjoint families ----------------------------------------------*)

\* The union of a family of sets.
Combined(S, A) == UNION {A[c] : c \in S}

\* Two disjoint families of finite sets whose members have the same numbers of
\* elements one by one have the same number of elements in all.
LEMMA DisjointFamilies ==
    ASSUME NEW S, NEW A, NEW B,
           \A c \in S : /\ IsFiniteSet(A[c]) /\ IsFiniteSet(B[c])
                        /\ Cardinality(A[c]) = Cardinality(B[c]),
           \A c, d \in S : c # d => A[c] \cap A[d] = {} /\ B[c] \cap B[d] = {},
           IsFiniteSet(Combined(S, B))
    PROVE  Cardinality(Combined(S, A)) = Cardinality(Combined(S, B))
<1> DEFINE UA == UNION {A[c] : c \in S}
           UB == UNION {B[c] : c \in S}
           g == [c \in S |-> CHOOSE b \in Bijection(B[c], A[c]) : TRUE]
           of == [y \in UB |-> CHOOSE c \in S : y \in B[c]]
           h == [y \in UB |-> g[of[y]][y]]
<1>1. ASSUME NEW c \in S
      PROVE  g[c] \in Bijection(B[c], A[c])
  <2>1. ExistsBijection(B[c], A[c])
    BY FS_SameCardinalityBij
  <2>2. QED
    BY <2>1 DEF ExistsBijection
<1>2. ASSUME NEW y \in UB
      PROVE  of[y] \in S /\ y \in B[of[y]]
  OBVIOUS
<1>3. ASSUME NEW c \in S, NEW y \in B[c]
      PROVE  y \in UB /\ of[y] = c
  <2>1. y \in UB
    OBVIOUS
  <2>2. of[y] \in S /\ y \in B[of[y]]
    BY <1>2, <2>1
  <2>3. QED
    BY <2>1, <2>2
<1> HIDE DEF g, of
<1>4. ASSUME NEW c \in S
      PROVE  /\ g[c] \in [B[c] -> A[c]]
             /\ \A y, z \in B[c] : g[c][y] = g[c][z] => y = z
             /\ \A x \in A[c] : \E y \in B[c] : g[c][y] = x
  BY <1>1 DEF Bijection, Injection, Surjection, IsInjective
<1>5. ASSUME NEW y \in UB
      PROVE  h[y] \in A[of[y]] /\ h[y] \in UA
  <2>1. h[y] = g[of[y]][y]
    OBVIOUS
  <2>2. h[y] \in A[of[y]]
    BY <1>2, <1>4, <2>1
  <2>3. QED
    BY <1>2, <2>2
<1>6. h \in [UB -> UA]
  BY <1>5
<1>7. ASSUME NEW y \in UB, NEW z \in UB, h[y] = h[z]
      PROVE  y = z
  <2>1. of[y] = of[z]
    BY <1>2, <1>5, <1>7
  <2>2. g[of[y]][y] = g[of[y]][z]
    BY <1>7, <2>1
  <2>3. QED
    BY <1>2, <1>4, <2>1, <2>2
<1>8. ASSUME NEW x \in UA
      PROVE  \E y \in UB : h[y] = x
  <2>1. PICK c \in S : x \in A[c]
    OBVIOUS
  <2>2. PICK y \in B[c] : g[c][y] = x
    BY <1>4, <2>1
  <2>3. y \in UB /\ of[y] = c
    BY <1>3
  <2>4. QED
    BY <2>2, <2>3
<1> HIDE DEF h, UA, UB
<1>9. h \in Bijection(UB, UA)
  <2>1. DOMAIN h = UB
    BY <1>6
  <2>2. h \in Injection(UB, UA)
    BY <1>6, <1>7, <2>1 DEF Injection, IsInjective
  <2>3. h \in Surjection(UB, UA)
    BY <1>6, <1>8 DEF Surjection
  <2>4. QED
    BY <2>2, <2>3 DEF Bijection
<1>10. ExistsBijection(UB, UA)
  BY <1>9 DEF ExistsBijection
<1>11. IsFiniteSet(UB)
  BY DEF UB, Combined
<1>12. Cardinality(UA) = Cardinality(UB)
  BY <1>10, <1>11, FS_Bijection
<1>13. QED
  BY <1>12 DEF UA, UB, Combined

(* What contributes to a period ---------------------------------------------*)

\* The periods whose saves go on to q.
Feeders(q) == {c \in Period : FeedsParent(c) /\ parentPeriod[c] = q}

\* q contributes to itself, and with a period all that feeds it.
LEMMA ContributingClosed ==
    ASSUME NEW q \in Period
    PROVE  /\ Contributing(q) \subseteq Period
           /\ q \in Contributing(q)
           /\ \A c \in Period : FeedsParent(c) /\ parentPeriod[c] \in Contributing(q)
                  => c \in Contributing(q)
BY DEF Contributing

\* Nothing smaller does.
LEMMA ContributingLeast ==
    ASSUME NEW q \in Period, NEW S \in SUBSET Period, q \in S,
           \A c \in Period : FeedsParent(c) /\ parentPeriod[c] \in S => c \in S
    PROVE  Contributing(q) \subseteq S
BY DEF Contributing

\* What contributes to q, but for q itself, feeds a period that contributes to q.
LEMMA ContributingInversion ==
    ASSUME NEW q \in Period, NEW x \in Contributing(q), x # q
    PROVE  FeedsParent(x) /\ parentPeriod[x] \in Contributing(q)
<1> SUFFICES ASSUME ~(FeedsParent(x) /\ parentPeriod[x] \in Contributing(q))
             PROVE  FALSE
  OBVIOUS
<1> DEFINE S == Contributing(q) \ {x}
<1>1. S \in SUBSET Period /\ q \in S
  BY ContributingClosed
<1>2. ASSUME NEW c \in Period, FeedsParent(c), parentPeriod[c] \in S
      PROVE  c \in S
  BY <1>2, ContributingClosed
<1>3. Contributing(q) \subseteq S
  BY <1>1, <1>2, ContributingLeast
<1>4. QED
  BY <1>3

\* What contributes to q lies below q.
LEMMA ContributingBelow ==
    ASSUME TypeOK, ParentsAbove, NEW q \in Period, NEW x \in Contributing(q)
    PROVE  x = q \/ Level[ProjectOf[q]] < Level[ProjectOf[x]]
<1> USE ConstantsAssumption
<1> DEFINE S == {c \in Period : c = q \/ Level[ProjectOf[q]] < Level[ProjectOf[c]]}
<1>1. S \in SUBSET Period /\ q \in S
  OBVIOUS
<1>2. ASSUME NEW c \in Period, FeedsParent(c), parentPeriod[c] \in S
      PROVE  c \in S
  <2>1. parentPeriod[c] \in Period /\ parentPeriod[c] # NoPeriod
    BY <1>2
  <2>2. Level[ProjectOf[parentPeriod[c]]] < Level[ProjectOf[c]]
    BY <2>1 DEF ParentsAbove
  <2>3. /\ Level[ProjectOf[q]] \in Nat /\ Level[ProjectOf[c]] \in Nat
        /\ Level[ProjectOf[parentPeriod[c]]] \in Nat
    BY <2>1
  <2>4. \/ parentPeriod[c] = q
        \/ Level[ProjectOf[q]] < Level[ProjectOf[parentPeriod[c]]]
    BY <1>2
  <2>5. Level[ProjectOf[q]] < Level[ProjectOf[c]]
    BY <2>2, <2>3, <2>4
  <2>6. QED
    BY <2>5
<1>3. QED
  BY <1>1, <1>2, ContributingLeast

\* What contributes to q is q and what contributes to the periods that feed q.
LEMMA ContributingUnfold ==
    ASSUME NEW q \in Period
    PROVE  /\ \A c \in Feeders(q) : c \in Period /\ Contributing(c) \subseteq Contributing(q)
           /\ \A x \in Contributing(q) : x = q \/ \E c \in Feeders(q) : x \in Contributing(c)
<1>1. ASSUME NEW c \in Feeders(q)
      PROVE  c \in Period /\ Contributing(c) \subseteq Contributing(q)
  <2>1. c \in Period /\ c \in Contributing(q) /\ Contributing(q) \in SUBSET Period
    BY ContributingClosed DEF Feeders
  <2>2. QED
    BY <2>1, ContributingClosed, ContributingLeast
<1>2. ASSUME NEW x \in Contributing(q)
      PROVE  x = q \/ \E c \in Feeders(q) : x \in Contributing(c)
  <2> DEFINE S == {y \in Period : y = q \/ \E c \in Feeders(q) : y \in Contributing(c)}
  <2>1. S \in SUBSET Period /\ q \in S
    OBVIOUS
  <2>2. ASSUME NEW d \in Period, FeedsParent(d), parentPeriod[d] \in S
        PROVE  d \in S
    <3>1. CASE parentPeriod[d] = q
      <4>1. d \in Feeders(q) /\ d \in Contributing(d)
        BY <2>2, <3>1, ContributingClosed DEF Feeders
      <4>2. QED
        BY <4>1
    <3>2. CASE parentPeriod[d] # q
      <4>1. PICK c \in Feeders(q) : parentPeriod[d] \in Contributing(c)
        BY <2>2, <3>2
      <4>2. c \in Period
        BY DEF Feeders
      <4>3. d \in Contributing(c)
        BY <2>2, <4>1, <4>2, ContributingClosed
      <4>4. QED
        BY <4>3
    <3>3. QED
      BY <3>1, <3>2
  <2>3. Contributing(q) \subseteq S
    BY <2>1, <2>2, ContributingLeast
  <2>4. QED
    BY <2>3
<1>3. QED
  BY <1>1, <1>2

\* Nothing contributes to a period in two ways: the links form a forest.
LEMMA ContributingDisjoint ==
    ASSUME TypeOK, ParentsAbove, NEW q \in Period, NEW c \in Feeders(q), NEW d \in Feeders(q),
           c # d
    PROVE  /\ Contributing(c) \cap Contributing(d) = {}
           /\ q \notin Contributing(c)
<1> USE ConstantsAssumption
<1> DEFINE Lev(x) == Level[ProjectOf[x]]
<1>1. /\ c \in Period /\ d \in Period /\ q # NoPeriod
      /\ parentPeriod[c] = q /\ parentPeriod[d] = q
  BY DEF Feeders, FeedsParent
<1>2. Lev(q) < Lev(c) /\ Lev(q) < Lev(d) /\ Lev(q) \in Nat /\ Lev(c) \in Nat /\ Lev(d) \in Nat
  BY <1>1 DEF ParentsAbove
<1>3. q \notin Contributing(c) /\ q \notin Contributing(d)
  BY <1>1, <1>2, ContributingBelow
<1> DEFINE S == Contributing(c) \ Contributing(d)
<1>4. S \in SUBSET Period
  BY <1>1, ContributingClosed
<1>5. c \in S
  <2>1. c \in Contributing(c)
    BY <1>1, ContributingClosed
  <2>2. c \notin Contributing(d)
    BY <1>1, <1>3, ContributingInversion
  <2>3. QED
    BY <2>1, <2>2
<1>6. ASSUME NEW x \in Period, FeedsParent(x), parentPeriod[x] \in S
      PROVE  x \in S
  <2>1. x \in Contributing(c)
    BY <1>1, <1>6, ContributingClosed
  <2>2. x # d
    BY <1>1, <1>3, <1>6
  <2>3. x \notin Contributing(d)
    BY <1>1, <1>6, <2>2, ContributingInversion
  <2>4. QED
    BY <2>1, <2>3
<1>7. Contributing(c) \subseteq S
  BY <1>1, <1>4, <1>5, <1>6, ContributingLeast
<1>8. QED
  BY <1>3, <1>7

(* RollUp --------------------------------------------------------------------*)

\* One tally per unit of the updates' values.
Tallies(U) == UNION {{u} \X (1 .. value[u]) : u \in U}
ApprovedBelow(q) ==
    {x \in Update : status[x] = "approved" /\ PeriodOf[x] \in Contributing(q)}

\* The sum of the values of some updates is the number of their tallies.
LEMMA TalliesCount ==
    ASSUME TypeOK, NEW U \in SUBSET Update
    PROVE  /\ IsFiniteSet(Tallies(U))
           /\ Total([u \in U |-> value[u]]) = Cardinality(Tallies(U))
<1> DEFINE Tally(u) == {u} \X (1 .. value[u])
           Family == {Tally(u) : u \in U}
           g == [u \in U |-> Tally(u)]
<1>1. IsFiniteSet(U)
  BY ConstantsAssumption, FS_Subset
<1>2. IsFiniteSet(Family)
  <2>1. g \in Surjection(U, Family)
    BY DEF Surjection
  <2>2. QED
    BY <1>1, <2>1, FS_Surjection
<1>3. ASSUME NEW u \in U
      PROVE  IsFiniteSet(Tally(u))
  <2>1. IsFiniteSet({u})
    BY FS_Singleton, Zenon
  <2>2. 1 \in Int /\ value[u] \in Int
    BY DEF TypeOK
  <2>3. IsFiniteSet(1 .. value[u])
    BY <2>2, FS_Interval
  <2>4. QED
    BY <2>1, <2>3, FS_Product
<1>4. \A T \in Family : IsFiniteSet(T)
  BY <1>3
<1>5. IsFiniteSet(UNION Family)
  <2> HIDE DEF Family
  <2>1. QED
    BY <1>2, <1>4, FS_UNION
<1>6. Tallies(U) = UNION Family
  BY DEF Tallies
<1>7. Total([u \in U |-> value[u]]) = Cardinality(Tallies(U))
  <2>1. {{x} \X (1 .. [u \in U |-> value[u]][x]) : x \in DOMAIN [u \in U |-> value[u]]}
            = Family
    OBVIOUS
  <2>2. QED
    BY <1>6, <2>1 DEF Total
<1>8. QED
  BY <1>5, <1>6, <1>7

\* The tallies of updates that differ differ.
LEMMA TalliesSplit ==
    ASSUME NEW U, NEW V
    PROVE  /\ Tallies(U \cup V) = Tallies(U) \cup Tallies(V)
           /\ U \cap V = {} => Tallies(U) \cap Tallies(V) = {}
BY DEF Tallies

\* If what feeds a consistent period shows what is below it, so does the period.
LEMMA RollUpOnce ==
    ASSUME TypeOK, ParentsAbove, NEW q \in Period,
           Number(actualValue[q]) = ExpectedValue(q),
           \A c \in Feeders(q) :
               Number(actualValue[c]) = Cardinality(Tallies(ApprovedBelow(c)))
    PROVE  Number(actualValue[q]) = Cardinality(Tallies(ApprovedBelow(q)))
<1> USE ConstantsAssumption
<1> DEFINE A == [c \in Feeders(q) |-> {c} \X (1 .. Number(actualValue[c]))]
           B == [c \in Feeders(q) |-> Tallies(ApprovedBelow(c))]
           Own == Tallies(ApprovedUpdates(q))
           Fed == UNION {B[c] : c \in Feeders(q)}
<1>1. ASSUME NEW c \in Feeders(q)
      PROVE  /\ c \in Period
             /\ Number(actualValue[c]) \in Nat
             /\ ApprovedBelow(c) \in SUBSET ApprovedBelow(q)
  <2>1. c \in Period /\ Contributing(c) \subseteq Contributing(q)
    BY ContributingUnfold
  <2>2. QED
    BY <2>1 DEF TypeOK, Number, Actual, ApprovedBelow
<1>2. /\ ApprovedUpdates(q) \in SUBSET Update /\ ApprovedBelow(q) \in SUBSET Update
      /\ \A c \in Feeders(q) : ApprovedBelow(c) \in SUBSET Update
  BY DEF ApprovedUpdates, ApprovedBelow
<1>3. ASSUME NEW c \in Feeders(q)
      PROVE  /\ IsFiniteSet(A[c]) /\ IsFiniteSet(B[c])
             /\ Cardinality(A[c]) = Cardinality(B[c])
  <2>1. IsFiniteSet(B[c])
    BY <1>2, TalliesCount
  <2>2. IsFiniteSet({c}) /\ Cardinality({c}) = 1
    BY FS_Singleton, Zenon
  <2>3. Number(actualValue[c]) \in Nat
    BY <1>1
  <2> DEFINE n == Number(actualValue[c])
  <2>4. IsFiniteSet(1 .. n) /\ Cardinality(1 .. n) = n
    <3>1. 1 \in Int /\ n \in Int
      BY <2>3
    <3>2. IsFiniteSet(1 .. n) /\ Cardinality(1 .. n) = IF 1 > n THEN 0 ELSE n - 1 + 1
      BY <3>1, FS_Interval
    <3>3. QED
      BY <2>3, <3>2
  <2> HIDE DEF n
  <2>5. IsFiniteSet({c} \X (1 .. n)) /\ Cardinality({c} \X (1 .. n)) = 1 * n
    <3> DEFINE T == 1 .. n
    <3> HIDE DEF T
    <3>1. IsFiniteSet(T) /\ Cardinality(T) = n
      BY <2>4 DEF T
    <3>2. /\ IsFiniteSet({c} \X T)
          /\ Cardinality({c} \X T) = Cardinality({c}) * Cardinality(T)
      BY <2>2, <3>1, FS_Product, Zenon
    <3>3. QED
      BY <2>2, <3>1, <3>2, Zenon DEF T
  <2>6. 1 * n = n
    BY <2>3 DEF n
  <2>7. QED
    BY <2>1, <2>5, <2>6 DEF n
<1>4. ASSUME NEW c \in Feeders(q), NEW d \in Feeders(q), c # d
      PROVE  A[c] \cap A[d] = {} /\ B[c] \cap B[d] = {}
  <2>1. A[c] \cap A[d] = {}
    BY <1>4
  <2>2. Contributing(c) \cap Contributing(d) = {}
    BY <1>4, ContributingDisjoint
  <2>3. ApprovedBelow(c) \cap ApprovedBelow(d) = {}
    BY <2>2 DEF ApprovedBelow
  <2>4. QED
    BY <2>1, <2>3, TalliesSplit
<1>5. Tallies(ApprovedBelow(q)) = Own \cup Fed
  <2>1. ASSUME NEW x \in ApprovedBelow(q)
        PROVE  x \in ApprovedUpdates(q) \/ \E c \in Feeders(q) : x \in ApprovedBelow(c)
    BY ContributingUnfold DEF ApprovedBelow, ApprovedUpdates
  <2>2. ApprovedUpdates(q) \subseteq ApprovedBelow(q)
    BY ContributingClosed DEF ApprovedBelow, ApprovedUpdates
  <2>3. QED
    BY <1>1, <2>1, <2>2 DEF Tallies
<1>6. Own \cap Fed = {}
  <2>1. ASSUME NEW c \in Feeders(q)
        PROVE  Own \cap B[c] = {}
    <3>1. q \notin Contributing(c)
      <4>1. c \in Period /\ parentPeriod[c] = q /\ q # NoPeriod
        BY DEF Feeders, FeedsParent
      <4>2. /\ Level[ProjectOf[q]] < Level[ProjectOf[c]] /\ c # q
            /\ Level[ProjectOf[q]] \in Nat /\ Level[ProjectOf[c]] \in Nat
        BY <4>1 DEF ParentsAbove
      <4>3. QED
        BY <4>1, <4>2, ContributingBelow
    <3>2. ApprovedUpdates(q) \cap ApprovedBelow(c) = {}
      BY <3>1 DEF ApprovedUpdates, ApprovedBelow
    <3>3. QED
      BY <3>2, TalliesSplit
  <2>2. QED
    BY <2>1
<1>7. IsFiniteSet(Own) /\ IsFiniteSet(Tallies(ApprovedBelow(q)))
  BY <1>2, TalliesCount
<1>8. IsFiniteSet(Fed)
  <2>1. Fed \in SUBSET Tallies(ApprovedBelow(q))
    BY <1>5
  <2>2. QED
    BY <1>7, <2>1, FS_Subset
<1>9. Cardinality(Tallies(ApprovedBelow(q))) = Cardinality(Own) + Cardinality(Fed)
  <2> HIDE DEF Own, Fed
  <2>1. Cardinality(Own \cup Fed)
            = Cardinality(Own) + Cardinality(Fed) - Cardinality(Own \cap Fed)
    BY <1>7, <1>8, FS_Union
  <2>2. Cardinality(Own \cap Fed) = 0
    BY <1>6, FS_EmptySet
  <2>3. Cardinality(Own) \in Nat /\ Cardinality(Fed) \in Nat
    BY <1>7, <1>8, FS_CardinalityType
  <2>4. QED
    BY <1>5, <2>1, <2>2, <2>3
<1>10. Cardinality(Fed) = Cardinality(UNION {A[c] : c \in Feeders(q)})
  <2> HIDE DEF A, B
  <2>1. IsFiniteSet(Combined(Feeders(q), B))
    BY <1>8 DEF Combined
  <2>2. \A c \in Feeders(q) : /\ IsFiniteSet(A[c]) /\ IsFiniteSet(B[c])
                               /\ Cardinality(A[c]) = Cardinality(B[c])
    BY <1>3
  <2>3. \A c, d \in Feeders(q) : c # d => A[c] \cap A[d] = {} /\ B[c] \cap B[d] = {}
    BY <1>4
  <2>4. Cardinality(Combined(Feeders(q), A)) = Cardinality(Combined(Feeders(q), B))
    BY <2>1, <2>2, <2>3, DisjointFamilies, Zenon
  <2>5. QED
    BY <2>4 DEF Combined
<1>11. SumOfUpdates(q) = Cardinality(Own)
  BY <1>2, TalliesCount DEF SumOfUpdates
<1>12. aggregateChildren[ProjectOf[q]] \in BOOLEAN
  BY DEF TypeOK
<1>13. CASE aggregateChildren[ProjectOf[q]]
  <2>1. AggregatedChildren(q) = Feeders(q)
    BY <1>13 DEF AggregatedChildren, ChildPeriods, Feeders, FeedsParent
  <2>2. ChildPeriodsSum(q) = Cardinality(UNION {A[c] : c \in Feeders(q)})
    <3> DEFINE f == [c \in Feeders(q) |-> Number(actualValue[c])]
    <3>1. {{x} \X (1 .. f[x]) : x \in DOMAIN f} = {A[c] : c \in Feeders(q)}
      OBVIOUS
    <3>2. QED
      BY <2>1, <3>1 DEF ChildPeriodsSum, Total
  <2>3. QED
    BY <1>9, <1>10, <1>11, <1>13, <2>2 DEF ExpectedValue
<1>14. CASE ~aggregateChildren[ProjectOf[q]]
  <2>1. Feeders(q) = {}
    BY <1>14 DEF Feeders, FeedsParent
  <2>2. Fed = {}
    BY <2>1
  <2>3. Cardinality(Fed) = 0
    BY <2>2, FS_EmptySet
  <2>4. Cardinality(Own) \in Nat
    BY <1>7, FS_CardinalityType
  <2> HIDE DEF Own, Fed
  <2>5. QED
    BY <1>9, <1>11, <1>14, <2>3, <2>4 DEF ExpectedValue
<1>15. QED
  BY <1>12, <1>13, <1>14

\* Level by level adds up to end to end.  Of the periods that would not show what
\* is below them, one would have the least below it; but what feeds it does.
LEMMA ConsistentRollsUp ==
    ASSUME TypeOK, ParentsAbove, TotalsConsistent
    PROVE  RollUp
<1> USE ConstantsAssumption
<1> DEFINE Clean(q) == Contributing(q) \cap (Pending \cup bypassed) = {}
           Shows(q) == Number(actualValue[q]) = Cardinality(Tallies(ApprovedBelow(q)))
           Wrong == {q \in Period : Clean(q) /\ ~Shows(q)}
           Below == {Contributing(q) : q \in Wrong}
<1>1. Wrong = {}
  <2>1. SUFFICES ASSUME Wrong # {} PROVE FALSE
    OBVIOUS
  <2>2. FiniteSubsetsOf(Period) = SUBSET Period
    BY FS_FiniteSubsetsOfFinite
  <2>3. IsWellFoundedOn(StrictSubsetOrdering(Period), SUBSET Period)
    <3>1. IsWellFoundedOn(StrictSubsetOrdering(Period), FiniteSubsetsOf(Period))
      BY FS_StrictSubsetOrderingWellFounded, Zenon
    <3>2. QED
      BY <2>2, <3>1, Zenon
  <2>4. Below \subseteq SUBSET Period /\ Below # {}
    BY <2>1, ContributingClosed
  <2>5. PICK X \in Below : \A Y \in Below : ~(<<Y, X>> \in StrictSubsetOrdering(Period))
    <3> HIDE DEF Below
    <3>1. QED
      BY <2>3, <2>4, WFMin
  <2>6. PICK q \in Wrong : X = Contributing(q)
    OBVIOUS
  <2>7. ASSUME NEW c \in Feeders(q)
        PROVE  Shows(c)
    <3>1. c \in Period /\ Contributing(c) \subseteq Contributing(q)
      BY ContributingUnfold
    <3>2. Clean(c)
      BY <2>6, <3>1
    <3>3. q \notin Contributing(c)
      <4>1. parentPeriod[c] = q /\ q # NoPeriod
        BY DEF Feeders, FeedsParent
      <4>2. /\ Level[ProjectOf[q]] < Level[ProjectOf[c]] /\ c # q
            /\ Level[ProjectOf[q]] \in Nat /\ Level[ProjectOf[c]] \in Nat
        BY <3>1, <4>1 DEF ParentsAbove
      <4>3. QED
        BY <3>1, <4>1, <4>2, ContributingBelow
    <3>4. Contributing(c) # Contributing(q)
      BY <3>3, ContributingClosed
    <3>5. SUFFICES ASSUME ~Shows(c) PROVE FALSE
      OBVIOUS
    <3>6. Contributing(c) \in Below
      BY <3>1, <3>2, <3>5
    <3>7. <<Contributing(c), X>> \in StrictSubsetOrdering(Period)
      BY <2>4, <2>6, <3>1, <3>4, <3>6 DEF StrictSubsetOrdering
    <3>8. QED
      BY <2>5, <3>6, <3>7
  <2>8. Number(actualValue[q]) = ExpectedValue(q)
    <3>1. q \in Contributing(q)
      BY ContributingClosed
    <3>2. QED
      BY <2>6, <3>1 DEF TotalsConsistent
  <2>9. Shows(q)
    BY <2>7, <2>8, RollUpOnce
  <2>10. QED
    BY <2>6, <2>9
<1>2. ASSUME NEW q \in Period, Clean(q)
      PROVE  Number(actualValue[q]) = Total([u \in ApprovedBelow(q) |-> value[u]])
  <2>1. Shows(q)
    BY <1>1, <1>2
  <2>2. ApprovedBelow(q) \in SUBSET Update
    BY DEF ApprovedBelow
  <2>3. QED
    BY <2>1, <2>2, TalliesCount
<1>3. QED
  BY <1>2 DEF RollUp, ApprovedBelow

(* The theorems -------------------------------------------------------------*)

\* An empty results framework satisfies the invariant.
LEMMA InitInv == Init => AggregationInv
<1> SUFFICES ASSUME Init PROVE AggregationInv
  OBVIOUS
<1> USE ConstantsAssumption
<1>1. TypeOK
  BY DEF Init, TypeOK, Actual
<1>2. ParentsAbove /\ OnlySelfWhenOff
  BY DEF Init, ParentsAbove, OnlySelfWhenOff
<1>3. TotalsConsistent
  <2> SUFFICES ASSUME NEW q \in Period
               PROVE  Number(actualValue[q]) = ExpectedValue(q)
    BY DEF TotalsConsistent
  <2>1. SumOfUpdates(q) = 0
    BY TotalOfNothing DEF SumOfUpdates, ApprovedUpdates, Init
  <2>2. ChildPeriodsSum(q) = 0
    <3>1. Total([c \in AggregatedChildren(q) |-> 0]) = 0
      <4>1. UNION {{c} \X (1 .. [x \in AggregatedChildren(q) |-> 0][c]) :
                      c \in DOMAIN [x \in AggregatedChildren(q) |-> 0]} = {}
        OBVIOUS
      <4>2. QED
        BY <4>1, FS_EmptySet DEF Total
    <3>2. [c \in AggregatedChildren(q) |-> Number(actualValue[c])]
              = [c \in AggregatedChildren(q) |-> 0]
      BY DEF Init, Number, AggregatedChildren, ChildPeriods
    <3>3. QED
      BY <3>1, <3>2 DEF ChildPeriodsSum
  <2>3. QED
    BY <2>1, <2>2 DEF ExpectedValue, Number, Init
<1>4. QED
  BY <1>1, <1>2, <1>3 DEF AggregationInv

\* AggregationInv is inductive: the types, the forest of parents, the mode of the
\* pending recalculations and the consistency of the totals carry each other.
THEOREM AggregationInvariant == Spec => []AggregationInv
<1>1. Init => AggregationInv
  BY InitInv
<1>2. AggregationInv /\ [Next]_vars => AggregationInv'
  BY TypeStep, StructureStep, ConsistencyStep DEF AggregationInv
<1>3. QED
  BY <1>1, <1>2, PTL DEF Spec

\* The state keeps its types: sums of approved values and of children's values
\* are naturals, and a request's pending work names periods that exist.
THEOREM TypeCorrect == Spec => []TypeOK
<1>1. AggregationInv => TypeOK
  BY DEF AggregationInv
<1>2. QED
  BY <1>1, AggregationInvariant, PTL

\* Whatever the hierarchy, the flags, the updates and their order: a period that
\* is not waiting for a recalculation and was not bypassed shows the sum of its
\* approved updates and of its aggregated children.
THEOREM Consistency == Spec => []TotalsConsistent
<1>1. AggregationInv => TotalsConsistent
  BY DEF AggregationInv
<1>2. QED
  BY <1>1, AggregationInvariant, PTL

\* End to end, on any number of levels, whatever the flags and the order of the
\* saves: where nothing below it is bypassed or pending, a period shows every
\* approved update that contributes to it exactly once.
THEOREM RollUpInvariant == Spec => []RollUp
<1>1. AggregationInv => RollUp
  BY ConsistentRollsUp DEF AggregationInv
<1>2. QED
  BY <1>1, AggregationInvariant, PTL
=============================================================================
