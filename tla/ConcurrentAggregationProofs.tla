--------------------- MODULE ConcurrentAggregationProofs ---------------------
(* Proofs about ConcurrentAggregation, for every hierarchy, set of updates   *)
(* and set of values.                                                        *)
EXTENDS ConcurrentAggregation, FiniteSetTheorems, TLAPS

\* The theorems of PeriodAggregation in the terms of this module.
Proved == INSTANCE PeriodAggregationProofs WITH loop <- Loop, climb <- Climb

(* Instances ----------------------------------------------------------------*)

\* The instances have copies of the definitions of FiniteSets, which agree.
LEMMA SameSets ==
    ASSUME NEW S
    PROVE  /\ Sequential!IsFiniteSet(S) = IsFiniteSet(S)
           /\ Proved!IsFiniteSet(S) = IsFiniteSet(S)
           /\ Sequential!Cardinality(S) = Cardinality(S)
           /\ Proved!Cardinality(S) = Cardinality(S)
<1>1. Sequential!IsFiniteSet(S) = IsFiniteSet(S)
  BY DEF Sequential!IsFiniteSet, IsFiniteSet
<1>2. Proved!IsFiniteSet(S) = IsFiniteSet(S)
  BY DEF Proved!IsFiniteSet, IsFiniteSet
<1>3. Sequential!Cardinality(S) = Cardinality(S)
  BY DEF Sequential!Cardinality, Cardinality
<1>4. Proved!Cardinality(S) = Cardinality(S)
  BY DEF Proved!Cardinality, Cardinality
<1>5. QED
  BY <1>1, <1>2, <1>3, <1>4

\* So do the sums.
LEMMA SameTotal ==
    ASSUME NEW f
    PROVE  Proved!Total(f) = Sequential!Total(f)
BY SameSets DEF Proved!Total, Sequential!Total

\* And what recalculate_period computes from them.
LEMMA SameValues ==
    ASSUME NEW q
    PROVE  /\ Proved!SumOfUpdates(q) = Sequential!SumOfUpdates(q)
           /\ Proved!ChildPeriodsSum(q) = Sequential!ChildPeriodsSum(q)
           /\ \A onlySelf : Proved!RecalculatedValue(q, onlySelf)
                                = Sequential!RecalculatedValue(q, onlySelf)
<1>1. Proved!SumOfUpdates(q) = Sequential!SumOfUpdates(q)
  BY SameTotal DEF Proved!SumOfUpdates, Sequential!SumOfUpdates,
     Proved!ApprovedUpdates, Sequential!ApprovedUpdates
<1>2. Proved!ChildPeriodsSum(q) = Sequential!ChildPeriodsSum(q)
  BY SameTotal DEF Proved!ChildPeriodsSum, Sequential!ChildPeriodsSum,
     Proved!AggregatedChildren, Sequential!AggregatedChildren, Proved!ChildPeriods,
     Sequential!ChildPeriods, Proved!Number, Sequential!Number
<1>3. QED
  BY <1>1, <1>2 DEF Proved!RecalculatedValue, Sequential!RecalculatedValue,
     Proved!ChildPeriods, Sequential!ChildPeriods, Proved!UpdatesOf, Sequential!UpdatesOf

\* Sums over updates and over child periods are naturals.
LEMMA Sums ==
    ASSUME Sequential!TypeOK, NEW q \in Period
    PROVE  /\ Sequential!SumOfUpdates(q) \in Nat
           /\ Sequential!ChildPeriodsSum(q) \in Nat
<1>1. Proved!TypeOK
  BY DEF Sequential!TypeOK, Proved!TypeOK, Sequential!Task, Proved!Task,
     Sequential!Actual, Proved!Actual
<1>2. Proved!IsFiniteSet(Period) /\ Proved!IsFiniteSet(Update)
  BY ConcurrentAssumption, SameSets
<1>3. Proved!SumOfUpdates(q) \in Nat /\ Proved!ChildPeriodsSum(q) \in Nat
  BY <1>1, <1>2, ConcurrentAssumption, Proved!SumsType
<1>4. QED
  BY <1>3, SameValues

(* Types ---------------------------------------------------------------------*)

\* What a single worker still has to recalculate are periods.
LEMMA MappedTypes ==
    /\ WorkOK => Loop \subseteq Sequential!Task /\ Climb \in Period \cup {NoPeriod}
    /\ WorkOK' => Loop' \subseteq Sequential!Task /\ Climb' \in Period \cup {NoPeriod}
<1>1. ASSUME WorkOK
      PROVE  Loop \subseteq Sequential!Task /\ Climb \in Period \cup {NoPeriod}
  <2>1. \A w \in Worker : Busy(w) => work[w].at \in Period
    BY <1>1 DEF WorkOK
  <2>2. Loop \subseteq Sequential!Task
    <3>1. ASSUME NEW t \in Loop
          PROVE  t \in Sequential!Task
      <4>1. PICK w \in Worker : Busy(w) /\ t = [period |-> work[w].at, onlySelf |-> FALSE]
        BY DEF Loop
      <4>2. QED
        BY <2>1, <4>1 DEF Sequential!Task
    <3>2. QED
      BY <3>1
  <2>3. CASE Climbing = {}
    BY <2>2, <2>3 DEF Climb
  <2>4. CASE Climbing # {}
    <3>1. PICK w \in Climbing : w = CHOOSE x \in Climbing : TRUE
      BY <2>4
    <3>2. Climb = work[w].at
      BY <2>4, <3>1 DEF Climb
    <3>3. QED
      BY <2>1, <2>2, <3>2 DEF Climbing
  <2>5. QED
    BY <2>3, <2>4
<1>2. ASSUME WorkOK'
      PROVE  Loop' \subseteq Sequential!Task /\ Climb' \in Period \cup {NoPeriod}
  <2>1. \A w \in Worker : Busy(w)' => work'[w].at \in Period
    BY <1>2 DEF WorkOK
  <2>2. Loop' \subseteq Sequential!Task
    <3>1. ASSUME NEW t \in Loop'
          PROVE  t \in Sequential!Task
      <4>1. PICK w \in Worker : Busy(w)' /\ t = [period |-> work'[w].at, onlySelf |-> FALSE]
        BY DEF Loop
      <4>2. QED
        BY <2>1, <4>1 DEF Sequential!Task
    <3>2. QED
      BY <3>1
  <2>3. CASE Climbing' = {}
    BY <2>2, <2>3 DEF Climb
  <2>4. CASE Climbing' # {}
    <3>1. PICK w \in Climbing' : w = CHOOSE x \in Climbing' : TRUE
      BY <2>4
    <3>2. Climb' = work'[w].at
      BY <2>4, <3>1 DEF Climb
    <3>3. QED
      BY <2>1, <2>2, <3>2 DEF Climbing
  <2>5. QED
    BY <2>3, <2>4
<1>3. QED
  BY <1>1, <1>2

\* A worker goes on with what is well typed.
LEMMA TurnType ==
    ASSUME WorkOK, NEW w \in Worker, NEW i, Turn(w, i),
           NEW updates \in SUBSET Update, i \in Work(updates),
           i.phase \notin {"idle", "comment"} => i.at \in Period,
           i.phase = "comment" => i.period \in Period
    PROVE  WorkOK'
BY DEF WorkOK, Turn, Busy

\* The state a worker starts from and comes back to, and a recalculation begun.
LEMMA NoWorkType ==
    /\ NoWork \in Work({}) /\ NoWork.phase = "idle"
    /\ \A q \in Period : /\ Recalculate(q) \in Work({})
                          /\ Recalculate(q).at = q
                          /\ Recalculate(q).phase = "children"
<1>1. <<>> \in [{} -> Nat]
  OBVIOUS
<1>2. QED
  BY <1>1 DEF NoWork, Work, Phase, Recalculate

\* A request that ends in a recalculation.
LEMMA RecalculateTurn ==
    ASSUME WorkOK, NEW w \in Worker, NEW q \in Period, Turn(w, Recalculate(q))
    PROVE  WorkOK'
<1> DEFINE i == Recalculate(q)
<1>1. {} \in SUBSET Update
  OBVIOUS
<1>2. Turn(w, i)
  OBVIOUS
<1>3. i \in Work({}) /\ i.at = q /\ i.phase = "children"
  BY NoWorkType
<1> HIDE DEF i
<1>4. QED
  BY <1>1, <1>2, <1>3, TurnType

\* The save of a period and what a worker goes on with.
LEMMA SavePeriodType ==
    ASSUME TypeOK, NEW w \in Worker, NEW q \in Period, NEW text \in Nat \cup {NoNumber},
           NEW updates \in SUBSET Update, NEW memory \in Work(updates),
           NEW others \in SUBSET Update, NEW after \in Work(others),
           after.phase \in {"idle", "comment"},
           after.phase = "comment" => after.period \in Period,
           SavePeriod(w, q, text, memory, after)
    PROVE  WorkOK' /\ actualValue' \in [Period -> Sequential!Actual]
<1>1. actualValue' \in [Period -> Sequential!Actual]
  BY DEF SavePeriod, TypeOK, Sequential!TypeOK, Sequential!Actual
<1>2. CASE text # actualValue[q] /\ Sequential!FeedsParent(q)
  <2> DEFINE i == [memory EXCEPT !.phase = "children", !.at = parentPeriod[q],
                                 !.climbing = TRUE]
  <2>1. Turn(w, i)
    BY <1>2 DEF SavePeriod
  <2>2. parentPeriod[q] \in Period
    BY <1>2 DEF Sequential!FeedsParent, TypeOK, Sequential!TypeOK
  <2>3. i \in Work(updates) /\ i.phase = "children" /\ i.at = parentPeriod[q]
    BY <2>2 DEF Work, Phase
  <2> HIDE DEF i
  <2>4. WorkOK'
    BY <2>1, <2>2, <2>3, TurnType DEF TypeOK
  <2>5. QED
    BY <1>1, <2>4
<1>3. CASE ~(text # actualValue[q] /\ Sequential!FeedsParent(q))
  <2>1. Turn(w, after)
    BY <1>3 DEF SavePeriod
  <2>2. WorkOK'
    BY <2>1, TurnType DEF TypeOK
  <2>3. QED
    BY <1>1, <2>2
<1>4. QED
  BY <1>2, <1>3

\* Rows saved from memory are rows.
LEMMA SaveRowsType ==
    ASSUME TypeOK, NEW w \in Worker, NEW s \in {"unapproved", "approved"}, SaveRows(w, s)
    PROVE  /\ status' \in [Update -> {"none", "unapproved", "approved"}]
           /\ value' \in [Update -> Nat]
<1>1. PICK updates \in SUBSET Update : work[w] \in Work(updates)
  BY DEF TypeOK, WorkOK
<1>2. work[w].rows \in [updates -> Nat]
  BY <1>1 DEF Work
<1>3. QED
  BY <1>2 DEF SaveRows, TypeOK, Sequential!TypeOK

\* No step leaves the types, however many workers there are.
LEMMA TypeStep == TypeOK /\ [Next]_vars => TypeOK'
<1> SUFFICES ASSUME TypeOK, [Next]_vars
             PROVE  TypeOK'
  OBVIOUS
<1> USE ConcurrentAssumption
<1> DEFINE TablesOK == /\ status \in [Update -> {"none", "unapproved", "approved"}]
                       /\ value \in [Update -> Nat]
                       /\ actualValue \in [Period -> Sequential!Actual]
                       /\ bypassed \in SUBSET Period
<1>1. Sequential!TypeOK /\ WorkOK /\ TablesOK
  BY DEF TypeOK, Sequential!TypeOK
<1>2. ASSUME WorkOK', TablesOK', UNCHANGED fixed
      PROVE  TypeOK'
  BY <1>1, <1>2, MappedTypes DEF TypeOK, Sequential!TypeOK, fixed
<1>3. ASSUME NEW w \in Worker, NEW u \in Update, NEW v \in Value, SaveApproved(w, u, v)
      PROVE  TypeOK'
  <2>1. TablesOK'
    BY <1>1, <1>3 DEF SaveApproved
  <2>2. WorkOK'
    BY <1>1, <1>3, RecalculateTurn DEF SaveApproved
  <2>3. QED
    BY <1>2, <1>3, <2>1, <2>2 DEF SaveApproved
<1>4. ASSUME NEW w \in Worker, NEW u \in Update, NEW v \in Value, SaveUnapproved(w, u, v)
      PROVE  TypeOK'
  <2>1. TablesOK' /\ WorkOK'
    BY <1>1, <1>4 DEF SaveUnapproved, WorkOK, Busy
  <2>2. QED
    BY <1>2, <1>4, <2>1 DEF SaveUnapproved
<1>5. ASSUME NEW w \in Worker, NEW u \in Update, DeleteUpdate(w, u)
      PROVE  TypeOK'
  <2>1. TablesOK'
    BY <1>1, <1>5 DEF DeleteUpdate
  <2>2. WorkOK'
    <3>1. CASE status[u] = "approved"
      BY <1>1, <1>5, <3>1, RecalculateTurn DEF DeleteUpdate
    <3>2. CASE status[u] # "approved"
      BY <1>1, <1>5, <3>2 DEF DeleteUpdate, WorkOK, Busy
    <3>3. QED
      BY <3>1, <3>2
  <2>3. QED
    BY <1>2, <1>5, <2>1, <2>2 DEF DeleteUpdate
<1>6. ASSUME NEW w \in Worker, NEW u \in Update, NEW s \in {"unapproved", "approved"},
             SetUpdateStatus(w, u, s)
      PROVE  TypeOK'
  <2>1. TablesOK' /\ WorkOK'
    BY <1>1, <1>6 DEF SetUpdateStatus, WorkOK, Busy
  <2>2. QED
    BY <1>2, <1>6, <2>1 DEF SetUpdateStatus
<1>7. ASSUME NEW w \in Worker
      PROVE  /\ \E updates \in SUBSET Update : work[w] \in Work(updates)
             /\ Busy(w) => work[w].at \in Period
             /\ work[w].phase = "comment" => work[w].period \in Period
  BY <1>1 DEF WorkOK
<1>8. ASSUME NEW w \in Worker, ReadChildren(w)
      PROVE  TypeOK'
  <2>1. PICK updates \in SUBSET Update : work[w] \in Work(updates)
    BY <1>7
  <2>2. work[w].at \in Period
    BY <1>7, <1>8 DEF ReadChildren, At, Busy
  <2>3. PICK n \in Nat :
            Turn(w, [work[w] EXCEPT !.phase = "approved", !.total = n])
    BY <1>1, <1>8, <2>2, Sums DEF ReadChildren
  <2> DEFINE i == [work[w] EXCEPT !.phase = "approved", !.total = n]
  <2>4. i \in Work(updates) /\ i.phase = "approved" /\ i.at = work[w].at
    BY <2>1 DEF Work, Phase
  <2>5. Turn(w, i)
    BY <2>3
  <2> HIDE DEF i
  <2>6. WorkOK'
    BY <1>1, <2>1, <2>2, <2>4, <2>5, TurnType
  <2>7. QED
    BY <1>1, <1>2, <1>8, <2>6 DEF ReadChildren, tables
<1>9. ASSUME NEW w \in Worker, ReadApproved(w)
      PROVE  TypeOK'
  <2> DEFINE q == work[w].at
             rows == [u \in Sequential!ApprovedUpdates(q) |-> value[u]]
             n == work[w].total + Sequential!SumOfUpdates(q)
             i == [work[w] EXCEPT !.phase = "rewrite approved", !.rows = rows,
                                  !.total = n]
  <2>1. PICK updates \in SUBSET Update : work[w] \in Work(updates)
    BY <1>7
  <2>2. q \in Period
    BY <1>7, <1>9 DEF ReadApproved, At, Busy
  <2>3. Turn(w, i)
    BY <1>9 DEF ReadApproved
  <2>4. /\ Sequential!ApprovedUpdates(q) \in SUBSET Update
        /\ rows \in [Sequential!ApprovedUpdates(q) -> Nat]
    BY <1>1 DEF Sequential!ApprovedUpdates
  <2>5. Sequential!SumOfUpdates(q) \in Nat
    BY <1>1, <2>2, Sums
  <2>6. n \in Nat
    BY <2>1, <2>5 DEF Work
  <2> HIDE DEF rows, n
  <2>7. /\ i \in Work(Sequential!ApprovedUpdates(q))
        /\ i.phase = "rewrite approved" /\ i.at = q
    BY <2>1, <2>4, <2>6 DEF Work, Phase
  <2> HIDE DEF i
  <2>8. WorkOK'
    BY <1>1, <2>2, <2>3, <2>4, <2>7, TurnType
  <2>9. QED
    BY <1>1, <1>2, <1>9, <2>8 DEF ReadApproved, tables
<1>10. ASSUME NEW w \in Worker, NEW phase \in {"others", "store"}, Busy(w),
              Turn(w, [work[w] EXCEPT !.phase = phase, !.rows = <<>>])
       PROVE  WorkOK'
  <2> DEFINE i == [work[w] EXCEPT !.phase = phase, !.rows = <<>>]
  <2>1. PICK updates \in SUBSET Update : work[w] \in Work(updates)
    BY <1>7
  <2>2. <<>> \in [{} -> Nat]
    OBVIOUS
  <2>3. i \in Work({}) /\ i.phase = phase /\ i.at = work[w].at
    BY <2>1, <2>2 DEF Work, Phase
  <2>4. Turn(w, i) /\ {} \in SUBSET Update /\ work[w].at \in Period
    BY <1>7, <1>10
  <2>5. phase \in {"others", "store"}
    BY <1>10
  <2> HIDE DEF i
  <2>6. QED
    BY <1>1, <2>3, <2>4, <2>5, TurnType
<1>11. ASSUME NEW w \in Worker, RewriteApproved(w)
       PROVE  TypeOK'
  BY <1>1, <1>2, <1>10, <1>11, SaveRowsType DEF RewriteApproved, At, Busy
<1>12. ASSUME NEW w \in Worker, ReadOthers(w)
       PROVE  TypeOK'
  <2> DEFINE q == work[w].at
             others == Sequential!UpdatesOf(q) \ Sequential!ApprovedUpdates(q)
             rows == [u \in others |-> value[u]]
             i == [work[w] EXCEPT !.phase = "rewrite others", !.rows = rows]
  <2>1. PICK updates \in SUBSET Update : work[w] \in Work(updates)
    BY <1>7
  <2>2. q \in Period
    BY <1>7, <1>12 DEF ReadOthers, At, Busy
  <2>3. Turn(w, i)
    BY <1>12 DEF ReadOthers
  <2>4. others \in SUBSET Update /\ rows \in [others -> Nat]
    BY <1>1 DEF Sequential!UpdatesOf
  <2> HIDE DEF rows, others
  <2>5. i \in Work(others) /\ i.phase = "rewrite others" /\ i.at = q
    BY <2>1, <2>4 DEF Work, Phase
  <2> HIDE DEF i
  <2>6. WorkOK'
    BY <1>1, <2>2, <2>3, <2>4, <2>5, TurnType
  <2>7. QED
    BY <1>1, <1>2, <1>12, <2>6 DEF ReadOthers, tables
<1>13. ASSUME NEW w \in Worker, RewriteOthers(w)
       PROVE  TypeOK'
  BY <1>1, <1>2, <1>10, <1>13, SaveRowsType DEF RewriteOthers, At, Busy
<1>14. ASSUME NEW w \in Worker, StorePeriod(w)
       PROVE  TypeOK'
  <2> DEFINE i == work[w]
             memory == IF i.at = i.period THEN [i EXCEPT !.text = i.total] ELSE i
             after == IF i.period = NoPeriod THEN NoWork
                      ELSE [memory EXCEPT !.phase = "comment", !.climbing = FALSE]
  <2>1. PICK updates \in SUBSET Update : work[w] \in Work(updates)
    BY <1>7
  <2>2. i.at \in Period
    BY <1>7, <1>14 DEF StorePeriod, At, Busy
  <2>3. i.total \in Nat /\ i.period \in Period \cup {NoPeriod}
    BY <2>1 DEF Work
  <2>4. memory \in Work(updates) /\ memory.period = i.period
    BY <2>1, <2>3 DEF Work
  <2>5. PICK others \in SUBSET Update : after \in Work(others)
    <3>1. CASE i.period = NoPeriod
      BY <3>1, NoWorkType
    <3>2. CASE i.period # NoPeriod
      <4>1. after = [memory EXCEPT !.phase = "comment", !.climbing = FALSE]
        BY <3>2
      <4>2. after \in Work(updates)
        <5> HIDE DEF memory
        <5>1. QED
          BY <2>4, <4>1 DEF Work, Phase
      <4>3. QED
        BY <4>2
    <3>3. QED
      BY <3>1, <3>2
  <2>6. /\ after.phase \in {"idle", "comment"}
        /\ after.phase = "comment" => after.period \in Period
    <3> HIDE DEF memory
    <3>1. QED
      BY <2>3, <2>4, NoWorkType DEF Work
  <2>7. SavePeriod(w, i.at, i.total, memory, after)
    BY <1>14 DEF StorePeriod
  <2> HIDE DEF i, memory, after
  <2>8. WorkOK' /\ actualValue' \in [Period -> Sequential!Actual]
    BY <2>2, <2>3, <2>4, <2>5, <2>6, <2>7, SavePeriodType
  <2>9. QED
    BY <1>1, <1>2, <1>14, <2>8 DEF StorePeriod
<1>15. ASSUME NEW w \in Worker, UpdateActualComment(w)
       PROVE  TypeOK'
  <2> DEFINE i == work[w]
             memory == [i EXCEPT !.period = NoPeriod]
  <2>1. PICK updates \in SUBSET Update : work[w] \in Work(updates)
    BY <1>7
  <2>2. i.period \in Period /\ i.text \in Nat \cup {NoNumber}
    BY <1>7, <1>15, <2>1 DEF UpdateActualComment, At, Work
  <2>3. memory \in Work(updates)
    BY <2>1 DEF Work
  <2>4. SavePeriod(w, i.period, i.text, memory, NoWork)
    BY <1>15 DEF UpdateActualComment
  <2> HIDE DEF i, memory
  <2>5. WorkOK' /\ actualValue' \in [Period -> Sequential!Actual]
    BY <2>2, <2>3, <2>4, NoWorkType, SavePeriodType
  <2>6. QED
    BY <1>1, <1>2, <1>15, <2>5 DEF UpdateActualComment
<1>16. ASSUME NEW w \in Worker, Abort(w)
       PROVE  TypeOK'
  <2>1. WorkOK'
    BY <1>1, <1>16, NoWorkType, TurnType DEF Abort
  <2>2. TablesOK'
    BY <1>1, <1>7, <1>16 DEF Abort
  <2>3. QED
    BY <1>2, <1>16, <2>1, <2>2 DEF Abort
<1>17. CASE UNCHANGED vars
  <2>1. TablesOK' /\ WorkOK' /\ UNCHANGED fixed
    BY <1>1, <1>17 DEF vars, tables, fixed, WorkOK, Busy
  <2>2. QED
    BY <1>2, <2>1
<1>18. QED
  BY <1>3, <1>4, <1>5, <1>6, <1>8, <1>9, <1>11, <1>12, <1>13, <1>14, <1>15, <1>16,
     <1>17 DEF Next, Request, WorkStep

\* All workers are idle at first.
LEMMA TypeInit == Init => TypeOK
<1> SUFFICES ASSUME Init
             PROVE  TypeOK
  OBVIOUS
<1>1. \A w \in Worker : work[w] = NoWork /\ ~Busy(w)
  BY DEF Init, NoWork, Busy
<1>2. WorkOK
  <2>1. DOMAIN work = Worker
    BY DEF Init
  <2>2. ASSUME NEW w \in Worker
        PROVE  \E updates \in SUBSET Update : work[w] \in Work(updates)
    <3>1. {} \in SUBSET Update
      OBVIOUS
    <3>2. QED
      BY <1>1, <3>1, NoWorkType
  <2>3. QED
    BY <1>1, <2>1, <2>2, NoWorkType DEF WorkOK
<1>3. Sequential!TypeOK
  BY <1>2, MappedTypes DEF Init, Sequential!Init, Sequential!TypeOK, Sequential!Actual
<1>4. QED
  BY <1>2, <1>3 DEF TypeOK

\* Workers' requests and recalculations, however they interleave, keep the rows of
\* the tables and every worker's memory well typed: the sums stay naturals, and
\* every recalculation a worker goes on to is one of an existing period.
THEOREM ConcurrentTypes == Spec => []TypeOK
<1>1. Init => TypeOK
  BY TypeInit
<1>2. TypeOK /\ [Next]_vars => TypeOK'
  BY TypeStep
<1>3. QED
  BY <1>1, <1>2, PTL DEF Spec

(* One worker ----------------------------------------------------------------*)

\* What a lone worker is doing, in the terms of PeriodAggregation.
LEMMA LoneWorker ==
    ASSUME NEW w, Worker = {w}
    PROVE  /\ Loop = IF Busy(w) /\ ~work[w].climbing
                       THEN {[period |-> work[w].at, onlySelf |-> FALSE]} ELSE {}
           /\ Climb = IF Busy(w) /\ work[w].climbing THEN work[w].at ELSE NoPeriod
           /\ Loop' = IF Busy(w)' /\ ~work'[w].climbing
                        THEN {[period |-> work'[w].at, onlySelf |-> FALSE]} ELSE {}
           /\ Climb' = IF Busy(w)' /\ work'[w].climbing THEN work'[w].at ELSE NoPeriod
<1>1. Loop = IF Busy(w) /\ ~work[w].climbing
               THEN {[period |-> work[w].at, onlySelf |-> FALSE]} ELSE {}
  BY DEF Loop
<1>2. Loop' = IF Busy(w)' /\ ~work'[w].climbing
                THEN {[period |-> work'[w].at, onlySelf |-> FALSE]} ELSE {}
  BY DEF Loop
<1>3. Climb = IF Busy(w) /\ work[w].climbing THEN work[w].at ELSE NoPeriod
  <2>1. Climbing = IF Busy(w) /\ work[w].climbing THEN {w} ELSE {}
    BY DEF Climbing
  <2>2. Climbing # {} => (CHOOSE x \in Climbing : TRUE) = w
    BY <2>1
  <2>3. QED
    BY <2>1, <2>2 DEF Climb
<1>4. Climb' = IF Busy(w)' /\ work'[w].climbing THEN work'[w].at ELSE NoPeriod
  <2>1. Climbing' = IF Busy(w)' /\ work'[w].climbing THEN {w} ELSE {}
    BY DEF Climbing
  <2>2. Climbing' # {} => (CHOOSE x \in Climbing' : TRUE) = w
    BY <2>1
  <2>3. QED
    BY <2>1, <2>2 DEF Climb
<1>5. QED
  BY <1>1, <1>2, <1>3, <1>4

\* Where the tables and links stay as they are, so does what a period should get.
LEMMA SameTables ==
    ASSUME UNCHANGED <<tables, fixed>>, NEW q
    PROVE  /\ Sequential!ApprovedUpdates(q)' = Sequential!ApprovedUpdates(q)
           /\ Sequential!UpdatesOf(q)' = Sequential!UpdatesOf(q)
           /\ Sequential!ChildPeriods(q)' = Sequential!ChildPeriods(q)
           /\ Sequential!ChildPeriodsSum(q)' = Sequential!ChildPeriodsSum(q)
           /\ Sequential!RecalculatedValue(q, FALSE)'
                = Sequential!RecalculatedValue(q, FALSE)
BY DEF tables, fixed, Sequential!ApprovedUpdates, Sequential!UpdatesOf,
       Sequential!ChildPeriods, Sequential!ChildPeriodsSum, Sequential!AggregatedChildren,
       Sequential!SumOfUpdates, Sequential!RecalculatedValue, Sequential!Number,
       Sequential!Total

\* What MemoryIsCurrent says of one worker.
Current(i) ==
    /\ i.phase \notin {"idle", "comment"} =>
          /\ i.period \in Period
          /\ IF i.climbing
               THEN /\ i.text = actualValue[i.period]
                    /\ Level[ProjectOf[i.at]] < Level[ProjectOf[i.period]]
               ELSE i.at = i.period
    /\ i.phase = "comment" => i.text = actualValue[i.period]
    /\ i.phase = "approved" =>
          i.total = IF /\ Sequential!ChildPeriods(i.at) # {}
                       /\ aggregateChildren[ProjectOf[i.at]]
                      THEN Sequential!ChildPeriodsSum(i.at) ELSE 0
    /\ i.phase \in {"rewrite approved", "others", "rewrite others", "store"} =>
          i.total = Sequential!RecalculatedValue(i.at, FALSE)
    /\ i.phase = "rewrite approved" =>
          i.rows = [u \in Sequential!ApprovedUpdates(i.at) |-> value[u]]
    /\ i.phase = "rewrite others" =>
          i.rows = [u \in Sequential!UpdatesOf(i.at)
                              \ Sequential!ApprovedUpdates(i.at) |-> value[u]]

\* MemoryIsCurrent is about that worker alone.
LEMMA LoneMemory ==
    ASSUME NEW w, Worker = {w}
    PROVE  /\ MemoryIsCurrent <=> Current(work[w])
           /\ MemoryIsCurrent' <=> Current(work[w])'
BY DEF MemoryIsCurrent, Current, Busy

\* Saving again the rows it has read, a lone worker changes nothing.
LEMMA SaveRowsAgain ==
    ASSUME TypeOK, NEW w \in Worker, Current(work[w])
    PROVE  /\ RewriteApproved(w) => UNCHANGED <<tables, fixed>>
           /\ RewriteOthers(w) => UNCHANGED <<tables, fixed>>
<1>1. /\ status \in [Update -> {"none", "unapproved", "approved"}]
      /\ value \in [Update -> Nat]
  BY DEF TypeOK, Sequential!TypeOK
<1>2. ASSUME RewriteApproved(w)
      PROVE  UNCHANGED <<tables, fixed>>
  <2>1. work[w].rows = [u \in Sequential!ApprovedUpdates(work[w].at) |-> value[u]]
    BY <1>2 DEF RewriteApproved, At, Current
  <2>2. status' = status /\ value' = value
    BY <1>1, <1>2, <2>1 DEF RewriteApproved, SaveRows, Sequential!ApprovedUpdates
  <2>3. QED
    BY <1>2, <2>2 DEF RewriteApproved, tables
<1>3. ASSUME RewriteOthers(w)
      PROVE  UNCHANGED <<tables, fixed>>
  <2>1. work[w].rows = [u \in Sequential!UpdatesOf(work[w].at)
                                \ Sequential!ApprovedUpdates(work[w].at) |-> value[u]]
    BY <1>3 DEF RewriteOthers, At, Current
  <2>2. status' = status /\ value' = value
    BY <1>1, <1>3, <2>1 DEF RewriteOthers, SaveRows, Sequential!ApprovedUpdates,
       Sequential!UpdatesOf
  <2>3. QED
    BY <1>3, <2>2 DEF RewriteOthers, tables
<1>4. QED
  BY <1>2, <1>3

\* A step that only reads, or saves what is there, and goes on to the next phase.
LEMMA ReadStep ==
    ASSUME NEW w, Worker = {w}, TypeOK, Current(work[w]),
           UNCHANGED <<tables, fixed>>, work'[w].at = work[w].at,
           work'[w].period = work[w].period, work'[w].text = work[w].text,
           work'[w].climbing = work[w].climbing, Busy(w), Busy(w)'
    PROVE  /\ work'[w].period \in Period
           /\ IF work'[w].climbing
                THEN /\ work'[w].text = actualValue'[work'[w].period]
                     /\ Level[ProjectOf[work'[w].at]] < Level[ProjectOf[work'[w].period]]
                ELSE work'[w].at = work'[w].period
BY DEF Current, Busy, tables

\* Each step of a lone worker leaves it with a memory the tables agree with.
LEMMA MemoryStep ==
    ASSUME NEW w, Worker = {w}, TypeOK, Sequential!ParentsAbove, MemoryIsCurrent,
           [Next]_vars
    PROVE  MemoryIsCurrent'
<1> USE ConcurrentAssumption
<1>1. Current(work[w]) /\ w \in Worker
  BY LoneMemory
<1>2. /\ Sequential!TypeOK
      /\ DOMAIN work = Worker
      /\ Busy(w) => work[w].at \in Period
      /\ work[w].phase = "comment" => work[w].period \in Period
  BY <1>1 DEF TypeOK, WorkOK
<1>3. PICK updates \in SUBSET Update : work[w] \in Work(updates)
  BY <1>1 DEF TypeOK, WorkOK
<1>4. ASSUME Current(work[w])'
      PROVE  MemoryIsCurrent'
  BY <1>4, LoneMemory
<1>5. ASSUME NEW i, Turn(w, i)
      PROVE  work'[w] = i
  BY <1>1, <1>2, <1>5 DEF Turn
<1>6. ASSUME NEW q \in Period, Turn(w, Recalculate(q))
      PROVE  Current(work[w])'
  <2>1. work'[w] = Recalculate(q)
    BY <1>5, <1>6
  <2>2. /\ work'[w].phase = "children" /\ work'[w].at = q /\ work'[w].period = q
        /\ work'[w].climbing = FALSE
    BY <2>1 DEF Recalculate, NoWork
  <2>3. QED
    BY <2>2 DEF Current
<1>7. ASSUME work'[w].phase = "idle"
      PROVE  Current(work[w])'
  BY <1>7 DEF Current
<1>8. ASSUME NEW u \in Update, NEW v \in Value, SaveApproved(w, u, v)
      PROVE  MemoryIsCurrent'
  BY <1>4, <1>6, <1>8 DEF SaveApproved
<1>9. ASSUME NEW u \in Update, NEW v \in Value, SaveUnapproved(w, u, v)
      PROVE  MemoryIsCurrent'
  BY <1>4, <1>7, <1>9 DEF SaveUnapproved, Idle
<1>10. ASSUME NEW u \in Update, DeleteUpdate(w, u)
       PROVE  MemoryIsCurrent'
  <2>1. CASE status[u] = "approved"
    BY <1>4, <1>6, <1>10, <2>1 DEF DeleteUpdate
  <2>2. CASE status[u] # "approved"
    BY <1>4, <1>7, <1>10, <2>2 DEF DeleteUpdate, Idle
  <2>3. QED
    BY <2>1, <2>2
<1>11. ASSUME NEW u \in Update, NEW s \in {"unapproved", "approved"},
              SetUpdateStatus(w, u, s)
       PROVE  MemoryIsCurrent'
  BY <1>4, <1>7, <1>11 DEF SetUpdateStatus, Idle
<1>12. ASSUME ReadChildren(w)
       PROVE  MemoryIsCurrent'
  <2> DEFINE n == IF /\ Sequential!ChildPeriods(work[w].at) # {}
                     /\ aggregateChildren[ProjectOf[work[w].at]]
                    THEN Sequential!ChildPeriodsSum(work[w].at) ELSE 0
  <2>1. work'[w] = [work[w] EXCEPT !.phase = "approved", !.total = n]
    BY <1>5, <1>12 DEF ReadChildren
  <2>2. UNCHANGED <<tables, fixed>>
    BY <1>12 DEF ReadChildren
  <2>3. /\ work'[w].phase = "approved" /\ work'[w].total = n
        /\ work'[w].at = work[w].at /\ work'[w].period = work[w].period
        /\ work'[w].text = work[w].text /\ work'[w].climbing = work[w].climbing
    BY <1>3, <2>1 DEF Work
  <2>4. Busy(w) /\ Busy(w)'
    BY <1>12, <2>3 DEF ReadChildren, At, Busy
  <2>5. n' = n
    BY <2>2, <2>3, SameTables DEF fixed
  <2>6. QED
    BY <1>1, <1>4, <2>2, <2>3, <2>4, <2>5, ReadStep DEF Current
<1>13. ASSUME ReadApproved(w)
       PROVE  MemoryIsCurrent'
  <2> DEFINE q == work[w].at
             rows == [u \in Sequential!ApprovedUpdates(q) |-> value[u]]
             n == work[w].total + Sequential!SumOfUpdates(q)
  <2>1. work'[w] = [work[w] EXCEPT !.phase = "rewrite approved", !.rows = rows,
                                   !.total = n]
    BY <1>5, <1>13 DEF ReadApproved
  <2>2. UNCHANGED <<tables, fixed>>
    BY <1>13 DEF ReadApproved
  <2>3. /\ work'[w].phase = "rewrite approved" /\ work'[w].total = n
        /\ work'[w].rows = rows
        /\ work'[w].at = work[w].at /\ work'[w].period = work[w].period
        /\ work'[w].text = work[w].text /\ work'[w].climbing = work[w].climbing
    BY <1>3, <2>1 DEF Work
  <2>4. Busy(w) /\ Busy(w)' /\ q \in Period
    BY <1>2, <1>13, <2>3 DEF ReadApproved, At, Busy
  <2>5. Sequential!SumOfUpdates(q) \in Nat
    BY <1>2, <2>4, Sums
  <2>6. n = Sequential!RecalculatedValue(q, FALSE)
    BY <1>1, <1>13, <2>5 DEF Current, ReadApproved, At, Sequential!RecalculatedValue
  <2>7. /\ work'[w].total = Sequential!RecalculatedValue(work[w].at, FALSE)'
        /\ work'[w].rows = [u \in Sequential!ApprovedUpdates(work[w].at)' |-> value'[u]]
    <3>1. value' = value
      BY <2>2 DEF tables
    <3> HIDE DEF n
    <3>2. QED
      BY <2>2, <2>3, <2>6, <3>1, SameTables
  <2> HIDE DEF q, rows, n
  <2>8. QED
    BY <1>1, <1>4, <2>2, <2>3, <2>4, <2>7, ReadStep DEF Current
<1>14. ASSUME RewriteApproved(w) \/ RewriteOthers(w)
       PROVE  MemoryIsCurrent'
  <2>1. UNCHANGED <<tables, fixed>>
    BY <1>1, <1>14, SaveRowsAgain
  <2>2. PICK phase \in {"others", "store"} :
            Turn(w, [work[w] EXCEPT !.phase = phase, !.rows = <<>>])
    BY <1>14 DEF RewriteApproved, RewriteOthers
  <2>3. /\ work'[w].phase = phase /\ work'[w].total = work[w].total
        /\ work'[w].at = work[w].at /\ work'[w].period = work[w].period
        /\ work'[w].text = work[w].text /\ work'[w].climbing = work[w].climbing
    BY <1>3, <1>5, <2>2 DEF Work
  <2>4. Busy(w) /\ Busy(w)' /\ work[w].phase \in {"rewrite approved", "rewrite others"}
    BY <1>14, <2>3 DEF RewriteApproved, RewriteOthers, At, Busy
  <2>5. QED
    BY <1>1, <1>4, <2>1, <2>3, <2>4, SameTables, ReadStep DEF Current
<1>15. ASSUME ReadOthers(w)
       PROVE  MemoryIsCurrent'
  <2> DEFINE q == work[w].at
             others == Sequential!UpdatesOf(q) \ Sequential!ApprovedUpdates(q)
             rows == [u \in others |-> value[u]]
  <2>1. work'[w] = [work[w] EXCEPT !.phase = "rewrite others", !.rows = rows]
    BY <1>5, <1>15 DEF ReadOthers
  <2>2. UNCHANGED <<tables, fixed>>
    BY <1>15 DEF ReadOthers
  <2>3. /\ work'[w].phase = "rewrite others" /\ work'[w].total = work[w].total
        /\ work'[w].rows = rows
        /\ work'[w].at = work[w].at /\ work'[w].period = work[w].period
        /\ work'[w].text = work[w].text /\ work'[w].climbing = work[w].climbing
    BY <1>3, <2>1 DEF Work
  <2>4. Busy(w) /\ Busy(w)'
    BY <1>15, <2>3 DEF ReadOthers, At, Busy
  <2>5. work[w].total = Sequential!RecalculatedValue(q, FALSE)
    BY <1>1, <1>15 DEF Current, ReadOthers, At
  <2>6. QED
    BY <1>1, <1>4, <2>2, <2>3, <2>4, <2>5, SameTables, ReadStep DEF Current, tables
<1>16. ASSUME StorePeriod(w)
       PROVE  MemoryIsCurrent'
  <2> DEFINE i == work[w]
             memory == IF i.at = i.period THEN [i EXCEPT !.text = i.total] ELSE i
             after == [memory EXCEPT !.phase = "comment", !.climbing = FALSE]
  <2>1. /\ i.at \in Period /\ i.period \in Period /\ i.period # NoPeriod
        /\ ~i.climbing => i.at = i.period
        /\ i.climbing => /\ i.text = actualValue[i.period]
                         /\ Level[ProjectOf[i.at]] < Level[ProjectOf[i.period]]
        /\ i.climbing \in BOOLEAN
    BY <1>1, <1>2, <1>3, <1>16 DEF StorePeriod, At, Busy, Current, Work
  <2>2. SavePeriod(w, i.at, i.total, memory, after)
    BY <1>16, <2>1 DEF StorePeriod
  <2>3. actualValue' = [actualValue EXCEPT ![i.at] = i.total] /\ UNCHANGED fixed
    BY <1>16, <2>2 DEF SavePeriod, StorePeriod
  <2>4. actualValue \in [Period -> Sequential!Actual]
    BY <1>2 DEF Sequential!TypeOK
  <2>5. memory.text = actualValue'[i.period]
    <3>1. CASE i.at = i.period
      BY <1>3, <2>1, <2>3, <2>4, <3>1 DEF Work
    <3>2. CASE i.at # i.period
      BY <2>1, <2>3, <2>4, <3>2
    <3>3. QED
      BY <3>1, <3>2
  <2>6. memory.period = i.period /\ memory \in Work(updates)
    BY <1>3 DEF Work
  <2>7. CASE i.total # actualValue[i.at] /\ Sequential!FeedsParent(i.at)
    <3>1. work'[w] = [memory EXCEPT !.phase = "children", !.at = parentPeriod[i.at],
                                    !.climbing = TRUE]
      BY <1>5, <2>2, <2>7 DEF SavePeriod
    <3>2. /\ work'[w].phase = "children" /\ work'[w].at = parentPeriod[i.at]
          /\ work'[w].climbing = TRUE /\ work'[w].period = i.period
          /\ work'[w].text = memory.text
      <4> HIDE DEF memory
      <4>1. QED
        BY <2>6, <3>1 DEF Work
    <3>3. /\ Level[ProjectOf[parentPeriod[i.at]]] < Level[ProjectOf[i.at]]
          /\ parentPeriod[i.at] \in Period
      BY <1>2, <2>1, <2>7 DEF Sequential!FeedsParent, Sequential!ParentsAbove,
         Sequential!TypeOK
    <3>4. Level[ProjectOf[parentPeriod[i.at]]] < Level[ProjectOf[i.period]]
      <4>1. /\ Level[ProjectOf[parentPeriod[i.at]]] \in Nat
            /\ Level[ProjectOf[i.at]] \in Nat /\ Level[ProjectOf[i.period]] \in Nat
        BY <2>1, <3>3
      <4>2. QED
        BY <2>1, <3>3, <4>1
    <3> HIDE DEF i, memory
    <3>5. QED
      BY <1>4, <2>1, <2>5, <3>2, <3>4 DEF Current
  <2>8. CASE ~(i.total # actualValue[i.at] /\ Sequential!FeedsParent(i.at))
    <3>1. work'[w] = after
      BY <1>5, <2>2, <2>8 DEF SavePeriod
    <3>2. /\ work'[w].phase = "comment" /\ work'[w].period = i.period
          /\ work'[w].text = memory.text
      <4> HIDE DEF memory
      <4>1. QED
        BY <2>6, <3>1 DEF Work
    <3> HIDE DEF i, memory
    <3>3. QED
      BY <1>4, <2>5, <3>2 DEF Current
  <2>9. QED
    BY <2>7, <2>8
<1>17. ASSUME UpdateActualComment(w)
       PROVE  MemoryIsCurrent'
  <2>1. work[w].text = actualValue[work[w].period]
    BY <1>1, <1>17 DEF UpdateActualComment, At, Current
  <2>2. Turn(w, NoWork)
    BY <1>17, <2>1 DEF UpdateActualComment, SavePeriod
  <2>3. QED
    BY <1>4, <1>5, <1>7, <2>2, NoWorkType
<1>18. ASSUME Abort(w)
       PROVE  MemoryIsCurrent'
  BY <1>4, <1>5, <1>7, <1>18, NoWorkType DEF Abort
<1>19. CASE UNCHANGED vars
  <2>1. UNCHANGED <<tables, fixed>> /\ work' = work
    BY <1>19 DEF vars
  <2>2. QED
    BY <1>1, <1>4, <2>1, SameTables DEF Current, tables, fixed
<1>20. QED
  <2>1. CASE Next
    <3>1. Request(w) \/ WorkStep(w) \/ Abort(w)
      BY <2>1 DEF Next
    <3>2. QED
      BY <1>8, <1>9, <1>10, <1>11, <1>12, <1>13, <1>14, <1>15, <1>16, <1>17, <1>18, <3>1
         DEF Request, WorkStep
  <2>2. QED
    BY <1>19, <2>1

\* The inductive invariant of a lone worker.
LEMMA LoneStep ==
    ASSUME NEW w, Worker = {w}
    PROVE  /\ Init => TypeOK /\ Sequential!ParentsAbove /\ MemoryIsCurrent
           /\ TypeOK /\ Sequential!ParentsAbove /\ MemoryIsCurrent /\ [Next]_vars
                => TypeOK' /\ Sequential!ParentsAbove' /\ MemoryIsCurrent'
<1>1. ASSUME Init
      PROVE  TypeOK /\ Sequential!ParentsAbove /\ MemoryIsCurrent
  <2>1. Sequential!ParentsAbove
    BY <1>1 DEF Init, Sequential!Init, Sequential!ParentsAbove
  <2>2. work[w].phase = "idle"
    BY <1>1, NoWorkType DEF Init
  <2>3. QED
    BY <1>1, <2>1, <2>2, TypeInit, LoneMemory DEF Current
<1>2. ASSUME TypeOK, Sequential!ParentsAbove, MemoryIsCurrent, [Next]_vars
      PROVE  TypeOK' /\ Sequential!ParentsAbove' /\ MemoryIsCurrent'
  <2>1. UNCHANGED fixed
    BY <1>2 DEF Next, vars, Request, WorkStep, SaveApproved, SaveUnapproved, DeleteUpdate,
       SetUpdateStatus, ReadChildren, ReadApproved, RewriteApproved, ReadOthers,
       RewriteOthers, StorePeriod, UpdateActualComment, Abort
  <2>2. Sequential!ParentsAbove'
    BY <1>2, <2>1 DEF fixed, Sequential!ParentsAbove
  <2>3. QED
    BY <1>2, <2>2, TypeStep, MemoryStep
<1>3. QED
  BY <1>1, <1>2

\* A lone worker never writes what it should not know: what it has in memory is
\* what the tables say whenever it writes.
THEOREM LoneMemoryIsCurrent ==
    ASSUME NEW w, Worker = {w}
    PROVE  Spec => []MemoryIsCurrent
<1> DEFINE Inv == TypeOK /\ Sequential!ParentsAbove /\ MemoryIsCurrent
<1>1. Init => Inv
  BY LoneStep
<1>2. Inv /\ [Next]_vars => Inv'
  BY LoneStep
<1>3. Inv => MemoryIsCurrent
  OBVIOUS
<1> HIDE DEF Inv
<1>4. QED
  BY <1>1, <1>2, <1>3, PTL DEF Spec

(* The refinement --------------------------------------------------------------*)

\* Each step of a lone worker is a step of PeriodAggregation or a stutter.
LEMMA StepSimulation ==
    ASSUME NEW w, Worker = {w}, TypeOK, MemoryIsCurrent, [Next]_vars
    PROVE  [Sequential!Next]_(Sequential!vars)
<1> USE ConcurrentAssumption
<1>1. Current(work[w]) /\ w \in Worker
  BY LoneMemory
<1>2. /\ Sequential!TypeOK
      /\ DOMAIN work = Worker
      /\ Busy(w) => work[w].at \in Period
      /\ work[w].phase = "comment" => work[w].period \in Period
  BY <1>1 DEF TypeOK, WorkOK
<1>3. PICK updates \in SUBSET Update : work[w] \in Work(updates)
  BY <1>1 DEF TypeOK, WorkOK
<1>4. ASSUME NEW i, Turn(w, i)
      PROVE  work'[w] = i
  BY <1>1, <1>2, <1>4 DEF Turn
<1>5. ASSUME UNCHANGED <<tables, fixed>>, UNCHANGED <<Loop, Climb>>
      PROVE  [Sequential!Next]_(Sequential!vars)
  BY <1>5 DEF tables, fixed, Sequential!vars, Sequential!inputs
<1>6. ASSUME Idle(w)
      PROVE  Sequential!Idle /\ Loop = {} /\ Climb = NoPeriod
  BY <1>6, LoneWorker DEF Idle, Busy, Sequential!Idle
<1>7. ASSUME NEW q \in Period, Turn(w, Recalculate(q))
      PROVE  Loop' = {[period |-> q, onlySelf |-> FALSE]} /\ Climb' = NoPeriod
  <2>1. work'[w] = Recalculate(q)
    BY <1>4, <1>7
  <2>2. Busy(w)' /\ work'[w].at = q /\ work'[w].climbing = FALSE
    BY <2>1 DEF Recalculate, NoWork, Busy
  <2>3. QED
    BY <2>2, LoneWorker
<1>8. ASSUME work' = work
      PROVE  UNCHANGED <<Loop, Climb>>
  BY <1>8 DEF Loop, Climb, Climbing, Busy
<1>9. ASSUME NEW u \in Update, NEW v \in Value, SaveApproved(w, u, v)
      PROVE  Sequential!Next
  <2>1. Sequential!SaveApproved(u, v)
    BY <1>6, <1>7, <1>9 DEF SaveApproved, fixed, Sequential!SaveApproved
  <2>2. QED
    BY <2>1 DEF Sequential!Next
<1>10. ASSUME NEW u \in Update, NEW v \in Value, SaveUnapproved(w, u, v)
       PROVE  Sequential!Next
  <2>1. Sequential!SaveUnapproved(u, v)
    BY <1>6, <1>8, <1>10 DEF SaveUnapproved, fixed, Sequential!SaveUnapproved
  <2>2. QED
    BY <2>1 DEF Sequential!Next
<1>11. ASSUME NEW u \in Update, DeleteUpdate(w, u)
       PROVE  Sequential!Next
  <2>1. Loop' = IF status[u] = "approved"
                  THEN {[period |-> PeriodOf[u], onlySelf |-> FALSE]} ELSE {}
    BY <1>6, <1>7, <1>8, <1>11 DEF DeleteUpdate
  <2>2. Climb' = NoPeriod
    BY <1>6, <1>7, <1>8, <1>11 DEF DeleteUpdate
  <2>3. Sequential!DeleteUpdate(u)
    BY <1>6, <1>11, <2>1, <2>2 DEF DeleteUpdate, fixed, Sequential!DeleteUpdate
  <2>4. QED
    BY <2>3 DEF Sequential!Next
<1>12. ASSUME NEW u \in Update, NEW s \in {"unapproved", "approved"},
              SetUpdateStatus(w, u, s)
       PROVE  Sequential!Next
  <2> DEFINE p == ProjectOf[PeriodOf[u]]
  <2>1. Sequential!Idle /\ UNCHANGED <<Loop, Climb>>
    BY <1>6, <1>8, <1>12 DEF SetUpdateStatus
  <2>2. status' = [x \in Update |-> IF x \in {u} THEN s ELSE status[x]]
    BY <1>2, <1>12 DEF SetUpdateStatus, Sequential!TypeOK
  <2>3. bypassed' = bypassed \cup
            {PeriodOf[x] : x \in {y \in {u} : (status[y] = "approved") # (s = "approved")}}
    BY <1>12 DEF SetUpdateStatus
  <2>4. Sequential!SetUpdatesStatus(p, {u}, s)
    <3>1. {u} # {} /\ \A x \in {u} : status[x] # "none" /\ ProjectOf[PeriodOf[x]] = p
      BY <1>12 DEF SetUpdateStatus
    <3>2. UNCHANGED <<value, parentPeriod, aggregateChildren, aggregateToParent,
                      actualValue, Loop, Climb>>
      BY <1>12, <2>1 DEF SetUpdateStatus, fixed
    <3> HIDE DEF p
    <3>3. QED
      BY <2>1, <2>2, <2>3, <3>1, <3>2 DEF Sequential!SetUpdatesStatus
  <2>5. p \in Project /\ {u} \in SUBSET Update
    OBVIOUS
  <2> HIDE DEF p
  <2>6. QED
    BY <2>4, <2>5 DEF Sequential!Next
<1>13. ASSUME NEW i, Turn(w, i), i.at = work[w].at, i.climbing = work[w].climbing,
              Busy(w), i.phase \notin {"idle", "comment"}
       PROVE  UNCHANGED <<Loop, Climb>>
  <2>1. work'[w] = i
    BY <1>4, <1>13
  <2>2. QED
    BY <1>13, <2>1, LoneWorker DEF Busy
<1>14. ASSUME ReadChildren(w) \/ ReadApproved(w) \/ ReadOthers(w)
       PROVE  [Sequential!Next]_(Sequential!vars)
  <2>1. Busy(w) /\ UNCHANGED <<tables, fixed>>
    BY <1>14 DEF ReadChildren, ReadApproved, ReadOthers, At, Busy
  <2> DEFINE q == work[w].at
  <2>2. ASSUME ReadChildren(w)
        PROVE  UNCHANGED <<Loop, Climb>>
    <3> DEFINE n == IF /\ Sequential!ChildPeriods(q) # {}
                       /\ aggregateChildren[ProjectOf[q]]
                      THEN Sequential!ChildPeriodsSum(q) ELSE 0
               i == [work[w] EXCEPT !.phase = "approved", !.total = n]
    <3>1. Turn(w, i)
      BY <2>2 DEF ReadChildren
    <3>2. i.at = work[w].at /\ i.climbing = work[w].climbing /\ i.phase = "approved"
      BY <1>3 DEF Work
    <3> HIDE DEF i
    <3>3. QED
      BY <1>13, <2>1, <3>1, <3>2
  <2>3. ASSUME ReadApproved(w)
        PROVE  UNCHANGED <<Loop, Climb>>
    <3> DEFINE n == work[w].total + Sequential!SumOfUpdates(q)
               rows == [u \in Sequential!ApprovedUpdates(q) |-> value[u]]
               i == [work[w] EXCEPT !.phase = "rewrite approved", !.rows = rows,
                                    !.total = n]
    <3>1. Turn(w, i)
      BY <2>3 DEF ReadApproved
    <3>2. i.at = work[w].at /\ i.climbing = work[w].climbing /\ i.phase = "rewrite approved"
      BY <1>3 DEF Work
    <3> HIDE DEF i
    <3>3. QED
      BY <1>13, <2>1, <3>1, <3>2
  <2>4. ASSUME ReadOthers(w)
        PROVE  UNCHANGED <<Loop, Climb>>
    <3> DEFINE others == Sequential!UpdatesOf(q) \ Sequential!ApprovedUpdates(q)
               rows == [u \in others |-> value[u]]
               i == [work[w] EXCEPT !.phase = "rewrite others", !.rows = rows]
    <3>1. Turn(w, i)
      BY <2>4 DEF ReadOthers
    <3>2. i.at = work[w].at /\ i.climbing = work[w].climbing /\ i.phase = "rewrite others"
      BY <1>3 DEF Work
    <3> HIDE DEF i
    <3>3. QED
      BY <1>13, <2>1, <3>1, <3>2
  <2>5. QED
    BY <1>5, <1>14, <2>1, <2>2, <2>3, <2>4
<1>15. ASSUME RewriteApproved(w) \/ RewriteOthers(w)
       PROVE  [Sequential!Next]_(Sequential!vars)
  <2>1. UNCHANGED <<tables, fixed>>
    BY <1>1, <1>15, SaveRowsAgain
  <2>2. PICK phase \in {"others", "store"} :
            Turn(w, [work[w] EXCEPT !.phase = phase, !.rows = <<>>])
    BY <1>15 DEF RewriteApproved, RewriteOthers
  <2> DEFINE i == [work[w] EXCEPT !.phase = phase, !.rows = <<>>]
  <2>3. i.at = work[w].at /\ i.climbing = work[w].climbing /\ i.phase = phase
    BY <1>3 DEF Work
  <2>4. Busy(w)
    BY <1>15 DEF RewriteApproved, RewriteOthers, At, Busy
  <2>5. Turn(w, i)
    BY <2>2
  <2> HIDE DEF i
  <2>6. UNCHANGED <<Loop, Climb>>
    BY <1>13, <2>3, <2>4, <2>5
  <2>7. QED
    BY <1>5, <2>1, <2>6
<1>16. ASSUME StorePeriod(w)
       PROVE  Sequential!Next
  <2> DEFINE i == work[w]
             memory == IF i.at = i.period THEN [i EXCEPT !.text = i.total] ELSE i
             after == [memory EXCEPT !.phase = "comment", !.climbing = FALSE]
             next == IF i.total # actualValue[i.at] /\ Sequential!FeedsParent(i.at)
                       THEN parentPeriod[i.at] ELSE NoPeriod
  <2>1. /\ i.at \in Period /\ i.period # NoPeriod /\ Busy(w)
        /\ i.total = Sequential!RecalculatedValue(i.at, FALSE)
        /\ i.climbing \in BOOLEAN
    BY <1>1, <1>2, <1>3, <1>16 DEF StorePeriod, At, Busy, Current, Work
  <2>2. SavePeriod(w, i.at, i.total, memory, after)
    BY <1>16, <2>1 DEF StorePeriod
  <2>3. memory \in Work(updates)
    BY <1>3 DEF Work
  <2>4. Loop' = {} /\ Climb' = next
    <3>1. CASE i.total # actualValue[i.at] /\ Sequential!FeedsParent(i.at)
      <4>1. work'[w] = [memory EXCEPT !.phase = "children", !.at = parentPeriod[i.at],
                                      !.climbing = TRUE]
        BY <1>4, <2>2, <3>1 DEF SavePeriod
      <4>2. Busy(w)' /\ work'[w].at = parentPeriod[i.at] /\ work'[w].climbing = TRUE
        <5> HIDE DEF memory
        <5>1. QED
          BY <2>3, <4>1 DEF Work, Busy
      <4>3. QED
        BY <3>1, <4>2, LoneWorker
    <3>2. CASE ~(i.total # actualValue[i.at] /\ Sequential!FeedsParent(i.at))
      <4>1. work'[w] = after
        BY <1>4, <2>2, <3>2 DEF SavePeriod
      <4>2. ~Busy(w)'
        <5> HIDE DEF memory
        <5>1. QED
          BY <2>3, <4>1 DEF Work, Busy
      <4>3. QED
        BY <3>2, <4>2, LoneWorker
    <3>3. QED
      BY <3>1, <3>2
  <2>5. /\ actualValue' = [actualValue EXCEPT ![i.at] = i.total]
        /\ bypassed' = bypassed \ {i.at}
        /\ UNCHANGED <<status, value, parentPeriod, aggregateChildren, aggregateToParent>>
    BY <1>16, <2>2 DEF StorePeriod, SavePeriod, fixed
  <2>6. CASE i.climbing
    <3>1. Loop = {} /\ Climb = i.at /\ i.at # NoPeriod
      BY <2>1, <2>6, LoneWorker
    <3>2. Sequential!Climb
      BY <2>1, <2>4, <2>5, <3>1 DEF Sequential!Climb, Sequential!Store, Sequential!inputs
    <3>3. QED
      BY <3>2 DEF Sequential!Next
  <2>7. CASE ~i.climbing
    <3> DEFINE t == [period |-> i.at, onlySelf |-> FALSE]
    <3>1. Loop = {t} /\ Climb = NoPeriod
      BY <2>1, <2>7, LoneWorker
    <3>2. Sequential!RecalculateNext(t)
      BY <2>1, <2>4, <2>5, <3>1 DEF Sequential!RecalculateNext, Sequential!Store,
         Sequential!inputs
    <3> HIDE DEF t
    <3>3. QED
      BY <3>1, <3>2 DEF Sequential!Next
  <2>8. QED
    BY <2>6, <2>7
<1>17. ASSUME UpdateActualComment(w)
       PROVE  [Sequential!Next]_(Sequential!vars)
  <2>1. /\ work[w].text = actualValue[work[w].period] /\ work[w].period \in Period
        /\ ~Busy(w)
    BY <1>1, <1>2, <1>17 DEF UpdateActualComment, At, Current, Busy
  <2>2. Turn(w, NoWork)
    BY <1>17, <2>1 DEF UpdateActualComment, SavePeriod
  <2>3. ~Busy(w)'
    BY <1>4, <2>2, NoWorkType DEF Busy
  <2>4. actualValue' = actualValue
    BY <1>2, <1>17, <2>1 DEF UpdateActualComment, SavePeriod, Sequential!TypeOK
  <2>5. UNCHANGED <<Loop, Climb>>
    <3>1. ~Busy(w)
      BY <2>1
    <3>2. QED
      BY <2>3, <3>1, LoneWorker
  <2>6. QED
    BY <1>5, <1>17, <2>4, <2>5 DEF UpdateActualComment, tables
<1>18. ASSUME Abort(w)
       PROVE  [Sequential!Next]_(Sequential!vars)
  <2>1. ~Busy(w)'
    BY <1>4, <1>18, NoWorkType DEF Abort, Busy
  <2>2. Loop' = {} /\ Climb' = NoPeriod
    BY <2>1, LoneWorker
  <2>3. CASE Busy(w)
    <3>1. Sequential!Pending = {work[w].at} /\ ~Sequential!Idle
      <4>1. work[w].at \in Period /\ work[w].at # NoPeriod
        BY <1>2, <2>3
      <4>2. CASE work[w].climbing
        <5>1. Loop = {} /\ Climb = work[w].at
          BY <2>3, <4>2, LoneWorker
        <5>2. QED
          BY <4>1, <5>1 DEF Sequential!Pending, Sequential!Idle
      <4>3. CASE ~work[w].climbing
        <5>1. Loop = {[period |-> work[w].at, onlySelf |-> FALSE]} /\ Climb = NoPeriod
          BY <2>3, <4>3, LoneWorker
        <5>2. QED
          BY <4>1, <5>1 DEF Sequential!Pending, Sequential!Idle
      <4>4. QED
        BY <4>2, <4>3
    <3>2. Sequential!Abort
      BY <1>18, <2>2, <2>3, <3>1 DEF Abort, fixed, Sequential!Abort, Sequential!inputs
    <3>3. QED
      BY <3>2 DEF Sequential!Next
  <2>4. CASE ~Busy(w)
    <3>1. UNCHANGED <<Loop, Climb>>
      BY <2>1, <2>4, LoneWorker
    <3>2. QED
      BY <1>5, <1>18, <2>4, <3>1 DEF Abort, tables
  <2>5. QED
    BY <2>3, <2>4
<1>19. CASE UNCHANGED vars
  BY <1>5, <1>8, <1>19 DEF vars
<1>20. QED
  <2>1. CASE Next
    <3>1. Request(w) \/ WorkStep(w) \/ Abort(w)
      BY <2>1 DEF Next
    <3>2. QED
      BY <1>9, <1>10, <1>11, <1>12, <1>14, <1>15, <1>16, <1>17, <1>18, <3>1
         DEF Request, WorkStep
  <2>2. QED
    BY <1>19, <2>1

\* With one worker, reading and saving again row by row, storing, climbing and the
\* trailing save of update_actual_comment come to the same as the recalculations in
\* one step that PeriodAggregation describes.
THEOREM LoneWorkerIsSequential ==
    ASSUME NEW w, Worker = {w}
    PROVE  Spec => ImplementsSequential
<1> DEFINE Inv == TypeOK /\ Sequential!ParentsAbove /\ MemoryIsCurrent
<1>1. Init => Inv
  BY LoneStep
<1>2. Inv /\ [Next]_vars => Inv'
  BY LoneStep
<1>3. Init => Sequential!Init
  <2>1. SUFFICES ASSUME Init
                 PROVE  Sequential!Init
    OBVIOUS
  <2>2. QED
    BY <2>1 DEF Init
<1>4. Inv /\ [Next]_vars => [Sequential!Next]_(Sequential!vars)
  BY StepSimulation
<1> HIDE DEF Inv
<1>5. QED
  BY <1>1, <1>2, <1>3, <1>4, PTL DEF Spec, ImplementsSequential, Sequential!Spec

\* The two instances of PeriodAggregation are the same specification.
LEMMA SameStep == [Sequential!Next]_(Sequential!vars) => [Proved!Next]_(Proved!vars)
<1> SUFFICES ASSUME [Sequential!Next]_(Sequential!vars)
             PROVE  [Proved!Next]_(Proved!vars)
  OBVIOUS
<1> USE DEF Sequential!Idle, Proved!Idle, Sequential!inputs, Proved!inputs
<1>1. ASSUME NEW u \in Update, NEW v \in Value, Sequential!SaveApproved(u, v)
      PROVE  Proved!SaveApproved(u, v)
  BY <1>1 DEF Sequential!SaveApproved, Proved!SaveApproved
<1>2. ASSUME NEW u \in Update, NEW v \in Value, Sequential!SaveUnapproved(u, v)
      PROVE  Proved!SaveUnapproved(u, v)
  BY <1>2 DEF Sequential!SaveUnapproved, Proved!SaveUnapproved
<1>3. ASSUME NEW u \in Update, Sequential!DeleteUpdate(u)
      PROVE  Proved!DeleteUpdate(u)
  BY <1>3 DEF Sequential!DeleteUpdate, Proved!DeleteUpdate
<1>4. ASSUME NEW p \in Project, NEW us \in SUBSET Update,
             NEW s \in {"unapproved", "approved"}, Sequential!SetUpdatesStatus(p, us, s)
      PROVE  Proved!SetUpdatesStatus(p, us, s)
  BY <1>4 DEF Sequential!SetUpdatesStatus, Proved!SetUpdatesStatus
<1>5. ASSUME NEW us \in SUBSET Update, Sequential!DeleteUser(us)
      PROVE  Proved!DeleteUser(us)
  BY <1>5 DEF Sequential!DeleteUser, Proved!DeleteUser
<1>6. ASSUME NEW p \in Project, NEW toChildren \in BOOLEAN, NEW toParent \in BOOLEAN,
             Sequential!SaveProject(p, toChildren, toParent)
      PROVE  Proved!SaveProject(p, toChildren, toParent)
  BY <1>6 DEF Sequential!SaveProject, Proved!SaveProject, Sequential!Task, Proved!Task,
     Sequential!PeriodsOf, Proved!PeriodsOf
<1>7. ASSUME Sequential!RecalculatePeriods
      PROVE  Proved!RecalculatePeriods
  BY <1>7 DEF Sequential!RecalculatePeriods, Proved!RecalculatePeriods, Sequential!Task,
     Proved!Task, Sequential!ChildPeriods, Proved!ChildPeriods
<1>8. \A p, target : Sequential!Relink(p, target) => Proved!Relink(p, target)
  BY DEF Sequential!Relink, Proved!Relink, Sequential!PeriodsOf, Proved!PeriodsOf
<1>9. ASSUME NEW p \in Project, Sequential!RemoveParent(p)
      PROVE  Proved!RemoveParent(p)
  BY <1>8, <1>9 DEF Sequential!RemoveParent, Proved!RemoveParent, Sequential!PeriodsOf,
     Proved!PeriodsOf
<1>10. ASSUME NEW p \in Project, NEW newParent \in Project,
              Sequential!ChangeParent(p, newParent)
       PROVE  Proved!ChangeParent(p, newParent)
  BY <1>8, <1>10 DEF Sequential!ChangeParent, Proved!ChangeParent, Sequential!PeriodsOf,
     Proved!PeriodsOf
<1>11. ASSUME NEW q, NEW text, Sequential!Store(q, text)
       PROVE  Proved!Store(q, text)
  BY <1>11 DEF Sequential!Store, Proved!Store, Sequential!FeedsParent, Proved!FeedsParent
<1>12. ASSUME NEW q \in Period, NEW text \in Value \cup {NoNumber},
              Sequential!SetActualValue(q, text)
       PROVE  Proved!SetActualValue(q, text)
  BY <1>11, <1>12 DEF Sequential!SetActualValue, Proved!SetActualValue
<1>13. ASSUME Sequential!Climb
       PROVE  Proved!Climb
  BY <1>11, <1>13, SameValues DEF Sequential!Climb, Proved!Climb
<1>14. ASSUME NEW t \in Loop, Sequential!RecalculateNext(t)
       PROVE  Proved!RecalculateNext(t)
  BY <1>11, <1>14, SameValues DEF Sequential!RecalculateNext, Proved!RecalculateNext
<1>15. ASSUME Sequential!Abort
       PROVE  Proved!Abort
  BY <1>15 DEF Sequential!Abort, Proved!Abort, Sequential!Pending, Proved!Pending
<1>m. ASSUME NEW u \in Update, NEW v \in Update, NEW s \in {"unapproved", "approved"},
             NEW x \in Value, Sequential!MoveUpdate(u, v, s, x)
      PROVE  Proved!MoveUpdate(u, v, s, x)
  BY <1>m DEF Sequential!MoveUpdate, Proved!MoveUpdate
<1>16. CASE UNCHANGED Sequential!vars
  BY <1>16 DEF Sequential!vars, Proved!vars
<1>17. CASE Sequential!Next
  BY <1>1, <1>2, <1>3, <1>4, <1>5, <1>6, <1>7, <1>9, <1>10, <1>12, <1>13, <1>14, <1>15,
     <1>17, <1>m DEF Sequential!Next, Proved!Next
<1>18. QED
  BY <1>16, <1>17

\* With one worker the top of every hierarchy shows every approved update below it
\* once, whenever no recalculation is under way, bypassed or cut off below it.
THEOREM LoneWorkerRollsUp ==
    ASSUME NEW w, Worker = {w}
    PROVE  Spec => []RollUp
<1>1. Spec => Sequential!Spec
  BY LoneWorkerIsSequential DEF ImplementsSequential
<1>2. Sequential!Init => Proved!Init
  BY DEF Sequential!Init, Proved!Init
<1>3. [Sequential!Next]_(Sequential!vars) => [Proved!Next]_(Proved!vars)
  BY SameStep
<1>4. Proved!Spec => []Proved!RollUp
  BY ConcurrentAssumption, SameSets, Proved!RollUpInvariant
<1>5. Proved!RollUp => RollUp
  BY SameTotal DEF RollUp, Proved!RollUp, Sequential!RollUp, Proved!Contributing,
     Sequential!Contributing, Proved!FeedsParent, Sequential!FeedsParent,
     Proved!Pending, Sequential!Pending, Proved!Number, Sequential!Number
<1>6. QED
  BY <1>1, <1>2, <1>3, <1>4, <1>5, PTL DEF Sequential!Spec, Proved!Spec
=============================================================================
