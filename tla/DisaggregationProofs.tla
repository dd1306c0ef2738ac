------------------------- MODULE DisaggregationProofs -------------------------
(* Proofs about Disaggregation, for every hierarchy of finitely many periods  *)
(* and dimension values, every finite set of updates and all values.          *)
EXTENDS Disaggregation, FiniteSetTheorems, WellFoundedInduction, TLAPS

(* What the proofs assume of every state they reason about. ----------------*)

\* What a request still has to save belongs to an update there is and to values
\* of its project that exist, and it recomputes totals of existing values only.
Prepared ==
    /\ todo # {} => saving \in Update /\ status[saving] # "none"
    /\ \A i \in todo : i.dimension \in ValuesOf(saving) \cap live
    /\ \A c \in loop : c[2] \in live
    /\ climb # None => climb[2] \in live

\* Links are only ever cleared.
LinksKept ==
    /\ \A q \in Period : parentPeriod[q] \in {LinkedPeriod[q], None}
    /\ \A d \in live : parentValue[d] \in {LinkedValue[d], None}

(* Totals ------------------------------------------------------------------*)

\* What the number n of x is counted by.
Tally(x, n) == {x} \X (1 .. n)
Tallies(f) == UNION {Tally(x, f[x]) : x \in DOMAIN f}

\* A tally of n has n elements.
LEMMA TallySize ==
    ASSUME NEW x, NEW n \in Nat
    PROVE  IsFiniteSet(Tally(x, n)) /\ Cardinality(Tally(x, n)) = n
<1> DEFINE b == [i \in 1 .. n |-> <<x, i>>]
<1>1. n \in Int /\ 1 \in Int
  OBVIOUS
<1>2. IsFiniteSet(1 .. n) /\ Cardinality(1 .. n) = n
  <2>1. IsFiniteSet(1 .. n) /\ Cardinality(1 .. n) = IF 1 > n THEN 0 ELSE n - 1 + 1
    BY <1>1, FS_Interval
  <2>2. QED
    BY <2>1
<1>3. b \in Bijection(1 .. n, Tally(x, n))
  <2>1. b \in [1 .. n -> Tally(x, n)]
    BY DEF Tally
  <2>2. \A i, j \in 1 .. n : b[i] = b[j] => i = j
    OBVIOUS
  <2>3. \A t \in Tally(x, n) : \E i \in 1 .. n : b[i] = t
    BY DEF Tally
  <2> HIDE DEF b
  <2>4. QED
    BY <2>1, <2>2, <2>3 DEF Bijection, Injection, Surjection, IsInjective
<1>4. ExistsBijection(1 .. n, Tally(x, n))
  BY <1>3 DEF ExistsBijection
<1>5. QED
  BY <1>2, <1>4, FS_Bijection

\* A finite family of naturals has finitely many tallies: its sum is a natural.
LEMMA TotalType ==
    ASSUME NEW S, IsFiniteSet(S), NEW f \in [S -> Nat]
    PROVE  IsFiniteSet(Tallies(f)) /\ Total(f) = Cardinality(Tallies(f)) /\ Total(f) \in Nat
<1> DEFINE Parts == {Tally(x, f[x]) : x \in S}
           g == [x \in S |-> Tally(x, f[x])]
<1>1. IsFiniteSet(Parts)
  <2>1. g \in Surjection(S, Parts)
    BY DEF Surjection
  <2>2. QED
    BY <2>1, FS_Surjection
<1>2. \A T \in Parts : IsFiniteSet(T)
  BY TallySize
<1>3. IsFiniteSet(UNION Parts)
  <2> HIDE DEF Parts
  <2>1. QED
    BY <1>1, <1>2, FS_UNION
<1>4. Tallies(f) = UNION Parts
  BY DEF Tallies
<1>5. Total(f) = Cardinality(Tallies(f))
  BY DEF Total, Tallies, Tally
<1>6. QED
  BY <1>3, <1>4, <1>5, FS_CardinalityType

\* Only what is there counts.
LEMMA TotalOfSome ==
    ASSUME NEW S, NEW T \in SUBSET S, NEW f \in [S -> Nat], NEW g \in [T -> Nat],
           \A x \in T : f[x] = g[x],
           \A x \in S \ T : f[x] = 0
    PROVE  Total(f) = Total(g)
<1>1. Tallies(f) = Tallies(g)
  <2>1. \A x \in S \ T : Tally(x, f[x]) = {}
    BY DEF Tally
  <2>2. \A x \in T : Tally(x, f[x]) = Tally(x, g[x])
    OBVIOUS
  <2>3. DOMAIN f = S /\ DOMAIN g = T
    OBVIOUS
  <2>4. QED
    BY <2>1, <2>2, <2>3 DEF Tallies
<1>2. Total(f) = Cardinality(Tallies(f)) /\ Total(g) = Cardinality(Tallies(g))
  BY DEF Total, Tallies, Tally
<1>3. QED
  BY <1>1, <1>2

\* The sum of zeros is zero.
LEMMA TotalOfZeros ==
    ASSUME NEW S, NEW f \in [S -> Nat], \A x \in S : f[x] = 0
    PROVE  Total(f) = 0
<1>1. Tallies(f) = {}
  BY DEF Tallies, Tally
<1>2. Total(f) = Cardinality(Tallies(f))
  BY DEF Total, Tallies, Tally
<1>3. QED
  BY <1>1, <1>2, FS_EmptySet

(* The values aggregate computes -------------------------------------------*)

\* Local and contributed values are naturals, whatever the cell.
LEMMA SumsType ==
    ASSUME TypeOK, NEW c \in Cell
    PROVE  LocalValue(c) \in Nat /\ ContributedValue(c) \in Nat
<1> USE DisaggregationAssumption
<1>1. c[2] \in DimensionValue
  BY DEF Cell
<1>2. \A u \in Update : Counted(u, c) \in Nat
  <2> SUFFICES ASSUME NEW u \in Update
               PROVE  Counted(u, c) \in Nat
    OBVIOUS
  <2>1. amount[u][c[2]] \in Nat \cup {None}
    BY <1>1 DEF TypeOK
  <2>2. QED
    BY <2>1 DEF Counted
<1>3. LocalValue(c) \in Nat
  <2>1. [u \in Update |-> Counted(u, c)] \in [Update -> Nat]
    BY <1>2
  <2>2. QED
    BY <2>1, TotalType DEF LocalValue
<1>4. IsFiniteSet(Cell)
  <2>1. IsFiniteSet(Period \X DimensionValue)
    BY FS_Product
  <2>2. QED
    BY <2>1, FS_Subset DEF Cell
<1>5. [k \in Cell |-> IF k \in ChildCells(c) THEN total[k] ELSE 0] \in [Cell -> Nat]
  BY DEF TypeOK
<1>6. QED
  BY <1>3, <1>4, <1>5, TotalType DEF ContributedValue

\* A cell is the pair of its period and its value, never None.
LEMMA CellIsPair ==
    ASSUME NEW c \in Cell
    PROVE  /\ c # None /\ c = <<c[1], c[2]>>
           /\ c[1] \in Period /\ c[2] \in DimensionValue
           /\ ProjectOf[c[1]] = DimensionOf[c[2]]
BY DisaggregationAssumption DEF Cell

\* What an update splits its value into belongs to its project's cells.
LEMMA CellOfIsCell ==
    ASSUME NEW u \in Update, NEW d \in ValuesOf(u)
    PROVE  CellOf(u, d) \in Cell /\ CellOf(u, d)[1] = PeriodOf[u] /\ CellOf(u, d)[2] = d
BY DisaggregationAssumption DEF CellOf, Cell, ValuesOf

\* The rows of an update are of values of its project that exist.
LEMMA RowsAreLive ==
    ASSUME TypeOK, NEW u \in Update, NEW d \in RowsOf(u)
    PROVE  status[u] # "none" /\ d \in ValuesOf(u) /\ d \in live
BY DEF TypeOK, RowsOf

\* The requests that insert, change or delete one disaggregation.
RowStep(u, d) ==
    \/ \E a \in Amount : PostDisaggregation(u, d, a) \/ EditDisaggregation(u, d, a)
    \/ DeleteDisaggregation(u, d)

\* The requests for whole updates, the others, and what goes on within a request.
UpdateStep ==
    \/ \E u \in Update, s \in {"unapproved", "approved"}, v \in Value :
          \E sent \in Requests(u) :
              SaveUpdate(u, s, v, sent) \/ SaveOrphaned(u, s, v, sent)
    \/ \E us \in SUBSET Update : DeleteUpdates(us)
    \/ \E us \in SUBSET Update, s \in {"unapproved", "approved"} : SetUpdatesStatus(us, s)
OtherRequest ==
    \/ \E d \in DimensionValue : DeleteDimensionValue(d)
    \/ \E p \in Project, toChildren, toParent \in BOOLEAN :
          SaveProject(p, toChildren, toParent)
    \/ \E p \in Project : RemoveParent(p)
    \/ RecalculateAll
InnerStep ==
    \/ \E i \in todo : SaveDisaggregation(i) \/ FindTwo(i)
    \/ Climb
    \/ \E c \in loop : AggregateNext(c)
    \/ Mark
    \/ Abort

\* That is all there is.
LEMMA StepKinds ==
    ASSUME [Next]_vars
    PROVE  \/ UpdateStep
           \/ \E u \in Update, d \in DimensionValue : RowStep(u, d)
           \/ OtherRequest
           \/ InnerStep
           \/ UNCHANGED vars
BY DEF Next, RowStep, UpdateStep, OtherRequest, InnerStep

\* Those for one disaggregation change its amount, and leave flags to the handler
\* or unmarked.
LEMMA RowWritten ==
    ASSUME TypeOK, NEW u \in Update, NEW d \in DimensionValue, RowStep(u, d)
    PROVE  /\ \E m, n \in Nat \cup {None} :
                 /\ amount' = [amount EXCEPT ![u][d] = m]
                 /\ second' = [second EXCEPT ![u][d] = n]
                 /\ n # None => m # None /\ n <= m
           /\ d \in ValuesOf(u) \cap live /\ status[u] # "none"
           /\ Idle /\ climb' = CellOf(u, d)
           /\ UNCHANGED <<status, value, orphaned, links, flags, total, todo, saving, loop,
                          stale>>
           /\ unmarked \cup {u} \subseteq unmarked' \cup {marking'}
           /\ unmarked' \subseteq Update /\ marking' \in {u, None}
           /\ incomplete' \in [Update -> SUBSET DimensionValue]
           /\ \A x \in Update \ {u} : incomplete'[x] = incomplete[x]
           /\ atomic' \in BOOLEAN /\ interventions' \in 0 .. MaxInterventions
<1> USE DisaggregationAssumption
<1>1. /\ amount \in [Update -> [DimensionValue -> Nat \cup {None}]]
      /\ second \in [Update -> [DimensionValue -> Nat \cup {None}]]
      /\ second[u][d] # None => amount[u][d] # None /\ second[u][d] <= amount[u][d]
      /\ incomplete \in [Update -> SUBSET DimensionValue] /\ unmarked \subseteq Update
      /\ atomic \in BOOLEAN /\ interventions \in 0 .. MaxInterventions
  BY DEF TypeOK
<1>2. /\ amount[u][d] \in Nat \cup {None} /\ second[u][d] \in Nat \cup {None}
      /\ second = [second EXCEPT ![u][d] = second[u][d]]
  BY <1>1
<1>3. ASSUME NEW a \in Amount, PostDisaggregation(u, d, a)
      PROVE  \E m, n \in Nat \cup {None} :
                 /\ amount' = [amount EXCEPT ![u][d] = m]
                 /\ second' = [second EXCEPT ![u][d] = n]
                 /\ n # None => m # None /\ n <= m
  <2>1. a \in Nat /\ second[u][d] = None
    BY <1>3 DEF PostDisaggregation
  <2>2. CASE d \in RowsOf(u)
    <3>1. /\ amount[u][d] \in Nat /\ amount[u][d] + a \in Nat /\ a <= amount[u][d] + a
          /\ amount' = [amount EXCEPT ![u][d] = amount[u][d] + a]
          /\ second' = [second EXCEPT ![u][d] = a]
      BY <1>1, <1>2, <1>3, <2>1, <2>2 DEF PostDisaggregation, RowsOf
    <3>2. QED
      BY <2>1, <3>1
  <2>3. CASE d \notin RowsOf(u)
    <3>1. amount' = [amount EXCEPT ![u][d] = a] /\ second' = second
      BY <1>3, <2>3 DEF PostDisaggregation
    <3>2. QED
      BY <1>2, <2>1, <3>1
  <2>4. QED
    BY <2>2, <2>3
<1>4. ASSUME NEW a \in Amount, EditDisaggregation(u, d, a)
      PROVE  \E m, n \in Nat \cup {None} :
                 /\ amount' = [amount EXCEPT ![u][d] = m]
                 /\ second' = [second EXCEPT ![u][d] = n]
                 /\ n # None => m # None /\ n <= m
  <2>1. a \in Nat
    OBVIOUS
  <2>2. CASE second[u][d] = None
    <3>1. amount' = [amount EXCEPT ![u][d] = a] /\ second' = second
      BY <1>4, <2>2 DEF EditDisaggregation
    <3>2. QED
      BY <1>2, <2>1, <2>2, <3>1
  <2>3. CASE second[u][d] # None
    <3>1. second[u][d] \in Nat /\ amount[u][d] \in Nat /\ second[u][d] <= amount[u][d]
      BY <1>1, <1>2, <2>3
    <3>2. CASE amount' = [amount EXCEPT ![u][d] = a + second[u][d]] /\ second' = second
      <4>1. a + second[u][d] \in Nat /\ second[u][d] <= a + second[u][d]
        BY <2>1, <3>1
      <4>2. QED
        BY <1>2, <3>2, <4>1
    <3>3. CASE /\ amount' = [amount EXCEPT ![u][d] = amount[u][d] - second[u][d] + a]
               /\ second' = [second EXCEPT ![u][d] = a]
      <4>1. /\ amount[u][d] - second[u][d] + a \in Nat
            /\ a <= amount[u][d] - second[u][d] + a
        BY <2>1, <3>1
      <4>2. QED
        BY <2>1, <3>3, <4>1
    <3>4. QED
      BY <1>1, <1>4, <2>3, <3>2, <3>3 DEF EditDisaggregation
  <2>4. QED
    BY <2>2, <2>3
<1>5. CASE DeleteDisaggregation(u, d)
  <2>1. PICK m \in Nat \cup {None} : Remaining(u, d, m)
    <3>1. CASE second[u][d] = None
      BY <1>5, <3>1 DEF DeleteDisaggregation
    <3>2. CASE second[u][d] # None
      <4>1. second[u][d] \in Nat /\ amount[u][d] - second[u][d] \in Nat
        BY <1>1, <1>2, <3>2
      <4>2. QED
        BY <1>5, <3>2, <4>1 DEF DeleteDisaggregation
    <3>3. QED
      BY <3>1, <3>2
  <2>2. \E m1, n \in Nat \cup {None} :
            /\ amount' = [amount EXCEPT ![u][d] = m1]
            /\ second' = [second EXCEPT ![u][d] = n]
            /\ n # None => m1 # None /\ n <= m1
    BY <2>1 DEF Remaining
  <2>3. /\ incomplete' \in [Update -> SUBSET DimensionValue]
        /\ \A x \in Update \ {u} : incomplete'[x] = incomplete[x]
    BY <1>1, <1>5 DEF DeleteDisaggregation
  <2>4. d \in ValuesOf(u) \cap live /\ status[u] # "none"
    BY <1>5, RowsAreLive DEF DeleteDisaggregation
  <2>5. /\ Idle /\ climb' = CellOf(u, d) /\ marking' = None /\ atomic' = TRUE
        /\ UNCHANGED <<status, value, orphaned, links, flags, total, todo, saving, loop,
                       stale, interventions>>
        /\ unmarked' = unmarked \cup {u}
    BY <1>5 DEF DeleteDisaggregation, Idle
  <2>6. QED
    BY <1>1, <2>2, <2>3, <2>4, <2>5
<1>6. ASSUME NEW a \in Amount, PostDisaggregation(u, d, a) \/ EditDisaggregation(u, d, a)
      PROVE  /\ d \in ValuesOf(u) \cap live /\ status[u] # "none"
             /\ Idle /\ climb' = CellOf(u, d) /\ marking' = u
             /\ UNCHANGED <<status, value, orphaned, links, flags, total, todo, saving, loop,
                            stale, incomplete, unmarked>>
             /\ atomic' \in BOOLEAN /\ interventions' \in 0 .. MaxInterventions
  <2>1. CASE PostDisaggregation(u, d, a)
    <3>1. interventions' \in 0 .. MaxInterventions
      BY <1>1, <2>1 DEF PostDisaggregation, Intervene
    <3>2. QED
      BY <2>1, <3>1 DEF PostDisaggregation
  <2>2. CASE EditDisaggregation(u, d, a)
    <3>1. d \in ValuesOf(u) \cap live /\ status[u] # "none"
      BY <2>2, RowsAreLive DEF EditDisaggregation
    <3>2. QED
      BY <1>1, <2>2, <3>1 DEF EditDisaggregation
  <2>3. QED
    BY <1>6, <2>1, <2>2
<1>7. ASSUME NEW a \in Amount, PostDisaggregation(u, d, a) \/ EditDisaggregation(u, d, a)
      PROVE  /\ \E m, n \in Nat \cup {None} :
                   /\ amount' = [amount EXCEPT ![u][d] = m]
                   /\ second' = [second EXCEPT ![u][d] = n]
                   /\ n # None => m # None /\ n <= m
             /\ d \in ValuesOf(u) \cap live /\ status[u] # "none"
             /\ Idle /\ climb' = CellOf(u, d) /\ marking' = u
             /\ UNCHANGED <<status, value, orphaned, links, flags, total, todo, saving, loop,
                            stale, incomplete, unmarked>>
             /\ atomic' \in BOOLEAN /\ interventions' \in 0 .. MaxInterventions
  BY <1>3, <1>4, <1>6, <1>7
<1>8. CASE \E a \in Amount : PostDisaggregation(u, d, a) \/ EditDisaggregation(u, d, a)
  BY <1>1, <1>7, <1>8
<1>9. QED
  BY <1>5, <1>8 DEF RowStep

\* Both links of a cell lead to the same project: a cell of a value that exists.
LEMMA ParentCellIsCell ==
    ASSUME TypeOK, LinksKept, NEW c \in Cell, c[2] \in live, ParentCell(c) # None
    PROVE  /\ ParentCell(c) = <<parentPeriod[c[1]], parentValue[c[2]]>>
           /\ ParentCell(c) \in Cell /\ ParentCell(c)[2] \in live
           /\ parentPeriod[c[1]] = LinkedPeriod[c[1]] /\ LinkedPeriod[c[1]] \in Period
<1> USE DisaggregationAssumption
<1>1. parentPeriod[c[1]] # None /\ parentValue[c[2]] # None
  BY DEF ParentCell
<1>2. ParentCell(c) = <<parentPeriod[c[1]], parentValue[c[2]]>>
  BY <1>1 DEF ParentCell
<1>3. c[1] \in Period /\ c[2] \in DimensionValue /\ ProjectOf[c[1]] = DimensionOf[c[2]]
  BY CellIsPair
<1>4. parentPeriod[c[1]] = LinkedPeriod[c[1]] /\ parentValue[c[2]] = LinkedValue[c[2]]
  BY <1>1, <1>3 DEF LinksKept
<1>5. parentPeriod[c[1]] \in Period /\ parentValue[c[2]] \in live /\ live \subseteq DimensionValue
  BY <1>1, <1>3 DEF TypeOK
<1>6. ProjectOf[parentPeriod[c[1]]] = DimensionOf[parentValue[c[2]]]
  BY <1>1, <1>3, <1>4
<1>7. QED
  BY <1>2, <1>4, <1>5, <1>6 DEF Cell

(* Links and what a request has prepared -----------------------------------*)

\* No step makes a link: deleting a value and removing a parent clear some.
LEMMA LinksStep ==
    ASSUME TypeOK, LinksKept, [Next]_vars
    PROVE  LinksKept'
<1>1. CASE UNCHANGED links
  BY <1>1 DEF LinksKept, links
<1>2. ASSUME NEW d \in DimensionValue, DeleteDimensionValue(d)
      PROVE  LinksKept'
  BY <1>2 DEF LinksKept, DeleteDimensionValue
<1>3. ASSUME NEW p \in Project, RemoveParent(p)
      PROVE  LinksKept'
  BY <1>3 DEF LinksKept, RemoveParent
<1>4. CASE RecalculateAll
  BY <1>1, <1>4 DEF RecalculateAll
<1>5. CASE Climb
  BY <1>1, <1>5 DEF Climb
<1>6. CASE Mark
  BY <1>1, <1>6 DEF Mark
<1>7. CASE Abort
  BY <1>1, <1>7 DEF Abort
<1>8. QED
  BY <1>1, <1>2, <1>3, <1>4, <1>5, <1>6, <1>7
     DEF Next, SaveUpdate, SaveOrphaned, SaveDisaggregation, FindTwo, PostDisaggregation,
         EditDisaggregation, DeleteDisaggregation, DeleteUpdates, SetUpdatesStatus,
         SaveProject, AggregateNext, vars

\* The parent a climb goes on to has a value that exists.
LEMMA NextClimbIsLive ==
    ASSUME TypeOK, LinksKept, NEW c \in Cell, c[2] \in live, Aggregate(c), climb' # None
    PROVE  climb' = ParentCell(c) /\ climb' \in Cell /\ climb'[2] \in live
<1>1. climb' = ParentCell(c) /\ ParentCell(c) # None
  BY DEF Aggregate, GoesUp
<1>2. QED
  BY <1>1, ParentCellIsCell

\* What is left of a request stays about rows that exist.
LEMMA PreparedStep ==
    ASSUME TypeOK, Prepared, LinksKept, [Next]_vars
    PROVE  Prepared'
<1> USE DisaggregationAssumption
<1>1. ASSUME NEW u \in Update, NEW s \in {"unapproved", "approved"}, NEW v \in Value,
             NEW sent \in Requests(u), SaveUpdate(u, s, v, sent)
      PROVE  Prepared'
  <2>1. \A i \in sent : i.dimension \in ValuesOf(u) \cap live
    <3>1. PICK f \in UNION {[D -> Amount] : D \in SUBSET (ValuesOf(u) \cap live)} :
               sent = {[dimension |-> d, amount |-> f[d],
                        create |-> status[u] # "none" /\ amount[u][d] = None] : d \in DOMAIN f}
      BY DEF Requests
    <3>2. PICK D \in SUBSET (ValuesOf(u) \cap live) : f \in [D -> Amount]
      BY <3>1
    <3>3. QED
      BY <3>1, <3>2
  <2>2. status'[u] = s /\ s # "none"
    BY <1>1 DEF SaveUpdate, TypeOK
  <2>3. saving' = IF sent = {} THEN None ELSE u
    BY <1>1 DEF SaveUpdate
  <2>4. todo' = sent /\ loop' = {} /\ climb' = None /\ live' = live
    BY <1>1 DEF SaveUpdate, links, Idle
  <2>5. ValuesOf(u)' = ValuesOf(u)
    BY DEF ValuesOf
  <2>6. QED
    BY <2>1, <2>2, <2>3, <2>4, <2>5 DEF Prepared
<1>2. ASSUME NEW u \in Update, NEW s \in {"unapproved", "approved"}, NEW v \in Value,
             NEW sent \in Requests(u), SaveOrphaned(u, s, v, sent)
      PROVE  Prepared'
  BY <1>2 DEF Prepared, SaveOrphaned, request, links, Idle
<1>3. ASSUME NEW i \in todo, SaveDisaggregation(i)
      PROVE  Prepared'
  <2>1. /\ saving \in Update /\ status[saving] # "none"
        /\ i.dimension \in ValuesOf(saving) \cap live
    BY DEF Prepared
  <2>2. climb' = CellOf(saving, i.dimension) /\ climb'[2] \in live
    BY <1>3, <2>1, CellOfIsCell DEF SaveDisaggregation
  <2>3. live' = live /\ loop' = loop /\ status' = status
    BY <1>3 DEF SaveDisaggregation, links
  <2>4. \A j \in todo' : j.dimension \in ValuesOf(saving) \cap live
    <3>1. \A j \in todo' : j \in todo \/ j = [i EXCEPT !.create = FALSE]
      BY <1>3 DEF SaveDisaggregation
    <3>2. [i EXCEPT !.create = FALSE].dimension = i.dimension
      BY DEF TypeOK, Item
    <3>3. QED
      BY <2>1, <3>1, <3>2 DEF Prepared
  <2>5. todo' # {} => saving' = saving
    BY <1>3 DEF SaveDisaggregation
  <2>6. QED
    BY <2>1, <2>2, <2>3, <2>4, <2>5 DEF Prepared, ValuesOf
<1>4. ASSUME NEW u \in Update, NEW d \in DimensionValue, RowStep(u, d)
      PROVE  Prepared'
  <2>1. /\ climb' = CellOf(u, d) /\ d \in ValuesOf(u) \cap live /\ Idle
        /\ UNCHANGED <<links, todo, loop>>
    BY <1>4, RowWritten
  <2>2. climb'[2] \in live
    BY <2>1, CellOfIsCell
  <2>3. QED
    BY <2>1, <2>2 DEF Prepared, Idle, links
<1>5. ASSUME NEW i \in todo, FindTwo(i)
      PROVE  Prepared'
  BY <1>5 DEF Prepared, FindTwo, links
<1>6. ASSUME NEW us \in SUBSET Update, DeleteUpdates(us)
      PROVE  Prepared'
  <2>1. \A c \in loop' : c[2] \in live
    <3>1. ASSUME NEW u \in Update, NEW d \in RowsOf(u)
          PROVE  CellOf(u, d)[2] \in live
      BY RowsAreLive, CellOfIsCell
    <3>2. QED
      BY <1>6, <3>1 DEF DeleteUpdates, CellsOf
  <2>2. QED
    BY <1>6, <2>1 DEF Prepared, DeleteUpdates, Idle, links
<1>7. ASSUME NEW us \in SUBSET Update, NEW s \in {"unapproved", "approved"},
             SetUpdatesStatus(us, s)
      PROVE  Prepared'
  BY <1>7 DEF Prepared, SetUpdatesStatus, Idle, request, links
<1>8. ASSUME NEW d \in DimensionValue, DeleteDimensionValue(d)
      PROVE  Prepared'
  BY <1>8 DEF Prepared, DeleteDimensionValue, Idle, request
<1>9. ASSUME NEW p \in Project, NEW toChildren \in BOOLEAN, NEW toParent \in BOOLEAN,
             SaveProject(p, toChildren, toParent)
      PROVE  Prepared'
  BY <1>9 DEF Prepared, SaveProject, Idle, request, links
<1>10. ASSUME NEW p \in Project, RemoveParent(p)
       PROVE  Prepared'
  BY <1>10 DEF Prepared, RemoveParent, Idle, request
<1>11. CASE RecalculateAll
  <2>1. \A c \in loop' : c[2] \in live
    <3>1. ASSUME NEW u \in Update, NEW d \in RowsOf(u)
          PROVE  CellOf(u, d)[2] \in live
      BY RowsAreLive, CellOfIsCell
    <3>2. loop' \subseteq UNION {CellsOf(u) : u \in Update}
      BY <1>11 DEF RecalculateAll
    <3>3. QED
      BY <3>1, <3>2 DEF CellsOf
  <2>2. QED
    BY <1>11, <2>1 DEF Prepared, RecalculateAll, Idle, links
<1>12. CASE Climb
  <2>1. climb \in Cell /\ climb[2] \in live
    BY <1>12 DEF Climb, TypeOK, Prepared
  <2>2. climb' # None => climb'[2] \in live
    BY <1>12, <2>1, NextClimbIsLive DEF Climb
  <2>3. QED
    BY <1>12, <2>2 DEF Prepared, Climb, rows, links, ValuesOf
<1>13. ASSUME NEW c \in loop, AggregateNext(c)
       PROVE  Prepared'
  <2>1. c \in Cell /\ c[2] \in live
    BY DEF TypeOK, Prepared
  <2>2. climb' # None => climb'[2] \in live
    BY <1>13, <2>1, NextClimbIsLive DEF AggregateNext
  <2>3. QED
    BY <1>13, <2>2 DEF Prepared, AggregateNext, rows, links, ValuesOf
<1>14. CASE Mark
  BY <1>14 DEF Prepared, Mark, links, ValuesOf
<1>15. CASE Abort
  BY <1>15 DEF Prepared, Abort, links, rows
<1>16. CASE UNCHANGED vars
  BY <1>16 DEF Prepared, vars, rows, links, request, ValuesOf
<1>17. QED
  <2>1. CASE UpdateStep
    BY <2>1, <1>1, <1>2, <1>6, <1>7 DEF UpdateStep
  <2>2. CASE OtherRequest
    BY <2>2, <1>8, <1>9, <1>10, <1>11 DEF OtherRequest
  <2>3. CASE InnerStep
    BY <2>3, <1>3, <1>5, <1>12, <1>13, <1>14, <1>15 DEF InnerStep
  <2>4. QED
    BY <2>1, <2>2, <2>3, <1>4, <1>16, StepKinds

(* Type correctness --------------------------------------------------------*)

\* Setting flags keeps the types.
LEMMA FlagsType ==
    ASSUME NEW us, SetFlags(us), incomplete \in [Update -> SUBSET DimensionValue],
           unmarked \subseteq Update
    PROVE  incomplete' \in [Update -> SUBSET DimensionValue] /\ unmarked' \subseteq Update
<1>1. \A v, amounts : Flagged(v, amounts) \subseteq DimensionValue
  BY DEF Flagged
<1>2. QED
  BY <1>1 DEF SetFlags

\* What a new status leaves out is cells of the update.
LEMMA UnannouncedType ==
    ASSUME TypeOK, NEW u \in Update, NEW s, NEW sent
    PROVE  Unannounced(u, s, sent) \subseteq Cell
BY RowsAreLive, CellOfIsCell DEF Unannounced

\* So are the cells of its rows.
LEMMA CellsOfType ==
    ASSUME TypeOK, NEW u \in Update
    PROVE  CellsOf(u) \subseteq Cell
BY RowsAreLive, CellOfIsCell DEF CellsOf

\* The cells that are part of another are cells, and the others are too.
LEMMA LinkedType ==
    ASSUME TypeOK, LinksKept, NEW k \in Linked
    PROVE  k \in Cell /\ ParentCell(k) \in Cell
<1>1. k \in Cell /\ k[2] \in live /\ ParentCell(k) # None
  BY DEF Linked
<1>2. QED
  BY <1>1, ParentCellIsCell

\* One cell's total is a natural again, and the climb and the history are cells.
LEMMA AggregateType ==
    ASSUME TypeOK, LinksKept, NEW c \in Cell, c[2] \in live, Aggregate(c)
    PROVE  /\ total' \in [Cell -> Nat]
           /\ climb' \in Cell \cup {None}
           /\ stale' \subseteq Cell
<1>1. LocalValue(c) + ContributedValue(c) \in Nat
  BY SumsType
<1>2. total' \in [Cell -> Nat]
  BY <1>1 DEF Aggregate, TypeOK
<1>3. ParentCell(c) # None => ParentCell(c) \in Cell
  BY ParentCellIsCell
<1>4. climb' \in Cell \cup {None}
  BY <1>3 DEF Aggregate, GoesUp
<1>5. stale' \subseteq Cell
  BY <1>3 DEF Aggregate, TypeOK
<1>6. QED
  BY <1>2, <1>4, <1>5

\* What a request sends is an amount for each of some values.
LEMMA RequestsType ==
    ASSUME NEW u \in Update, NEW sent \in Requests(u)
    PROVE  sent \subseteq Item
<1>1. PICK f \in UNION {[D -> Amount] : D \in SUBSET (ValuesOf(u) \cap live)} :
           sent = {[dimension |-> d, amount |-> f[d],
                    create |-> status[u] # "none" /\ amount[u][d] = None] : d \in DOMAIN f}
  BY DEF Requests
<1>2. PICK D \in SUBSET (ValuesOf(u) \cap live) : f \in [D -> Amount]
  BY <1>1
<1>3. \A d \in D : d \in DimensionValue /\ f[d] \in Amount
  BY <1>2 DEF ValuesOf
<1>4. \A d \in D : [dimension |-> d, amount |-> f[d],
                     create |-> status[u] # "none" /\ amount[u][d] = None] \in Item
  BY <1>3 DEF Item
<1>5. DOMAIN f = D
  BY <1>2
<1>6. QED
  BY <1>1, <1>4, <1>5

\* Every step keeps the types, and links are only ever cleared.
LEMMA TypeStep ==
    ASSUME TypeOK, Prepared, LinksKept, [Next]_vars
    PROVE  TypeOK'
<1> USE DisaggregationAssumption
<1>1. ASSUME NEW u \in Update, NEW s \in {"unapproved", "approved"}, NEW v \in Value,
             NEW sent \in Requests(u), SaveUpdate(u, s, v, sent)
      PROVE  TypeOK'
  <2>1. PICK others \in SUBSET (Others(u, s) \ orphaned) : SetFlags({u} \cup others)
    BY <1>1 DEF SaveUpdate
  <2>2. incomplete' \in [Update -> SUBSET DimensionValue] /\ unmarked' \subseteq Update
    BY <2>1, FlagsType DEF TypeOK
  <2>3. sent \subseteq Item
    BY RequestsType
  <2>4. stale' \subseteq Cell
    BY <1>1, UnannouncedType DEF SaveUpdate, TypeOK
  <2>5. v \in Nat
    OBVIOUS
  <2>6. /\ status' \in [Update -> {"none", "unapproved", "approved"}]
        /\ value' \in [Update -> Nat]
        /\ \A x \in Update : status[x] # "none" => status'[x] # "none"
    BY <1>1, <2>5 DEF SaveUpdate, TypeOK
  <2>7. UNCHANGED <<amount, second, orphaned, links, flags, total, loop, climb, marking,
                    interventions>>
    BY <1>1 DEF SaveUpdate
  <2>8. todo' = sent /\ saving' \in Update \cup {None} /\ atomic' \in BOOLEAN
    BY <1>1 DEF SaveUpdate
  <2>9. QED
    BY <2>2, <2>3, <2>4, <2>6, <2>7, <2>8 DEF TypeOK, links, flags, ValuesOf
<1>2. ASSUME NEW u \in Update, NEW s \in {"unapproved", "approved"}, NEW v \in Value,
             NEW sent \in Requests(u), SaveOrphaned(u, s, v, sent)
      PROVE  TypeOK'
  <2>1. incomplete' \in [Update -> SUBSET DimensionValue] /\ unmarked' \subseteq Update
    <3>1. PICK others \in SUBSET (Others(u, s) \ orphaned) :
               IF u \in orphaned
                 THEN /\ \/ UNCHANGED incomplete
                         \/ incomplete' = [incomplete EXCEPT ![u] = Flagged(v, amount[u])]
                      /\ unmarked' = unmarked \cup {u}
                 ELSE SetFlags({u} \cup others)
      BY <1>2 DEF SaveOrphaned
    <3>2. Flagged(v, amount[u]) \subseteq DimensionValue
      BY DEF Flagged
    <3>3. CASE u \in orphaned
      <4>1. incomplete \in [Update -> SUBSET DimensionValue] /\ unmarked \subseteq Update
        BY DEF TypeOK
      <4>2. [incomplete EXCEPT ![u] = Flagged(v, amount[u])]
                \in [Update -> SUBSET DimensionValue]
        BY <3>2, <4>1
      <4>3. QED
        BY <3>1, <3>3, <4>1, <4>2
    <3>4. CASE u \notin orphaned
      BY <3>1, <3>4, FlagsType DEF TypeOK
    <3>5. QED
      BY <3>3, <3>4
  <2>2. stale' \subseteq Cell
    BY <1>2, UnannouncedType DEF SaveOrphaned, TypeOK
  <2>3. v \in Nat
    OBVIOUS
  <2>4. /\ status' \in [Update -> {"none", "unapproved", "approved"}]
        /\ value' \in [Update -> Nat]
        /\ \A x \in Update : status[x] # "none" => status'[x] # "none"
    BY <1>2, <2>3 DEF SaveOrphaned, TypeOK
  <2>5. UNCHANGED <<amount, second, orphaned, links, flags, total, request, interventions>>
    BY <1>2 DEF SaveOrphaned
  <2>6. QED
    BY <2>1, <2>2, <2>4, <2>5 DEF TypeOK, links, flags, request, ValuesOf
<1>3. ASSUME NEW i \in todo, SaveDisaggregation(i)
      PROVE  TypeOK'
  <2>1. /\ saving \in Update /\ status[saving] # "none"
        /\ i.dimension \in ValuesOf(saving) \cap live
    BY DEF Prepared
  <2>2. i \in Item /\ i.amount \in Nat /\ i.dimension \in DimensionValue
    BY DEF TypeOK, Item
  <2>3. climb' \in Cell /\ marking' \in Update
    BY <1>3, <2>1, CellOfIsCell DEF SaveDisaggregation
  <2>4. todo' \subseteq Item /\ saving' \in Update \cup {None}
    <3>1. [i EXCEPT !.create = FALSE] \in Item
      BY <2>2 DEF Item
    <3>2. QED
      BY <1>3, <2>1, <3>1 DEF SaveDisaggregation, TypeOK
  <2> DEFINE a == IF i.create THEN 0 ELSE i.amount
  <2>5. a \in Nat
    BY <2>2
  <2>6. amount' = [amount EXCEPT ![saving][i.dimension] = a]
    BY <1>3 DEF SaveDisaggregation
  <2> HIDE DEF a
  <2>7. amount' \in [Update -> [DimensionValue -> Nat \cup {None}]]
    BY <2>1, <2>2, <2>5, <2>6 DEF TypeOK
  <2>8. ASSUME NEW u \in Update, NEW d \in DimensionValue, amount'[u][d] # None
        PROVE  status[u] # "none" /\ d \in ValuesOf(u) \cap live
    <3>1. CASE u = saving /\ d = i.dimension
      BY <2>1, <3>1
    <3>2. CASE ~(u = saving /\ d = i.dimension)
      <4>1. amount'[u][d] = amount[u][d]
        BY <2>1, <2>2, <2>6, <3>2 DEF TypeOK
      <4>2. QED
        BY <2>8, <4>1 DEF TypeOK
    <3>3. QED
      BY <3>1, <3>2
  <2>9. UNCHANGED <<status, value, second, incomplete, orphaned, links, flags, total,
                    loop, atomic, stale, unmarked, interventions>>
    BY <1>3 DEF SaveDisaggregation
  <2>10. ASSUME NEW u \in Update, NEW d \in DimensionValue, second[u][d] # None
         PROVE  amount'[u][d] = amount[u][d]
    <3>1. ~(u = saving /\ d = i.dimension)
      BY <1>3, <2>10 DEF SaveDisaggregation
    <3>2. QED
      BY <2>1, <2>2, <2>6, <3>1 DEF TypeOK
  <2>11. QED
    BY <2>3, <2>4, <2>7, <2>8, <2>9, <2>10 DEF TypeOK, links, flags, ValuesOf
<1>4. ASSUME NEW u \in Update, NEW d \in DimensionValue, RowStep(u, d)
      PROVE  TypeOK'
  <2>1. PICK m \in Nat \cup {None}, n \in Nat \cup {None} :
            /\ amount' = [amount EXCEPT ![u][d] = m]
            /\ second' = [second EXCEPT ![u][d] = n]
            /\ n # None => m # None /\ n <= m
    BY <1>4, RowWritten
  <2>2. d \in ValuesOf(u) \cap live /\ status[u] # "none" /\ climb' = CellOf(u, d)
    BY <1>4, RowWritten
  <2>3. climb' \in Cell
    BY <2>2, CellOfIsCell
  <2>4. /\ amount' \in [Update -> [DimensionValue -> Nat \cup {None}]]
        /\ second' \in [Update -> [DimensionValue -> Nat \cup {None}]]
    BY <2>1 DEF TypeOK
  <2>5. \A x \in Update, y \in DimensionValue :
            IF x = u /\ y = d THEN amount'[x][y] = m /\ second'[x][y] = n
            ELSE amount'[x][y] = amount[x][y] /\ second'[x][y] = second[x][y]
    BY <2>1 DEF TypeOK
  <2>6. ASSUME NEW x \in Update, NEW y \in DimensionValue
        PROVE  /\ amount'[x][y] # None => status[x] # "none" /\ y \in ValuesOf(x) \cap live
               /\ second'[x][y] # None =>
                     amount'[x][y] # None /\ second'[x][y] <= amount'[x][y]
    <3>1. CASE x = u /\ y = d
      BY <2>1, <2>2, <2>5, <3>1
    <3>2. CASE ~(x = u /\ y = d)
      BY <2>5, <3>2 DEF TypeOK
    <3>3. QED
      BY <3>1, <3>2
  <2>7. /\ UNCHANGED <<status, value, orphaned, links, flags, total, todo, saving, loop, stale>>
        /\ unmarked' \subseteq Update /\ marking' \in Update \cup {None}
        /\ incomplete' \in [Update -> SUBSET DimensionValue]
        /\ atomic' \in BOOLEAN /\ interventions' \in 0 .. MaxInterventions
    BY <1>4, RowWritten
  <2>8. QED
    BY <2>3, <2>4, <2>6, <2>7 DEF TypeOK, links, flags, ValuesOf
<1>5. ASSUME NEW i \in todo, FindTwo(i)
      PROVE  TypeOK'
  <2>1. \A j \in todo : CellOf(saving, j.dimension) \in Cell
    BY CellOfIsCell DEF Prepared
  <2>2. stale' \subseteq Cell
    BY <1>5, <2>1 DEF FindTwo, Pending, TypeOK
  <2>3. todo' = {} /\ saving' = None
        /\ UNCHANGED <<rows, links, flags, total, loop, climb, marking, atomic, unmarked,
                       interventions>>
    BY <1>5 DEF FindTwo
  <2>4. QED
    BY <2>2, <2>3 DEF TypeOK, rows, links, flags, ValuesOf
<1>6. ASSUME NEW us \in SUBSET Update, DeleteUpdates(us)
      PROVE  TypeOK'
  <2>1. incomplete' \in [Update -> SUBSET DimensionValue] /\ unmarked' \subseteq Update
    <3>1. \E all : SetFlags(all)
      BY <1>6 DEF DeleteUpdates
    <3>2. QED
      BY <3>1, FlagsType DEF TypeOK
  <2>2. loop' \subseteq Cell
    BY <1>6, CellsOfType DEF DeleteUpdates
  <2>3. /\ status' \in [Update -> {"none", "unapproved", "approved"}]
        /\ value' \in [Update -> Nat]
    BY <1>6 DEF DeleteUpdates, TypeOK
  <2>4. amount' \in [Update -> [DimensionValue -> Nat \cup {None}]]
    BY <1>6 DEF DeleteUpdates, TypeOK
  <2>5. ASSUME NEW x \in Update, NEW y \in DimensionValue, amount'[x][y] # None
        PROVE  status'[x] # "none" /\ y \in ValuesOf(x) \cap live
    <3>1. x \notin us /\ amount'[x] = amount[x] /\ status'[x] = status[x]
      BY <1>6, <2>5 DEF DeleteUpdates
    <3>2. QED
      BY <2>5, <3>1 DEF TypeOK
  <2>9. second' \in [Update -> [DimensionValue -> Nat \cup {None}]]
    BY <1>6 DEF DeleteUpdates, TypeOK
  <2>10. ASSUME NEW x \in Update, NEW y \in DimensionValue, second'[x][y] # None
         PROVE  amount'[x][y] # None /\ second'[x][y] <= amount'[x][y]
    <3>1. x \notin us /\ amount'[x] = amount[x] /\ second'[x] = second[x]
      BY <1>6, <2>10 DEF DeleteUpdates
    <3>2. QED
      BY <2>10, <3>1 DEF TypeOK
  <2>6. \A x \in orphaned : status'[x] # "none"
    BY <1>6 DEF DeleteUpdates, TypeOK
  <2>7. UNCHANGED <<orphaned, links, flags, total, todo, saving, climb, marking,
                    stale, interventions>> /\ atomic' \in BOOLEAN
    BY <1>6 DEF DeleteUpdates
  <2>11. QED
    BY <2>1, <2>2, <2>3, <2>4, <2>5, <2>6, <2>7, <2>9, <2>10 DEF TypeOK, links, flags, ValuesOf
<1>7. ASSUME NEW us \in SUBSET Update, NEW s \in {"unapproved", "approved"},
             SetUpdatesStatus(us, s)
      PROVE  TypeOK'
  <2>1. stale' \subseteq Cell
    BY <1>7, UnannouncedType DEF SetUpdatesStatus, TypeOK
  <2>2. /\ status' \in [Update -> {"none", "unapproved", "approved"}]
        /\ \A x \in Update : status[x] # "none" => status'[x] # "none"
    BY <1>7 DEF SetUpdatesStatus, TypeOK
  <2>3. interventions' \in 0 .. MaxInterventions
    BY <1>7 DEF SetUpdatesStatus, Intervene, TypeOK
  <2>4. UNCHANGED <<value, amount, second, incomplete, orphaned, links, flags, total,
                    request, unmarked>>
    BY <1>7 DEF SetUpdatesStatus
  <2>5. QED
    BY <2>1, <2>2, <2>3, <2>4 DEF TypeOK, links, flags, request, ValuesOf
<1>8. ASSUME NEW d \in DimensionValue, DeleteDimensionValue(d)
      PROVE  TypeOK'
  <2>1. live' \subseteq DimensionValue /\ parentValue' \in [live' -> live' \cup {None}]
    BY <1>8 DEF DeleteDimensionValue, TypeOK
  <2>2. amount' \in [Update -> [DimensionValue -> Nat \cup {None}]]
    BY <1>8 DEF DeleteDimensionValue, TypeOK
  <2>3. /\ incomplete' \in [Update -> SUBSET DimensionValue]
        /\ unmarked' \subseteq Update /\ orphaned' \subseteq Update
    BY <1>8 DEF DeleteDimensionValue, TypeOK
  <2>4. total' \in [Cell -> Nat] /\ stale' \subseteq Cell
    BY <1>8 DEF DeleteDimensionValue, TypeOK
  <2>5. interventions' \in 0 .. MaxInterventions
    BY <1>8 DEF DeleteDimensionValue, Intervene, TypeOK
  <2>6. ASSUME NEW x \in Update, NEW y \in DimensionValue, amount'[x][y] # None
        PROVE  status[x] # "none" /\ y \in ValuesOf(x) \cap live'
    <3>1. y # d /\ amount'[x][y] = amount[x][y]
      BY <1>8, <2>6 DEF DeleteDimensionValue, TypeOK
    <3>2. QED
      BY <1>8, <2>6, <3>1 DEF DeleteDimensionValue, TypeOK
  <2>7. \A x \in orphaned' : status[x] # "none"
    BY <1>8, RowsAreLive DEF DeleteDimensionValue, TypeOK
  <2>8. UNCHANGED <<status, value, parentPeriod, flags, request>>
    BY <1>8 DEF DeleteDimensionValue
  <2>9. second' \in [Update -> [DimensionValue -> Nat \cup {None}]]
    BY <1>8 DEF DeleteDimensionValue, TypeOK
  <2>10. ASSUME NEW x \in Update, NEW y \in DimensionValue, second'[x][y] # None
         PROVE  amount'[x][y] # None /\ second'[x][y] <= amount'[x][y]
    <3>1. y # d /\ amount'[x][y] = amount[x][y] /\ second'[x][y] = second[x][y]
      BY <1>8, <2>10 DEF DeleteDimensionValue, TypeOK
    <3>2. QED
      BY <2>10, <3>1 DEF TypeOK
  <2>11. QED
    BY <2>1, <2>2, <2>3, <2>4, <2>5, <2>6, <2>7, <2>8, <2>9, <2>10 DEF TypeOK, flags, request, ValuesOf
<1>9. ASSUME NEW p \in Project, NEW toChildren \in BOOLEAN, NEW toParent \in BOOLEAN,
             SaveProject(p, toChildren, toParent)
      PROVE  TypeOK'
  <2>1. incomplete' \in [Update -> SUBSET DimensionValue] /\ unmarked' \subseteq Update
    <3>1. \E all : SetFlags(all)
      BY <1>9 DEF SaveProject
    <3>2. QED
      BY <3>1, FlagsType DEF TypeOK
  <2>2. stale' \subseteq Cell
    BY <1>9, LinkedType DEF SaveProject, TypeOK
  <2>3. interventions' \in 0 .. MaxInterventions
    BY <1>9 DEF SaveProject, Intervene, TypeOK
  <2>4. aggregateChildren' \in [Project -> BOOLEAN] /\ aggregateToParent' \in [Project -> BOOLEAN]
    BY <1>9 DEF SaveProject, TypeOK
  <2>5. UNCHANGED <<status, value, amount, second, orphaned, links, total, request>>
    BY <1>9 DEF SaveProject
  <2>6. QED
    BY <2>1, <2>2, <2>3, <2>4, <2>5 DEF TypeOK, links, request, ValuesOf
<1>10. ASSUME NEW p \in Project, RemoveParent(p)
       PROVE  TypeOK'
  <2>1. parentPeriod' \in [Period -> Period \cup {None}] /\ parentValue' \in [live -> live \cup {None}]
    BY <1>10 DEF RemoveParent, TypeOK
  <2>2. stale' \subseteq Cell
    BY <1>10, LinkedType DEF RemoveParent, TypeOK
  <2>3. interventions' \in 0 .. MaxInterventions
    BY <1>10 DEF RemoveParent, Intervene, TypeOK
  <2>4. UNCHANGED <<rows, live, flags, total, request, unmarked>>
    BY <1>10 DEF RemoveParent
  <2>5. QED
    BY <2>1, <2>2, <2>3, <2>4 DEF TypeOK, rows, flags, request, ValuesOf
<1>11. CASE RecalculateAll
  <2>1. loop' \subseteq Cell /\ stale' \subseteq Cell /\ total' \in [Cell -> Nat]
    BY <1>11, CellsOfType DEF RecalculateAll, TypeOK
  <2>2. interventions' \in 0 .. MaxInterventions
    BY <1>11 DEF RecalculateAll, Intervene, TypeOK
  <2>3. UNCHANGED <<rows, links, flags, todo, saving, climb, marking, atomic, unmarked>>
    BY <1>11 DEF RecalculateAll
  <2>4. QED
    BY <2>1, <2>2, <2>3 DEF TypeOK, rows, links, flags, ValuesOf
<1>12. CASE Climb
  <2>1. climb \in Cell /\ climb[2] \in live
    BY <1>12 DEF Climb, TypeOK, Prepared
  <2>2. total' \in [Cell -> Nat] /\ climb' \in Cell \cup {None} /\ stale' \subseteq Cell
    BY <1>12, <2>1, AggregateType DEF Climb
  <2>3. UNCHANGED <<rows, links, flags, todo, saving, loop, marking, unmarked, interventions>>
    BY <1>12 DEF Climb
  <2>4. atomic' \in BOOLEAN
    BY <1>12 DEF Climb, StillAtomic
  <2>5. QED
    BY <2>2, <2>3, <2>4 DEF TypeOK, rows, links, flags, ValuesOf
<1>13. ASSUME NEW c \in loop, AggregateNext(c)
       PROVE  TypeOK'
  <2>1. c \in Cell /\ c[2] \in live
    BY DEF TypeOK, Prepared
  <2>2. total' \in [Cell -> Nat] /\ climb' \in Cell \cup {None} /\ stale' \subseteq Cell
    BY <1>13, <2>1, AggregateType DEF AggregateNext
  <2>3. UNCHANGED <<rows, links, flags, todo, saving, marking, unmarked, interventions>>
    BY <1>13 DEF AggregateNext
  <2>4. atomic' \in BOOLEAN /\ loop' \subseteq Cell
    BY <1>13 DEF AggregateNext, StillAtomic, TypeOK
  <2>5. QED
    BY <2>2, <2>3, <2>4 DEF TypeOK, rows, links, flags, ValuesOf
<1>14. CASE Mark
  <2>1. Flagged(value[marking], amount[marking]) \subseteq DimensionValue
    BY DEF Flagged
  <2>2. incomplete' \in [Update -> SUBSET DimensionValue] /\ unmarked' \subseteq Update /\ marking' = None
    BY <1>14, <2>1 DEF Mark, TypeOK
  <2>3. /\ UNCHANGED <<status, value, amount, second, orphaned, links, flags, total, todo,
                       saving, loop, climb, stale, interventions>>
        /\ atomic' \in BOOLEAN
    BY <1>14 DEF Mark, StillAtomic
  <2>4. QED
    BY <2>2, <2>3 DEF TypeOK, links, flags, ValuesOf
<1>15. CASE Abort
  <2>1. \A i \in todo : CellOf(saving, i.dimension) \in Cell
    BY CellOfIsCell DEF Prepared
  <2>2. stale' \subseteq Cell
    BY <1>15, <2>1 DEF Abort, Pending, TypeOK
  <2>3. unmarked' \subseteq Update
    BY <1>15 DEF Abort, TypeOK
  <2>4. interventions' \in 0 .. MaxInterventions
    BY <1>15 DEF Abort, Intervene, TypeOK
  <2>5. UNCHANGED <<rows, links, flags, total, saving, atomic>>
    BY <1>15 DEF Abort
  <2>6. todo' = {} /\ loop' = {} /\ climb' = None /\ marking' = None
    BY <1>15 DEF Abort
  <2>7. QED
    BY <2>2, <2>3, <2>4, <2>5, <2>6 DEF TypeOK, rows, links, flags, ValuesOf
<1>16. CASE UNCHANGED vars
  BY <1>16 DEF TypeOK, vars, rows, links, flags, request, ValuesOf
<1>17. QED
  <2>1. CASE UpdateStep
    BY <2>1, <1>1, <1>2, <1>6, <1>7 DEF UpdateStep
  <2>2. CASE OtherRequest
    BY <2>2, <1>8, <1>9, <1>10, <1>11 DEF OtherRequest
  <2>3. CASE InnerStep
    BY <2>3, <1>3, <1>5, <1>12, <1>13, <1>14, <1>15 DEF InnerStep
  <2>4. QED
    BY <2>1, <2>2, <2>3, <1>4, <1>16, StepKinds

\* There are no rows at the start, and the links are those given.
LEMMA TypeInit == Init => TypeOK /\ Prepared /\ LinksKept
<1> SUFFICES ASSUME Init
             PROVE  TypeOK /\ Prepared /\ LinksKept
  OBVIOUS
<1> USE DisaggregationAssumption
<1>1. TypeOK
  <2>1. /\ status \in [Update -> {"none", "unapproved", "approved"}]
        /\ value \in [Update -> Nat]
        /\ amount \in [Update -> [DimensionValue -> Nat \cup {None}]]
        /\ second \in [Update -> [DimensionValue -> Nat \cup {None}]]
        /\ incomplete \in [Update -> SUBSET DimensionValue]
        /\ orphaned = {}
    BY DEF Init
  <2>2. /\ parentPeriod \in [Period -> Period \cup {None}]
        /\ parentValue \in [live -> live \cup {None}]
        /\ live \subseteq DimensionValue
        /\ aggregateChildren \in [Project -> BOOLEAN]
        /\ aggregateToParent \in [Project -> BOOLEAN]
    BY DEF Init
  <2>3. /\ total \in [Cell -> Nat]
        /\ todo = {} /\ loop = {} /\ climb = None /\ saving = None /\ marking = None
        /\ atomic \in BOOLEAN
        /\ stale = {} /\ unmarked = {} /\ interventions \in 0 .. MaxInterventions
    <3>1. 0 \in Nat /\ 0 \in 0 .. MaxInterventions
      OBVIOUS
    <3>2. [c \in Cell |-> 0] \in [Cell -> Nat]
      OBVIOUS
    <3>3. QED
      BY <3>1, <3>2, Zenon DEF Init
  <2>4. \A u \in Update : \A d \in DimensionValue :
            amount[u][d] = None /\ second[u][d] = None
    BY DEF Init
  <2>5. QED
    BY <2>1, <2>2, <2>3, <2>4 DEF TypeOK
<1>2. Prepared
  BY DEF Init, Prepared
<1>3. LinksKept
  BY DEF Init, LinksKept
<1>4. QED
  BY <1>1, <1>2, <1>3

\* The totals, flags and links the signals of Disaggregation keep have their
\* types in every reachable state: no disaggregation outlives its update or its
\* dimension value, and a climb only reaches cells of values that exist.
THEOREM DisaggregationTypes == Spec => []TypeOK
<1> DEFINE Inv == TypeOK /\ Prepared /\ LinksKept
<1>1. Init => Inv
  BY TypeInit
<1>2. Inv /\ [Next]_vars => Inv'
  BY TypeStep, PreparedStep, LinksStep
<1>3. QED
  BY <1>1, <1>2, PTL DEF Spec

(* The flags of the disaggregations ----------------------------------------*)

\* What IncompleteTold says of the states between requests, said of all: only the
\* update whose flags the second handler is about to set is left out.
Told ==
    \A u \in Update \ (unmarked \cup {marking}) :
        incomplete[u] = Flagged(value[u], amount[u])

\* A step that moves neither the flags nor what they are computed from.
LEMMA ToldFrame ==
    ASSUME Told, UNCHANGED <<value, amount, incomplete>>,
           unmarked \cup {marking} \subseteq unmarked' \cup {marking', None}
    PROVE  Told'
BY DisaggregationAssumption DEF Told

\* A save that sets the flags of some updates, and leaves the others alone.
LEMMA ToldBySetting ==
    ASSUME Told, marking = None, NEW us, SetFlags(us),
           \A u \in Update \ us : value'[u] = value[u] /\ amount'[u] = amount[u]
    PROVE  Told'
<1> SUFFICES ASSUME NEW u \in Update, u \notin unmarked' \cup {marking'}
             PROVE  incomplete'[u] = Flagged(value'[u], amount'[u])
  BY DEF Told
<1>1. CASE u \in us
  BY <1>1 DEF SetFlags
<1>2. CASE u \notin us
  <2>1. u \notin unmarked /\ u # marking
    BY <1>2, DisaggregationAssumption DEF SetFlags
  <2>2. incomplete[u] = Flagged(value[u], amount[u])
    BY <2>1 DEF Told
  <2>3. incomplete'[u] = incomplete[u]
    BY <1>2 DEF SetFlags
  <2>4. QED
    BY <1>2, <2>2, <2>3
<1>3. QED
  BY <1>1, <1>2

\* A change to one update that is not told is the history's or the handler's.
LEMMA ToldButOne ==
    ASSUME Told, marking = None, NEW x,
           unmarked \cup {x} \subseteq unmarked' \cup {marking'},
           \A u \in Update \ {x} :
               value'[u] = value[u] /\ amount'[u] = amount[u] /\ incomplete'[u] = incomplete[u]
    PROVE  Told'
<1> SUFFICES ASSUME NEW u \in Update, u \notin unmarked' \cup {marking'}
             PROVE  incomplete'[u] = Flagged(value'[u], amount'[u])
  BY DEF Told
<1>1. u # x /\ u \notin unmarked /\ u # marking
  BY DisaggregationAssumption
<1>2. incomplete[u] = Flagged(value[u], amount[u])
  BY <1>1 DEF Told
<1>3. QED
  BY <1>1, <1>2

\* No step leaves a flag behind that the update's signal should have set.
LEMMA ToldStep ==
    ASSUME TypeOK, Prepared, Told, [Next]_vars
    PROVE  Told'
<1> USE DisaggregationAssumption
<1>1. ASSUME NEW u \in Update, NEW s \in {"unapproved", "approved"}, NEW v \in Value,
             NEW sent \in Requests(u), SaveUpdate(u, s, v, sent)
      PROVE  Told'
  <2>1. PICK others \in SUBSET (Others(u, s) \ orphaned) : SetFlags({u} \cup others)
    BY <1>1 DEF SaveUpdate
  <2>2. \A x \in Update \ ({u} \cup others) : value'[x] = value[x] /\ amount'[x] = amount[x]
    BY <1>1 DEF SaveUpdate, TypeOK
  <2>3. marking = None
    BY <1>1 DEF SaveUpdate, Idle
  <2>4. QED
    BY <2>1, <2>2, <2>3, ToldBySetting
<1>2. ASSUME NEW u \in Update, NEW s \in {"unapproved", "approved"}, NEW v \in Value,
             NEW sent \in Requests(u), SaveOrphaned(u, s, v, sent)
      PROVE  Told'
  <2>1. PICK others \in SUBSET (Others(u, s) \ orphaned) :
             IF u \in orphaned
               THEN /\ \/ UNCHANGED incomplete
                       \/ incomplete' = [incomplete EXCEPT ![u] = Flagged(v, amount[u])]
                    /\ unmarked' = unmarked \cup {u}
               ELSE SetFlags({u} \cup others)
    BY <1>2 DEF SaveOrphaned
  <2>2. \A x \in Update \ {u} : value'[x] = value[x] /\ amount'[x] = amount[x]
    BY <1>2 DEF SaveOrphaned, TypeOK
  <2>3. marking = None
    BY <1>2 DEF SaveOrphaned, Idle
  <2>4. CASE u \in orphaned
    <3>1. \A x \in Update \ {u} : incomplete'[x] = incomplete[x]
      BY <2>1, <2>4 DEF TypeOK
    <3>2. QED
      BY <2>1, <2>2, <2>3, <2>4, <3>1, ToldButOne
  <2>5. CASE u \notin orphaned
    <3>1. SetFlags({u} \cup others)
      BY <2>1, <2>5
    <3>2. QED
      BY <2>2, <2>3, <3>1, ToldBySetting
  <2>6. QED
    BY <2>4, <2>5
<1>3. ASSUME NEW i \in todo, SaveDisaggregation(i)
      PROVE  Told'
  <2>1. marking = None /\ marking' = saving /\ unmarked' = unmarked
    BY <1>3 DEF SaveDisaggregation
  <2>2. \A x \in Update \ {saving} :
            value'[x] = value[x] /\ amount'[x] = amount[x] /\ incomplete'[x] = incomplete[x]
    BY <1>3 DEF SaveDisaggregation, TypeOK
  <2>3. QED
    BY <2>1, <2>2, ToldButOne
<1>4. ASSUME NEW u \in Update, NEW d \in DimensionValue, RowStep(u, d)
      PROVE  Told'
  <2>1. marking = None /\ unmarked \cup {u} \subseteq unmarked' \cup {marking'}
    BY <1>4, RowWritten DEF Idle
  <2>2. \A x \in Update \ {u} : value'[x] = value[x] /\ incomplete'[x] = incomplete[x]
    BY <1>4, RowWritten
  <2>3. \A x \in Update \ {u} : amount'[x] = amount[x]
    <3>1. PICK m \in Nat \cup {None} : amount' = [amount EXCEPT ![u][d] = m]
      BY <1>4, RowWritten
    <3>2. QED
      BY <3>1 DEF TypeOK
  <2>4. QED
    BY <2>1, <2>2, <2>3, ToldButOne
<1>5. ASSUME NEW i \in todo, FindTwo(i)
      PROVE  Told'
  BY <1>5, ToldFrame DEF FindTwo, rows
<1>6. ASSUME NEW us \in SUBSET Update, DeleteUpdates(us)
      PROVE  Told'
  <2>1. PICK others \in SUBSET UNION {SavedAgain(PeriodOf[u]) : u \in us} :
             SetFlags(us \cup (others \ orphaned))
    BY <1>6 DEF DeleteUpdates
  <2>2. \A x \in Update \ us : value'[x] = value[x] /\ amount'[x] = amount[x]
    BY <1>6 DEF DeleteUpdates
  <2>3. marking = None
    BY <1>6 DEF DeleteUpdates, Idle
  <2>4. QED
    BY <2>1, <2>2, <2>3, ToldBySetting
<1>7. ASSUME NEW us \in SUBSET Update, NEW s \in {"unapproved", "approved"},
             SetUpdatesStatus(us, s)
      PROVE  Told'
  BY <1>7, ToldFrame DEF SetUpdatesStatus, request
<1>8. ASSUME NEW d \in DimensionValue, DeleteDimensionValue(d)
      PROVE  Told'
  <2> SUFFICES ASSUME NEW u \in Update, u \notin unmarked' \cup {marking'}
               PROVE  incomplete'[u] = Flagged(value'[u], amount'[u])
    BY DEF Told
  <2>1. marking = None /\ marking' = None
    BY <1>8 DEF DeleteDimensionValue, Idle, request
  <2>2. u \notin unmarked /\ d \notin RowsOf(u)
    BY <1>8 DEF DeleteDimensionValue
  <2>3. incomplete[u] = Flagged(value[u], amount[u])
    BY <2>1, <2>2 DEF Told
  <2>4. amount[u] \in [DimensionValue -> Nat \cup {None}] /\ amount[u][d] = None
    BY <2>2 DEF RowsOf, TypeOK
  <2>5. amount'[u] = [amount[u] EXCEPT ![d] = None]
    BY <1>8 DEF DeleteDimensionValue
  <2>6. amount'[u] = amount[u]
    BY <2>4, <2>5
  <2>7. d \notin incomplete[u]
    BY <2>3, <2>4 DEF Flagged
  <2>8. incomplete'[u] = incomplete[u] /\ value'[u] = value[u]
    BY <1>8, <2>7 DEF DeleteDimensionValue
  <2>9. QED
    BY <2>3, <2>6, <2>8
<1>9. ASSUME NEW p \in Project, NEW toChildren \in BOOLEAN, NEW toParent \in BOOLEAN,
             SaveProject(p, toChildren, toParent)
      PROVE  Told'
  <2>1. PICK all : SetFlags(all)
    BY <1>9 DEF SaveProject
  <2>2. marking = None /\ value' = value /\ amount' = amount
    BY <1>9 DEF SaveProject, Idle
  <2>3. QED
    BY <2>1, <2>2, ToldBySetting
<1>10. ASSUME NEW p \in Project, RemoveParent(p)
       PROVE  Told'
  BY <1>10, ToldFrame DEF RemoveParent, rows, request
<1>11. CASE RecalculateAll
  BY <1>11, ToldFrame DEF RecalculateAll, rows
<1>12. CASE Climb
  BY <1>12, ToldFrame DEF Climb, rows
<1>13. ASSUME NEW c \in loop, AggregateNext(c)
       PROVE  Told'
  BY <1>13, ToldFrame DEF AggregateNext, rows
<1>14. CASE Mark
  <2> SUFFICES ASSUME NEW u \in Update, u \notin unmarked' \cup {marking'}
               PROVE  incomplete'[u] = Flagged(value'[u], amount'[u])
    BY DEF Told
  <2>1. value' = value /\ amount' = amount
    BY <1>14 DEF Mark
  <2>2. CASE u = marking
    BY <1>14, <2>1, <2>2 DEF Mark, TypeOK
  <2>3. CASE u # marking
    <3>1. u \notin unmarked /\ incomplete'[u] = incomplete[u]
      BY <1>14, <2>3 DEF Mark, TypeOK
    <3>2. QED
      BY <2>1, <2>3, <3>1 DEF Told
  <2>4. QED
    BY <2>2, <2>3
<1>15. CASE Abort
  BY <1>15, ToldFrame DEF Abort, rows
<1>16. CASE UNCHANGED vars
  BY <1>16, ToldFrame DEF vars, rows, request
<1>17. QED
  <2>1. CASE UpdateStep
    BY <2>1, <1>1, <1>2, <1>6, <1>7 DEF UpdateStep
  <2>2. CASE OtherRequest
    BY <2>2, <1>8, <1>9, <1>10, <1>11 DEF OtherRequest
  <2>3. CASE InnerStep
    BY <2>3, <1>3, <1>5, <1>12, <1>13, <1>14, <1>15 DEF InnerStep
  <2>4. QED
    BY <2>1, <2>2, <2>3, <1>4, <1>16, StepKinds

\* The sum of nothing is the value of no update: 0.
LEMMA ToldInit == Init => Told
<1> SUFFICES ASSUME Init, NEW u \in Update
             PROVE  incomplete[u] = Flagged(value[u], amount[u])
  BY DEF Told
<1>1. \A d \in DimensionValue : amount[u][d] = None
  BY DEF Init
<1>2. incomplete[u] = {}
  BY DEF Init
<1>3. Flagged(value[u], amount[u]) = {}
  BY <1>1 DEF Flagged
<1>4. QED
  BY <1>2, <1>3

\* Between requests a disaggregation is flagged as incomplete exactly when the
\* update's disaggregations do not add up to its value, for every update whose
\* signal was sent and did not raise: no order of saves, deletes, resaves by a
\* recalculation and crashes leaves another flag behind.
THEOREM IncompleteInvariant == Spec => []IncompleteTold
<1> DEFINE Inv == TypeOK /\ Prepared /\ LinksKept /\ Told
<1>1. Init => Inv
  BY TypeInit, ToldInit
<1>2. Inv /\ [Next]_vars => Inv'
  BY TypeStep, PreparedStep, LinksStep, ToldStep
<1>3. Inv => IncompleteTold
  BY DisaggregationAssumption DEF Told, IncompleteTold, Idle
<1>4. QED
  BY <1>1, <1>2, <1>3, PTL DEF Spec

(* One level of the totals -------------------------------------------------*)

\* A total that no request still has to compute and no path left out is what
\* aggregate would compute now, from the updates and the totals one level below.
Accounted ==
    \A c \in Cell \ (Pending \cup stale) :
        total[c] = LocalValue(c) + ContributedValue(c)

\* The cells whose totals are added to that of c have c as their parent cell.
LEMMA ChildCellsAreBelow ==
    ASSUME TypeOK, LinksKept, NEW c \in Cell, NEW k \in Cell
    PROVE  k \in ChildCells(c) <=> k[2] \in live /\ ParentCell(k) = c
<1>1. c # None /\ c = <<c[1], c[2]>> /\ c[1] # None /\ c[2] # None
  BY CellIsPair, DisaggregationAssumption
<1>2. ASSUME k[2] \in live, ParentCell(k) = c
      PROVE  k \in ChildCells(c)
  BY <1>1, <1>2, ParentCellIsCell DEF ChildCells
<1>3. ASSUME k \in ChildCells(c)
      PROVE  k[2] \in live /\ ParentCell(k) = c
  BY <1>1, <1>3 DEF ChildCells, ParentCell
<1>4. QED
  BY <1>2, <1>3

\* Child cells are of lower periods.
LEMMA ChildIsLower ==
    ASSUME TypeOK, LinksKept, NEW c \in Cell, NEW k \in ChildCells(c),
           NEW height \in [Period -> 0 .. Cardinality(Period)],
           \A q \in Period : LinkedPeriod[q] # None => height[q] < height[LinkedPeriod[q]]
    PROVE  k \in Cell /\ height[k[1]] < height[c[1]]
<1>1. k \in Cell /\ k[1] \in Period /\ c[1] \in Period /\ parentPeriod[k[1]] = c[1]
  BY CellIsPair DEF ChildCells
<1>2. c[1] # None
  BY <1>1, DisaggregationAssumption
<1>3. LinkedPeriod[k[1]] = c[1]
  BY <1>1, <1>2 DEF LinksKept
<1>4. QED
  BY <1>1, <1>2, <1>3

\* A cell's total does not count itself: heights grow along the links.
LEMMA NoCellIsItsOwnChild ==
    ASSUME TypeOK, LinksKept, NEW c \in Cell
    PROVE  c \notin ChildCells(c)
<1> SUFFICES ASSUME c \in ChildCells(c)
             PROVE  FALSE
  OBVIOUS
<1>1. PICK height \in [Period -> 0 .. Cardinality(Period)] :
         \A q \in Period : LinkedPeriod[q] # None => height[q] < height[LinkedPeriod[q]]
  BY DisaggregationAssumption
<1>2. c[1] \in Period
  BY CellIsPair
<1>3. Cardinality(Period) \in Nat
  BY DisaggregationAssumption, FS_CardinalityType
<1>4. height[c[1]] \in Nat
  BY <1>2, <1>3
<1>5. height[c[1]] < height[c[1]]
  BY <1>1, ChildIsLower
<1>6. QED
  BY <1>4, <1>5

\* The local value depends on what the updates count for.
LEMMA LocalFrame ==
    ASSUME NEW c, \A u \in Update : Counted(u, c)' = Counted(u, c)
    PROVE  LocalValue(c)' = LocalValue(c)
<1>1. [u \in Update |-> Counted(u, c)]' = [u \in Update |-> Counted(u, c)]
  OBVIOUS
<1>2. QED
  BY <1>1 DEF LocalValue

\* The contributed value depends on the links and the totals below.
LEMMA ContributedFrame ==
    ASSUME NEW c,
           \A k \in Cell : (IF k \in ChildCells(c) THEN total[k] ELSE 0)'
                             = IF k \in ChildCells(c) THEN total[k] ELSE 0
    PROVE  ContributedValue(c)' = ContributedValue(c)
<1>1. [k \in Cell |-> IF k \in ChildCells(c) THEN total[k] ELSE 0]'
        = [k \in Cell |-> IF k \in ChildCells(c) THEN total[k] ELSE 0]
  OBVIOUS
<1>2. QED
  BY <1>1 DEF ContributedValue

\* A step that changes rows alone leaves the totals accounted for that it counts
\* the same for, and those it announces or leaves out are pending or stale.
LEMMA RowsChange ==
    ASSUME Accounted, UNCHANGED <<links, total>>,
           NEW old, old = Pending \cup stale,
           NEW new, new = Pending' \cup stale',
           old \subseteq new,
           \A c \in Cell \ new : \A u \in Update : Counted(u, c)' = Counted(u, c)
    PROVE  Accounted'
<1> SUFFICES ASSUME NEW c \in Cell, c \notin Pending', c \notin stale'
             PROVE  total'[c] = LocalValue(c)' + ContributedValue(c)'
  BY DEF Accounted
<1>1. c \notin Pending /\ c \notin stale /\ c \notin new
  OBVIOUS
<1>2. total[c] = LocalValue(c) + ContributedValue(c)
  BY <1>1 DEF Accounted
<1>3. LocalValue(c)' = LocalValue(c)
  BY <1>1, LocalFrame
<1>4. ContributedValue(c)' = ContributedValue(c)
  BY ContributedFrame DEF ChildCells, links
<1>5. QED
  BY <1>2, <1>3, <1>4

\* aggregate accounts for its cell, and only that of its parent, which it goes on
\* to or leaves behind, is no longer accounted for.
LEMMA AggregateAccounts ==
    ASSUME TypeOK, LinksKept, NEW c \in Cell, c[2] \in live, Aggregate(c),
           UNCHANGED <<rows, links>>,
           NEW r \in Cell, r \notin stale', climb' # r,
           r # c /\ r \notin stale => total[r] = LocalValue(r) + ContributedValue(r)
    PROVE  total'[r] = LocalValue(r)' + ContributedValue(r)'
<1>1. LocalValue(r)' = LocalValue(r)
  BY LocalFrame DEF Counted, rows
<1>2. ChildCells(r)' = ChildCells(r)
  BY DEF ChildCells, links
<1>3. \A k \in Cell \ {c} : total'[k] = total[k]
  BY DEF Aggregate, TypeOK
<1>4. CASE r = c
  <2>1. total'[c] = LocalValue(c) + ContributedValue(c)
    BY DEF Aggregate, TypeOK
  <2>2. c \notin ChildCells(c)
    BY NoCellIsItsOwnChild
  <2>3. ContributedValue(r)' = ContributedValue(r)
    BY <1>2, <1>3, <1>4, <2>2, ContributedFrame
  <2>4. QED
    BY <1>1, <1>4, <2>1, <2>3
<1>5. CASE r # c
  <2>1. r \notin stale
    BY <1>5 DEF Aggregate
  <2>2. c \in ChildCells(r) => total'[c] = total[c]
    <3> SUFFICES ASSUME c \in ChildCells(r)
                 PROVE  total'[c] = total[c]
      OBVIOUS
    <3>1. ParentCell(c) = r /\ r # None
      BY ChildCellsAreBelow, CellIsPair
    <3>2. ~GoesUp(c)
      BY <3>1 DEF Aggregate
    <3>3. QED
      BY <3>1, <3>2 DEF Aggregate
  <2>3. ContributedValue(r)' = ContributedValue(r)
    BY <1>2, <1>3, <2>2, ContributedFrame
  <2>4. total'[r] = total[r]
    BY <1>3, <1>5
  <2>5. QED
    BY <1>1, <1>5, <2>1, <2>3, <2>4
<1>6. QED
  BY <1>4, <1>5

\* Nothing is pending between requests.
LEMMA IdleHasNothingPending == Idle => Pending = {}
BY DEF Idle, Pending

\* A new status changes what an update counts for in the cells it leaves out and
\* in those of the disaggregations that were sent, which are pending.
LEMMA StatusChange ==
    ASSUME TypeOK, NEW u \in Update, NEW s \in {"unapproved", "approved"}, NEW sent,
           status'[u] = s, amount' = amount,
           NEW c \in Cell, c \notin Unannounced(u, s, sent),
           c \notin {CellOf(u, i.dimension) : i \in sent}
    PROVE  Counted(u, c)' = Counted(u, c)
<1>1. c = <<c[1], c[2]>> /\ c[2] \in DimensionValue
  BY CellIsPair
<1>2. amount[u][c[2]] \in Nat \cup {None}
  BY <1>1 DEF TypeOK
<1>3. CASE (status[u] = "approved") = (s = "approved")
  BY <1>3 DEF Counted
<1>4. CASE (status[u] = "approved") # (s = "approved")
  <2>1. CASE PeriodOf[u] = c[1] /\ c[2] \in RowsOf(u) /\ amount[u][c[2]] > 0
    <3>1. c = CellOf(u, c[2])
      BY <1>1, <2>1 DEF CellOf
    <3>2. c[2] \notin {i.dimension : i \in sent}
      BY <3>1
    <3>3. c \in Unannounced(u, s, sent)
      BY <1>4, <2>1, <3>1, <3>2 DEF Unannounced
    <3>4. QED
      BY <3>3
  <2>2. CASE ~(PeriodOf[u] = c[1] /\ c[2] \in RowsOf(u) /\ amount[u][c[2]] > 0)
    <3>1. Counted(u, c) = 0
      BY <1>1, <1>2, <2>2 DEF Counted, RowsOf
    <3>2. Counted(u, c)' = 0
      BY <1>1, <1>2, <2>2 DEF Counted, RowsOf
    <3>3. QED
      BY <3>1, <3>2
  <2>3. QED
    BY <2>1, <2>2
<1>5. QED
  BY <1>3, <1>4

\* The other updates count for what they did.
LEMMA OthersCount ==
    ASSUME NEW x \in Update, NEW c, status'[x] = status[x], amount'[x] = amount[x]
    PROVE  Counted(x, c)' = Counted(x, c)
BY DEF Counted

\* Where one disaggregation of an update changes, so does that cell alone.
LEMMA AmountChange ==
    ASSUME TypeOK, NEW u \in Update, NEW d \in DimensionValue, status' = status,
           \A x \in Update, y \in DimensionValue :
               ~(x = u /\ y = d) => amount'[x][y] = amount[x][y],
           NEW c \in Cell, c # CellOf(u, d), NEW x \in Update
    PROVE  Counted(x, c)' = Counted(x, c)
<1>1. c = <<c[1], c[2]>> /\ c[2] \in DimensionValue
  BY CellIsPair
<1>2. CASE x = u /\ c[2] = d
  <2>1. PeriodOf[x] # c[1]
    BY <1>1, <1>2 DEF CellOf
  <2>2. QED
    BY <2>1 DEF Counted
<1>3. CASE ~(x = u /\ c[2] = d)
  BY <1>1, <1>3 DEF Counted
<1>4. QED
  BY <1>2, <1>3

\* Saving an update leaves the totals of its cells to the requests that
\* follow.
LEMMA SaveUpdateAccounted ==
    ASSUME TypeOK, Accounted,
           NEW u \in Update, NEW s \in {"unapproved", "approved"}, NEW v, NEW sent,
           \/ SaveUpdate(u, s, v, sent)
           \/ SaveOrphaned(u, s, v, sent)
    PROVE  Accounted'
<1> USE DisaggregationAssumption
<1>1. /\ Idle /\ status' = [status EXCEPT ![u] = s] /\ amount' = amount
      /\ UNCHANGED <<links, total>>
  BY DEF SaveUpdate, SaveOrphaned
<1>2. Pending = {}
  BY <1>1, IdleHasNothingPending
<1>3. Pending \cup stale \subseteq Pending' \cup stale'
  BY <1>2 DEF SaveUpdate, SaveOrphaned
<1>4. ASSUME NEW c \in Cell \ (Pending' \cup stale')
      PROVE  Counted(u, c)' = Counted(u, c)
  <2>1. CASE SaveUpdate(u, s, v, sent)
    <3>1. c \notin Unannounced(u, s, sent)
      BY <1>4, <2>1 DEF SaveUpdate
    <3>2. c \notin {CellOf(u, i.dimension) : i \in sent}
      <4>1. todo' = sent /\ (sent # {} => saving' = u)
        BY <2>1 DEF SaveUpdate
      <4>2. QED
        BY <1>4, <4>1 DEF Pending, CellOf
    <3>3. QED
      BY <1>1, <3>1, <3>2, StatusChange DEF TypeOK
  <2>2. CASE SaveOrphaned(u, s, v, sent)
    <3>1. c \notin Unannounced(u, s, {})
      BY <1>4, <2>2 DEF SaveOrphaned
    <3>2. QED
      BY <1>1, <3>1, StatusChange DEF TypeOK
  <2>3. QED
    BY <2>1, <2>2
<1>5. ASSUME NEW c \in Cell \ (Pending' \cup stale'), NEW x \in Update
      PROVE  Counted(x, c)' = Counted(x, c)
  <2>1. CASE x = u
    BY <1>4, <2>1
  <2>2. CASE x # u
    BY <1>1, <2>2, OthersCount DEF TypeOK
  <2>3. QED
    BY <2>1, <2>2
<1>6. QED
  BY <1>1, <1>3, <1>5, RowsChange

\* A bulk status change makes the cells of its updates stale.
LEMMA SetStatusAccounted ==
    ASSUME TypeOK, Accounted, NEW us \in SUBSET Update,
           NEW s \in {"unapproved", "approved"}, SetUpdatesStatus(us, s)
    PROVE  Accounted'
<1>1. /\ UNCHANGED <<links, total>> /\ amount' = amount
      /\ status' = [u \in Update |-> IF u \in us THEN s ELSE status[u]]
      /\ stale' = stale \cup UNION {Unannounced(u, s, {}) : u \in us}
  BY DEF SetUpdatesStatus
<1>2. Pending \cup stale \subseteq Pending' \cup stale'
  BY IdleHasNothingPending DEF SetUpdatesStatus
<1>3. ASSUME NEW c \in Cell \ (Pending' \cup stale'), NEW x \in Update
      PROVE  Counted(x, c)' = Counted(x, c)
  <2>1. CASE x \in us
    <3>1. c \notin Unannounced(x, s, {})
      BY <1>1, <1>3, <2>1
    <3>2. status'[x] = s
      BY <1>1, <2>1
    <3>3. QED
      BY <1>1, <3>1, <3>2, StatusChange
  <2>2. CASE x \notin us
    BY <1>1, <2>2, OthersCount
  <2>3. QED
    BY <2>1, <2>2
<1>4. QED
  BY <1>1, <1>2, <1>3, RowsChange

\* Deleted updates have their cells recomputed, or make them stale.
LEMMA DeleteUpdatesAccounted ==
    ASSUME TypeOK, Accounted, NEW us \in SUBSET Update, DeleteUpdates(us)
    PROVE  Accounted'
<1>1. /\ UNCHANGED <<links, total, stale>>
      /\ status' = [u \in Update |-> IF u \in us THEN "none" ELSE status[u]]
      /\ amount' = [u \in Update |->
                       IF u \in us THEN [d \in DimensionValue |-> None] ELSE amount[u]]
      /\ loop' = UNION {CellsOf(u) : u \in us}
  BY DEF DeleteUpdates
<1>2. Pending \cup stale \subseteq Pending' \cup stale'
  BY IdleHasNothingPending DEF DeleteUpdates
<1>3. ASSUME NEW c \in Cell \ (Pending' \cup stale'), NEW x \in Update
      PROVE  Counted(x, c)' = Counted(x, c)
  <2>1. CASE x \in us
    <3>1. c = <<c[1], c[2]>> /\ c[2] \in DimensionValue
      BY CellIsPair
    <3>2. c \notin CellsOf(x)
      BY <1>1, <1>3, <2>1 DEF Pending
    <3>3. ~(PeriodOf[x] = c[1] /\ c[2] \in RowsOf(x))
      BY <3>1, <3>2 DEF CellsOf, CellOf
    <3>4. Counted(x, c) = 0
      BY <3>1, <3>3 DEF Counted, RowsOf
    <3>5. status'[x] = "none"
      BY <1>1, <2>1
    <3>6. QED
      BY <3>4, <3>5 DEF Counted
  <2>2. CASE x \notin us
    BY <1>1, <2>2, OthersCount
  <2>3. QED
    BY <2>1, <2>2
<1>4. QED
  BY <1>1, <1>2, <1>3, RowsChange

\* With the value go its totals, and no child has it as its parent any more.
LEMMA DeleteValueAccounted ==
    ASSUME TypeOK, Accounted, NEW d \in DimensionValue, DeleteDimensionValue(d)
    PROVE  Accounted'
<1> USE DisaggregationAssumption
<1> SUFFICES ASSUME NEW c \in Cell, c \notin Pending', c \notin stale'
             PROVE  total'[c] = LocalValue(c)' + ContributedValue(c)'
  BY DEF Accounted
<1>1. c[1] \in Period /\ c[2] \in DimensionValue
  BY CellIsPair
<1>2. total' = [k \in Cell |-> IF k[2] = d THEN 0 ELSE total[k]]
  BY DEF DeleteDimensionValue
<1>3. /\ amount' = [u \in Update |-> [amount[u] EXCEPT ![d] = None]] /\ status' = status
      /\ live' = live \ {d} /\ parentPeriod' = parentPeriod
      /\ parentValue' = [x \in live' |-> IF parentValue[x] = d THEN None ELSE parentValue[x]]
      /\ d \in live /\ parentValue[d] = None
      /\ stale' = {k \in stale : k[2] # d}
  BY DEF DeleteDimensionValue
<1>4. CASE c[2] = d
  <2>1. ASSUME NEW u \in Update
        PROVE  Counted(u, c)' = 0
    <3>1. amount'[u][c[2]] = None
      BY <1>3, <1>4 DEF TypeOK
    <3>2. QED
      BY <3>1 DEF Counted
  <2>2. LocalValue(c)' = 0
    <3>1. [u \in Update |-> Counted(u, c)]' = [u \in Update |-> 0]
      BY <2>1
    <3>2. Total([u \in Update |-> 0]) = 0
      BY TotalOfZeros
    <3>3. QED
      BY <3>1, <3>2 DEF LocalValue
  <2>3. ChildCells(c)' = {}
    <3>1. \A x \in live' : parentValue'[x] # d
      BY <1>3
    <3>2. QED
      BY <1>4, <3>1 DEF ChildCells
  <2>4. ContributedValue(c)' = 0
    <3>1. [k \in Cell |-> IF k \in ChildCells(c) THEN total[k] ELSE 0]' = [k \in Cell |-> 0]
      BY <2>3
    <3>2. Total([k \in Cell |-> 0]) = 0
      BY TotalOfZeros
    <3>3. QED
      BY <3>1, <3>2 DEF ContributedValue
  <2>5. total'[c] = 0
    BY <1>2, <1>4
  <2>6. QED
    BY <2>2, <2>4, <2>5
<1>5. CASE c[2] # d
  <2>1. c \notin Pending /\ c \notin stale
    BY <1>3, <1>5, IdleHasNothingPending DEF DeleteDimensionValue
  <2>2. total[c] = LocalValue(c) + ContributedValue(c)
    BY <2>1 DEF Accounted
  <2>3. LocalValue(c)' = LocalValue(c)
    <3>1. ASSUME NEW u \in Update
          PROVE  Counted(u, c)' = Counted(u, c)
      <4>1. amount'[u][c[2]] = amount[u][c[2]]
        BY <1>1, <1>3, <1>5 DEF TypeOK
      <4>2. QED
        BY <1>3, <4>1 DEF Counted
    <3>2. QED
      BY <3>1, LocalFrame
  <2>4. ContributedValue(c)' = ContributedValue(c)
    <3>1. ASSUME NEW k \in Cell
          PROVE  /\ (k \in ChildCells(c))' <=> k \in ChildCells(c)
                 /\ k \in ChildCells(c) => total'[k] = total[k]
      <4>1. c[2] # None
        BY <1>1
      <4>2. k[2] \in live' => (parentValue'[k[2]] = c[2] <=> parentValue[k[2]] = c[2])
        BY <1>3, <1>5, <4>1
      <4>3. k \in ChildCells(c) => k[2] # d
        BY <1>3, <4>1 DEF ChildCells
      <4>4. QED
        BY <1>2, <1>3, <4>2, <4>3 DEF ChildCells
    <3>2. QED
      BY <3>1, ContributedFrame
  <2>5. total'[c] = total[c]
    BY <1>2, <1>5
  <2>6. QED
    BY <2>2, <2>3, <2>4, <2>5
<1>6. QED
  BY <1>4, <1>5

\* Only a total that is not 0 leaves something behind when its link goes.
LEMMA RemoveParentAccounted ==
    ASSUME TypeOK, LinksKept, Accounted, NEW p \in Project, RemoveParent(p)
    PROVE  Accounted'
<1> USE DisaggregationAssumption
<1> SUFFICES ASSUME NEW c \in Cell, c \notin Pending', c \notin stale'
             PROVE  total'[c] = LocalValue(c)' + ContributedValue(c)'
  BY DEF Accounted
<1>1. /\ parentPeriod' = [q \in Period |-> IF ProjectOf[q] = p THEN None ELSE parentPeriod[q]]
      /\ parentValue' = [d \in live |-> IF DimensionOf[d] = p THEN None ELSE parentValue[d]]
      /\ stale' = stale \cup {ParentCell(k) : k \in {l \in Linked : ProjectOf[l[1]] = p}}
      /\ UNCHANGED <<rows, live, total>>
  BY DEF RemoveParent
<1>2. c \notin Pending /\ c \notin stale
  BY <1>1, IdleHasNothingPending DEF RemoveParent
<1>3. total[c] = LocalValue(c) + ContributedValue(c)
  BY <1>2 DEF Accounted
<1>4. LocalValue(c)' = LocalValue(c)
  BY <1>1, LocalFrame DEF Counted, rows
<1>5. ASSUME NEW k \in Cell
      PROVE  (IF k \in ChildCells(c) THEN total[k] ELSE 0)'
                = IF k \in ChildCells(c) THEN total[k] ELSE 0
  <2>1. k[1] \in Period /\ k[2] \in DimensionValue /\ ProjectOf[k[1]] = DimensionOf[k[2]]
    BY CellIsPair
  <2>2. c[1] # None /\ c[2] # None /\ c # None
    BY CellIsPair
  <2>3. CASE ProjectOf[k[1]] # p
    <3>1. parentPeriod'[k[1]] = parentPeriod[k[1]]
      BY <1>1, <2>1, <2>3
    <3>2. k[2] \in live => parentValue'[k[2]] = parentValue[k[2]]
      BY <1>1, <2>1, <2>3
    <3>3. live' = live /\ total' = total
      BY <1>1
    <3>4. (k \in ChildCells(c))' <=> k \in ChildCells(c)
      BY <3>1, <3>2, <3>3 DEF ChildCells
    <3>5. QED
      BY <3>3, <3>4
  <2>4. CASE ProjectOf[k[1]] = p
    <3>1. parentPeriod'[k[1]] = None
      BY <1>1, <2>1, <2>4
    <3>2. ~(k \in ChildCells(c))'
      BY <2>2, <3>1 DEF ChildCells
    <3>3. k \in ChildCells(c) => total[k] = 0
      <4> SUFFICES ASSUME k \in ChildCells(c), total[k] # 0
                   PROVE  FALSE
        OBVIOUS
      <4>1. k[2] \in live /\ ParentCell(k) = c
        BY ChildCellsAreBelow
      <4>2. total[k] \in Nat
        BY DEF TypeOK
      <4>3. k \in Linked
        BY <2>2, <4>1, <4>2 DEF Linked
      <4>4. QED
        BY <1>1, <2>4, <4>1, <4>3
    <3>4. QED
      BY <3>2, <3>3
  <2>5. QED
    BY <2>3, <2>4
<1>6. ContributedValue(c)' = ContributedValue(c)
  BY <1>5, ContributedFrame
<1>7. QED
  BY <1>1, <1>3, <1>4, <1>6

\* When all totals are deleted, those that were 0 for want of anything to add up
\* still account for that.
LEMMA RecalculateAllAccounted ==
    ASSUME TypeOK, Accounted, RecalculateAll
    PROVE  Accounted'
<1> SUFFICES ASSUME NEW c \in Cell, c \notin Pending', c \notin stale'
             PROVE  total'[c] = LocalValue(c)' + ContributedValue(c)'
  BY DEF Accounted
<1>1. /\ total' = [k \in Cell |-> 0] /\ UNCHANGED <<rows, links>>
      /\ stale' = stale \cup {k \in Cell : total[k] > 0}
  BY DEF RecalculateAll
<1>2. c \notin Pending /\ c \notin stale /\ total[c] = 0
  BY <1>1, IdleHasNothingPending DEF RecalculateAll, TypeOK
<1>3. total[c] = LocalValue(c) + ContributedValue(c)
  BY <1>2 DEF Accounted
<1>4. LocalValue(c) = 0
  BY <1>2, <1>3, SumsType
<1>5. LocalValue(c)' = LocalValue(c)
  BY <1>1, LocalFrame DEF Counted, rows
<1>6. ContributedValue(c)' = 0
  <2>1. [k \in Cell |-> IF k \in ChildCells(c) THEN total[k] ELSE 0]' = [k \in Cell |-> 0]
    BY <1>1
  <2>2. Total([k \in Cell |-> 0]) = 0
    BY TotalOfZeros
  <2>3. QED
    BY <2>1, <2>2 DEF ContributedValue
<1>7. total'[c] = 0
  BY <1>1
<1>8. QED
  BY <1>4, <1>5, <1>6, <1>7

\* A step of the recalculation accounts for one more total.
LEMMA AggregateStepAccounted ==
    ASSUME TypeOK, Prepared, LinksKept, Accounted, Climb \/ \E c \in loop : AggregateNext(c)
    PROVE  Accounted'
<1> USE DisaggregationAssumption
<1> SUFFICES ASSUME NEW r \in Cell, r \notin Pending', r \notin stale'
             PROVE  total'[r] = LocalValue(r)' + ContributedValue(r)'
  BY DEF Accounted
<1>1. r # None /\ r \notin loop' /\ climb' # r
  BY CellIsPair DEF Pending
<1>2. r \notin {CellOf(saving', i.dimension) : i \in todo'}
  BY DEF Pending
<1>3. CASE Climb
  <2>1. climb \in Cell /\ climb[2] \in live
    BY <1>3 DEF Climb, TypeOK, Prepared
  <2>2. Aggregate(climb) /\ UNCHANGED <<rows, links, todo, saving, loop>>
    BY <1>3 DEF Climb
  <2>3. r # climb => r \notin Pending
    BY <1>1, <1>2, <2>2 DEF Pending
  <2>4. r # climb /\ r \notin stale => total[r] = LocalValue(r) + ContributedValue(r)
    BY <2>3 DEF Accounted
  <2>5. QED
    BY <1>1, <2>1, <2>2, <2>4, AggregateAccounts
<1>4. ASSUME NEW c \in loop, AggregateNext(c)
      PROVE  total'[r] = LocalValue(r)' + ContributedValue(r)'
  <2>1. c \in Cell /\ c[2] \in live
    BY DEF TypeOK, Prepared
  <2>2. Aggregate(c) /\ loop' = loop \ {c} /\ climb = None /\ UNCHANGED <<rows, links, todo, saving>>
    BY <1>4 DEF AggregateNext
  <2>3. r # c => r \notin Pending
    BY <1>1, <1>2, <2>2 DEF Pending
  <2>4. r # c /\ r \notin stale => total[r] = LocalValue(r) + ContributedValue(r)
    BY <2>3 DEF Accounted
  <2>5. QED
    BY <1>1, <2>1, <2>2, <2>4, AggregateAccounts
<1>5. QED
  BY <1>3, <1>4

\* A step that moves nothing a total is computed from.
LEMMA AccountedFrame ==
    ASSUME Accounted, UNCHANGED <<status, amount, links, total>>,
           NEW old, old = Pending \cup stale,
           NEW new, new = Pending' \cup stale', old \subseteq new
    PROVE  Accounted'
<1>1. \A c \in Cell \ new : \A u \in Update : Counted(u, c)' = Counted(u, c)
  BY DEF Counted
<1>2. QED
  BY <1>1, RowsChange

\* Each step leaves the totals it does not announce as they should be.
LEMMA AccountedStep ==
    ASSUME TypeOK, Prepared, LinksKept, Accounted, [Next]_vars
    PROVE  Accounted'
<1> USE DisaggregationAssumption
<1> DEFINE old == Pending \cup stale
           new == Pending' \cup stale'
<1>1. ASSUME NEW u \in Update, NEW s \in {"unapproved", "approved"}, NEW v \in Value,
             NEW sent \in Requests(u), SaveUpdate(u, s, v, sent) \/ SaveOrphaned(u, s, v, sent)
      PROVE  Accounted'
  BY <1>1, SaveUpdateAccounted
<1>2. ASSUME NEW i \in todo, SaveDisaggregation(i)
      PROVE  Accounted'
  <2>1. /\ saving \in Update /\ i.dimension \in ValuesOf(saving) \cap live
        /\ i.dimension \in DimensionValue /\ i \in Item
    BY DEF Prepared, TypeOK, ValuesOf
  <2>2. climb' = CellOf(saving, i.dimension) /\ CellOf(saving, i.dimension) \in Cell
    BY <1>2, <2>1, CellOfIsCell DEF SaveDisaggregation
  <2>3. CellOf(saving, i.dimension) \in new
    BY <2>2, CellIsPair DEF Pending
  <2>4. old \subseteq new
    <3>1. loop' = loop /\ stale' = stale /\ climb = None
      BY <1>2 DEF SaveDisaggregation
    <3>2. ASSUME NEW j \in todo
          PROVE  CellOf(saving, j.dimension) \in new
      <4>1. CASE j = i
        BY <2>3, <4>1
      <4>2. CASE j # i
        <5>1. j \in todo' /\ saving' = saving
          BY <1>2, <4>2 DEF SaveDisaggregation
        <5>2. QED
          BY <5>1 DEF Pending, CellOf
      <4>3. QED
        BY <4>1, <4>2
    <3>3. QED
      BY <3>1, <3>2 DEF Pending
  <2> DEFINE a == IF i.create THEN 0 ELSE i.amount
  <2>5. amount' = [amount EXCEPT ![saving][i.dimension] = a] /\ status' = status
    BY <1>2 DEF SaveDisaggregation
  <2> HIDE DEF a
  <2>6. \A x \in Update, y \in DimensionValue :
            ~(x = saving /\ y = i.dimension) => amount'[x][y] = amount[x][y]
    BY <2>1, <2>5 DEF TypeOK
  <2> HIDE DEF old, new
  <2>7. \A c \in Cell \ new : \A x \in Update : Counted(x, c)' = Counted(x, c)
    BY <2>1, <2>3, <2>5, <2>6, AmountChange
  <2>8. UNCHANGED <<links, total>>
    BY <1>2 DEF SaveDisaggregation
  <2>9. QED
    BY <2>4, <2>7, <2>8, RowsChange DEF old, new
<1>3. ASSUME NEW u \in Update, NEW d \in DimensionValue, NEW a,
             /\ status' = status /\ amount' = [amount EXCEPT ![u][d] = a]
             /\ UNCHANGED <<links, total, stale>> /\ Idle /\ climb' = CellOf(u, d),
             d \in ValuesOf(u)
      PROVE  Accounted'
  <2>1. CellOf(u, d) \in new
    BY <1>3, CellOfIsCell, CellIsPair DEF Pending
  <2>2. old \subseteq new
    BY <1>3, IdleHasNothingPending
  <2>3. \A x \in Update, y \in DimensionValue :
            ~(x = u /\ y = d) => amount'[x][y] = amount[x][y]
    BY <1>3 DEF TypeOK
  <2> HIDE DEF old, new
  <2>4. \A c \in Cell \ new : \A x \in Update : Counted(x, c)' = Counted(x, c)
    BY <1>3, <2>1, <2>3, AmountChange
  <2>5. QED
    BY <1>3, <2>2, <2>4, RowsChange DEF old, new
<1>4. ASSUME NEW u \in Update, NEW d \in DimensionValue, RowStep(u, d)
      PROVE  Accounted'
  <2>1. PICK m \in Nat \cup {None} : amount' = [amount EXCEPT ![u][d] = m]
    BY <1>4, RowWritten
  <2>2. /\ UNCHANGED <<status, links, total, stale>> /\ Idle /\ climb' = CellOf(u, d)
        /\ d \in ValuesOf(u)
    BY <1>4, RowWritten
  <2>3. QED
    BY <1>3, <2>1, <2>2
<1>5. ASSUME NEW i \in todo, FindTwo(i)
      PROVE  Accounted'
  <2>1. UNCHANGED <<status, amount, links, total>>
    BY <1>5 DEF FindTwo, rows
  <2>2. old \subseteq new
    BY <1>5 DEF FindTwo
  <2>3. QED
    BY <2>1, <2>2, AccountedFrame
<1>6. ASSUME NEW us \in SUBSET Update, DeleteUpdates(us)
      PROVE  Accounted'
  BY <1>6, DeleteUpdatesAccounted
<1>7. ASSUME NEW us \in SUBSET Update, NEW s \in {"unapproved", "approved"},
             SetUpdatesStatus(us, s)
      PROVE  Accounted'
  BY <1>7, SetStatusAccounted
<1>8. ASSUME NEW d \in DimensionValue, DeleteDimensionValue(d)
      PROVE  Accounted'
  BY <1>8, DeleteValueAccounted
<1>9. ASSUME NEW p \in Project, NEW toChildren \in BOOLEAN, NEW toParent \in BOOLEAN,
             SaveProject(p, toChildren, toParent)
      PROVE  Accounted'
  <2>1. old \subseteq new /\ UNCHANGED <<status, amount, links, total>>
    BY <1>9, IdleHasNothingPending DEF SaveProject
  <2>2. QED
    BY <2>1, AccountedFrame
<1>10. ASSUME NEW p \in Project, RemoveParent(p)
       PROVE  Accounted'
  BY <1>10, RemoveParentAccounted
<1>11. CASE RecalculateAll
  BY <1>11, RecalculateAllAccounted
<1>12. CASE Climb
  BY <1>12, AggregateStepAccounted
<1>13. ASSUME NEW c \in loop, AggregateNext(c)
       PROVE  Accounted'
  BY <1>13, AggregateStepAccounted
<1>14. CASE Mark
  <2>1. old \subseteq new /\ UNCHANGED <<status, amount, links, total>>
    BY <1>14 DEF Mark, Pending, CellOf
  <2>2. QED
    BY <2>1, AccountedFrame
<1>15. CASE Abort
  <2>1. old \subseteq new /\ UNCHANGED <<status, amount, links, total>>
    BY <1>15 DEF Abort, rows
  <2>2. QED
    BY <2>1, AccountedFrame
<1>16. CASE UNCHANGED vars
  <2>1. old \subseteq new /\ UNCHANGED <<status, amount, links, total>>
    BY <1>16 DEF vars, rows, request, Pending, CellOf
  <2>2. QED
    BY <2>1, AccountedFrame
<1>17. QED
  <2>1. CASE UpdateStep
    BY <2>1, <1>1, <1>6, <1>7 DEF UpdateStep
  <2>2. CASE OtherRequest
    BY <2>2, <1>8, <1>9, <1>10, <1>11 DEF OtherRequest
  <2>3. CASE InnerStep
    BY <2>3, <1>2, <1>5, <1>12, <1>13, <1>14, <1>15 DEF InnerStep
  <2>4. QED
    BY <2>1, <2>2, <2>3, <1>4, <1>16, StepKinds

\* Without rows every total is 0.
LEMMA AccountedInit == Init => Accounted
<1> SUFFICES ASSUME Init, NEW c \in Cell
             PROVE  total[c] = LocalValue(c) + ContributedValue(c)
  BY DEF Accounted
<1>1. total[c] = 0
  BY DEF Init
<1>2. LocalValue(c) = 0
  <2>1. [u \in Update |-> Counted(u, c)] = [u \in Update |-> 0]
    BY DEF Init, Counted
  <2>2. Total([u \in Update |-> 0]) = 0
    BY TotalOfZeros
  <2>3. QED
    BY <2>1, <2>2 DEF LocalValue
<1>3. ContributedValue(c) = 0
  <2>1. [k \in Cell |-> IF k \in ChildCells(c) THEN total[k] ELSE 0] = [k \in Cell |-> 0]
    BY DEF Init
  <2>2. Total([k \in Cell |-> 0]) = 0
    BY TotalOfZeros
  <2>3. QED
    BY <2>1, <2>2 DEF ContributedValue
<1>4. QED
  BY <1>1, <1>2, <1>3

(* Adding up a whole subtree -----------------------------------------------*)

\* The tallies of a family are pairs of a member and a place below its number.
LEMMA TalliesOf ==
    ASSUME NEW S, NEW f, DOMAIN f = S, NEW t
    PROVE  t \in Tallies(f) <=> \E x \in S : \E i \in 1 .. f[x] : t = <<x, i>>
BY DEF Tallies, Tally

\* The sum over a partition is the sum of the sums over its parts.
LEMMA TotalOfParts ==
    ASSUME NEW S, IsFiniteSet(S), NEW f \in [S -> Nat],
           NEW K, IsFiniteSet(K), NEW B \in [K -> SUBSET S],
           \A x \in S : \E k \in K : x \in B[k],
           \A k, l \in K : k # l => B[k] \cap B[l] = {},
           NEW g \in [K -> Nat], \A k \in K : g[k] = Total([x \in B[k] |-> f[x]])
    PROVE  Total(g) = Total(f)
<1> DEFINE part(k) == [x \in B[k] |-> f[x]]
           b == [k \in K |-> CHOOSE h : h \in Bijection(1 .. g[k], Tallies(part(k)))]
           F == [t \in Tallies(g) |-> b[t[1]][t[2]]]
<1>1. ASSUME NEW k \in K
      PROVE  /\ b[k] \in [1 .. g[k] -> Tallies(part(k))]
             /\ \A i, j \in 1 .. g[k] : b[k][i] = b[k][j] => i = j
             /\ \A t \in Tallies(part(k)) : \E i \in 1 .. g[k] : b[k][i] = t
  <2>1. IsFiniteSet(B[k]) /\ part(k) \in [B[k] -> Nat]
    BY FS_Subset
  <2>2. IsFiniteSet(Tallies(part(k))) /\ g[k] = Cardinality(Tallies(part(k)))
    <3> HIDE DEF part
    <3>1. Total(part(k)) = Cardinality(Tallies(part(k))) /\ IsFiniteSet(Tallies(part(k)))
      BY <2>1, TotalType
    <3>2. g[k] = Total(part(k))
      BY DEF part
    <3>3. QED
      BY <3>1, <3>2
  <2>3. \E h : h \in Bijection(1 .. g[k], Tallies(part(k)))
    <3> HIDE DEF part
    <3>1. ExistsBijection(1 .. Cardinality(Tallies(part(k))), Tallies(part(k)))
      BY <2>2, FS_CardinalityType
    <3>2. QED
      BY <2>2, <3>1 DEF ExistsBijection
  <2>4. b[k] \in Bijection(1 .. g[k], Tallies(part(k)))
    <3> HIDE DEF part
    <3>1. b[k] = CHOOSE h : h \in Bijection(1 .. g[k], Tallies(part(k)))
      OBVIOUS
    <3>2. QED
      BY <2>3, <3>1
  <2> HIDE DEF b, part
  <2>5. QED
    BY <2>4 DEF Bijection, Injection, Surjection, IsInjective
<1>2. \A k \in K : \A t : t \in Tallies(part(k)) <=> \E x \in B[k] : \E i \in 1 .. f[x] : t = <<x, i>>
  <2> TAKE k \in K
  <2> TAKE t
  <2>1. DOMAIN part(k) = B[k] /\ \A x \in B[k] : part(k)[x] = f[x]
    OBVIOUS
  <2> HIDE DEF part
  <2>2. t \in Tallies(part(k)) <=> \E x \in B[k] : \E i \in 1 .. part(k)[x] : t = <<x, i>>
    BY <2>1, TalliesOf
  <2>3. QED
    BY <2>1, <2>2
<1>3. \A t : t \in Tallies(f) <=> \E x \in S : \E i \in 1 .. f[x] : t = <<x, i>>
  BY TalliesOf
<1>4. \A t : t \in Tallies(g) <=> \E k \in K : \E i \in 1 .. g[k] : t = <<k, i>>
  BY TalliesOf
<1> HIDE DEF b, part
<1>5. ASSUME NEW t \in Tallies(g)
      PROVE  /\ t[1] \in K /\ t[2] \in 1 .. g[t[1]] /\ t = <<t[1], t[2]>>
             /\ F[t] \in Tallies(part(t[1])) /\ F[t] \in Tallies(f)
  <2>1. t[1] \in K /\ t[2] \in 1 .. g[t[1]] /\ t = <<t[1], t[2]>>
    BY <1>4
  <2>2. F[t] \in Tallies(part(t[1]))
    BY <1>1, <2>1
  <2>3. B[t[1]] \subseteq S
    BY <2>1
  <2>4. F[t] \in Tallies(f)
    BY <1>2, <1>3, <2>1, <2>2, <2>3
  <2>5. QED
    BY <2>1, <2>2, <2>4
<1>6. ASSUME NEW t \in Tallies(g), NEW s \in Tallies(g), F[t] = F[s]
      PROVE  t = s
  <2>1. t[1] = s[1]
    <3>1. PICK x \in B[t[1]] : \E i \in 1 .. f[x] : F[t] = <<x, i>>
      BY <1>2, <1>5
    <3>2. PICK y \in B[s[1]] : \E i \in 1 .. f[y] : F[s] = <<y, i>>
      BY <1>2, <1>5
    <3>3. x = y
      BY <1>6, <3>1, <3>2
    <3>4. QED
      BY <1>5, <3>3
  <2>2. F[t] = b[t[1]][t[2]] /\ F[s] = b[s[1]][s[2]]
    OBVIOUS
  <2>3. t[2] = s[2]
    BY <1>1, <1>5, <1>6, <2>1, <2>2
  <2>4. QED
    BY <1>5, <2>1, <2>3
<1>7. ASSUME NEW t \in Tallies(f)
      PROVE  \E s \in Tallies(g) : F[s] = t
  <2>1. PICK x \in S : \E i \in 1 .. f[x] : t = <<x, i>>
    BY <1>3
  <2>2. PICK k \in K : x \in B[k]
    OBVIOUS
  <2>3. t \in Tallies(part(k))
    BY <1>2, <2>1, <2>2
  <2>4. PICK i \in 1 .. g[k] : b[k][i] = t
    BY <1>1, <2>3
  <2>5. <<k, i>> \in Tallies(g)
    BY <1>4
  <2>6. F[<<k, i>>] = t
    BY <2>4, <2>5
  <2>7. QED
    BY <2>5, <2>6
<1>8. F \in Bijection(Tallies(g), Tallies(f))
  <2>1. F \in [Tallies(g) -> Tallies(f)]
    BY <1>5
  <2> HIDE DEF F
  <2>2. QED
    BY <1>6, <1>7, <2>1 DEF Bijection, Injection, Surjection, IsInjective
<1>9. IsFiniteSet(Tallies(g)) /\ Total(g) = Cardinality(Tallies(g))
      /\ Total(f) = Cardinality(Tallies(f))
  BY TotalType
<1>10. QED
  BY <1>8, <1>9, FS_Bijection DEF ExistsBijection

\* One more member adds its number to the sum.
LEMMA TotalWithOne ==
    ASSUME NEW S, IsFiniteSet(S), NEW c, c \notin S, NEW f \in [S \cup {c} -> Nat]
    PROVE  Total(f) = f[c] + Total([x \in S |-> f[x]])
<1> DEFINE r == [x \in S |-> f[x]]
<1>1. r \in [S -> Nat] /\ f[c] \in Nat /\ DOMAIN f = S \cup {c}
  OBVIOUS
<1>2. IsFiniteSet(S \cup {c})
  BY FS_AddElement
<1>3. Tallies(f) = Tally(c, f[c]) \cup Tallies(r)
  <2>1. \A x \in S : r[x] = f[x]
    OBVIOUS
  <2>2. DOMAIN r = S
    OBVIOUS
  <2> HIDE DEF r
  <2>3. QED
    BY <1>1, <2>1, <2>2 DEF Tallies
<1>4. Tally(c, f[c]) \cap Tallies(r) = {}
  BY DEF Tallies, Tally
<1>5. Total(r) = Cardinality(Tallies(r)) /\ IsFiniteSet(Tallies(r)) /\ Total(r) \in Nat
  <2> HIDE DEF r
  <2>1. QED
    BY <1>1, TotalType
<1>6. Total(f) = Cardinality(Tallies(f))
  BY <1>2, TotalType
<1>7. IsFiniteSet(Tally(c, f[c])) /\ Cardinality(Tally(c, f[c])) = f[c]
  BY <1>1, TallySize
<1>8. Cardinality(Tallies(f)) = Cardinality(Tally(c, f[c])) + Cardinality(Tallies(r)) - Cardinality({})
  <2> HIDE DEF r
  <2>1. QED
    BY <1>3, <1>4, <1>5, <1>7, FS_Union
<1>9. Cardinality({}) = 0
  BY FS_EmptySet
<1> HIDE DEF r
<1>10. Total(f) = f[c] + Total(r)
  BY <1>1, <1>5, <1>6, <1>7, <1>8, <1>9
<1>11. QED
  BY <1>10 DEF r

\* The cells below c are c and whatever is reached through child cells, and no more.
LEMMA BelowIsClosed ==
    ASSUME NEW c \in Cell
    PROVE  /\ c \in Below(c) /\ Below(c) \subseteq Cell
           /\ \A x \in Below(c) : ChildCells(x) \subseteq Below(c)
<1>1. \A x : ChildCells(x) \subseteq Cell
  BY DEF ChildCells
<1>2. QED
  BY <1>1 DEF Below

\* The cells below c are in every set that has c and the child cells of its
\* own.
LEMMA BelowIsLeast ==
    ASSUME NEW c \in Cell, NEW S \in SUBSET Cell, c \in S,
           \A x \in S : ChildCells(x) \subseteq S
    PROVE  Below(c) \subseteq S
BY DEF Below

\* A cell below another, and not the same, has its parent cell there too.
LEMMA ParentIsBelow ==
    ASSUME TypeOK, LinksKept, NEW c \in Cell, NEW x \in Below(c), x # c
    PROVE  ParentCell(x) \in Below(c)
<1> DEFINE S == {y \in Below(c) : y = c \/ ParentCell(y) \in Below(c)}
<1>1. c \in S /\ S \in SUBSET Cell
  BY BelowIsClosed
<1>2. ASSUME NEW y \in S, NEW z \in ChildCells(y)
      PROVE  z \in S
  <2>1. y \in Cell /\ y \in Below(c) /\ z \in Cell
    BY BelowIsClosed DEF ChildCells
  <2>2. z \in Below(c)
    BY <2>1, BelowIsClosed
  <2>3. ParentCell(z) = y
    BY <2>1, ChildCellsAreBelow
  <2>4. QED
    BY <2>1, <2>2, <2>3
<1>3. Below(c) \subseteq S
  <2> HIDE DEF S
  <2>1. QED
    BY <1>1, <1>2, BelowIsLeast
<1>4. QED
  BY <1>3

\* No cell is below one of its child cells.
LEMMA NotBelowItsChild ==
    ASSUME TypeOK, LinksKept, NEW c \in Cell, NEW k \in ChildCells(c)
    PROVE  c \notin Below(k)
<1>1. PICK height \in [Period -> 0 .. Cardinality(Period)] :
         \A q \in Period : LinkedPeriod[q] # None => height[q] < height[LinkedPeriod[q]]
  BY DisaggregationAssumption
<1>2. Cardinality(Period) \in Nat
  BY DisaggregationAssumption, FS_CardinalityType
<1>3. \A x \in Cell : height[x[1]] \in Nat
  BY <1>2, CellIsPair
<1> DEFINE S == {x \in Cell : height[x[1]] <= height[k[1]]}
<1>4. k \in Cell /\ height[k[1]] < height[c[1]]
  BY <1>1, ChildIsLower
<1>5. k \in S
  BY <1>3, <1>4
<1>6. ASSUME NEW x \in S, NEW y \in ChildCells(x)
      PROVE  y \in S
  <2>1. x \in Cell /\ height[x[1]] <= height[k[1]]
    OBVIOUS
  <2>2. y \in Cell /\ height[y[1]] < height[x[1]]
    BY <1>1, <2>1, ChildIsLower
  <2>3. QED
    BY <1>3, <1>4, <2>1, <2>2
<1>7. Below(k) \subseteq S
  <2>1. S \in SUBSET Cell
    OBVIOUS
  <2> HIDE DEF S
  <2>2. QED
    BY <1>4, <1>5, <1>6, <2>1, BelowIsLeast
<1>8. c \notin S
  BY <1>3, <1>4
<1>9. QED
  BY <1>7, <1>8

\* The subtrees of two child cells have nothing in common: a cell has one parent.
LEMMA SubtreesAreDisjoint ==
    ASSUME TypeOK, LinksKept, NEW c \in Cell, NEW k \in ChildCells(c),
           NEW l \in ChildCells(c), k # l
    PROVE  Below(k) \cap Below(l) = {}
<1>1. /\ k \in Cell /\ l \in Cell /\ ParentCell(k) = c /\ ParentCell(l) = c
      /\ c \notin Below(k) /\ c \notin Below(l)
  <2>1. k \in Cell /\ l \in Cell
    BY DEF ChildCells
  <2>2. QED
    BY <2>1, ChildCellsAreBelow, NotBelowItsChild
<1> DEFINE S == {x \in Below(k) : x \notin Below(l)}
<1>2. k \in S
  <2>1. k \in Below(k)
    BY <1>1, BelowIsClosed
  <2>2. k \notin Below(l)
    BY <1>1, ParentIsBelow
  <2>3. QED
    BY <2>1, <2>2
<1>3. ASSUME NEW x \in S, NEW y \in ChildCells(x)
      PROVE  y \in S
  <2>1. x \in Cell /\ y \in Cell /\ y \in Below(k)
    BY <1>1, BelowIsClosed DEF ChildCells
  <2>2. ParentCell(y) = x
    BY <2>1, ChildCellsAreBelow
  <2>3. ASSUME y \in Below(l)
        PROVE  FALSE
    <3>1. CASE y = l
      BY <1>1, <2>2, <3>1
    <3>2. CASE y # l
      BY <1>1, <2>2, <2>3, <3>2, ParentIsBelow
    <3>3. QED
      BY <3>1, <3>2
  <2>4. QED
    BY <2>1, <2>3
<1>4. Below(k) \subseteq S
  <2>1. S \in SUBSET Cell
    BY <1>1, BelowIsClosed
  <2> HIDE DEF S
  <2>2. QED
    BY <1>1, <1>2, <1>3, <2>1, BelowIsLeast
<1>5. QED
  BY <1>4

\* The cells below c are c and those below its child cells.
LEMMA BelowSplits ==
    ASSUME NEW c \in Cell
    PROVE  Below(c) = {c} \cup UNION {Below(k) : k \in ChildCells(c)}
<1> DEFINE S == {c} \cup UNION {Below(k) : k \in ChildCells(c)}
<1>1. ChildCells(c) \subseteq Cell
  BY DEF ChildCells
<1>2. \A k \in ChildCells(c) : k \in Cell /\ k \in Below(k) /\ Below(k) \subseteq Cell
  BY <1>1, BelowIsClosed
<1>3. S \in SUBSET Cell /\ c \in S
  BY <1>2
<1>4. ASSUME NEW x \in S
      PROVE  ChildCells(x) \subseteq S
  <2>1. CASE x = c
    BY <1>2, <2>1
  <2>2. ASSUME NEW k \in ChildCells(c), x \in Below(k)
        PROVE  ChildCells(x) \subseteq S
    <3>1. ChildCells(x) \subseteq Below(k)
      BY <1>2, <2>2, BelowIsClosed
    <3>2. QED
      BY <3>1
  <2>3. QED
    BY <2>1, <2>2
<1>5. Below(c) \subseteq S
  <2> HIDE DEF S
  <2>1. QED
    BY <1>3, <1>4, BelowIsLeast
<1>6. ASSUME NEW k \in ChildCells(c)
      PROVE  Below(k) \subseteq Below(c)
  <2>1. k \in Below(c) /\ Below(c) \in SUBSET Cell
    BY BelowIsClosed
  <2>2. \A x \in Below(c) : ChildCells(x) \subseteq Below(c)
    BY BelowIsClosed
  <2>3. QED
    BY <1>2, <2>1, <2>2, BelowIsLeast
<1>7. QED
  BY <1>5, <1>6, BelowIsClosed

\* The least element of a finite set of numbers: the one with the smallest set of
\* elements up to it.
LEMMA LeastNatural ==
    ASSUME NEW T, T \subseteq Nat, IsFiniteSet(T), T # {}
    PROVE  \E n \in T : \A m \in T : n <= m
<1> DEFINE UpTo(n) == {m \in T : m <= n}
           Sets == {UpTo(n) : n \in T}
<1>1. IsWellFoundedOn(StrictSubsetOrdering(T), SUBSET T)
  <2>1. FiniteSubsetsOf(T) = SUBSET T
    BY FS_FiniteSubsetsOfFinite
  <2>2. IsWellFoundedOn(StrictSubsetOrdering(T), FiniteSubsetsOf(T))
    BY FS_StrictSubsetOrderingWellFounded, Zenon
  <2>3. QED
    BY <2>1, <2>2, Zenon
<1>2. Sets \subseteq SUBSET T /\ Sets # {}
  OBVIOUS
<1>3. PICK X \in Sets : \A Y \in Sets : ~(<<Y, X>> \in StrictSubsetOrdering(T))
  <2> HIDE DEF Sets
  <2>1. QED
    BY <1>1, <1>2, WFMin
<1>4. PICK n \in T : X = UpTo(n)
  OBVIOUS
<1>5. ASSUME NEW m \in T, ~(n <= m)
      PROVE  FALSE
  <2>1. m \in Nat /\ n \in Nat
    OBVIOUS
  <2>2. UpTo(m) \subseteq UpTo(n) /\ n \in UpTo(n) /\ n \notin UpTo(m)
    <3>1. \A k \in T : k \in Nat /\ (k <= m => k <= n)
      <4>1. \A k \in T : k \in Nat
        OBVIOUS
      <4>2. QED
        BY <1>5, <2>1, <4>1
    <3>2. n <= n
      BY <2>1
    <3>3. QED
      BY <1>5, <3>1, <3>2
  <2>3. <<UpTo(m), UpTo(n)>> \in StrictSubsetOrdering(T)
    BY <2>2 DEF StrictSubsetOrdering
  <2>4. QED
    BY <1>3, <1>4, <2>3
<1>6. QED
  BY <1>5

\* There are finitely many periods and dimension values, hence cells.
LEMMA CellsAreFinite == IsFiniteSet(Cell)
<1>1. IsFiniteSet(Period \X DimensionValue)
  BY DisaggregationAssumption, FS_Product
<1>2. QED
  BY <1>1, FS_Subset DEF Cell

\* Where the totals of the child cells are the sums of their subtrees and the cell
\* is accounted for, so is its total.
LEMMA SubtreeStep ==
    ASSUME TypeOK, LinksKept, NEW c \in Cell,
           total[c] = LocalValue(c) + ContributedValue(c),
           \A k \in ChildCells(c) : total[k] = Total([x \in Below(k) |-> LocalValue(x)])
    PROVE  total[c] = Total([x \in Below(c) |-> LocalValue(x)])
<1> DEFINE K == ChildCells(c)
           S == UNION {Below(k) : k \in K}
           B == [k \in K |-> Below(k)]
           f == [x \in S |-> LocalValue(x)]
           g == [k \in K |-> total[k]]
           h == [x \in Below(c) |-> LocalValue(x)]
<1>1. K \subseteq Cell /\ IsFiniteSet(K)
  BY CellsAreFinite, FS_Subset DEF ChildCells
<1>2. \A k \in K : Below(k) \subseteq Cell
  BY <1>1, BelowIsClosed
<1>3. S \subseteq Cell /\ IsFiniteSet(S)
  BY <1>2, CellsAreFinite, FS_Subset
<1>4. f \in [S -> Nat]
  BY <1>3, SumsType
<1>5. g \in [K -> Nat]
  BY <1>1 DEF TypeOK
<1>6. B \in [K -> SUBSET S]
  OBVIOUS
<1>7. \A x \in S : \E k \in K : x \in B[k]
  OBVIOUS
<1>8. \A k, l \in K : k # l => B[k] \cap B[l] = {}
  BY SubtreesAreDisjoint
<1>9. \A k \in K : g[k] = Total([x \in B[k] |-> f[x]])
  <2> SUFFICES ASSUME NEW k \in K
               PROVE  g[k] = Total([x \in B[k] |-> f[x]])
    OBVIOUS
  <2>1. B[k] = Below(k) /\ \A x \in Below(k) : f[x] = LocalValue(x)
    OBVIOUS
  <2>2. [x \in B[k] |-> f[x]] = [x \in Below(k) |-> LocalValue(x)]
    <3> HIDE DEF B, f
    <3>1. QED
      BY <2>1
  <2>3. QED
    BY <2>2
<1>10. Total(g) = Total(f)
  <2> HIDE DEF K, S, B, f, g
  <2>1. QED
    BY <1>1, <1>3, <1>4, <1>5, <1>6, <1>7, <1>8, <1>9, TotalOfParts
<1>11. ContributedValue(c) = Total(g)
  <2> DEFINE e == [k \in Cell |-> IF k \in ChildCells(c) THEN total[k] ELSE 0]
  <2>1. e \in [Cell -> Nat]
    BY DEF TypeOK
  <2>2. (\A k \in K : e[k] = g[k]) /\ (\A k \in Cell \ K : e[k] = 0)
    BY <1>1
  <2>3. ContributedValue(c) = Total(e)
    BY DEF ContributedValue
  <2> HIDE DEF e, g, K
  <2>4. QED
    BY <1>1, <1>5, <2>1, <2>2, <2>3, TotalOfSome
<1>12. Below(c) = S \cup {c} /\ c \notin S
  BY BelowSplits, NotBelowItsChild
<1>13. h \in [S \cup {c} -> Nat]
  BY <1>3, <1>12, SumsType
<1>14. h[c] = LocalValue(c) /\ [x \in S |-> h[x]] = f
  BY <1>12
<1>15. Total(h) = LocalValue(c) + Total(f)
  <2> HIDE DEF S, h, f
  <2>1. Total(h) = h[c] + Total([x \in S |-> h[x]])
    BY <1>3, <1>12, <1>13, TotalWithOne
  <2>2. QED
    BY <1>14, <2>1
<1>16. QED
  BY <1>10, <1>11, <1>15

\* Level by level: a cell of least height whose total is not the sum of its subtree
\* would have child cells whose totals are.
LEMMA AccountedAddsUp ==
    ASSUME TypeOK, LinksKept, Accounted
    PROVE  SubtreeAddedUp
<1> DEFINE Settled(c) == Below(c) \cap (Pending \cup stale) = {}
           Sum(c) == Total([k \in Below(c) |-> LocalValue(k)])
<1>1. PICK height \in [Period -> 0 .. Cardinality(Period)] :
         \A q \in Period : LinkedPeriod[q] # None => height[q] < height[LinkedPeriod[q]]
  BY DisaggregationAssumption
<1>2. Cardinality(Period) \in Nat
  BY DisaggregationAssumption, FS_CardinalityType
<1>3. \A x \in Cell : height[x[1]] \in 0 .. Cardinality(Period)
  BY <1>2, CellIsPair
<1> DEFINE Heights == {height[c[1]] : c \in {x \in Cell : Settled(x) /\ total[x] # Sum(x)}}
<1>4. Heights \subseteq 0 .. Cardinality(Period)
  BY <1>3
<1>5. Heights \subseteq Nat /\ IsFiniteSet(Heights)
  <2>1. IsFiniteSet(0 .. Cardinality(Period)) /\ 0 .. Cardinality(Period) \subseteq Nat
    <3>1. 0 \in Int /\ Cardinality(Period) \in Int
      BY <1>2
    <3>2. IsFiniteSet(0 .. Cardinality(Period))
      BY <3>1, FS_Interval
    <3>3. QED
      BY <1>2, <3>2
  <2> HIDE DEF Heights
  <2>2. Heights \subseteq Nat
    BY <1>4, <2>1
  <2>3. IsFiniteSet(Heights)
    BY <1>4, <2>1, FS_Subset
  <2>4. QED
    BY <2>2, <2>3
<1>6. Heights = {}
  <2> SUFFICES ASSUME Heights # {}
               PROVE  FALSE
    OBVIOUS
  <2>1. PICK n \in Heights : \A m \in Heights : n <= m
    <3> HIDE DEF Heights
    <3>1. QED
      BY <1>5, LeastNatural
  <2>2. PICK c \in Cell : Settled(c) /\ total[c] # Sum(c) /\ n = height[c[1]]
    OBVIOUS
  <2>3. ASSUME NEW k \in ChildCells(c)
        PROVE  total[k] = Sum(k)
    <3>1. k \in Cell /\ height[k[1]] < height[c[1]]
      BY <1>1, ChildIsLower
    <3>2. Below(k) \subseteq Below(c)
      BY BelowSplits
    <3>3. Settled(k)
      BY <2>2, <3>2
    <3>4. ASSUME total[k] # Sum(k)
          PROVE  FALSE
      <4>1. height[k[1]] \in Heights
        BY <3>1, <3>3, <3>4
      <4>2. height[c[1]] <= height[k[1]]
        BY <2>1, <2>2, <4>1
      <4>3. height[k[1]] \in Nat /\ height[c[1]] \in Nat
        BY <1>2, <1>3, <3>1
      <4>4. QED
        BY <3>1, <4>2, <4>3
    <3>5. QED
      BY <3>4
  <2>4. c \notin Pending /\ c \notin stale
    BY <2>2, BelowIsClosed
  <2>5. total[c] = LocalValue(c) + ContributedValue(c)
    BY <2>4 DEF Accounted
  <2>6. total[c] = Sum(c)
    BY <2>3, <2>5, SubtreeStep
  <2>7. QED
    BY <2>2, <2>6
<1>7. ASSUME NEW c \in Cell, Settled(c)
      PROVE  total[c] = Sum(c)
  BY <1>6, <1>7
<1>8. QED
  BY <1>7 DEF SubtreeAddedUp

\* Where no total below was left out, a total is the sum of the approved
\* disaggregations of the whole subtree, each once, for every hierarchy without a
\* cycle: aggregate only ever looks one level down, and its climbs, the deletions,
\* the resaves and the status changes make that enough.
THEOREM SubtreeInvariant == Spec => []SubtreeAddedUp
<1> DEFINE Inv == TypeOK /\ Prepared /\ LinksKept /\ Accounted
<1>1. Init => Inv
  BY TypeInit, AccountedInit
<1>2. Inv /\ [Next]_vars => Inv'
  BY TypeStep, PreparedStep, LinksStep, AccountedStep
<1>3. Inv => SubtreeAddedUp
  BY AccountedAddsUp
<1>4. QED
  BY <1>1, <1>2, <1>3, PTL DEF Spec
===============================================================================
