--------------------------- MODULE Disaggregation ---------------------------
(***************************************************************************)
(* Disaggregated values: an update splits its value over the values of a   *)
(* dimension ("women", "men"), and every period keeps a total for each of  *)
(* them (IndicatorPeriodDisaggregation), its own approved updates and the  *)
(* totals of its child periods added up.                                   *)
(*                                                                         *)
(* The totals follow the disaggregations and not the updates: signals of   *)
(* Disaggregation alone recompute a total and climb to the parent period.  *)
(* The serializer of an update saves the update first and the              *)
(* disaggregations it was sent one after the other: in a transaction for a *)
(* POST (rest/viewsets.py), outside one for a PATCH.  A PATCH of a         *)
(* disaggregation changes its value only here.  The actual values of the   *)
(* periods are the subject of PeriodAggregation.                           *)
(***************************************************************************)
EXTENDS Naturals, FiniteSets

CONSTANTS
    Project,        \* the projects of the hierarchy
    Period,         \* indicator periods
    DimensionValue, \* IndicatorDimensionValue: one dimension for each project
    Update,         \* the rows IndicatorPeriodData may hold
    Value,          \* values an update may have
    Amount,         \* values a disaggregation may have (0 is an empty value)
    ProjectOf,      \* period.indicator.result.project
    DimensionOf,    \* dimension_value.name.project
    PeriodOf,       \* update.period
    LinkedPeriod,   \* parent_period as the import of the framework made it
    LinkedValue,    \* parent_dimension_value as the import made it
    None,           \* the null foreign key, and no row
    MaxInterventions \* bound: calls around the updates' own endpoint, and crashes;
                    \* switching aggregation on again is not counted

ASSUME DisaggregationAssumption ==
    /\ Value \subseteq Nat /\ Amount \subseteq Nat
    /\ ProjectOf \in [Period -> Project]
    /\ DimensionOf \in [DimensionValue -> Project]
    /\ PeriodOf \in [Update -> Period]
    /\ LinkedPeriod \in [Period -> Period \cup {None}]
    /\ LinkedValue \in [DimensionValue -> DimensionValue \cup {None}]
    /\ None \notin Nat \cup Period \cup DimensionValue \cup Update
    /\ None \notin Period \X DimensionValue
    /\ IsFiniteSet(Period) /\ IsFiniteSet(DimensionValue) /\ IsFiniteSet(Update)
    /\ MaxInterventions \in Nat
    \* An import links a project's periods and dimension values to the same parent.
    /\ \A q \in Period, d \in DimensionValue :
          ProjectOf[q] = DimensionOf[d] /\ LinkedPeriod[q] # None /\ LinkedValue[d] # None
              => ProjectOf[LinkedPeriod[q]] = DimensionOf[LinkedValue[d]]
    \* No period is linked above itself.
    /\ \E height \in [Period -> 0 .. Cardinality(Period)] :
          \A q \in Period : LinkedPeriod[q] # None => height[q] < height[LinkedPeriod[q]]

VARIABLES
    status,             \* "none" (no row), "unapproved" or "approved"
    value,              \* IndicatorPeriodData.value
    amount,             \* Disaggregation.value by update and dimension value, added up
    second,             \* the part of it in a second row (bound: there is no third)
    incomplete,         \* Disaggregation.incomplete_data
    orphaned,           \* updates with a disaggregation of a deleted value
    parentPeriod, parentValue, live,    \* links, and the dimension values there are
    aggregateChildren, aggregateToParent,
    total,              \* IndicatorPeriodDisaggregation.value (0: no row, or null)
    todo,               \* disaggregations the running request still has to save
    saving,             \* the update it saves them for
    loop, climb,        \* cells it goes on to recompute
    marking,            \* the update whose flags the second signal handler sets
    atomic,             \* inside the transaction of a POST or of Django's delete
    stale, unmarked,    \* history: totals, updates that no signal kept up to date
    interventions       \* how many there were (MaxInterventions)

rows == <<status, value, amount, second, incomplete, orphaned>>
links == <<parentPeriod, parentValue, live>>
flags == <<aggregateChildren, aggregateToParent>>
request == <<todo, saving, loop, climb, marking, atomic>>
vars == <<rows, links, flags, total, request, stale, unmarked, interventions>>

\* A cell: the total a period keeps for a value of its project's dimension.
Cell == {c \in Period \X DimensionValue : ProjectOf[c[1]] = DimensionOf[c[2]]}
ValuesOf(u) == {d \in DimensionValue : DimensionOf[d] = ProjectOf[PeriodOf[u]]}
Item == [dimension : DimensionValue, amount : Amount, create : BOOLEAN]

TypeOK ==
    /\ status \in [Update -> {"none", "unapproved", "approved"}]
    /\ value \in [Update -> Nat]
    /\ amount \in [Update -> [DimensionValue -> Nat \cup {None}]]
    /\ second \in [Update -> [DimensionValue -> Nat \cup {None}]]
    /\ incomplete \in [Update -> SUBSET DimensionValue]
    /\ orphaned \subseteq Update
    /\ parentPeriod \in [Period -> Period \cup {None}]
    /\ parentValue \in [live -> live \cup {None}]
    /\ live \subseteq DimensionValue
    /\ aggregateChildren \in [Project -> BOOLEAN]
    /\ aggregateToParent \in [Project -> BOOLEAN]
    /\ total \in [Cell -> Nat]
    /\ todo \subseteq Item
    /\ saving \in Update \cup {None}
    /\ loop \subseteq Cell
    /\ climb \in Cell \cup {None}
    /\ marking \in Update \cup {None}
    /\ atomic \in BOOLEAN
    /\ stale \subseteq Cell /\ unmarked \subseteq Update
    /\ interventions \in 0 .. MaxInterventions
    \* A row exists only of an update and for a dimension value that exist.
    /\ \A u \in Update : \A d \in DimensionValue :
          amount[u][d] # None => status[u] # "none" /\ d \in ValuesOf(u) \cap live
    /\ \A u \in Update : \A d \in DimensionValue :
          second[u][d] # None => amount[u][d] # None /\ second[u][d] <= amount[u][d]
    /\ \A u \in orphaned : status[u] # "none"

-----------------------------------------------------------------------------
RowsOf(u) == {d \in DimensionValue : amount[u][d] # None}
CellOf(u, d) == <<PeriodOf[u], d>>
CellsOf(u) == {CellOf(u, d) : d \in RowsOf(u)}

\* The sum of a finite family of naturals is a cardinality, not a fold, so that the
\* proofs need no induction over a recursive definition.
Total(f) == Cardinality(UNION {{x} \X (1 .. f[x]) : x \in DOMAIN f})

\* _get_local_values: the approved updates' disaggregations.
Counted(u, c) ==
    IF PeriodOf[u] = c[1] /\ status[u] = "approved" /\ amount[u][c[2]] # None
      THEN amount[u][c[2]] ELSE 0
LocalValue(c) == Total([u \in Update |-> Counted(u, c)])

\* The totals _get_contributed_values adds: all child periods, whether or not
\* their projects aggregate to the parent.
ChildCells(c) ==
    {k \in Cell : /\ parentPeriod[k[1]] = c[1]
                  /\ k[2] \in live /\ parentValue[k[2]] = c[2]}

ContributedValue(c) ==
    Total([k \in Cell |-> IF k \in ChildCells(c) THEN total[k] ELSE 0])

\* The parent's cell, as far as both links go.
ParentCell(c) ==
    IF parentPeriod[c[1]] # None /\ parentValue[c[2]] # None
      THEN <<parentPeriod[c[1]], parentValue[c[2]]>> ELSE None

\* Cells whose total, not nothing, is part of another one.
Linked == {k \in Cell : k[2] \in live /\ ParentCell(k) # None /\ total[k] > 0}

\* The test at the end of aggregate.
GoesUp(c) ==
    /\ ParentCell(c) # None
    /\ aggregateChildren[ProjectOf[parentPeriod[c[1]]]]
    /\ aggregateToParent[ProjectOf[c[1]]]

\* The flag that update_incomplete_data gives to all siblings alike.
Flagged(v, amounts) ==
    LET given == {d \in DimensionValue : amounts[d] # None}
    IN  IF Total([d \in given |-> amounts[d]]) # v THEN given ELSE {}

\* The updates a recalculation of q's actual value may save again: those of q
\* and of the periods above that the chain of saves may reach (it stops at the
\* first whose actual value stays the same).  Each save sets the flags of the
\* update's disaggregations.
SavedAgain(q) ==
    {u \in Update : status[u] # "none" /\
        \A S \in SUBSET Period :
            (/\ q \in S
             /\ \A x \in S : (/\ parentPeriod[x] # None
                             /\ aggregateChildren[ProjectOf[parentPeriod[x]]]
                             /\ aggregateToParent[ProjectOf[x]])
                            => parentPeriod[x] \in S) => PeriodOf[u] \in S}

\* The flags of the updates us are set.
SetFlags(us) ==
    /\ incomplete' = [u \in Update |->
                         IF u \in us THEN Flagged(value'[u], amount'[u]) ELSE incomplete[u]]
    /\ unmarked' = unmarked \ us

-----------------------------------------------------------------------------
Intervene ==
    /\ interventions < MaxInterventions
    /\ interventions' = interventions + 1

Idle == todo = {} /\ loop = {} /\ climb = None /\ marking = None
Pending == loop \cup ({climb} \ {None}) \cup {CellOf(saving, i.dimension) : i \in todo}

Init ==
    /\ status = [u \in Update |-> "none"]
    /\ value = [u \in Update |-> 0]
    /\ amount = [u \in Update |-> [d \in DimensionValue |-> None]]
    /\ second = [u \in Update |-> [d \in DimensionValue |-> None]]
    /\ incomplete = [u \in Update |-> {}]
    /\ orphaned = {}
    /\ parentPeriod = LinkedPeriod
    /\ parentValue = LinkedValue
    /\ live = DimensionValue
    /\ aggregateChildren = [p \in Project |-> TRUE]
    /\ aggregateToParent = [p \in Project |-> TRUE]
    /\ total = [c \in Cell |-> 0]
    /\ todo = {} /\ saving = None
    /\ loop = {} /\ climb = None /\ marking = None /\ atomic = FALSE
    /\ stale = {} /\ unmarked = {}
    /\ interventions = 0

\* _validate_disaggregations: with those it is not sent, the disaggregations
\* must not exceed the value; when none is sent nothing is validated.
Valid(u, v, sent) ==
    sent = {} \/
        Total([i \in sent |-> i.amount]) +
        Total([d \in RowsOf(u) \ {i.dimension : i \in sent} |-> amount[u][d]]) <= v

\* The disaggregations of a request: any of the project's dimension values,
\* each once.  One that an existing update lacks is created empty by
\* get_or_create and saved a second time with its amount.
Requests(u) ==
    {{[dimension |-> d, amount |-> f[d],
       create |-> status[u] # "none" /\ amount[u][d] = None] : d \in DOMAIN f} :
     f \in UNION {[D -> Amount] : D \in SUBSET (ValuesOf(u) \cap live)}}

\* Cells of u that its new status changes and the request does not recompute.
Unannounced(u, s, sent) ==
    IF (status[u] = "approved") = (s = "approved") THEN {}
    ELSE {CellOf(u, d) : d \in {x \in RowsOf(u) : amount[u][x] > 0}
                               \ {i.dimension : i \in sent}}

\* What the recalculation of an approved update saves besides the update.
Others(u, s) == IF s = "approved" THEN SavedAgain(PeriodOf[u]) \ {u} ELSE {}

\* Saving u raises whatever the actual values are.
Raises(u, s) ==
    u \in orphaned \/ \E o \in Others(u, s) \cap orphaned : PeriodOf[o] = PeriodOf[u]

\* create and update of the update's serializer.  Saving the row sends the
\* signal that sets the flags of the disaggregations there already are, and so
\* do the saves of other updates when the actual value is recalculated.  If one of
\* them raises in a POST, all of it is undone, as if it had not been made.
SaveUpdate(u, s, v, sent) ==
    /\ Idle
    /\ Valid(u, v, sent)
    /\ ~Raises(u, s)
    /\ status' = [status EXCEPT ![u] = s]
    /\ value' = [value EXCEPT ![u] = v]
    /\ todo' = sent
    /\ saving' = IF sent = {} THEN None ELSE u
    /\ atomic' = (status[u] = "none" /\ sent # {})
    /\ stale' = stale \cup Unannounced(u, s, sent)
    /\ UNCHANGED <<amount, second, orphaned, links, flags, total, loop, climb, marking,
                   interventions>>
    /\ \E others \in SUBSET (Others(u, s) \ orphaned) : SetFlags({u} \cup others)

\* A disaggregation whose dimension value was deleted makes the signal's handler
\* ask None for its name.  It raises when the row is written already, and may
\* raise on a row that is only saved again, here or at an ancestor's period:
\* the disaggregations that were sent are never saved.
SaveOrphaned(u, s, v, sent) ==
    /\ Idle
    /\ status[u] # "none" /\ Valid(u, v, sent)
    /\ ({u} \cup Others(u, s)) \cap orphaned # {}
    /\ status' = [status EXCEPT ![u] = s]
    /\ value' = [value EXCEPT ![u] = v]
    /\ stale' = stale \cup Unannounced(u, s, {})
    /\ UNCHANGED <<amount, second, orphaned, links, flags, total, request, interventions>>
    /\ \E others \in SUBSET (Others(u, s) \ orphaned) :
          IF u \in orphaned
            THEN /\ \/ UNCHANGED incomplete        \* whichever row came first
                    \/ incomplete' = [incomplete EXCEPT ![u] = Flagged(v, amount[u])]
                 /\ unmarked' = unmarked \cup {u}
            ELSE SetFlags({u} \cup others)

\* One of the disaggregations the serializer was sent is saved: the first
\* handler climbs, the second sets the flags.
SaveDisaggregation(i) ==
    LET u == saving
    IN  /\ i \in todo /\ climb = None /\ marking = None
        /\ second[u][i.dimension] = None
        /\ amount' = [amount EXCEPT ![u][i.dimension] =
                          IF i.create THEN 0 ELSE i.amount]
        /\ todo' = (todo \ {i}) \cup
                       (IF i.create THEN {[i EXCEPT !.create = FALSE]} ELSE {})
        /\ saving' = IF todo' = {} THEN None ELSE u
        /\ climb' = CellOf(u, i.dimension)
        /\ marking' = u
        /\ UNCHANGED <<status, value, second, incomplete, orphaned, links, flags, total,
                       loop, atomic, stale, unmarked, interventions>>

\* get_or_create finds two rows and raises: what is still to be saved is not.
FindTwo(i) ==
    /\ i \in todo /\ climb = None /\ marking = None
    /\ second[saving][i.dimension] # None
    /\ todo' = {} /\ saving' = None
    /\ stale' = stale \cup Pending
    /\ UNCHANGED <<rows, links, flags, total, loop, climb, marking, atomic, unmarked,
                   interventions>>

\* POST of a disaggregation, without any validation: no constraint keeps an update
\* from having two rows of one dimension value.
PostDisaggregation(u, d, a) ==
    /\ Idle
    /\ status[u] # "none" /\ d \in ValuesOf(u) \cap live /\ second[u][d] = None
    /\ IF d \in RowsOf(u)
         THEN /\ second' = [second EXCEPT ![u][d] = a]
              /\ amount' = [amount EXCEPT ![u][d] = @ + a]
              /\ Intervene
         ELSE /\ amount' = [amount EXCEPT ![u][d] = a]
              /\ UNCHANGED <<second, interventions>>
    /\ climb' = CellOf(u, d)
    /\ marking' = u
    /\ atomic' = TRUE
    /\ UNCHANGED <<status, value, incomplete, orphaned, links, flags, total,
                   todo, saving, loop, stale, unmarked>>

\* Of the update's rows of a dimension value there is one left, with the amount a,
\* or none.
Remaining(u, d, a) ==
    /\ amount' = [amount EXCEPT ![u][d] = a]
    /\ second' = [second EXCEPT ![u][d] = None]

\* PATCH of a disaggregation, the first row or the second.
EditDisaggregation(u, d, a) ==
    /\ Idle
    /\ d \in RowsOf(u)
    /\ \/ /\ second[u][d] = None
          /\ amount' = [amount EXCEPT ![u][d] = a]
          /\ UNCHANGED second
       \/ /\ second[u][d] # None
          /\ amount' = [amount EXCEPT ![u][d] = a + second[u][d]]
          /\ UNCHANGED second
       \/ /\ second[u][d] # None
          /\ amount' = [amount EXCEPT ![u][d] = @ - second[u][d] + a]
          /\ second' = [second EXCEPT ![u][d] = a]
    /\ climb' = CellOf(u, d)
    /\ marking' = u
    /\ UNCHANGED <<status, value, incomplete, orphaned, links, flags, total,
                   todo, saving, loop, atomic, stale, unmarked, interventions>>

\* Only the signal post_delete: the siblings keep their flags.
DeleteDisaggregation(u, d) ==
    /\ Idle
    /\ d \in RowsOf(u)
    /\ \/ /\ second[u][d] = None
          /\ Remaining(u, d, None)
          /\ incomplete' = [incomplete EXCEPT ![u] = @ \ {d}]
       \/ /\ second[u][d] # None
          /\ \E a \in {second[u][d], amount[u][d] - second[u][d]} : Remaining(u, d, a)
          /\ UNCHANGED incomplete
    /\ unmarked' = unmarked \cup {u}
    /\ climb' = CellOf(u, d)
    /\ atomic' = TRUE
    /\ UNCHANGED <<status, value, orphaned, links, flags, total, todo, saving,
                   loop, marking, stale, interventions>>

\* Mutated form of DeleteUpdates: the handler listens to post_save only.
DeleteUpdatesUnnoticed(us) ==
    /\ Idle
    /\ us # {} /\ us \cap orphaned = {}
    /\ \A u \in us : status[u] # "none"
    /\ status' = [u \in Update |-> IF u \in us THEN "none" ELSE status[u]]
    /\ amount' = [u \in Update |->
                     IF u \in us THEN [d \in DimensionValue |-> None] ELSE amount[u]]
    /\ second' = [u \in Update |->
                     IF u \in us THEN [d \in DimensionValue |-> None] ELSE second[u]]
    /\ UNCHANGED <<value, incomplete, orphaned, links, flags, total, request,
                   stale, unmarked, interventions>>

\* Deleting an update, or a user with all of theirs: the rows go in one
\* statement, then the signals of the disaggregations are sent, all in one
\* transaction.  With an orphaned disaggregation the handler raises and the
\* transaction is rolled back: nothing is deleted.  The recalculation that
\* follows may save others again, or raise, or stop early.
DeleteUpdates(us) ==
    /\ Idle
    /\ us # {} /\ us \cap orphaned = {}
    /\ \A u \in us : status[u] # "none"
    /\ status' = [u \in Update |-> IF u \in us THEN "none" ELSE status[u]]
    /\ value' = [u \in Update |-> IF u \in us THEN 0 ELSE value[u]]
    /\ amount' = [u \in Update |->
                     IF u \in us THEN [d \in DimensionValue |-> None] ELSE amount[u]]
    /\ second' = [u \in Update |->
                     IF u \in us THEN [d \in DimensionValue |-> None] ELSE second[u]]
    /\ \E others \in SUBSET UNION {SavedAgain(PeriodOf[u]) : u \in us} :
          SetFlags(us \cup (others \ orphaned))
    /\ loop' = UNION {CellsOf(u) : u \in us}
    /\ atomic' = (loop' # {})
    /\ UNCHANGED <<orphaned, links, flags, total, todo, saving, climb, marking,
                   stale, interventions>>

\* set_updates_status: a queryset.update, no signal at all.
SetUpdatesStatus(us, s) ==
    /\ Idle
    /\ us # {} /\ \A u \in us : status[u] # "none"
    /\ status' = [u \in Update |-> IF u \in us THEN s ELSE status[u]]
    /\ stale' = stale \cup UNION {Unannounced(u, s, {}) : u \in us}
    /\ Intervene
    /\ UNCHANGED <<value, amount, second, incomplete, orphaned, links, flags, total,
                   request, unmarked>>

\* Mutated form of DeleteDimensionValue: the disaggregations are left alone.
DeleteDimensionValueOnly(d) ==
    /\ Idle
    /\ d \in live /\ parentValue[d] = None
    /\ live' = live \ {d}
    /\ parentValue' = [x \in live' |->
                          IF parentValue[x] = d THEN None ELSE parentValue[x]]
    /\ Intervene
    /\ UNCHANGED <<rows, parentPeriod, flags, total, request, stale, unmarked>>

\* A dimension value of a project without a parent for it (else delete raises)
\* is deleted: its disaggregations stay, without a dimension value (SET_NULL),
\* its totals go (CASCADE), the children's values lose their parent (SET_NULL).
DeleteDimensionValue(d) ==
    LET losers == {u \in Update : d \in RowsOf(u)}
    IN  /\ Idle
        /\ d \in live /\ parentValue[d] = None
        /\ live' = live \ {d}
        /\ parentValue' = [x \in live' |->
                              IF parentValue[x] = d THEN None ELSE parentValue[x]]
        /\ amount' = [u \in Update |-> [amount[u] EXCEPT ![d] = None]]
        /\ second' = [u \in Update |-> [second[u] EXCEPT ![d] = None]]
        /\ incomplete' = [u \in Update |-> incomplete[u] \ {d}]
        /\ orphaned' = orphaned \cup losers
        /\ unmarked' = unmarked \cup losers
        /\ total' = [c \in Cell |-> IF c[2] = d THEN 0 ELSE total[c]]
        /\ stale' = {c \in stale : c[2] # d}
        /\ Intervene
        /\ UNCHANGED <<status, value, parentPeriod, flags, request>>

\* Project.save with other flags recomputes actual values, no disaggregation:
\* the totals at both ends of the project's links stay what they were.
SaveProject(p, toChildren, toParent) ==
    LET touched == {k \in Linked : p \in {ProjectOf[k[1]], ProjectOf[parentPeriod[k[1]]]}}
        own == {q \in Period : ProjectOf[q] = p}
        near == own \cup {q \in Period : \E x \in own : parentPeriod[x] = q}
    IN  /\ Idle
        /\ aggregateChildren' = [aggregateChildren EXCEPT ![p] = toChildren]
        /\ aggregateToParent' = [aggregateToParent EXCEPT ![p] = toParent]
        /\ flags' # flags
        /\ IF toChildren /\ toParent THEN UNCHANGED interventions ELSE Intervene
        /\ stale' = stale \cup {ParentCell(k) : k \in touched}
        /\ UNCHANGED <<status, value, amount, second, orphaned, links, total, request>>
        /\ \E others \in SUBSET UNION {SavedAgain(q) : q \in near} :
              SetFlags(others \ orphaned)

\* remove_parent: the links of the project's periods and dimension values are
\* cleared by queryset.update; the totals above keep what they had.
RemoveParent(p) ==
    /\ Idle
    /\ \E q \in Period : ProjectOf[q] = p /\ parentPeriod[q] # None
    /\ parentPeriod' = [q \in Period |->
                           IF ProjectOf[q] = p THEN None ELSE parentPeriod[q]]
    /\ parentValue' = [d \in live |->
                          IF DimensionOf[d] = p THEN None ELSE parentValue[d]]
    /\ stale' = stale \cup {ParentCell(k) : k \in {l \in Linked : ProjectOf[l[1]] = p}}
    /\ Intervene
    /\ UNCHANGED <<rows, live, flags, total, request, unmarked>>

\* recalculate_disaggregation_aggregation: every total is deleted, then those of
\* disaggregations on periods without child periods are computed again.
RecalculateAll ==
    /\ Idle
    /\ total' = [c \in Cell |-> 0]
    /\ loop' = {c \in UNION {CellsOf(u) : u \in Update} :
                   \A q \in Period : parentPeriod[q] # c[1]}
    /\ stale' = stale \cup {c \in Cell : total[c] > 0}
    /\ Intervene
    /\ UNCHANGED <<rows, links, flags, todo, saving, climb, marking, atomic,
                   unmarked>>

-----------------------------------------------------------------------------
\* DisaggregationAggregation.aggregate of one cell.
Aggregate(c) ==
    /\ total' = [total EXCEPT ![c] = LocalValue(c) + ContributedValue(c)]
    /\ climb' = IF GoesUp(c) THEN ParentCell(c) ELSE None
    /\ stale' = (stale \ {c}) \cup
           (IF ~GoesUp(c) /\ ParentCell(c) # None /\ total'[c] # total[c]
              THEN {ParentCell(c)} ELSE {})

\* The transaction ends with its request.
StillAtomic == atomic' = (atomic /\ ~Idle')

Climb ==
    /\ climb # None
    /\ Aggregate(climb)
    /\ UNCHANGED <<rows, links, flags, todo, saving, loop, marking, unmarked,
                   interventions>>
    /\ StillAtomic

AggregateNext(c) ==
    /\ c \in loop /\ climb = None
    /\ Aggregate(c)
    /\ loop' = loop \ {c}
    /\ UNCHANGED <<rows, links, flags, todo, saving, marking, unmarked,
                   interventions>>
    /\ StillAtomic

\* Mutated form of Mark: only the disaggregation just saved is marked.
MarkOne ==
    /\ climb = None /\ marking # None
    /\ \E d \in RowsOf(marking) :
          incomplete' = [incomplete EXCEPT ![marking] =
                            (@ \ {d}) \cup ({d} \cap Flagged(value[marking], amount[marking]))]
    /\ marking' = None
    /\ unmarked' = unmarked \ {marking}
    /\ UNCHANGED <<status, value, amount, second, orphaned, links, flags, total, todo,
                   saving, loop, climb, stale, interventions>>
    /\ StillAtomic

\* mark_incomplete_disaggregations, after the climb has returned.
Mark ==
    /\ climb = None /\ marking # None
    /\ incomplete' = [incomplete EXCEPT ![marking] =
                         Flagged(value[marking], amount[marking])]
    /\ marking' = None
    /\ unmarked' = unmarked \ {marking}
    /\ UNCHANGED <<status, value, amount, second, orphaned, links, flags, total, todo,
                   saving, loop, climb, stale, interventions>>
    /\ StillAtomic

\* The process dies: what was not yet written is not.  Inside a transaction the
\* database undoes the request, which is as if it had not been made.
Abort ==
    /\ ~Idle /\ ~atomic
    /\ stale' = stale \cup Pending
    /\ unmarked' = unmarked \cup ({marking} \ {None})
    /\ todo' = {} /\ loop' = {} /\ climb' = None /\ marking' = None
    /\ Intervene
    /\ UNCHANGED <<rows, links, flags, total, saving, atomic>>

Next ==
    \/ \E u \in Update, s \in {"unapproved", "approved"}, v \in Value :
          \E sent \in Requests(u) :
              SaveUpdate(u, s, v, sent) \/ SaveOrphaned(u, s, v, sent)
    \/ \E i \in todo : SaveDisaggregation(i) \/ FindTwo(i)
    \/ \E u \in Update, d \in DimensionValue, a \in Amount :
          PostDisaggregation(u, d, a) \/ EditDisaggregation(u, d, a)
    \/ \E u \in Update, d \in DimensionValue : DeleteDisaggregation(u, d)
    \/ \E us \in SUBSET Update : DeleteUpdates(us)
    \/ \E us \in SUBSET Update, s \in {"unapproved", "approved"} : SetUpdatesStatus(us, s)
    \/ \E d \in DimensionValue : DeleteDimensionValue(d)
    \/ \E p \in Project, toChildren, toParent \in BOOLEAN :
          SaveProject(p, toChildren, toParent)
    \/ \E p \in Project : RemoveParent(p)
    \/ RecalculateAll
    \/ Climb
    \/ \E c \in loop : AggregateNext(c)
    \/ Mark
    \/ Abort

Spec == Init /\ [][Next]_vars

-----------------------------------------------------------------------------
(* Properties.                                                              *)

\* The cells whose disaggregations end up in c: c and all cells linked below it.
Below(c) ==
    {k \in Cell : \A S \in SUBSET Cell :
        (c \in S /\ \A x \in S : ChildCells(x) \subseteq S) => k \in S}

\* Where no total below was left out by a path without a signal, an aggregation
\* that is off or a killed request, a total is the sum of the approved
\* disaggregations of the whole subtree, each once: in whatever order rows were
\* saved, resaved and deleted, and statuses changed with them.
SubtreeAddedUp ==
    \A c \in Cell : Below(c) \cap (Pending \cup stale) = {} =>
        total[c] = Total([k \in Below(c) |-> LocalValue(k)])

\* Between requests a disaggregation says that data is incomplete if and only
\* if the update's disaggregations do not add up to its value, so that a total
\* above or below the value never goes unnoticed; but for updates whose signal
\* was never sent or raised.
IncompleteTold ==
    Idle => \A u \in Update \ unmarked :
                incomplete[u] = Flagged(value[u], amount[u])

\* The totals of a project that does not aggregate to its parent are in none of
\* the parent's: a total that was computed since the flags last changed is what
\* the period's own updates and the children that do aggregate account for.
NothingFromOthers ==
    \A c \in Cell \ (Pending \cup stale) :
        total[c] <= LocalValue(c) +
            Total([k \in {x \in ChildCells(c) : aggregateToParent[ProjectOf[x[1]]]} |->
                       total[k]])
=============================================================================
