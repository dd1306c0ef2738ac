----------------------- MODULE ResultsFrameworkProofs -----------------------
(* Proofs about ResultsFramework, for every set of hierarchies without        *)
(* cycles, every framework and any number of workers.                         *)
EXTENDS ResultsFramework, FiniteSetTheorems, SequenceTheorems, TLAPS

(* What is invariant ---------------------------------------------------------*)

\* The parent of c has a row of item o.
AtParent(c, o) == <<parentOf[c], o>> \in Rows
BelowAll(p) == Below(p, Project)

\* Rows come with those of their owners, copies with copies, and all rows of an
\* item are below the one that is no copy.
RowsConsistent ==
    /\ \A x \in Rows : x[2] \in DOMAIN Owner => <<x[1], Owner[x[2]]>> \in Rows
    /\ \A x \in linked : x[2] \in DOMAIN Owner => <<x[1], Owner[x[2]]>> \in linked
    /\ \A x \in Rows \ linked : \A y \in Rows :
          y[2] = x[2] => y[1] \in {x[1]} \cup BelowAll(x[1])

\* The rows of an open transaction: new items, at projects below the one it is
\* for, each where its parent and its owner are.
NewRow(w, s, x) ==
    /\ x[2] = s.what \/ (x[2] \in Default /\ Owner[x[2]] = s.what)
    /\ \A p \in Project : <<p, x[2]>> \notin Rows
    /\ x[1] # s.at => x[1] \in BelowAll(s.at) /\ <<parentOf[x[1]], x[2]>> \in inserted[w]
    /\ s.what \in DOMAIN Owner =>
          /\ <<x[1], Owner[s.what]>> \in Rows
          /\ x[1] # s.at => <<x[1], Owner[s.what]>> \in linked

ToCommit(w, s) ==
    /\ s.what \in Item \ Default
    /\ <<s.at, s.what>> \in inserted[w]
    /\ \A x, y \in inserted[w] : <<x[1], y[2]>> \in inserted[w]
    /\ \A x \in inserted[w] : NewRow(w, s, x)

\* What is so of the step s of worker w while it is to be done.
Insertions == {"offer", "insertResult"}
Takings == {"takeResult", "offer", "insertResult"}
Copyings == {"copyIndicator", "copyPeriod"}
Readings == {"readIndicators", "readPeriods"}

StepReady(w, s) ==
    /\ s.op = "readResults" => parentOf[s.at] \in Project
    /\ s.op \in Takings =>
          s.what \in Result /\ parentOf[s.at] \in Project /\ AtParent(s.at, s.what)
    /\ s.op = "readIndicators" => s.what \in Result /\ <<s.at, s.what>> \in linked
    /\ s.op \in {"readPeriods", "fixIndicator"} =>
          s.what \in Indicator /\ <<s.at, s.what>> \in linked
    /\ s.op \in {"copyIndicator", "importIndicator"} => s.what \in Indicator
    /\ s.op = "copyPeriod" => s.what \in Period
    /\ s.op \in Copyings \cup {"importIndicator"} =>
          AtParent(s.at, s.what) /\ <<s.at, Owner[s.what]>> \in linked
    /\ s.op = "requireResult" => s.what \in Indicator /\ AtParent(s.at, s.what)
    /\ s.op \in {"save", "saveAgain", "spread"} => <<s.at, s.what>> \in Rows
    /\ s.op = "saveAgain" => s.what \in Indicator /\ <<s.at, s.what>> \in linked
    /\ s.op = "renew" => AtParent(s.at, s.what)
    /\ s.op = "commit" => ToCommit(w, s)

StepsReady == \A w \in Worker : \A s \in Pending(w) : StepReady(w, s)

\* Two workers never create the same item.
CreatedOnce ==
    \A v, w \in Worker : \A s \in Pending(v) : \A t \in Pending(w) :
        s.op = "commit" /\ t.op = "commit" /\ s.what = t.what => v = w

\* The steps that look for what a copy lacks, and those of the repair.
Covering == Readings \cup Copyings
Repairing == {"walk", "fixProject", "fixIndicator", "copyPeriod"}

\* Step t may be waiting when s is done, in the hierarchy h.
MayWait(h, s, t) ==
    /\ s.op \notin {"commit", "copyDefaults", "fixed", "requireResult"}
    /\ t.op \notin {"commit", "readResults", "requireResult"}
    /\ s.op = "readResults" => t.op = "copyDefaults"
    /\ t.op = "copyDefaults" => s.at \in {t.at} \cup Under(h, t.at, Project)
    /\ t.op = "fixed" => s.op \in Repairing
    /\ s.op \in Takings /\ t.op \in Takings /\ s.what = t.what =>
          s.op \in Insertions /\ t.op \in Insertions /\ s.at # t.at
    /\ h \in Overlapping /\ s.op \in Takings => t.op \notin Covering

\* Each step of q may wait for those before it.
Orderly(h, q) ==
    \A j, k \in DOMAIN q : \A s \in q[j], t \in q[k] :
        j < k \/ (j = k /\ s # t) => MayWait(h, s, t)

InOrder == \A w \in Worker : Orderly(parentOf, todo[w])

OneBusy == OneAtATime => \A v, w \in Worker : v # w => Idle(v) \/ Idle(w)

\* A result that is about to be inserted is not there.
NotYetThere ==
    OneAtATime => \A w \in Worker : \A s \in Pending(w) :
        s.op \in Insertions => <<s.at, s.what>> \notin Rows

\* A transaction takes in all copies, when nobody makes more meanwhile.
Linked(c, o) ==
    IF o \in Result THEN HasImportedResults(c) ELSE <<c, Owner[o]>> \in linked
AllInserted ==
    OneAtATime => \A w \in Worker : \A s \in Pending(w) : s.op = "commit" =>
        \A x \in inserted[w] : \A c \in Project :
            parentOf[c] = x[1] /\ Linked(c, s.what) => <<c, x[2]>> \in inserted[w]

\* What c's copy of the owner of y lacks is on its way.
Covers(s, c, y) ==
    \/ s.op \in Copyings /\ s.at = c /\ s.what = y
    \/ s.op \in Readings /\ s.at = c /\ s.what = Owner[y]
Covered(c, y) == \E w \in Worker : \E s \in Pending(w) : Covers(s, c, y)

NothingForgotten ==
    crashes = 0 =>
        \A c \in Project : \A y \in DOMAIN Owner :
            <<c, Owner[y]>> \in linked \ chosen /\ AtParent(c, y) =>
                \/ <<c, y>> \in linked
                \/ ~OneAtATime /\ <<c, y>> \in overlooked
                \/ Covered(c, y)

\* The results that a project which has imported lacks are on their way; so are
\* those that an import is to bring.
ResultsComing ==
    OneAtATime /\ crashes = 0 =>
        /\ \A c \in imported : \A r \in Result : AtParent(c, r) =>
              \/ <<c, r>> \in linked
              \/ \E w \in Worker : \E s \in Pending(w) :
                    s.op \in Insertions /\ s.at = c /\ s.what = r
        /\ \A w \in Worker : \A t \in Pending(w) : t.op = "copyDefaults" =>
              \/ \E s \in Pending(w) : s.op = "readResults" /\ s.at = t.at
              \/ \A r \in Result : AtParent(t.at, r) =>
                    \/ <<t.at, r>> \in linked
                    \/ \E s \in Pending(w) :
                          /\ s.op \in {"takeResult", "insertResult"}
                          /\ s.at = t.at /\ s.what = r

ImportedHaveResults == \A c \in imported : HasImportedResults(c)

\* The periods that copies below the root lack are on their way.
NoneOfItsOwn(c, i) == ({c} \X Parts(i)) \cap Rows \subseteq linked
Restores(s, c, y) ==
    \/ s.op = "walk" /\ c \in BelowAll(s.at)
    \/ s.op = "fixProject" /\ s.at = c
    \/ s.op = "fixIndicator" /\ s.at = c /\ s.what = Owner[y]
    \/ s.op = "copyPeriod" /\ s.at = c /\ s.what = y
Lacking(c, y) ==
    /\ c \in BelowAll(root) /\ Owner[y] \in Indicator
    /\ <<c, Owner[y]>> \in linked /\ NoneOfItsOwn(c, Owner[y])
    /\ AtParent(c, y) /\ <<c, y>> \notin linked
Restoring ==
    /\ repair = "running" =>
          \E w \in Worker :
              /\ \A v \in Worker : v # w => Idle(v)
              /\ \E t \in Pending(w) : t.op = "fixed"
              /\ \A c \in Project : \A y \in Period : Lacking(c, y) =>
                    \E s \in Pending(w) : Restores(s, c, y)
    /\ repair = "done" => Quiet /\ \A c \in Project : \A y \in Period : ~Lacking(c, y)

FrameworkInv ==
    /\ TypeOK /\ RowsConsistent /\ StepsReady /\ CreatedOnce /\ InOrder
    /\ OneBusy /\ NotYetThere /\ AllInserted /\ ImportedHaveResults
    /\ NothingForgotten /\ ResultsComing /\ Restoring

(* Projects below others ----------------------------------------------------*)

\* What is below p through given projects is one of them, and its parent is p or
\* below p.
LEMMA UnderUnfolds ==
    ASSUME NEW h, NEW p, NEW T, NEW d \in Under(h, p, T)
    PROVE  d \in T /\ h[d] \in Under(h, p, T) \cup {p}
<1> DEFINE S == {c \in Under(h, p, T) : h[c] \in Under(h, p, T) \cup {p}}
<1>1. S \in SUBSET T /\ d \in T
  BY DEF Under
<1>2. ASSUME NEW c \in T, h[c] \in S \cup {p}
      PROVE  c \in S
  <2>1. h[c] \in Under(h, p, T) \cup {p}
    BY <1>2
  <2>2. c \in Under(h, p, T)
    BY <2>1 DEF Under
  <2>3. QED
    BY <2>1, <2>2
<1>3. d \in S
  BY <1>1, <1>2 DEF Under
<1>4. QED
  BY <1>1, <1>3

\* A project among the given ones is below p if its parent is p or below p.
LEMMA UnderGrows ==
    ASSUME NEW h, NEW p, NEW T, NEW d \in T, h[d] \in Under(h, p, T) \cup {p}
    PROVE  d \in Under(h, p, T)
BY DEF Under

\* The projects below p are in every set that has with each project, and with p,
\* the given ones among its children.
LEMMA UnderLeast ==
    ASSUME NEW h, NEW p, NEW T, NEW S \in SUBSET T,
           \A d \in T : h[d] \in S \cup {p} => d \in S
    PROVE  Under(h, p, T) \subseteq S
BY DEF Under

\* Below what is below p there is nothing that is not below p.
LEMMA UnderTransitive ==
    ASSUME NEW h, NEW p, NEW T, NEW c \in Under(h, p, T)
    PROVE  Under(h, c, T) \subseteq Under(h, p, T)
<1>1. Under(h, p, T) \in SUBSET T
  BY DEF Under
<1>2. \A d \in T : h[d] \in Under(h, p, T) \cup {c} => d \in Under(h, p, T)
  BY UnderGrows
<1>3. QED
  BY <1>1, <1>2, UnderLeast

\* Through fewer projects fewer are reached.
LEMMA UnderFewer ==
    ASSUME NEW h, NEW p, NEW T, NEW U \in SUBSET T
    PROVE  Under(h, p, U) \subseteq Under(h, p, T)
<1> DEFINE S == U \cap Under(h, p, T)
<1>1. \A d \in U : h[d] \in S \cup {p} => d \in S
  BY UnderGrows
<1>2. S \in SUBSET U
  OBVIOUS
<1> HIDE DEF S
<1>3. Under(h, p, U) \subseteq S
  BY <1>1, <1>2, UnderLeast
<1>4. QED
  BY <1>3 DEF S

\* What is below p is a child of p or below one.
LEMMA UnderAChild ==
    ASSUME NEW h, NEW p, NEW T, NEW d \in Under(h, p, T)
    PROVE  \E c \in T : h[c] = p /\ d \in {c} \cup Under(h, c, T)
<1> DEFINE S == {e \in T : \E c \in T : h[c] = p /\ e \in {c} \cup Under(h, c, T)}
<1>1. ASSUME NEW e \in T, h[e] \in S \cup {p}
      PROVE  e \in S
  <2>1. CASE h[e] = p
    BY <2>1
  <2>2. CASE h[e] \in S
    <3>1. PICK c \in T : h[c] = p /\ h[e] \in {c} \cup Under(h, c, T)
      BY <2>2
    <3>2. e \in Under(h, c, T)
      BY <3>1, UnderGrows
    <3>3. QED
      BY <3>1, <3>2
  <2>3. QED
    BY <1>1, <2>1, <2>2
<1>2. S \in SUBSET T
  OBVIOUS
<1> HIDE DEF S
<1>3. d \in S
  BY <1>1, <1>2, UnderLeast
<1>4. QED
  BY <1>3 DEF S

\* The same of the hierarchy there is, where nothing is below itself.
LEMMA BelowAllFacts ==
    ASSUME parentOf \in Hierarchies, NEW p
    PROVE  /\ BelowAll(p) \subseteq Project
           /\ \A d \in BelowAll(p) : parentOf[d] \in {p} \cup BelowAll(p)
           /\ \A d \in Project : parentOf[d] \in {p} \cup BelowAll(p) => d \in BelowAll(p)
           /\ \A c \in BelowAll(p) : BelowAll(c) \subseteq BelowAll(p)
           /\ \A d \in BelowAll(p) : \E c \in Children(p) : d \in {c} \cup BelowAll(c)
           /\ \A c \in Project : c \notin BelowAll(c)
           /\ \A c \in Project : parentOf[c] \notin {c} \cup BelowAll(c)
<1> USE DEF Below, BelowAll, Children
<1>1. BelowAll(p) \subseteq Project
  BY DEF Under
<1>2. \A d \in BelowAll(p) : parentOf[d] \in {p} \cup BelowAll(p)
  BY UnderUnfolds
<1>3. \A d \in Project : parentOf[d] \in {p} \cup BelowAll(p) => d \in BelowAll(p)
  BY UnderGrows
<1>4. \A c \in BelowAll(p) : BelowAll(c) \subseteq BelowAll(p)
  BY UnderTransitive
<1>5. \A d \in BelowAll(p) : \E c \in Children(p) : d \in {c} \cup BelowAll(c)
  BY UnderAChild
<1>6. \A c \in Project : c \notin BelowAll(c)
  BY FrameworkAssumption
<1>7. \A c \in Project : parentOf[c] \notin {c} \cup BelowAll(c)
  BY <1>6, UnderGrows
<1>8. QED
  BY <1>1, <1>2, <1>3, <1>4, <1>5, <1>6, <1>7

\* And of the projects that are reached through some only.
LEMMA BelowFacts ==
    ASSUME NEW p, NEW T \in SUBSET Project
    PROVE  /\ Below(p, T) \subseteq BelowAll(p) /\ Below(p, T) \subseteq T
           /\ \A d \in Below(p, T) : parentOf[d] \in {p} \cup Below(p, T)
           /\ \A d \in T : parentOf[d] \in {p} \cup Below(p, T) => d \in Below(p, T)
<1> USE DEF Below, BelowAll
<1>1. Below(p, T) \subseteq T
  BY DEF Under
<1>2. Below(p, T) \subseteq BelowAll(p)
  BY UnderFewer
<1>3. \A d \in Below(p, T) : parentOf[d] \in {p} \cup Below(p, T)
  BY UnderUnfolds
<1>4. \A d \in T : parentOf[d] \in {p} \cup Below(p, T) => d \in Below(p, T)
  BY UnderGrows
<1>5. QED
  BY <1>1, <1>2, <1>3, <1>4

(* Lists of steps -----------------------------------------------------------*)

Lists == Seq((SUBSET Step) \ {{}})

\* The steps of a list are those of its head and those of its tail, in order.
LEMMA HeadAndTail ==
    ASSUME NEW q \in Lists, q # <<>>, NEW h, Orderly(h, q)
    PROVE  /\ Head(q) \in (SUBSET Step) \ {{}} /\ Tail(q) \in Lists
           /\ StepsOf(q) = Head(q) \cup StepsOf(Tail(q))
           /\ Orderly(h, Tail(q))
           /\ \A s \in Head(q), t \in StepsOf(Tail(q)) : MayWait(h, s, t)
           /\ \A s, t \in Head(q) : s # t => MayWait(h, s, t)
<1> USE DEF Lists
<1>1. /\ Head(q) \in (SUBSET Step) \ {{}} /\ Tail(q) \in Lists
      /\ Len(q) \in Nat \ {0} /\ DOMAIN q = 1 .. Len(q) /\ Head(q) = q[1]
      /\ DOMAIN Tail(q) = 1 .. Len(q) - 1
      /\ \A k \in 1 .. Len(q) - 1 : Tail(q)[k] = q[k + 1]
  OBVIOUS
<1>2. StepsOf(q) = Head(q) \cup StepsOf(Tail(q))
  <2>1. ASSUME NEW s \in StepsOf(q)
        PROVE  s \in Head(q) \cup StepsOf(Tail(q))
    <3>1. PICK k \in 1 .. Len(q) : s \in q[k]
      BY <1>1 DEF StepsOf
    <3>2. CASE k = 1
      BY <1>1, <3>1, <3>2
    <3>3. CASE k # 1
      <4>1. k - 1 \in 1 .. Len(q) - 1 /\ Tail(q)[k - 1] = q[k]
        BY <1>1, <3>3
      <4>2. QED
        BY <1>1, <3>1, <4>1 DEF StepsOf
    <3>4. QED
      BY <3>2, <3>3
  <2>2. ASSUME NEW s \in StepsOf(Tail(q))
        PROVE  s \in StepsOf(q)
    <3>1. PICK k \in 1 .. Len(q) - 1 : s \in q[k + 1]
      BY <1>1 DEF StepsOf
    <3>2. k + 1 \in DOMAIN q
      BY <1>1
    <3>3. QED
      BY <3>1, <3>2 DEF StepsOf
  <2>3. Head(q) \subseteq StepsOf(q)
    BY <1>1 DEF StepsOf
  <2>4. QED
    BY <2>1, <2>2, <2>3
<1>3. Orderly(h, Tail(q))
  <2>1. ASSUME NEW j \in 1 .. Len(q) - 1, NEW k \in 1 .. Len(q) - 1,
               NEW s \in q[j + 1], NEW t \in q[k + 1], j < k \/ (j = k /\ s # t)
        PROVE  MayWait(h, s, t)
    <3>1. j + 1 \in DOMAIN q /\ k + 1 \in DOMAIN q
          /\ (j + 1 < k + 1 \/ (j + 1 = k + 1 /\ s # t))
      BY <1>1, <2>1
    <3>2. QED
      BY <3>1 DEF Orderly
  <2>2. QED
    BY <1>1, <2>1 DEF Orderly
<1>4. \A s \in Head(q), t \in StepsOf(Tail(q)) : MayWait(h, s, t)
  <2>1. SUFFICES ASSUME NEW s \in Head(q), NEW k \in 1 .. Len(q) - 1, NEW t \in q[k + 1]
                 PROVE  MayWait(h, s, t)
    BY <1>1 DEF StepsOf
  <2>2. 1 \in DOMAIN q /\ k + 1 \in DOMAIN q /\ 1 < k + 1 /\ s \in q[1]
    BY <1>1
  <2>3. QED
    BY <2>2 DEF Orderly
<1>5. \A s, t \in Head(q) : s # t => MayWait(h, s, t)
  BY <1>1 DEF Orderly
<1>6. QED
  BY <1>1, <1>2, <1>3, <1>4, <1>5

\* Steps are put in front of a list in order if the list may wait for them.
LEMMA BeforeInOrder ==
    ASSUME NEW q \in Lists, NEW F \in SUBSET Step, NEW h, Orderly(h, q),
           \A s, t \in F : s # t => MayWait(h, s, t),
           \A s \in F, t \in StepsOf(q) : MayWait(h, s, t)
    PROVE  /\ Before(F, q) \in Lists
           /\ StepsOf(Before(F, q)) = F \cup StepsOf(q)
           /\ Orderly(h, Before(F, q))
<1> USE DEF Lists
<1>1. CASE F = {}
  BY <1>1 DEF Before
<1>2. CASE F # {}
  <2> DEFINE b == <<F>> \o q
  <2>1. Before(F, q) = b
    BY <1>2 DEF Before
  <2>2. F \in (SUBSET Step) \ {{}}
    BY <1>2
  <2>3. /\ b \in Lists /\ Len(q) \in Nat /\ DOMAIN q = 1 .. Len(q)
        /\ DOMAIN b = 1 .. Len(q) + 1 /\ b[1] = F
        /\ \A k \in 2 .. Len(q) + 1 : b[k] = q[k - 1] /\ k - 1 \in DOMAIN q
    BY <2>2
  <2>4. \A k \in DOMAIN q : k + 1 \in 2 .. Len(q) + 1 /\ b[k + 1] = q[k]
    BY <2>3
  <2> HIDE DEF b
  <2>5. StepsOf(b) = F \cup StepsOf(q)
    <3>1. ASSUME NEW k \in DOMAIN b, NEW s \in b[k]
          PROVE  s \in F \cup StepsOf(q)
      <4>1. CASE k = 1
        BY <2>3, <3>1, <4>1
      <4>2. CASE k # 1
        <5>1. k \in 2 .. Len(q) + 1
          BY <2>3, <4>2
        <5>2. QED
          BY <2>3, <3>1, <5>1 DEF StepsOf
      <4>3. QED
        BY <4>1, <4>2
    <3>2. F \subseteq StepsOf(b)
      BY <2>3 DEF StepsOf
    <3>3. ASSUME NEW k \in DOMAIN q, NEW s \in q[k]
          PROVE  s \in StepsOf(b)
      <4>1. k + 1 \in DOMAIN b /\ s \in b[k + 1]
        BY <2>3, <2>4, <3>3
      <4>2. QED
        BY <4>1 DEF StepsOf
    <3>4. QED
      BY <3>1, <3>2, <3>3 DEF StepsOf
  <2>6. ASSUME NEW j \in DOMAIN b, NEW k \in DOMAIN b, NEW s \in b[j], NEW t \in b[k],
               j < k \/ (j = k /\ s # t)
        PROVE  MayWait(h, s, t)
    <3>1. CASE j = 1 /\ k = 1
      BY <2>3, <2>6, <3>1
    <3>2. CASE j = 1 /\ k # 1
      <4>1. k \in 2 .. Len(q) + 1
        BY <2>3, <3>2
      <4>2. s \in F /\ t \in StepsOf(q)
        BY <2>3, <2>6, <3>2, <4>1 DEF StepsOf
      <4>3. QED
        BY <4>2
    <3>3. CASE j # 1
      <4>1. j \in 2 .. Len(q) + 1 /\ k \in 2 .. Len(q) + 1
        BY <2>3, <2>6, <3>3
      <4>2. /\ j - 1 \in DOMAIN q /\ k - 1 \in DOMAIN q /\ s \in q[j - 1] /\ t \in q[k - 1]
            /\ j - 1 < k - 1 \/ (j - 1 = k - 1 /\ s # t)
        BY <2>3, <2>6, <4>1
      <4>3. QED
        BY <4>2 DEF Orderly
    <3>4. QED
      BY <3>1, <3>2, <3>3
  <2>7. Orderly(h, b)
    BY <2>6 DEF Orderly
  <2>8. QED
    BY <2>1, <2>3, <2>5, <2>7
<1>3. QED
  BY <1>1, <1>2

\* Without one of the steps at its head a list is in order.
LEMMA WithoutInOrder ==
    ASSUME NEW q \in Lists, q # <<>>, NEW h, Orderly(h, q), NEW s \in Head(q)
    PROVE  LET rest == Before(Head(q) \ {s}, Tail(q))
           IN  /\ rest \in Lists /\ Orderly(h, rest)
               /\ StepsOf(q) = StepsOf(rest) \cup {s}
               /\ \A t \in StepsOf(rest) : MayWait(h, s, t)
<1> DEFINE F == Head(q) \ {s}
           rest == Before(F, Tail(q))
<1>1. /\ F \in SUBSET Step /\ Tail(q) \in Lists /\ Orderly(h, Tail(q))
      /\ StepsOf(q) = Head(q) \cup StepsOf(Tail(q))
      /\ \A a, t \in F : a # t => MayWait(h, a, t)
      /\ \A a \in F, t \in StepsOf(Tail(q)) : MayWait(h, a, t)
      /\ \A t \in F \cup StepsOf(Tail(q)) : MayWait(h, s, t)
  BY HeadAndTail
<1> HIDE DEF F
<1>2. /\ rest \in Lists /\ StepsOf(rest) = F \cup StepsOf(Tail(q)) /\ Orderly(h, rest)
  BY <1>1, BeforeInOrder
<1>3. StepsOf(q) = StepsOf(rest) \cup {s}
  BY <1>1, <1>2 DEF F
<1>4. QED
  BY <1>1, <1>2, <1>3 DEF F

(* Rows ---------------------------------------------------------------------*)

\* Owners are indicators and results, and items that have one are no results.
LEMMA Owners ==
    /\ DOMAIN Owner = Indicator \cup Period
    /\ \A o \in DOMAIN Owner : o \in Item /\ o \notin Result /\ Owner[o] \in Item
    /\ \A i \in Indicator : Owner[i] \in Result /\ i \notin Period
    /\ \A x \in Period : Owner[x] \in Indicator
    /\ \A r \in Result : r \in Item /\ r \notin DOMAIN Owner
    /\ NoItem \notin Item /\ 0 \in Text
BY FrameworkAssumption DEF Item, Text

\* Where no copy has been made of an item of the parent there is no row of it, and
\* none below either.
LEMMA NoneBelow ==
    ASSUME TypeOK, RowsConsistent, NEW c \in Project, NEW o,
           AtParent(c, o), <<c, o>> \notin linked
    PROVE  \A d \in {c} \cup BelowAll(c) : <<d, o>> \notin Rows
<1> USE DEF AtParent
<1>1. parentOf \in Hierarchies /\ Rows \subseteq Project \X Item
  BY DEF TypeOK
<1>2. parentOf[c] \in Project /\ o \in Item
  BY <1>1
<1>3. /\ BelowAll(c) \subseteq Project
      /\ \A d \in BelowAll(c) : parentOf[d] \in {c} \cup BelowAll(c)
      /\ c \notin BelowAll(c) /\ parentOf[c] \notin {c} \cup BelowAll(c)
  BY <1>1, BelowAllFacts
<1>4. ASSUME NEW d \in {c} \cup BelowAll(c)
      PROVE  /\ parentOf[c] \notin {d} \cup BelowAll(d)
             /\ <<d, o>> \in Rows => <<d, o>> \in linked
  <2>1. parentOf[c] \notin {d} \cup BelowAll(d)
    BY <1>1, <1>3, BelowAllFacts
  <2>2. QED
    BY <2>1 DEF RowsConsistent
<1>5. <<c, o>> \notin Rows
  BY <1>4
<1> DEFINE S == {d \in Project : d \in BelowAll(c) => <<d, o>> \notin Rows}
<1>6. ASSUME NEW d \in Project, parentOf[d] \in S \cup {c}
      PROVE  d \in S
  <2>1. SUFFICES ASSUME d \in BelowAll(c), <<d, o>> \in Rows
                 PROVE  FALSE
    OBVIOUS
  <2>2. <<d, o>> \in linked /\ parentOf[d] \in {c} \cup BelowAll(c)
    BY <1>3, <1>4, <2>1
  <2>3. <<parentOf[d], o>> \in Rows
    BY <2>2 DEF TypeOK
  <2>4. QED
    BY <1>5, <1>6, <2>2, <2>3
<1>7. S \in SUBSET Project
  OBVIOUS
<1> HIDE DEF S
<1>8. BelowAll(c) \subseteq S
  BY <1>6, <1>7, UnderLeast DEF BelowAll, Below
<1>9. QED
  BY <1>5, <1>8 DEF S

\* Between a row and one below it there is a copy at a child.
LEMMA RowPath ==
    ASSUME TypeOK, RowsConsistent, NEW p \in Project, NEW q \in BelowAll(p), NEW o,
           <<p, o>> \in Rows, <<q, o>> \in Rows
    PROVE  \E c \in Children(p) : <<c, o>> \in linked /\ q \in {c} \cup BelowAll(c)
<1>1. PICK c \in Children(p) : q \in {c} \cup BelowAll(c)
  BY BelowAllFacts DEF TypeOK
<1>2. c \in Project /\ AtParent(c, o)
  BY DEF Children, AtParent
<1>3. <<c, o>> \in linked
  BY <1>1, <1>2, NoneBelow
<1>4. QED
  BY <1>1, <1>3

(* What a step of a worker changes ------------------------------------------*)

Core == TypeOK /\ RowsConsistent /\ StepsReady /\ CreatedOnce /\ InOrder

\* The step s of w is done and brings M.
Moves(w, s, M) ==
    /\ \A v \in Worker : v # w => todo'[v] = todo[v] /\ Pending(v)' = Pending(v)
    /\ M \cup (Pending(w) \ {s}) \subseteq Pending(w)'
    /\ Pending(w)' \subseteq M \cup Pending(w)
    /\ s \in Pending(w)' => s \in M \/ MayWait(parentOf, s, s)
    /\ \A t \in Pending(w) : t # s => MayWait(parentOf, s, t)
    /\ parentOf' = parentOf

\* What is to be done are steps.
LEMMA StepsAreSteps ==
    ASSUME TypeOK, NEW w \in Worker
    PROVE  Pending(w) \subseteq Step
<1>1. todo[w] \in Seq((SUBSET Step) \ {{}})
  BY DEF TypeOK
<1>2. \A k \in DOMAIN todo[w] : todo[w][k] \subseteq Step
  BY <1>1
<1>3. QED
  BY <1>2 DEF Pending, StepsOf

\* A step at the head of a list is one of its steps.
LEMMA ReadyStep ==
    ASSUME Core, NEW w \in Worker, NEW op, NEW s \in Ready(w, op)
    PROVE  /\ s \in Step /\ s.op = op /\ s \in Pending(w) /\ StepReady(w, s)
           /\ s \in Head(todo[w]) /\ todo[w] # <<>> /\ todo[w] \in Lists
           /\ s.op \in Ops /\ s.at \in Project /\ s.what \in Item \cup {NoItem}
           /\ s.text \in Text
<1>1. todo[w] # <<>> /\ s \in Head(todo[w]) /\ s.op = op /\ todo[w] \in Lists
  BY DEF Ready, Idle, Core, TypeOK, Lists
<1>2. Orderly(parentOf, todo[w])
  BY DEF Core, InOrder
<1>3. s \in Step /\ s \in Pending(w)
  BY <1>1, <1>2, HeadAndTail DEF Pending
<1>4. QED
  BY <1>1, <1>3 DEF Core, StepsReady, Step

\* Steps that may be done before what waited for s may be brought by s.
LEMMA ContinueMoves ==
    ASSUME Core, NEW w \in Worker, NEW op, NEW s \in Ready(w, op),
           NEW F \in SUBSET Step, NEW G \in SUBSET Step, Continue(w, s, F, G),
           parentOf' = parentOf,
           \A a, b \in F : a # b => MayWait(parentOf, a, b),
           \A a, b \in G : a # b => MayWait(parentOf, a, b),
           \A a \in F, b \in G : MayWait(parentOf, a, b),
           \A a \in F \cup G, t \in Pending(w) :
               MayWait(parentOf, s, t) => MayWait(parentOf, a, t)
    PROVE  /\ Moves(w, s, F \cup G) /\ InOrder'
           /\ todo' \in [Worker -> Lists]
<1> DEFINE q == todo[w]
           rest == Before(Head(q) \ {s}, Tail(q))
           new == Before(F, Before(G, rest))
<1>1. /\ q \in Lists /\ q # <<>> /\ s \in Head(q) /\ Orderly(parentOf, q)
      /\ todo \in [Worker -> Lists]
  BY ReadyStep DEF Core, InOrder, TypeOK, Lists
<1>2. todo' = [todo EXCEPT ![w] = new]
  BY DEF Continue
<1>3. /\ rest \in Lists /\ Orderly(parentOf, rest)
      /\ StepsOf(q) = StepsOf(rest) \cup {s}
      /\ \A t \in StepsOf(rest) : MayWait(parentOf, s, t)
  BY <1>1, WithoutInOrder
<1> HIDE DEF rest
<1>4. \A a \in F \cup G, t \in StepsOf(rest) : MayWait(parentOf, a, t)
  BY <1>3 DEF Pending
<1>5. /\ Before(G, rest) \in Lists /\ Orderly(parentOf, Before(G, rest))
      /\ StepsOf(Before(G, rest)) = G \cup StepsOf(rest)
  BY <1>3, <1>4, BeforeInOrder
<1>6. /\ new \in Lists /\ Orderly(parentOf, new)
      /\ StepsOf(new) = F \cup StepsOf(Before(G, rest))
  BY <1>4, <1>5, BeforeInOrder
<1> HIDE DEF new
<1>7. /\ todo' \in [Worker -> Lists] /\ todo'[w] = new
      /\ \A v \in Worker : v # w => todo'[v] = todo[v]
  BY <1>1, <1>2, <1>6
<1>8. InOrder'
  BY <1>6, <1>7 DEF Core, InOrder
<1>9. /\ Pending(w) = StepsOf(rest) \cup {s}
      /\ Pending(w)' = F \cup G \cup StepsOf(rest)
      /\ \A v \in Worker : v # w => Pending(v)' = Pending(v)
  BY <1>3, <1>5, <1>6, <1>7 DEF Pending
<1>10. Moves(w, s, F \cup G)
  BY <1>3, <1>7, <1>9 DEF Moves
<1>11. QED
  BY <1>7, <1>8, <1>10

\* The same, said in one word.
Fits(w, s, F, G) ==
    /\ \A a, b \in F : a # b => MayWait(parentOf, a, b)
    /\ \A a, b \in G : a # b => MayWait(parentOf, a, b)
    /\ \A a \in F, b \in G : MayWait(parentOf, a, b)
    /\ \A a \in F \cup G, t \in Pending(w) :
          MayWait(parentOf, s, t) => MayWait(parentOf, a, t)

\* A step whose lists of new steps fit is done: they come, and the list stays in
\* order.
LEMMA FittingMoves ==
    ASSUME Core, NEW w \in Worker, NEW op, NEW s \in Ready(w, op),
           NEW F \in SUBSET Step, NEW G \in SUBSET Step, Continue(w, s, F, G),
           parentOf' = parentOf, Fits(w, s, F, G)
    PROVE  /\ Moves(w, s, F \cup G) /\ InOrder'
           /\ todo' \in [Worker -> Lists]
<1>1. /\ \A a, b \in F : a # b => MayWait(parentOf, a, b)
      /\ \A a, b \in G : a # b => MayWait(parentOf, a, b)
      /\ \A a \in F, b \in G : MayWait(parentOf, a, b)
      /\ \A a \in F \cup G, t \in Pending(w) :
            MayWait(parentOf, s, t) => MayWait(parentOf, a, t)
  BY DEF Fits
<1>2. QED
  BY <1>1, ContinueMoves

\* The same if only F is brought.
LEMMA ContinueWith ==
    ASSUME Core, NEW w \in Worker, NEW op, NEW s \in Ready(w, op),
           NEW F \in SUBSET Step, Continue(w, s, F, {}), parentOf' = parentOf,
           \A a, b \in F : a # b => MayWait(parentOf, a, b),
           \A a \in F, t \in Pending(w) :
               MayWait(parentOf, s, t) => MayWait(parentOf, a, t)
    PROVE  /\ Moves(w, s, F) /\ InOrder'
           /\ todo' \in [Worker -> Lists]
<1> DEFINE G == {}
<1>1. /\ G \in SUBSET Step /\ Continue(w, s, F, G) /\ F \cup G = F
      /\ \A a, b \in G : a # b => MayWait(parentOf, a, b)
      /\ \A a \in F, b \in G : MayWait(parentOf, a, b)
  OBVIOUS
<1> HIDE DEF G
<1>2. \A a \in F \cup G, t \in Pending(w) :
          MayWait(parentOf, s, t) => MayWait(parentOf, a, t)
  BY <1>1
<1>3. /\ Moves(w, s, F \cup G) /\ InOrder'
      /\ todo' \in [Worker -> Lists]
  BY <1>1, <1>2, ContinueMoves
<1>4. QED
  BY <1>1, <1>3

\* What a step says.
LEMMA DoFields ==
    ASSUME NEW op, NEW p, NEW o, NEW t
    PROVE  /\ Do(op, p, o, t).op = op /\ Do(op, p, o, t).at = p
           /\ Do(op, p, o, t).what = o /\ Do(op, p, o, t).text = t
BY DEF Do

\* What Do makes of typed arguments is a step.
LEMMA DoSteps ==
    ASSUME NEW op \in Ops, NEW p \in Project, NEW o \in Item \cup {NoItem}, NEW t \in Text
    PROVE  Do(op, p, o, t) \in Step
BY DEF Do, Step

\* Steps for projects, for items, and for items with what p's rows say.
ForProjects(op, S, o, t) == {Do(op, c, o, t) : c \in S}
ForItems(op, p, S, t) == {Do(op, p, x, t) : x \in S}
ForRows(op, p, S, q) == {Do(op, p, x, text[<<q, x>>]) : x \in S}

\* There is one such step for each of the projects, and nothing else.
LEMMA ForProjectsFacts ==
    ASSUME NEW op, NEW S, NEW o, NEW t
    PROVE  LET M == ForProjects(op, S, o, t)
           IN  /\ \A a \in M : a.op = op /\ a.at \in S /\ a.what = o /\ a.text = t
               /\ \A a, b \in M : a # b => a.at # b.at
               /\ \A c \in S : Do(op, c, o, t) \in M
               /\ op \in Ops /\ S \subseteq Project /\ o \in Item \cup {NoItem} /\ t \in Text =>
                     M \in SUBSET Step
<1> DEFINE M == ForProjects(op, S, o, t)
<1>1. \A a \in M : \E c \in S : a = Do(op, c, o, t)
  BY DEF ForProjects
<1>2. \A c \in S : Do(op, c, o, t) \in M
  BY DEF ForProjects
<1> HIDE DEF M
<1>3. \A a \in M : a.op = op /\ a.at \in S /\ a.what = o /\ a.text = t /\ a = Do(op, a.at, o, t)
  BY <1>1, DoFields
<1>4. op \in Ops /\ S \subseteq Project /\ o \in Item \cup {NoItem} /\ t \in Text =>
          M \in SUBSET Step
  BY <1>3, DoSteps
<1>5. \A a, b \in M : a # b => a.at # b.at
  BY <1>3
<1>6. QED
  BY <1>2, <1>3, <1>4, <1>5 DEF M

\* There is one such step for each of the items, and nothing else.
LEMMA ForItemsFacts ==
    ASSUME NEW op, NEW p, NEW S, NEW t
    PROVE  LET M == ForItems(op, p, S, t)
           IN  /\ \A a \in M : a.op = op /\ a.at = p /\ a.what \in S /\ a.text = t
               /\ \A x \in S : Do(op, p, x, t) \in M
               /\ op \in Ops /\ p \in Project /\ S \subseteq Item /\ t \in Text =>
                     M \in SUBSET Step
<1> DEFINE M == ForItems(op, p, S, t)
<1>1. \A a \in M : \E x \in S : a = Do(op, p, x, t)
  BY DEF ForItems
<1>2. \A x \in S : Do(op, p, x, t) \in M
  BY DEF ForItems
<1> HIDE DEF M
<1>3. \A a \in M : a.op = op /\ a.at = p /\ a.what \in S /\ a.text = t /\ a = Do(op, p, a.what, t)
  BY <1>1, DoFields
<1>4. op \in Ops /\ p \in Project /\ S \subseteq Item /\ t \in Text => M \in SUBSET Step
  BY <1>3, DoSteps
<1>5. QED
  BY <1>2, <1>3, <1>4 DEF M

\* There is one such step for each of the items, and no two for one item.
LEMMA ForRowsFacts ==
    ASSUME NEW op, NEW p, NEW S, NEW q
    PROVE  LET M == ForRows(op, p, S, q)
           IN  /\ \A a \in M : a.op = op /\ a.at = p /\ a.what \in S
               /\ \A a, b \in M : a # b => a.what # b.what
               /\ \A x \in S : \E a \in M : a.what = x
<1> DEFINE M == ForRows(op, p, S, q)
           f(x) == text[<<q, x>>]
<1>1. \A a \in M : \E x \in S : a = Do(op, p, x, f(x))
  BY DEF ForRows
<1>2. \A x \in S : Do(op, p, x, f(x)) \in M
  BY DEF ForRows
<1> HIDE DEF M, f
<1>3. \A a \in M : a.op = op /\ a.at = p /\ a.what \in S /\ a = Do(op, p, a.what, f(a.what))
  BY <1>1, DoFields
<1>4. \A a, b \in M : a # b => a.what # b.what
  BY <1>3
<1>5. \A x \in S : \E a \in M : a.what = x
  BY <1>2, DoFields
<1>6. QED
  BY <1>3, <1>4, <1>5 DEF M, f

\* These steps say what the rows of q say, and are steps if those are typed.
LEMMA ForRowsTexts ==
    ASSUME NEW op, NEW p, NEW S, NEW q
    PROVE  /\ \A a \in ForRows(op, p, S, q) : a.text = text[<<q, a.what>>]
           /\ op \in Ops /\ p \in Project /\ S \subseteq Item
                /\ (\A x \in S : text[<<q, x>>] \in Text) => ForRows(op, p, S, q) \in SUBSET Step
<1> DEFINE M == ForRows(op, p, S, q)
           f(x) == text[<<q, x>>]
<1>1. \A a \in M : \E x \in S : a = Do(op, p, x, f(x))
  BY DEF ForRows
<1> HIDE DEF M, f
<1>2. \A a \in M : a.what \in S /\ a.text = f(a.what) /\ a = Do(op, p, a.what, f(a.what))
  BY <1>1, DoFields
<1>3. op \in Ops /\ p \in Project /\ S \subseteq Item /\ (\A x \in S : f(x) \in Text) =>
          M \in SUBSET Step
  BY <1>2, DoSteps
<1>4. QED
  BY <1>2, <1>3 DEF M, f

\* Steps that are nothing special may be done before what waited for s.
Special == Takings \cup {"commit", "copyDefaults", "fixed", "requireResult", "readResults"}

\* A step brought by s, at its project or at a child, waits for nothing that s did
\* not wait for.
LEMMA Inherits ==
    ASSUME Core, NEW s \in Step, NEW a \in Step, a.op \notin Special,
           s.op \in Repairing => a.op \in Repairing,
           a.at \in {s.at} \cup Children(s.at)
    PROVE  \A t \in Step : MayWait(parentOf, s, t) => MayWait(parentOf, a, t)
<1> SUFFICES ASSUME NEW t \in Step, MayWait(parentOf, s, t)
             PROVE  MayWait(parentOf, a, t)
  OBVIOUS
<1>1. s.at \in Project /\ a.at \in Project /\ t.at \in Project /\ parentOf \in Hierarchies
  BY DEF Step, Core, TypeOK
<1>2. s.at \in {t.at} \cup BelowAll(t.at) => a.at \in {t.at} \cup BelowAll(t.at)
  BY <1>1, BelowAllFacts DEF Children
<1>3. QED
  BY <1>2 DEF MayWait, Special, Takings, BelowAll, Below

\* A step that brings nothing special.
LEMMA PlainMoves ==
    ASSUME Core, NEW w \in Worker, NEW op, NEW s \in Ready(w, op),
           NEW F \in SUBSET Step, NEW G \in SUBSET Step, Continue(w, s, F, G),
           parentOf' = parentOf,
           \A a \in F \cup G :
               /\ a.op \notin Special /\ a.at \in {s.at} \cup Children(s.at)
               /\ op \in Repairing => a.op \in Repairing
    PROVE  /\ Moves(w, s, F \cup G) /\ InOrder'
           /\ todo' \in [Worker -> Lists]
<1>1. s \in Step /\ s.op = op /\ Pending(w) \subseteq Step
  BY ReadyStep, StepsAreSteps DEF Core
<1>2. \A a \in F \cup G, t \in Pending(w) :
          MayWait(parentOf, s, t) => MayWait(parentOf, a, t)
  BY <1>1, Inherits
<1>3. \A a, b \in F \cup G : MayWait(parentOf, a, b)
  BY DEF MayWait, Special, Takings
<1>4. QED
  BY <1>2, <1>3, ContinueMoves

(* Rows that come -----------------------------------------------------------*)

RowsKept == Rows' = Rows /\ linked' = linked

\* Copies of item o are made at the projects of D, for p and what is below it.
CopiesMade(p, o, D) ==
    /\ p \in Project /\ o \in Item /\ p \in D /\ D \subseteq {p} \cup BelowAll(p)
    /\ AtParent(p, o)
    /\ \A d \in D : <<d, o>> \notin Rows /\ (d = p \/ parentOf[d] \in D)
    /\ o \in DOMAIN Owner => \A d \in D : <<d, Owner[o]>> \in linked
    /\ Rows' = Rows \cup (D \X {o}) /\ linked' = linked \cup (D \X {o})

\* What the types say of rows and copies.
RowTypes ==
    /\ Rows \subseteq Project \X Item
    /\ linked \subseteq Rows
    /\ \A x \in linked : <<parentOf[x[1]], x[2]>> \in Rows

\* Copies leave the rows consistent.
LEMMA CopiesConsistent ==
    ASSUME TypeOK, RowsConsistent, parentOf' = parentOf, NEW p, NEW o, NEW D,
           CopiesMade(p, o, D)
    PROVE  /\ RowTypes' /\ RowsConsistent'
           /\ \A x \in Rows' \ Rows : \E q \in Project : <<q, x[2]>> \in Rows
           /\ Rows \subseteq Rows' /\ linked \subseteq linked'
<1>1. /\ parentOf \in Hierarchies /\ Rows \subseteq Project \X Item /\ linked \subseteq Rows
      /\ \A x \in linked : <<parentOf[x[1]], x[2]>> \in Rows
  BY DEF TypeOK
<1>2. /\ p \in Project /\ o \in Item /\ p \in D /\ D \subseteq {p} \cup BelowAll(p)
      /\ <<parentOf[p], o>> \in Rows
      /\ \A d \in D : <<d, o>> \notin Rows /\ (d = p \/ parentOf[d] \in D)
      /\ o \in DOMAIN Owner => \A d \in D : <<d, Owner[o]>> \in linked
      /\ Rows' = Rows \cup (D \X {o}) /\ linked' = linked \cup (D \X {o})
  BY DEF CopiesMade, AtParent
<1>3. D \subseteq Project
  BY <1>1, <1>2, BelowAllFacts
<1>4. RowTypes'
  <2>1. Rows' \subseteq Project \X Item /\ linked' \subseteq Rows'
    BY <1>1, <1>2, <1>3
  <2>2. \A x \in linked' : <<parentOf[x[1]], x[2]>> \in Rows'
    BY <1>1, <1>2
  <2>3. QED
    BY <2>1, <2>2 DEF RowTypes
<1>5. RowsConsistent'
  <2>1. /\ \A x \in Rows' : x[2] \in DOMAIN Owner => <<x[1], Owner[x[2]]>> \in Rows'
        /\ \A x \in linked' : x[2] \in DOMAIN Owner => <<x[1], Owner[x[2]]>> \in linked'
    BY <1>1, <1>2 DEF RowsConsistent
  <2>2. ASSUME NEW x \in Rows' \ linked', NEW y \in Rows', y[2] = x[2]
        PROVE  y[1] \in {x[1]} \cup BelowAll(x[1])
    <3>1. x \in Rows \ linked
      BY <1>2
    <3>2. CASE y \in Rows
      BY <2>2, <3>1, <3>2 DEF RowsConsistent
    <3>3. CASE y \notin Rows
      <4>1. y[1] \in D /\ y[2] = o /\ x[2] = o
        BY <1>2, <2>2, <3>3
      <4>2. parentOf[p] \in {x[1]} \cup BelowAll(x[1])
        BY <1>2, <3>1, <4>1 DEF RowsConsistent
      <4>3. p \in BelowAll(x[1])
        BY <1>1, <1>2, <4>2, BelowAllFacts
      <4>4. QED
        BY <1>1, <1>2, <4>1, <4>3, BelowAllFacts
    <3>4. QED
      BY <3>2, <3>3
  <2>3. BelowAll(1)' = BelowAll(1)
    BY DEF BelowAll, Below
  <2>4. QED
    BY <2>1, <2>2 DEF RowsConsistent, BelowAll, Below
<1>6. \A x \in Rows' \ Rows : \E q \in Project : <<q, x[2]>> \in Rows
  BY <1>1, <1>2
<1>7. QED
  BY <1>2, <1>4, <1>5, <1>6

\* The rows of a transaction leave the rows consistent.
LEMMA InsertedConsistent ==
    ASSUME TypeOK, RowsConsistent, parentOf' = parentOf, NEW w \in Worker, NEW s \in Step,
           ToCommit(w, s), Rows' = Rows \cup inserted[w],
           linked' = linked \cup {x \in inserted[w] : x[1] # s.at}
    PROVE  /\ RowTypes' /\ RowsConsistent'
           /\ Rows \subseteq Rows' /\ linked \subseteq linked'
<1> DEFINE I == inserted[w]
<1>1. /\ Rows \subseteq Project \X Item /\ linked \subseteq Rows /\ I \subseteq Project \X Item
      /\ \A x \in linked : <<parentOf[x[1]], x[2]>> \in Rows
  BY DEF TypeOK
<1>2. /\ <<s.at, s.what>> \in I
      /\ \A x \in I : \A y \in I : <<x[1], y[2]>> \in I
      /\ \A x \in I : x[2] = s.what \/ (x[2] \in Default /\ Owner[x[2]] = s.what)
      /\ \A x \in I : \A p \in Project : <<p, x[2]>> \notin Rows
      /\ \A x \in I : x[1] # s.at => x[1] \in BelowAll(s.at) /\ <<parentOf[x[1]], x[2]>> \in I
      /\ s.what \in DOMAIN Owner => \A x \in I :
            /\ <<x[1], Owner[s.what]>> \in Rows
            /\ x[1] # s.at => <<x[1], Owner[s.what]>> \in linked
  BY DEF ToCommit, NewRow
<1>3. Rows' = Rows \cup I /\ linked' = linked \cup {x \in I : x[1] # s.at}
  OBVIOUS
<1> HIDE DEF I
<1>4. RowTypes'
  <2>1. Rows' \subseteq Project \X Item /\ linked' \subseteq Rows'
    BY <1>1, <1>3
  <2>2. \A x \in linked' : <<parentOf'[x[1]], x[2]>> \in Rows'
    BY <1>1, <1>2, <1>3
  <2>3. QED
    BY <2>1, <2>2 DEF RowTypes
<1>5. ASSUME NEW x \in I, x[2] \in DOMAIN Owner
      PROVE  /\ <<x[1], Owner[x[2]]>> \in Rows'
             /\ x[1] # s.at => <<x[1], Owner[x[2]]>> \in linked'
  <2>1. CASE x[2] = s.what
    BY <1>2, <1>3, <1>5, <2>1
  <2>2. CASE Owner[x[2]] = s.what
    <3> DEFINE y == <<x[1], s.what>>
    <3>1. y \in I /\ y[1] = x[1]
      BY <1>2
    <3>2. y \in Rows' /\ (x[1] # s.at => y \in linked')
      BY <1>3, <3>1
    <3>3. QED
      BY <2>2, <3>2
  <2>3. QED
    BY <1>2, <2>1, <2>2
<1>6. /\ \A x \in Rows' : x[2] \in DOMAIN Owner => <<x[1], Owner[x[2]]>> \in Rows'
      /\ \A x \in linked' : x[2] \in DOMAIN Owner => <<x[1], Owner[x[2]]>> \in linked'
  BY <1>3, <1>5 DEF RowsConsistent
<1>7. ASSUME NEW x \in Rows' \ linked', NEW y \in Rows', y[2] = x[2]
      PROVE  y[1] \in {x[1]} \cup BelowAll(x[1])
  <2>1. CASE x \in Rows /\ y \in Rows
    BY <1>3, <1>7, <2>1 DEF RowsConsistent
  <2>2. CASE x \in I /\ y \in I
    BY <1>2, <1>3, <1>7, <2>2
  <2>3. ASSUME NEW a \in I, NEW b \in Rows, a[2] = b[2]
        PROVE  FALSE
    <3>1. b = <<b[1], b[2]>> /\ b[1] \in Project
      BY <1>1
    <3>2. QED
      BY <1>2, <2>3, <3>1
  <2>4. QED
    BY <1>3, <1>7, <2>1, <2>2, <2>3
<1>8. QED
  BY <1>3, <1>4, <1>6, <1>7 DEF RowsConsistent, BelowAll, Below

\* A step to be done stays as it was promised when rows only come; a transaction, if
\* they are not of its items.
LEMMA ReadyStays ==
    ASSUME parentOf' = parentOf, Rows \subseteq Rows', linked \subseteq linked',
           NEW v, NEW t, StepReady(v, t),
           t.op = "commit" =>
               /\ inserted'[v] = inserted[v]
               /\ \A x \in inserted[v] : \A p \in Project : <<p, x[2]>> \notin Rows'
    PROVE  StepReady(v, t)'
<1>1. t.op # "commit" => StepReady(v, t)'
  BY DEF StepReady, AtParent
<1>2. ASSUME t.op = "commit"
      PROVE  ToCommit(v, t)'
  <2>1. ToCommit(v, t) /\ inserted'[v] = inserted[v]
    BY <1>2 DEF StepReady
  <2>2. ASSUME NEW x \in inserted[v]
        PROVE  NewRow(v, t, x)'
    <3>1. NewRow(v, t, x) /\ \A p \in Project : <<p, x[2]>> \notin Rows'
      BY <1>2, <2>1 DEF ToCommit
    <3>2. QED
      BY <2>1, <3>1 DEF NewRow, BelowAll, Below
  <2>3. QED
    BY <2>1, <2>2 DEF ToCommit
<1>3. ASSUME t.op = "commit"
      PROVE  StepReady(v, t)'
  BY <1>2, <1>3 DEF StepReady, AtParent, Takings, Copyings
<1>4. QED
  BY <1>1, <1>3

\* What holds of the other variables after a step of a worker.
OthersTyped ==
    /\ defaultsAt \subseteq Project
    /\ todo \in [Worker -> Lists]
    /\ imported \subseteq Project
    /\ chosen \subseteq linked
    /\ inserted \in [Worker -> SUBSET (Project \X Item)]
    /\ overlooked \subseteq Project \X DOMAIN Owner
    /\ own \subseteq Rows
    /\ repair \in {"no", "running", "done"}
    /\ root \in Project \cup {NoProject}
    /\ edits \in 0 .. MaxEdits
    /\ crashes \in 0 .. MaxCrashes

\* A step of a worker keeps Core if it leaves the rows consistent and what it
\* brings is as it is to be.
LEMMA CoreAfterStep ==
    ASSUME Core, NEW w \in Worker, NEW s \in Pending(w), NEW M, Moves(w, s, M),
           InOrder', OthersTyped', \A x \in Rows' : text'[x] \in Text,
           inserted' = inserted,
           \A a \in M : StepReady(w, a)' /\ a.op # "commit",
           RowsKept \/ \E p, o, D : CopiesMade(p, o, D)
    PROVE  Core'
<1>1. parentOf' = parentOf /\ TypeOK /\ RowsConsistent
  BY DEF Moves, Core
<1>2. /\ RowTypes' /\ RowsConsistent'
      /\ Rows \subseteq Rows' /\ linked \subseteq linked'
      /\ \A x \in Rows' \ Rows : \E q \in Project : <<q, x[2]>> \in Rows
  <2>1. CASE RowsKept
    BY <1>1, <2>1 DEF RowsKept, RowTypes, RowsConsistent, TypeOK, BelowAll, Below
  <2>2. CASE \E p, o, D : CopiesMade(p, o, D)
    BY <1>1, <2>2, CopiesConsistent
  <2>3. QED
    BY <2>1, <2>2
<1>3. StepsReady'
  <2>1. SUFFICES ASSUME NEW v \in Worker, NEW t \in Pending(v)'
                 PROVE  StepReady(v, t)'
    BY DEF StepsReady
  <2>2. CASE v = w /\ t \in M
    BY <2>2
  <2>3. CASE v = w => t \notin M
    <3>1. t \in Pending(v) /\ StepReady(v, t)
      BY <2>3 DEF Moves, Core, StepsReady
    <3>2. ASSUME t.op = "commit", NEW x \in inserted[v], NEW p \in Project,
                 <<p, x[2]>> \in Rows'
          PROVE  FALSE
      <4>1. \A q \in Project : <<q, x[2]>> \notin Rows
        BY <3>1, <3>2 DEF StepReady, ToCommit, NewRow
      <4> DEFINE y == <<p, x[2]>>
      <4>2. y \in Rows' \ Rows /\ y[2] = x[2]
        BY <3>2, <4>1
      <4> HIDE DEF y
      <4>3. QED
        BY <1>2, <4>1, <4>2
    <3>3. QED
      BY <1>1, <1>2, <3>1, <3>2, ReadyStays
  <2>4. QED
    BY <2>2, <2>3
<1>4. CreatedOnce'
  <2>1. \A v \in Worker : \A t \in Pending(v)' : t.op = "commit" => t \in Pending(v)
    BY DEF Moves
  <2>2. QED
    BY <2>1 DEF Core, CreatedOnce
<1>5. TypeOK'
  BY <1>1, <1>2 DEF TypeOK, OthersTyped, RowTypes, Lists
<1>6. QED
  BY <1>2, <1>3, <1>4, <1>5 DEF Core

(* The steps of a worker, one by one -----------------------------------------*)

\* What a step leaves alone keeps its type.
LEMMA OthersStay ==
    ASSUME TypeOK, todo' \in [Worker -> Lists], linked \subseteq linked', Frame,
           own' \subseteq Rows', UNCHANGED <<defaultsAt, imported, chosen, repair, edits>>
    PROVE  OthersTyped'
BY DEF TypeOK, OthersTyped, Frame

\* What a write makes of the rows.
LEMMA Written ==
    ASSUME TypeOK, NEW R, NEW t \in Text, Write(R, t)
    PROVE  /\ Rows' = Rows \cup R
           /\ \A x \in Rows' : text'[x] \in Text
           /\ \A x \in R : text'[x] = t
           /\ \A x \in Rows \ R : text'[x] = text[x]
<1>1. text' = [x \in Rows \cup R |-> IF x \in R THEN t ELSE text[x]]
  BY DEF Write
<1>2. Rows' = Rows \cup R
  BY <1>1 DEF Rows
<1>3. \A x \in Rows : text[x] \in Text
  BY DEF TypeOK
<1> HIDE DEF Rows
<1>4. \A x \in Rows \cup R : text'[x] = IF x \in R THEN t ELSE text[x]
  BY <1>1
<1>5. QED
  BY <1>2, <1>3, <1>4

\* Steps that only read.
LEMMA ReadCore ==
    ASSUME Core, NEW w \in Worker, NEW op, NEW s \in Ready(w, op),
           NEW M \in SUBSET Step, Moves(w, s, M), InOrder', todo' \in [Worker -> Lists],
           Unwritten, Frame,
           \A a \in M : StepReady(w, a) /\ a.op # "commit"
    PROVE  Core' /\ RowsKept
<1>1. s \in Pending(w) /\ TypeOK
  BY ReadyStep DEF Core
<1>2. RowsKept /\ parentOf' = parentOf /\ text' = text /\ linked' = linked
  BY DEF RowsKept, Unwritten, Frame, Rows
<1>3. OthersTyped' /\ inserted' = inserted
  <2>1. own' \subseteq Rows'
    BY <1>1, <1>2 DEF Unwritten, TypeOK, RowsKept
  <2>2. QED
    BY <1>1, <1>2, <2>1, OthersStay DEF Unwritten, Frame
<1>4. \A a \in M : StepReady(w, a)' /\ a.op # "commit"
  <2>1. SUFFICES ASSUME NEW a \in M
                 PROVE  StepReady(w, a)'
    OBVIOUS
  <2>2. StepReady(w, a) /\ a.op # "commit"
    OBVIOUS
  <2>3. QED
    BY <1>2, <2>2, ReadyStays DEF RowsKept
<1>5. \A x \in Rows' : text'[x] \in Text
  BY <1>1, <1>2 DEF RowsKept, TypeOK
<1>6. QED
  BY <1>1, <1>2, <1>3, <1>4, <1>5, CoreAfterStep

\* Steps that only read and bring nothing special.
LEMMA PlainRead ==
    ASSUME Core, NEW w \in Worker, NEW op, NEW s \in Ready(w, op),
           NEW F \in SUBSET Step, NEW G \in SUBSET Step, Continue(w, s, F, G),
           Unwritten, Frame,
           \A a \in F \cup G :
               /\ StepReady(w, a)
               /\ a.op \notin Special
               /\ a.at \in {s.at} \cup Children(s.at)
               /\ op \in Repairing => a.op \in Repairing
    PROVE  Core' /\ RowsKept /\ Moves(w, s, F \cup G)
<1>1. parentOf' = parentOf
  BY DEF Frame
<1>2. /\ Moves(w, s, F \cup G) /\ InOrder'
      /\ todo' \in [Worker -> Lists]
  BY <1>1, PlainMoves
<1>3. \A a \in F \cup G : a.op # "commit"
  BY DEF Special
<1>4. Core' /\ RowsKept
  BY <1>2, <1>3, ReadCore
<1>5. QED
  BY <1>2, <1>4

\* Project.do_import_results reads what there is to be copied.
LEMMA ReadResultsKeeps ==
    ASSUME Core, NEW w \in Worker, NEW s \in Ready(w, "readResults"), ReadResults(w, s)
    PROVE  LET p == parentOf[s.at]
               M == ForRows("takeResult", s.at, {x \in Result : <<p, x>> \in Rows}, p)
           IN  Core' /\ RowsKept /\ Moves(w, s, M) /\ Unwritten /\ Frame
<1> DEFINE p == parentOf[s.at]
           S == {x \in Result : <<p, x>> \in Rows}
           M == ForRows("takeResult", s.at, S, p)
<1>1. Continue(w, s, M, {}) /\ Unwritten /\ Frame /\ parentOf' = parentOf
  BY DEF ReadResults, Reads, Frame, ForRows
<1>2. s \in Step /\ s.op = "readResults" /\ s \in Pending(w) /\ StepReady(w, s)
      /\ s.at \in Project
  BY ReadyStep
<1>3. /\ \A r \in S : r \in Result /\ <<p, r>> \in Rows /\ text[<<p, r>>] \in Text
      /\ parentOf[s.at] \in Project
  BY <1>2 DEF Core, TypeOK, StepReady
<1> HIDE DEF S
<1>4. /\ \A a \in M : a.op = "takeResult" /\ a.at = s.at /\ a.what \in S
      /\ \A a, b \in M : a # b => a.what # b.what
  BY ForRowsFacts
<1>5. \A a \in M : a.what \in Result /\ <<p, a.what>> \in Rows
  BY <1>3, <1>4
<1>6. M \in SUBSET Step
  <2>1. S \subseteq Item
    BY <1>3, Owners
  <2>2. QED
    BY <1>2, <1>3, <2>1, ForRowsTexts DEF Ops
<1> HIDE DEF M
<1>7. \A a \in M : StepReady(w, a)
  BY <1>2, <1>3, <1>4, <1>5 DEF StepReady, AtParent, Takings, Copyings
<1>8. \A a, b \in M : a # b => MayWait(parentOf, a, b)
  BY <1>4 DEF MayWait, Takings, Insertions, Covering, Readings, Copyings
<1>9. \A a \in M, t \in Pending(w) :
          MayWait(parentOf, s, t) => MayWait(parentOf, a, t)
  BY <1>2, <1>4 DEF MayWait, Takings, Insertions, Covering, Readings, Copyings
<1>10. Moves(w, s, M) /\ InOrder' /\ todo' \in [Worker -> Lists]
  BY <1>1, <1>6, <1>8, <1>9, ContinueWith
<1>11. \A a \in M : a.op # "commit"
  BY <1>4
<1>12. Core' /\ RowsKept
  BY <1>1, <1>6, <1>7, <1>10, <1>11, ReadCore
<1>13. QED
  BY <1>1, <1>10, <1>12 DEF M, S

\* A step that brings one step of another kind about the same row.
LEMMA InsertionMoves ==
    ASSUME Core, NEW w \in Worker, NEW op \in {"takeResult", "offer"},
           NEW s \in Ready(w, op), NEW d \in Step, NEW M \in SUBSET {d}, Reads(w, s, M),
           d.op = "insertResult" /\ d.at = s.at /\ d.what = s.what,
           M # {} => AtParent(s.at, s.what)
    PROVE  Core' /\ RowsKept /\ Moves(w, s, M)
<1>1. Continue(w, s, M, {}) /\ Unwritten /\ Frame /\ parentOf' = parentOf
  BY DEF Reads, Frame
<1>2. s \in Step /\ s.op = op /\ s \in Pending(w) /\ StepReady(w, s)
      /\ s.at \in Project /\ s.what \in Item \cup {NoItem} /\ s.text \in Text
  BY ReadyStep
<1>3. M \in SUBSET Step
  OBVIOUS
<1>4. \A a \in M : a.op = "insertResult" /\ a.at = s.at /\ a.what = s.what
  OBVIOUS
<1>5. \A a \in M : StepReady(w, a)
  <2>1. M # {} => AtParent(s.at, s.what)
    OBVIOUS
  <2>2. \A a \in M : AtParent(a.at, a.what) /\ a.what \in Result /\ parentOf[a.at] \in Project
    BY <1>2, <1>4, <2>1 DEF StepReady, Takings
  <2>3. QED
    BY <1>4, <2>2 DEF StepReady, Takings, Copyings
<1>6. \A a, b \in M : a = b
  OBVIOUS
<1>7. \A a \in M, t \in Pending(w) :
          MayWait(parentOf, s, t) => MayWait(parentOf, a, t)
  BY <1>2, <1>4 DEF MayWait, Takings, Insertions, Covering, Readings, Copyings, Repairing
<1>8. Moves(w, s, M) /\ InOrder' /\ todo' \in [Worker -> Lists]
  BY <1>1, <1>2, <1>3, <1>6, <1>7, ContinueWith
<1>10. \A a \in M : a.op # "commit"
  BY <1>4
<1>11. Core' /\ RowsKept
  BY <1>1, <1>3, <1>5, <1>8, <1>10, ReadCore
<1>12. QED
  BY <1>8, <1>11

\* import_result skips what has a copy.
LEMMA TakeResultKeeps ==
    ASSUME Core, NEW w \in Worker, NEW s \in Ready(w, "takeResult"), TakeResult(w, s)
    PROVE  LET M == IF <<s.at, s.what>> \in linked THEN {}
                    ELSE {Do("insertResult", s.at, s.what, s.text)}
           IN  Core' /\ RowsKept /\ Moves(w, s, M) /\ Unwritten /\ Frame
<1> DEFINE d == Do("insertResult", s.at, s.what, s.text)
           M == IF <<s.at, s.what>> \in linked THEN {} ELSE {d}
<1>1. AtParent(s.at, s.what)
  BY ReadyStep DEF StepReady, Takings
<1>2. M \in SUBSET {d}
  OBVIOUS
<1>3. Reads(w, s, M) /\ Unwritten /\ Frame
  BY DEF TakeResult, Reads
<1>d. d \in Step /\ d.op = "insertResult" /\ d.at = s.at /\ d.what = s.what
  <2>1. s.at \in Project /\ s.what \in Item \cup {NoItem} /\ s.text \in Text
    BY ReadyStep
  <2>2. d \in Step
    BY <2>1, DoSteps DEF Ops
  <2>3. QED
    BY <2>2, DoFields
<1> HIDE DEF M, d
<1>4. Core' /\ RowsKept /\ Moves(w, s, M)
  BY <1>1, <1>2, <1>3, <1>d, InsertionMoves
<1>5. QED
  BY <1>3, <1>4 DEF M, d

\* copy_result_to_children passes over the children that have not imported.
LEMMA OfferKeeps ==
    ASSUME Core, NEW w \in Worker, NEW s \in Ready(w, "offer"), Offer(w, s)
    PROVE  LET M == IF HasImportedResults(s.at)
                    THEN {Do("insertResult", s.at, s.what, s.text)} ELSE {}
           IN  Core' /\ RowsKept /\ Moves(w, s, M) /\ Unwritten /\ Frame
<1> DEFINE d == Do("insertResult", s.at, s.what, s.text)
           M == IF HasImportedResults(s.at) THEN {d} ELSE {}
<1>1. s.op = "offer" /\ StepReady(w, s)
  BY ReadyStep
<1>2. AtParent(s.at, s.what)
  BY <1>1 DEF StepReady, Takings
<1>3. M \in SUBSET {d}
  OBVIOUS
<1>4. Reads(w, s, M) /\ Unwritten /\ Frame
  BY DEF Offer, Reads
<1>d. d \in Step /\ d.op = "insertResult" /\ d.at = s.at /\ d.what = s.what
  <2>1. s.at \in Project /\ s.what \in Item \cup {NoItem} /\ s.text \in Text
    BY ReadyStep
  <2>2. d \in Step
    BY <2>1, DoSteps DEF Ops
  <2>3. QED
    BY <2>2, DoFields
<1> HIDE DEF M, d
<1>5. Core' /\ RowsKept /\ Moves(w, s, M)
  BY <1>2, <1>3, <1>4, <1>d, InsertionMoves
<1>6. QED
  BY <1>4, <1>5 DEF M, d

\* The parts of results are indicators, those of indicators periods.
LEMMA PartKinds ==
    /\ \A r \in Result : Parts(r) \subseteq Indicator
    /\ \A i \in Indicator : Parts(i) \subseteq Period
    /\ \A o : \A x \in Parts(o) : x \in DOMAIN Owner /\ Owner[x] = o /\ x \in Item
    /\ \A x \in DOMAIN Owner : x \in Parts(Owner[x])
BY FrameworkAssumption, Owners DEF Parts

\* What copy_indicator and copy_period are to be done with.
LEMMA CopyPartsReady ==
    ASSUME Core, NEW w \in Worker, NEW c \in Project, NEW o, <<c, o>> \in linked, NEW op,
           op \in Copyings, op = "copyIndicator" => o \in Result,
           op = "copyPeriod" => o \in Indicator
    PROVE  /\ CopyParts(c, o, op) \in SUBSET Step
           /\ \A a \in CopyParts(c, o, op) :
                 StepReady(w, a) /\ a.op = op /\ a.at = c
<1> DEFINE S == PartsAt(parentOf[c], o)
           M == ForRows(op, c, S, parentOf[c])
<1>1. CopyParts(c, o, op) = M
  BY DEF CopyParts, ForRows
<1>2. /\ \A x \in S : x \in Parts(o) /\ <<parentOf[c], x>> \in Rows
      /\ \A x \in S : text[<<parentOf[c], x>>] \in Text
  BY DEF PartsAt, Core, TypeOK
<1>0. op \in {"copyIndicator", "copyPeriod"}
  BY DEF Copyings
<1>3. /\ \A x \in S : x \in Item /\ Owner[x] = o /\ AtParent(c, x)
      /\ op = "copyIndicator" => S \subseteq Indicator
      /\ op = "copyPeriod" => S \subseteq Period
  BY <1>2, PartKinds, FrameworkAssumption DEF AtParent
<1> HIDE DEF S
<1>4. \A a \in M : a.op = op /\ a.at = c /\ a.what \in S
  BY ForRowsFacts
<1>5. M \in SUBSET Step
  BY <1>0, <1>2, <1>3, ForRowsTexts DEF Ops
<1> HIDE DEF M
<1>6. \A a \in M : StepReady(w, a)
  BY <1>0, <1>3, <1>4 DEF StepReady, Takings, Copyings
<1>7. QED
  BY <1>1, <1>4, <1>5, <1>6 DEF M, S

\* Steps that read what is to be copied.
LEMMA CopyPartsRead ==
    ASSUME Core, NEW w \in Worker, NEW op, NEW s \in Ready(w, op),
           NEW M, Reads(w, s, M), NEW it,
           \/ it = "copyIndicator" /\ s.what \in Result
           \/ it = "copyPeriod" /\ s.what \in Indicator,
           op \in Repairing => it \in Repairing,
           <<s.at, s.what>> \in linked,
           M \in SUBSET CopyParts(s.at, s.what, it)
    PROVE  Core' /\ RowsKept /\ Moves(w, s, M) /\ Unwritten /\ Frame
<1>1. s.at \in Project
  BY ReadyStep
<1>2. /\ M \in SUBSET Step
      /\ \A a \in M : StepReady(w, a) /\ a.op = it /\ a.at = s.at
  <2> DEFINE c == s.at
             o == s.what
  <2>0. /\ it \in Copyings
        /\ it = "copyIndicator" => o \in Result
        /\ it = "copyPeriod" => o \in Indicator
        /\ c \in Project /\ <<c, o>> \in linked
    BY <1>1 DEF Copyings
  <2> HIDE DEF c, o
  <2>1. /\ CopyParts(c, o, it) \in SUBSET Step
        /\ \A a \in CopyParts(c, o, it) : StepReady(w, a) /\ a.op = it /\ a.at = c
    BY <2>0, CopyPartsReady
  <2>2. M \subseteq CopyParts(c, o, it)
    BY DEF c, o
  <2>3. QED
    BY <2>1, <2>2 DEF c
<1>3. Continue(w, s, M, {}) /\ Unwritten /\ Frame
  BY DEF Reads
<1>4. \A a \in M : /\ a.op \notin Special
                   /\ a.at \in {s.at} \cup Children(s.at)
                   /\ op \in Repairing => a.op \in Repairing
  BY <1>2 DEF Special, Takings, Insertions
<1> DEFINE G == {}
<1>5. G \in SUBSET Step /\ Continue(w, s, M, G) /\ M \cup G = M
  BY <1>3
<1> HIDE DEF G
<1>6. Core' /\ RowsKept /\ Moves(w, s, M \cup G)
  BY <1>2, <1>3, <1>4, <1>5, PlainRead
<1>7. QED
  BY <1>3, <1>5, <1>6

\* copy_result reading the parent's indicators changes no row, and brings one copy
\* for each of them.
LEMMA ReadIndicatorsKeeps ==
    ASSUME Core, NEW w \in Worker, NEW s \in Ready(w, "readIndicators"), ReadIndicators(w, s)
    PROVE  LET M == CopyParts(s.at, s.what, "copyIndicator")
           IN  Core' /\ RowsKept /\ Moves(w, s, M) /\ Unwritten /\ Frame
<1>1. s.what \in Result /\ <<s.at, s.what>> \in linked
  BY ReadyStep DEF StepReady
<1>2. "readIndicators" \notin Repairing
  BY DEF Repairing
<1>3. QED
  BY <1>1, <1>2, CopyPartsRead DEF ReadIndicators

\* copy_indicator reading the parent's periods changes no row, and brings one copy
\* for each of them.
LEMMA ReadPeriodsKeeps ==
    ASSUME Core, NEW w \in Worker, NEW s \in Ready(w, "readPeriods"), ReadPeriods(w, s)
    PROVE  LET M == CopyParts(s.at, s.what, "copyPeriod")
           IN  Core' /\ RowsKept /\ Moves(w, s, M) /\ Unwritten /\ Frame
<1>1. s.what \in Indicator /\ <<s.at, s.what>> \in linked
  BY ReadyStep DEF StepReady
<1>2. QED
  BY <1>1, CopyPartsRead DEF ReadPeriods, Repairing

\* The repair of an indicator changes no row, and brings a copy for each of the
\* parent's periods, or none if there are as many here.
LEMMA FixIndicatorKeeps ==
    ASSUME Core, NEW w \in Worker, NEW s \in Ready(w, "fixIndicator"), FixIndicator(w, s)
    PROVE  LET M == IF Cardinality(PartsAt(s.at, s.what)) =
                       Cardinality(PartsAt(parentOf[s.at], s.what))
                    THEN {} ELSE CopyParts(s.at, s.what, "copyPeriod")
           IN  Core' /\ RowsKept /\ Moves(w, s, M) /\ Unwritten /\ Frame
<1> DEFINE M == IF Cardinality(PartsAt(s.at, s.what)) =
                   Cardinality(PartsAt(parentOf[s.at], s.what))
                THEN {} ELSE CopyParts(s.at, s.what, "copyPeriod")
<1>1. s.what \in Indicator /\ <<s.at, s.what>> \in linked
  BY ReadyStep DEF StepReady
<1>2. M \in SUBSET CopyParts(s.at, s.what, "copyPeriod") /\ Reads(w, s, M)
  BY DEF FixIndicator
<1> HIDE DEF M
<1>3. Core' /\ RowsKept /\ Moves(w, s, M) /\ Unwritten /\ Frame
  BY <1>1, <1>2, CopyPartsRead DEF Repairing
<1>4. QED
  BY <1>3 DEF M

\* Steps that only read and bring steps of one kind that are nothing special.
LEMMA KindRead ==
    ASSUME Core, NEW w \in Worker, NEW op, NEW s \in Ready(w, op),
           NEW M \in SUBSET Step, Reads(w, s, M), NEW it,
           it \notin Special, op \in Repairing => it \in Repairing,
           \A a \in M : StepReady(w, a) /\ a.op = it /\ a.at \in {s.at} \cup Children(s.at)
    PROVE  Core' /\ RowsKept /\ Moves(w, s, M) /\ Unwritten /\ Frame
<1> DEFINE G == {}
<1>1. /\ G \in SUBSET Step /\ Continue(w, s, M, G) /\ M \cup G = M
      /\ Unwritten /\ Frame
  BY DEF Reads
<1> HIDE DEF G
<1>2. Core' /\ RowsKept /\ Moves(w, s, M \cup G)
  BY <1>1, PlainRead
<1>3. QED
  BY <1>1, <1>2

\* update_child_... : who is told are the children whose row has a parent.
LEMMA SpreadKeeps ==
    ASSUME Core, NEW w \in Worker, NEW s \in Ready(w, "spread"), Spread(w, s)
    PROVE  LET link == IF s.what \in Result THEN s.what ELSE Owner[s.what]
               M == ForProjects("renew", {x \in Children(s.at) : <<x, link>> \in linked},
                                s.what, s.text)
           IN  Core' /\ RowsKept /\ Moves(w, s, M) /\ Unwritten /\ Frame
<1> DEFINE link == IF s.what \in Result THEN s.what ELSE Owner[s.what]
           S == {x \in Children(s.at) : <<x, link>> \in linked}
           M == ForProjects("renew", S, s.what, s.text)
<1>1. /\ s.what \in Item \cup {NoItem} /\ s.text \in Text
      /\ <<s.at, s.what>> \in Rows
  BY ReadyStep DEF StepReady
<1>2. Reads(w, s, M)
  BY DEF Spread, ForProjects
<1>3. S \subseteq Children(s.at) /\ S \subseteq Project /\ \A c \in S : parentOf[c] = s.at
  BY DEF Children
<1> HIDE DEF S
<1>4. M \in SUBSET Step
  BY <1>1, <1>3, ForProjectsFacts DEF Ops
<1>5. \A a \in M : a.op = "renew" /\ a.at \in S /\ a.what = s.what
  BY ForProjectsFacts
<1> HIDE DEF M
<1>6. \A a \in M : StepReady(w, a)
  BY <1>1, <1>3, <1>5 DEF StepReady, AtParent, Takings, Copyings
<1>7. Core' /\ RowsKept /\ Moves(w, s, M) /\ Unwritten /\ Frame
  BY <1>2, <1>3, <1>4, <1>5, <1>6, KindRead DEF Special, Takings, Insertions, Repairing
<1>8. QED
  BY <1>7 DEF M, S

\* get_or_create of the indicator is not done where there is a copy.
LEMMA ImportIndicatorNowKeeps ==
    ASSUME Core, NEW w \in Worker, NEW s \in Ready(w, "importIndicator"),
           ImportIndicatorNow(w, s)
    PROVE  LET M == IF <<s.at, s.what>> \in linked THEN {}
                    ELSE {Do("copyIndicator", s.at, s.what, s.text)}
           IN  Core' /\ RowsKept /\ Moves(w, s, M) /\ Unwritten /\ Frame
<1> DEFINE d == Do("copyIndicator", s.at, s.what, s.text)
           M == IF <<s.at, s.what>> \in linked THEN {} ELSE {d}
<1>1. /\ s.at \in Project /\ s.what \in Item \cup {NoItem} /\ s.text \in Text
      /\ s.op = "importIndicator" /\ StepReady(w, s)
  BY ReadyStep
<1>2. d \in Step /\ d.op = "copyIndicator" /\ d.at = s.at /\ d.what = s.what
  BY <1>1, DoFields, DoSteps DEF Ops
<1>3. Reads(w, s, M) /\ M \subseteq {d}
  BY DEF ImportIndicatorNow
<1> HIDE DEF M, d
<1>4. \A a \in M : /\ a.op = "copyIndicator" /\ a.at = s.at
                   /\ StepReady(w, a)
  BY <1>1, <1>2, <1>3 DEF StepReady, Takings, Copyings
<1>5. Core' /\ RowsKept /\ Moves(w, s, M) /\ Unwritten /\ Frame
  BY <1>2, <1>3, <1>4, KindRead DEF Special, Takings, Insertions, Repairing
<1>6. QED
  BY <1>5 DEF M, d

\* fix_project_hierarchy_missing_periods looks at the copies of indicators.
LEMMA FixProjectKeeps ==
    ASSUME Core, NEW w \in Worker, NEW s \in Ready(w, "fixProject"), FixProject(w, s)
    PROVE  LET M == ForItems("fixIndicator", s.at,
                             {x \in Indicator : <<s.at, x>> \in linked}, 0)
           IN  Core' /\ RowsKept /\ Moves(w, s, M) /\ Unwritten /\ Frame
<1> DEFINE S == {x \in Indicator : <<s.at, x>> \in linked}
           M == ForItems("fixIndicator", s.at, S, 0)
<1>1. s.at \in Project
  BY ReadyStep
<1>2. Reads(w, s, M)
  BY DEF FixProject, ForItems
<1>3. S \subseteq Item /\ \A x \in S : x \in Indicator /\ <<s.at, x>> \in linked
  BY Owners DEF Item
<1> HIDE DEF S
<1>4. M \in SUBSET Step
  BY <1>1, <1>3, ForItemsFacts, Owners DEF Ops
<1>5. \A a \in M : a.op = "fixIndicator" /\ a.at = s.at /\ a.what \in S
  BY ForItemsFacts
<1> HIDE DEF M
<1>6. \A a \in M : StepReady(w, a)
  BY <1>3, <1>5 DEF StepReady, Takings, Copyings
<1>7. Core' /\ RowsKept /\ Moves(w, s, M) /\ Unwritten /\ Frame
  BY <1>2, <1>4, <1>5, <1>6, KindRead DEF Special, Takings, Insertions, Repairing
<1>8. QED
  BY <1>7 DEF M, S

\* walk_hierarchy.
LEMMA WalkKeeps ==
    ASSUME Core, NEW w \in Worker, NEW s \in Ready(w, "walk"), Walk(w, s)
    PROVE  LET M == ForProjects("fixProject",
                        IF Children(s.at) = {} THEN {s.at} ELSE Children(s.at), NoItem, 0)
                    \cup ForProjects("walk", Children(s.at), NoItem, 0)
           IN  Core' /\ RowsKept /\ Moves(w, s, M) /\ Unwritten /\ Frame
<1> DEFINE S == IF Children(s.at) = {} THEN {s.at} ELSE Children(s.at)
           F == ForProjects("fixProject", S, NoItem, 0)
           G == ForProjects("walk", Children(s.at), NoItem, 0)
<1>1. s.at \in Project /\ Children(s.at) \subseteq Project
  BY ReadyStep DEF Children
<1>2. Continue(w, s, F, G) /\ Unwritten /\ Frame
  BY DEF Walk, ForProjects
<1>3. S \subseteq Project /\ S \subseteq {s.at} \cup Children(s.at)
  BY <1>1
<1> HIDE DEF S
<1>4. F \in SUBSET Step /\ G \in SUBSET Step
  BY <1>1, <1>3, ForProjectsFacts, Owners DEF Ops
<1>5. /\ \A a \in F : a.op = "fixProject" /\ a.at \in S
      /\ \A a \in G : a.op = "walk" /\ a.at \in Children(s.at)
  BY ForProjectsFacts
<1> HIDE DEF F, G
<1>6. \A a \in F \cup G :
          /\ StepReady(w, a)
          /\ a.op \notin Special
          /\ a.at \in {s.at} \cup Children(s.at)
          /\ a.op \in Repairing
  BY <1>3, <1>5 DEF StepReady, Takings, Copyings, Special, Insertions, Repairing
<1>7. Core' /\ RowsKept /\ Moves(w, s, F \cup G)
  BY <1>2, <1>4, <1>6, PlainRead
<1>8. QED
  BY <1>2, <1>7 DEF F, G, S

\* Where a copy of a new row's owner is, and all the way to it, copies are made.
LEMMA CopiesAt ==
    ASSUME Core, NEW p \in Project, NEW o, o \in DOMAIN Owner, AtParent(p, o),
           <<p, o>> \notin linked, <<p, Owner[o]>> \in linked,
           Rows' = Rows \cup (Reach(p, Owner[o]) \X {o}),
           linked' = linked \cup (Reach(p, Owner[o]) \X {o})
    PROVE  CopiesMade(p, o, Reach(p, Owner[o]))
<1> DEFINE T == {c \in Project : <<c, Owner[o]>> \in linked}
           D == Reach(p, Owner[o])
<1>1. T \in SUBSET Project /\ \A d \in T : <<d, Owner[o]>> \in linked
  OBVIOUS
<1>2. D = {p} \cup Below(p, T)
  BY DEF Reach
<1> HIDE DEF T, D
<1>3. /\ Below(p, T) \subseteq BelowAll(p) /\ Below(p, T) \subseteq T
      /\ \A d \in Below(p, T) : parentOf[d] \in {p} \cup Below(p, T)
  BY <1>1, BelowFacts
<1>4. D \subseteq {p} \cup BelowAll(p) /\ p \in D /\ \A d \in D : d = p \/ parentOf[d] \in D
  BY <1>2, <1>3
<1>5. \A d \in D : <<d, o>> \notin Rows
  BY <1>4, NoneBelow DEF Core
<1>6. \A d \in D : <<d, Owner[o]>> \in linked
  BY <1>1, <1>2, <1>3
<1>7. o \in Item
  BY Owners
<1>8. Rows' = Rows \cup (D \X {o}) /\ linked' = linked \cup (D \X {o})
  BY DEF D
<1>9. CopiesMade(p, o, D)
  BY <1>4, <1>5, <1>6, <1>7, <1>8 DEF CopiesMade
<1>10. QED
  BY <1>9 DEF D

\* Where an item is updated there are copies.
LEMMA ReachIsLinked ==
    ASSUME NEW p \in Project, NEW o, <<p, o>> \in linked
    PROVE  Reach(p, o) \X {o} \subseteq linked
<1> DEFINE T == {c \in Project : <<c, o>> \in linked}
<1>1. T \in SUBSET Project /\ \A d \in T : <<d, o>> \in linked
  OBVIOUS
<1>2. Reach(p, o) = {p} \cup Below(p, T)
  BY DEF Reach
<1> HIDE DEF T
<1>3. \A d \in Reach(p, o) : <<d, o>> \in linked
  BY <1>1, <1>2, BelowFacts
<1>4. QED
  BY <1>3

\* update_or_create of an indicator.
LEMMA CopyIndicatorKeeps ==
    ASSUME Core, NEW w \in Worker, NEW s \in Ready(w, "copyIndicator"), CopyIndicator(w, s)
    PROVE  LET M == {Do("saveAgain", s.at, s.what, s.text)} \cup
                    (IF <<s.at, s.what>> \in linked THEN {}
                     ELSE {Do("readPeriods", s.at, s.what, 0)})
           IN  /\ Core' /\ Moves(w, s, M) /\ OnlyRows /\ UNCHANGED chosen
               /\ <<s.at, s.what>> \in linked => RowsKept
               /\ <<s.at, s.what>> \notin linked =>
                     CopiesMade(s.at, s.what, Reach(s.at, Owner[s.what]))
<1> DEFINE a == Do("saveAgain", s.at, s.what, s.text)
           b == Do("readPeriods", s.at, s.what, 0)
           here == <<s.at, s.what>>
           F == {a}
           G == IF here \in linked THEN {} ELSE {b}
           D == Reach(s.at, Owner[s.what])
<1>1. /\ s.at \in Project /\ s.what \in Item \cup {NoItem} /\ s.text \in Text
      /\ s.op = "copyIndicator" /\ StepReady(w, s) /\ s \in Pending(w)
  BY ReadyStep
<1>2. s.what \in Indicator /\ AtParent(s.at, s.what) /\ <<s.at, Owner[s.what]>> \in linked
      /\ s.what \in DOMAIN Owner
  BY <1>1, Owners DEF StepReady, Copyings
<1>3. /\ a \in Step /\ a.op = "saveAgain" /\ a.at = s.at /\ a.what = s.what
      /\ b \in Step /\ b.op = "readPeriods" /\ b.at = s.at /\ b.what = s.what
  BY <1>1, Owners, DoFields, DoSteps DEF Ops
<1>4. Continue(w, s, F, G) /\ OnlyRows /\ Frame /\ UNCHANGED chosen /\ parentOf' = parentOf
  BY DEF CopyIndicator, OnlyRows, Frame
<1>5. /\ here \in linked => Write(Reach(s.at, s.what) \X {s.what}, s.text) /\ linked' = linked
      /\ here \notin linked => Write(D \X {s.what}, s.text) /\ linked' = linked \cup (D \X {s.what})
  BY DEF CopyIndicator, Copy
<1>o. own' \subseteq own
  BY DEF CopyIndicator, Copy
<1> HIDE DEF a, b, D
<1>6. F \in SUBSET Step /\ G \in SUBSET Step
  BY <1>3
<1>7. \A c \in F \cup G : c.op \in {"saveAgain", "readPeriods"} /\ c.at = s.at
  BY <1>3
<1>8. \A c \in F \cup G :
          /\ c.op \notin Special /\ c.at \in {s.at} \cup Children(s.at)
          /\ "copyIndicator" \in Repairing => c.op \in Repairing
  BY <1>7 DEF Special, Takings, Insertions, Repairing
<1>9. Moves(w, s, F \cup G) /\ InOrder' /\ todo' \in [Worker -> Lists]
  BY <1>4, <1>6, <1>8, PlainMoves
<1>10. here \in linked => RowsKept
  <2>1. SUFFICES ASSUME here \in linked
                 PROVE  RowsKept
    OBVIOUS
  <2>2. Reach(s.at, s.what) \X {s.what} \subseteq Rows
    BY <1>1, <2>1, ReachIsLinked DEF Core, TypeOK
  <2>3. Rows' = Rows \cup (Reach(s.at, s.what) \X {s.what})
    BY <1>1, <1>5, <2>1, Written DEF Core
  <2>4. QED
    BY <1>5, <2>1, <2>2, <2>3 DEF RowsKept
<1>11. here \notin linked => CopiesMade(s.at, s.what, D)
  <2>1. SUFFICES ASSUME here \notin linked
                 PROVE  CopiesMade(s.at, s.what, D)
    OBVIOUS
  <2>2. Rows' = Rows \cup (D \X {s.what}) /\ linked' = linked \cup (D \X {s.what})
    BY <1>1, <1>5, <2>1, Written DEF Core
  <2>3. QED
    BY <1>1, <1>2, <2>1, <2>2, CopiesAt DEF D
<1>12. \A x \in Rows' : text'[x] \in Text
  BY <1>1, <1>5, Written DEF Core
<1>13. /\ here \in linked' /\ linked \subseteq linked' /\ linked' \subseteq Rows'
       /\ own' \subseteq Rows'
  <2>1. CASE here \in linked
    BY <1>5, <1>o, <1>10, <2>1 DEF RowsKept, Core, TypeOK
  <2>2. CASE here \notin linked
    BY <1>4, <1>o, <1>11, <2>2, CopiesConsistent DEF CopiesMade, Core, RowTypes, TypeOK
  <2>3. QED
    BY <2>1, <2>2
<1>14. OthersTyped'
  BY <1>4, <1>9, <1>13, OthersStay DEF OnlyRows, Core
<1>i. inserted' = inserted
  BY <1>4 DEF Frame
<1>15. \A c \in F \cup G : StepReady(w, c)' /\ c.op # "commit"
  BY <1>2, <1>3, <1>13 DEF StepReady, Takings, Copyings
<1>16. Core'
  BY <1>1, <1>9, <1>10, <1>11, <1>12, <1>14, <1>15, <1>i, CoreAfterStep
<1>17. QED
  BY <1>4, <1>9, <1>10, <1>11, <1>16 DEF a, b, D

\* update_or_create of a period.
LEMMA CopyPeriodKeeps ==
    ASSUME Core, NEW w \in Worker, NEW s \in Ready(w, "copyPeriod"), CopyPeriod(w, s)
    PROVE  /\ Core' /\ Moves(w, s, {}) /\ OnlyRows /\ UNCHANGED chosen
           /\ <<s.at, s.what>> \in linked => RowsKept
           /\ <<s.at, s.what>> \notin linked =>
                 CopiesMade(s.at, s.what, Reach(s.at, Owner[s.what]))
<1> DEFINE here == <<s.at, s.what>>
           D == Reach(s.at, Owner[s.what])
           M == {}
<1>1. /\ s.at \in Project /\ s.what \in Item \cup {NoItem} /\ s.text \in Text
      /\ s.op = "copyPeriod" /\ StepReady(w, s) /\ s \in Pending(w)
  BY ReadyStep
<1>2. s.what \in Period /\ AtParent(s.at, s.what) /\ <<s.at, Owner[s.what]>> \in linked
      /\ s.what \in DOMAIN Owner
  BY <1>1, Owners DEF StepReady, Copyings
<1>4. Continue(w, s, M, {}) /\ OnlyRows /\ Frame /\ UNCHANGED chosen /\ parentOf' = parentOf
  BY DEF CopyPeriod, OnlyRows, Frame
<1>5. /\ here \in linked => Write(Reach(s.at, s.what) \X {s.what}, s.text) /\ linked' = linked
      /\ here \notin linked => Write(D \X {s.what}, s.text) /\ linked' = linked \cup (D \X {s.what})
  BY DEF CopyPeriod, Copy
<1>o. own' \subseteq own
  BY DEF CopyPeriod, Copy
<1>6. M \in SUBSET Step /\ \A c \in M : FALSE
  OBVIOUS
<1> HIDE DEF D, M
<1>9. Moves(w, s, M) /\ InOrder' /\ todo' \in [Worker -> Lists]
  BY <1>4, <1>6, ContinueWith
<1>10. here \in linked => RowsKept
  <2>1. SUFFICES ASSUME here \in linked
                 PROVE  RowsKept
    OBVIOUS
  <2>2. Reach(s.at, s.what) \X {s.what} \subseteq Rows
    BY <1>1, <2>1, ReachIsLinked DEF Core, TypeOK
  <2>3. Rows' = Rows \cup (Reach(s.at, s.what) \X {s.what})
    BY <1>1, <1>5, <2>1, Written DEF Core
  <2>4. QED
    BY <1>5, <2>1, <2>2, <2>3 DEF RowsKept
<1>11. here \notin linked => CopiesMade(s.at, s.what, D)
  <2>1. SUFFICES ASSUME here \notin linked
                 PROVE  CopiesMade(s.at, s.what, D)
    OBVIOUS
  <2>2. Rows' = Rows \cup (D \X {s.what}) /\ linked' = linked \cup (D \X {s.what})
    BY <1>1, <1>5, <2>1, Written DEF Core
  <2>3. QED
    BY <1>1, <1>2, <2>1, <2>2, CopiesAt DEF D
<1>12. \A x \in Rows' : text'[x] \in Text
  BY <1>1, <1>5, Written DEF Core
<1>13. linked \subseteq linked' /\ own' \subseteq Rows' /\ inserted' = inserted
  <2>1. own \subseteq Rows
    BY DEF Core, TypeOK
  <2>2. Rows \subseteq Rows'
    BY <1>10, <1>11 DEF RowsKept, CopiesMade
  <2>3. QED
    BY <1>4, <1>5, <1>o, <2>1, <2>2 DEF Frame
<1>14. OthersTyped'
  BY <1>4, <1>9, <1>13, OthersStay DEF OnlyRows, Core
<1>16. Core'
  BY <1>1, <1>6, <1>9, <1>10, <1>11, <1>12, <1>13, <1>14, CoreAfterStep
<1>17. QED
  BY <1>4, <1>9, <1>10, <1>11, <1>16 DEF M, D

\* save() of a row that is there.
LEMMA SaveKeeps ==
    ASSUME Core, NEW w \in Worker, NEW op \in {"save", "saveAgain", "renew"},
           NEW s \in Ready(w, op), Save(w, s) \/ SaveEdited(w, s),
           <<s.at, s.what>> \in Rows
    PROVE  LET M == {Do("spread", s.at, s.what, s.text)}
           IN  Core' /\ RowsKept /\ Moves(w, s, M) /\ OnlyRows /\ UNCHANGED chosen
<1> DEFINE d == Do("spread", s.at, s.what, s.text)
           M == {d}
           G == {}
<1>1. /\ s.at \in Project /\ s.what \in Item \cup {NoItem} /\ s.text \in Text
      /\ s.op = op /\ s \in Pending(w)
  BY ReadyStep
<1>2. d \in Step /\ d.op = "spread" /\ d.at = s.at /\ d.what = s.what
  <2>1. d \in Step
    BY <1>1, DoSteps DEF Ops
  <2>2. QED
    BY <2>1, DoFields
<1>3. /\ Continue(w, s, M, G) /\ OnlyRows /\ Frame /\ UNCHANGED chosen /\ parentOf' = parentOf
      /\ Write({<<s.at, s.what>>}, s.text) /\ linked' = linked /\ M \cup G = M
      /\ own' \subseteq own \cup {<<s.at, s.what>>} /\ inserted' = inserted
  BY DEF Save, SaveEdited, Copy, OnlyRows, Frame
<1>4. G \in SUBSET Step
  OBVIOUS
<1> HIDE DEF d, G
<1>5. M \in SUBSET Step /\ \A c \in M : c = d
  BY <1>2
<1> HIDE DEF M
<1>6. \A c \in M \cup G :
          /\ c.op \notin Special /\ c.at \in {s.at} \cup Children(s.at)
          /\ op \in Repairing => c.op \in Repairing
  BY <1>2, <1>3, <1>5 DEF Special, Takings, Insertions, Repairing
<1>7. Moves(w, s, M \cup G) /\ InOrder' /\ todo' \in [Worker -> Lists]
  BY <1>3, <1>4, <1>5, <1>6, PlainMoves
<1>8. RowsKept /\ \A x \in Rows' : text'[x] \in Text
  BY <1>1, <1>3, Written DEF Core, RowsKept
<1>9. OthersTyped'
  <2>1. own' \subseteq Rows'
    BY <1>3, <1>8 DEF RowsKept, Core, TypeOK
  <2>2. QED
    BY <1>3, <1>7, <2>1, OthersStay DEF OnlyRows, Core
<1>10. \A c \in M : StepReady(w, c)' /\ c.op # "commit"
  BY <1>2, <1>5, <1>8 DEF StepReady, Takings, Copyings, RowsKept
<1>11. Core'
  BY <1>1, <1>3, <1>7, <1>8, <1>9, <1>10, CoreAfterStep
<1>12. QED
  BY <1>3, <1>7, <1>8, <1>11 DEF M, d

\* get_or_create of the result of an indicator.
LEMMA RequireResultKeeps ==
    ASSUME Core, NEW w \in Worker, NEW s \in Ready(w, "requireResult"), RequireResult(w, s)
    PROVE  LET r == Owner[s.what]
               D == ReachOfResults(s.at)
               M == {Do("importIndicator", s.at, s.what, s.text)}
           IN  /\ Core' /\ Moves(w, s, M) /\ OnlyRows
               /\ r \in Result
               /\ <<s.at, r>> \in linked => RowsKept /\ UNCHANGED <<text, chosen>>
               /\ <<s.at, r>> \notin linked =>
                     /\ CopiesMade(s.at, r, D)
                     /\ Write(D \X {r}, text[<<parentOf[s.at], r>>])
                     /\ chosen' = chosen \cup {<<s.at, r>>}
<1> DEFINE r == Owner[s.what]
           T == {c \in Project : HasImportedResults(c)}
           D == ReachOfResults(s.at)
           d == Do("importIndicator", s.at, s.what, s.text)
           M == {d}
           t == text[<<parentOf[s.at], r>>]
<1>1. /\ s.at \in Project /\ s.what \in Item \cup {NoItem} /\ s.text \in Text
      /\ s.op = "requireResult" /\ StepReady(w, s) /\ s \in Pending(w)
  BY ReadyStep
<1>2. s.what \in Indicator /\ AtParent(s.at, s.what) /\ s.what \in DOMAIN Owner /\ r \in Result
      /\ r \in Item /\ r \notin DOMAIN Owner
  BY <1>1, Owners DEF StepReady
<1>3. AtParent(s.at, r)
  BY <1>2 DEF Core, RowsConsistent, AtParent
<1>4. t \in Text
  BY <1>3 DEF Core, TypeOK, AtParent
<1>5. d \in Step /\ d.op = "importIndicator" /\ d.at = s.at /\ d.what = s.what
  <2>1. d \in Step
    BY <1>1, DoSteps DEF Ops
  <2>2. QED
    BY <2>1, DoFields
<1>6. /\ Continue(w, s, M, {}) /\ OnlyRows /\ Frame /\ parentOf' = parentOf
      /\ <<s.at, r>> \in linked => UNCHANGED <<text, linked, chosen>>
      /\ own' \subseteq own /\ inserted' = inserted
      /\ <<s.at, r>> \notin linked => /\ Write(D \X {r}, t)
                                      /\ linked' = linked \cup (D \X {r})
                                      /\ chosen' = chosen \cup {<<s.at, r>>}
  BY DEF RequireResult, Copy, OnlyRows, Frame
<1>7. T \in SUBSET Project /\ D = {s.at} \cup Below(s.at, T)
  BY DEF ReachOfResults
<1> HIDE DEF d, T, D
<1>8. M \in SUBSET Step /\ \A c \in M : c = d
  BY <1>5
<1> HIDE DEF M
<1>9. Moves(w, s, M) /\ InOrder' /\ todo' \in [Worker -> Lists]
  <2>1. \A a, b \in M : a = b
    BY <1>8
  <2>2. \A a \in M, x \in Pending(w) : ~MayWait(parentOf, s, x)
    BY <1>1 DEF MayWait
  <2>3. QED
    BY <1>6, <1>8, <2>1, <2>2, ContinueWith
<1>10. /\ D \subseteq {s.at} \cup BelowAll(s.at) /\ s.at \in D
       /\ \A e \in D : e = s.at \/ parentOf[e] \in D
  BY <1>7, BelowFacts
<1>11. <<s.at, r>> \in linked => RowsKept /\ \A x \in Rows' : text'[x] \in Text
  BY <1>6 DEF RowsKept, Rows, Core, TypeOK
<1>12. <<s.at, r>> \notin linked =>
           CopiesMade(s.at, r, D) /\ \A x \in Rows' : text'[x] \in Text
  <2>1. SUFFICES ASSUME <<s.at, r>> \notin linked
                 PROVE  CopiesMade(s.at, r, D) /\ \A x \in Rows' : text'[x] \in Text
    OBVIOUS
  <2> HIDE DEF t
  <2>2. Rows' = Rows \cup (D \X {r}) /\ \A x \in Rows' : text'[x] \in Text
    BY <1>4, <1>6, <2>1, Written DEF Core
  <2>3. \A e \in D : <<e, r>> \notin Rows
    BY <1>1, <1>3, <1>10, <2>1, NoneBelow DEF Core
  <2>4. QED
    BY <1>1, <1>2, <1>3, <1>6, <1>10, <2>1, <2>2, <2>3 DEF CopiesMade
<1>13. /\ linked \subseteq linked' /\ <<s.at, r>> \in linked' /\ chosen' \subseteq linked'
       /\ Rows \subseteq Rows' /\ own' \subseteq Rows'
  <2>1. CASE <<s.at, r>> \in linked
    BY <1>6, <1>11, <2>1 DEF RowsKept, Core, TypeOK
  <2>2. CASE <<s.at, r>> \notin linked
    BY <1>6, <1>10, <1>12, <2>2 DEF CopiesMade, Core, TypeOK
  <2>3. QED
    BY <2>1, <2>2
<1>14. OthersTyped'
  BY <1>6, <1>9, <1>13 DEF OnlyRows, Core, Frame, TypeOK, OthersTyped
<1>15. \A c \in M : StepReady(w, c)' /\ c.op # "commit"
  BY <1>2, <1>5, <1>6, <1>8, <1>13 DEF StepReady, AtParent, Takings, Copyings
<1>16. Core'
  BY <1>1, <1>6, <1>9, <1>11, <1>12, <1>14, <1>15, CoreAfterStep
<1>17. <<s.at, r>> \in linked => UNCHANGED <<text, chosen>>
  BY <1>6
<1>18. <<s.at, r>> \notin linked => Write(D \X {r}, t) /\ chosen' = chosen \cup {<<s.at, r>>}
  BY <1>6
<1>19. QED
  BY <1>2, <1>6, <1>9, <1>11, <1>12, <1>16, <1>17, <1>18 DEF M, d, D

\* A worker gets a new list of steps, or stops.
LEMMA CoreAfterRequest ==
    ASSUME Core, NEW w \in Worker, NEW q \in Lists, todo' = [todo EXCEPT ![w] = q],
           Orderly(parentOf, q), parentOf' = parentOf, text' = text, linked' = linked,
           OthersTyped', \A v \in Worker : v # w => inserted'[v] = inserted[v],
           \A a \in StepsOf(q) : StepReady(w, a)',
           \A a \in StepsOf(q) : a.op = "commit" =>
               \A v \in Worker : \A t \in Pending(v) : t.what # a.what
    PROVE  Core'
<1>1. /\ todo'[w] = q
      /\ \A v \in Worker : v # w => todo'[v] = todo[v]
  BY DEF Core, TypeOK
<1>2. /\ Pending(w)' = StepsOf(q)
      /\ \A v \in Worker : v # w => Pending(v)' = Pending(v)
  BY <1>1 DEF Pending
<1>3. RowsKept
  BY DEF RowsKept, Rows
<1>4. TypeOK'
  BY <1>3 DEF Core, TypeOK, OthersTyped, RowsKept, Lists
<1>5. RowsConsistent'
  BY <1>3 DEF Core, RowsConsistent, RowsKept, BelowAll, Below
<1>6. StepsReady'
  <2>1. SUFFICES ASSUME NEW v \in Worker, NEW a \in Pending(v)'
                 PROVE  StepReady(v, a)'
    BY DEF StepsReady
  <2>2. CASE v = w
    BY <1>2, <2>2
  <2>3. CASE v # w
    <3>1. a \in Pending(v) /\ StepReady(v, a) /\ Pending(v)' = Pending(v)
      BY <1>2, <2>3 DEF Core, StepsReady
    <3>2. QED
      BY <1>3, <2>3, <3>1, ReadyStays DEF RowsKept, StepReady, ToCommit, NewRow
  <2>4. QED
    BY <2>2, <2>3
<1>7. CreatedOnce'
  BY <1>2 DEF Core, CreatedOnce
<1>8. InOrder'
  BY <1>1 DEF Core, InOrder
<1>9. QED
  BY <1>4, <1>5, <1>6, <1>7, <1>8 DEF Core

\* There is nothing to do in an empty list.
LEMMA NothingToDo ==
    /\ <<>> \in Lists /\ StepsOf(<<>>) = {}
    /\ \A h : Orderly(h, <<>>)
BY DEF Lists, StepsOf, Orderly

\* A worker that stops.
LEMMA CoreAfterStop ==
    ASSUME Core, NEW w \in Worker, todo' = [todo EXCEPT ![w] = <<>>],
           parentOf' = parentOf, text' = text, linked' = linked,
           todo' \in [Worker -> Lists] => OthersTyped',
           \A v \in Worker : v # w => inserted'[v] = inserted[v]
    PROVE  /\ Core' /\ RowsKept /\ todo'[w] = <<>> /\ Pending(w)' = {}
           /\ \A v \in Worker : v # w => todo'[v] = todo[v] /\ Pending(v)' = Pending(v)
<1>1. /\ todo'[w] = <<>>
      /\ \A v \in Worker : v # w => todo'[v] = todo[v]
  BY DEF Core, TypeOK
<1>2. /\ Pending(w)' = {}
      /\ \A v \in Worker : v # w => Pending(v)' = Pending(v)
  BY <1>1, NothingToDo DEF Pending
<1>3. todo' \in [Worker -> Lists]
  BY NothingToDo DEF Core, TypeOK, Lists
<1> DEFINE q == <<>>
<1>4. /\ q \in Lists /\ Orderly(parentOf, q) /\ todo' = [todo EXCEPT ![w] = q]
      /\ \A a \in StepsOf(q) : FALSE
  BY NothingToDo
<1> HIDE DEF q
<1>5. Core'
  BY <1>3, <1>4, CoreAfterRequest
<1>6. QED
  BY <1>1, <1>2, <1>5 DEF RowsKept, Rows

\* copy_result: the result, its offers to the children, and its indicators.
LEMMA InsertResultKeeps ==
    ASSUME Core, NEW w \in Worker, NEW s \in Ready(w, "insertResult"), InsertResult(w, s)
    PROVE  LET M == ForProjects("offer", Children(s.at), s.what, s.text) \cup
                    {Do("readIndicators", s.at, s.what, 0)}
           IN  /\ Core'
               /\ <<s.at, s.what>> \in Rows =>
                     todo' = [todo EXCEPT ![w] = <<>>] /\ Unwritten /\ Frame
               /\ <<s.at, s.what>> \notin Rows =>
                     /\ Moves(w, s, M) /\ OnlyRows /\ UNCHANGED chosen
                     /\ CopiesMade(s.at, s.what, {s.at})
                     /\ Write({<<s.at, s.what>>}, s.text)
<1> DEFINE b == Do("readIndicators", s.at, s.what, 0)
           F == ForProjects("offer", Children(s.at), s.what, s.text)
           G == {b}
           here == <<s.at, s.what>>
           C == Children(s.at)
<1>1. /\ s.at \in Project /\ s.what \in Item \cup {NoItem} /\ s.text \in Text
      /\ s.op = "insertResult" /\ StepReady(w, s) /\ s \in Pending(w) /\ s \in Step
  BY ReadyStep
<1>2. /\ s.what \in Result /\ s.what \in Item /\ s.what \notin DOMAIN Owner
      /\ AtParent(s.at, s.what) /\ parentOf[s.at] \in Project
  BY <1>1, Owners DEF StepReady, Takings
<1>3. CASE here \in Rows
  <2>1. todo' = [todo EXCEPT ![w] = <<>>] /\ Unwritten /\ Frame
    BY <1>3 DEF InsertResult
  <2>2. parentOf' = parentOf /\ text' = text /\ linked' = linked
    BY <2>1 DEF Unwritten, Frame
  <2>3. todo' \in [Worker -> Lists] => OthersTyped'
    <3>1. own' \subseteq Rows'
      BY <2>1, <2>2 DEF Unwritten, Core, TypeOK, Rows
    <3>2. QED
      BY <2>1, <2>2, <3>1, OthersStay DEF Unwritten, Core
  <2>4. Core'
    BY <2>1, <2>2, <2>3, CoreAfterStop DEF Frame
  <2>5. QED
    BY <1>3, <2>1, <2>4
<1>4. CASE here \notin Rows
  <2>1. /\ Write({here}, s.text) /\ linked' = linked \cup {here}
        /\ Continue(w, s, F, G) /\ UNCHANGED chosen
        /\ OnlyRows /\ Frame /\ parentOf' = parentOf
    BY <1>4 DEF InsertResult, Copy, OnlyRows, Frame, ForProjects
  <2>o. own' \subseteq own /\ inserted' = inserted
    BY <1>4 DEF InsertResult, Copy, OnlyRows, Frame
  <2>2. b \in Step /\ b.op = "readIndicators" /\ b.at = s.at /\ b.what = s.what
    <3>1. b \in Step
      BY <1>1, Owners, DoSteps DEF Ops
    <3>2. QED
      BY <3>1, DoFields
  <2>3. C \subseteq Project /\ \A c \in C : parentOf[c] = s.at
    BY DEF Children
  <2> HIDE DEF b, C
  <2>4. F \in SUBSET Step
    BY <1>1, <2>3, ForProjectsFacts DEF Ops, C
  <2>5. /\ \A a \in F : a.op = "offer" /\ a.at \in C /\ a.what = s.what
        /\ \A a, e \in F : a # e => a.at # e.at
    BY ForProjectsFacts DEF C
  <2> HIDE DEF F
  <2>6. G \in SUBSET Step /\ \A a \in G : a = b
    BY <2>2
  <2> HIDE DEF G
  <2>7. F = {} \/ parentOf \notin Overlapping
    <3>1. SUFFICES ASSUME NEW a \in F, parentOf \in Overlapping
                   PROVE  FALSE
      OBVIOUS
    <3>2. a.at \in Project /\ parentOf[a.at] = s.at
      BY <2>3, <2>5
    <3>3. parentOf[s.at] = NoProject
      BY <1>1, <3>1, <3>2, FrameworkAssumption
    <3>4. QED
      BY <1>2, <3>3, FrameworkAssumption
  <2>8. \A a, e \in F : a # e => MayWait(parentOf, a, e)
    BY <2>5 DEF MayWait, Takings, Insertions, Covering, Readings, Copyings
  <2>9. \A a, e \in G : a # e => MayWait(parentOf, a, e)
    BY <2>6
  <2>10. \A a \in F, e \in G : MayWait(parentOf, a, e)
    BY <2>2, <2>5, <2>6, <2>7 DEF MayWait, Takings, Insertions
  <2>11. \A e \in G, t \in Pending(w) : MayWait(parentOf, s, t) => MayWait(parentOf, e, t)
    <3>1. Pending(w) \subseteq Step
      BY StepsAreSteps DEF Core
    <3>2. b.op \notin Special /\ s.op \notin Repairing
      BY <1>1, <2>2 DEF Special, Takings, Insertions, Repairing
    <3>3. QED
      BY <1>1, <2>2, <2>6, <3>1, <3>2, Inherits
  <2>12. ASSUME NEW a \in F, NEW t \in Pending(w), MayWait(parentOf, s, t)
         PROVE  MayWait(parentOf, a, t)
    <3>1. t \in Step /\ t.at \in Project /\ StepReady(w, t) /\ a.at \in Project
          /\ parentOf[a.at] = s.at /\ parentOf \in Hierarchies /\ s.what = a.what
      BY <2>3, <2>5, StepsAreSteps DEF Core, Step, StepsReady, TypeOK
    <3>2. s.at \in {t.at} \cup BelowAll(t.at) => a.at \in {t.at} \cup BelowAll(t.at)
      BY <1>1, <3>1, BelowAllFacts
    <3>3. ASSUME t.op \in Takings, t.what = s.what
          PROVE  t.op \in Insertions /\ a.at # t.at
      <4>1. t.op \in Insertions
        BY <1>1, <2>12, <3>3 DEF MayWait, Takings, Insertions
      <4>2. SUFFICES ASSUME a.at = t.at
                     PROVE  FALSE
        BY <4>1
      <4>3. <<parentOf[s.at], s.what>> \in Rows
        BY <1>2 DEF AtParent
      <4>5. QED
        BY <1>4, <3>1, <3>3, <4>2 DEF StepReady, AtParent
    <3>4. a.op = "offer" /\ s.op = "insertResult"
      BY <1>1, <2>5
    <3>5. QED
      BY <2>12, <3>1, <3>2, <3>3, <3>4
         DEF MayWait, Takings, Insertions, Covering, Readings, Copyings, Repairing, BelowAll, Below
  <2>13. /\ Moves(w, s, F \cup G) /\ InOrder' /\ todo' \in [Worker -> Lists]
    <3>1. \A a \in F \cup G, t \in Pending(w) :
              MayWait(parentOf, s, t) => MayWait(parentOf, a, t)
      BY <2>11, <2>12
    <3>2. Continue(w, s, F, G) /\ parentOf' = parentOf
      BY <2>1
    <3>3. F \in SUBSET Step /\ G \in SUBSET Step
      BY <2>4, <2>6
    <3>4. Fits(w, s, F, G)
      BY <2>8, <2>9, <2>10, <3>1 DEF Fits
    <3> HIDE DEF here
    <3>5. QED
      BY <3>2, <3>3, <3>4, FittingMoves
  <2>14. Rows' = Rows \cup {here} /\ \A x \in Rows' : text'[x] \in Text
    BY <1>1, <2>1, Written DEF Core
  <2>15. CopiesMade(s.at, s.what, {s.at})
    <3>1. {s.at} \X {s.what} = {here}
      OBVIOUS
    <3>2. QED
      BY <1>1, <1>2, <1>4, <2>1, <2>14, <3>1 DEF CopiesMade
  <2>16. OthersTyped'
    <3>1. own' \subseteq Rows'
      BY <2>o, <2>14 DEF Core, TypeOK
    <3>2. QED
      BY <2>1, <2>13, <3>1, OthersStay DEF OnlyRows, Core
  <2>17. \A a \in F \cup G : StepReady(w, a)' /\ a.op # "commit"
    <3>1. \A a \in F : parentOf'[a.at] = s.at /\ a.op = "offer" /\ a.what = s.what
                       /\ here \in Rows'
      BY <2>1, <2>3, <2>5, <2>14
    <3>2. \A a \in F : StepReady(w, a)' /\ a.op # "commit"
      BY <1>1, <1>2, <3>1 DEF StepReady, AtParent, Takings, Copyings
    <3>3. \A a \in G : StepReady(w, a)' /\ a.op # "commit"
      BY <1>2, <2>1, <2>2, <2>6 DEF StepReady, Takings, Copyings
    <3>4. QED
      BY <3>2, <3>3
  <2>18. Core'
    BY <1>1, <2>13, <2>14, <2>15, <2>16, <2>17, <2>o, CoreAfterStep
  <2>19. QED
    BY <1>4, <2>1, <2>13, <2>15, <2>18 DEF F, G, b, C
<1>5. QED
  BY <1>3, <1>4

\* Where a transaction ends nothing waits.
LEMMA CommitAlone ==
    ASSUME Core, NEW w \in Worker, NEW s \in Pending(w), s.op = "commit"
    PROVE  Pending(w) = {s}
<1>1. todo[w] \in Lists /\ Orderly(parentOf, todo[w]) /\ Pending(w) = StepsOf(todo[w])
  BY DEF Core, TypeOK, InOrder, Lists, Pending
<1>2. PICK k \in DOMAIN todo[w] : s \in todo[w][k]
  BY <1>1 DEF StepsOf
<1>3. \A j \in DOMAIN todo[w] : j \in Nat
  BY <1>1 DEF Lists
<1>4. ASSUME NEW j \in DOMAIN todo[w], NEW t \in todo[w][j], t # s
      PROVE  FALSE
  <2>1. MayWait(parentOf, s, t) \/ MayWait(parentOf, t, s)
    <3>1. j < k \/ k < j \/ j = k
      BY <1>3
    <3>2. QED
      BY <1>1, <1>2, <1>4, <3>1 DEF Orderly
  <2>2. QED
    BY <2>1 DEF MayWait
<1>5. QED
  BY <1>1, <1>2, <1>4 DEF StepsOf

\* The transaction of a POST ends: its rows are there, and copies where they were
\* copied to.
LEMMA CommitKeeps ==
    ASSUME Core, NEW w \in Worker, NEW s \in Ready(w, "commit"), CommitInserted(w, s)
    PROVE  /\ Core' /\ Moves(w, s, {}) /\ ToCommit(w, s)
           /\ Pending(w) = {s} /\ Pending(w)' = {}
           /\ Rows' = Rows \cup inserted[w]
           /\ linked' = linked \cup {x \in inserted[w] : x[1] # s.at}
           /\ UNCHANGED <<parentOf, defaultsAt, imported, chosen, own, repair, root, edits,
                          crashes>>
<1> DEFINE M == {}
           I == inserted[w]
<1>1. /\ s.at \in Project /\ s.op = "commit" /\ StepReady(w, s) /\ s \in Pending(w)
      /\ s \in Step
  BY ReadyStep
<1>2. ToCommit(w, s)
  BY <1>1 DEF StepReady
<1>3. /\ Continue(w, s, M, {}) /\ Write(I, 0)
      /\ linked' = linked \cup {x \in I : x[1] # s.at}
      /\ inserted' = [inserted EXCEPT ![w] = {}]
      /\ UNCHANGED <<parentOf, defaultsAt, imported, chosen, own, repair, root, edits,
                     crashes>>
  BY DEF CommitInserted
<1>4. M \in SUBSET Step /\ \A c \in M : FALSE
  OBVIOUS
<1> HIDE DEF M
<1>5. Moves(w, s, M) /\ InOrder' /\ todo' \in [Worker -> Lists]
  BY <1>3, <1>4, ContinueWith
<1>6. Pending(w) = {s} /\ Pending(w)' = {}
  <2>1. Pending(w) = {s}
    BY <1>1, CommitAlone
  <2>2. ~MayWait(parentOf, s, s)
    BY <1>1 DEF MayWait
  <2>3. QED
    BY <1>4, <1>5, <2>1, <2>2 DEF Moves
<1>7. Rows' = Rows \cup I /\ \A x \in Rows' : text'[x] \in Text
  BY <1>3, Written, Owners DEF Core
<1>8. RowTypes' /\ RowsConsistent' /\ Rows \subseteq Rows' /\ linked \subseteq linked'
  BY <1>1, <1>2, <1>3, <1>7, InsertedConsistent DEF Core
<1>9. overlooked' \subseteq Project \X DOMAIN Owner
  <2>1. PICK R : R \subseteq Project \X DOMAIN Owner /\ overlooked' = overlooked \cup R
    BY DEF CommitInserted
  <2>2. QED
    BY <2>1 DEF Core, TypeOK
<1>10. OthersTyped'
  <2>1. inserted' \in [Worker -> SUBSET (Project \X Item)]
    BY <1>3 DEF Core, TypeOK
  <2>2. own' \subseteq Rows' /\ chosen' \subseteq linked'
    BY <1>3, <1>8 DEF Core, TypeOK
  <2>3. QED
    BY <1>3, <1>5, <1>9, <2>1, <2>2 DEF Core, TypeOK, OthersTyped
<1>11. StepsReady'
  <2>1. SUFFICES ASSUME NEW v \in Worker, NEW t \in Pending(v)'
                 PROVE  StepReady(v, t)'
    BY DEF StepsReady
  <2>2. v # w /\ t \in Pending(v)
    BY <1>5, <1>6 DEF Moves
  <2>3. StepReady(v, t) /\ inserted'[v] = inserted[v]
    BY <1>3, <2>2 DEF Core, StepsReady, TypeOK
  <2>4. ASSUME t.op = "commit", NEW x \in inserted[v], NEW p \in Project,
               <<p, x[2]>> \in Rows'
        PROVE  FALSE
    <3>1. t.what # s.what
      BY <1>1, <2>2, <2>4 DEF Core, CreatedOnce
    <3>2. /\ t.what \notin Default /\ \A q \in Project : <<q, x[2]>> \notin Rows
          /\ x[2] = t.what \/ (x[2] \in Default /\ Owner[x[2]] = t.what)
      BY <2>3, <2>4 DEF StepReady, ToCommit, NewRow
    <3> DEFINE y == <<p, x[2]>>
    <3>3. y \in I /\ y[2] = x[2]
      BY <1>7, <2>4, <3>2
    <3> HIDE DEF y, I
    <3>4. s.what \notin Default /\ (y[2] = s.what \/ (y[2] \in Default /\ Owner[y[2]] = s.what))
      BY <1>2, <3>3 DEF ToCommit, NewRow, I
    <3>5. QED
      BY <3>1, <3>2, <3>3, <3>4
  <2>5. QED
    BY <1>3, <1>8, <2>3, <2>4, ReadyStays
<1>12. CreatedOnce'
  <2>1. \A v \in Worker : \A t \in Pending(v)' : t \in Pending(v)
    BY <1>5, <1>6 DEF Moves
  <2>2. QED
    BY <2>1 DEF Core, CreatedOnce
<1>13. TypeOK'
  BY <1>3, <1>7, <1>8, <1>10 DEF Core, TypeOK, OthersTyped, RowTypes, Lists
<1>14. QED
  BY <1>2, <1>3, <1>5, <1>6, <1>7, <1>8, <1>11, <1>12, <1>13 DEF Core, M, I

\* The last step of do_import_results.
LEMMA CopyDefaultsKeeps ==
    ASSUME Core, NEW w \in Worker, NEW s \in Ready(w, "copyDefaults"), CopyDefaults(w, s)
    PROVE  /\ Core' /\ Moves(w, s, {}) /\ RowsKept /\ Frame
           /\ UNCHANGED <<text, linked, chosen, own, repair, edits>>
<1> DEFINE M == {}
<1>1. s.at \in Project /\ s.op = "copyDefaults" /\ s \in Pending(w)
  BY ReadyStep
<1>2. /\ Continue(w, s, M, {}) /\ Frame /\ parentOf' = parentOf
      /\ UNCHANGED <<text, linked, chosen, own, repair, edits>>
  BY DEF CopyDefaults, Frame
<1>3. M \in SUBSET Step /\ \A c \in M : FALSE
  OBVIOUS
<1> HIDE DEF M
<1>4. Moves(w, s, M) /\ InOrder' /\ todo' \in [Worker -> Lists]
  BY <1>2, <1>3, ContinueWith
<1>5. RowsKept /\ \A x \in Rows' : text'[x] \in Text
  BY <1>2 DEF RowsKept, Rows, Core, TypeOK
<1>6. DefaultsFrom(s.at) \subseteq Project
  BY <1>1 DEF DefaultsFrom, Below, Under
<1>7. defaultsAt' \subseteq Project /\ imported' \subseteq Project
  BY <1>1, <1>6 DEF CopyDefaults, Core, TypeOK
<1>8. OthersTyped'
  BY <1>2, <1>4, <1>5, <1>7 DEF Core, TypeOK, OthersTyped, Frame, RowsKept
<1>9. Core'
  BY <1>1, <1>2, <1>3, <1>4, <1>5, <1>8, CoreAfterStep DEF Frame
<1>10. QED
  BY <1>2, <1>4, <1>5, <1>9 DEF M

\* The command ends.
LEMMA FixedKeeps ==
    ASSUME Core, NEW w \in Worker, NEW s \in Ready(w, "fixed"), Fixed(w, s)
    PROVE  /\ Core' /\ Moves(w, s, {}) /\ RowsKept /\ Frame
           /\ UNCHANGED <<text, linked, defaultsAt, imported, chosen, own, edits>>
<1> DEFINE M == {}
<1>1. s.at \in Project /\ s.op = "fixed" /\ s \in Pending(w)
  BY ReadyStep
<1>2. /\ Continue(w, s, M, {}) /\ Frame /\ parentOf' = parentOf
      /\ UNCHANGED <<text, linked, defaultsAt, imported, chosen, own, edits>>
      /\ repair' = IF repair = "running" THEN "done" ELSE repair
  BY DEF Fixed, Frame
<1>3. M \in SUBSET Step /\ \A c \in M : FALSE
  OBVIOUS
<1> HIDE DEF M
<1>4. Moves(w, s, M) /\ InOrder' /\ todo' \in [Worker -> Lists]
  BY <1>2, <1>3, ContinueWith
<1>5. RowsKept /\ \A x \in Rows' : text'[x] \in Text
  BY <1>2 DEF RowsKept, Rows, Core, TypeOK
<1>6. OthersTyped'
  BY <1>2, <1>4, <1>5 DEF Core, TypeOK, OthersTyped, Frame, RowsKept
<1>7. Core'
  BY <1>1, <1>2, <1>3, <1>4, <1>5, <1>6, CoreAfterStep DEF Frame
<1>8. QED
  BY <1>2, <1>4, <1>5, <1>7 DEF M

\* update_indicator and update_period: a copy is saved, nothing else is written.
LEMMA RenewKeeps ==
    ASSUME Core, NEW w \in Worker, NEW s \in Ready(w, "renew"), Renew(w, s)
    PROVE  /\ Core' /\ RowsKept /\ OnlyRows /\ UNCHANGED chosen
           /\ <<s.at, s.what>> \in linked =>
                 Moves(w, s, {Do("spread", s.at, s.what, s.text)})
           /\ <<s.at, s.what>> \notin linked => Moves(w, s, {}) /\ Unwritten
<1>1. CASE <<s.at, s.what>> \in linked
  <2>1. Save(w, s)
    BY <1>1 DEF Renew
  <2>2. <<s.at, s.what>> \in Rows
    BY <1>1 DEF Core, TypeOK
  <2>3. QED
    BY <1>1, <2>1, <2>2, SaveKeeps
<1>2. CASE <<s.at, s.what>> \notin linked
  <2> DEFINE M == {}
  <2>1. Reads(w, s, M)
    BY <1>2 DEF Renew
  <2>2. M \in SUBSET Step /\ \A a \in M : FALSE
    OBVIOUS
  <2> HIDE DEF M
  <2>3. Core' /\ RowsKept /\ Moves(w, s, M) /\ Unwritten /\ Frame
    BY <2>1, <2>2, KindRead DEF Special, Takings, Insertions, Repairing
  <2>4. OnlyRows /\ UNCHANGED chosen
    BY <2>3 DEF OnlyRows, Unwritten
  <2>5. QED
    BY <1>2, <2>3, <2>4 DEF M
<1>3. QED
  BY <1>1, <1>2

(* Requests -----------------------------------------------------------------*)

\* A list of one step, and one step before others.
LEMMA OneStep ==
    ASSUME NEW h, NEW a \in Step
    PROVE  /\ <<{a}>> \in Lists /\ StepsOf(<<{a}>>) = {a} /\ Orderly(h, <<{a}>>)
<1> DEFINE q == <<>>
           F == {a}
<1>1. q \in Lists /\ StepsOf(q) = {} /\ Orderly(h, q)
  BY NothingToDo
<1>2. Before(F, q) = <<{a}>>
  BY DEF Before
<1>3. F \in SUBSET Step /\ \A s, t \in F : s = t
  OBVIOUS
<1> HIDE DEF q, F
<1>4. /\ Before(F, q) \in Lists
      /\ StepsOf(Before(F, q)) = F \cup StepsOf(q)
      /\ Orderly(h, Before(F, q))
  BY <1>1, <1>3, BeforeInOrder
<1>5. QED
  BY <1>1, <1>2, <1>4 DEF F

\* One step put in front of a list.
LEMMA StepFirst ==
    ASSUME NEW h, NEW a \in Step, NEW q \in Lists, Orderly(h, q),
           \A t \in StepsOf(q) : MayWait(h, a, t)
    PROVE  /\ <<{a}>> \o q \in Lists /\ StepsOf(<<{a}>> \o q) = {a} \cup StepsOf(q)
           /\ Orderly(h, <<{a}>> \o q)
<1> DEFINE F == {a}
<1>1. Before(F, q) = <<{a}>> \o q
  BY DEF Before
<1>2. F \in SUBSET Step /\ (\A s, t \in F : s = t) /\ \A s \in F : s = a
  OBVIOUS
<1> HIDE DEF F
<1>3. /\ Before(F, q) \in Lists
      /\ StepsOf(Before(F, q)) = F \cup StepsOf(q)
      /\ Orderly(h, Before(F, q))
  BY <1>2, BeforeInOrder
<1>4. QED
  BY <1>1, <1>3 DEF F

\* Two steps, one after the other.
LEMMA TwoSteps ==
    ASSUME NEW h, NEW a \in Step, NEW b \in Step, MayWait(h, a, b)
    PROVE  LET q == <<{a}, {b}>>
           IN  q \in Lists /\ StepsOf(q) = {a, b} /\ Orderly(h, q)
<1> DEFINE q == <<{a}, {b}>>
<1>1. q \in Lists
  BY DEF Lists
<1>2. DOMAIN q = {1, 2} /\ q[1] = {a} /\ q[2] = {b}
  OBVIOUS
<1> HIDE DEF q
<1>3. StepsOf(q) = {a, b}
  BY <1>2 DEF StepsOf
<1>4. Orderly(h, q)
  BY <1>2 DEF Orderly
<1>5. QED
  BY <1>1, <1>3, <1>4 DEF q

\* Worker w, which had nothing to do, is to do the steps Q.
Asks(w, Q) ==
    /\ Pending(w) = {} /\ Pending(w)' = Q
    /\ \A v \in Worker : v # w => todo'[v] = todo[v] /\ Pending(v)' = Pending(v)
    /\ OneAtATime => \A v \in Worker : Idle(v) /\ Pending(v) = {}
    /\ UNCHANGED <<parentOf, text, linked, imported, chosen, overlooked, own>> /\ RowsKept
    /\ todo' \in [Worker -> Lists]

\* A list without steps is empty.
LEMMA EmptyList ==
    ASSUME NEW q \in Lists
    PROVE  q = <<>> <=> StepsOf(q) = {}
<1>1. ASSUME q # <<>>
      PROVE  StepsOf(q) # {}
  <2>1. q[1] \in (SUBSET Step) \ {{}} /\ 1 \in DOMAIN q
    BY <1>1 DEF Lists
  <2>2. QED
    BY <2>1 DEF StepsOf
<1>2. QED
  BY <1>1, NothingToDo

\* Where there is nothing to do nothing is pending, and the other way round.
LEMMA IdlePending ==
    ASSUME TypeOK, NEW w \in Worker
    PROVE  Idle(w) <=> Pending(w) = {}
<1>1. todo[w] \in Lists
  BY DEF TypeOK, Lists
<1>2. QED
  BY <1>1, EmptyList DEF Idle, Pending

\* An accepted request.
LEMMA Accepted ==
    ASSUME TypeOK, NEW w \in Worker, NEW q \in Lists, Accept(w, q)
    PROVE  /\ Asks(w, StepsOf(q)) /\ todo' = [todo EXCEPT ![w] = q]
           /\ repair' = "no" /\ root' = NoProject /\ crashes' = crashes
<1>1. /\ MayStart(w) /\ todo' = [todo EXCEPT ![w] = q]
      /\ repair' = "no" /\ root' = NoProject /\ crashes' = crashes
      /\ UNCHANGED <<parentOf, text, linked, imported, chosen, overlooked, own>>
  BY DEF Accept
<1>2. /\ todo'[w] = q /\ todo' \in [Worker -> Lists]
      /\ \A v \in Worker : v # w => todo'[v] = todo[v]
  BY <1>1 DEF TypeOK, Lists
<1>3. /\ Pending(w)' = StepsOf(q)
      /\ \A v \in Worker : v # w => Pending(v)' = Pending(v)
  BY <1>2 DEF Pending
<1>4. Pending(w) = {} /\ (OneAtATime => \A v \in Worker : Idle(v) /\ Pending(v) = {})
  BY <1>1, IdlePending DEF MayStart, Quiet, OneAtATime
<1>5. RowsKept
  BY <1>1 DEF RowsKept, Rows
<1>6. QED
  BY <1>1, <1>2, <1>3, <1>4, <1>5 DEF Asks

\* What the steps of a request must be.
LEMMA CoreAfterAsking ==
    ASSUME Core, NEW w \in Worker, NEW q \in Lists, todo' = [todo EXCEPT ![w] = q],
           Orderly(parentOf, q), Asks(w, StepsOf(q)),
           defaultsAt' \subseteq Project, edits' \in 0 .. MaxEdits,
           crashes' \in 0 .. MaxCrashes, repair' \in {"no", "running", "done"},
           root' \in Project \cup {NoProject},
           inserted' \in [Worker -> SUBSET (Project \X Item)],
           \A v \in Worker : v # w => inserted'[v] = inserted[v],
           \A a \in StepsOf(q) : StepReady(w, a)',
           \A a \in StepsOf(q) : a.op = "commit" => Fresh(a.what)
    PROVE  Core'
<1>1. parentOf' = parentOf /\ text' = text /\ linked' = linked
  BY DEF Asks
<1>2. OthersTyped'
  BY DEF Asks, OthersTyped, Core, TypeOK, RowsKept
<1>3. \A a \in StepsOf(q) : a.op = "commit" =>
          \A v \in Worker : \A t \in Pending(v) : t.what # a.what
  BY DEF Fresh
<1>4. QED
  BY <1>1, <1>2, <1>3, CoreAfterRequest

\* import_results.
LEMMA ImportResultsKeeps ==
    ASSUME Core, NEW w \in Worker, NEW c \in Project, ImportResults(w, c)
    PROVE  /\ Core' /\ UNCHANGED <<defaultsAt, inserted, edits, crashes>> /\ repair' = "no"
           /\ Asks(w, {Do("readResults", c, NoItem, 0), Do("copyDefaults", c, NoItem, 0)})
<1> DEFINE a == Do("readResults", c, NoItem, 0)
           b == Do("copyDefaults", c, NoItem, 0)
           q == <<{a}, {b}>>
<1>1. Accept(w, q) /\ UNCHANGED <<defaultsAt, inserted, edits>> /\ parentOf[c] # NoProject
  BY DEF ImportResults, Request
<1>2. a \in Step /\ b \in Step
  BY DoSteps, Owners DEF Ops
<1>3. a.op = "readResults" /\ a.at = c /\ b.op = "copyDefaults" /\ b.at = c
  BY DoFields
<1> HIDE DEF a, b
<1>5. MayWait(parentOf, a, b)
  BY <1>3 DEF MayWait, Takings, Insertions
<1>6. q \in Lists /\ StepsOf(q) = {a, b} /\ Orderly(parentOf, q)
  BY <1>2, <1>5, TwoSteps
<1> HIDE DEF q
<1>7. /\ Asks(w, StepsOf(q)) /\ todo' = [todo EXCEPT ![w] = q]
      /\ repair' = "no" /\ root' = NoProject /\ crashes' = crashes
  BY <1>1, <1>6, Accepted DEF Core
<1>8. parentOf[c] \in Project /\ parentOf' = parentOf
  BY <1>1, <1>7, FrameworkAssumption DEF Core, TypeOK, Asks
<1>9. \A s \in StepsOf(q) : StepReady(w, s)' /\ s.op # "commit"
  BY <1>3, <1>6, <1>8 DEF StepReady, Takings, Insertions, Copyings
<1>10. Core'
  <2>1. /\ defaultsAt' \subseteq Project /\ edits' \in 0 .. MaxEdits
        /\ crashes' \in 0 .. MaxCrashes /\ root' \in Project \cup {NoProject}
        /\ inserted' \in [Worker -> SUBSET (Project \X Item)]
        /\ \A v \in Worker : v # w => inserted'[v] = inserted[v]
    BY <1>1, <1>7 DEF Core, TypeOK
  <2>2. QED
    BY <1>6, <1>7, <1>9, <2>1, CoreAfterAsking
<1>11. QED
  BY <1>1, <1>6, <1>7, <1>10 DEF a, b

\* import_result of one result.
LEMMA ImportResultKeeps ==
    ASSUME Core, NEW w \in Worker, NEW c \in Project, NEW r \in Result, ImportResult(w, c, r)
    PROVE  /\ Core' /\ UNCHANGED <<defaultsAt, inserted, edits, crashes>> /\ repair' = "no"
           /\ AtParent(c, r) /\ <<c, r>> \notin linked
           /\ Asks(w, {Do("insertResult", c, r, text[<<parentOf[c], r>>])})
<1> DEFINE t == text[<<parentOf[c], r>>]
           a == Do("insertResult", c, r, t)
           q == <<{a}>>
<1>1. /\ Accept(w, q) /\ UNCHANGED <<defaultsAt, inserted, edits>> /\ <<parentOf[c], r>> \in Rows
      /\ <<c, r>> \notin linked
  BY DEF ImportResult, Request
<1>2. parentOf[c] \in Project /\ t \in Text /\ r \in Item
  BY <1>1, Owners DEF Core, TypeOK
<1> HIDE DEF t
<1>3. a \in Step
  BY <1>2, DoSteps DEF Ops
<1>4. a.op = "insertResult" /\ a.at = c /\ a.what = r
  BY DoFields
<1> HIDE DEF a
<1>5. q \in Lists /\ StepsOf(q) = {a} /\ Orderly(parentOf, q)
  BY <1>3, OneStep
<1> HIDE DEF q
<1>6. /\ Asks(w, StepsOf(q)) /\ todo' = [todo EXCEPT ![w] = q]
      /\ repair' = "no" /\ root' = NoProject /\ crashes' = crashes
  BY <1>1, <1>5, Accepted DEF Core
<1>7. parentOf' = parentOf /\ Rows' = Rows
  BY <1>6 DEF Asks, RowsKept
<1>8. \A s \in StepsOf(q) : StepReady(w, s)' /\ s.op # "commit"
  BY <1>1, <1>2, <1>4, <1>5, <1>7 DEF StepReady, Takings, Insertions, Copyings, AtParent
<1>9. Core'
  <2>1. /\ defaultsAt' \subseteq Project /\ edits' \in 0 .. MaxEdits
        /\ crashes' \in 0 .. MaxCrashes /\ root' \in Project \cup {NoProject}
        /\ inserted' \in [Worker -> SUBSET (Project \X Item)]
        /\ \A v \in Worker : v # w => inserted'[v] = inserted[v]
    BY <1>1, <1>6 DEF Core, TypeOK
  <2>2. QED
    BY <1>5, <1>6, <1>8, <2>1, CoreAfterAsking
<1>10. QED
  BY <1>1, <1>5, <1>6, <1>9 DEF a, t, AtParent

\* import_indicator of one indicator.
LEMMA ImportIndicatorKeeps ==
    ASSUME Core, NEW w \in Worker, NEW c \in Project, NEW i \in Indicator,
           ImportIndicator(w, c, i)
    PROVE  /\ Core' /\ UNCHANGED <<defaultsAt, inserted, edits, crashes>> /\ repair' = "no"
           /\ AtParent(c, i)
           /\ Asks(w, {Do("requireResult", c, i, text[<<parentOf[c], i>>])})
<1> DEFINE t == text[<<parentOf[c], i>>]
           a == Do("requireResult", c, i, t)
           q == <<{a}>>
<1>1. /\ Accept(w, q) /\ UNCHANGED <<defaultsAt, inserted, edits>> /\ <<parentOf[c], i>> \in Rows
  BY DEF ImportIndicator, Request
<1>2. t \in Text /\ i \in Item
  BY <1>1, Owners DEF Core, TypeOK
<1> HIDE DEF t
<1>3. a \in Step
  BY <1>2, DoSteps DEF Ops
<1>4. a.op = "requireResult" /\ a.at = c /\ a.what = i
  BY DoFields
<1> HIDE DEF a
<1>5. q \in Lists /\ StepsOf(q) = {a} /\ Orderly(parentOf, q)
  BY <1>3, OneStep
<1> HIDE DEF q
<1>6. /\ Asks(w, StepsOf(q)) /\ todo' = [todo EXCEPT ![w] = q]
      /\ repair' = "no" /\ root' = NoProject /\ crashes' = crashes
  BY <1>1, <1>5, Accepted DEF Core
<1>7. parentOf' = parentOf /\ Rows' = Rows
  BY <1>6 DEF Asks, RowsKept
<1>8. \A s \in StepsOf(q) : StepReady(w, s)' /\ s.op # "commit"
  BY <1>1, <1>2, <1>4, <1>5, <1>7 DEF StepReady, Takings, Insertions, Copyings, AtParent
<1>9. Core'
  <2>1. /\ defaultsAt' \subseteq Project /\ edits' \in 0 .. MaxEdits
        /\ crashes' \in 0 .. MaxCrashes /\ root' \in Project \cup {NoProject}
        /\ inserted' \in [Worker -> SUBSET (Project \X Item)]
        /\ \A v \in Worker : v # w => inserted'[v] = inserted[v]
    BY <1>1, <1>6 DEF Core, TypeOK
  <2>2. QED
    BY <1>5, <1>6, <1>8, <2>1, CoreAfterAsking
<1>10. QED
  BY <1>1, <1>5, <1>6, <1>9 DEF a, t, AtParent

\* No project has parts of what nobody has.
LEMMA FreshParts ==
    ASSUME TypeOK, RowsConsistent, NEW o, Fresh(o)
    PROVE  \A p \in Project : \A x \in Parts(o) : <<p, x>> \notin Rows
BY DEF Fresh, Parts, RowsConsistent

\* The rows that w's transaction has inserted: T at the projects D, which are those
\* that have linked rows for them.
Opens(w, p, o) ==
    \E D \in SUBSET Project : \E T \in SUBSET Item :
        /\ inserted'[w] = D \X T /\ p \in D /\ o \in T
        /\ \A c \in Project : parentOf[c] \in D /\ Linked(c, o) => c \in D

\* A POST.
LEMMA InsertKeeps ==
    ASSUME Core, NEW w \in Worker, NEW p \in Project, NEW o \in Item \ Default,
           NEW D \in SUBSET Project, NEW T \in SUBSET Item, Insert(w, p, o, D, T),
           Fresh(o), p \in D, o \in T,
           \A d \in D : d # p => d \in BelowAll(p) /\ parentOf[d] \in D,
           \A y \in T : y = o \/ (y \in Default /\ Owner[y] = o),
           o \in DOMAIN Owner => \A d \in D :
               <<d, Owner[o]>> \in Rows /\ (d # p => <<d, Owner[o]>> \in linked)
    PROVE  /\ Core' /\ UNCHANGED <<defaultsAt, edits, crashes>> /\ repair' = "no"
           /\ Asks(w, {Do("commit", p, o, 0)}) /\ inserted'[w] = D \X T
           /\ \A v \in Worker : v # w => inserted'[v] = inserted[v]
<1> DEFINE a == Do("commit", p, o, 0)
           q == <<{a}>>
<1>1. /\ Accept(w, q) /\ UNCHANGED <<defaultsAt, edits>>
      /\ inserted' = [inserted EXCEPT ![w] = D \X T]
  BY DEF Insert
<1>2. o \in Item \cup {NoItem} /\ 0 \in Text
  BY Owners
<1>3. a \in Step
  BY <1>2, DoSteps DEF Ops
<1>4. a.op = "commit" /\ a.at = p /\ a.what = o
  BY DoFields
<1> HIDE DEF a
<1>5. q \in Lists /\ StepsOf(q) = {a} /\ Orderly(parentOf, q)
  BY <1>3, OneStep
<1> HIDE DEF q
<1>6. /\ Asks(w, StepsOf(q)) /\ todo' = [todo EXCEPT ![w] = q]
      /\ repair' = "no" /\ root' = NoProject /\ crashes' = crashes
  BY <1>1, <1>5, Accepted DEF Core
<1>7. parentOf' = parentOf /\ Rows' = Rows /\ linked' = linked
  BY <1>6 DEF Asks, RowsKept
<1>8. /\ inserted' \in [Worker -> SUBSET (Project \X Item)] /\ inserted'[w] = D \X T
      /\ \A v \in Worker : v # w => inserted'[v] = inserted[v]
  <2>1. D \X T \in SUBSET (Project \X Item)
    OBVIOUS
  <2>2. QED
    BY <1>1, <2>1 DEF Core, TypeOK
<1>9. ToCommit(w, a)'
  <2>1. \A y \in T : \A c \in Project : <<c, y>> \notin Rows
    BY FreshParts, FrameworkAssumption DEF Core, Fresh, Parts
  <2>2. ASSUME NEW x \in D \X T
        PROVE  NewRow(w, a, x)'
    <3>1. x[1] \in D /\ x[2] \in T
      OBVIOUS
    <3>2. x[1] # p => x[1] \in BelowAll(p)' /\ <<parentOf[x[1]], x[2]>> \in D \X T
      BY <1>7, <3>1 DEF BelowAll, Below
    <3>3. x[2] = o \/ (x[2] \in Default /\ Owner[x[2]] = o)
      BY <3>1
    <3>4. o \in DOMAIN Owner => /\ <<x[1], Owner[o]>> \in Rows
                                /\ x[1] # p => <<x[1], Owner[o]>> \in linked
      BY <3>1
    <3>5. \A c \in Project : <<c, x[2]>> \notin Rows
      BY <2>1, <3>1
    <3>6. QED
      BY <1>4, <1>7, <1>8, <3>2, <3>3, <3>4, <3>5 DEF NewRow
  <2>3. QED
    BY <1>4, <1>8, <2>2 DEF ToCommit
<1>10. \A s \in StepsOf(q) : StepReady(w, s)'
  BY <1>4, <1>5, <1>9 DEF StepReady, Takings, Insertions, Copyings
<1>11. Core'
  <2>1. /\ defaultsAt' \subseteq Project /\ edits' \in 0 .. MaxEdits
        /\ crashes' \in 0 .. MaxCrashes /\ root' \in Project \cup {NoProject}
    BY <1>1, <1>6 DEF Core, TypeOK
  <2>2. \A s \in StepsOf(q) : s.op = "commit" => Fresh(s.what)
    BY <1>4, <1>5
  <2>3. QED
    BY <1>5, <1>6, <1>8, <1>10, <2>1, <2>2, CoreAfterAsking
<1>12. QED
  BY <1>1, <1>5, <1>6, <1>8, <1>11 DEF a

\* A new result, inserted where the results above are.
LEMMA CreateResultKeeps ==
    ASSUME Core, NEW w \in Worker, NEW p \in Project, NEW r \in Result, CreateResult(w, p, r)
    PROVE  /\ Core' /\ UNCHANGED <<defaultsAt, edits, crashes>> /\ repair' = "no" /\ Fresh(r)
           /\ Asks(w, {Do("commit", p, r, 0)}) /\ Opens(w, p, r)
           /\ \A v \in Worker : v # w => inserted'[v] = inserted[v]
<1> DEFINE S == {c \in Project : HasImportedResults(c)}
           D == {p} \cup Below(p, S)
           T == {r}
<1>1. Fresh(r) /\ Insert(w, p, r, D, T)
  BY DEF CreateResult, ReachOfResults
<1>2. r \in Item \ Default /\ r \notin DOMAIN Owner /\ T \in SUBSET Item
  BY Owners, FrameworkAssumption
<1>3. /\ S \in SUBSET Project
      /\ \A c \in Project : Linked(c, r) => c \in S
  BY DEF Linked
<1> HIDE DEF S
<1>4. /\ Below(p, S) \subseteq BelowAll(p) /\ BelowAll(p) \subseteq Project
      /\ \A d \in Below(p, S) : parentOf[d] \in {p} \cup Below(p, S)
      /\ \A d \in S : parentOf[d] \in {p} \cup Below(p, S) => d \in Below(p, S)
  BY <1>3, BelowFacts, BelowAllFacts DEF Core, TypeOK
<1>5. /\ D \in SUBSET Project /\ p \in D /\ r \in T /\ \A y \in T : y = r
      /\ \A d \in D : d # p => d \in BelowAll(p) /\ parentOf[d] \in D
      /\ \A d \in S : parentOf[d] \in D => d \in D
  BY <1>4
<1> HIDE DEF D, T
<1>6. /\ Core' /\ UNCHANGED <<defaultsAt, edits, crashes>> /\ repair' = "no"
      /\ Asks(w, {Do("commit", p, r, 0)}) /\ inserted'[w] = D \X T
      /\ \A v \in Worker : v # w => inserted'[v] = inserted[v]
  BY <1>1, <1>2, <1>5, InsertKeeps
<1>7. Opens(w, p, r)
  BY <1>2, <1>3, <1>5, <1>6 DEF Opens
<1>8. QED
  BY <1>1, <1>6, <1>7

\* A new indicator or period, inserted where its owner is.
LEMMA InsertPartKeeps ==
    ASSUME Core, NEW w \in Worker, NEW p \in Project, NEW o \in DOMAIN Owner \ Default,
           NEW T \in SUBSET Item, Fresh(o), <<p, Owner[o]>> \in Rows, o \in T,
           \A y \in T : y = o \/ (y \in Default /\ Owner[y] = o),
           Insert(w, p, o, Reach(p, Owner[o]), T)
    PROVE  /\ Core' /\ UNCHANGED <<defaultsAt, edits, crashes>> /\ repair' = "no"
           /\ Asks(w, {Do("commit", p, o, 0)}) /\ Opens(w, p, o)
           /\ \A v \in Worker : v # w => inserted'[v] = inserted[v]
<1> DEFINE S == {c \in Project : <<c, Owner[o]>> \in linked}
           D == {p} \cup Below(p, S)
<1>1. Insert(w, p, o, D, T)
  BY DEF Reach
<1>2. o \in Item \ Default /\ o \notin Result
  BY Owners
<1>3. /\ S \in SUBSET Project
      /\ \A c \in Project : Linked(c, o) => c \in S
      /\ \A c \in S : <<c, Owner[o]>> \in linked
  BY <1>2 DEF Linked
<1> HIDE DEF S
<1>4. /\ Below(p, S) \subseteq BelowAll(p) /\ BelowAll(p) \subseteq Project
      /\ Below(p, S) \subseteq S
      /\ \A d \in Below(p, S) : parentOf[d] \in {p} \cup Below(p, S)
      /\ \A d \in S : parentOf[d] \in {p} \cup Below(p, S) => d \in Below(p, S)
  BY <1>3, BelowFacts, BelowAllFacts DEF Core, TypeOK
<1>5. /\ D \in SUBSET Project /\ p \in D
      /\ \A d \in D : d # p => d \in BelowAll(p) /\ parentOf[d] \in D /\ d \in S
      /\ \A d \in S : parentOf[d] \in D => d \in D
  BY <1>4
<1> HIDE DEF D
<1>6. \A d \in D : <<d, Owner[o]>> \in Rows /\ (d # p => <<d, Owner[o]>> \in linked)
  BY <1>3, <1>5 DEF Core, TypeOK
<1>7. /\ Core' /\ UNCHANGED <<defaultsAt, edits, crashes>> /\ repair' = "no"
      /\ Asks(w, {Do("commit", p, o, 0)}) /\ inserted'[w] = D \X T
      /\ \A v \in Worker : v # w => inserted'[v] = inserted[v]
  BY <1>1, <1>2, <1>5, <1>6, InsertKeeps
<1>8. Opens(w, p, o)
  BY <1>3, <1>5, <1>7 DEF Opens
<1>9. QED
  BY <1>7, <1>8

\* A new indicator and its default periods.
LEMMA CreateIndicatorKeeps ==
    ASSUME Core, NEW w \in Worker, NEW p \in Project, NEW i \in Indicator,
           CreateIndicator(w, p, i)
    PROVE  /\ Core' /\ UNCHANGED <<defaultsAt, edits, crashes>> /\ repair' = "no" /\ Fresh(i)
           /\ Asks(w, {Do("commit", p, i, 0)}) /\ Opens(w, p, i)
           /\ \A v \in Worker : v # w => inserted'[v] = inserted[v]
<1> DEFINE T == {i} \cup (IF p \in defaultsAt THEN Parts(i) \cap Default ELSE {})
<1>1. /\ Fresh(i) /\ <<p, Owner[i]>> \in Rows
      /\ Insert(w, p, i, Reach(p, Owner[i]), T)
  BY DEF CreateIndicator
<1>2. i \in DOMAIN Owner \ Default
  BY Owners, FrameworkAssumption
<1>3. /\ T \in SUBSET Item /\ i \in T
      /\ \A y \in T : y = i \/ (y \in Default /\ Owner[y] = i)
  BY <1>2, Owners DEF Parts
<1> HIDE DEF T
<1>4. QED
  BY <1>1, <1>2, <1>3, InsertPartKeeps

\* A new period.
LEMMA CreatePeriodKeeps ==
    ASSUME Core, NEW w \in Worker, NEW p \in Project, NEW i \in Period, CreatePeriod(w, p, i)
    PROVE  /\ Core' /\ UNCHANGED <<defaultsAt, edits, crashes>> /\ repair' = "no" /\ Fresh(i)
           /\ Asks(w, {Do("commit", p, i, 0)}) /\ Opens(w, p, i)
           /\ \A v \in Worker : v # w => inserted'[v] = inserted[v]
<1> DEFINE T == {i}
<1>1. /\ Fresh(i) /\ <<p, Owner[i]>> \in Rows /\ i \notin Default
      /\ Insert(w, p, i, Reach(p, Owner[i]), T)
  BY DEF CreatePeriod
<1>2. i \in DOMAIN Owner \ Default
  BY <1>1, Owners, FrameworkAssumption
<1>3. T \in SUBSET Item /\ i \in T /\ \A y \in T : y = i
  BY <1>2, Owners
<1> HIDE DEF T
<1>4. QED
  BY <1>1, <1>2, <1>3, InsertPartKeeps

\* An edit.
LEMMA EditKeeps ==
    ASSUME Core, NEW w \in Worker, NEW p \in Project, NEW o \in Item, Edit(w, p, o)
    PROVE  /\ Core' /\ UNCHANGED <<defaultsAt, inserted, crashes>> /\ repair' = "no"
           /\ edits' = edits + 1 /\ edits + 1 \in Text
           /\ <<p, o>> \in Rows
           /\ Asks(w, {Do("save", p, o, edits + 1)})
<1> DEFINE t == edits + 1
           a == Do("save", p, o, t)
           q == <<{a}>>
<1>1. Accept(w, q) /\ UNCHANGED <<defaultsAt, inserted>> /\ edits' = t /\ <<p, o>> \in Rows
  BY DEF Edit
<1>2. t \in 0 .. MaxEdits /\ t \in Text
  BY FrameworkAssumption DEF Edit, Core, TypeOK, Text
<1> HIDE DEF t
<1>3. a \in Step
  BY <1>2, DoSteps DEF Ops
<1>4. a.op = "save" /\ a.at = p /\ a.what = o
  BY DoFields
<1> HIDE DEF a
<1>5. q \in Lists /\ StepsOf(q) = {a} /\ Orderly(parentOf, q)
  BY <1>3, OneStep
<1> HIDE DEF q
<1>6. /\ Asks(w, StepsOf(q)) /\ todo' = [todo EXCEPT ![w] = q]
      /\ repair' = "no" /\ root' = NoProject /\ crashes' = crashes
  BY <1>1, <1>5, Accepted DEF Core
<1>7. parentOf' = parentOf /\ Rows' = Rows
  BY <1>6 DEF Asks, RowsKept
<1>8. \A s \in StepsOf(q) : StepReady(w, s)' /\ s.op # "commit"
  BY <1>1, <1>4, <1>5, <1>7 DEF StepReady, Takings, Insertions, Copyings
<1>9. Core'
  <2>1. /\ defaultsAt' \subseteq Project /\ edits' \in 0 .. MaxEdits
        /\ crashes' \in 0 .. MaxCrashes /\ root' \in Project \cup {NoProject}
        /\ inserted' \in [Worker -> SUBSET (Project \X Item)]
        /\ \A v \in Worker : v # w => inserted'[v] = inserted[v]
    BY <1>1, <1>2, <1>6 DEF Core, TypeOK
  <2>2. QED
    BY <1>5, <1>6, <1>8, <2>1, CoreAfterAsking
<1>10. QED
  BY <1>1, <1>2, <1>5, <1>6, <1>9 DEF a, t

\* A new default period.
LEMMA AddDefaultPeriodKeeps ==
    ASSUME Core, NEW w \in Worker, NEW p \in Project, AddDefaultPeriod(w, p)
    PROVE  /\ Core' /\ UNCHANGED <<inserted, edits, crashes>> /\ repair' = "no"
           /\ Asks(w, {})
<1> DEFINE q == <<>>
<1>1. /\ Accept(w, q) /\ UNCHANGED <<inserted, edits>>
      /\ \/ defaultsAt' = defaultsAt \cup DefaultsFrom(p)
         \/ defaultsAt' = defaultsAt \cup {p}
  BY DEF AddDefaultPeriod
<1>2. q \in Lists /\ StepsOf(q) = {} /\ Orderly(parentOf, q)
  BY NothingToDo
<1> HIDE DEF q
<1>3. /\ Asks(w, StepsOf(q)) /\ todo' = [todo EXCEPT ![w] = q]
      /\ repair' = "no" /\ root' = NoProject /\ crashes' = crashes
  BY <1>1, <1>2, Accepted DEF Core
<1>4. DefaultsFrom(p) \subseteq Project
  BY DEF DefaultsFrom, Below, Under
<1>5. Core'
  <2>1. /\ defaultsAt' \subseteq Project /\ edits' \in 0 .. MaxEdits
        /\ crashes' \in 0 .. MaxCrashes /\ root' \in Project \cup {NoProject}
        /\ inserted' \in [Worker -> SUBSET (Project \X Item)]
        /\ \A v \in Worker : v # w => inserted'[v] = inserted[v]
    BY <1>1, <1>3, <1>4 DEF Core, TypeOK
  <2>2. QED
    BY <1>2, <1>3, <2>1, CoreAfterAsking
<1>6. QED
  BY <1>1, <1>2, <1>3, <1>5

\* The repair.
LEMMA FixMissingPeriodsKeeps ==
    ASSUME Core, NEW w \in Worker, NEW p \in Project, FixMissingPeriods(w, p)
    PROVE  /\ Core' /\ UNCHANGED <<defaultsAt, inserted, edits, crashes>>
           /\ repair' = "running" /\ root' = p
           /\ Asks(w, {Do("walk", p, NoItem, 0), Do("fixed", p, NoItem, 0)})
           /\ \A v \in Worker : Pending(v) = {} /\ Idle(v)
<1> DEFINE a == Do("walk", p, NoItem, 0)
           b == Do("fixed", p, NoItem, 0)
           q == <<{a}, {b}>>
<1>1. /\ Quiet /\ todo' = [todo EXCEPT ![w] = q] /\ repair' = "running" /\ root' = p
      /\ UNCHANGED <<parentOf, text, linked, defaultsAt, inserted, imported, chosen, overlooked,
                     own, edits, crashes>>
  BY DEF FixMissingPeriods
<1>2. a \in Step /\ b \in Step
  BY DoSteps, Owners DEF Ops
<1>3. a.op = "walk" /\ a.at = p /\ b.op = "fixed" /\ b.at = p
  BY DoFields
<1> HIDE DEF a, b
<1>4. MayWait(parentOf, a, b)
  BY <1>3 DEF MayWait, Takings, Insertions, Repairing
<1>5. q \in Lists /\ StepsOf(q) = {a, b} /\ Orderly(parentOf, q)
  BY <1>2, <1>4, TwoSteps
<1> HIDE DEF q
<1>6. \A v \in Worker : Pending(v) = {} /\ Idle(v)
  BY <1>1, IdlePending DEF Quiet, Core
<1>7. Asks(w, StepsOf(q))
  <2>1. /\ todo'[w] = q /\ todo' \in [Worker -> Lists]
        /\ \A v \in Worker : v # w => todo'[v] = todo[v]
    BY <1>1, <1>5 DEF Core, TypeOK, Lists
  <2>2. /\ Pending(w)' = StepsOf(q)
        /\ \A v \in Worker : v # w => Pending(v)' = Pending(v)
    BY <2>1 DEF Pending
  <2>3. RowsKept
    BY <1>1 DEF RowsKept, Rows
  <2>4. QED
    BY <1>1, <1>6, <2>1, <2>2, <2>3 DEF Asks
<1>8. \A s \in StepsOf(q) : StepReady(w, s)' /\ s.op # "commit"
  BY <1>3, <1>5 DEF StepReady, Takings, Insertions, Copyings
<1>9. Core'
  <2>1. /\ defaultsAt' \subseteq Project /\ edits' \in 0 .. MaxEdits
        /\ crashes' \in 0 .. MaxCrashes /\ root' \in Project \cup {NoProject}
        /\ inserted' \in [Worker -> SUBSET (Project \X Item)]
        /\ \A v \in Worker : v # w => inserted'[v] = inserted[v]
    BY <1>1 DEF Core, TypeOK
  <2>2. QED
    BY <1>1, <1>5, <1>7, <1>8, <2>1, CoreAfterAsking
<1>10. QED
  BY <1>1, <1>5, <1>6, <1>7, <1>9 DEF a, b

\* A request that dies.
LEMMA CrashKeeps ==
    ASSUME Core, NEW w \in Worker, Crash(w)
    PROVE  /\ Core' /\ RowsKept /\ todo'[w] = <<>> /\ Pending(w)' = {}
           /\ \A v \in Worker : v # w => todo'[v] = todo[v] /\ Pending(v)' = Pending(v)
           /\ crashes' # 0 /\ repair' = "no"
           /\ UNCHANGED <<parentOf, text, linked, defaultsAt, imported, chosen, overlooked, own,
                     edits>>
           /\ inserted' = [inserted EXCEPT ![w] = {}]
<1>1. /\ todo' = [todo EXCEPT ![w] = <<>>] /\ crashes' = crashes + 1 /\ crashes < MaxCrashes
      /\ repair' = "no" /\ root' = NoProject
      /\ UNCHANGED <<parentOf, text, linked, defaultsAt, imported, chosen, overlooked, own,
                     edits>>
      /\ inserted' = [inserted EXCEPT ![w] = {}]
  BY DEF Crash
<1>2. crashes' \in 0 .. MaxCrashes /\ crashes' # 0
  BY <1>1, FrameworkAssumption DEF Core, TypeOK
<1>3. /\ inserted' \in [Worker -> SUBSET (Project \X Item)] /\ Rows' = Rows
      /\ \A v \in Worker : v # w => inserted'[v] = inserted[v]
  BY <1>1 DEF Core, TypeOK, Rows
<1>4. todo' \in [Worker -> Lists] => OthersTyped'
  BY <1>1, <1>2, <1>3 DEF OthersTyped, Core, TypeOK
<1>5. /\ Core' /\ RowsKept /\ todo'[w] = <<>> /\ Pending(w)' = {}
      /\ \A v \in Worker : v # w => todo'[v] = todo[v] /\ Pending(v)' = Pending(v)
  BY <1>1, <1>4, <1>3, CoreAfterStop
<1>6. QED
  BY <1>1, <1>2, <1>5

(* Types, rows and steps: together inductive ---------------------------------*)

\* At first there are no rows and nobody has anything to do.
LEMMA CoreInit ==
    ASSUME Init
    PROVE  Core /\ \A w \in Worker : Pending(w) = {}
<1> USE DEF Init
<1>1. Rows = {}
  BY DEF Rows
<1>2. \A w \in Worker : todo[w] = <<>> /\ Pending(w) = {}
  BY NothingToDo DEF Pending
<1>3. TypeOK
  BY <1>1, FrameworkAssumption DEF TypeOK
<1>4. RowsConsistent
  BY <1>1 DEF RowsConsistent
<1>5. StepsReady /\ CreatedOnce
  BY <1>2 DEF StepsReady, CreatedOnce
<1>6. InOrder
  BY <1>2, NothingToDo DEF InOrder
<1>7. QED
  BY <1>2, <1>3, <1>4, <1>5, <1>6 DEF Core

\* Every step of every worker.
LEMMA CoreWorkerStep ==
    ASSUME Core, NEW w \in Worker, WorkerStep(w)
    PROVE  Core'
<1>1. CASE \E s \in Ready(w, "readResults") : ReadResults(w, s)
  BY <1>1, ReadResultsKeeps
<1>2. CASE \E s \in Ready(w, "takeResult") : TakeResult(w, s)
  BY <1>2, TakeResultKeeps
<1>3. CASE \E s \in Ready(w, "offer") : Offer(w, s)
  BY <1>3, OfferKeeps
<1>4. CASE \E s \in Ready(w, "insertResult") : InsertResult(w, s)
  BY <1>4, InsertResultKeeps
<1>5. CASE \E s \in Ready(w, "readIndicators") : ReadIndicators(w, s)
  BY <1>5, ReadIndicatorsKeeps
<1>6. CASE \E s \in Ready(w, "readPeriods") : ReadPeriods(w, s)
  BY <1>6, ReadPeriodsKeeps
<1>7. CASE \E s \in Ready(w, "copyIndicator") : CopyIndicator(w, s)
  BY <1>7, CopyIndicatorKeeps
<1>8. CASE \E s \in Ready(w, "copyPeriod") : CopyPeriod(w, s)
  BY <1>8, CopyPeriodKeeps
<1>9. CASE \E s \in Ready(w, "saveAgain") : Save(w, s)
  <2>1. PICK s \in Ready(w, "saveAgain") : Save(w, s)
    BY <1>9
  <2>2. <<s.at, s.what>> \in Rows
    BY <2>1, ReadyStep DEF StepReady
  <2>3. QED
    BY <2>1, <2>2, SaveKeeps
<1>12. CASE \E s \in Ready(w, "save") : SaveEdited(w, s)
  <2>1. PICK s \in Ready(w, "save") : SaveEdited(w, s)
    BY <1>12
  <2>2. <<s.at, s.what>> \in Rows
    BY <2>1, ReadyStep DEF StepReady
  <2>3. QED
    BY <2>1, <2>2, SaveKeeps
<1>10. CASE \E s \in Ready(w, "spread") : Spread(w, s)
  BY <1>10, SpreadKeeps
<1>11. CASE \E s \in Ready(w, "renew") : Renew(w, s)
  BY <1>11, RenewKeeps
<1>13. CASE \E s \in Ready(w, "commit") : CommitInserted(w, s)
  BY <1>13, CommitKeeps
<1>15. CASE \E s \in Ready(w, "copyDefaults") : CopyDefaults(w, s)
  BY <1>15, CopyDefaultsKeeps
<1>16. CASE \E s \in Ready(w, "requireResult") : RequireResult(w, s)
  BY <1>16, RequireResultKeeps
<1>17. CASE \E s \in Ready(w, "importIndicator") : ImportIndicatorNow(w, s)
  BY <1>17, ImportIndicatorNowKeeps
<1>18. CASE \E s \in Ready(w, "walk") : Walk(w, s)
  BY <1>18, WalkKeeps
<1>19. CASE \E s \in Ready(w, "fixProject") : FixProject(w, s)
  BY <1>19, FixProjectKeeps
<1>20. CASE \E s \in Ready(w, "fixIndicator") : FixIndicator(w, s)
  BY <1>20, FixIndicatorKeeps
<1>21. CASE \E s \in Ready(w, "fixed") : Fixed(w, s)
  BY <1>21, FixedKeeps
<1>22. QED
  BY <1>1, <1>2, <1>3, <1>4, <1>5, <1>6, <1>7, <1>8, <1>9, <1>10, <1>11, <1>12, <1>13,
     <1>15, <1>16, <1>17, <1>18, <1>19, <1>20, <1>21 DEF WorkerStep

\* Every request, and everything that leaves the variables alone.
LEMMA CoreNext ==
    ASSUME Core, [Next]_vars
    PROVE  Core'
<1>1. CASE Next
  <2>1. PICK w \in Worker :
            \/ WorkerStep(w)
            \/ \E c \in Project : ImportResults(w, c)
            \/ \E c \in Project, r \in Result : ImportResult(w, c, r)
            \/ \E c \in Project, i \in Indicator : ImportIndicator(w, c, i)
            \/ \E p \in Authors, r \in Result : CreateResult(w, p, r)
            \/ \E p \in Authors, i \in Indicator : CreateIndicator(w, p, i)
            \/ \E p \in Authors, x \in Period : CreatePeriod(w, p, x)
            \/ \E p \in Authors, o \in Item : Edit(w, p, o)
            \/ \E p \in Authors : AddDefaultPeriod(w, p)
            \/ \E p \in Project : FixMissingPeriods(w, p)
            \/ Crash(w)
    BY <1>1 DEF Next
  <2>2. Authors \subseteq Project
    BY FrameworkAssumption
  <2>3. CASE WorkerStep(w)
    BY <2>3, CoreWorkerStep
  <2>4. CASE \E c \in Project : ImportResults(w, c)
    BY <2>4, ImportResultsKeeps
  <2>5. CASE \E c \in Project, r \in Result : ImportResult(w, c, r)
    BY <2>5, ImportResultKeeps
  <2>6. CASE \E c \in Project, i \in Indicator : ImportIndicator(w, c, i)
    BY <2>6, ImportIndicatorKeeps
  <2>7. CASE \E p \in Authors, r \in Result : CreateResult(w, p, r)
    BY <2>2, <2>7, CreateResultKeeps
  <2>8. CASE \E p \in Authors, i \in Indicator : CreateIndicator(w, p, i)
    BY <2>2, <2>8, CreateIndicatorKeeps
  <2>9. CASE \E p \in Authors, x \in Period : CreatePeriod(w, p, x)
    BY <2>2, <2>9, CreatePeriodKeeps
  <2>10. CASE \E p \in Authors, o \in Item : Edit(w, p, o)
    BY <2>2, <2>10, EditKeeps
  <2>11. CASE \E p \in Authors : AddDefaultPeriod(w, p)
    BY <2>2, <2>11, AddDefaultPeriodKeeps
  <2>12. CASE \E p \in Project : FixMissingPeriods(w, p)
    BY <2>12, FixMissingPeriodsKeeps
  <2>13. CASE Crash(w)
    BY <2>13, CrashKeeps
  <2>14. QED
    BY <2>1, <2>3, <2>4, <2>5, <2>6, <2>7, <2>8, <2>9, <2>10, <2>11, <2>12, <2>13
<1>2. CASE UNCHANGED vars
  <2>1. /\ UNCHANGED <<parentOf, text, linked, defaultsAt, todo, imported, chosen, repair>>
        /\ UNCHANGED <<inserted, overlooked, own, root, edits, crashes>>
    BY <1>2 DEF vars
  <2>2. Rows' = Rows /\ \A w : Pending(w)' = Pending(w)
    BY <2>1 DEF Rows, Pending
  <2>3. TypeOK' /\ RowsConsistent'
    BY <2>1, <2>2 DEF Core, TypeOK, RowsConsistent, BelowAll, Below
  <2>4. StepsReady'
    <3>1. SUFFICES ASSUME NEW w \in Worker, NEW s \in Pending(w)'
                   PROVE  StepReady(w, s)'
      BY DEF StepsReady
    <3>2. StepReady(w, s) /\ Pending(w)' = Pending(w)
      BY <2>2, <3>1 DEF Core, StepsReady
    <3>3. QED
      BY <2>1, <2>2, <3>2, ReadyStays DEF StepReady, ToCommit, NewRow
  <2>5. CreatedOnce' /\ InOrder'
    BY <2>1, <2>2 DEF Core, CreatedOnce, InOrder
  <2>6. QED
    BY <2>3, <2>4, <2>5 DEF Core
<1>3. QED
  BY <1>1, <1>2

\* Core is inductive.
THEOREM CoreInvariant == Spec => []Core
<1>1. Init => Core
  BY CoreInit
<1>2. Core /\ [Next]_vars => Core'
  BY CoreNext
<1>3. QED
  BY <1>1, <1>2, PTL DEF Spec

(* What the steps of a worker do ---------------------------------------------*)

\* What only requests bring.
Asked == {"commit", "readResults", "requireResult", "copyDefaults", "fixed"}

\* The steps that results are imported with, and what the other steps do.
OfResults == Takings \cup {"readResults", "requireResult", "copyDefaults"}
OfNoResult(M) ==
    /\ \A a \in M : a.op \notin Takings
    /\ \A x \in Rows' \ Rows : x[2] \notin Result
    /\ imported' = imported

\* The step s of w is done, brings M, and takes nothing away.
Goes(w, s, M) ==
    /\ Moves(w, s, M) /\ s \in Pending(w) /\ Frame
    /\ Rows \subseteq Rows' /\ linked \subseteq linked' /\ defaultsAt \subseteq defaultsAt'
    /\ imported' \subseteq imported \cup {c \in Project : HasImportedResults(c)}
    /\ \A a \in M : a.op \notin Asked
    /\ s.op \in OfResults \/ OfNoResult(M)

\* The request of w ends in an IntegrityError.
Halts(w, s) ==
    /\ s.op = "insertResult" /\ <<s.at, s.what>> \in Rows
    /\ todo'[w] = <<>> /\ Pending(w)' = {}
    /\ \A v \in Worker : v # w => todo'[v] = todo[v] /\ Pending(v)' = Pending(v)
    /\ RowsKept /\ Unwritten /\ Frame

\* The transaction of w ends.
Commits(w, s) == s \in Ready(w, "commit") /\ CommitInserted(w, s)

ResultSteps(w) ==
    \/ \E s \in Ready(w, "readResults") : ReadResults(w, s)
    \/ \E s \in Ready(w, "takeResult") : TakeResult(w, s)
    \/ \E s \in Ready(w, "offer") : Offer(w, s)
    \/ \E s \in Ready(w, "insertResult") : InsertResult(w, s)
    \/ \E s \in Ready(w, "copyDefaults") : CopyDefaults(w, s)
    \/ \E s \in Ready(w, "requireResult") : RequireResult(w, s)

OtherSteps(w) ==
    \/ \E s \in Ready(w, "readIndicators") : ReadIndicators(w, s)
    \/ \E s \in Ready(w, "readPeriods") : ReadPeriods(w, s)
    \/ \E s \in Ready(w, "copyIndicator") : CopyIndicator(w, s)
    \/ \E s \in Ready(w, "copyPeriod") : CopyPeriod(w, s)
    \/ \E s \in Ready(w, "saveAgain") : Save(w, s)
    \/ \E s \in Ready(w, "save") : SaveEdited(w, s)
    \/ \E s \in Ready(w, "spread") : Spread(w, s)
    \/ \E s \in Ready(w, "renew") : Renew(w, s)
    \/ \E s \in Ready(w, "importIndicator") : ImportIndicatorNow(w, s)
    \/ \E s \in Ready(w, "walk") : Walk(w, s)
    \/ \E s \in Ready(w, "fixProject") : FixProject(w, s)
    \/ \E s \in Ready(w, "fixIndicator") : FixIndicator(w, s)
    \/ \E s \in Ready(w, "fixed") : Fixed(w, s)

\* The steps of a worker, in the three groups.
LEMMA WorkerStepKinds ==
    ASSUME NEW w, WorkerStep(w)
    PROVE  ResultSteps(w) \/ OtherSteps(w) \/ \E s : Commits(w, s)
BY DEF WorkerStep, ResultSteps, OtherSteps, Commits

\* Steps that only read, and steps that write rows.
LEMMA GoesReading ==
    ASSUME NEW w, NEW s \in Pending(w), NEW M, Moves(w, s, M), RowsKept, Unwritten, Frame,
           \A a \in M : a.op \notin Asked,
           s.op \in OfResults \/ \A a \in M : a.op \notin Takings
    PROVE  Goes(w, s, M)
BY DEF Goes, RowsKept, Unwritten, OfNoResult

\* A step that writes rows: copies, new texts, or rows that are no copies.
LEMMA GoesWriting ==
    ASSUME NEW w, NEW s \in Pending(w), NEW M, Moves(w, s, M), OnlyRows,
           \/ RowsKept
           \/ \E p, o, D : CopiesMade(p, o, D)
           \/ Rows \subseteq Rows' /\ linked' = linked,
           \A a \in M : a.op \notin Asked,
           \/ s.op \in OfResults
           \/ (\A a \in M : a.op \notin Takings) /\ \A x \in Rows' \ Rows : x[2] \notin Result
    PROVE  Goes(w, s, M)
<1>1. Rows \subseteq Rows' /\ linked \subseteq linked'
  BY DEF RowsKept, CopiesMade
<1>2. QED
  BY <1>1 DEF Goes, OnlyRows, OfNoResult

\* What the steps that are brought are.
LEMMA GoesOps ==
    \A op \in {"takeResult", "offer", "insertResult", "readIndicators", "copyIndicator",
               "saveAgain", "readPeriods", "copyPeriod", "importIndicator", "spread",
               "renew", "walk", "fixProject", "fixIndicator"} :
        op \notin Asked /\ (op \notin {"takeResult", "offer", "insertResult"} => op \notin Takings)
BY DEF Asked, Takings

\* The steps of CopyParts.
LEMMA CopyPartsOps ==
    ASSUME NEW c, NEW o, NEW op
    PROVE  /\ \A a \in CopyParts(c, o, op) : a.op = op /\ a.at = c /\ a.what \in PartsAt(parentOf[c], o)
           /\ \A x \in PartsAt(parentOf[c], o) : \E a \in CopyParts(c, o, op) : a.what = x
<1> DEFINE S == PartsAt(parentOf[c], o)
<1>1. CopyParts(c, o, op) = ForRows(op, c, S, parentOf[c])
  BY DEF CopyParts, ForRows
<1> HIDE DEF S
<1>2. QED
  BY <1>1, ForRowsFacts DEF S

\* The steps that results are imported with go, but for the IntegrityError.
LEMMA ResultStepGoes ==
    ASSUME Core, NEW w \in Worker, ResultSteps(w)
    PROVE  \E s \in Pending(w) : Halts(w, s) \/ \E M : Goes(w, s, M)
<1>1. CASE \E s \in Ready(w, "readResults") : ReadResults(w, s)
  <2>1. PICK s \in Ready(w, "readResults") : ReadResults(w, s)
    BY <1>1
  <2> DEFINE p == parentOf[s.at]
             R == {x \in Result : <<p, x>> \in Rows}
             M == ForRows("takeResult", s.at, R, p)
  <2>2. RowsKept /\ Moves(w, s, M) /\ Unwritten /\ Frame /\ s \in Pending(w) /\ s.op = "readResults"
    BY <2>1, ReadResultsKeeps, ReadyStep
  <2>3. \A a \in M : a.op = "takeResult"
    <3> HIDE DEF p, R
    <3>1. QED
      BY ForRowsFacts
  <2> HIDE DEF M
  <2>4. QED
    BY <2>2, <2>3, GoesReading, GoesOps DEF OfResults, Takings
<1>2. CASE \E s \in Ready(w, "takeResult") : TakeResult(w, s)
  <2>1. PICK s \in Ready(w, "takeResult") : TakeResult(w, s)
    BY <1>2
  <2> DEFINE M == IF <<s.at, s.what>> \in linked THEN {}
                  ELSE {Do("insertResult", s.at, s.what, s.text)}
  <2>2. RowsKept /\ Moves(w, s, M) /\ Unwritten /\ Frame /\ s \in Pending(w) /\ s.op = "takeResult"
    BY <2>1, TakeResultKeeps, ReadyStep
  <2>3. \A a \in M : a.op = "insertResult"
    BY DoFields
  <2> HIDE DEF M
  <2>4. QED
    BY <2>2, <2>3, GoesReading, GoesOps DEF OfResults, Takings
<1>3. CASE \E s \in Ready(w, "offer") : Offer(w, s)
  <2>1. PICK s \in Ready(w, "offer") : Offer(w, s)
    BY <1>3
  <2> DEFINE M == IF HasImportedResults(s.at)
                  THEN {Do("insertResult", s.at, s.what, s.text)} ELSE {}
  <2>2. RowsKept /\ Moves(w, s, M) /\ Unwritten /\ Frame /\ s \in Pending(w) /\ s.op = "offer"
    BY <2>1, OfferKeeps, ReadyStep
  <2>3. \A a \in M : a.op = "insertResult"
    BY DoFields
  <2> HIDE DEF M
  <2>4. QED
    BY <2>2, <2>3, GoesReading, GoesOps DEF OfResults, Takings
<1>4. CASE \E s \in Ready(w, "insertResult") : InsertResult(w, s)
  <2>1. PICK s \in Ready(w, "insertResult") : InsertResult(w, s)
    BY <1>4
  <2> DEFINE F == ForProjects("offer", Children(s.at), s.what, s.text)
             b == Do("readIndicators", s.at, s.what, 0)
             M == F \cup {b}
  <2>2. s \in Pending(w) /\ s.op = "insertResult"
    BY <2>1, ReadyStep
  <2>3. CASE <<s.at, s.what>> \in Rows
    <3>1. todo' = [todo EXCEPT ![w] = <<>>] /\ Unwritten /\ Frame
      BY <2>1, <2>3, InsertResultKeeps
    <3>2. parentOf' = parentOf /\ text' = text /\ linked' = linked
      BY <3>1 DEF Unwritten, Frame
    <3>3. todo' \in [Worker -> Lists] => OthersTyped'
      BY <3>1, <3>2, OthersStay DEF Unwritten, Core, TypeOK, Rows
    <3>4. /\ RowsKept /\ todo'[w] = <<>> /\ Pending(w)' = {}
          /\ \A v \in Worker : v # w => todo'[v] = todo[v] /\ Pending(v)' = Pending(v)
      BY <3>1, <3>2, <3>3, CoreAfterStop DEF Frame
    <3>5. QED
      BY <2>2, <2>3, <3>1, <3>4 DEF Halts
  <2>4. CASE <<s.at, s.what>> \notin Rows
    <3>1. Moves(w, s, M) /\ OnlyRows /\ CopiesMade(s.at, s.what, {s.at})
      BY <2>1, <2>4, InsertResultKeeps
    <3>2. \A a \in F : a.op = "offer"
      <4> DEFINE C == Children(s.at)
      <4> HIDE DEF C
      <4>1. QED
        BY ForProjectsFacts DEF C
    <3>3. b.op = "readIndicators"
      BY DoFields
    <3> HIDE DEF F, b
    <3>4. \A a \in M : a.op \notin Asked
      BY <3>2, <3>3, GoesOps
    <3> HIDE DEF M
    <3>5. QED
      BY <2>2, <3>1, <3>4, GoesWriting DEF OfResults, Takings
  <2>5. QED
    BY <2>3, <2>4
<1>5. CASE \E s \in Ready(w, "copyDefaults") : CopyDefaults(w, s)
  <2>1. PICK s \in Ready(w, "copyDefaults") : CopyDefaults(w, s)
    BY <1>5
  <2> DEFINE M == {}
  <2>2. Moves(w, s, M) /\ RowsKept /\ Frame /\ s \in Pending(w) /\ s.at \in Project /\ s.op = "copyDefaults"
    BY <2>1, CopyDefaultsKeeps, ReadyStep
  <2>3. /\ defaultsAt \subseteq defaultsAt'
        /\ imported' \subseteq imported \cup {c \in Project : HasImportedResults(c)}
    BY <2>1, <2>2 DEF CopyDefaults
  <2>4. \A a \in M : a.op \notin Asked
    OBVIOUS
  <2> HIDE DEF M
  <2>5. QED
    BY <2>2, <2>3, <2>4 DEF Goes, RowsKept, OfResults
<1>6. CASE \E s \in Ready(w, "requireResult") : RequireResult(w, s)
  <2>1. PICK s \in Ready(w, "requireResult") : RequireResult(w, s)
    BY <1>6
  <2> DEFINE r == Owner[s.what]
             D == ReachOfResults(s.at)
             M == {Do("importIndicator", s.at, s.what, s.text)}
  <2>2. /\ Moves(w, s, M) /\ OnlyRows /\ s \in Pending(w) /\ s.op = "requireResult"
        /\ RowsKept \/ CopiesMade(s.at, r, D)
    BY <2>1, RequireResultKeeps, ReadyStep
  <2>3. \A a \in M : a.op = "importIndicator"
    BY DoFields
  <2> HIDE DEF M, D, r
  <2>4. QED
    BY <2>2, <2>3, GoesWriting, GoesOps DEF OfResults, Takings
<1>7. QED
  BY <1>1, <1>2, <1>3, <1>4, <1>5, <1>6 DEF ResultSteps

\* The others go.
LEMMA OtherStepGoes ==
    ASSUME Core, NEW w \in Worker, OtherSteps(w)
    PROVE  \E s \in Pending(w) : s.op \notin OfResults /\ \E M : Goes(w, s, M)
<1>1. CASE \E s \in Ready(w, "readIndicators") : ReadIndicators(w, s)
  <2>1. PICK s \in Ready(w, "readIndicators") : ReadIndicators(w, s)
    BY <1>1
  <2> DEFINE M == CopyParts(s.at, s.what, "copyIndicator")
  <2>2. RowsKept /\ Moves(w, s, M) /\ Unwritten /\ Frame /\ s \in Pending(w)
    BY <2>1, ReadIndicatorsKeeps, ReadyStep
  <2>3. \A a \in M : a.op = "copyIndicator"
    BY CopyPartsOps
  <2> HIDE DEF M
  <2>4. s \in Pending(w) /\ s.op \notin OfResults
    BY <2>1, ReadyStep DEF OfResults, Takings
  <2>5. QED
    BY <2>4, <2>2, <2>3, GoesReading, GoesOps
<1>2. CASE \E s \in Ready(w, "readPeriods") : ReadPeriods(w, s)
  <2>1. PICK s \in Ready(w, "readPeriods") : ReadPeriods(w, s)
    BY <1>2
  <2> DEFINE M == CopyParts(s.at, s.what, "copyPeriod")
  <2>2. RowsKept /\ Moves(w, s, M) /\ Unwritten /\ Frame /\ s \in Pending(w)
    BY <2>1, ReadPeriodsKeeps, ReadyStep
  <2>3. \A a \in M : a.op = "copyPeriod"
    BY CopyPartsOps
  <2> HIDE DEF M
  <2>4. s \in Pending(w) /\ s.op \notin OfResults
    BY <2>1, ReadyStep DEF OfResults, Takings
  <2>5. QED
    BY <2>4, <2>2, <2>3, GoesReading, GoesOps
<1>3. CASE \E s \in Ready(w, "copyIndicator") : CopyIndicator(w, s)
  <2>1. PICK s \in Ready(w, "copyIndicator") : CopyIndicator(w, s)
    BY <1>3
  <2> DEFINE M == {Do("saveAgain", s.at, s.what, s.text)} \cup
                  (IF <<s.at, s.what>> \in linked THEN {}
                   ELSE {Do("readPeriods", s.at, s.what, 0)})
  <2>2. /\ Moves(w, s, M) /\ OnlyRows /\ s \in Pending(w)
        /\ RowsKept \/ CopiesMade(s.at, s.what, Reach(s.at, Owner[s.what]))
    BY <2>1, CopyIndicatorKeeps, ReadyStep
  <2>3. \A a \in M : a.op \in {"saveAgain", "readPeriods"}
    BY DoFields
  <2> HIDE DEF M
  <2>4. \A a \in M : a.op \notin Asked /\ a.op \notin Takings
    BY <2>3, GoesOps
  <2>5. s.what \notin Result
    BY <2>1, ReadyStep, Owners DEF StepReady, Copyings
  <2>6. \A x \in Rows' \ Rows : x[2] \notin Result
    BY <2>2, <2>5 DEF RowsKept, CopiesMade
  <2>7. s \in Pending(w) /\ s.op \notin OfResults
    BY <2>1, ReadyStep DEF OfResults, Takings
  <2>8. QED
    BY <2>7, <2>2, <2>4, <2>6, GoesWriting
<1>4. CASE \E s \in Ready(w, "copyPeriod") : CopyPeriod(w, s)
  <2>1. PICK s \in Ready(w, "copyPeriod") : CopyPeriod(w, s)
    BY <1>4
  <2> DEFINE M == {}
  <2>2. /\ Moves(w, s, M) /\ OnlyRows /\ s \in Pending(w)
        /\ RowsKept \/ CopiesMade(s.at, s.what, Reach(s.at, Owner[s.what]))
    BY <2>1, CopyPeriodKeeps, ReadyStep
  <2>3. \A a \in M : FALSE
    OBVIOUS
  <2> HIDE DEF M
  <2>4. s.what \notin Result
    <3>1. s.op = "copyPeriod" /\ StepReady(w, s)
      BY <2>1, ReadyStep
    <3>2. s.what \in Period
      BY <3>1 DEF StepReady
    <3>3. QED
      BY <3>2, FrameworkAssumption
  <2>5. \A x \in Rows' \ Rows : x[2] \notin Result
    BY <2>2, <2>4 DEF RowsKept, CopiesMade
  <2>6. s \in Pending(w) /\ s.op \notin OfResults
    BY <2>1, ReadyStep DEF OfResults, Takings
  <2>7. QED
    BY <2>6, <2>2, <2>3, <2>5, GoesWriting
<1>5. CASE \E s \in Ready(w, "saveAgain") : Save(w, s)
  <2>1. PICK s \in Ready(w, "saveAgain") : Save(w, s)
    BY <1>5
  <2> DEFINE M == {Do("spread", s.at, s.what, s.text)}
  <2>2. <<s.at, s.what>> \in Rows /\ s \in Pending(w)
    BY <2>1, ReadyStep DEF StepReady
  <2>3. RowsKept /\ Moves(w, s, M) /\ OnlyRows
    BY <2>1, <2>2, SaveKeeps
  <2>4. \A a \in M : a.op = "spread"
    BY DoFields
  <2> HIDE DEF M
  <2>5. s \in Pending(w) /\ s.op \notin OfResults
    BY <2>1, ReadyStep DEF OfResults, Takings
  <2>6. QED
    BY <2>5, <2>2, <2>3, <2>4, GoesWriting, GoesOps DEF RowsKept
<1>6. CASE \E s \in Ready(w, "spread") : Spread(w, s)
  <2>1. PICK s \in Ready(w, "spread") : Spread(w, s)
    BY <1>6
  <2> DEFINE link == IF s.what \in Result THEN s.what ELSE Owner[s.what]
             S == {x \in Children(s.at) : <<x, link>> \in linked}
             M == ForProjects("renew", S, s.what, s.text)
  <2>2. RowsKept /\ Moves(w, s, M) /\ Unwritten /\ Frame /\ s \in Pending(w)
    BY <2>1, SpreadKeeps, ReadyStep
  <2> HIDE DEF S
  <2>3. \A a \in M : a.op = "renew"
    BY ForProjectsFacts
  <2> HIDE DEF M
  <2>4. s \in Pending(w) /\ s.op \notin OfResults
    BY <2>1, ReadyStep DEF OfResults, Takings
  <2>5. QED
    BY <2>4, <2>2, <2>3, GoesReading, GoesOps
<1>7. CASE \E s \in Ready(w, "renew") : Renew(w, s)
  <2>1. PICK s \in Ready(w, "renew") : Renew(w, s)
    BY <1>7
  <2> DEFINE M == {Do("spread", s.at, s.what, s.text)}
             N == {}
  <2>2. s \in Pending(w)
    BY <2>1, ReadyStep
  <2>3. /\ RowsKept /\ OnlyRows
        /\ Moves(w, s, M) \/ Moves(w, s, N)
    BY <2>1, RenewKeeps
  <2>4. (\A a \in M : a.op = "spread") /\ (\A a \in N : a.op = "spread")
    BY DoFields
  <2> HIDE DEF M, N
  <2>5. s \in Pending(w) /\ s.op \notin OfResults
    BY <2>1, ReadyStep DEF OfResults, Takings
  <2>6. QED
    BY <2>5, <2>2, <2>3, <2>4, GoesWriting, GoesOps DEF RowsKept
<1>8. CASE \E s \in Ready(w, "importIndicator") : ImportIndicatorNow(w, s)
  <2>1. PICK s \in Ready(w, "importIndicator") : ImportIndicatorNow(w, s)
    BY <1>8
  <2> DEFINE M == IF <<s.at, s.what>> \in linked THEN {}
                  ELSE {Do("copyIndicator", s.at, s.what, s.text)}
  <2>2. RowsKept /\ Moves(w, s, M) /\ Unwritten /\ Frame /\ s \in Pending(w)
    BY <2>1, ImportIndicatorNowKeeps, ReadyStep
  <2>3. \A a \in M : a.op = "copyIndicator"
    BY DoFields
  <2> HIDE DEF M
  <2>4. s \in Pending(w) /\ s.op \notin OfResults
    BY <2>1, ReadyStep DEF OfResults, Takings
  <2>5. QED
    BY <2>4, <2>2, <2>3, GoesReading, GoesOps
<1>9. CASE \E s \in Ready(w, "walk") : Walk(w, s)
  <2>1. PICK s \in Ready(w, "walk") : Walk(w, s)
    BY <1>9
  <2> DEFINE S == IF Children(s.at) = {} THEN {s.at} ELSE Children(s.at)
             C == Children(s.at)
             F == ForProjects("fixProject", S, NoItem, 0)
             G == ForProjects("walk", C, NoItem, 0)
             M == F \cup G
  <2>2. RowsKept /\ Moves(w, s, M) /\ Unwritten /\ Frame /\ s \in Pending(w)
    BY <2>1, WalkKeeps, ReadyStep
  <2> HIDE DEF S, C
  <2>3. (\A a \in F : a.op = "fixProject") /\ (\A a \in G : a.op = "walk")
    BY ForProjectsFacts
  <2> HIDE DEF F, G
  <2>4. \A a \in M : a.op \notin Asked /\ a.op \notin Takings
    BY <2>3, GoesOps
  <2> HIDE DEF M
  <2>5. s \in Pending(w) /\ s.op \notin OfResults
    BY <2>1, ReadyStep DEF OfResults, Takings
  <2>6. QED
    BY <2>5, <2>2, <2>4, GoesReading
<1>10. CASE \E s \in Ready(w, "fixProject") : FixProject(w, s)
  <2>1. PICK s \in Ready(w, "fixProject") : FixProject(w, s)
    BY <1>10
  <2> DEFINE S == {x \in Indicator : <<s.at, x>> \in linked}
             M == ForItems("fixIndicator", s.at, S, 0)
  <2>2. RowsKept /\ Moves(w, s, M) /\ Unwritten /\ Frame /\ s \in Pending(w)
    BY <2>1, FixProjectKeeps, ReadyStep
  <2> HIDE DEF S
  <2>3. \A a \in M : a.op = "fixIndicator"
    BY ForItemsFacts
  <2> HIDE DEF M
  <2>4. s \in Pending(w) /\ s.op \notin OfResults
    BY <2>1, ReadyStep DEF OfResults, Takings
  <2>5. QED
    BY <2>4, <2>2, <2>3, GoesReading, GoesOps
<1>11. CASE \E s \in Ready(w, "fixIndicator") : FixIndicator(w, s)
  <2>1. PICK s \in Ready(w, "fixIndicator") : FixIndicator(w, s)
    BY <1>11
  <2> DEFINE Q == CopyParts(s.at, s.what, "copyPeriod")
             M == IF Cardinality(PartsAt(s.at, s.what)) =
                     Cardinality(PartsAt(parentOf[s.at], s.what))
                  THEN {} ELSE Q
  <2>2. RowsKept /\ Moves(w, s, M) /\ Unwritten /\ Frame /\ s \in Pending(w)
    BY <2>1, FixIndicatorKeeps, ReadyStep
  <2>3. \A a \in Q : a.op = "copyPeriod"
    BY CopyPartsOps
  <2> HIDE DEF Q
  <2>4. \A a \in M : a.op = "copyPeriod"
    BY <2>3
  <2> HIDE DEF M
  <2>5. s \in Pending(w) /\ s.op \notin OfResults
    BY <2>1, ReadyStep DEF OfResults, Takings
  <2>6. QED
    BY <2>5, <2>2, <2>4, GoesReading, GoesOps
<1>12. CASE \E s \in Ready(w, "fixed") : Fixed(w, s)
  <2>1. PICK s \in Ready(w, "fixed") : Fixed(w, s)
    BY <1>12
  <2> DEFINE M == {}
  <2>2. /\ Moves(w, s, M) /\ RowsKept /\ Frame /\ s \in Pending(w)
        /\ UNCHANGED <<text, linked, defaultsAt, imported, chosen, own, edits>>
    BY <2>1, FixedKeeps, ReadyStep
  <2>3. \A a \in M : a.op \notin Asked \cup Takings
    OBVIOUS
  <2> HIDE DEF M
  <2>4. s \in Pending(w) /\ s.op \notin OfResults
    BY <2>1, ReadyStep DEF OfResults, Takings
  <2>5. QED
    BY <2>4, <2>2, <2>3 DEF Goes, RowsKept, OfNoResult
<1>13. CASE \E s \in Ready(w, "save") : SaveEdited(w, s)
  <2>1. PICK s \in Ready(w, "save") : SaveEdited(w, s)
    BY <1>13
  <2> DEFINE M == {Do("spread", s.at, s.what, s.text)}
  <2>2. <<s.at, s.what>> \in Rows /\ s \in Pending(w)
    BY <2>1, ReadyStep DEF StepReady
  <2>3. RowsKept /\ Moves(w, s, M) /\ OnlyRows
    BY <2>1, <2>2, SaveKeeps
  <2>4. \A a \in M : a.op = "spread"
    BY DoFields
  <2> HIDE DEF M
  <2>5. s \in Pending(w) /\ s.op \notin OfResults
    BY <2>1, ReadyStep DEF OfResults, Takings
  <2>6. QED
    BY <2>5, <2>2, <2>3, <2>4, GoesWriting, GoesOps DEF RowsKept
<1>14. QED
  BY <1>1, <1>2, <1>3, <1>4, <1>5, <1>6, <1>7, <1>8, <1>9, <1>10, <1>11, <1>12, <1>13 DEF OtherSteps

\* Every step of a worker ends its request or its transaction, or goes on as Goes
\* says.
LEMMA WorkerStepGoes ==
    ASSUME Core, NEW w \in Worker, WorkerStep(w)
    PROVE  \/ \E s \in Pending(w) : Halts(w, s) \/ \E M : Goes(w, s, M)
           \/ \E s : Commits(w, s)
BY WorkerStepKinds, ResultStepGoes, OtherStepGoes

(* One at a time --------------------------------------------------------------*)

\* What is pending after a step, and that nobody else is busy where requests come
\* one at a time.
LEMMA AfterMoving ==
    ASSUME Core, NEW w \in Worker, NEW s \in Pending(w), NEW M, Moves(w, s, M)
    PROVE  /\ \A t \in Pending(w)' : t \in M \/ (t \in Pending(w) /\ MayWait(parentOf, s, t))
           /\ \A t \in Pending(w) : t # s => t \in Pending(w)' /\ MayWait(parentOf, s, t)
           /\ M \subseteq Pending(w)'
           /\ \A v \in Worker : v # w => todo'[v] = todo[v] /\ Pending(v)' = Pending(v)
           /\ ~Idle(w) /\ parentOf' = parentOf
BY IdlePending DEF Moves, Core

\* Where requests come one at a time, nobody else is busy while one worker is.
LEMMA OthersIdle ==
    ASSUME Core, OneBusy, OneAtATime, NEW w \in Worker, NEW s \in Pending(w)
    PROVE  \A v \in Worker : v # w => Idle(v) /\ Pending(v) = {}
<1>1. ~Idle(w)
  BY IdlePending DEF Core
<1>2. \A v \in Worker : v # w => Idle(v)
  BY <1>1 DEF OneBusy
<1>3. QED
  BY <1>2, IdlePending DEF Core

\* One busy worker stays the only one.
LEMMA OneBusyKept ==
    ASSUME OneBusy, NEW w \in Worker, parentOf' = parentOf,
           \A v \in Worker : v # w => todo'[v] = todo[v],
           ~Idle(w) \/ (OneAtATime => \A v \in Worker : Idle(v))
    PROVE  OneBusy'
<1>1. SUFFICES ASSUME OneAtATime, NEW v \in Worker, NEW u \in Worker, v # u
               PROVE  todo'[v] = <<>> \/ todo'[u] = <<>>
  BY DEF OneBusy, OneAtATime, Idle
<1>2. \A x \in Worker : x # w => todo'[x] = <<>>
  BY <1>1 DEF OneBusy, Idle
<1>3. QED
  BY <1>1, <1>2

\* A list of steps is well asked for if it opens a transaction as it should, inserts
\* what is not there, and reads before it ends an import.
WellAsked(w, Q) ==
    /\ Asks(w, Q) /\ crashes' = crashes
    /\ \A a \in Q : a.op = "commit" => Opens(w, a.at, a.what)
    /\ \A a \in Q : a.op \in Insertions => <<a.at, a.what>> \notin Rows
    /\ \A a \in Q : a.op = "copyDefaults" => \E b \in Q : b.op = "readResults" /\ b.at = a.at

Requests(w) ==
    \/ \E c \in Project : ImportResults(w, c)
    \/ \E c \in Project, r \in Result : ImportResult(w, c, r)
    \/ \E c \in Project, i \in Indicator : ImportIndicator(w, c, i)
    \/ \E p \in Authors, r \in Result : CreateResult(w, p, r)
    \/ \E p \in Authors, i \in Indicator : CreateIndicator(w, p, i)
    \/ \E p \in Authors, x \in Period : CreatePeriod(w, p, x)
    \/ \E p \in Authors, o \in Item : Edit(w, p, o)
    \/ \E p \in Authors : AddDefaultPeriod(w, p)
    \/ \E p \in Project : FixMissingPeriods(w, p)

\* Steps that are not special need nothing to be well asked for.
LEMMA PlainAsked ==
    ASSUME NEW w, NEW Q, Asks(w, Q), crashes' = crashes,
           \A a \in Q : a.op \notin {"commit", "copyDefaults"} \cup Insertions
    PROVE  WellAsked(w, Q)
BY DEF WellAsked

\* All requests are well asked for.
LEMMA RequestAsks ==
    ASSUME Core, NEW w \in Worker, Requests(w)
    PROVE  \E Q : WellAsked(w, Q)
<1>0. Authors \subseteq Project
  BY FrameworkAssumption
<1>1. CASE \E c \in Project : ImportResults(w, c)
  <2>1. PICK c \in Project : ImportResults(w, c)
    BY <1>1
  <2> DEFINE a == Do("readResults", c, NoItem, 0)
             b == Do("copyDefaults", c, NoItem, 0)
             Q == {a, b}
  <2>2. Asks(w, Q) /\ UNCHANGED <<defaultsAt, crashes>>
    BY <2>1, ImportResultsKeeps
  <2>3. a.op = "readResults" /\ a.at = c /\ b.op = "copyDefaults" /\ b.at = c
    BY DoFields
  <2> HIDE DEF a, b
  <2>4. \A d \in Q : d = a \/ d = b
    OBVIOUS
  <2>5. a \in Q
    OBVIOUS
  <2> HIDE DEF Q
  <2>6. WellAsked(w, Q)
    BY <2>2, <2>3, <2>4, <2>5 DEF WellAsked, Insertions
  <2>7. QED
    BY <2>6
<1>2. CASE \E c \in Project, r \in Result : ImportResult(w, c, r)
  <2>1. PICK c \in Project, r \in Result : ImportResult(w, c, r)
    BY <1>2
  <2> DEFINE a == Do("insertResult", c, r, text[<<parentOf[c], r>>])
             Q == {a}
  <2>2. /\ Asks(w, Q) /\ UNCHANGED <<defaultsAt, crashes>>
        /\ AtParent(c, r) /\ <<c, r>> \notin linked
    BY <2>1, ImportResultKeeps
  <2>3. a.op = "insertResult" /\ a.at = c /\ a.what = r
    BY DoFields
  <2>4. <<c, r>> \notin Rows
    BY <2>2, NoneBelow DEF Core
  <2> HIDE DEF a
  <2>5. \A d \in Q : d = a
    OBVIOUS
  <2> HIDE DEF Q
  <2>6. WellAsked(w, Q)
    BY <2>2, <2>3, <2>4, <2>5 DEF WellAsked, Insertions
  <2>7. QED
    BY <2>6
<1>3. CASE \E c \in Project, i \in Indicator : ImportIndicator(w, c, i)
  <2>1. PICK c \in Project, i \in Indicator : ImportIndicator(w, c, i)
    BY <1>3
  <2> DEFINE a == Do("requireResult", c, i, text[<<parentOf[c], i>>])
             Q == {a}
  <2>2. Asks(w, Q) /\ UNCHANGED <<defaultsAt, crashes>>
    BY <2>1, ImportIndicatorKeeps
  <2>3. \A d \in Q : d.op = "requireResult"
    BY DoFields
  <2> HIDE DEF Q
  <2>4. QED
    BY <2>2, <2>3, PlainAsked DEF Insertions
<1>4. CASE \E p \in Authors, r \in Result : CreateResult(w, p, r)
  <2>1. PICK p \in Project, r \in Result : CreateResult(w, p, r)
    BY <1>0, <1>4
  <2> DEFINE a == Do("commit", p, r, 0)
             Q == {a}
  <2>2. Asks(w, Q) /\ UNCHANGED <<defaultsAt, crashes>> /\ Opens(w, p, r)
    BY <2>1, CreateResultKeeps
  <2>3. a.op = "commit" /\ a.at = p /\ a.what = r
    BY DoFields
  <2> HIDE DEF a
  <2>4. \A d \in Q : d = a
    OBVIOUS
  <2> HIDE DEF Q
  <2>5. WellAsked(w, Q)
    BY <2>2, <2>3, <2>4 DEF WellAsked, Insertions
  <2>6. QED
    BY <2>5
<1>5. CASE \E p \in Authors, i \in Indicator : CreateIndicator(w, p, i)
  <2>1. PICK p \in Project, i \in Indicator : CreateIndicator(w, p, i)
    BY <1>0, <1>5
  <2> DEFINE a == Do("commit", p, i, 0)
             Q == {a}
  <2>2. Asks(w, Q) /\ UNCHANGED <<defaultsAt, crashes>> /\ Opens(w, p, i)
    BY <2>1, CreateIndicatorKeeps
  <2>3. a.op = "commit" /\ a.at = p /\ a.what = i
    BY DoFields
  <2> HIDE DEF a
  <2>4. \A d \in Q : d = a
    OBVIOUS
  <2> HIDE DEF Q
  <2>5. WellAsked(w, Q)
    BY <2>2, <2>3, <2>4 DEF WellAsked, Insertions
  <2>6. QED
    BY <2>5
<1>6. CASE \E p \in Authors, x \in Period : CreatePeriod(w, p, x)
  <2>1. PICK p \in Project, i \in Period : CreatePeriod(w, p, i)
    BY <1>0, <1>6
  <2> DEFINE a == Do("commit", p, i, 0)
             Q == {a}
  <2>2. Asks(w, Q) /\ UNCHANGED <<defaultsAt, crashes>> /\ Opens(w, p, i)
    BY <2>1, CreatePeriodKeeps
  <2>3. a.op = "commit" /\ a.at = p /\ a.what = i
    BY DoFields
  <2> HIDE DEF a
  <2>4. \A d \in Q : d = a
    OBVIOUS
  <2> HIDE DEF Q
  <2>5. WellAsked(w, Q)
    BY <2>2, <2>3, <2>4 DEF WellAsked, Insertions
  <2>6. QED
    BY <2>5
<1>7. CASE \E p \in Authors, o \in Item : Edit(w, p, o)
  <2>1. PICK p \in Project, o \in Item : Edit(w, p, o)
    BY <1>0, <1>7
  <2> DEFINE Q == {Do("save", p, o, edits + 1)}
  <2>2. Asks(w, Q) /\ UNCHANGED <<defaultsAt, crashes>>
    BY <2>1, EditKeeps
  <2>3. \A d \in Q : d.op = "save"
    BY DoFields
  <2> HIDE DEF Q
  <2>4. QED
    BY <2>2, <2>3, PlainAsked DEF Insertions
<1>8. CASE \E p \in Authors : AddDefaultPeriod(w, p)
  <2>1. PICK p \in Project : AddDefaultPeriod(w, p)
    BY <1>0, <1>8
  <2> DEFINE Q == {}
  <2>2. Asks(w, Q) /\ UNCHANGED crashes /\ \A d \in Q : FALSE
    BY <2>1, AddDefaultPeriodKeeps
  <2> HIDE DEF Q
  <2>3. QED
    BY <2>2, PlainAsked
<1>9. CASE \E p \in Project : FixMissingPeriods(w, p)
  <2>1. PICK p \in Project : FixMissingPeriods(w, p)
    BY <1>9
  <2> DEFINE Q == {Do("walk", p, NoItem, 0), Do("fixed", p, NoItem, 0)}
  <2>2. Asks(w, Q) /\ UNCHANGED <<defaultsAt, crashes>>
    BY <2>1, FixMissingPeriodsKeeps
  <2>3. \A d \in Q : d.op \in {"walk", "fixed"}
    BY DoFields
  <2> HIDE DEF Q
  <2>4. QED
    BY <2>2, <2>3, PlainAsked DEF Insertions
<1>10. QED
  BY <1>1, <1>2, <1>3, <1>4, <1>5, <1>6, <1>7, <1>8, <1>9 DEF Requests

\* What happens is a step of a worker, a request, a crash or nothing.
LEMMA NextKinds ==
    ASSUME [Next]_vars
    PROVE  \/ \E w \in Worker : WorkerStep(w) \/ Requests(w) \/ Crash(w)
           \/ UNCHANGED vars
BY DEF Next, Requests

\* What requests one at a time and imports keep to.
Orders == OneBusy /\ ImportedHaveResults

\* A project that has imported results keeps them, and the next that is recorded
\* has them too.
LEMMA ImportedKept ==
    ASSUME ImportedHaveResults, linked \subseteq linked',
           imported' \subseteq imported \cup {c \in Project : HasImportedResults(c)}
    PROVE  ImportedHaveResults'
BY DEF ImportedHaveResults, HasImportedResults

\* Steps of a worker.
LEMMA OrdersAfterStep ==
    ASSUME Core, Orders, NEW w \in Worker, WorkerStep(w)
    PROVE  Orders'
<1>1. CASE \E s \in Pending(w) : Halts(w, s)
  <2>1. PICK s \in Pending(w) : Halts(w, s)
    BY <1>1
  <2>2. /\ parentOf' = parentOf /\ linked' = linked /\ imported' = imported
        /\ \A v \in Worker : v # w => todo'[v] = todo[v]
    BY <2>1 DEF Halts, Frame, Unwritten, RowsKept
  <2>3. ~Idle(w)
    BY IdlePending DEF Core
  <2>4. OneBusy'
    BY <2>2, <2>3, OneBusyKept DEF Orders
  <2>5. ImportedHaveResults'
    BY <2>2, ImportedKept DEF Orders
  <2>6. QED
    BY <2>4, <2>5 DEF Orders
<1>2. CASE \E s \in Pending(w) : \E M : Goes(w, s, M)
  <2>1. PICK s \in Pending(w) : \E M : Goes(w, s, M)
    BY <1>2
  <2>2. PICK M : Goes(w, s, M)
    BY <2>1
  <2>3. /\ Moves(w, s, M) /\ linked \subseteq linked'
        /\ imported' \subseteq imported \cup {c \in Project : HasImportedResults(c)}
    BY <2>2 DEF Goes
  <2>4. /\ \A v \in Worker : v # w => todo'[v] = todo[v]
        /\ ~Idle(w) /\ parentOf' = parentOf
    BY <2>3, AfterMoving
  <2>5. OneBusy'
    BY <2>4, OneBusyKept DEF Orders
  <2>6. ImportedHaveResults'
    BY <2>3, ImportedKept DEF Orders
  <2>7. QED
    BY <2>5, <2>6 DEF Orders
<1>3. CASE \E s : Commits(w, s)
  <2>1. PICK s \in Ready(w, "commit") : CommitInserted(w, s)
    BY <1>3 DEF Commits
  <2> DEFINE M == {}
  <2>2. /\ Moves(w, s, M) /\ linked \subseteq linked' /\ imported' = imported
        /\ s \in Pending(w)
    BY <2>1, CommitKeeps, ReadyStep
  <2> HIDE DEF M
  <2>3. /\ \A v \in Worker : v # w => todo'[v] = todo[v]
        /\ ~Idle(w) /\ parentOf' = parentOf
    BY <2>2, AfterMoving
  <2>4. OneBusy'
    BY <2>3, OneBusyKept DEF Orders
  <2>5. ImportedHaveResults'
    BY <2>2, ImportedKept DEF Orders
  <2>6. QED
    BY <2>4, <2>5 DEF Orders
<1>4. QED
  BY <1>1, <1>2, <1>3, WorkerStepGoes

\* Requests.
LEMMA OrdersAfterRequest ==
    ASSUME Core, Orders, NEW w \in Worker, NEW Q, WellAsked(w, Q)
    PROVE  Orders'
<1>1. /\ parentOf' = parentOf /\ linked' = linked /\ imported' = imported
      /\ \A v \in Worker : v # w => todo'[v] = todo[v]
      /\ OneAtATime => \A v \in Worker : Idle(v)
  BY DEF WellAsked, Asks
<1>2. OneBusy'
  BY <1>1, OneBusyKept DEF Orders
<1>3. ImportedHaveResults'
  BY <1>1, ImportedKept DEF Orders
<1>4. QED
  BY <1>2, <1>3 DEF Orders

\* Every step.
LEMMA OrdersNext ==
    ASSUME Core, Orders, [Next]_vars
    PROVE  Orders'
<1>1. CASE \E w \in Worker : WorkerStep(w)
  BY <1>1, OrdersAfterStep
<1>2. CASE \E w \in Worker : Requests(w)
  BY <1>2, RequestAsks, OrdersAfterRequest
<1>3. CASE \E w \in Worker : Crash(w)
  <2>1. PICK w \in Worker : Crash(w)
    BY <1>3
  <2>2. /\ parentOf' = parentOf /\ linked' = linked /\ imported' = imported
        /\ \A v \in Worker : v # w => todo'[v] = todo[v]
    BY <2>1, CrashKeeps
  <2>3. ~Idle(w)
    BY <2>1 DEF Crash
  <2>4. OneBusy'
    BY <2>2, <2>3, OneBusyKept DEF Orders
  <2>5. ImportedHaveResults'
    BY <2>2, ImportedKept DEF Orders
  <2>6. QED
    BY <2>4, <2>5 DEF Orders
<1>4. CASE UNCHANGED vars
  <2>1. UNCHANGED <<parentOf, linked, todo, imported>>
    BY <1>4 DEF vars
  <2>2. OneBusy'
    BY <2>1 DEF Orders, OneBusy, OneAtATime, Idle
  <2>3. ImportedHaveResults'
    BY <2>1, ImportedKept DEF Orders
  <2>4. QED
    BY <2>2, <2>3 DEF Orders
<1>5. QED
  BY <1>1, <1>2, <1>3, <1>4, NextKinds

(* What a transaction takes in ------------------------------------------------*)

\* Steps of a worker leave no transaction open where requests come one at a time.
LEMMA AllInsertedAfterStep ==
    ASSUME Core, Orders, NEW w \in Worker, WorkerStep(w)
    PROVE  AllInserted'
<1>1. SUFFICES ASSUME OneAtATime, parentOf' = parentOf, NEW v \in Worker,
                      NEW t \in Pending(v)', t.op = "commit"
               PROVE  FALSE
  <2>1. parentOf' = parentOf
    BY WorkerStepGoes, CommitKeeps DEF Halts, Goes, Moves, Frame, Commits
  <2>2. QED
    BY <2>1 DEF AllInserted, OneAtATime
<1>2. CASE \E s \in Pending(w) : Halts(w, s)
  BY <1>1, <1>2, OthersIdle DEF Halts, Orders
<1>3. CASE \E s \in Pending(w) : \E M : Goes(w, s, M)
  <2>1. PICK s \in Pending(w) : \E M : Goes(w, s, M)
    BY <1>3
  <2>2. PICK M : Goes(w, s, M)
    BY <2>1
  <2>3. Moves(w, s, M) /\ \A a \in M : a.op \notin Asked
    BY <2>2 DEF Goes
  <2>4. v = w
    BY <1>1, <2>3, AfterMoving, OthersIdle DEF Orders
  <2>5. t \notin M /\ MayWait(parentOf, s, t)
    BY <1>1, <2>3, <2>4, AfterMoving DEF Asked
  <2>6. QED
    BY <1>1, <2>5 DEF MayWait
<1>4. CASE \E s : Commits(w, s)
  <2>1. PICK s \in Ready(w, "commit") : CommitInserted(w, s)
    BY <1>4 DEF Commits
  <2>2. Pending(w)' = {} /\ s \in Pending(w)
    BY <2>1, CommitKeeps, ReadyStep
  <2>3. \A u \in Worker : u # w => Pending(u)' = Pending(u)
    BY <2>1, CommitKeeps DEF Moves
  <2>4. QED
    BY <1>1, <2>2, <2>3, OthersIdle DEF Orders
<1>5. QED
  BY <1>2, <1>3, <1>4, WorkerStepGoes

\* Requests.
LEMMA AllInsertedAfterRequest ==
    ASSUME NEW w \in Worker, NEW Q, WellAsked(w, Q)
    PROVE  AllInserted'
<1>1. /\ Pending(w)' = Q /\ parentOf' = parentOf /\ linked' = linked
      /\ OneAtATime => \A v \in Worker : v # w => Pending(v)' = {}
  BY DEF WellAsked, Asks
<1>2. SUFFICES ASSUME OneAtATime, NEW s \in Q, s.op = "commit",
                      NEW x \in inserted'[w], NEW c \in Project,
                      parentOf[c] = x[1], Linked(c, s.what)
               PROVE  <<c, x[2]>> \in inserted'[w]
  BY <1>1 DEF AllInserted, OneAtATime, Linked, HasImportedResults
<1>3. PICK D \in SUBSET Project, T \in SUBSET Item :
          /\ inserted'[w] = D \X T
          /\ \A d \in Project : parentOf[d] \in D /\ Linked(d, s.what) => d \in D
  BY <1>2 DEF WellAsked, Opens
<1>4. QED
  BY <1>2, <1>3

\* Every step.
LEMMA AllInsertedNext ==
    ASSUME Core, Orders, AllInserted, [Next]_vars
    PROVE  AllInserted'
<1>1. CASE \E w \in Worker : WorkerStep(w)
  BY <1>1, AllInsertedAfterStep
<1>2. CASE \E w \in Worker : Requests(w)
  BY <1>2, RequestAsks, AllInsertedAfterRequest
<1>3. CASE \E w \in Worker : Crash(w)
  <2>1. PICK w \in Worker : Crash(w)
    BY <1>3
  <2>2. /\ parentOf' = parentOf /\ Pending(w)' = {}
        /\ \A v \in Worker : v # w => Pending(v)' = Pending(v)
    BY <2>1, CrashKeeps
  <2>3. ~Idle(w)
    BY <2>1 DEF Crash
  <2>4. OneAtATime => \A v \in Worker : v # w => Pending(v) = {}
    BY <2>3, IdlePending DEF Orders, OneBusy, Core
  <2>5. OneAtATime' => \A v \in Worker : Pending(v)' = {}
    BY <2>2, <2>4 DEF OneAtATime
  <2>6. QED
    BY <2>5 DEF AllInserted
<1>4. CASE UNCHANGED vars
  <2>1. UNCHANGED <<parentOf, linked, inserted>> /\ \A w : Pending(w)' = Pending(w)
    BY <1>4 DEF vars, Pending
  <2>2. QED
    BY <2>1 DEF AllInserted, OneAtATime, Linked, HasImportedResults
<1>5. QED
  BY <1>1, <1>2, <1>3, <1>4, NextKinds

(* What is not there yet ------------------------------------------------------*)

\* What w's pending insertions insert is not there after the step s, if it is not
\* what the step inserts.
LEMMA NotYetKept ==
    ASSUME Core, Orders, NotYetThere, NEW w \in Worker, NEW s \in Pending(w), NEW M,
           Moves(w, s, M), \A a \in M : a.op \notin Asked,
           OneAtATime => \A a \in M : a.op \in Insertions => <<a.at, a.what>> \notin Rows',
           OneAtATime => \A t \in Pending(w) : t.op \in Insertions /\ MayWait(parentOf, s, t) =>
               <<t.at, t.what>> \notin Rows' \ Rows
    PROVE  NotYetThere'
<1>1. SUFFICES ASSUME OneAtATime, NEW v \in Worker, NEW t \in Pending(v)'
               PROVE  t.op \in Insertions => <<t.at, t.what>> \notin Rows'
  <2>1. parentOf' = parentOf
    BY AfterMoving
  <2>2. QED
    BY <2>1 DEF NotYetThere, OneAtATime
<1>2. v = w
  BY <1>1, AfterMoving, OthersIdle DEF Orders
<1>3. CASE t \in M
  BY <1>1, <1>3
<1>4. CASE t \notin M
  <2>1. t \in Pending(w) /\ MayWait(parentOf, s, t)
    BY <1>2, <1>4, AfterMoving
  <2>2. QED
    BY <1>1, <2>1 DEF NotYetThere
<1>5. QED
  BY <1>3, <1>4

\* Pending insertions are of results.
LEMMA InsertionsOfResults ==
    ASSUME Core, NEW w \in Worker, NEW t \in Pending(w), t.op \in Insertions
    PROVE  /\ t.what \in Result /\ t.at \in Project /\ parentOf[t.at] \in Project
           /\ AtParent(t.at, t.what)
<1>1. StepReady(w, t) /\ t \in Step
  BY StepsAreSteps DEF Core, StepsReady
<1>2. QED
  BY <1>1 DEF StepReady, Takings, Insertions, Step

\* Steps of a worker.
LEMMA NotYetAfterStep ==
    ASSUME Core, Orders, NotYetThere, NEW w \in Worker, WorkerStep(w)
    PROVE  NotYetThere'
<1>1. CASE OtherSteps(w)
  <2>1. PICK s \in Pending(w) : s.op \notin OfResults /\ \E M : Goes(w, s, M)
    BY <1>1, OtherStepGoes
  <2>2. PICK M : Goes(w, s, M)
    BY <2>1
  <2>3. /\ Moves(w, s, M) /\ \A a \in M : a.op \notin Asked /\ a.op \notin Takings
    BY <2>1, <2>2 DEF Goes, OfNoResult
  <2>4. \A x \in Rows' \ Rows : x[2] \notin Result
    BY <2>1, <2>2 DEF Goes, OfNoResult
  <2>5. \A t \in Pending(w) : t.op \in Insertions => <<t.at, t.what>> \notin Rows' \ Rows
    BY <2>4, InsertionsOfResults
  <2>6. \A a \in M : a.op \notin Insertions
    BY <2>3 DEF Takings, Insertions
  <2>7. QED
    BY <2>3, <2>5, <2>6, NotYetKept
<1>2. CASE \E s \in Ready(w, "readResults") : ReadResults(w, s)
  <2>1. PICK s \in Ready(w, "readResults") : ReadResults(w, s)
    BY <1>2
  <2> DEFINE p == parentOf[s.at]
             R == {x \in Result : <<p, x>> \in Rows}
             M == ForRows("takeResult", s.at, R, p)
  <2>2. RowsKept /\ Moves(w, s, M) /\ s \in Pending(w) /\ s.op = "readResults"
    BY <2>1, ReadResultsKeeps, ReadyStep
  <2>3. \A a \in M : a.op = "takeResult"
    <3> HIDE DEF p, R
    <3>1. QED
      BY ForRowsFacts
  <2> HIDE DEF M
  <2>4. \A a \in M : a.op \notin Asked /\ a.op \notin Insertions
    BY <2>3, GoesOps DEF Insertions
  <2>5. Rows' \ Rows = {}
    BY <2>2 DEF RowsKept
  <2>6. QED
    BY <2>2, <2>4, <2>5, NotYetKept
<1>3. CASE \E s \in Ready(w, "takeResult") : TakeResult(w, s)
  <2>1. PICK s \in Ready(w, "takeResult") : TakeResult(w, s)
    BY <1>3
  <2> DEFINE b == Do("insertResult", s.at, s.what, s.text)
             M == IF <<s.at, s.what>> \in linked THEN {} ELSE {b}
  <2>2. /\ RowsKept /\ Moves(w, s, M) /\ s \in Pending(w) /\ s.op = "takeResult"
        /\ StepReady(w, s) /\ s.at \in Project
    BY <2>1, TakeResultKeeps, ReadyStep
  <2>3. b.op = "insertResult" /\ b.at = s.at /\ b.what = s.what
    BY DoFields
  <2> HIDE DEF b
  <2>4. \A a \in M : a = b /\ <<s.at, s.what>> \notin linked
    OBVIOUS
  <2> HIDE DEF M
  <2>5. AtParent(s.at, s.what)
    BY <2>2 DEF StepReady, Takings
  <2>6. \A a \in M : <<a.at, a.what>> \notin Rows
    BY <2>2, <2>3, <2>4, <2>5, NoneBelow DEF Core
  <2>7. \A a \in M : a.op \notin Asked
    BY <2>3, <2>4, GoesOps
  <2>8. Rows' = Rows
    BY <2>2 DEF RowsKept
  <2>9. QED
    BY <2>2, <2>6, <2>7, <2>8, NotYetKept
<1>4. CASE \E s \in Ready(w, "offer") : Offer(w, s)
  <2>1. PICK s \in Ready(w, "offer") : Offer(w, s)
    BY <1>4
  <2> DEFINE b == Do("insertResult", s.at, s.what, s.text)
             M == IF HasImportedResults(s.at) THEN {b} ELSE {}
  <2>2. RowsKept /\ Moves(w, s, M) /\ s \in Pending(w) /\ s.op = "offer"
    BY <2>1, OfferKeeps, ReadyStep
  <2>3. b.op = "insertResult" /\ b.at = s.at /\ b.what = s.what
    BY DoFields
  <2> HIDE DEF b
  <2>4. \A a \in M : a = b
    OBVIOUS
  <2> HIDE DEF M
  <2>5. OneAtATime => <<s.at, s.what>> \notin Rows
    BY <2>2 DEF NotYetThere, Insertions
  <2>6. \A a \in M : a.op \notin Asked
    BY <2>3, <2>4, GoesOps
  <2>7. Rows' = Rows
    BY <2>2 DEF RowsKept
  <2>8. QED
    BY <2>2, <2>3, <2>4, <2>5, <2>6, <2>7, NotYetKept
<1>5. CASE \E s \in Ready(w, "insertResult") : InsertResult(w, s)
  <2>1. PICK s \in Ready(w, "insertResult") : InsertResult(w, s)
    BY <1>5
  <2> DEFINE C == Children(s.at)
             F == ForProjects("offer", C, s.what, s.text)
             b == Do("readIndicators", s.at, s.what, 0)
             M == F \cup {b}
  <2>2. s \in Pending(w) /\ s.op = "insertResult" /\ s.at \in Project
    BY <2>1, ReadyStep
  <2>3. CASE <<s.at, s.what>> \in Rows
    <3>1. todo' = [todo EXCEPT ![w] = <<>>] /\ Unwritten /\ Frame
      BY <2>1, <2>3, InsertResultKeeps
    <3>2. parentOf' = parentOf /\ ~OneAtATime
      BY <2>2, <2>3, <3>1 DEF Frame, NotYetThere, Insertions
    <3>3. QED
      BY <3>2 DEF NotYetThere, OneAtATime
  <2>4. CASE <<s.at, s.what>> \notin Rows
    <3>1. Moves(w, s, M) /\ CopiesMade(s.at, s.what, {s.at})
      BY <2>1, <2>4, InsertResultKeeps
    <3>2. b.op = "readIndicators"
      BY DoFields
    <3>3. \A c \in C : c \in BelowAll(s.at) /\ c # s.at
      BY <2>2, BelowAllFacts DEF Core, TypeOK, Children
    <3> HIDE DEF C
    <3>4. \A a \in F : a.op = "offer" /\ a.at \in C /\ a.what = s.what
      BY ForProjectsFacts
    <3> HIDE DEF F, b
    <3>5. \A a \in M : a.op \notin Asked
      BY <3>2, <3>4, GoesOps
    <3>6. \A a \in M : a.op \in Insertions => a \in F
      BY <3>2 DEF Insertions
    <3> HIDE DEF M
    <3>7. Rows' = Rows \cup {<<s.at, s.what>>}
      <4>1. {s.at} \X {s.what} = {<<s.at, s.what>>}
        OBVIOUS
      <4>2. QED
        BY <3>1, <4>1 DEF CopiesMade
    <3>8. \A d \in BelowAll(s.at) : <<d, s.what>> \notin Rows
      <4>1. AtParent(s.at, s.what) /\ <<s.at, s.what>> \notin linked
        BY <2>4, <3>1 DEF CopiesMade, Core, TypeOK
      <4>2. QED
        BY <2>2, <4>1, NoneBelow DEF Core
    <3>9. \A a \in M : a.op \in Insertions => <<a.at, a.what>> \notin Rows'
      BY <3>3, <3>4, <3>6, <3>7, <3>8
    <3>10. \A t \in Pending(w) : t.op \in Insertions /\ MayWait(parentOf, s, t) =>
               <<t.at, t.what>> \notin Rows' \ Rows
      BY <2>2, <3>7 DEF MayWait, Takings, Insertions
    <3>11. QED
      BY <2>2, <3>1, <3>5, <3>9, <3>10, NotYetKept
  <2>5. QED
    BY <2>3, <2>4
<1>6. CASE \E s : Commits(w, s)
  <2>1. PICK s \in Ready(w, "commit") : CommitInserted(w, s)
    BY <1>6 DEF Commits
  <2>2. /\ Pending(w)' = {} /\ s \in Pending(w) /\ parentOf' = parentOf
        /\ \A v \in Worker : v # w => Pending(v)' = Pending(v)
    BY <2>1, CommitKeeps, ReadyStep DEF Moves
  <2>3. OneAtATime' => \A v \in Worker : Pending(v)' = {}
    BY <2>2, OthersIdle DEF OneAtATime, Orders
  <2>4. QED
    BY <2>3 DEF NotYetThere
<1>7. CASE \E s \in Ready(w, "requireResult") : RequireResult(w, s)
  <2>1. PICK s \in Ready(w, "requireResult") : RequireResult(w, s)
    BY <1>7
  <2> DEFINE M == {Do("importIndicator", s.at, s.what, s.text)}
  <2>2. Moves(w, s, M) /\ s \in Pending(w) /\ s.op = "requireResult"
    BY <2>1, RequireResultKeeps, ReadyStep
  <2>3. \A a \in M : a.op = "importIndicator"
    BY DoFields
  <2> HIDE DEF M
  <2>4. \A a \in M : a.op \notin Asked /\ a.op \notin Insertions
    BY <2>3, GoesOps DEF Insertions
  <2>5. \A t \in Pending(w) : ~MayWait(parentOf, s, t)
    BY <2>2 DEF MayWait
  <2>6. QED
    BY <2>2, <2>4, <2>5, NotYetKept
<1>8. CASE \E s \in Ready(w, "copyDefaults") : CopyDefaults(w, s)
  <2>1. PICK s \in Ready(w, "copyDefaults") : CopyDefaults(w, s)
    BY <1>8
  <2> DEFINE M == {}
  <2>2. Moves(w, s, M) /\ RowsKept /\ s \in Pending(w) /\ s.op = "copyDefaults"
    BY <2>1, CopyDefaultsKeeps, ReadyStep
  <2>3. \A a \in M : FALSE
    OBVIOUS
  <2> HIDE DEF M
  <2>4. Rows' \ Rows = {}
    BY <2>2 DEF RowsKept
  <2>5. QED
    BY <2>2, <2>3, <2>4, NotYetKept
<1>9. QED
  BY <1>1, <1>2, <1>3, <1>4, <1>5, <1>6, <1>7, <1>8, WorkerStepKinds DEF ResultSteps

\* Every step.
LEMMA NotYetNext ==
    ASSUME Core, Orders, NotYetThere, [Next]_vars
    PROVE  NotYetThere'
<1>1. CASE \E w \in Worker : WorkerStep(w)
  BY <1>1, NotYetAfterStep
<1>2. CASE \E w \in Worker : Requests(w)
  <2>1. PICK w \in Worker : Requests(w)
    BY <1>2
  <2>2. PICK Q : WellAsked(w, Q)
    BY <2>1, RequestAsks
  <2>3. /\ Pending(w)' = Q /\ parentOf' = parentOf /\ linked' = linked /\ Rows' = Rows
        /\ \A v \in Worker : v # w => Pending(v)' = Pending(v)
    BY <2>2 DEF WellAsked, Asks, RowsKept
  <2>4. QED
    BY <2>2, <2>3 DEF WellAsked, NotYetThere, OneAtATime
<1>3. CASE \E w \in Worker : Crash(w)
  <2>1. PICK w \in Worker : Crash(w)
    BY <1>3
  <2>2. /\ Pending(w)' = {} /\ parentOf' = parentOf /\ linked' = linked /\ Rows' = Rows
        /\ \A v \in Worker : v # w => Pending(v)' = Pending(v)
    BY <2>1, CrashKeeps DEF RowsKept
  <2>3. QED
    BY <2>2 DEF NotYetThere, OneAtATime
<1>4. CASE UNCHANGED vars
  <2>1. UNCHANGED <<parentOf, linked>> /\ Rows' = Rows /\ \A w : Pending(w)' = Pending(w)
    BY <1>4 DEF vars, Pending, Rows
  <2>2. QED
    BY <2>1 DEF NotYetThere, OneAtATime
<1>5. QED
  BY <1>1, <1>2, <1>3, <1>4, NextKinds

(* Nothing is forgotten -------------------------------------------------------*)

\* c has a copy of the owner of y, one that is kept complete, and its parent has y.
Needs(c, y) == <<c, Owner[y]>> \in linked \ chosen /\ AtParent(c, y)

\* A step keeps it if what is needed from now on is brought by the step, or to be
\* done by the same worker.
LEMMA ForgottenKept ==
    ASSUME Core, NothingForgotten, NEW w \in Worker, NEW s \in Pending(w), NEW M,
           Moves(w, s, M), linked \subseteq linked', crashes' = crashes,
           overlooked' = overlooked,
           \A c \in Project : \A y \in DOMAIN Owner :
               Needs(c, y)' /\ <<c, y>> \notin linked' =>
                   \/ Needs(c, y) /\ (Covers(s, c, y) => \E a \in M : Covers(a, c, y))
                   \/ \E a \in M : Covers(a, c, y)
                   \/ \E a \in Pending(w) : a # s /\ Covers(a, c, y)
    PROVE  NothingForgotten'
<1>1. parentOf' = parentOf
  BY AfterMoving
<1>2. SUFFICES ASSUME crashes = 0, NEW c \in Project, NEW y \in DOMAIN Owner,
                      OneAtATime \/ <<c, y>> \notin overlooked,
                      Needs(c, y)', <<c, y>> \notin linked'
               PROVE  \E v \in Worker : \E a \in Pending(v)' : Covers(a, c, y)
  BY <1>1 DEF NothingForgotten, OneAtATime, Needs, Covered, Covers
<1>3. CASE \E a \in M : Covers(a, c, y)
  BY <1>3, AfterMoving
<1>4. CASE \E a \in Pending(w) : a # s /\ Covers(a, c, y)
  BY <1>4, AfterMoving
<1>5. CASE Needs(c, y) /\ (Covers(s, c, y) => \E a \in M : Covers(a, c, y))
  <2>1. Covered(c, y)
    BY <1>2, <1>5 DEF NothingForgotten, Needs
  <2>2. PICK v \in Worker : \E t \in Pending(v) : Covers(t, c, y)
    BY <2>1 DEF Covered
  <2>3. CASE v = w
    BY <1>3, <1>4, <1>5, <2>2, <2>3
  <2>4. CASE v # w
    BY <2>2, <2>4, AfterMoving
  <2>5. QED
    BY <2>3, <2>4
<1>6. QED
  BY <1>2, <1>3, <1>4, <1>5

\* Steps that are about something else.
LEMMA ForgottenOtherwise ==
    ASSUME Core, NothingForgotten, NEW w \in Worker, NEW op, op \notin Covering,
           NEW s \in Ready(w, op), NEW M, Moves(w, s, M), RowsKept, UNCHANGED chosen, Frame
    PROVE  NothingForgotten'
<1>1. s \in Pending(w) /\ s.op \notin Covering
  BY ReadyStep
<1>2. parentOf' = parentOf /\ crashes' = crashes /\ linked' = linked /\ Rows' = Rows
      /\ overlooked' = overlooked
  BY DEF Frame, RowsKept
<1>3. \A c, y : Needs(c, y)' => Needs(c, y)
  BY <1>2 DEF Needs, AtParent
<1>4. \A c, y : ~Covers(s, c, y)
  BY <1>1 DEF Covers, Covering
<1>5. QED
  BY <1>1, <1>2, <1>3, <1>4, ForgottenKept

\* What is needed after copies were made: it was before, or it is the copies' own
\* item, or a part of the topmost copy.
NeededFor(p, o, D, c, y) ==
    \/ Needs(c, y)
    \/ y = o /\ parentOf[c] \in D /\ <<c, Owner[o]>> \in linked
    \/ Owner[y] = o /\ c = p /\ <<p, o>> \notin chosen'

\* What is needed after copies of o were made: what was, the copies of the copies,
\* and the parts of the topmost one.
LEMMA NeedsAfterCopies ==
    ASSUME TypeOK, RowsConsistent, NEW p, NEW o, NEW D, CopiesMade(p, o, D),
           parentOf' = parentOf, chosen \subseteq chosen',
           NEW c \in Project, NEW y \in DOMAIN Owner, Needs(c, y)'
    PROVE  NeededFor(p, o, D, c, y)
<1> USE DEF NeededFor
<1>1. /\ Rows' = Rows \cup (D \X {o}) /\ linked' = linked \cup (D \X {o})
      /\ \A d \in D : <<d, o>> \notin Rows /\ (d = p \/ parentOf[d] \in D)
  BY DEF CopiesMade
<1>2. <<c, Owner[y]>> \in linked' \ chosen' /\ <<parentOf[c], y>> \in Rows'
  BY DEF Needs, AtParent
<1>3. Owner[y] # y
  BY FrameworkAssumption, Owners
<1>4. CASE y = o
  BY <1>1, <1>2, <1>3, <1>4 DEF Needs, AtParent
<1>5. CASE y # o
  <2>1. <<parentOf[c], y>> \in Rows
    BY <1>1, <1>2, <1>5
  <2>2. CASE <<c, Owner[y]>> \in linked
    BY <1>2, <2>1, <2>2 DEF Needs, AtParent
  <2>3. CASE <<c, Owner[y]>> \notin linked
    <3>1. Owner[y] = o /\ c \in D
      BY <1>1, <1>2, <2>3
    <3>2. <<parentOf[c], o>> \in Rows
      BY <2>1, <3>1 DEF RowsConsistent
    <3>3. QED
      BY <1>1, <1>2, <3>1, <3>2
  <2>4. QED
    BY <2>2, <2>3
<1>6. QED
  BY <1>4, <1>5

\* Reading the parts that the parent's row has.
LEMMA ForgottenAfterReading ==
    ASSUME Core, NothingForgotten, NEW w \in Worker, NEW op \in Readings,
           NEW s \in Ready(w, op), NEW it \in Copyings,
           Moves(w, s, CopyParts(s.at, s.what, it)), RowsKept, Unwritten, Frame
    PROVE  NothingForgotten'
<1> DEFINE M == CopyParts(s.at, s.what, it)
<1>1. s \in Pending(w) /\ s.op = op
  BY ReadyStep
<1>2. /\ parentOf' = parentOf /\ crashes' = crashes /\ linked' = linked /\ Rows' = Rows
      /\ chosen' = chosen /\ overlooked' = overlooked
  BY DEF Frame, RowsKept, Unwritten
<1>3. \A c, y : Needs(c, y)' => Needs(c, y)
  BY <1>2 DEF Needs, AtParent
<1>4. /\ \A a \in M : a.op = it /\ a.at = s.at
      /\ \A x \in PartsAt(parentOf[s.at], s.what) : \E a \in M : a.what = x
  BY CopyPartsOps
<1> HIDE DEF M
<1>5. ASSUME NEW c \in Project, NEW y \in DOMAIN Owner, Needs(c, y), Covers(s, c, y)
      PROVE  \E a \in M : Covers(a, c, y)
  <2>1. s.at = c /\ s.what = Owner[y]
    BY <1>1, <1>5 DEF Covers, Readings, Copyings
  <2>2. y \in PartsAt(parentOf[s.at], s.what)
    BY <1>5, <2>1 DEF Needs, AtParent, PartsAt, Parts
  <2>3. PICK a \in M : a.what = y
    BY <1>4, <2>2
  <2>4. QED
    BY <1>4, <2>1, <2>3 DEF Covers
<1>6. Moves(w, s, M)
  BY DEF M
<1>7. QED
  BY <1>1, <1>2, <1>3, <1>5, <1>6, ForgottenKept

\* Copying a part: all projects below that have its owner get it too, and its own
\* parts are read next.
LEMMA ForgottenAfterCopy ==
    ASSUME Core, NothingForgotten, NEW w \in Worker, NEW op \in Copyings,
           NEW s \in Ready(w, op), NEW M, Moves(w, s, M), OnlyRows, UNCHANGED chosen,
           <<s.at, s.what>> \in linked => RowsKept,
           <<s.at, s.what>> \notin linked =>
               /\ CopiesMade(s.at, s.what, Reach(s.at, Owner[s.what]))
               /\ s.what \in Period \/
                  \E a \in M : a.op = "readPeriods" /\ a.at = s.at /\ a.what = s.what
    PROVE  NothingForgotten'
<1> DEFINE T == {x \in Project : <<x, Owner[s.what]>> \in linked}
           D == Reach(s.at, Owner[s.what])
<1>1. s \in Pending(w) /\ s.op = op /\ s.at \in Project
  BY ReadyStep
<1>2. parentOf' = parentOf /\ crashes' = crashes /\ overlooked' = overlooked /\ chosen' = chosen
  BY DEF OnlyRows, Frame
<1>3. CASE <<s.at, s.what>> \in linked
  <2>1. Rows' = Rows /\ linked' = linked
    BY <1>3 DEF RowsKept
  <2>2. \A c, y : Needs(c, y)' => Needs(c, y)
    BY <1>2, <2>1 DEF Needs, AtParent
  <2>3. \A c, y : <<c, y>> \notin linked' => ~Covers(s, c, y)
    BY <1>1, <1>3, <2>1 DEF Covers, Copyings, Readings
  <2>4. QED
    BY <1>1, <1>2, <2>1, <2>2, <2>3, ForgottenKept
<1>4. CASE <<s.at, s.what>> \notin linked
  <2>1. CopiesMade(s.at, s.what, D)
    BY <1>4
  <2>2. D = {s.at} \cup Below(s.at, T) /\ T \in SUBSET Project
    BY DEF Reach
  <2>3. \A c \in Project : parentOf[c] \in D /\ <<c, Owner[s.what]>> \in linked => c \in D
    BY <2>2, BelowFacts
  <2> HIDE DEF D, T
  <2>4. linked' = linked \cup (D \X {s.what}) /\ s.at \in D
    BY <2>1 DEF CopiesMade
  <2>5. ASSUME NEW c \in Project, NEW y \in DOMAIN Owner, Needs(c, y)', <<c, y>> \notin linked'
        PROVE  \/ Needs(c, y) /\ ~Covers(s, c, y)
               \/ \E a \in M : Covers(a, c, y)
    <3>1. \/ Needs(c, y)
          \/ y = s.what /\ parentOf[c] \in D /\ <<c, Owner[s.what]>> \in linked
          \/ Owner[y] = s.what /\ c = s.at
      <4>1. NeededFor(s.at, s.what, D, c, y)
        BY <1>2, <2>1, <2>5, NeedsAfterCopies DEF Core
      <4>2. QED
        BY <4>1 DEF NeededFor
    <3>2. CASE Needs(c, y)
      BY <1>1, <2>4, <2>5, <3>2 DEF Covers, Copyings, Readings
    <3>3. CASE y = s.what /\ parentOf[c] \in D /\ <<c, Owner[s.what]>> \in linked
      BY <2>3, <2>4, <2>5, <3>3
    <3>4. CASE Owner[y] = s.what /\ c = s.at
      <4>1. s.what \notin Period
        BY <3>4, FrameworkAssumption
      <4>2. QED
        BY <1>4, <3>4, <4>1 DEF Covers, Readings
    <3>5. QED
      BY <3>1, <3>2, <3>3, <3>4
  <2>6. linked \subseteq linked'
    BY <2>4
  <2>7. QED
    BY <1>1, <1>2, <2>5, <2>6, ForgottenKept
<1>5. QED
  BY <1>3, <1>4

\* A result that is copied for itself has its indicators read next.
LEMMA ForgottenAfterInsertResult ==
    ASSUME Core, NotYetThere, NothingForgotten, NEW w \in Worker,
           NEW s \in Ready(w, "insertResult"), InsertResult(w, s)
    PROVE  NothingForgotten'
<1> DEFINE F == ForProjects("offer", Children(s.at), s.what, s.text)
           b == Do("readIndicators", s.at, s.what, 0)
           M == F \cup {b}
<1>1. s \in Pending(w) /\ s.op = "insertResult" /\ s.what \in Result
      /\ todo[w] \in Lists /\ todo[w] # <<>> /\ s \in Head(todo[w])
  BY ReadyStep DEF StepReady, Takings
<1>2. CASE <<s.at, s.what>> \in Rows
  <2>1. todo' = [todo EXCEPT ![w] = <<>>] /\ Unwritten /\ Frame
    BY <1>2, InsertResultKeeps
  <2>2. /\ parentOf' = parentOf /\ text' = text /\ linked' = linked /\ crashes' = crashes
        /\ chosen' = chosen /\ overlooked' = overlooked
    BY <2>1 DEF Unwritten, Frame
  <2>3. todo' \in [Worker -> Lists] => OthersTyped'
    BY <2>1, <2>2, OthersStay DEF Unwritten, Core, TypeOK, Rows
  <2>4. /\ RowsKept /\ Pending(w)' = {}
        /\ \A v \in Worker : v # w => Pending(v)' = Pending(v)
    BY <2>1, <2>2, <2>3, CoreAfterStop DEF Frame
  <2>5. ~OneAtATime
    BY <1>1, <1>2 DEF NotYetThere, Insertions
  <2>6. \A t \in Pending(w) : t.op \notin Covering
    <3>1. SUFFICES ASSUME NEW t \in Pending(w), t # s
                   PROVE  t.op \notin Covering
      BY <1>1 DEF Covering, Readings, Copyings
    <3>2. Orderly(parentOf, todo[w])
      BY DEF Core, InOrder
    <3>3. t \in Head(todo[w]) \cup StepsOf(Tail(todo[w]))
      BY <1>1, <3>2, HeadAndTail DEF Pending
    <3>4. MayWait(parentOf, s, t)
      BY <1>1, <3>1, <3>2, <3>3, HeadAndTail
    <3>5. QED
      BY <1>1, <2>5, <3>4 DEF MayWait, Takings, Insertions, OneAtATime
  <2>7. \A t \in Pending(w) : \A c, y : ~Covers(t, c, y)
    BY <2>6 DEF Covers, Covering
  <2>8. \A c, y : Covered(c, y) => Covered(c, y)'
    BY <2>2, <2>4, <2>7 DEF Covered, Covers
  <2>9. QED
    BY <2>2, <2>4, <2>8 DEF NothingForgotten, OneAtATime, AtParent, RowsKept
<1>3. CASE <<s.at, s.what>> \notin Rows
  <2>1. /\ Moves(w, s, M) /\ OnlyRows /\ UNCHANGED chosen
        /\ CopiesMade(s.at, s.what, {s.at})
    BY <1>3, InsertResultKeeps
  <2>2. b.op = "readIndicators" /\ b.at = s.at /\ b.what = s.what /\ b \in M
    BY DoFields
  <2> HIDE DEF F, b, M
  <2>3. /\ parentOf' = parentOf /\ crashes' = crashes /\ overlooked' = overlooked
        /\ chosen' = chosen /\ linked \subseteq linked'
    BY <2>1 DEF OnlyRows, Frame, CopiesMade
  <2>4. \A c, y : ~Covers(s, c, y)
    BY <1>1 DEF Covers, Readings, Copyings
  <2>5. ASSUME NEW c \in Project, NEW y \in DOMAIN Owner, Needs(c, y)'
        PROVE  Needs(c, y) \/ \E a \in M : Covers(a, c, y)
    <3> DEFINE D == {s.at}
    <3>1. CopiesMade(s.at, s.what, D) /\ y # s.what
      BY <1>1, <2>1, Owners
    <3> HIDE DEF D
    <3>2. parentOf' = parentOf /\ chosen \subseteq chosen'
      BY <2>3
    <3>3. NeededFor(s.at, s.what, D, c, y)
      BY <2>5, <3>1, <3>2, NeedsAfterCopies DEF Core
    <3>4. Needs(c, y) \/ (Owner[y] = s.what /\ c = s.at)
      BY <3>1, <3>3 DEF NeededFor
    <3>5. QED
      BY <2>2, <3>4 DEF Covers, Readings
  <2>6. QED
    BY <1>1, <2>1, <2>3, <2>4, <2>5, ForgottenKept
<1>4. QED
  BY <1>2, <1>3

\* A result that is copied for one indicator is chosen, and has copies below whose
\* parents have no indicators of it.
LEMMA ForgottenAfterRequireResult ==
    ASSUME Core, NothingForgotten, NEW w \in Worker,
           NEW s \in Ready(w, "requireResult"), RequireResult(w, s)
    PROVE  NothingForgotten'
<1> DEFINE r == Owner[s.what]
           D == ReachOfResults(s.at)
           M == {Do("importIndicator", s.at, s.what, s.text)}
<1>1. s \in Pending(w) /\ s.op = "requireResult"
  BY ReadyStep
<1>2. /\ Moves(w, s, M) /\ OnlyRows /\ r \in Result
      /\ <<s.at, r>> \in linked => RowsKept /\ chosen' = chosen
      /\ <<s.at, r>> \notin linked => /\ CopiesMade(s.at, r, D)
                                      /\ chosen' = chosen \cup {<<s.at, r>>}
  BY RequireResultKeeps
<1> HIDE DEF D, M
<1>3. parentOf' = parentOf /\ crashes' = crashes /\ overlooked' = overlooked
  BY <1>2 DEF OnlyRows, Frame
<1>4. \A c, y : ~Covers(s, c, y)
  BY <1>1 DEF Covers, Readings, Copyings
<1>5. linked \subseteq linked' /\ \A c \in Project, y \in DOMAIN Owner : Needs(c, y)' => Needs(c, y)
  <2>1. CASE <<s.at, r>> \in linked
    BY <1>2, <1>3, <2>1 DEF RowsKept, Needs, AtParent
  <2>2. CASE <<s.at, r>> \notin linked
    <3>1. /\ CopiesMade(s.at, r, D) /\ chosen' = chosen \cup {<<s.at, r>>}
          /\ linked \subseteq linked' /\ r \notin DOMAIN Owner
      BY <1>2, <2>2, Owners DEF CopiesMade
    <3> HIDE DEF r
    <3>2. ASSUME NEW c \in Project, NEW y \in DOMAIN Owner, Needs(c, y)'
          PROVE  Needs(c, y)
      <4>1. parentOf' = parentOf /\ chosen \subseteq chosen' /\ <<s.at, r>> \in chosen'
        BY <1>3, <3>1
      <4>2. \/ Needs(c, y)
            \/ y = r
            \/ <<s.at, r>> \notin chosen'
        <5>1. CopiesMade(s.at, r, D)
          BY <3>1
        <5>2. NeededFor(s.at, r, D, c, y)
          BY <3>2, <4>1, <5>1, NeedsAfterCopies DEF Core
        <5>3. QED
          BY <5>2 DEF NeededFor
      <4>3. QED
        BY <3>1, <4>1, <4>2
    <3>3. QED
      BY <3>1, <3>2
  <2>3. QED
    BY <2>1, <2>2
<1>6. QED
  BY <1>1, <1>2, <1>3, <1>4, <1>5, ForgottenKept

\* The rows of a transaction have the copies that need them, but for those that are
\* overlooked.
LEMMA ForgottenAfterCommit ==
    ASSUME Core, AllInserted, NothingForgotten, NEW w \in Worker,
           NEW s \in Ready(w, "commit"), CommitInserted(w, s)
    PROVE  NothingForgotten'
<1>1. s \in Pending(w) /\ s.op = "commit" /\ s.at \in Project
  BY ReadyStep
<1>2. PICK I : I = inserted[w]
  OBVIOUS
<1>3. /\ Pending(w) = {s} /\ ToCommit(w, s)
      /\ \A v \in Worker : v # w => Pending(v)' = Pending(v)
      /\ Rows' = Rows \cup I /\ linked' = linked \cup {x \in I : x[1] # s.at}
      /\ parentOf' = parentOf /\ chosen' = chosen /\ crashes' = crashes
  BY <1>2, CommitKeeps DEF Moves
<1>4. /\ I \subseteq Project \X Item
      /\ \A x, y \in I : <<x[1], y[2]>> \in I
      /\ \A x \in I : /\ x[2] = s.what \/ (x[2] \in Default /\ Owner[x[2]] = s.what)
                      /\ \A p \in Project : <<p, x[2]>> \notin Rows
                      /\ x[1] # s.at => x[1] \in BelowAll(s.at)
      /\ <<s.at, s.what>> \in I
  BY <1>2, <1>3 DEF ToCommit, NewRow, Core, TypeOK
<1>5. /\ overlooked \subseteq overlooked'
      /\ \A c \in Project : \A y \in DOMAIN Owner :
            /\ <<parentOf[c], y>> \in I /\ <<c, y>> \notin I
            /\ <<c, Owner[y]>> \in linked /\ ~ToRead(c, Owner[y])
            => <<c, y>> \in overlooked'
  <2>1. overlooked' = overlooked \cup
            {x \in Project \X DOMAIN Owner :
                /\ <<parentOf[x[1]], x[2]>> \in I /\ x \notin I
                /\ <<x[1], Owner[x[2]]>> \in linked /\ ~ToRead(x[1], Owner[x[2]])}
    BY <1>2 DEF CommitInserted
  <2>2. QED
    BY <2>1
<1>6. SUFFICES ASSUME crashes = 0, NEW c \in Project, NEW y \in DOMAIN Owner,
                      OneAtATime \/ <<c, y>> \notin overlooked',
                      Needs(c, y)', <<c, y>> \notin linked'
               PROVE  \E v \in Worker : \E a \in Pending(v)' : Covers(a, c, y)
  BY <1>3 DEF NothingForgotten, OneAtATime, Needs, Covered, Covers
<1>7. <<c, Owner[y]>> \in linked' \ chosen /\ <<parentOf[c], y>> \in Rows'
  BY <1>3, <1>6 DEF Needs, AtParent
<1>8. ASSUME NEW v \in Worker, NEW a \in Pending(v), Covers(a, c, y)
      PROVE  \E u \in Worker : \E b \in Pending(u)' : Covers(b, c, y)
  <2>1. a # s
    BY <1>1, <1>8 DEF Covers, Copyings, Readings
  <2>2. v # w
    BY <1>3, <2>1
  <2>3. QED
    BY <1>3, <1>8, <2>2
<1>9. /\ linked \subseteq Rows /\ Rows \subseteq Project \X Item
      /\ \A x \in Rows : x[2] \in DOMAIN Owner => <<x[1], Owner[x[2]]>> \in Rows
  BY DEF Core, TypeOK, RowsConsistent
<1>10. CASE <<parentOf[c], y>> \in Rows
  <2>1. <<parentOf[c], Owner[y]>> \in Rows /\ parentOf[c] \in Project
    BY <1>9, <1>10
  <2>2. <<c, Owner[y]>> \notin I
    BY <1>4, <2>1
  <2>3. Needs(c, y)
    BY <1>3, <1>7, <1>10, <2>2 DEF Needs, AtParent
  <2>4. <<c, y>> \notin linked /\ (OneAtATime \/ <<c, y>> \notin overlooked)
    BY <1>3, <1>5, <1>6
  <2>5. Covered(c, y)
    BY <1>6, <2>3, <2>4 DEF NothingForgotten, Needs
  <2>6. QED
    BY <1>8, <2>5 DEF Covered
<1>11. CASE <<parentOf[c], y>> \in I
  <2>1. /\ y = s.what \/ (y \in Default /\ Owner[y] = s.what)
        /\ parentOf[c] = s.at \/ parentOf[c] \in BelowAll(s.at)
        /\ \A p \in Project : <<p, y>> \notin Rows
    BY <1>4, <1>11
  <2>2. <<c, y>> \notin I
    <3>1. SUFFICES ASSUME <<c, y>> \in I
                   PROVE  FALSE
      OBVIOUS
    <3>2. c = s.at
      BY <1>3, <1>6, <3>1
    <3>3. parentOf[c] \notin {c} \cup BelowAll(c)
      BY BelowAllFacts DEF Core, TypeOK
    <3>4. QED
      BY <2>1, <3>2, <3>3
  <2>3. <<c, Owner[y]>> \notin I
    <3>1. SUFFICES ASSUME <<c, Owner[y]>> \in I
                   PROVE  FALSE
      OBVIOUS
    <3>2. <<c, y>> \in I
      BY <1>4, <1>11, <3>1
    <3>3. QED
      BY <2>2, <3>2
  <2>4. <<c, Owner[y]>> \in linked
    BY <1>3, <1>7, <2>3
  <2>5. y = s.what
    <3>1. Owner[y] = s.what => <<c, s.what>> \in Rows
      BY <1>9, <2>4
    <3>2. \A p \in Project : <<p, s.what>> \notin Rows
      BY <1>4
    <3>3. QED
      BY <2>1, <3>1, <3>2
  <2>6. ~OneAtATime
    <3>1. SUFFICES ASSUME OneAtATime
                   PROVE  FALSE
      OBVIOUS
    <3>2. s.what \notin Result
      BY <2>5, Owners
    <3>3. Linked(c, s.what)
      BY <2>4, <2>5, <3>2 DEF Linked
    <3> DEFINE x == <<parentOf[c], y>>
    <3>4. x \in I /\ parentOf[c] = x[1] /\ x[2] = y
      BY <1>11
    <3> HIDE DEF x
    <3>5. <<c, x[2]>> \in I
      BY <1>1, <1>2, <3>1, <3>3, <3>4 DEF AllInserted
    <3>6. QED
      BY <2>2, <3>4, <3>5
  <2>7. ToRead(c, Owner[y])
    BY <1>5, <1>6, <1>11, <2>2, <2>4, <2>6
  <2>8. PICK v \in Worker : \E t \in Pending(v) : Covers(t, c, y)
    BY <2>7 DEF ToRead, Covers, Readings
  <2>9. QED
    BY <1>8, <2>8
<1>12. QED
  BY <1>3, <1>7, <1>10, <1>11

\* Steps of a worker.
LEMMA ForgottenAfterStep ==
    ASSUME Core, Orders, NotYetThere, AllInserted, NothingForgotten, NEW w \in Worker, WorkerStep(w)
    PROVE  NothingForgotten'
<1>1. CASE \E s \in Ready(w, "readResults") : ReadResults(w, s)
  <2>1. PICK s \in Ready(w, "readResults") : ReadResults(w, s)
    BY <1>1
  <2> DEFINE p == parentOf[s.at]
             R == {x \in Result : <<p, x>> \in Rows}
             M == ForRows("takeResult", s.at, R, p)
  <2>2. RowsKept /\ Moves(w, s, M) /\ Unwritten /\ Frame
    BY <2>1, ReadResultsKeeps
  <2> HIDE DEF M
  <2>3. UNCHANGED chosen
    BY <2>2 DEF Unwritten
  <2>4. "readResults" \notin Covering
    BY DEF Covering, Readings, Copyings
  <2>5. QED
    BY <2>1, <2>2, <2>3, <2>4, ForgottenOtherwise
<1>2. CASE \E s \in Ready(w, "takeResult") : TakeResult(w, s)
  <2>1. PICK s \in Ready(w, "takeResult") : TakeResult(w, s)
    BY <1>2
  <2> DEFINE M == IF <<s.at, s.what>> \in linked THEN {}
                  ELSE {Do("insertResult", s.at, s.what, s.text)}
  <2>2. RowsKept /\ Moves(w, s, M) /\ Unwritten /\ Frame
    BY <2>1, TakeResultKeeps
  <2> HIDE DEF M
  <2>3. UNCHANGED chosen
    BY <2>2 DEF Unwritten
  <2>4. "takeResult" \notin Covering
    BY DEF Covering, Readings, Copyings
  <2>5. QED
    BY <2>1, <2>2, <2>3, <2>4, ForgottenOtherwise
<1>3. CASE \E s \in Ready(w, "offer") : Offer(w, s)
  <2>1. PICK s \in Ready(w, "offer") : Offer(w, s)
    BY <1>3
  <2> DEFINE M == IF HasImportedResults(s.at)
                  THEN {Do("insertResult", s.at, s.what, s.text)} ELSE {}
  <2>2. RowsKept /\ Moves(w, s, M) /\ Unwritten /\ Frame
    BY <2>1, OfferKeeps
  <2> HIDE DEF M
  <2>3. UNCHANGED chosen
    BY <2>2 DEF Unwritten
  <2>4. "offer" \notin Covering
    BY DEF Covering, Readings, Copyings
  <2>5. QED
    BY <2>1, <2>2, <2>3, <2>4, ForgottenOtherwise
<1>4. CASE \E s \in Ready(w, "spread") : Spread(w, s)
  <2>1. PICK s \in Ready(w, "spread") : Spread(w, s)
    BY <1>4
  <2> DEFINE link == IF s.what \in Result THEN s.what ELSE Owner[s.what]
             S == {x \in Children(s.at) : <<x, link>> \in linked}
             M == ForProjects("renew", S, s.what, s.text)
  <2>2. RowsKept /\ Moves(w, s, M) /\ Unwritten /\ Frame
    BY <2>1, SpreadKeeps
  <2> HIDE DEF M
  <2>3. UNCHANGED chosen
    BY <2>2 DEF Unwritten
  <2>4. "spread" \notin Covering
    BY DEF Covering, Readings, Copyings
  <2>5. QED
    BY <2>1, <2>2, <2>3, <2>4, ForgottenOtherwise
<1>5. CASE \E s \in Ready(w, "importIndicator") : ImportIndicatorNow(w, s)
  <2>1. PICK s \in Ready(w, "importIndicator") : ImportIndicatorNow(w, s)
    BY <1>5
  <2> DEFINE M == IF <<s.at, s.what>> \in linked THEN {}
                  ELSE {Do("copyIndicator", s.at, s.what, s.text)}
  <2>2. RowsKept /\ Moves(w, s, M) /\ Unwritten /\ Frame
    BY <2>1, ImportIndicatorNowKeeps
  <2> HIDE DEF M
  <2>3. UNCHANGED chosen
    BY <2>2 DEF Unwritten
  <2>4. "importIndicator" \notin Covering
    BY DEF Covering, Readings, Copyings
  <2>5. QED
    BY <2>1, <2>2, <2>3, <2>4, ForgottenOtherwise
<1>6. CASE \E s \in Ready(w, "walk") : Walk(w, s)
  <2>1. PICK s \in Ready(w, "walk") : Walk(w, s)
    BY <1>6
  <2> DEFINE S == IF Children(s.at) = {} THEN {s.at} ELSE Children(s.at)
             C == Children(s.at)
             F == ForProjects("fixProject", S, NoItem, 0)
             G == ForProjects("walk", C, NoItem, 0)
             M == F \cup G
  <2>2. RowsKept /\ Moves(w, s, M) /\ Unwritten /\ Frame
    BY <2>1, WalkKeeps
  <2> HIDE DEF M
  <2>3. UNCHANGED chosen
    BY <2>2 DEF Unwritten
  <2>4. "walk" \notin Covering
    BY DEF Covering, Readings, Copyings
  <2>5. QED
    BY <2>1, <2>2, <2>3, <2>4, ForgottenOtherwise
<1>7. CASE \E s \in Ready(w, "fixProject") : FixProject(w, s)
  <2>1. PICK s \in Ready(w, "fixProject") : FixProject(w, s)
    BY <1>7
  <2> DEFINE S == {x \in Indicator : <<s.at, x>> \in linked}
             M == ForItems("fixIndicator", s.at, S, 0)
  <2>2. RowsKept /\ Moves(w, s, M) /\ Unwritten /\ Frame
    BY <2>1, FixProjectKeeps
  <2> HIDE DEF M
  <2>3. UNCHANGED chosen
    BY <2>2 DEF Unwritten
  <2>4. "fixProject" \notin Covering
    BY DEF Covering, Readings, Copyings
  <2>5. QED
    BY <2>1, <2>2, <2>3, <2>4, ForgottenOtherwise
<1>8. CASE \E s \in Ready(w, "fixIndicator") : FixIndicator(w, s)
  <2>1. PICK s \in Ready(w, "fixIndicator") : FixIndicator(w, s)
    BY <1>8
  <2> DEFINE Q == CopyParts(s.at, s.what, "copyPeriod")
             M == IF Cardinality(PartsAt(s.at, s.what)) =
                     Cardinality(PartsAt(parentOf[s.at], s.what))
                  THEN {} ELSE Q
  <2>2. RowsKept /\ Moves(w, s, M) /\ Unwritten /\ Frame
    BY <2>1, FixIndicatorKeeps
  <2> HIDE DEF M
  <2>3. UNCHANGED chosen
    BY <2>2 DEF Unwritten
  <2>4. "fixIndicator" \notin Covering
    BY DEF Covering, Readings, Copyings
  <2>5. QED
    BY <2>1, <2>2, <2>3, <2>4, ForgottenOtherwise
<1>9. CASE \E s \in Ready(w, "saveAgain") : Save(w, s)
  <2>1. PICK s \in Ready(w, "saveAgain") : Save(w, s)
    BY <1>9
  <2> DEFINE M == {Do("spread", s.at, s.what, s.text)}
  <2>3. <<s.at, s.what>> \in Rows
    BY ReadyStep DEF StepReady
  <2>4. RowsKept /\ Moves(w, s, M) /\ OnlyRows /\ UNCHANGED chosen
    BY <2>1, <2>3, SaveKeeps
  <2> HIDE DEF M
  <2>5. Frame
    BY <2>4 DEF OnlyRows
  <2>6. "saveAgain" \notin Covering
    BY DEF Covering, Readings, Copyings
  <2>7. QED
    BY <2>1, <2>4, <2>5, <2>6, ForgottenOtherwise
<1>21. CASE \E s \in Ready(w, "save") : SaveEdited(w, s)
  <2>1. PICK s \in Ready(w, "save") : SaveEdited(w, s)
    BY <1>21
  <2> DEFINE M == {Do("spread", s.at, s.what, s.text)}
  <2>3. <<s.at, s.what>> \in Rows
    BY ReadyStep DEF StepReady
  <2>4. RowsKept /\ Moves(w, s, M) /\ OnlyRows /\ UNCHANGED chosen
    BY <2>1, <2>3, SaveKeeps
  <2> HIDE DEF M
  <2>5. Frame
    BY <2>4 DEF OnlyRows
  <2>6. "save" \notin Covering
    BY DEF Covering, Readings, Copyings
  <2>7. QED
    BY <2>1, <2>4, <2>5, <2>6, ForgottenOtherwise
<1>10. CASE \E s \in Ready(w, "renew") : Renew(w, s)
  <2>1. PICK s \in Ready(w, "renew") : Renew(w, s)
    BY <1>10
  <2>2. /\ RowsKept /\ OnlyRows /\ UNCHANGED chosen
        /\ \E M : Moves(w, s, M)
    BY <2>1, RenewKeeps
  <2>3. PICK M : Moves(w, s, M)
    BY <2>2
  <2>4. Frame
    BY <2>2 DEF OnlyRows
  <2>5. "renew" \notin Covering
    BY DEF Covering, Readings, Copyings
  <2>6. QED
    BY <2>1, <2>2, <2>3, <2>4, <2>5, ForgottenOtherwise
<1>11. CASE \E s \in Ready(w, "copyDefaults") : CopyDefaults(w, s)
  <2>1. PICK s \in Ready(w, "copyDefaults") : CopyDefaults(w, s)
    BY <1>11
  <2> DEFINE M == {}
  <2>2. Moves(w, s, M) /\ RowsKept /\ Frame /\ UNCHANGED chosen
    BY <2>1, CopyDefaultsKeeps
  <2> HIDE DEF M
  <2>3. "copyDefaults" \notin Covering
    BY DEF Covering, Readings, Copyings
  <2>4. QED
    BY <2>1, <2>2, <2>3, ForgottenOtherwise
<1>12. CASE \E s \in Ready(w, "fixed") : Fixed(w, s)
  <2>1. PICK s \in Ready(w, "fixed") : Fixed(w, s)
    BY <1>12
  <2> DEFINE M == {}
  <2>2. Moves(w, s, M) /\ RowsKept /\ Frame /\ UNCHANGED chosen
    BY <2>1, FixedKeeps
  <2> HIDE DEF M
  <2>3. "fixed" \notin Covering
    BY DEF Covering, Readings, Copyings
  <2>4. QED
    BY <2>1, <2>2, <2>3, ForgottenOtherwise
<1>13. CASE \E s \in Ready(w, "readIndicators") : ReadIndicators(w, s)
  <2>1. PICK s \in Ready(w, "readIndicators") : ReadIndicators(w, s)
    BY <1>13
  <2>2. /\ Moves(w, s, CopyParts(s.at, s.what, "copyIndicator"))
        /\ RowsKept /\ Unwritten /\ Frame
    BY <2>1, ReadIndicatorsKeeps
  <2>3. "readIndicators" \in Readings /\ "copyIndicator" \in Copyings
    BY DEF Readings, Copyings
  <2>4. QED
    BY <2>1, <2>2, <2>3, ForgottenAfterReading
<1>14. CASE \E s \in Ready(w, "readPeriods") : ReadPeriods(w, s)
  <2>1. PICK s \in Ready(w, "readPeriods") : ReadPeriods(w, s)
    BY <1>14
  <2>2. /\ Moves(w, s, CopyParts(s.at, s.what, "copyPeriod"))
        /\ RowsKept /\ Unwritten /\ Frame
    BY <2>1, ReadPeriodsKeeps
  <2>3. "readPeriods" \in Readings /\ "copyPeriod" \in Copyings
    BY DEF Readings, Copyings
  <2>4. QED
    BY <2>1, <2>2, <2>3, ForgottenAfterReading
<1>15. CASE \E s \in Ready(w, "copyIndicator") : CopyIndicator(w, s)
  <2>1. PICK s \in Ready(w, "copyIndicator") : CopyIndicator(w, s)
    BY <1>15
  <2> DEFINE b == Do("readPeriods", s.at, s.what, 0)
             M == {Do("saveAgain", s.at, s.what, s.text)} \cup
                  (IF <<s.at, s.what>> \in linked THEN {} ELSE {b})
  <2>2. /\ Moves(w, s, M) /\ OnlyRows /\ UNCHANGED chosen
        /\ <<s.at, s.what>> \in linked => RowsKept
        /\ <<s.at, s.what>> \notin linked =>
              CopiesMade(s.at, s.what, Reach(s.at, Owner[s.what]))
    BY <2>1, CopyIndicatorKeeps
  <2>3. b.op = "readPeriods" /\ b.at = s.at /\ b.what = s.what
    BY DoFields
  <2>4. <<s.at, s.what>> \notin linked => b \in M
    OBVIOUS
  <2> HIDE DEF b, M
  <2>5. "copyIndicator" \in Copyings
    BY DEF Copyings
  <2>6. QED
    BY <2>1, <2>2, <2>3, <2>4, <2>5, ForgottenAfterCopy
<1>16. CASE \E s \in Ready(w, "copyPeriod") : CopyPeriod(w, s)
  <2>1. PICK s \in Ready(w, "copyPeriod") : CopyPeriod(w, s)
    BY <1>16
  <2> DEFINE M == {}
  <2>2. /\ Moves(w, s, M) /\ OnlyRows /\ UNCHANGED chosen
        /\ <<s.at, s.what>> \in linked => RowsKept
        /\ <<s.at, s.what>> \notin linked =>
              CopiesMade(s.at, s.what, Reach(s.at, Owner[s.what]))
    BY <2>1, CopyPeriodKeeps
  <2> HIDE DEF M
  <2>3. "copyPeriod" \in Copyings
    BY DEF Copyings
  <2>4. s.what \in Period
    BY <2>1, ReadyStep DEF StepReady
  <2>5. QED
    BY <2>1, <2>2, <2>3, <2>4, ForgottenAfterCopy
<1>17. CASE \E s \in Ready(w, "insertResult") : InsertResult(w, s)
  BY <1>17, ForgottenAfterInsertResult
<1>18. CASE \E s \in Ready(w, "requireResult") : RequireResult(w, s)
  BY <1>18, ForgottenAfterRequireResult
<1>19. CASE \E s \in Ready(w, "commit") : CommitInserted(w, s)
  BY <1>19, ForgottenAfterCommit
<1>20. QED
  BY <1>1, <1>2, <1>3, <1>4, <1>5, <1>6, <1>7, <1>8, <1>9, <1>10, <1>11, <1>12, <1>13, <1>14, <1>15, <1>16, <1>17, <1>18, <1>19, <1>21 DEF WorkerStep

\* Every step.
LEMMA ForgottenNext ==
    ASSUME Core, Orders, NotYetThere, AllInserted, NothingForgotten, [Next]_vars
    PROVE  NothingForgotten'
<1>1. CASE \E w \in Worker : WorkerStep(w)
  BY <1>1, ForgottenAfterStep
<1>2. CASE \E w \in Worker : Requests(w)
  <2>1. PICK w \in Worker : Requests(w)
    BY <1>2
  <2>2. PICK Q : WellAsked(w, Q)
    BY <2>1, RequestAsks
  <2>3. /\ Pending(w) = {} /\ parentOf' = parentOf /\ linked' = linked /\ Rows' = Rows
        /\ chosen' = chosen /\ crashes' = crashes /\ overlooked' = overlooked
        /\ \A v \in Worker : v # w => Pending(v)' = Pending(v)
    BY <2>2 DEF WellAsked, Asks, RowsKept
  <2>4. \A c, y : Covered(c, y) => Covered(c, y)'
    BY <2>3 DEF Covered, Covers
  <2>5. QED
    BY <2>3, <2>4 DEF NothingForgotten, OneAtATime, AtParent
<1>3. CASE \E w \in Worker : Crash(w)
  <2>1. crashes' # 0
    BY <1>3, CrashKeeps
  <2>2. QED
    BY <2>1 DEF NothingForgotten
<1>4. CASE UNCHANGED vars
  <2>1. UNCHANGED <<parentOf, linked, chosen, crashes, overlooked>> /\ Rows' = Rows
        /\ \A w : Pending(w)' = Pending(w)
    BY <1>4 DEF vars, Pending, Rows
  <2>2. \A c, y : Covered(c, y) => Covered(c, y)'
    BY <2>1 DEF Covered, Covers
  <2>3. QED
    BY <2>1, <2>2 DEF NothingForgotten, OneAtATime, AtParent
<1>5. QED
  BY <1>1, <1>2, <1>3, <1>4, NextKinds

(* Results that are coming ----------------------------------------------------*)

Inserts(a, c, r) == a.op \in Insertions /\ a.at = c /\ a.what = r
Fetches(a, c, r) == a.op \in {"takeResult", "insertResult"} /\ a.at = c /\ a.what = r

\* A step keeps it if what is missing from now on is brought by the step, or to be
\* done by the same worker.
LEMMA ComingKept ==
    ASSUME Core, Orders, ResultsComing, NEW w \in Worker, NEW s \in Pending(w), NEW M,
           Moves(w, s, M), linked \subseteq linked', crashes' = crashes,
           \A a \in M : a.op \notin Asked,
           OneAtATime /\ crashes = 0 =>
               \A c \in imported' : \A r \in Result :
                   AtParent(c, r)' /\ <<c, r>> \notin linked' =>
                       \/ c \in imported /\ AtParent(c, r) /\
                             (Inserts(s, c, r) => \E a \in M : Inserts(a, c, r))
                       \/ \E a \in M : Inserts(a, c, r)
                       \/ \E a \in Pending(w) : a # s /\ Inserts(a, c, r),
           OneAtATime /\ crashes = 0 =>
               \A t \in Pending(w) : \A r \in Result :
                   t.op = "copyDefaults" /\ MayWait(parentOf, s, t) =>
                       (AtParent(t.at, r)' /\ <<t.at, r>> \notin linked' =>
                            \/ /\ AtParent(t.at, r) /\ (s.op = "readResults" => s.at # t.at)
                               /\ Fetches(s, t.at, r) => \E a \in M : Fetches(a, t.at, r)
                            \/ \E a \in M : Fetches(a, t.at, r))
    PROVE  ResultsComing'
<1>1. parentOf' = parentOf
  BY AfterMoving
<1>2. SUFFICES ASSUME OneAtATime, crashes = 0
               PROVE  /\ \A c \in imported' : \A r \in Result :
                            AtParent(c, r)' /\ <<c, r>> \notin linked' =>
                               \E v \in Worker : \E a \in Pending(v)' : Inserts(a, c, r)
                      /\ \A v \in Worker : \A t \in Pending(v)' : t.op = "copyDefaults" =>
                            \/ \E a \in Pending(v)' : a.op = "readResults" /\ a.at = t.at
                            \/ \A r \in Result : AtParent(t.at, r)' /\ <<t.at, r>> \notin linked' =>
                                  \E a \in Pending(v)' : Fetches(a, t.at, r)
  BY <1>1 DEF ResultsComing, OneAtATime, Inserts, Fetches
<1>3. \A v \in Worker : v # w => Pending(v) = {} /\ Pending(v)' = {}
  BY <1>2, AfterMoving, OthersIdle DEF Orders
<1>4. ASSUME NEW c \in imported', NEW r \in Result, AtParent(c, r)', <<c, r>> \notin linked'
      PROVE  \E a \in Pending(w)' : Inserts(a, c, r)
  <2>1. CASE \E a \in M : Inserts(a, c, r)
    BY <2>1, AfterMoving
  <2>2. CASE \E a \in Pending(w) : a # s /\ Inserts(a, c, r)
    BY <2>2, AfterMoving
  <2>3. CASE /\ c \in imported /\ AtParent(c, r)
             /\ Inserts(s, c, r) => \E a \in M : Inserts(a, c, r)
    <3>1. PICK v \in Worker : \E a \in Pending(v) : Inserts(a, c, r)
      BY <1>2, <1>4, <2>3 DEF ResultsComing, Inserts
    <3>2. PICK a \in Pending(w) : Inserts(a, c, r)
      BY <1>3, <3>1
    <3>3. QED
      BY <2>1, <2>2, <2>3, <3>2
  <2>4. QED
    BY <1>2, <1>4, <2>1, <2>2, <2>3
<1>5. ASSUME NEW t \in Pending(w)', t.op = "copyDefaults",
             \A a \in Pending(w)' : ~(a.op = "readResults" /\ a.at = t.at),
             NEW r \in Result, AtParent(t.at, r)', <<t.at, r>> \notin linked'
      PROVE  \E a \in Pending(w)' : Fetches(a, t.at, r)
  <2>1. t \in Pending(w) /\ MayWait(parentOf, s, t)
    BY <1>5, AfterMoving DEF Asked
  <2>2. CASE \E a \in M : Fetches(a, t.at, r)
    BY <2>2, AfterMoving
  <2>3. CASE /\ AtParent(t.at, r) /\ (s.op = "readResults" => s.at # t.at)
             /\ Fetches(s, t.at, r) => \E a \in M : Fetches(a, t.at, r)
    <3>1. \A a \in Pending(w) : ~(a.op = "readResults" /\ a.at = t.at)
      BY <1>5, <2>3, AfterMoving
    <3>2. PICK a \in Pending(w) : Fetches(a, t.at, r)
      BY <1>2, <1>5, <2>1, <2>3, <3>1 DEF ResultsComing, Fetches
    <3>3. QED
      BY <2>2, <2>3, <3>2, AfterMoving
  <2>4. QED
    BY <1>2, <1>5, <2>1, <2>2, <2>3
<1>6. QED
  BY <1>3, <1>4, <1>5

\* Steps that leave results, and who imported them, alone.
LEMMA ComingOtherwise ==
    ASSUME Core, Orders, ResultsComing, NEW w \in Worker, NEW s \in Pending(w), NEW M,
           Goes(w, s, M), s.op \notin OfResults
    PROVE  ResultsComing'
<1>1. /\ Moves(w, s, M) /\ linked \subseteq linked' /\ crashes' = crashes
      /\ parentOf' = parentOf /\ imported' = imported
      /\ \A a \in M : a.op \notin Asked
      /\ \A x \in Rows' \ Rows : x[2] \notin Result
  BY DEF Goes, OfNoResult, Frame
<1>2. \A c : \A r \in Result : AtParent(c, r)' => AtParent(c, r)
  BY <1>1 DEF AtParent
<1>3. \A c, r : ~Inserts(s, c, r) /\ ~Fetches(s, c, r)
  BY DEF Inserts, Fetches, OfResults, Takings, Insertions
<1>4. s.op # "readResults"
  BY DEF OfResults
<1>5. QED
  BY <1>1, <1>2, <1>3, <1>4, ComingKept

\* All results of the parent are taken.
LEMMA ComingAfterReadResults ==
    ASSUME Core, Orders, ResultsComing, NEW w \in Worker, NEW s \in Ready(w, "readResults"),
           ReadResults(w, s)
    PROVE  ResultsComing'
<1> DEFINE p == parentOf[s.at]
           R == {x \in Result : <<p, x>> \in Rows}
           M == ForRows("takeResult", s.at, R, p)
<1>1. /\ RowsKept /\ Moves(w, s, M) /\ s \in Pending(w) /\ s.op = "readResults"
      /\ Unwritten /\ Frame
  BY ReadResultsKeeps, ReadyStep
<1>2. \A r \in Result : AtParent(s.at, r) => r \in R
  BY DEF AtParent
<1> HIDE DEF p, R
<1>3. /\ \A a \in M : a.op = "takeResult" /\ a.at = s.at
      /\ \A x \in R : \E a \in M : a.what = x
  BY ForRowsFacts
<1> HIDE DEF M
<1>4. \A a \in M : a.op \notin Asked
  BY <1>3, GoesOps
<1>5. /\ linked' = linked /\ Rows' = Rows /\ crashes' = crashes /\ parentOf' = parentOf
      /\ imported' = imported
  BY <1>1 DEF RowsKept, Unwritten, Frame
<1>6. \A c, r : AtParent(c, r)' => AtParent(c, r)
  BY <1>5 DEF AtParent
<1>7. \A r \in Result : AtParent(s.at, r) => \E a \in M : Fetches(a, s.at, r)
  BY <1>2, <1>3 DEF Fetches
<1>8. \A c, r : ~Inserts(s, c, r) /\ ~Fetches(s, c, r)
  BY <1>1 DEF Inserts, Fetches, Insertions
<1>9. QED
  BY <1>1, <1>4, <1>5, <1>6, <1>7, <1>8, ComingKept

\* A result that is taken is there or will be inserted.
LEMMA ComingAfterTakeResult ==
    ASSUME Core, Orders, ResultsComing, NEW w \in Worker, NEW s \in Ready(w, "takeResult"),
           TakeResult(w, s)
    PROVE  ResultsComing'
<1> DEFINE b == Do("insertResult", s.at, s.what, s.text)
           M == IF <<s.at, s.what>> \in linked THEN {} ELSE {b}
<1>1. /\ RowsKept /\ Moves(w, s, M) /\ s \in Pending(w) /\ s.op = "takeResult"
      /\ Unwritten /\ Frame
  BY TakeResultKeeps, ReadyStep
<1>2. b.op = "insertResult" /\ b.at = s.at /\ b.what = s.what
  BY DoFields
<1> HIDE DEF b
<1>3. (\A a \in M : a = b) /\ (<<s.at, s.what>> \notin linked => b \in M)
  OBVIOUS
<1> HIDE DEF M
<1>4. \A a \in M : a.op \notin Asked
  BY <1>2, <1>3, GoesOps
<1>5. /\ linked' = linked /\ Rows' = Rows /\ crashes' = crashes /\ parentOf' = parentOf
      /\ imported' = imported
  BY <1>1 DEF RowsKept, Unwritten, Frame
<1>6. \A c, r : AtParent(c, r)' => AtParent(c, r)
  BY <1>5 DEF AtParent
<1>7. \A c, r : ~Inserts(s, c, r)
  BY <1>1 DEF Inserts, Insertions
<1>8. \A c, r : Fetches(s, c, r) /\ <<c, r>> \notin linked => \E a \in M : Fetches(a, c, r)
  BY <1>2, <1>3 DEF Fetches
<1>9. QED
  BY <1>1, <1>4, <1>5, <1>6, <1>7, <1>8, ComingKept

\* Who has imported takes what is offered.
LEMMA ComingAfterOffer ==
    ASSUME Core, Orders, ResultsComing, NEW w \in Worker, NEW s \in Ready(w, "offer"),
           Offer(w, s)
    PROVE  ResultsComing'
<1> DEFINE b == Do("insertResult", s.at, s.what, s.text)
           M == IF HasImportedResults(s.at) THEN {b} ELSE {}
<1>1. /\ RowsKept /\ Moves(w, s, M) /\ s \in Pending(w) /\ s.op = "offer"
      /\ Unwritten /\ Frame
  BY OfferKeeps, ReadyStep
<1>2. b.op = "insertResult" /\ b.at = s.at /\ b.what = s.what
  BY DoFields
<1> HIDE DEF b
<1>3. (\A a \in M : a = b) /\ (HasImportedResults(s.at) => b \in M)
  OBVIOUS
<1> HIDE DEF M
<1>4. \A a \in M : a.op \notin Asked
  BY <1>2, <1>3, GoesOps
<1>5. /\ linked' = linked /\ Rows' = Rows /\ crashes' = crashes /\ parentOf' = parentOf
      /\ imported' = imported
  BY <1>1 DEF RowsKept, Unwritten, Frame
<1>6. \A c, r : AtParent(c, r)' => AtParent(c, r)
  BY <1>5 DEF AtParent
<1>7. s.op # "readResults" /\ \A c, r : ~Fetches(s, c, r)
  BY <1>1 DEF Fetches
<1>8. \A c \in imported, r \in Result : Inserts(s, c, r) => \E a \in M : Inserts(a, c, r)
  BY <1>2, <1>3 DEF Inserts, Insertions, Orders, ImportedHaveResults
<1>9. QED
  BY <1>1, <1>4, <1>5, <1>6, <1>7, <1>8, ComingKept

\* The project of a default period's import is not below the project of a step it
\* waits for.
LEMMA WaitingBelow ==
    ASSUME Core, NEW w \in Worker, NEW s \in Pending(w), NEW t \in Pending(w),
           t.op = "copyDefaults", MayWait(parentOf, s, t)
    PROVE  parentOf[t.at] # s.at
<1>1. t.at \in Project
  BY StepsAreSteps DEF Core, Step
<1>2. s.at \in {t.at} \cup BelowAll(t.at)
  BY DEF MayWait, BelowAll, Below
<1>3. parentOf[t.at] \notin {t.at} \cup BelowAll(t.at)
  BY <1>1, BelowAllFacts DEF Core, TypeOK
<1>4. QED
  BY <1>2, <1>3

\* A result that is inserted is offered to the children.
LEMMA ComingAfterInsertResult ==
    ASSUME Core, Orders, NotYetThere, ResultsComing, NEW w \in Worker,
           NEW s \in Ready(w, "insertResult"), InsertResult(w, s)
    PROVE  ResultsComing'
<1> DEFINE C == Children(s.at)
           F == ForProjects("offer", C, s.what, s.text)
           b == Do("readIndicators", s.at, s.what, 0)
           M == F \cup {b}
<1>1. s \in Pending(w) /\ s.op = "insertResult"
  BY ReadyStep
<1>2. CASE <<s.at, s.what>> \in Rows
  <2>1. parentOf' = parentOf
    BY <1>2, InsertResultKeeps DEF Frame
  <2>2. ~OneAtATime
    BY <1>1, <1>2 DEF NotYetThere, Insertions
  <2>3. QED
    BY <2>1, <2>2 DEF ResultsComing, OneAtATime
<1>3. CASE <<s.at, s.what>> \notin Rows
  <2>1. Moves(w, s, M) /\ OnlyRows /\ CopiesMade(s.at, s.what, {s.at})
    BY <1>3, InsertResultKeeps
  <2>2. {s.at} \X {s.what} = {<<s.at, s.what>>}
    OBVIOUS
  <2>3. /\ Rows' = Rows \cup {<<s.at, s.what>>} /\ linked' = linked \cup {<<s.at, s.what>>}
        /\ crashes' = crashes /\ parentOf' = parentOf /\ imported' = imported
        /\ linked \subseteq linked'
    BY <2>1, <2>2 DEF CopiesMade, OnlyRows, Frame
  <2>4. \A c \in Project : parentOf[c] = s.at => c \in C
    BY DEF Children
  <2>5. b.op = "readIndicators"
    BY DoFields
  <2> HIDE DEF C, b
  <2>6. \A a \in F : a.op = "offer"
    BY ForProjectsFacts
  <2>7. \A c \in C : \E a \in F : a.op = "offer" /\ a.at = c /\ a.what = s.what
    <3>1. \A c \in C : Do("offer", c, s.what, s.text) \in F
      BY ForProjectsFacts
    <3>2. QED
      BY <3>1, DoFields
  <2> HIDE DEF F
  <2>8. \A a \in M : a.op \notin Asked
    BY <2>5, <2>6, GoesOps
  <2>9. F \subseteq M
    OBVIOUS
  <2> HIDE DEF M
  <2>10. \A c, r : AtParent(c, r)' => AtParent(c, r) \/ (parentOf[c] = s.at /\ r = s.what)
    BY <2>3 DEF AtParent
  <2>11. \A c, r : Inserts(s, c, r) \/ Fetches(s, c, r) => <<c, r>> \in linked'
    BY <2>3 DEF Inserts, Fetches
  <2>12. \A c \in imported', r \in Result :
             parentOf[c] = s.at /\ r = s.what => \E a \in M : Inserts(a, c, r)
    BY <2>3, <2>4, <2>7, <2>9 DEF Inserts, Insertions, Core, TypeOK
  <2>13. \A t \in Pending(w) : t.op = "copyDefaults" /\ MayWait(parentOf, s, t) =>
             parentOf[t.at] # s.at
    BY <1>1, WaitingBelow
  <2>14. QED
    BY <1>1, <2>1, <2>3, <2>8, <2>10, <2>11, <2>12, <2>13, ComingKept
<1>4. QED
  BY <1>2, <1>3

\* A new result is committed with all its copies at the projects that have imported.
LEMMA ComingAfterCommit ==
    ASSUME Core, Orders, AllInserted, ResultsComing, NEW w \in Worker,
           NEW s \in Ready(w, "commit"), CommitInserted(w, s)
    PROVE  ResultsComing'
<1>1. s \in Pending(w) /\ s.op = "commit" /\ s.at \in Project
  BY ReadyStep
<1>2. PICK I : I = inserted[w]
  OBVIOUS
<1>3. /\ Pending(w) = {s} /\ Pending(w)' = {} /\ ToCommit(w, s)
      /\ \A v \in Worker : v # w => Pending(v)' = Pending(v)
      /\ Rows' = Rows \cup I /\ linked' = linked \cup {x \in I : x[1] # s.at}
      /\ parentOf' = parentOf /\ imported' = imported /\ crashes' = crashes
  BY <1>2, CommitKeeps DEF Moves
<1>4. /\ I \subseteq Project \X Item
      /\ \A x \in I : /\ x[2] = s.what \/ (x[2] \in Default /\ Owner[x[2]] = s.what)
                      /\ x[1] # s.at => x[1] \in BelowAll(s.at)
  BY <1>2, <1>3 DEF ToCommit, NewRow, Core, TypeOK
<1>5. SUFFICES ASSUME OneAtATime, crashes = 0
               PROVE  /\ \A c \in imported : \A r \in Result :
                            AtParent(c, r)' => <<c, r>> \in linked'
                      /\ \A v \in Worker : Pending(v)' = {}
  BY <1>3 DEF ResultsComing, OneAtATime
<1>6. \A v \in Worker : v # w => Pending(v) = {}
  BY <1>1, <1>5, OthersIdle DEF Orders
<1>7. \A v \in Worker : Pending(v)' = {}
  BY <1>3, <1>6
<1>8. ASSUME NEW c \in imported, NEW r \in Result, AtParent(c, r)'
      PROVE  <<c, r>> \in linked'
  <2>1. c \in Project /\ <<parentOf[c], r>> \in Rows \cup I
    BY <1>3, <1>8 DEF AtParent, Core, TypeOK
  <2>2. CASE <<parentOf[c], r>> \in Rows
    <3>1. \/ <<c, r>> \in linked
          \/ \E v \in Worker : \E a \in Pending(v) : a.op \in Insertions
      BY <1>5, <2>2 DEF ResultsComing, AtParent
    <3>2. \A v \in Worker : \A a \in Pending(v) : a = s
      BY <1>3, <1>6
    <3>3. s.op \notin Insertions
      BY <1>1 DEF Insertions
    <3>4. QED
      BY <1>3, <3>1, <3>2, <3>3
  <2>3. CASE <<parentOf[c], r>> \in I
    <3>1. r \notin Default
      BY FrameworkAssumption
    <3>2. /\ r = s.what
          /\ parentOf[c] = s.at \/ parentOf[c] \in BelowAll(s.at)
      BY <1>4, <2>3, <3>1
    <3>3. HasImportedResults(c)
      BY DEF Orders, ImportedHaveResults
    <3>4. Linked(c, s.what)
      BY <3>2, <3>3 DEF Linked
    <3>5. PICK p : p = parentOf[c]
      OBVIOUS
    <3>6. <<c, r>> \in I
      BY <1>1, <1>2, <1>5, <2>1, <2>3, <3>4 DEF AllInserted
    <3>7. parentOf[c] \notin {c} \cup BelowAll(c)
      BY <2>1, BelowAllFacts DEF Core, TypeOK
    <3>8. c # s.at
      BY <3>2, <3>7
    <3>9. QED
      BY <1>3, <3>6, <3>8
  <2>4. QED
    BY <2>1, <2>2, <2>3
<1>9. QED
  BY <1>7, <1>8

\* A result that is required comes to all below that have imported.
LEMMA ComingAfterRequireResult ==
    ASSUME Core, Orders, ResultsComing, NEW w \in Worker,
           NEW s \in Ready(w, "requireResult"), RequireResult(w, s)
    PROVE  ResultsComing'
<1> DEFINE r == Owner[s.what]
           T == {c \in Project : HasImportedResults(c)}
           D == ReachOfResults(s.at)
           M == {Do("importIndicator", s.at, s.what, s.text)}
<1>1. /\ Moves(w, s, M) /\ OnlyRows /\ s \in Pending(w) /\ s.op = "requireResult"
      /\ <<s.at, r>> \in linked => RowsKept
      /\ <<s.at, r>> \notin linked => CopiesMade(s.at, r, D)
  BY RequireResultKeeps, ReadyStep
<1>2. \A a \in M : a.op = "importIndicator"
  BY DoFields
<1> HIDE DEF M
<1>3. \A a \in M : a.op \notin Asked
  BY <1>2, GoesOps
<1>4. crashes' = crashes /\ parentOf' = parentOf /\ imported' = imported
  BY <1>1 DEF OnlyRows, Frame
<1>5. imported \subseteq T /\ T \in SUBSET Project
  BY DEF Orders, ImportedHaveResults, Core, TypeOK
<1>11. D = {s.at} \cup Below(s.at, T)
  BY DEF ReachOfResults
<1> HIDE DEF T, D
<1>6. \A c \in imported : parentOf[c] \in D => c \in D
  BY <1>5, <1>11, BelowFacts
<1> HIDE DEF D, r
<1>7. linked \subseteq linked' /\
      \A c \in imported, x \in Result :
          AtParent(c, x)' /\ <<c, x>> \notin linked' => AtParent(c, x)
  <2>1. CASE <<s.at, r>> \in linked
    BY <1>1, <1>4, <2>1 DEF RowsKept, AtParent
  <2>2. CASE <<s.at, r>> \notin linked
    BY <1>1, <1>4, <1>6, <2>2 DEF CopiesMade, AtParent
  <2>3. QED
    BY <2>1, <2>2
<1>8. \A c, x : ~Inserts(s, c, x)
  BY <1>1 DEF Inserts, Insertions
<1>9. \A t \in Pending(w) : ~MayWait(parentOf, s, t)
  BY <1>1 DEF MayWait
<1>10. QED
  BY <1>1, <1>3, <1>4, <1>7, <1>8, <1>9, ComingKept

\* An import has ended when nothing waits before its default periods.
LEMMA ComingAfterCopyDefaults ==
    ASSUME Core, Orders, ResultsComing, NEW w \in Worker,
           NEW s \in Ready(w, "copyDefaults"), CopyDefaults(w, s)
    PROVE  ResultsComing'
<1> DEFINE M == {}
<1>1. /\ Moves(w, s, M) /\ RowsKept /\ Frame /\ s \in Pending(w) /\ s.op = "copyDefaults"
  BY CopyDefaultsKeeps, ReadyStep
<1>2. \A a \in M : FALSE
  OBVIOUS
<1> HIDE DEF M
<1>3. /\ linked' = linked /\ Rows' = Rows /\ crashes' = crashes /\ parentOf' = parentOf
      /\ imported' \subseteq imported \cup {s.at}
  BY <1>1 DEF CopyDefaults, RowsKept, Frame
<1>4. \A c, r : AtParent(c, r)' => AtParent(c, r)
  BY <1>3 DEF AtParent
<1>5. \A t \in Pending(w) : t # s => FALSE
  BY <1>1, AfterMoving DEF MayWait
<1>6. OneAtATime /\ crashes = 0 => \A r \in Result : AtParent(s.at, r) => <<s.at, r>> \in linked
  BY <1>1, <1>5 DEF ResultsComing
<1>7. \A c, r : ~Inserts(s, c, r)
  BY <1>1 DEF Inserts, Insertions
<1>8. \A t \in Pending(w) : ~MayWait(parentOf, s, t)
  BY <1>1 DEF MayWait
<1>9. QED
  BY <1>1, <1>2, <1>3, <1>4, <1>6, <1>7, <1>8, ComingKept

\* Every step.
LEMMA ComingNext ==
    ASSUME Core, Orders, NotYetThere, AllInserted, ResultsComing, [Next]_vars
    PROVE  ResultsComing'
<1>1. CASE \E w \in Worker : WorkerStep(w)
  <2>1. PICK w \in Worker : WorkerStep(w)
    BY <1>1
  <2>2. CASE OtherSteps(w)
    BY <2>2, OtherStepGoes, ComingOtherwise
  <2>3. CASE ResultSteps(w)
    BY <2>3, ComingAfterReadResults, ComingAfterTakeResult, ComingAfterOffer,
       ComingAfterInsertResult, ComingAfterRequireResult, ComingAfterCopyDefaults
       DEF ResultSteps
  <2>4. CASE \E s : Commits(w, s)
    BY <2>4, ComingAfterCommit DEF Commits
  <2>5. QED
    BY <2>1, <2>2, <2>3, <2>4, WorkerStepKinds
<1>2. CASE \E w \in Worker : Requests(w)
  <2>1. PICK w \in Worker : Requests(w)
    BY <1>2
  <2>2. PICK Q : WellAsked(w, Q)
    BY <2>1, RequestAsks
  <2>3. /\ Pending(w)' = Q /\ parentOf' = parentOf /\ linked' = linked /\ Rows' = Rows
        /\ imported' = imported /\ crashes' = crashes
        /\ \A v \in Worker : v # w => Pending(v)' = Pending(v)
        /\ OneAtATime => \A v \in Worker : Pending(v) = {}
        /\ \A a \in Q : a.op = "copyDefaults" => \E b \in Q : b.op = "readResults" /\ b.at = a.at
    BY <2>2 DEF WellAsked, Asks, RowsKept
  <2>4. SUFFICES ASSUME OneAtATime, crashes = 0
                 PROVE  /\ \A c \in imported : \A r \in Result :
                              AtParent(c, r) => <<c, r>> \in linked
                        /\ \A v \in Worker : \A t \in Pending(v)' : t.op = "copyDefaults" =>
                              \E a \in Pending(v)' : a.op = "readResults" /\ a.at = t.at
    BY <2>3 DEF ResultsComing, OneAtATime, AtParent
  <2>5. \A c \in imported : \A r \in Result : AtParent(c, r) => <<c, r>> \in linked
    BY <2>3, <2>4 DEF ResultsComing
  <2>6. QED
    BY <2>3, <2>4, <2>5
<1>3. CASE \E w \in Worker : Crash(w)
  <2>1. crashes' # 0
    BY <1>3, CrashKeeps
  <2>2. QED
    BY <2>1 DEF ResultsComing
<1>4. CASE UNCHANGED vars
  <2>1. UNCHANGED <<parentOf, linked, imported, crashes>> /\ Rows' = Rows
        /\ \A w : Pending(w)' = Pending(w)
    BY <1>4 DEF vars, Pending, Rows
  <2>2. QED
    BY <2>1 DEF ResultsComing, OneAtATime, AtParent
<1>5. QED
  BY <1>1, <1>2, <1>3, <1>4, NextKinds

(* The repair ------------------------------------------------------------------*)

\* What the steps of the repair are to restore depends on the hierarchy only.
LEMMA RestoresKept ==
    ASSUME parentOf' = parentOf
    PROVE  \A a, c, y : Restores(a, c, y)' <=> Restores(a, c, y)
BY DEF Restores, BelowAll, Below

\* While the repair runs there are only its steps, and it has not ended while there
\* is any step.
LEMMA WhileRunning ==
    ASSUME Core, Restoring, NEW w \in Worker, NEW op, NEW s \in Ready(w, op)
    PROVE  /\ repair # "done"
           /\ repair = "running" =>
                 /\ \A v \in Worker : v # w => Idle(v)
                 /\ op \in Repairing \cup {"fixed"}
                 /\ \E t \in Pending(w) : t.op = "fixed"
                 /\ \A c \in Project : \A y \in Period : Lacking(c, y) =>
                       \E a \in Pending(w) : Restores(a, c, y)
<1>1. /\ s.op = op /\ s \in Head(todo[w]) /\ todo[w] # <<>> /\ todo[w] \in Lists
      /\ ~Idle(w)
  BY ReadyStep DEF Idle
<1>2. repair # "done"
  BY <1>1 DEF Restoring, Quiet
<1>3. ASSUME repair = "running"
      PROVE  /\ \A v \in Worker : v # w => Idle(v)
             /\ op \in Repairing \cup {"fixed"}
             /\ \E t \in Pending(w) : t.op = "fixed"
             /\ \A c \in Project : \A y \in Period : Lacking(c, y) =>
                   \E a \in Pending(w) : Restores(a, c, y)
  <2>1. /\ \A v \in Worker : v # w => Idle(v)
        /\ \E t \in Pending(w) : t.op = "fixed"
        /\ \A c \in Project : \A y \in Period : Lacking(c, y) =>
              \E a \in Pending(w) : Restores(a, c, y)
    BY <1>1, <1>3 DEF Restoring
  <2>2. PICK t \in Pending(w) : t.op = "fixed"
    BY <2>1
  <2>3. Orderly(parentOf, todo[w])
    BY DEF Core, InOrder
  <2>4. t = s \/ MayWait(parentOf, s, t)
    BY <1>1, <2>3, HeadAndTail DEF Pending
  <2>5. op \in Repairing \cup {"fixed"}
    BY <1>1, <2>2, <2>4 DEF MayWait
  <2>6. QED
    BY <2>1, <2>5
<1>4. QED
  BY <1>2, <1>3

\* A step of the repair keeps it if it brings what it was to restore and has not.
LEMMA RestoringKept ==
    ASSUME Core, Restoring, repair = "running", repair' = repair,
           NEW w \in Worker, NEW op, NEW s \in Ready(w, op), op # "fixed",
           NEW M, Moves(w, s, M),
           \A c \in Project : \A y \in Period : Lacking(c, y)' => Lacking(c, y),
           \A c \in Project : \A y \in Period :
               Lacking(c, y)' /\ Restores(s, c, y) => \E a \in M : Restores(a, c, y)
    PROVE  Restoring'
<1>1. /\ \A v \in Worker : v # w => Idle(v)
      /\ \E t \in Pending(w) : t.op = "fixed"
      /\ \A c \in Project : \A y \in Period : Lacking(c, y) =>
            \E a \in Pending(w) : Restores(a, c, y)
  BY WhileRunning
<1>2. s.op = op /\ s \in Pending(w)
  BY ReadyStep
<1>3. /\ \A t \in Pending(w) : t # s => t \in Pending(w)'
      /\ M \subseteq Pending(w)'
      /\ \A v \in Worker : v # w => todo'[v] = todo[v]
      /\ parentOf' = parentOf
  BY <1>2, AfterMoving
<1>4. \A v \in Worker : v # w => Idle(v)'
  BY <1>1, <1>3 DEF Idle
<1>5. \E t \in Pending(w)' : t.op = "fixed"
  BY <1>1, <1>2, <1>3
<1>6. ASSUME NEW c \in Project, NEW y \in Period, Lacking(c, y)'
      PROVE  \E a \in Pending(w)' : Restores(a, c, y)'
  <2>1. PICK a \in Pending(w) : Restores(a, c, y)
    BY <1>1, <1>6
  <2>2. \E b \in Pending(w)' : Restores(b, c, y)
    BY <1>3, <1>6, <2>1
  <2>3. QED
    BY <1>3, <2>2, RestoresKept
<1>7. QED
  BY <1>4, <1>5, <1>6 DEF Restoring

\* Where the rows are the same, the same is lacking.
LEMMA LackingKept ==
    ASSUME RowsKept, parentOf' = parentOf, root' = root
    PROVE  \A c, y : Lacking(c, y)' <=> Lacking(c, y)
<1>1. Rows' = Rows /\ linked' = linked
  BY DEF RowsKept
<1>2. QED
  BY <1>1 DEF Lacking, NoneOfItsOwn, AtParent, BelowAll, Below

\* walk_hierarchy reaches every project below.
LEMMA RestoringAfterWalk ==
    ASSUME Core, Restoring, repair = "running", NEW w \in Worker, NEW s \in Ready(w, "walk"),
           Walk(w, s)
    PROVE  Restoring'
<1> DEFINE C == Children(s.at)
           N == IF C = {} THEN {s.at} ELSE C
           F == ForProjects("fixProject", N, NoItem, 0)
           G == ForProjects("walk", C, NoItem, 0)
<1>1. RowsKept /\ Moves(w, s, F \cup G) /\ Unwritten /\ Frame
  BY WalkKeeps
<1>2. s.op = "walk"
  BY ReadyStep
<1>3. \A d \in BelowAll(s.at) : \E c \in C : d \in {c} \cup BelowAll(c)
  BY BelowAllFacts DEF Core, TypeOK
<1>4. C \subseteq N
  OBVIOUS
<1> HIDE DEF C, N
<1>5. \A c \in C : \E a \in F \cup G : a.op = "fixProject" /\ a.at = c
  <2>1. \A c \in N : Do("fixProject", c, NoItem, 0) \in F
    BY ForProjectsFacts
  <2>2. QED
    BY <1>4, <2>1, DoFields
<1>6. \A c \in C : \E a \in F \cup G : a.op = "walk" /\ a.at = c
  <2>1. \A c \in C : Do("walk", c, NoItem, 0) \in G
    BY ForProjectsFacts
  <2>2. QED
    BY <2>1, DoFields
<1> DEFINE M == F \cup G
<1> HIDE DEF F, G, M
<1>7. \A c, y : Restores(s, c, y) => \E a \in M : Restores(a, c, y)
  BY <1>2, <1>3, <1>5, <1>6 DEF Restores, M
<1>8. parentOf' = parentOf /\ root' = root /\ repair' = repair
  BY <1>1 DEF Unwritten, Frame
<1>9. \A c, y : Lacking(c, y)' => Lacking(c, y)
  BY <1>1, <1>8, LackingKept
<1>10. Moves(w, s, M)
  BY <1>1 DEF M
<1>11. QED
  BY <1>7, <1>8, <1>9, <1>10, RestoringKept

\* The indicators of a project that have a parent are looked at.
LEMMA RestoringAfterFixProject ==
    ASSUME Core, Restoring, repair = "running", NEW w \in Worker,
           NEW s \in Ready(w, "fixProject"), FixProject(w, s)
    PROVE  Restoring'
<1> DEFINE I == {x \in Indicator : <<s.at, x>> \in linked}
           M == ForItems("fixIndicator", s.at, I, 0)
<1>1. RowsKept /\ Moves(w, s, M) /\ Unwritten /\ Frame
  BY FixProjectKeeps
<1>2. s.op = "fixProject"
  BY ReadyStep
<1>3. \A i \in Indicator : <<s.at, i>> \in linked => i \in I
  OBVIOUS
<1> HIDE DEF I
<1>4. \A i \in I : \E a \in M : a.op = "fixIndicator" /\ a.at = s.at /\ a.what = i
  <2>1. \A i \in I : Do("fixIndicator", s.at, i, 0) \in M
    BY ForItemsFacts
  <2>2. QED
    BY <2>1, DoFields
<1> HIDE DEF M
<1>5. parentOf' = parentOf /\ root' = root /\ repair' = repair
  BY <1>1 DEF Unwritten, Frame
<1>6. \A c, y : Lacking(c, y)' => Lacking(c, y)
  BY <1>1, <1>5, LackingKept
<1>7. \A c, y : Lacking(c, y) /\ Restores(s, c, y) => \E a \in M : Restores(a, c, y)
  BY <1>2, <1>3, <1>4 DEF Restores, Lacking
<1>8. QED
  BY <1>1, <1>5, <1>6, <1>7, RestoringKept

\* A copy without periods of its own that lacks one has fewer than its parent.
LEMMA LackingHasFewer ==
    ASSUME Core, NEW c \in Project, NEW y \in Period, Lacking(c, y)
    PROVE  /\ y \in PartsAt(parentOf[c], Owner[y])
           /\ Cardinality(PartsAt(c, Owner[y])) # Cardinality(PartsAt(parentOf[c], Owner[y]))
<1> DEFINE i == Owner[y]
           here == PartsAt(c, i)
           above == PartsAt(parentOf[c], i)
<1>1. /\ i \in Indicator /\ NoneOfItsOwn(c, i)
      /\ <<parentOf[c], y>> \in Rows /\ <<c, y>> \notin linked
  BY DEF Lacking, AtParent
<1>2. y \in Parts(i) /\ Parts(i) \subseteq Period
  BY <1>1, PartKinds, Owners
<1>3. \A x \in Parts(i) : <<c, x>> \in Rows => <<c, x>> \in linked
  BY <1>1 DEF NoneOfItsOwn
<1>4. \A x : <<c, x>> \in linked => <<parentOf[c], x>> \in Rows
  BY DEF Core, TypeOK
<1> HIDE DEF i
<1>5. here \subseteq above /\ y \in above /\ y \notin here /\ above \subseteq Period
  BY <1>1, <1>2, <1>3, <1>4 DEF PartsAt
<1> HIDE DEF here, above
<1>6. IsFiniteSet(above)
  BY <1>5, FrameworkAssumption, FS_Subset
<1>7. Cardinality(here) # Cardinality(above)
  BY <1>5, <1>6, FS_Subset
<1>8. QED
  BY <1>5, <1>7 DEF here, above, i

\* Every part of the parent's row has a step of CopyParts.
LEMMA CopyPartsBring ==
    ASSUME NEW c, NEW p, p = parentOf[c], NEW o, NEW op
    PROVE  \A x \in PartsAt(p, o) :
               \E a \in CopyParts(c, o, op) : a.op = op /\ a.at = c /\ a.what = x
<1> DEFINE S == PartsAt(p, o)
<1>1. CopyParts(c, o, op) = ForRows(op, c, S, p)
  BY DEF CopyParts, ForRows
<1> HIDE DEF S
<1>2. QED
  BY <1>1, ForRowsFacts DEF S

\* An indicator is left alone if it has as many periods as its parent.
LEMMA RestoringAfterFixIndicator ==
    ASSUME Core, Restoring, repair = "running", NEW w \in Worker,
           NEW s \in Ready(w, "fixIndicator"), FixIndicator(w, s)
    PROVE  Restoring'
<1> DEFINE F == CopyParts(s.at, s.what, "copyPeriod")
<1>1. \A x \in PartsAt(parentOf[s.at], s.what) :
          \E a \in F : a.op = "copyPeriod" /\ a.at = s.at /\ a.what = x
  <2> DEFINE p == parentOf[s.at]
  <2> HIDE DEF p
  <2>1. p = parentOf[s.at]
    BY DEF p
  <2>2. \A x \in PartsAt(p, s.what) :
            \E a \in F : a.op = "copyPeriod" /\ a.at = s.at /\ a.what = x
    BY <2>1, CopyPartsBring
  <2>3. QED
    BY <2>2 DEF p
<1> DEFINE same == Cardinality(PartsAt(s.at, s.what)) =
                       Cardinality(PartsAt(parentOf[s.at], s.what))
           M == IF same THEN {} ELSE F
<1>2. RowsKept /\ Moves(w, s, M) /\ Unwritten /\ Frame
  BY FixIndicatorKeeps
<1>3. s.op = "fixIndicator"
  BY ReadyStep
<1>4. \A c \in Project : \A y \in Period :
          Lacking(c, y) /\ c = s.at /\ Owner[y] = s.what =>
              ~same /\ y \in PartsAt(parentOf[s.at], s.what)
  BY LackingHasFewer
<1> HIDE DEF F, same
<1>5. \A c \in Project : \A y \in Period :
          Lacking(c, y) /\ Restores(s, c, y) => \E a \in M : Restores(a, c, y)
  BY <1>3, <1>1, <1>4 DEF Restores
<1> HIDE DEF M
<1>6. parentOf' = parentOf /\ root' = root /\ repair' = repair
  BY <1>2 DEF Unwritten, Frame
<1>7. \A c, y : Lacking(c, y)' => Lacking(c, y)
  BY <1>2, <1>6, LackingKept
<1>8. QED
  BY <1>2, <1>5, <1>6, <1>7, RestoringKept

\* A period that is copied is copied wherever the copies of its indicator reach.
LEMMA RestoringAfterCopyPeriod ==
    ASSUME Core, Restoring, repair = "running", NEW w \in Worker,
           NEW s \in Ready(w, "copyPeriod"), CopyPeriod(w, s)
    PROVE  Restoring'
<1> DEFINE M == {}
           o == s.what
           T == {x \in Project : <<x, Owner[o]>> \in linked}
           D == Reach(s.at, Owner[o])
<1>1. /\ Moves(w, s, M) /\ OnlyRows
      /\ <<s.at, o>> \in linked => RowsKept
      /\ <<s.at, o>> \notin linked => CopiesMade(s.at, o, D)
      /\ s.op = "copyPeriod" /\ s.at \in Project /\ o \in Period
  BY CopyPeriodKeeps, ReadyStep DEF StepReady
<1>2. parentOf' = parentOf /\ root' = root /\ repair' = repair
  BY <1>1 DEF OnlyRows, Frame
<1>3. Owner[o] # o
  BY <1>1, Owners
<1>4. CASE <<s.at, o>> \in linked
  <2>1. RowsKept
    BY <1>1, <1>4
  <2>2. \A c, y : Lacking(c, y)' => Lacking(c, y)
    BY <1>2, <2>1, LackingKept
  <2>3. \A c, y : Lacking(c, y) => ~Restores(s, c, y)
    BY <1>1, <1>4 DEF Restores, Lacking
  <2> HIDE DEF M
  <2>4. QED
    BY <1>1, <1>2, <2>2, <2>3, RestoringKept
<1>5. CASE <<s.at, o>> \notin linked
  <2>1. CopiesMade(s.at, o, D)
    BY <1>1, <1>5
  <2>2. \A c \in Project : <<c, Owner[o]>> \in linked /\ parentOf[c] \in D => c \in D
    <3>1. \A c \in T : parentOf[c] \in {s.at} \cup Below(s.at, T) => c \in Below(s.at, T)
      BY BelowFacts
    <3>2. QED
      BY <3>1 DEF Reach
  <2> HIDE DEF D, T, M
  <2>3. /\ Rows' = Rows \cup (D \X {o}) /\ linked' = linked \cup (D \X {o})
        /\ s.at \in D /\ \A d \in D : <<d, o>> \notin Rows
    BY <2>1 DEF CopiesMade
  <2>4. Owner[o] \in Item /\ \A y \in Period : Owner[y] \in Indicator /\ Owner[y] # o
    BY <1>1, Owners
  <2>5. \A c, i : NoneOfItsOwn(c, i)' => NoneOfItsOwn(c, i)
    BY <2>3 DEF NoneOfItsOwn
  <2>6. ASSUME NEW c \in Project, NEW y \in Period, Lacking(c, y)'
        PROVE  Lacking(c, y) /\ ~Restores(s, c, y)
    <3>1. /\ c \in BelowAll(root)' /\ Owner[y] \in Indicator
          /\ <<c, Owner[y]>> \in linked' /\ NoneOfItsOwn(c, Owner[y])'
          /\ <<parentOf[c], y>> \in Rows' /\ <<c, y>> \notin linked'
      BY <1>2, <2>6 DEF Lacking, AtParent
    <3>2. c \in BelowAll(root)
      BY <1>2, <3>1 DEF BelowAll, Below
    <3>3. <<c, Owner[y]>> \in linked /\ <<c, y>> \notin linked
      BY <2>3, <2>4, <3>1
    <3>4. <<parentOf[c], y>> \in Rows
      <4>1. CASE y = o
        BY <2>2, <2>3, <3>1, <3>3, <4>1
      <4>2. CASE y # o
        BY <2>3, <3>1, <4>2
      <4>3. QED
        BY <4>1, <4>2
    <3>5. Lacking(c, y)
      BY <2>5, <3>1, <3>2, <3>3, <3>4 DEF Lacking, AtParent
    <3>6. ~Restores(s, c, y)
      BY <1>1, <2>3, <3>1 DEF Restores
    <3>7. QED
      BY <3>5, <3>6
  <2>7. QED
    BY <1>1, <1>2, <2>6, RestoringKept
<1>6. QED
  BY <1>4, <1>5

\* When the command ends nothing is left to be done.
LEMMA RestoringAfterFixed ==
    ASSUME Core, Restoring, repair = "running", NEW w \in Worker, NEW s \in Ready(w, "fixed"),
           Fixed(w, s)
    PROVE  Restoring'
<1> DEFINE M == {}
<1>1. Core' /\ Moves(w, s, M) /\ RowsKept /\ Frame /\ s.op = "fixed" /\ s \in Pending(w)
  BY FixedKeeps, ReadyStep
<1>2. \A a \in M : FALSE
  OBVIOUS
<1> HIDE DEF M
<1>3. /\ \A t \in Pending(w)' : t \in M \/ (t \in Pending(w) /\ MayWait(parentOf, s, t))
      /\ \A t \in Pending(w) : t # s => MayWait(parentOf, s, t)
      /\ \A v \in Worker : v # w => todo'[v] = todo[v]
  BY <1>1, AfterMoving
<1>4. \A t : ~MayWait(parentOf, s, t)
  BY <1>1 DEF MayWait
<1>5. Pending(w)' = {} /\ \A t \in Pending(w) : t = s
  BY <1>2, <1>3, <1>4
<1>6. \A c, y : ~Restores(s, c, y)
  BY <1>1 DEF Restores
<1>7. \A c \in Project : \A y \in Period : ~Lacking(c, y)
  BY <1>5, <1>6, WhileRunning
<1>8. parentOf' = parentOf /\ root' = root /\ repair' = "done"
  BY <1>1 DEF Fixed, Frame
<1>9. \A c \in Project : \A y \in Period : ~Lacking(c, y)'
  BY <1>1, <1>7, <1>8, LackingKept
<1>10. Idle(w)'
  <2>1. TypeOK'
    BY <1>1 DEF Core
  <2>2. todo'[w] \in Lists /\ StepsOf(todo'[w]) = {}
    BY <1>5, <2>1 DEF TypeOK, Lists, Pending
  <2>3. QED
    BY <2>2, EmptyList DEF Idle
<1>11. \A v \in Worker : v # w => Idle(v)'
  <2>1. \A v \in Worker : v # w => Idle(v)
    BY WhileRunning
  <2>2. QED
    BY <1>3, <2>1 DEF Idle
<1>12. QED
  BY <1>8, <1>9, <1>10, <1>11 DEF Restoring, Quiet

\* The other steps leave the repair as it is.
LEMMA RepairStays ==
    ASSUME NEW w, WorkerStep(w), repair = "no"
    PROVE  repair' = "no"
BY DEF WorkerStep, ReadResults, TakeResult, Offer, InsertResult, ReadIndicators, ReadPeriods,
       CopyIndicator, CopyPeriod, Save, SaveEdited, Spread, Renew, CommitInserted,
       CopyDefaults, RequireResult, ImportIndicatorNow, Walk, FixProject, FixIndicator, Fixed, Reads,
       Unwritten, OnlyRows

\* Every other request ends what the repair promises.
LEMMA RequestsRepair ==
    ASSUME NEW w, Requests(w)
    PROVE  repair' = "no" \/ \E p \in Project : FixMissingPeriods(w, p)
BY DEF Requests, ImportResults, ImportResult, ImportIndicator, CreateResult, CreateIndicator,
       CreatePeriod, Insert, Edit, AddDefaultPeriod, Request, Accept

\* The repair begins with everything below its root still to be walked.
LEMMA RestoringAfterFixMissingPeriods ==
    ASSUME Core, NEW w \in Worker, NEW p \in Project, FixMissingPeriods(w, p)
    PROVE  Restoring'
<1> DEFINE a == Do("walk", p, NoItem, 0)
           b == Do("fixed", p, NoItem, 0)
<1>1. /\ repair' = "running" /\ root' = p
      /\ Asks(w, {a, b})
      /\ \A v \in Worker : Pending(v) = {} /\ Idle(v)
  BY FixMissingPeriodsKeeps
<1>2. a.op = "walk" /\ a.at = p /\ b.op = "fixed"
  BY DoFields
<1> HIDE DEF a, b
<1>3. /\ Pending(w)' = {a, b} /\ parentOf' = parentOf
      /\ \A v \in Worker : v # w => todo'[v] = todo[v]
  BY <1>1 DEF Asks
<1>4. \A v \in Worker : v # w => Idle(v)'
  BY <1>1, <1>3 DEF Idle
<1>5. \A c, y : Lacking(c, y)' => Restores(a, c, y)'
  BY <1>1, <1>2 DEF Lacking, Restores
<1>6. QED
  BY <1>1, <1>2, <1>3, <1>4, <1>5 DEF Restoring

\* Every step.
LEMMA RestoringNext ==
    ASSUME Core, Restoring, [Next]_vars
    PROVE  Restoring'
<1>1. CASE repair' = "no"
  BY <1>1 DEF Restoring
<1>2. CASE \E w \in Worker : WorkerStep(w)
  <2>1. PICK w \in Worker : WorkerStep(w)
    BY <1>2
  <2>2. repair \in {"no", "running", "done"}
    BY DEF Core, TypeOK
  <2>3. CASE repair = "no"
    BY <1>1, <2>1, <2>3, RepairStays
  <2>4. CASE repair # "no"
    <3>1. \A op : \A s \in Ready(w, op) : repair = "running" /\ op \in Repairing \cup {"fixed"}
      BY <2>2, <2>4, WhileRunning
    <3>2. \/ \E s \in Ready(w, "walk") : Walk(w, s)
          \/ \E s \in Ready(w, "fixProject") : FixProject(w, s)
          \/ \E s \in Ready(w, "fixIndicator") : FixIndicator(w, s)
          \/ \E s \in Ready(w, "copyPeriod") : CopyPeriod(w, s)
          \/ \E s \in Ready(w, "fixed") : Fixed(w, s)
      BY <2>1, <3>1 DEF WorkerStep, Repairing
    <3>3. QED
      BY <3>1, <3>2, RestoringAfterWalk, RestoringAfterFixProject,
         RestoringAfterFixIndicator, RestoringAfterCopyPeriod, RestoringAfterFixed
  <2>5. QED
    BY <2>3, <2>4
<1>3. CASE \E w \in Worker : Requests(w)
  BY <1>1, <1>3, RequestsRepair, RestoringAfterFixMissingPeriods
<1>4. CASE \E w \in Worker : Crash(w)
  BY <1>1, <1>4, CrashKeeps
<1>5. CASE UNCHANGED vars
  <2>1. /\ UNCHANGED <<parentOf, root, repair, todo>> /\ Rows' = Rows /\ linked' = linked
        /\ \A w : Pending(w)' = Pending(w)
    BY <1>5 DEF vars, Pending, Rows
  <2>2. RowsKept
    BY <2>1 DEF RowsKept
  <2>3. \A c, y : Lacking(c, y)' <=> Lacking(c, y)
    BY <2>1, <2>2, LackingKept
  <2>4. \A a, c, y : Restores(a, c, y)' <=> Restores(a, c, y)
    BY <2>1, RestoresKept
  <2>5. \A w : Idle(w)' <=> Idle(w)
    BY <2>1 DEF Idle
  <2>6. QED
    BY <2>1, <2>3, <2>4, <2>5 DEF Restoring, Quiet
<1>6. QED
  BY <1>2, <1>3, <1>4, <1>5, NextKinds

(* The invariant ------------------------------------------------------------------*)

\* In the beginning there is nothing.
LEMMA FrameworkInit ==
    ASSUME Init
    PROVE  FrameworkInv
<1>1. Core /\ \A w \in Worker : Pending(w) = {}
  BY CoreInit
<1>2. /\ Rows = {} /\ linked = {} /\ imported = {} /\ repair = "no"
      /\ \A w \in Worker : Idle(w)
  BY DEF Init, Rows, Idle
<1>3. OneBusy /\ NotYetThere /\ AllInserted /\ ImportedHaveResults
  BY <1>1, <1>2 DEF OneBusy, NotYetThere, AllInserted, ImportedHaveResults
<1>4. NothingForgotten
  BY <1>2 DEF NothingForgotten
<1>5. ResultsComing
  BY <1>1, <1>2 DEF ResultsComing
<1>6. Restoring
  BY <1>2 DEF Restoring
<1>7. QED
  BY <1>1, <1>3, <1>4, <1>5, <1>6 DEF FrameworkInv, Core

\* Every step keeps it.
LEMMA FrameworkNext ==
    ASSUME FrameworkInv, [Next]_vars
    PROVE  FrameworkInv'
<1>1. /\ Core /\ Orders /\ NotYetThere /\ AllInserted
      /\ NothingForgotten /\ ResultsComing /\ Restoring
  BY DEF FrameworkInv, Core, Orders
<1>2. Core'
  BY <1>1, CoreNext
<1>3. Orders'
  BY <1>1, OrdersNext
<1>4. NotYetThere'
  BY <1>1, NotYetNext
<1>5. NothingForgotten'
  BY <1>1, ForgottenNext
<1>6. ResultsComing'
  BY <1>1, ComingNext
<1>7. Restoring'
  BY <1>1, RestoringNext
<1>8. AllInserted'
  BY <1>1, AllInsertedNext
<1>9. QED
  BY <1>2, <1>3, <1>4, <1>5, <1>6, <1>7, <1>8 DEF FrameworkInv, Core, Orders

\* What holds of the results framework whatever the requests, their order and their
\* overlapping: types, rows and steps that fit, and what is still to come.
THEOREM FrameworkInvariant == Spec => []FrameworkInv
<1>1. Init => FrameworkInv
  BY FrameworkInit
<1>2. FrameworkInv /\ [Next]_vars => FrameworkInv'
  BY FrameworkNext
<1>3. QED
  BY <1>1, <1>2, PTL DEF Spec

\* The variables of the results framework have their types (TypeOK): rows at projects,
\* copies where the parent has a row, steps that can be done.
THEOREM FrameworkTypes == Spec => []TypeOK
<1>1. FrameworkInv => TypeOK
  BY DEF FrameworkInv
<1>2. QED
  BY <1>1, FrameworkInvariant, PTL

\* NothingMissed: once the requests have ended no copy of a result or an indicator
\* lacks a part that its parent has, unless it was overlooked: the transaction that
\* made the part looked for the copies before there was one, and the import of the
\* copy read the parts before the transaction ended (Project.copy_indicator and
\* Indicator.save).
THEOREM FrameworkMissesNothing == Spec => []NothingMissed
<1>1. FrameworkInv => NothingMissed
  <2>1. SUFFICES ASSUME FrameworkInv, Undisturbed,
                        NEW x \in linked \ chosen, NEW y \in PartsAt(parentOf[x[1]], x[2])
                 PROVE  <<x[1], y>> \in linked \cup (IF OneAtATime THEN {} ELSE overlooked)
    BY DEF NothingMissed
  <2>2. TypeOK /\ NothingForgotten /\ crashes = 0 /\ \A w \in Worker : Pending(w) = {}
    BY <2>1, IdlePending DEF FrameworkInv, Undisturbed, Quiet
  <2>3. x = <<x[1], x[2]>> /\ x[1] \in Project
    BY <2>2 DEF TypeOK
  <2>4. y \in DOMAIN Owner /\ Owner[y] = x[2] /\ AtParent(x[1], y)
    BY DEF PartsAt, Parts, AtParent
  <2>5. ~Covered(x[1], y)
    BY <2>2 DEF Covered
  <2>6. QED
    BY <2>1, <2>2, <2>3, <2>4, <2>5 DEF NothingForgotten
<1>2. QED
  BY <1>1, FrameworkInvariant, PTL

\* ImportedStayComplete: a project that has imported has every result its parent has
\* (Project.copy_result_to_children).
THEOREM FrameworkImportsStayComplete == Spec => []ImportedStayComplete
<1>1. FrameworkInv => ImportedStayComplete
  <2>1. SUFFICES ASSUME FrameworkInv, Undisturbed, OneAtATime
                 PROVE  \A c \in imported : \A r \in Result :
                            <<parentOf[c], r>> \in Rows => <<c, r>> \in linked
    BY DEF ImportedStayComplete
  <2>2. ResultsComing /\ crashes = 0 /\ \A w \in Worker : Pending(w) = {}
    BY <2>1, IdlePending DEF FrameworkInv, Undisturbed, Quiet
  <2>3. QED
    BY <2>1, <2>2 DEF ResultsComing, AtParent
<1>2. QED
  BY <1>1, FrameworkInvariant, PTL

\* RepairedHaveAllPeriods: after fix_project_hierarchy_missing_periods no copy below
\* the root lacks a period, but for those with periods of their own.
THEOREM FrameworkRepairs == Spec => []RepairedHaveAllPeriods
<1>1. FrameworkInv => RepairedHaveAllPeriods
  <2>1. SUFFICES ASSUME FrameworkInv, repair = "done", NEW x \in linked,
                        x[1] \in Below(root, Project), x[2] \in Indicator,
                        ({x[1]} \X Parts(x[2])) \cap Rows \subseteq linked,
                        NEW y \in PartsAt(parentOf[x[1]], x[2])
                 PROVE  <<x[1], y>> \in linked
    BY DEF RepairedHaveAllPeriods, Complete
  <2>2. TypeOK /\ Restoring
    BY <2>1 DEF FrameworkInv
  <2>3. x = <<x[1], x[2]>> /\ x[1] \in Project
    BY <2>2 DEF TypeOK
  <2>4. y \in Parts(x[2]) /\ Owner[y] = x[2] /\ AtParent(x[1], y)
    BY DEF PartsAt, Parts, AtParent
  <2>5. y \in Period
    BY <2>1, <2>4, PartKinds
  <2>6. x[1] \in BelowAll(root) /\ NoneOfItsOwn(x[1], Owner[y])
    BY <2>1, <2>4 DEF BelowAll, NoneOfItsOwn
  <2>7. ~Lacking(x[1], y)
    BY <2>1, <2>2, <2>3, <2>5 DEF Restoring
  <2>8. QED
    BY <2>1, <2>3, <2>4, <2>6, <2>7 DEF Lacking
<1>2. QED
  BY <1>1, FrameworkInvariant, PTL
=============================================================================
