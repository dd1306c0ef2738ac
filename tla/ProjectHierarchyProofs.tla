------------------------ MODULE ProjectHierarchyProofs ------------------------
(* Proofs about ProjectHierarchy, for every finite set of projects, every choice *)
(* of parents considered and any number of rows.                                 *)
EXTENDS ProjectHierarchy, FiniteSetTheorems, WellFoundedInduction, TLAPS

(* Lineages ----------------------------------------------------------------*)

Parents == [Project -> Project \cup {NoProject}]

\* Lineage for any parents f, so that it can be spoken of in two states at once.
ClosedUnder(f) == {S \in SUBSET Project : \A q \in S : f[q] \in S \cup {NoProject}}
Ancestry(f, p) == {q \in Project : \A S \in ClosedUnder(f) : p \in S \cup {NoProject} => q \in S}
NoCycles(f) == \A p \in Project : f[p] \in Project => p \notin Ancestry(f, f[p])

\* A lineage is the ancestry for the parents of its state, before and after a
\* step.
LEMMA LineageIsAncestry ==
    ASSUME NEW p
    PROVE  Lineage(p) = Ancestry(parentOf, p) /\ Lineage(p)' = Ancestry(parentOf', p)
BY DEF Lineage, Ancestry, ClosedUnder

\* A lineage has its project and the parents of its own, and nothing more.
LEMMA AncestryIsClosed ==
    ASSUME NEW f \in Parents, NEW p \in Project \cup {NoProject}
    PROVE  /\ Ancestry(f, p) \subseteq Project
           /\ p \in Project => p \in Ancestry(f, p)
           /\ \A q \in Ancestry(f, p) : f[q] \in Ancestry(f, p) \cup {NoProject}
           /\ Ancestry(f, p) \in ClosedUnder(f)
<1>1. Ancestry(f, p) \subseteq Project
  BY DEF Ancestry
<1>2. p \in Project => p \in Ancestry(f, p)
  BY HierarchyAssumption DEF Ancestry
<1>3. ASSUME NEW q \in Ancestry(f, p)
      PROVE  f[q] \in Ancestry(f, p) \cup {NoProject}
  <2>1. q \in Project /\ f[q] \in Project \cup {NoProject}
    BY <1>1 DEF Parents
  <2>2. ASSUME f[q] # NoProject, NEW S \in ClosedUnder(f), p \in S \cup {NoProject}
        PROVE  f[q] \in S
    <3>1. q \in S
      BY <2>2 DEF Ancestry
    <3>2. QED
      BY <2>2, <3>1 DEF ClosedUnder
  <2>3. QED
    BY <2>1, <2>2 DEF Ancestry
<1>4. QED
  BY <1>1, <1>2, <1>3 DEF ClosedUnder

\* A lineage is in every set that has its project and the parents of its own.
LEMMA AncestryIsLeast ==
    ASSUME NEW f, NEW p, NEW S \in ClosedUnder(f), p \in S \cup {NoProject}
    PROVE  Ancestry(f, p) \subseteq S
BY DEF Ancestry

\* Above no project there is nothing.
LEMMA NoProjectHasNoAncestry ==
    ASSUME NEW f
    PROVE  Ancestry(f, NoProject) = {}
<1>1. {} \in ClosedUnder(f)
  BY DEF ClosedUnder
<1>2. QED
  BY <1>1 DEF Ancestry

\* Whoever is above is above with all that is above it.
LEMMA AncestryGrows ==
    ASSUME NEW f \in Parents, NEW p \in Project \cup {NoProject}, NEW q \in Ancestry(f, p)
    PROVE  Ancestry(f, q) \subseteq Ancestry(f, p)
BY AncestryIsClosed, AncestryIsLeast

\* A project's lineage is the project and its parent's lineage.
LEMMA AncestryUnfolds ==
    ASSUME NEW f \in Parents, NEW p \in Project
    PROVE  Ancestry(f, p) = {p} \cup Ancestry(f, f[p])
<1>1. f[p] \in Project \cup {NoProject}
  BY DEF Parents
<1>2. Ancestry(f, f[p]) \subseteq Ancestry(f, p)
  <2>1. CASE f[p] = NoProject
    BY <2>1, NoProjectHasNoAncestry
  <2>2. CASE f[p] # NoProject
    <3>1. p \in Ancestry(f, p)
      BY AncestryIsClosed
    <3>2. f[p] \in Ancestry(f, p)
      BY <2>2, <3>1, AncestryIsClosed
    <3>3. QED
      BY <3>2, AncestryGrows
  <2>3. QED
    BY <2>1, <2>2
<1> DEFINE S == {p} \cup Ancestry(f, f[p])
<1>3. S \in ClosedUnder(f)
  <2>1. Ancestry(f, f[p]) \subseteq Project
    BY <1>1, AncestryIsClosed
  <2>2. f[p] \in S \cup {NoProject}
    BY <1>1, AncestryIsClosed
  <2>3. \A q \in Ancestry(f, f[p]) : f[q] \in S \cup {NoProject}
    BY <1>1, AncestryIsClosed
  <2>4. QED
    BY <2>1, <2>2, <2>3 DEF ClosedUnder
<1>4. Ancestry(f, p) \subseteq S
  <2> HIDE DEF S
  <2>1. p \in S
    BY DEF S
  <2>2. QED
    BY <1>3, <2>1, AncestryIsLeast
<1>5. p \in Ancestry(f, p)
  BY AncestryIsClosed
<1>6. QED
  BY <1>2, <1>4, <1>5

\* Two projects are not above one another.
LEMMA AncestryIsOrder ==
    ASSUME NEW f \in Parents, NoCycles(f), NEW p \in Project, NEW q \in Project,
           p \in Ancestry(f, q), q \in Ancestry(f, p)
    PROVE  p = q
<1> SUFFICES ASSUME p # q
             PROVE  FALSE
  OBVIOUS
<1>1. q \in Ancestry(f, f[p])
  BY AncestryUnfolds
<1>2. f[p] \in Project
  <2>1. f[p] # NoProject
    BY <1>1, NoProjectHasNoAncestry
  <2>2. QED
    BY <2>1 DEF Parents
<1>3. p \in Ancestry(f, f[p])
  BY <1>1, <1>2, AncestryGrows
<1>4. QED
  BY <1>2, <1>3 DEF NoCycles

\* Of two projects above a third, one is above the other.
LEMMA AncestryIsChain ==
    ASSUME NEW f \in Parents, NEW p \in Project,
           NEW q \in Ancestry(f, p), NEW r \in Ancestry(f, p)
    PROVE  q \in Ancestry(f, r) \/ r \in Ancestry(f, q)
<1> DEFINE S == {s \in Ancestry(f, p) : q \in Ancestry(f, s) \/ s \in Ancestry(f, q)}
<1>1. q \in Project /\ Ancestry(f, p) \subseteq Project
  BY AncestryIsClosed
<1>2. ASSUME NEW s \in S, f[s] # NoProject
      PROVE  f[s] \in S
  <2>1. s \in Project /\ f[s] \in Ancestry(f, p)
    BY <1>1, <1>2, AncestryIsClosed
  <2>2. CASE s \in Ancestry(f, q)
    BY <1>1, <1>2, <2>1, <2>2, AncestryIsClosed
  <2>3. CASE q \in Ancestry(f, s) /\ s # q
    BY <2>1, <2>3, AncestryUnfolds
  <2>4. CASE s = q
    <3>1. s \in Ancestry(f, q)
      BY <1>1, <2>4, AncestryIsClosed
    <3>2. QED
      BY <2>2, <3>1
  <2>5. QED
    BY <2>2, <2>3, <2>4
<1>3. S \in ClosedUnder(f)
  BY <1>1, <1>2 DEF ClosedUnder
<1>4. p \in S
  BY AncestryIsClosed
<1>5. Ancestry(f, p) \subseteq S
  <2> HIDE DEF S
  <2>1. QED
    BY <1>3, <1>4, AncestryIsLeast
<1>6. QED
  BY <1>5

\* Of finitely many projects one has its parent outside: the one with the smallest
\* lineage.
LEMMA TopExists ==
    ASSUME NEW f \in Parents, NoCycles(f), NEW S \in SUBSET Project, S # {}
    PROVE  \E q \in S : f[q] \notin S
<1> DEFINE Lineages == {Ancestry(f, q) : q \in S}
<1>1. IsWellFoundedOn(StrictSubsetOrdering(Project), SUBSET Project)
  <2>1. IsFiniteSet(Project)
    BY HierarchyAssumption
  <2>2. FiniteSubsetsOf(Project) = SUBSET Project
    BY <2>1, FS_FiniteSubsetsOfFinite
  <2>3. IsWellFoundedOn(StrictSubsetOrdering(Project), FiniteSubsetsOf(Project))
    BY <2>1, FS_StrictSubsetOrderingWellFounded, Zenon
  <2>4. QED
    BY <2>2, <2>3, Zenon
<1>2. Lineages \subseteq SUBSET Project /\ Lineages # {}
  <2>1. \A q \in S : Ancestry(f, q) \subseteq Project
    BY DEF Ancestry
  <2>2. QED
    BY <2>1
<1>3. PICK X \in Lineages : \A Y \in Lineages : ~(<<Y, X>> \in StrictSubsetOrdering(Project))
  <2> HIDE DEF Lineages
  <2>1. QED
    BY <1>1, <1>2, WFMin
<1>4. PICK q \in S : X = Ancestry(f, q)
  OBVIOUS
<1>5. ASSUME f[q] \in S
      PROVE  FALSE
  <2>1. q \in Project /\ f[q] \in Project
    BY <1>5
  <2>2. q \notin Ancestry(f, f[q])
    BY <2>1 DEF NoCycles
  <2>3. Ancestry(f, q) = {q} \cup Ancestry(f, f[q])
    BY <2>1, AncestryUnfolds
  <2>4. Ancestry(f, f[q]) \subseteq Project /\ Ancestry(f, q) \subseteq Project
    BY DEF Ancestry
  <2>5. <<Ancestry(f, f[q]), X>> \in StrictSubsetOrdering(Project)
    BY <1>4, <2>2, <2>3, <2>4 DEF StrictSubsetOrdering
  <2>6. Ancestry(f, f[q]) \in Lineages
    BY <1>5
  <2>7. QED
    BY <1>3, <2>5, <2>6
<1>6. QED
  BY <1>5

\* Without a parent for c there are fewer above, and no cycle.
LEMMA NoParentNoCycles ==
    ASSUME NEW f \in Parents, NoCycles(f), NEW c \in Project,
           NEW g, g = [f EXCEPT ![c] = NoProject]
    PROVE  /\ g \in Parents /\ NoCycles(g)
           /\ \A q \in Project : Ancestry(g, q) \subseteq Ancestry(f, q)
<1>1. g \in Parents /\ g[c] = NoProject /\ \A q \in Project \ {c} : g[q] = f[q]
  BY DEF Parents
<1>2. ASSUME NEW q \in Project
      PROVE  Ancestry(g, q) \subseteq Ancestry(f, q)
  <2>1. /\ q \in Ancestry(f, q) /\ Ancestry(f, q) \subseteq Project
        /\ \A r \in Ancestry(f, q) : f[r] \in Ancestry(f, q) \cup {NoProject}
    BY AncestryIsClosed
  <2>2. \A r \in Ancestry(f, q) : g[r] \in Ancestry(f, q) \cup {NoProject}
    BY <1>1, <2>1
  <2>3. Ancestry(f, q) \in ClosedUnder(g)
    BY <2>1, <2>2 DEF ClosedUnder
  <2>4. QED
    BY <1>1, <2>1, <2>3, AncestryIsLeast
<1>3. ASSUME NEW q \in Project, g[q] \in Project, q \in Ancestry(g, g[q])
      PROVE  FALSE
  <2>1. g[q] = f[q]
    BY <1>1, <1>3, HierarchyAssumption
  <2>2. q \in Ancestry(f, f[q])
    BY <1>2, <1>3, <2>1
  <2>3. QED
    BY <1>3, <2>1, <2>2 DEF NoCycles
<1>4. QED
  BY <1>1, <1>2, <1>3 DEF NoCycles

\* Giving c a parent below which it is not makes no cycle.
LEMMA NewParentNoCycles ==
    ASSUME NEW f \in Parents, NoCycles(f), NEW c \in Project,
           NEW p \in Project \cup {NoProject}, c \notin Ancestry(f, p),
           NEW g, g = [f EXCEPT ![c] = p]
    PROVE  g \in Parents /\ NoCycles(g)
<1>1. g \in Parents
  BY DEF Parents
<1>2. g[c] = p /\ \A q \in Project \ {c} : g[q] = f[q]
  BY DEF Parents
<1> DEFINE S(q) == Ancestry(f, q) \cup (IF c \in Ancestry(f, q) THEN Ancestry(f, p) ELSE {})
<1>3. ASSUME NEW q \in Project
      PROVE  Ancestry(g, q) \subseteq S(q)
  <2>1. q \in S(q) /\ S(q) \subseteq Project
    BY AncestryIsClosed
  <2>2. ASSUME NEW r \in S(q)
        PROVE  g[r] \in S(q) \cup {NoProject}
    <3>1. CASE r \in Ancestry(f, q) /\ r # c
      <4>1. g[r] = f[r]
        BY <1>2, <2>1, <3>1
      <4>2. f[r] \in Ancestry(f, q) \cup {NoProject}
        BY <3>1, AncestryIsClosed
      <4>3. QED
        BY <4>1, <4>2
    <3>2. CASE r \in Ancestry(f, q) /\ r = c
      <4>1. p \in Ancestry(f, p) \cup {NoProject}
        BY AncestryIsClosed
      <4>2. QED
        BY <1>2, <3>2, <4>1
    <3>3. CASE c \in Ancestry(f, q) /\ r \in Ancestry(f, p)
      <4>1. r # c /\ r \in Project
        BY <2>1, <3>3
      <4>2. g[r] = f[r]
        BY <1>2, <4>1
      <4>3. f[r] \in Ancestry(f, p) \cup {NoProject}
        BY <3>3, AncestryIsClosed
      <4>4. QED
        BY <3>3, <4>2, <4>3
    <3>4. QED
      BY <3>1, <3>2, <3>3
  <2>3. S(q) \in ClosedUnder(g)
    BY <2>1, <2>2 DEF ClosedUnder
  <2> HIDE DEF S
  <2>4. QED
    BY <2>1, <2>3, AncestryIsLeast
<1>4. ASSUME NEW q \in Project, g[q] \in Project, q \in Ancestry(g, g[q])
      PROVE  FALSE
  <2>1. q \in S(g[q])
    BY <1>3, <1>4
  <2>2. CASE q = c
    <3>1. c \notin S(p)
      OBVIOUS
    <3>2. QED
      BY <1>2, <2>1, <2>2, <3>1
  <2>3. CASE q # c
    <3>1. g[q] = f[q] /\ f[q] \in Project
      BY <1>2, <1>4, <2>3
    <3>2. q \notin Ancestry(f, f[q])
      BY <3>1 DEF NoCycles
    <3>3. c \in Ancestry(f, f[q]) /\ q \in Ancestry(f, p)
      BY <2>1, <3>1, <3>2
    <3>4. Ancestry(f, f[q]) \subseteq Ancestry(f, q)
      BY AncestryUnfolds
    <3>5. Ancestry(f, q) \subseteq Ancestry(f, p)
      BY <3>3, AncestryGrows
    <3>6. QED
      BY <3>3, <3>4, <3>5
  <2>4. QED
    BY <2>2, <2>3
<1>5. QED
  BY <1>1, <1>4 DEF NoCycles

(* Rows --------------------------------------------------------------------*)

\* What WellFormed says, with the lineages of both states in terms of the parents.
LEMMA TypeParts ==
    /\ WellFormed <=> /\ parentOf \in Parents /\ NoCycles(parentOf)
                  /\ nextRow \in 1 .. MaxRows + 1
                  /\ Exists \subseteq 1 .. nextRow - 1
                  /\ at \in [Exists -> Project]
                  /\ link \in [Exists -> Exists \cup {NoRow}]
                  /\ Unique
    /\ WellFormed' <=> /\ parentOf' \in Parents /\ NoCycles(parentOf')
                   /\ nextRow' \in 1 .. MaxRows + 1
                   /\ Exists' \subseteq 1 .. nextRow' - 1
                   /\ at' \in [Exists' -> Project]
                   /\ link' \in [Exists' -> Exists' \cup {NoRow}]
                   /\ Unique'
<1>1. ASSUME parentOf \in Parents
      PROVE  (\A p \in Project : parentOf[p] \in Project => p \notin Lineage(parentOf[p]))
                 <=> NoCycles(parentOf)
  BY LineageIsAncestry DEF NoCycles
<1>2. (\A p \in Project : parentOf[p] \in Project => p \notin Lineage(parentOf[p]))'
         <=> NoCycles(parentOf')
  BY LineageIsAncestry DEF NoCycles
<1>3. QED
  BY <1>1, <1>2 DEF WellFormed, Parents

\* No row has the key 0.
LEMMA RowsAreKeys ==
    ASSUME WellFormed
    PROVE  /\ NoRow \notin Exists /\ nextRow \in Nat \ {0}
           /\ \A x \in Exists : x \in Nat /\ x < nextRow
BY HierarchyAssumption DEF WellFormed, NoRow

\* What AncestryIsClosed says of ancestries, for lineages.
LEMMA LineageFacts ==
    ASSUME WellFormed, NEW p \in Project \cup {NoProject}
    PROVE  /\ Lineage(p) = Ancestry(parentOf, p)
           /\ Lineage(p) \subseteq Project
           /\ p \in Project => p \in Lineage(p)
           /\ \A q \in Lineage(p) : parentOf[q] \in Lineage(p) \cup {NoProject}
BY TypeParts, LineageIsAncestry, AncestryIsClosed

\* Changing relations leaves the rows alone.
LEMMA RelationType ==
    ASSUME WellFormed, NEW c \in Project, NEW p \in Project \cup {NoProject}, NoCycle(c, p),
           parentOf' = [parentOf EXCEPT ![c] = p], UNCHANGED rows
    PROVE  WellFormed'
<1>1. c \notin Ancestry(parentOf, p)
  BY LineageIsAncestry DEF NoCycle
<1>2. parentOf' \in Parents /\ NoCycles(parentOf')
  BY <1>1, TypeParts, NewParentNoCycles
<1>3. QED
  BY <1>2, TypeParts DEF rows, Exists, Unique

\* Links are replaced by links to rows that exist.
LEMMA RelinkedType ==
    ASSUME WellFormed, NEW pairs
    PROVE  Relinked(pairs) \in [Exists -> Exists \cup {NoRow}]
<1>1. ASSUME NEW x \in Exists, \E z \in Exists \cup {NoRow} : <<x, z>> \in pairs
      PROVE  (CHOOSE z \in Exists \cup {NoRow} : <<x, z>> \in pairs) \in Exists \cup {NoRow}
  BY <1>1
<1>2. \A x \in Exists : link[x] \in Exists \cup {NoRow}
  BY DEF WellFormed
<1>3. QED
  BY <1>1, <1>2 DEF Relinked

\* What is below p is of projects, each with its parent there too.
LEMMA BelowHasParents ==
    ASSUME WellFormed, NEW p \in Project, NEW through \in SUBSET Project,
           NEW c \in Below(p, through)
    PROVE  c \in Project /\ c # p /\ c \in through
           /\ parentOf[c] \in {p} \cup Below(p, through)
<1>1. c \in Project /\ c \in through /\ p \in Lineage(c) /\ c # p
      /\ (Lineage(c) \ Lineage(p)) \subseteq through
  BY DEF Below
<1>2. parentOf \in Parents /\ NoCycles(parentOf) /\ parentOf[c] \in Project \cup {NoProject}
  BY <1>1, TypeParts DEF Parents
<1>3. Lineage(c) = {c} \cup Lineage(parentOf[c])
  BY <1>1, <1>2, AncestryUnfolds, LineageIsAncestry
<1>4. p \in Lineage(parentOf[c])
  BY <1>1, <1>3
<1>5. parentOf[c] \in Project
  <2>1. parentOf[c] # NoProject
    BY <1>4, NoProjectHasNoAncestry, LineageIsAncestry
  <2>2. QED
    BY <1>2, <2>1
<1>6. parentOf[c] \in Lineage(c)
  BY <1>3, <1>5, LineageFacts
<1>7. CASE parentOf[c] = p
  BY <1>1, <1>7
<1>8. CASE parentOf[c] # p
  <2>1. parentOf[c] \notin Lineage(p)
    BY <1>2, <1>4, <1>5, <1>8, AncestryIsOrder, LineageIsAncestry
  <2>2. parentOf[c] \in through
    BY <1>1, <1>6, <2>1
  <2>3. (Lineage(parentOf[c]) \ Lineage(p)) \subseteq through
    BY <1>1, <1>3
  <2>4. parentOf[c] \in Below(p, through)
    BY <1>4, <1>8, <2>2, <2>3 DEF Below
  <2>5. QED
    BY <1>1, <2>4
<1>9. QED
  BY <1>7, <1>8

\* A new row at p under y brings one new row at each project it is copied to, each
\* under the new row at that project's parent.
LEMMA InsertShape ==
    ASSUME WellFormed, NEW p \in Project, NEW y, Insert(p, y)
    PROVE  /\ nextRow' \in 1 .. MaxRows + 1
           /\ Exists \subseteq Exists' /\ Exists' \subseteq 1 .. nextRow' - 1
           /\ at' \in [Exists' -> Project] /\ link' = [x \in Exists' |-> link'[x]]
           /\ \A x \in Exists : at'[x] = at[x] /\ link'[x] = link[x]
           /\ \A x \in Exists' \ Exists :
                 \/ at'[x] = p /\ link'[x] = y
                 \/ link'[x] \in Exists' \ Exists /\ at'[link'[x]] = parentOf[at'[x]]
           /\ \A x, z \in Exists' \ Exists : at'[x] = at'[z] => x = z
<1> DEFINE where == {p} \cup Below(p, {c \in Project : HasImported(c)})
           new == nextRow .. nextRow + Cardinality(where) - 1
<1>1. where \subseteq Project /\ IsFiniteSet(where)
  <2>1. where \subseteq Project
    BY DEF Below
  <2> HIDE DEF where
  <2>2. QED
    BY <2>1, HierarchyAssumption, FS_Subset
<1>2. Cardinality(where) \in Nat
  BY <1>1, FS_CardinalityType
<1>3. \A c \in where \ {p} : parentOf[c] \in where
  BY BelowHasParents
<1>4. PICK project \in Bijection(new, where) :
        LET row == Inverse(project, new, where)
        IN  /\ at' = [x \in Exists \cup new |-> IF x \in new THEN project[x] ELSE at[x]]
            /\ link' = [x \in Exists \cup new |->
                           IF x \notin new THEN link[x]
                           ELSE IF project[x] = p THEN y
                           ELSE row[parentOf[project[x]]]]
  BY DEF Insert
<1>5. nextRow + Cardinality(where) <= MaxRows + 1 /\ nextRow' = nextRow + Cardinality(where)
  BY DEF Insert
<1> DEFINE row == Inverse(project, new, where)
<1> HIDE DEF where
<1>6. /\ project \in [new -> where]
      /\ \A x, z \in new : project[x] = project[z] => x = z
      /\ \A c \in where : \E x \in new : project[x] = c
  <2> HIDE DEF new
  <2>1. QED
    BY <1>4 DEF Bijection, Injection, Surjection, IsInjective
<1>7. ASSUME NEW c \in where
      PROVE  row[c] \in new /\ project[row[c]] = c
  <2>1. row[c] = CHOOSE s \in new : c \in Range(project) => project[s] = c
    BY DEF Inverse
  <2>2. \E s \in new : project[s] = c
    BY <1>6
  <2>3. c \in Range(project)
    BY <1>6, <2>2 DEF Range
  <2> HIDE DEF new, row
  <2>4. QED
    BY <2>1, <2>2, <2>3
<1>8. /\ nextRow \in Nat \ {0} /\ MaxRows \in Nat
      /\ \A x \in Exists : x \in Nat /\ x < nextRow /\ x > 0
  BY HierarchyAssumption DEF WellFormed
<1>9. Exists \cap new = {}
  BY <1>2, <1>8
<1>10. nextRow' \in 1 .. MaxRows + 1 /\ Exists \cup new \subseteq 1 .. nextRow' - 1
  <2>1. nextRow' \in 1 .. MaxRows + 1
    BY <1>2, <1>5, <1>8
  <2>2. \A x \in Exists : x \in 1 .. nextRow' - 1
    BY <1>2, <1>5, <1>8
  <2>3. \A x \in new : x \in 1 .. nextRow' - 1
    BY <1>2, <1>5, <1>8
  <2>4. QED
    BY <2>1, <2>2, <2>3
<1> HIDE DEF new, row
<1>11. /\ at' = [x \in Exists \cup new |-> IF x \in new THEN project[x] ELSE at[x]]
       /\ link' = [x \in Exists \cup new |->
                      IF x \notin new THEN link[x]
                      ELSE IF project[x] = p THEN y
                      ELSE row[parentOf[project[x]]]]
  BY <1>4 DEF row
<1>12. Exists' = Exists \cup new
  BY <1>11 DEF Exists
<1>13. Exists' \ Exists = new
  BY <1>9, <1>12
<1>14. at \in [Exists -> Project]
  BY DEF WellFormed
<1>15. \A x \in new : at'[x] = project[x] /\ project[x] \in Project /\ project[x] \in where
  BY <1>1, <1>6, <1>11
<1>16. at' \in [Exists' -> Project]
  BY <1>11, <1>12, <1>14, <1>15
<1>17. \A x \in Exists : at'[x] = at[x] /\ link'[x] = link[x]
  BY <1>9, <1>11
<1>18. ASSUME NEW x \in new
       PROVE  \/ at'[x] = p /\ link'[x] = y
              \/ link'[x] \in new /\ at'[link'[x]] = parentOf[at'[x]]
  <2>1. CASE project[x] = p
    BY <1>11, <1>15, <2>1
  <2>2. CASE project[x] # p
    <3>1. parentOf[project[x]] \in where
      BY <1>3, <1>15, <2>2
    <3>2. link'[x] = row[parentOf[project[x]]]
      BY <1>11, <2>2
    <3>3. link'[x] \in new /\ project[link'[x]] = parentOf[project[x]]
      BY <1>7, <3>1, <3>2
    <3>4. QED
      BY <1>15, <3>3
  <2>3. QED
    BY <2>1, <2>2
<1>19. \A x, z \in new : at'[x] = at'[z] => x = z
  BY <1>6, <1>15
<1>20. link' = [x \in Exists' |-> link'[x]]
  BY <1>11, <1>12
<1>21. QED
  BY <1>10, <1>12, <1>13, <1>16, <1>17, <1>18, <1>19, <1>20

\* A new row and its copies keep the types if the first has no sibling under
\* its parent row.
LEMMA InsertType ==
    ASSUME WellFormed, NEW p \in Project, NEW y \in Exists \cup {NoRow}, Insert(p, y),
           y # NoRow => \A x \in RowsAt(p) : link[x] # y
    PROVE  WellFormed'
<1>1. /\ nextRow' \in 1 .. MaxRows + 1
      /\ Exists \subseteq Exists' /\ Exists' \subseteq 1 .. nextRow' - 1
      /\ at' \in [Exists' -> Project] /\ link' = [x \in Exists' |-> link'[x]]
  BY InsertShape
<1>2. /\ \A x \in Exists : at'[x] = at[x] /\ link'[x] = link[x]
      /\ \A x \in Exists' \ Exists :
            \/ at'[x] = p /\ link'[x] = y
            \/ link'[x] \in Exists' \ Exists /\ at'[link'[x]] = parentOf[at'[x]]
      /\ \A x, z \in Exists' \ Exists : at'[x] = at'[z] => x = z
  BY InsertShape
<1>3. \A x \in Exists : link[x] \in Exists \cup {NoRow}
  BY DEF WellFormed
<1>4. link' \in [Exists' -> Exists' \cup {NoRow}]
  <2>1. \A x \in Exists' : link'[x] \in Exists' \cup {NoRow}
    BY <1>1, <1>2, <1>3
  <2>2. QED
    BY <1>1, <2>1
<1>5. NoRow \notin Exists'
  BY <1>1, RowsAreKeys, HierarchyAssumption DEF NoRow
<1>6. ASSUME NEW x \in Exists', NEW z \in Exists' \ Exists,
             at'[x] = at'[z], link'[x] = link'[z], link'[x] # NoRow, x # z
      PROVE  FALSE
  <2>1. x \in Exists
    BY <1>2, <1>6
  <2>2. link[x] = link'[z] /\ at[x] = at'[z] /\ link[x] \in Exists
    BY <1>2, <1>3, <1>6, <2>1
  <2>3. at'[z] = p /\ link'[z] = y
    BY <1>2, <2>2
  <2>4. x \in RowsAt(p) /\ link[x] = y /\ y # NoRow
    BY <1>6, <2>1, <2>2, <2>3 DEF RowsAt
  <2>5. QED
    BY <2>4
<1>7. Unique'
  <2> SUFFICES ASSUME NEW x \in Exists', NEW z \in Exists',
                      at'[x] = at'[z], link'[x] = link'[z], x # z, link'[x] # NoRow
               PROVE  FALSE
    BY DEF Unique
  <2>1. CASE x \in Exists /\ z \in Exists
    BY <1>2, <2>1 DEF WellFormed, Unique
  <2>2. CASE z \notin Exists
    BY <1>6, <2>2
  <2>3. CASE x \notin Exists
    BY <1>6, <2>3
  <2>4. QED
    BY <2>1, <2>2, <2>3
<1>8. parentOf' = parentOf
  BY DEF Insert
<1>9. parentOf \in Parents /\ NoCycles(parentOf)
  BY TypeParts
<1>10. QED
  BY <1>1, <1>4, <1>7, <1>8, <1>9, TypeParts

\* No step makes a cycle, a row without a project or a second copy of a row.
LEMMA TypeStep ==
    ASSUME WellFormed, [Next]_vars
    PROVE  WellFormed'
<1> USE HierarchyAssumption
<1>a. /\ parentOf \in Parents /\ NoCycles(parentOf)
      /\ at \in [Exists -> Project] /\ link \in [Exists -> Exists \cup {NoRow}]
      /\ nextRow \in 1 .. MaxRows + 1 /\ Exists \subseteq 1 .. nextRow - 1
      /\ Unique /\ NoRow \notin Exists
  BY TypeParts, RowsAreKeys
<1>b. \A p : NoProject \notin Lineage(p)
  BY DEF Lineage
<1>c. Lineage(NoProject) = {}
  BY LineageIsAncestry, NoProjectHasNoAncestry
<1>1. ASSUME NEW p \in Project, CreateRow(p)
      PROVE  WellFormed'
  BY <1>1, InsertType DEF CreateRow
<1>2. ASSUME NEW c \in Project, DeleteRelation(c)
      PROVE  WellFormed'
  BY <1>2, <1>c, RelationType DEF DeleteRelation, NoCycle
<1>3. ASSUME NEW c \in Project, RemoveParent(c)
      PROVE  WellFormed'
  <2>1. parentOf' \in Parents /\ NoCycles(parentOf')
    BY <1>3, <1>a, <1>c, NewParentNoCycles, LineageIsAncestry DEF RemoveParent
  <2>2. Exists' = Exists /\ at' = at /\ nextRow' = nextRow
    BY <1>3 DEF RemoveParent, Exists
  <2>3. link' \in [Exists -> Exists \cup {NoRow}]
    BY <1>3, <1>a DEF RemoveParent
  <2>4. Unique'
    BY <1>3, <1>a, <2>2 DEF RemoveParent, Unique
  <2>5. QED
    BY <1>a, <2>1, <2>2, <2>3, <2>4, TypeParts
<1>4. ASSUME NEW c \in Project, NEW y \in Exists, ImportRow(c, y)
      PROVE  WellFormed'
  BY <1>4, InsertType DEF ImportRow
<1>5. ASSUME NEW x \in Exists, DeleteRow(x)
      PROVE  WellFormed'
  <2>1. Exists' = Exists \ {x} /\ at' = [y \in Exists \ {x} |-> at[y]]
        /\ link' = [y \in Exists \ {x} |-> IF link[y] = x THEN NoRow ELSE link[y]]
    BY <1>5 DEF DeleteRow, Exists
  <2>2. at' \in [Exists' -> Project] /\ link' \in [Exists' -> Exists' \cup {NoRow}]
    BY <1>a, <2>1
  <2>3. Unique'
    BY <1>a, <2>1 DEF Unique
  <2>4. parentOf' = parentOf /\ nextRow' = nextRow
    BY <1>5 DEF DeleteRow
  <2>5. QED
    BY <1>a, <2>1, <2>2, <2>3, <2>4, TypeParts
<1>6. ASSUME NEW x \in Exists, FixInconsistent(x)
      PROVE  WellFormed'
  <2>1. PICK pairs : link' = Relinked(pairs)
    BY <1>6 DEF FixInconsistent
  <2>2. Unique' /\ UNCHANGED <<parentOf, at, nextRow>>
    BY <1>6 DEF FixInconsistent
  <2>3. QED
    BY <1>a, <2>1, <2>2, RelinkedType, TypeParts DEF Exists
<1>7. ASSUME NEW c \in Project, NEW p \in Above[c], SetParent(c, p)
      PROVE  WellFormed'
  <2>1. p \in Project
    OBVIOUS
  <2>2. QED
    BY <1>7, <2>1, RelationType DEF SetParent
<1>8. ASSUME NEW c \in Project, NEW p \in Above[c], EditRelation(c, p)
      PROVE  WellFormed'
  <2>1. p \in Project
    OBVIOUS
  <2>2. QED
    BY <1>8, <2>1, RelationType DEF EditRelation
<1>9. ASSUME NEW c \in Project, NEW p \in Above[c], ChangeParent(c, p)
      PROVE  WellFormed'
  <2>1. p \in Project
    OBVIOUS
  <2>2. c \notin Ancestry(parentOf, p) /\ parentOf' = [parentOf EXCEPT ![c] = p]
    BY <1>9, LineageIsAncestry DEF ChangeParent, NoCycle
  <2>3. parentOf' \in Parents /\ NoCycles(parentOf')
    BY <1>a, <2>1, <2>2, NewParentNoCycles
  <2>4. PICK pairs : link' = Relinked(pairs)
    BY <1>9 DEF ChangeParent
  <2>5. Unique' /\ UNCHANGED <<at, nextRow>>
    BY <1>9 DEF ChangeParent
  <2>6. QED
    BY <1>a, <2>3, <2>4, <2>5, RelinkedType, TypeParts DEF Exists
<1>10. CASE UNCHANGED vars
  <2>1. UNCHANGED <<parentOf, at, link, nextRow>>
    BY <1>10 DEF vars, rows
  <2>2. Unique' /\ Exists' = Exists
    BY <1>a, <2>1 DEF Unique, Exists
  <2>3. QED
    BY <1>a, <2>1, <2>2, TypeParts
<1>11. ASSUME NEW c \in Project, EditKind(c)
       PROVE  WellFormed'
  BY <1>11, <1>c, RelationType DEF EditKind, NoCycle
<1>12. ASSUME NEW c \in Project, NEW d \in Project, NEW p \in Above[d], EditChild(c, d, p)
       PROVE  WellFormed'
  <2>1. p \in Project /\ d \notin Ancestry(parentOf, p) /\ c # d
    BY <1>12, LineageIsAncestry DEF EditChild, NoCycle
  <2> DEFINE g == [parentOf EXCEPT ![c] = NoProject]
  <2>2. parentOf' = [g EXCEPT ![d] = p] /\ UNCHANGED rows
    BY <1>12 DEF EditChild
  <2>3. g \in Parents /\ NoCycles(g) /\ Ancestry(g, p) \subseteq Ancestry(parentOf, p)
    BY <1>a, <2>1, NoParentNoCycles
  <2>4. d \notin Ancestry(g, p)
    BY <2>1, <2>3
  <2> HIDE DEF g
  <2>5. parentOf' \in Parents /\ NoCycles(parentOf')
    BY <2>1, <2>2, <2>3, <2>4, NewParentNoCycles
  <2>6. QED
    BY <1>a, <2>2, <2>5, TypeParts DEF rows, Exists, Unique
<1>13. QED
  BY <1>1, <1>2, <1>3, <1>4, <1>5, <1>6, <1>7, <1>8, <1>9, <1>10, <1>11, <1>12 DEF Next

\* At the start there are no relations and no rows.
LEMMA TypeInit == Init => WellFormed
<1> SUFFICES ASSUME Init
             PROVE  WellFormed
  OBVIOUS
<1> USE HierarchyAssumption
<1>1. parentOf \in Parents /\ NoCycles(parentOf)
  BY DEF Init, Parents, NoCycles
<1>2. Exists = {} /\ at \in [Exists -> Project] /\ link \in [Exists -> Exists \cup {NoRow}]
  BY DEF Init, Exists
<1>3. nextRow \in 1 .. MaxRows + 1
  BY DEF Init
<1>4. Unique
  BY <1>2 DEF Unique
<1>5. QED
  BY <1>1, <1>2, <1>3, <1>4, TypeParts

\* It is invariant.
LEMMA FormInvariant == Spec => []WellFormed
<1>1. QED
  BY TypeInit, TypeStep, PTL DEF Spec

HistoryOK == unseated \in Project \cup {NoProject}

\* However projects are related, moved and released and rows imported, copied down,
\* relinked and deleted: a row's parent row exists, and a project has at most one
\* copy of a row.
THEOREM HierarchyTypes == Spec => []TypeOK
<1>1. Init => HistoryOK
  BY DEF Init, HistoryOK
<1>2. HistoryOK /\ [Next]_vars => HistoryOK'
  BY DEF Next, vars, HistoryOK
<1>3. WellFormed /\ HistoryOK => TypeOK
  BY DEF TypeOK, HistoryOK
<1>4. QED
  BY <1>1, <1>2, <1>3, FormInvariant, PTL DEF Spec

(* New parent rows ---------------------------------------------------------*)

\* Only rows of the source are given a parent row, and it is one of the target.
LEMMA PairsShape ==
    ASSUME NEW x \in Exists, NEW projects, NEW source, NEW target
    PROVE  Pairs(x, projects, source, target) \subseteq RowsAt(source) \X (RowsAt(target) \cup {NoRow})
<1> DEFINE kids == Kids(x, projects)
           leaves == {Leaf(y, projects) : y \in kids}
           targets(y) == (leaves \ {y}) \cap RowsAt(target)
           both == UNION {{y} \X (IF targets(y) = {} THEN {NoRow} ELSE targets(y)) :
                             y \in leaves \cap RowsAt(source)}
<1>1. ({x} \cap RowsAt(source)) \X {NoRow} \subseteq RowsAt(source) \X (RowsAt(target) \cup {NoRow})
  OBVIOUS
<1>2. ASSUME at[x] = source
      PROVE  {x} \X (leaves \cap RowsAt(target)) \subseteq RowsAt(source) \X (RowsAt(target) \cup {NoRow})
  BY <1>2 DEF RowsAt
<1>3. both \subseteq RowsAt(source) \X (RowsAt(target) \cup {NoRow})
  OBVIOUS
<1>4. Pairs(x, projects, source, target)
         = IF kids = {} THEN ({x} \cap RowsAt(source)) \X {NoRow}
           ELSE IF Cardinality(kids) = 1 /\ at[x] = source
                THEN {x} \X (leaves \cap RowsAt(target))
                ELSE IF Cardinality(kids) <= 2 THEN both ELSE {}
  BY DEF Pairs
<1> HIDE DEF kids, leaves, both
<1>5. QED
  BY <1>1, <1>2, <1>3, <1>4

\* The same of the pairs for several roots.
LEMMA ResolvedShape ==
    ASSUME NEW roots \in SUBSET Exists, NEW projects, NEW source, NEW target
    PROVE  Resolved(roots, projects, source, target)
              \subseteq RowsAt(source) \X (RowsAt(target) \cup {NoRow})
BY PairsShape DEF Resolved

\* A new link is one of the pairs.
LEMMA RelinkedShape ==
    ASSUME NEW pairs, NEW x \in Exists
    PROVE  \/ /\ \A z \in Exists \cup {NoRow} : <<x, z>> \notin pairs
              /\ Relinked(pairs)[x] = link[x]
           \/ <<x, Relinked(pairs)[x]>> \in pairs /\ Relinked(pairs)[x] \in Exists \cup {NoRow}
<1>1. CASE \E z \in Exists \cup {NoRow} : <<x, z>> \in pairs
  <2>1. Relinked(pairs)[x] = CHOOSE z \in Exists \cup {NoRow} : <<x, z>> \in pairs
    BY <1>1 DEF Relinked
  <2>2. QED
    BY <1>1, <2>1
<1>2. CASE \A z \in Exists \cup {NoRow} : <<x, z>> \notin pairs
  BY <1>2 DEF Relinked
<1>3. QED
  BY <1>1, <1>2

\* Whatever the step, a row with another parent row has one at its project's parent.
LEMMA RelinkedStep ==
    ASSUME WellFormed, [Next]_vars, NEW x \in Exists \cap Exists'
    PROVE  link'[x] \in {link[x], NoRow} \/ at'[link'[x]] = parentOf'[at[x]]
<1> USE HierarchyAssumption
<1>a. at \in [Exists -> Project] /\ parentOf \in Parents /\ NoRow \notin Exists
  BY TypeParts, RowsAreKeys
<1>1. ASSUME NEW p \in Project, NEW y, Insert(p, y)
      PROVE  link'[x] = link[x]
  BY <1>1, InsertShape
<1>2. CASE link' = link
  BY <1>2
<1>3. ASSUME NEW c \in Project, RemoveParent(c)
      PROVE  link'[x] \in {link[x], NoRow}
  BY <1>3 DEF RemoveParent
<1>4. ASSUME NEW y \in Exists, DeleteRow(y)
      PROVE  link'[x] \in {link[x], NoRow}
  BY <1>4 DEF DeleteRow, Exists
<1>5. ASSUME NEW c \in Project, NEW p \in Above[c], ChangeParent(c, p)
      PROVE  link'[x] \in {link[x], NoRow} \/ at'[link'[x]] = parentOf'[at[x]]
  <2> DEFINE projects == DirectLineage(c, p)
             pairs == Resolved(Roots(projects), projects, c, p)
  <2>1. link' = Relinked(pairs) /\ at' = at /\ parentOf' = [parentOf EXCEPT ![c] = p]
    BY <1>5 DEF ChangeParent
  <2>2. pairs \subseteq RowsAt(c) \X (RowsAt(p) \cup {NoRow})
    <3>1. Roots(projects) \subseteq Exists
      BY DEF Roots
    <3> HIDE DEF projects
    <3>2. QED
      BY <3>1, ResolvedShape
  <2> HIDE DEF pairs
  <2>3. CASE <<x, link'[x]>> \in pairs
    <3>1. x \in RowsAt(c) /\ link'[x] \in RowsAt(p) \cup {NoRow}
      BY <2>2, <2>3
    <3>2. parentOf'[c] = p
      BY <1>a, <2>1 DEF Parents
    <3>3. QED
      BY <2>1, <3>1, <3>2 DEF RowsAt
  <2>4. QED
    BY <2>1, <2>3, RelinkedShape
<1>6. ASSUME NEW y \in Exists, FixInconsistent(y)
      PROVE  link'[x] \in {link[x], NoRow} \/ at'[link'[x]] = parentOf'[at[x]]
  <2> DEFINE c == at[y]
             wrong == at[link[y]]
             projects == IF SameHierarchy(wrong, parentOf[c])
                         THEN DirectLineage(wrong, parentOf[c]) ELSE Lineage(wrong)
             roots == {r \in Roots(projects) : link[y] \in Tree(r, projects)}
             found == Resolved(roots, projects, wrong, parentOf[c])
             pairs == {m \in RowsAt(c) \X (Exists \cup {NoRow}) : <<link[m[1]], m[2]>> \in found}
  <2>1. link' = Relinked(pairs) /\ at' = at /\ parentOf' = parentOf
    BY <1>6 DEF FixInconsistent
  <2>2. found \subseteq RowsAt(wrong) \X (RowsAt(parentOf[c]) \cup {NoRow})
    <3>1. roots \subseteq Exists
      BY DEF Roots
    <3> HIDE DEF roots, projects, wrong, c
    <3>2. QED
      BY <3>1, ResolvedShape
  <2> HIDE DEF found
  <2>3. CASE <<x, link'[x]>> \in pairs
    <3>1. x \in RowsAt(c) /\ <<link[x], link'[x]>> \in found
      BY <2>3
    <3>2. link'[x] \in RowsAt(parentOf[c]) \cup {NoRow}
      BY <2>2, <3>1
    <3>3. at[x] = c
      BY <3>1 DEF RowsAt
    <3>4. QED
      BY <2>1, <3>2, <3>3 DEF RowsAt
  <2> HIDE DEF pairs
  <2>4. QED
    BY <2>1, <2>3, RelinkedShape
<1>7. QED
  BY <1>1, <1>2, <1>3, <1>4, <1>5, <1>6
     DEF Next, CreateRow, ImportRow, DeleteRelation, SetParent, EditRelation, EditKind,
         EditChild, rows, vars

\* A row that gets another parent row, in a move or in a repair, gets one of the
\* project that is then its project's parent, whatever other rows are linked to.
THEOREM RelinkedInvariant == Spec => RelinkedToParent
<1>1. WellFormed /\ [Next]_vars =>
         [\A x \in Exists \cap Exists' :
             link'[x] \in {link[x], NoRow} \/ at'[link'[x]] = parentOf'[at[x]]]_vars
  BY RelinkedStep
<1>2. QED
  BY <1>1, TypeInit, TypeStep, PTL DEF Spec, RelinkedToParent

(* Trees of rows -----------------------------------------------------------*)

\* Children are rows that exist.
LEMMA KidsAreRows ==
    ASSUME NEW x, NEW projects
    PROVE  Kids(x, projects) \subseteq Exists
BY DEF Kids

\* The tree of a row has the row and the children of its own, and nothing more.
LEMMA TreeIsClosed ==
    ASSUME NEW projects, NEW x \in Exists
    PROVE  /\ x \in Tree(x, projects) /\ Tree(x, projects) \subseteq Exists
           /\ \A y \in Tree(x, projects) : Kids(y, projects) \subseteq Tree(x, projects)
<1> DEFINE closed == {S \in SUBSET Exists : x \in S /\ \A y \in S : Kids(y, projects) \subseteq S}
<1>1. Tree(x, projects) = {y \in Exists : \A S \in closed : y \in S}
  BY DEF Tree
<1>2. ASSUME NEW y \in Tree(x, projects), NEW z \in Kids(y, projects)
      PROVE  z \in Tree(x, projects)
  <2>1. z \in Exists
    BY KidsAreRows
  <2>2. ASSUME NEW S \in closed
        PROVE  z \in S
    BY <1>1
  <2>3. QED
    BY <1>1, <2>1, <2>2
<1>3. QED
  BY <1>1, <1>2

\* A tree is in every set that has its row and the children of its own.
LEMMA TreeIsLeast ==
    ASSUME NEW projects, NEW x, NEW S \in SUBSET Exists, x \in S,
           \A y \in S : Kids(y, projects) \subseteq S
    PROVE  Tree(x, projects) \subseteq S
BY DEF Tree

\* A row of a tree is there with its own tree.
LEMMA TreeGrows ==
    ASSUME NEW projects, NEW x \in Exists, NEW y \in Tree(x, projects)
    PROVE  Tree(y, projects) \subseteq Tree(x, projects)
<1>1. Tree(x, projects) \in SUBSET Exists
      /\ \A z \in Tree(x, projects) : Kids(z, projects) \subseteq Tree(x, projects)
  BY TreeIsClosed
<1>2. QED
  BY <1>1, TreeIsLeast

\* A tree is its row and the trees of its children.
LEMMA TreeSplits ==
    ASSUME NEW projects, NEW x \in Exists, NEW y \in Tree(x, projects), y # x
    PROVE  \E k \in Kids(x, projects) : y \in Tree(k, projects)
<1> DEFINE S == {x} \cup UNION {Tree(k, projects) : k \in Kids(x, projects)}
<1>1. \A k \in Kids(x, projects) :
         /\ k \in Tree(k, projects) /\ Tree(k, projects) \subseteq Exists
         /\ \A z \in Tree(k, projects) : Kids(z, projects) \subseteq Tree(k, projects)
  BY KidsAreRows, TreeIsClosed
<1>2. S \in SUBSET Exists /\ x \in S
  BY <1>1
<1>3. \A z \in S : Kids(z, projects) \subseteq S
  BY <1>1
<1>4. Tree(x, projects) \subseteq S
  <2> HIDE DEF S
  <2>1. QED
    BY <1>2, <1>3, TreeIsLeast
<1>5. QED
  BY <1>4

\* Keys are given out one by one, so there are finitely many rows.
LEMMA RowsAreFinite ==
    ASSUME WellFormed
    PROVE  IsFiniteSet(Exists)
<1>1. nextRow - 1 \in Int /\ 1 \in Int /\ Exists \subseteq 1 .. nextRow - 1
  BY HierarchyAssumption DEF WellFormed
<1>2. QED
  BY <1>1, FS_Interval, FS_Subset

\* Of a set with at most one element no two are different.
LEMMA AtMostOne ==
    ASSUME NEW S, IsFiniteSet(S), Cardinality(S) <= 1, NEW x \in S, NEW y \in S
    PROVE  x = y
<1> SUFFICES ASSUME x # y
             PROVE  FALSE
  OBVIOUS
<1>1. IsFiniteSet({x}) /\ Cardinality({x}) = 1
  BY FS_Singleton
<1>2. IsFiniteSet({x} \cup {y}) /\ Cardinality({x} \cup {y}) = 2
  <2>1. Cardinality({x} \cup {y}) = IF y \in {x} THEN 1 ELSE 1 + 1
    BY <1>1, FS_AddElement, Zenon
  <2>2. QED
    BY <1>1, <2>1, FS_AddElement
<1>3. {x} \cup {y} \in SUBSET S
  OBVIOUS
<1>4. Cardinality({x} \cup {y}) <= Cardinality(S)
  BY <1>3, FS_Subset
<1>5. Cardinality(S) \in Nat
  BY FS_CardinalityType
<1>6. QED
  BY <1>2, <1>4, <1>5

\* A single path has one end.
LEMMA LeafOfPath ==
    ASSUME WellFormed, NEW projects, NEW y \in Exists, SinglePath(y, projects),
           NEW x \in Tree(y, projects), Kids(x, projects) = {}
    PROVE  Leaf(y, projects) = x
<1> DEFINE S == {w \in Tree(y, projects) : x \in Tree(w, projects)}
<1>1. \A w \in Tree(y, projects) : w \in Exists /\ Kids(w, projects) \subseteq Tree(y, projects)
  BY TreeIsClosed
<1>2. ASSUME NEW w \in Tree(y, projects), NEW a \in Kids(w, projects), NEW b \in Kids(w, projects)
      PROVE  a = b
  <2>1. IsFiniteSet(Kids(w, projects))
    BY RowsAreFinite, KidsAreRows, FS_Subset
  <2>2. Cardinality(Kids(w, projects)) <= 1
    BY DEF SinglePath
  <2>3. QED
    BY <2>1, <2>2, AtMostOne
<1>3. S \in SUBSET Exists /\ y \in S
  BY <1>1, TreeIsClosed
<1>4. ASSUME NEW w \in S, NEW k \in Kids(w, projects)
      PROVE  k \in S
  <2>1. w \in Tree(y, projects) /\ x \in Tree(w, projects) /\ w \in Exists
    BY <1>1
  <2>2. w # x
    OBVIOUS
  <2>3. PICK l \in Kids(w, projects) : x \in Tree(l, projects)
    BY <2>1, <2>2, TreeSplits
  <2>4. k = l
    BY <1>2, <2>1, <2>3
  <2>5. QED
    BY <1>1, <2>1, <2>3, <2>4
<1>5. Tree(y, projects) \subseteq S
  <2> HIDE DEF S
  <2>1. QED
    BY <1>3, <1>4, TreeIsLeast
<1>6. ASSUME NEW z \in Tree(y, projects), Kids(z, projects) = {}
      PROVE  z = x
  <2>1. x \in Tree(z, projects) /\ z \in Exists
    BY <1>1, <1>5
  <2>2. QED
    BY <1>6, <2>1, TreeSplits
<1>7. Leaf(y, projects) = CHOOSE z \in Tree(y, projects) : Kids(z, projects) = {}
  BY DEF Leaf
<1>8. \E z \in Tree(y, projects) : Kids(z, projects) = {}
  OBVIOUS
<1>9. (CHOOSE z \in Tree(y, projects) : Kids(z, projects) = {}) \in Tree(y, projects)
      /\ Kids(CHOOSE z \in Tree(y, projects) : Kids(z, projects) = {}, projects) = {}
  BY <1>8
<1>10. QED
  BY <1>6, <1>7, <1>9

(* Rows under the rows of their project's parent ----------------------------*)

\* While links follow the hierarchy, a parent row is at the parent project.
LEMMA ConsistentLinks ==
    ASSUME WellFormed, Consistent, NEW x \in Exists, link[x] # NoRow
    PROVE  /\ link[x] \in Exists /\ at[x] \in Project /\ at[link[x]] \in Project
           /\ at[link[x]] = parentOf[at[x]]
<1>1. link[x] \in Exists /\ at[x] \in Project /\ at[link[x]] \in Project
  BY DEF WellFormed
<1>2. at[link[x]] \in LinkedProjects(at[x])
  BY DEF LinkedProjects, RowsAt
<1>3. QED
  BY <1>1, <1>2 DEF Consistent, ConsistentAt

\* Then the children of a row are at projects below its own.
LEMMA ConsistentKids ==
    ASSUME WellFormed, Consistent, NEW projects, NEW x \in Exists, NEW k \in Kids(x, projects)
    PROVE  /\ k \in Exists /\ link[k] = x /\ at[k] \in projects
           /\ at[k] \in Project /\ parentOf[at[k]] = at[x] /\ at[x] \in Project
<1>1. k \in Exists /\ link[k] = x /\ at[k] \in projects /\ x # NoRow
  BY RowsAreKeys DEF Kids
<1>2. QED
  BY <1>1, ConsistentLinks

\* Every row of the projects is in the tree of a root: a highest one that were not
\* would be a child of one that is.
LEMMA RootExists ==
    ASSUME WellFormed, Consistent, NEW projects, NEW x \in Exists, at[x] \in projects
    PROVE  \E r \in Roots(projects) : x \in Tree(r, projects)
<1> DEFINE S == {y \in Exists : at[y] \in projects
                                 /\ \A r \in Roots(projects) : y \notin Tree(r, projects)}
           A == {at[y] : y \in S}
<1>1. parentOf \in Parents /\ NoCycles(parentOf) /\ at \in [Exists -> Project]
  BY TypeParts
<1> SUFFICES ASSUME x \in S
             PROVE  FALSE
  OBVIOUS
<1>2. A \in SUBSET Project /\ A # {}
  BY <1>1
<1>3. PICK q \in A : parentOf[q] \notin A
  <2> HIDE DEF A
  <2>1. QED
    BY <1>1, <1>2, TopExists
<1>4. PICK y \in S : at[y] = q
  OBVIOUS
<1>5. y \in Exists /\ at[y] \in projects /\ y \notin Roots(projects)
  BY TreeIsClosed
<1>6. link[y] # NoRow /\ at[link[y]] \in projects
  BY <1>5 DEF Roots
<1>7. link[y] \in Exists /\ at[link[y]] = parentOf[q]
  BY <1>4, <1>5, <1>6, ConsistentLinks
<1>8. link[y] \notin S
  BY <1>3, <1>7
<1>9. PICK r \in Roots(projects) : link[y] \in Tree(r, projects)
  BY <1>6, <1>7, <1>8
<1>10. y \in Kids(link[y], projects)
  BY <1>5 DEF Kids
<1>11. r \in Exists
  BY DEF Roots
<1>12. y \in Tree(r, projects)
  BY <1>9, <1>10, <1>11, TreeIsClosed
<1>13. QED
  BY <1>12

(* Direct lineages ---------------------------------------------------------*)

\* A lineage is its project and the lineage of the parent.
LEMMA LineageUnfolds ==
    ASSUME WellFormed, NEW p \in Project
    PROVE  Lineage(p) = {p} \cup Lineage(parentOf[p])
BY TypeParts, LineageIsAncestry, AncestryUnfolds

\* Whoever is on a lineage is there with its own lineage.
LEMMA LineageGrows ==
    ASSUME WellFormed, NEW p \in Project, NEW q \in Lineage(p)
    PROVE  Lineage(q) \subseteq Lineage(p)
BY TypeParts, LineageIsAncestry, AncestryGrows

\* Two lineages that meet share the lineage of one project: below its highest
\* project for which they did not, they would not either.
LEMMA LineagesMeet ==
    ASSUME WellFormed, NEW p \in Project, NEW q \in Project, Lineage(p) \cap Lineage(q) # {}
    PROVE  /\ NearestCommon(p, q) \in Lineage(p) \cap Lineage(q)
           /\ Lineage(NearestCommon(p, q)) = Lineage(p) \cap Lineage(q)
<1> DEFINE Meet(x) == \E m \in Lineage(x) \cap Lineage(q) : Lineage(m) = Lineage(x) \cap Lineage(q)
           S == {x \in Project : Lineage(x) \cap Lineage(q) # {} /\ ~Meet(x)}
<1>1. parentOf \in Parents /\ NoCycles(parentOf)
  BY TypeParts
<1>2. ASSUME NEW x \in S
      PROVE  parentOf[x] \in S
  <2>1. x \in Project /\ Lineage(x) \cap Lineage(q) # {} /\ ~Meet(x)
    OBVIOUS
  <2>2. x \notin Lineage(q)
    <3> SUFFICES ASSUME x \in Lineage(q)
                 PROVE  FALSE
      OBVIOUS
    <3>1. Lineage(x) \subseteq Lineage(q) /\ x \in Lineage(x)
      BY <2>1, LineageGrows, LineageFacts
    <3>2. QED
      BY <2>1, <3>1
  <2>3. Lineage(x) \cap Lineage(q) = Lineage(parentOf[x]) \cap Lineage(q)
    BY <2>1, <2>2, LineageUnfolds
  <2>4. parentOf[x] \in Project
    <3>1. parentOf[x] # NoProject
      BY <2>1, <2>3, NoProjectHasNoAncestry, LineageIsAncestry
    <3>2. QED
      BY <1>1, <2>1, <3>1 DEF Parents
  <2>5. \A m : m \in Lineage(parentOf[x]) \cap Lineage(q) => m \in Lineage(x) \cap Lineage(q)
    BY <2>3
  <2>6. ~Meet(parentOf[x])
    BY <2>1, <2>3, <2>5
  <2>7. QED
    BY <2>1, <2>3, <2>4, <2>6
<1>3. S = {}
  <2>1. S \in SUBSET Project
    OBVIOUS
  <2> HIDE DEF S
  <2>2. QED
    BY <1>1, <1>2, <2>1, TopExists
<1>4. Meet(p)
  BY <1>3
<1>5. NearestCommon(p, q)
        = CHOOSE c \in Lineage(p) \cap Lineage(q) : Lineage(c) = Lineage(p) \cap Lineage(q)
  BY DEF NearestCommon
<1>6. QED
  BY <1>4, <1>5

\* The projects between p and q: what one of their lineages has and the other has
\* not, and the nearest project they share.
LEMMA DirectLineageFacts ==
    ASSUME WellFormed, NEW p \in Project, NEW q \in Project, SameHierarchy(p, q)
    PROVE  /\ NearestCommon(p, q) \in Lineage(p) \cap Lineage(q)
           /\ Lineage(NearestCommon(p, q)) = Lineage(p) \cap Lineage(q)
           /\ DirectLineage(p, q) = (Lineage(p) \ Lineage(q)) \cup (Lineage(q) \ Lineage(p))
                                      \cup {NearestCommon(p, q)}
           /\ DirectLineage(p, q) \subseteq Lineage(p) \cup Lineage(q)
<1>1. Lineage(p) \cap Lineage(q) # {}
  BY DEF SameHierarchy, DirectLineage
<1>2. QED
  BY <1>1, LineagesMeet DEF DirectLineage, SymDiff

\* Nothing on a lineage is below its project.
LEMMA NothingBelow ==
    ASSUME WellFormed, NEW p \in Project, NEW q \in Lineage(p), parentOf[q] = p
    PROVE  FALSE
<1>1. q \in Project /\ parentOf[q] \in Project
  BY LineageFacts
<1>2. QED
  BY <1>1, TypeParts, LineageIsAncestry DEF NoCycles

\* On a lineage a project has one child at most.
LEMMA OneChildOnLineage ==
    ASSUME WellFormed, NEW p \in Project, NEW q \in Lineage(p), NEW r \in Lineage(p),
           parentOf[q] = parentOf[r], parentOf[q] \in Project
    PROVE  q = r
<1>1. q \in Project /\ r \in Project
  BY LineageFacts
<1>2. ASSUME NEW a \in Project, NEW b \in Project, a \in Lineage(b), a # b,
             parentOf[a] = parentOf[b], parentOf[b] \in Project
      PROVE  FALSE
  <2>1. a \in Lineage(parentOf[b])
    BY <1>2, LineageUnfolds
  <2>2. QED
    BY <1>2, <2>1, NothingBelow
<1>3. q \in Lineage(r) \/ r \in Lineage(q)
  BY TypeParts, LineageIsAncestry, AncestryIsChain
<1>4. QED
  BY <1>1, <1>2, <1>3

\* Between two projects of which one is not above the other, its rows have no
\* children.
LEMMA NoKidsAtTheEnd ==
    ASSUME WellFormed, Consistent, NEW p \in Project, NEW q \in Project, p \notin Lineage(q),
           NEW projects, projects \subseteq Lineage(p) \cup Lineage(q), NEW x \in RowsAt(p)
    PROVE  Kids(x, projects) = {}
<1> SUFFICES ASSUME NEW k \in Kids(x, projects)
             PROVE  FALSE
  OBVIOUS
<1>1. x \in Exists /\ at[x] = p
  BY DEF RowsAt
<1>2. at[k] \in projects /\ at[k] \in Project /\ parentOf[at[k]] = p
  BY <1>1, ConsistentKids
<1>3. CASE at[k] \in Lineage(p)
  BY <1>2, <1>3, NothingBelow
<1>4. CASE at[k] \in Lineage(q)
  <2>1. p \in Lineage(q)
    BY <1>2, <1>4, LineageFacts, HierarchyAssumption
  <2>2. QED
    BY <2>1
<1>5. QED
  BY <1>2, <1>3, <1>4

\* Between two projects a row has at most two children, one on each side.
LEMMA TwoKids ==
    ASSUME WellFormed, Consistent, NEW p \in Project, NEW q \in Project,
           NEW projects, projects \subseteq Lineage(p) \cup Lineage(q), NEW x \in Exists
    PROVE  /\ Cardinality(Kids(x, projects)) <= 2
           /\ \A k, l \in Kids(x, projects) :
                 \/ at[k] \in Lineage(p) /\ at[l] \in Lineage(p)
                 \/ at[k] \in Lineage(q) /\ at[l] \in Lineage(q)
                 => k = l
<1>1. ASSUME NEW r \in Project, NEW k \in Kids(x, projects), NEW l \in Kids(x, projects),
             at[k] \in Lineage(r), at[l] \in Lineage(r)
      PROVE  k = l
  <2>1. /\ k \in Exists /\ l \in Exists /\ link[k] = x /\ link[l] = x /\ x # NoRow
        /\ parentOf[at[k]] = at[x] /\ parentOf[at[l]] = at[x] /\ at[x] \in Project
    BY ConsistentKids, RowsAreKeys
  <2>2. at[k] = at[l]
    BY <1>1, <2>1, OneChildOnLineage
  <2>3. QED
    BY <2>1, <2>2 DEF WellFormed, Unique
<1> DEFINE A == {k \in Kids(x, projects) : at[k] \in Lineage(p)}
           B == {k \in Kids(x, projects) : at[k] \in Lineage(q)}
<1>2. Kids(x, projects) = A \cup B
  BY ConsistentKids
<1>3. \E a : A \subseteq {a}
  <2>1. CASE A = {}
    BY <2>1
  <2>2. CASE A # {}
    <3>1. PICK a \in A : TRUE
      BY <2>2
    <3>2. A \subseteq {a}
      BY <1>1, <3>1
    <3>3. QED
      BY <3>2
  <2>3. QED
    BY <2>1, <2>2
<1>4. \E b : B \subseteq {b}
  <2>1. CASE B = {}
    BY <2>1
  <2>2. CASE B # {}
    <3>1. PICK b \in B : TRUE
      BY <2>2
    <3>2. B \subseteq {b}
      BY <1>1, <3>1
    <3>3. QED
      BY <3>2
  <2>3. QED
    BY <2>1, <2>2
<1> HIDE DEF A, B
<1>5. PICK a, b : A \subseteq {a} /\ B \subseteq {b}
  BY <1>3, <1>4
<1>6. Kids(x, projects) \in SUBSET ({a} \cup {b})
  BY <1>2, <1>5
<1>7. IsFiniteSet({a} \cup {b}) /\ Cardinality({a} \cup {b}) \in Nat
      /\ Cardinality({a} \cup {b}) <= 2
  <2>1. IsFiniteSet({a}) /\ Cardinality({a}) = 1
    BY FS_Singleton
  <2>2. IsFiniteSet({a} \cup {b})
        /\ Cardinality({a} \cup {b}) = IF b \in {a} THEN Cardinality({a}) ELSE Cardinality({a}) + 1
    BY <2>1, FS_AddElement, Zenon
  <2>3. QED
    BY <2>1, <2>2
<1>8. IsFiniteSet(Kids(x, projects))
      /\ Cardinality(Kids(x, projects)) <= Cardinality({a} \cup {b})
  BY <1>6, <1>7, FS_Subset
<1>9. Cardinality(Kids(x, projects)) \in Nat
  BY <1>8, FS_CardinalityType
<1>10. QED
  BY <1>1, <1>7, <1>8, <1>9

\* Every row of a project that moves within its hierarchy is paired: the row is alone
\* in its tree, or the end of the path below the first or the second child of a root.
LEMMA MovedRowIsPaired ==
    ASSUME WellFormed, Consistent, NEW c \in Project, NEW p \in Project, NoCycle(c, p),
           SameHierarchy(c, p), NEW projects, projects = DirectLineage(c, p),
           Resolvable(Roots(projects), projects, c, p), NEW x \in RowsAt(c)
    PROVE  \E z \in RowsAt(p) \cup {NoRow} :
              <<x, z>> \in Resolved(Roots(projects), projects, c, p)
<1> DEFINE kids(r) == Kids(r, projects)
           leaves(r) == {Leaf(y, projects) : y \in kids(r)}
           targets(r, y) == (leaves(r) \ {y}) \cap RowsAt(p)
           both(r) == UNION {{y} \X (IF targets(r, y) = {} THEN {NoRow} ELSE targets(r, y)) :
                                y \in leaves(r) \cap RowsAt(c)}
<1>1. x \in Exists /\ at[x] = c
  BY DEF RowsAt
<1>2. c \notin Lineage(p) /\ c \in Lineage(c)
  BY LineageFacts DEF NoCycle
<1>3. projects \subseteq Lineage(c) \cup Lineage(p) /\ c \in projects
  BY <1>2, DirectLineageFacts
<1>4. \A y \in RowsAt(c) : Kids(y, projects) = {}
  BY <1>2, <1>3, NoKidsAtTheEnd
<1>5. PICK r \in Roots(projects) : x \in Tree(r, projects)
  BY <1>1, <1>3, RootExists
<1>6. r \in Exists
  BY DEF Roots
<1>7. \E z : <<x, z>> \in Pairs(r, projects, c, p)
  <2>1. CASE kids(r) = {}
    <3>1. x = r
      BY <1>5, <1>6, <2>1, TreeSplits
    <3>2. Pairs(r, projects, c, p) = ({r} \cap RowsAt(c)) \X {NoRow}
      BY <2>1 DEF Pairs
    <3>3. <<x, NoRow>> \in Pairs(r, projects, c, p)
      BY <3>1, <3>2
    <3>4. QED
      BY <3>3
  <2>2. CASE kids(r) # {}
    <3>1. r \notin RowsAt(c) /\ at[r] # c
      BY <1>4, <1>6, <2>2 DEF RowsAt
    <3>2. x # r
      BY <3>1
    <3>3. PICK y \in kids(r) : x \in Tree(y, projects)
      BY <1>5, <1>6, <3>2, TreeSplits
    <3>4. y \in Exists
      BY KidsAreRows
    <3>5. SinglePath(y, projects)
      BY DEF Resolvable, Raises
    <3>6. Leaf(y, projects) = x
      BY <1>4, <3>3, <3>4, <3>5, LeafOfPath
    <3>7. x \in leaves(r) \cap RowsAt(c)
      BY <3>6
    <3>8. Cardinality(kids(r)) <= 2
      BY <1>3, <1>6, TwoKids
    <3>9. Pairs(r, projects, c, p) = both(r)
      BY <2>2, <3>1, <3>8 DEF Pairs
    <3>10. PICK z : z \in (IF targets(r, x) = {} THEN {NoRow} ELSE targets(r, x))
      <4> HIDE DEF targets
      <4>1. QED
        OBVIOUS
    <3>11. <<x, z>> \in both(r)
      <4> HIDE DEF targets, leaves
      <4>1. <<x, z>> \in {x} \X (IF targets(r, x) = {} THEN {NoRow} ELSE targets(r, x))
        BY <3>10
      <4>2. QED
        BY <3>7, <4>1
    <3>12. QED
      BY <3>9, <3>11
  <2>3. QED
    BY <2>1, <2>2
<1>8. PICK z : <<x, z>> \in Pairs(r, projects, c, p)
  BY <1>7
<1>9. z \in RowsAt(p) \cup {NoRow}
  BY <1>6, <1>8, PairsShape
<1>10. QED
  BY <1>8, <1>9 DEF Resolved

\* Links are consistent after a step if each linked row is under the new
\* parent.
LEMMA ConsistentNext ==
    ASSUME NEW c,
           \A x \in Exists' : at'[x] = c => link'[x] = NoRow \/ at'[link'[x]] = parentOf'[c]
    PROVE  ConsistentAt(c)'
BY DEF ConsistentAt, LinkedProjects, RowsAt

\* Only a move to another hierarchy, and an edit that takes the parent away, leave a
\* project's rows under the rows of a project that is not its parent.
LEMMA OnlyLeavingStep ==
    ASSUME WellFormed, Next, Consistent, NEW d \in Project
    PROVE  ConsistentAt(d)' \/ Leaves(d) \/ unseated' = d
<1> USE HierarchyAssumption
<1>a. /\ parentOf \in Parents /\ at \in [Exists -> Project]
      /\ link \in [Exists -> Exists \cup {NoRow}] /\ NoRow \notin Exists
  BY TypeParts, RowsAreKeys
<1>b. \A x \in Exists : link[x] = NoRow \/ at[link[x]] = parentOf[at[x]]
  BY ConsistentLinks
<1>1. ASSUME NEW p \in Project, NEW y, Insert(p, y),
             y = NoRow \/ (y \in Exists /\ at[y] = parentOf[p])
      PROVE  ConsistentAt(d)'
  <2>1. parentOf' = parentOf
    BY <1>1 DEF Insert
  <2>2. ASSUME NEW x \in Exists
        PROVE  at'[x] = at[x] /\ (link'[x] = NoRow \/ at'[link'[x]] = parentOf[at[x]])
    BY <1>a, <1>b, <1>1, InsertShape
  <2>3. ASSUME NEW x \in Exists' \ Exists
        PROVE  link'[x] = NoRow \/ at'[link'[x]] = parentOf[at'[x]]
    BY <1>1, InsertShape
  <2>4. QED
    BY <2>1, <2>2, <2>3, ConsistentNext
<1>2. ASSUME NEW c \in Project, NEW p \in Project \cup {NoProject}, UNCHANGED rows,
             parentOf' = [parentOf EXCEPT ![c] = p], LinkedProjects(c) \subseteq {p}
      PROVE  ConsistentAt(d)'
  <2>1. Exists' = Exists /\ at' = at /\ link' = link
    BY <1>2 DEF rows, Exists
  <2>2. parentOf'[c] = p /\ \A q \in Project \ {c} : parentOf'[q] = parentOf[q]
    BY <1>a, <1>2 DEF Parents
  <2>3. \A x \in RowsAt(c) : link[x] = NoRow \/ at[link[x]] = p
    BY <1>2 DEF LinkedProjects
  <2>4. QED
    BY <1>b, <2>1, <2>2, <2>3, ConsistentNext DEF RowsAt
<1>3. ASSUME NEW p \in Project, CreateRow(p)
      PROVE  ConsistentAt(d)'
  <2>1. Insert(p, NoRow)
    BY <1>3 DEF CreateRow
  <2>2. QED
    BY <1>1, <2>1
<1>4. ASSUME NEW c \in Project, DeleteRelation(c)
      PROVE  ConsistentAt(d)'
  <2>1. LinkedProjects(c) \subseteq {parentOf[c]} /\ parentOf[c] \notin LinkedProjects(c)
    BY <1>4 DEF DeleteRelation, Consistent, ConsistentAt
  <2>2. LinkedProjects(c) \subseteq {NoProject}
    BY <2>1
  <2>3. QED
    BY <1>2, <1>4, <2>2 DEF DeleteRelation
<1>5. ASSUME NEW c \in Project, RemoveParent(c)
      PROVE  ConsistentAt(d)'
  <2>1. /\ parentOf' = [parentOf EXCEPT ![c] = NoProject] /\ at' = at /\ Exists' = Exists
        /\ link' = [x \in Exists |-> IF at[x] = c THEN NoRow ELSE link[x]]
    BY <1>5 DEF RemoveParent, Exists
  <2>2. \A q \in Project \ {c} : parentOf'[q] = parentOf[q]
    BY <1>a, <2>1 DEF Parents
  <2>3. QED
    BY <1>b, <2>1, <2>2, ConsistentNext
<1>6. ASSUME NEW c \in Project, NEW y \in Exists, ImportRow(c, y)
      PROVE  ConsistentAt(d)'
  BY <1>1, <1>6 DEF ImportRow
<1>7. ASSUME NEW y \in Exists, DeleteRow(y)
      PROVE  ConsistentAt(d)'
  <2>1. /\ parentOf' = parentOf /\ at' = [x \in Exists \ {y} |-> at[x]]
        /\ link' = [x \in Exists \ {y} |-> IF link[x] = y THEN NoRow ELSE link[x]]
        /\ Exists' = Exists \ {y}
    BY <1>7 DEF DeleteRow, Exists
  <2>2. ASSUME NEW x \in Exists', link'[x] # NoRow
        PROVE  at'[x] = at[x] /\ link'[x] = link[x] /\ link[x] \in Exists \ {y}
    BY <1>a, <2>1, <2>2
  <2>3. QED
    BY <1>b, <2>1, <2>2, ConsistentNext
<1>8. ASSUME NEW x \in Exists, FixInconsistent(x)
      PROVE  FALSE
  BY <1>b, <1>8 DEF FixInconsistent
<1>9. ASSUME NEW c \in Project, NEW p \in Above[c], SetParent(c, p)
      PROVE  ConsistentAt(d)'
  <2>1. p \in Project
    OBVIOUS
  <2>2. \A x \in RowsAt(c) : link[x] = NoRow
    BY <1>9, ConsistentLinks DEF SetParent, RowsAt
  <2>3. LinkedProjects(c) \subseteq {p}
    BY <2>2 DEF LinkedProjects
  <2>4. QED
    BY <1>2, <1>9, <2>1, <2>3 DEF SetParent
<1>10. ASSUME NEW c \in Project, NEW p \in Above[c], EditRelation(c, p)
       PROVE  ConsistentAt(d)'
  <2>1. p \in Project
    OBVIOUS
  <2>2. QED
    BY <1>2, <1>10, <2>1 DEF EditRelation
<1>11. ASSUME NEW c \in Project, NEW p \in Above[c], ChangeParent(c, p)
       PROVE  ConsistentAt(d)' \/ Leaves(d)
  <2> DEFINE projects == DirectLineage(c, p)
             pairs == Resolved(Roots(projects), projects, c, p)
  <2>1. p \in Project
    OBVIOUS
  <2>2. /\ at' = at /\ parentOf' = [parentOf EXCEPT ![c] = p] /\ link' = Relinked(pairs)
        /\ parentOf[c] # p /\ NoCycle(c, p) /\ Resolvable(Roots(projects), projects, c, p)
    BY <1>11 DEF ChangeParent
  <2>3. Exists' = Exists
    BY <2>2 DEF Exists
  <2>4. parentOf'[c] = p /\ \A q \in Project \ {c} : parentOf'[q] = parentOf[q]
    BY <1>a, <2>1, <2>2 DEF Parents
  <2> HIDE DEF projects
  <2>5. pairs \subseteq RowsAt(c) \X (RowsAt(p) \cup {NoRow})
    <3>1. Roots(projects) \in SUBSET Exists
      BY DEF Roots
    <3>2. QED
      BY <3>1, ResolvedShape
  <2> HIDE DEF pairs
  <2>6. CASE d # c
    <3>1. \A x \in Exists : at[x] = d => link'[x] = link[x]
      BY <2>2, <2>5, <2>6, RelinkedShape DEF RowsAt
    <3>2. QED
      BY <1>b, <2>2, <2>3, <2>4, <2>6, <3>1, ConsistentNext
  <2>7. CASE d = c /\ ~SameHierarchy(c, p)
    BY <2>1, <2>2, <2>4, <2>7 DEF Leaves
  <2>8. CASE d = c /\ SameHierarchy(c, p)
    <3>1. ASSUME NEW x \in RowsAt(c)
          PROVE  link'[x] \in RowsAt(p) \cup {NoRow}
      <4>1. x \in Exists
        BY DEF RowsAt
      <4>2. \E z \in Exists \cup {NoRow} : <<x, z>> \in pairs
        BY <2>1, <2>2, <2>8, MovedRowIsPaired DEF projects, pairs, RowsAt
      <4>3. <<x, link'[x]>> \in pairs
        BY <2>2, <4>1, <4>2, RelinkedShape
      <4>4. QED
        BY <2>5, <4>3
    <3>2. \A x \in Exists : at[x] = c => link'[x] = NoRow \/ at[link'[x]] = p
      BY <3>1 DEF RowsAt
    <3>3. QED
      BY <2>2, <2>3, <2>4, <2>8, <3>2, ConsistentNext
  <2>9. QED
    BY <2>6, <2>7, <2>8
<1>12. ASSUME NEW c \in Project, c # d, EditKind(c)
       PROVE  ConsistentAt(d)'
  <2>1. Exists' = Exists /\ at' = at /\ link' = link /\ parentOf'[d] = parentOf[d]
    BY <1>a, <1>12 DEF EditKind, rows, Exists, Parents
  <2>2. QED
    BY <1>b, <2>1, ConsistentNext
<1>13. ASSUME NEW c \in Project, c # d, NEW e \in Project, NEW p \in Above[e], EditChild(c, e, p)
       PROVE  ConsistentAt(d)'
  <2>1. /\ Exists' = Exists /\ at' = at /\ link' = link
        /\ parentOf' = [parentOf EXCEPT ![c] = NoProject, ![e] = p]
        /\ LinkedProjects(e) \subseteq {p}
    BY <1>13 DEF EditChild, rows, Exists
  <2>2. parentOf'[d] = IF d = e THEN p ELSE parentOf[d]
    BY <1>a, <1>13, <2>1 DEF Parents
  <2>3. d = e => \A x \in RowsAt(d) : link[x] = NoRow \/ at[link[x]] = p
    BY <2>1 DEF LinkedProjects
  <2>4. QED
    BY <1>b, <2>1, <2>2, <2>3, ConsistentNext DEF RowsAt
<1>14. QED
  BY <1>3, <1>4, <1>5, <1>6, <1>7, <1>8, <1>9, <1>10, <1>11, <1>12, <1>13 DEF Next

\* Imports, deletions, moves within a hierarchy and edits of relations that give a
\* project another parent keep every row under a row of its project's parent; only
\* leaving a hierarchy does not, and losing the parent relation by an edit of it.
THEOREM LeavingInvariant == Spec => OnlyLeavingBreaksLinks
<1>1. WellFormed /\ [Next]_vars =>
         [Consistent =>
             \A c \in Project : ConsistentAt(c)' \/ Leaves(c) \/ unseated' = c]_vars
  BY OnlyLeavingStep
<1>2. QED
  BY <1>1, TypeInit, TypeStep, PTL DEF Spec, OnlyLeavingBreaksLinks

(* The rows of the two projects that belong together -------------------------*)

\* Rows under one another are at projects above one another.
LEMMA TreeGoesDown ==
    ASSUME WellFormed, Consistent, NEW projects, NEW x \in Exists, NEW y \in Tree(x, projects)
    PROVE  y \in Exists /\ at[x] \in Lineage(at[y])
<1> DEFINE S == {z \in Exists : at[x] \in Lineage(at[z])}
<1>1. x \in S
  BY LineageFacts DEF WellFormed
<1>2. ASSUME NEW z \in S, NEW k \in Kids(z, projects)
      PROVE  k \in S
  <2>1. k \in Exists /\ at[k] \in Project /\ parentOf[at[k]] = at[z]
    BY <1>2, ConsistentKids
  <2>2. Lineage(at[k]) = {at[k]} \cup Lineage(at[z])
    BY <2>1, LineageUnfolds
  <2>3. QED
    BY <2>1, <2>2
<1>3. Tree(x, projects) \subseteq S
  <2>1. S \in SUBSET Exists /\ \A z \in S : Kids(z, projects) \subseteq S
    BY <1>2
  <2> HIDE DEF S
  <2>2. QED
    BY <1>1, <2>1, TreeIsLeast
<1>4. QED
  BY <1>3

\* A tree ends: the smallest tree in it has one row.
LEMMA LeafExists ==
    ASSUME WellFormed, Consistent, NEW projects, NEW x \in Exists
    PROVE  Leaf(x, projects) \in Tree(x, projects) /\ Kids(Leaf(x, projects), projects) = {}
<1> DEFINE Trees == {Tree(y, projects) : y \in Tree(x, projects)}
<1>1. IsWellFoundedOn(StrictSubsetOrdering(Exists), SUBSET Exists)
  <2>1. IsFiniteSet(Exists)
    BY RowsAreFinite
  <2>2. IsFiniteSet(Exists) => FiniteSubsetsOf(Exists) = SUBSET Exists
    BY <2>1, FS_FiniteSubsetsOfFinite
  <2>3. IsWellFoundedOn(StrictSubsetOrdering(Exists), FiniteSubsetsOf(Exists))
    BY <2>1, FS_StrictSubsetOrderingWellFounded, Zenon
  <2>4. QED
    BY <2>1, <2>2, <2>3, Zenon
<1>2. Trees \subseteq SUBSET Exists /\ Trees # {}
  <2>1. x \in Tree(x, projects) /\ Tree(x, projects) \subseteq Exists
    BY TreeIsClosed
  <2>2. \A y \in Tree(x, projects) : Tree(y, projects) \in SUBSET Exists
    BY <2>1, TreeIsClosed
  <2>3. QED
    BY <2>1, <2>2
<1>3. PICK X \in Trees : \A Y \in Trees : ~(<<Y, X>> \in StrictSubsetOrdering(Exists))
  <2> HIDE DEF Trees
  <2>1. QED
    BY <1>1, <1>2, WFMin
<1>4. PICK y \in Tree(x, projects) : X = Tree(y, projects)
  OBVIOUS
<1>5. Kids(y, projects) = {}
  <2> SUFFICES ASSUME NEW k \in Kids(y, projects)
               PROVE  FALSE
    OBVIOUS
  <2>1. y \in Exists /\ Kids(y, projects) \subseteq Tree(x, projects)
    BY TreeIsClosed
  <2>2. k \in Exists /\ parentOf[at[k]] = at[y] /\ at[y] \in Project /\ at[k] \in Project
    BY <2>1, ConsistentKids
  <2>3. y \notin Tree(k, projects)
    <3>1. at[k] \notin Lineage(at[y])
      BY <2>2, NothingBelow
    <3>2. QED
      BY <2>2, <3>1, TreeGoesDown
  <2>4. k \in Tree(y, projects) /\ Tree(k, projects) \subseteq Tree(y, projects)
    BY <2>1, TreeIsClosed, TreeGrows
  <2>5. y \in Tree(y, projects)
    BY <2>1, TreeIsClosed
  <2>6. Tree(k, projects) \in Trees /\ Tree(k, projects) # X
    BY <1>4, <2>1, <2>3, <2>5
  <2>7. <<Tree(k, projects), X>> \in StrictSubsetOrdering(Exists)
    <3>1. X \in SUBSET Exists /\ Tree(k, projects) \in SUBSET Exists
      BY <1>2, <2>6
    <3>2. QED
      BY <1>4, <2>4, <2>6, <3>1 DEF StrictSubsetOrdering
  <2>8. QED
    BY <1>3, <2>6, <2>7
<1>6. QED
  BY <1>5 DEF Leaf

\* The parent row of a row in a tree is there too, but for the first one's.
LEMMA TreeHasParents ==
    ASSUME WellFormed, NEW projects, NEW x \in Exists, NEW y \in Tree(x, projects), y # x
    PROVE  link[y] \in Tree(x, projects) /\ at[y] \in projects /\ link[y] # NoRow
<1> DEFINE S == {z \in Tree(x, projects) :
                    z # x => link[z] \in Tree(x, projects) /\ at[z] \in projects}
<1>1. /\ x \in Tree(x, projects) /\ Tree(x, projects) \subseteq Exists
      /\ \A z \in Tree(x, projects) : Kids(z, projects) \subseteq Tree(x, projects)
  BY TreeIsClosed
<1>2. S \in SUBSET Exists /\ x \in S
  BY <1>1
<1>3. \A z \in S : Kids(z, projects) \subseteq S
  BY <1>1 DEF Kids
<1>4. Tree(x, projects) \subseteq S
  <2> HIDE DEF S
  <2>1. QED
    BY <1>2, <1>3, TreeIsLeast
<1>5. link[y] \in Tree(x, projects) /\ at[y] \in projects
  BY <1>4
<1>6. QED
  BY <1>1, <1>5, RowsAreKeys

\* No row is in the trees of two roots.
LEMMA RootsAreApart ==
    ASSUME WellFormed, NEW projects, NEW r \in Roots(projects), NEW s \in Roots(projects),
           NEW x \in Tree(r, projects), x \in Tree(s, projects)
    PROVE  r = s
<1>1. /\ r \in Exists /\ at[r] \in projects /\ (link[r] = NoRow \/ at[link[r]] \notin projects)
      /\ s \in Exists /\ at[s] \in projects /\ (link[s] = NoRow \/ at[link[s]] \notin projects)
  BY DEF Roots
<1>2. ASSUME NEW a \in {r, s}, NEW y \in Tree(a, projects)
      PROVE  y \in Exists /\ at[y] \in projects /\ Kids(y, projects) \subseteq Tree(a, projects)
  BY <1>1, TreeIsClosed, TreeHasParents
<1> DEFINE S == {y \in Tree(r, projects) : y \in Tree(s, projects) => r = s}
<1>3. r \in S
  <2>1. ASSUME r \in Tree(s, projects), r # s
        PROVE  FALSE
    <3>1. link[r] \in Tree(s, projects) /\ link[r] # NoRow
      BY <1>1, <2>1, TreeHasParents
    <3>2. at[link[r]] \in projects
      BY <1>2, <3>1
    <3>3. QED
      BY <1>1, <3>1, <3>2
  <2>2. r \in Tree(r, projects)
    BY <1>1, TreeIsClosed
  <2>3. QED
    BY <2>1, <2>2
<1>4. ASSUME NEW y \in S, NEW k \in Kids(y, projects)
      PROVE  k \in S
  <2>1. y \in Exists /\ at[y] \in projects /\ k \in Tree(r, projects) /\ link[k] = y
    BY <1>2, <1>4 DEF Kids
  <2>2. ASSUME k \in Tree(s, projects)
        PROVE  r = s
    <3>1. k # s
      BY <1>1, <2>1, RowsAreKeys
    <3>2. y \in Tree(s, projects)
      BY <1>1, <2>1, <2>2, <3>1, TreeHasParents
    <3>3. QED
      BY <1>4, <3>2
  <2>3. QED
    BY <2>1, <2>2
<1>5. Tree(r, projects) \subseteq S
  <2>1. S \in SUBSET Exists /\ \A y \in S : Kids(y, projects) \subseteq S
    BY <1>2, <1>4
  <2> HIDE DEF S
  <2>2. QED
    BY <1>3, <2>1, TreeIsLeast
<1>6. QED
  BY <1>5

\* The rows paired for a root are of its tree.
LEMMA PairsOfTree ==
    ASSUME WellFormed, Consistent, NEW r \in Exists, NEW projects, NEW source, NEW target,
           NEW x, NEW z, <<x, z>> \in Pairs(r, projects, source, target)
    PROVE  x \in Tree(r, projects)
<1> DEFINE kids == Kids(r, projects)
           leaves == {Leaf(y, projects) : y \in kids}
           targets(y) == (leaves \ {y}) \cap RowsAt(target)
           both == UNION {{y} \X (IF targets(y) = {} THEN {NoRow} ELSE targets(y)) :
                             y \in leaves \cap RowsAt(source)}
<1>1. r \in Tree(r, projects) /\ kids \subseteq Tree(r, projects)
  BY TreeIsClosed
<1>2. leaves \subseteq Tree(r, projects)
  <2>1. ASSUME NEW y \in kids
        PROVE  Leaf(y, projects) \in Tree(r, projects)
    <3>1. y \in Exists
      BY KidsAreRows
    <3>2. Leaf(y, projects) \in Tree(y, projects)
      BY <3>1, LeafExists
    <3>3. Tree(y, projects) \subseteq Tree(r, projects)
      BY <1>1, TreeGrows
    <3>4. QED
      BY <3>2, <3>3
  <2>2. QED
    BY <2>1
<1>3. <<x, z>> \in {r} \X (leaves \cap RowsAt(target)) => x = r
  OBVIOUS
<1>4. <<x, z>> \in ({r} \cap RowsAt(source)) \X {NoRow} => x = r
  OBVIOUS
<1>5. <<x, z>> \in both => x \in leaves
  <2> HIDE DEF targets, leaves
  <2>1. QED
    OBVIOUS
<1>6. Pairs(r, projects, source, target)
         = IF kids = {} THEN ({r} \cap RowsAt(source)) \X {NoRow}
           ELSE IF Cardinality(kids) = 1 /\ at[r] = source
                THEN {r} \X (leaves \cap RowsAt(target))
                ELSE IF Cardinality(kids) <= 2 THEN both ELSE {}
  BY DEF Pairs
<1> HIDE DEF kids, leaves, both
<1>7. QED
  BY <1>1, <1>2, <1>3, <1>4, <1>5, <1>6

\* A row's forebears are in every set that has it and the parent rows of its
\* own.
LEMMA ForebearsAreLeast ==
    ASSUME NEW x, NEW S \in SUBSET Exists, x \in S,
           \A y \in S : link[y] \in S \cup {NoRow}
    PROVE  Forebears(x) \subseteq S
BY DEF Forebears

\* Of two lineages that meet at m: a row that descends from one at m is in its tree.
LEMMA DescendantsAreInTree ==
    ASSUME WellFormed, Consistent, NEW a \in Project, NEW b \in Project, NEW m \in Project,
           Lineage(m) = Lineage(a) \cap Lineage(b),
           NEW projects, Lineage(a) \ Lineage(b) \subseteq projects,
           NEW x \in RowsAt(a), NEW f \in Forebears(x), at[f] = m
    PROVE  f \in Exists /\ x \in Tree(f, projects)
<1> DEFINE S == {y \in Exists : /\ at[y] \in Lineage(a)
                                /\ m \in Lineage(at[y]) => x \in Tree(y, projects)}
<1>1. x \in Exists /\ at[x] = a
  BY DEF RowsAt
<1>2. x \in S
  BY <1>1, LineageFacts, TreeIsClosed
<1>3. ASSUME NEW y \in S, link[y] # NoRow
      PROVE  link[y] \in S
  <2>1. /\ y \in Exists /\ link[y] \in Exists /\ at[y] \in Project /\ at[link[y]] \in Project
        /\ at[link[y]] = parentOf[at[y]]
    BY <1>3, ConsistentLinks
  <2>2. at[link[y]] \in Lineage(a)
    BY <1>3, <2>1, LineageFacts, HierarchyAssumption
  <2>3. ASSUME m \in Lineage(at[link[y]])
        PROVE  x \in Tree(link[y], projects)
    <3>1. m \in Lineage(at[y])
      BY <2>1, <2>3, LineageUnfolds
    <3>2. x \in Tree(y, projects)
      BY <1>3, <3>1
    <3>3. at[y] \notin Lineage(m)
      <4> SUFFICES ASSUME at[y] \in Lineage(m)
                   PROVE  FALSE
        OBVIOUS
      <4>1. at[y] = m
        BY <2>1, <3>1, TypeParts, LineageIsAncestry, AncestryIsOrder
      <4>2. m \notin Lineage(parentOf[m])
        BY <2>1, <4>1, TypeParts, LineageIsAncestry DEF NoCycles
      <4>3. QED
        BY <2>1, <2>3, <4>1, <4>2
    <3>4. at[y] \in projects
      BY <1>3, <3>3
    <3>5. y \in Kids(link[y], projects)
      BY <2>1, <3>4 DEF Kids
    <3>6. y \in Tree(link[y], projects)
      BY <2>1, <3>5, TreeIsClosed
    <3>7. QED
      BY <2>1, <3>2, <3>6, TreeGrows
  <2>4. QED
    BY <2>1, <2>2, <2>3
<1>4. Forebears(x) \subseteq S
  <2>1. S \in SUBSET Exists /\ \A y \in S : link[y] \in S \cup {NoRow}
    BY <1>3
  <2> HIDE DEF S
  <2>2. QED
    BY <1>2, <2>1, ForebearsAreLeast
<1>5. f \in S /\ m \in Lineage(m)
  BY <1>4, LineageFacts
<1>6. QED
  BY <1>5

\* Of a set with at most two elements no three are different.
LEMMA AtMostTwo ==
    ASSUME NEW S, IsFiniteSet(S), Cardinality(S) <= 2, NEW x \in S, NEW y \in S, x # y
    PROVE  S = {x, y} /\ Cardinality(S) # 1
<1>1. IsFiniteSet({x}) /\ Cardinality({x}) = 1
  BY FS_Singleton
<1>2. IsFiniteSet({x} \cup {y}) /\ Cardinality({x} \cup {y}) = 2
  <2>1. Cardinality({x} \cup {y}) = IF y \in {x} THEN 1 ELSE 1 + 1
    BY <1>1, FS_AddElement, Zenon
  <2>2. QED
    BY <1>1, <2>1, FS_AddElement
<1>3. {x} \cup {y} \in SUBSET S
  OBVIOUS
<1>4. /\ Cardinality({x} \cup {y}) <= Cardinality(S)
      /\ Cardinality(S) = Cardinality({x} \cup {y}) => S = {x} \cup {y}
  BY <1>3, FS_Subset
<1>5. Cardinality(S) \in Nat
  BY FS_CardinalityType
<1>6. QED
  BY <1>2, <1>4, <1>5

\* A row that moves to a project that is not above it goes under the row there with
\* which it has a forebear in common: the two are the ends of the two paths below it.
LEMMA MovedRowIsCarried ==
    ASSUME WellFormed, Consistent, NEW c \in Project, NEW p \in Project, NoCycle(c, p),
           p \notin Lineage(c), SameHierarchy(c, p), NEW projects, projects = DirectLineage(c, p),
           Resolvable(Roots(projects), projects, c, p),
           NEW x \in RowsAt(c), NEW w \in Counterparts(x, p),
           NEW z, <<x, z>> \in Resolved(Roots(projects), projects, c, p)
    PROVE  z = w
<1> DEFINE m == NearestCommon(c, p)
<1>1. x \in Exists /\ at[x] = c /\ w \in Exists /\ at[w] = p /\ w \in RowsAt(p)
  BY DEF RowsAt, Counterparts
<1>2. c \notin Lineage(p) /\ c \in Lineage(c) /\ p \in Lineage(p)
  BY LineageFacts DEF NoCycle
<1>3. /\ m \in Lineage(c) \cap Lineage(p) /\ Lineage(m) = Lineage(c) \cap Lineage(p)
      /\ projects = (Lineage(c) \ Lineage(p)) \cup (Lineage(p) \ Lineage(c)) \cup {m}
      /\ projects \subseteq Lineage(c) \cup Lineage(p)
  BY DirectLineageFacts
<1>4. m \in Project /\ m # c /\ m # p /\ m \in projects
  BY <1>2, <1>3, LineageFacts
<1>5. PICK f \in Exists : f \in Forebears(x) /\ f \in Forebears(w) /\ at[f] = m
  BY <1>1 DEF Counterparts, RowsAt
<1>6. f \in Roots(projects)
  <2>1. ASSUME link[f] # NoRow, at[link[f]] \in projects
        PROVE  FALSE
    <3>1. at[link[f]] = parentOf[m] /\ parentOf[m] \in Project
      BY <1>5, <2>1, ConsistentLinks
    <3>2. parentOf[m] \in Lineage(m)
      BY <1>4, <3>1, LineageFacts, HierarchyAssumption
    <3>3. parentOf[m] = m
      BY <1>3, <2>1, <3>1, <3>2
    <3>4. QED
      BY <1>4, <3>2, <3>3, NothingBelow
  <2>2. QED
    BY <1>4, <1>5, <2>1 DEF Roots
<1> HIDE DEF m
<1>7. x \in Tree(f, projects)
  BY <1>3, <1>4, <1>5, DescendantsAreInTree
<1>8. w \in Tree(f, projects)
  <2>1. Lineage(m) = Lineage(p) \cap Lineage(c) /\ Lineage(p) \ Lineage(c) \subseteq projects
    BY <1>3
  <2>2. QED
    BY <1>1, <1>4, <1>5, <2>1, DescendantsAreInTree
<1>9. Kids(x, projects) = {} /\ Kids(w, projects) = {}
  <2>1. projects \subseteq Lineage(p) \cup Lineage(c)
    BY <1>3
  <2>2. QED
    BY <1>1, <1>2, <1>3, <2>1, NoKidsAtTheEnd
<1> DEFINE kids == Kids(f, projects)
           leaves == {Leaf(y, projects) : y \in kids}
           targets(y) == (leaves \ {y}) \cap RowsAt(p)
           both == UNION {{y} \X (IF targets(y) = {} THEN {NoRow} ELSE targets(y)) :
                             y \in leaves \cap RowsAt(c)}
<1>10. x # f /\ w # f /\ x # w
  BY <1>1, <1>2, <1>4, <1>5
<1>11. PICK k \in kids : x \in Tree(k, projects)
  BY <1>7, <1>10, TreeSplits
<1>12. PICK l \in kids : w \in Tree(l, projects)
  BY <1>8, <1>10, TreeSplits
<1>13. k \in Exists /\ l \in Exists
  BY KidsAreRows
<1>14. SinglePath(k, projects) /\ SinglePath(l, projects)
  BY <1>6 DEF Resolvable, Raises
<1>15. Leaf(k, projects) = x /\ Leaf(l, projects) = w
  BY <1>9, <1>11, <1>12, <1>13, <1>14, LeafOfPath
<1>16. kids = {k, l} /\ Cardinality(kids) # 1 /\ Cardinality(kids) <= 2
  <2>1. IsFiniteSet(kids)
    BY RowsAreFinite, KidsAreRows, FS_Subset
  <2>2. Cardinality(kids) <= 2
    BY <1>3, TwoKids
  <2>3. k # l
    BY <1>10, <1>15
  <2> HIDE DEF kids
  <2>4. QED
    BY <2>1, <2>2, <2>3, AtMostTwo
<1>17. leaves = {x, w}
  BY <1>15, <1>16
<1>18. targets(x) = {w}
  <2> HIDE DEF leaves
  <2>1. QED
    BY <1>1, <1>10, <1>17
<1>19. Pairs(f, projects, c, p) = both
  BY <1>16 DEF Pairs
<1>20. PICK r \in Roots(projects) : <<x, z>> \in Pairs(r, projects, c, p)
  BY DEF Resolved
<1>21. r \in Exists
  BY DEF Roots
<1>22. x \in Tree(r, projects)
  BY <1>20, <1>21, PairsOfTree
<1>23. r = f
  BY <1>6, <1>7, <1>22, RootsAreApart
<1>24. <<x, z>> \in both
  BY <1>19, <1>20, <1>23
<1>25. z \in (IF targets(x) = {} THEN {NoRow} ELSE targets(x))
  <2> HIDE DEF targets, leaves
  <2>1. QED
    BY <1>24
<1>26. QED
  BY <1>18, <1>25

\* A row without a parent row has no counterpart at another project.
LEMMA NoCounterparts ==
    ASSUME WellFormed, NEW x \in Exists, link[x] = NoRow, NEW p \in Project,
           NearestCommon(at[x], p) # at[x]
    PROVE  Counterparts(x, p) = {}
<1>1. Forebears(x) \subseteq {x}
  BY ForebearsAreLeast
<1>2. QED
  BY <1>1 DEF Counterparts, RowsAt

\* Each step that moves a project within its hierarchy carries its rows over.
LEMMA CarriedStep ==
    ASSUME WellFormed, Next, Consistent, NEW c \in Project, NEW p \in Project,
           Moves(c, p), p \notin Lineage(c)
    PROVE  Carried(c, p)
<1> USE HierarchyAssumption
<1>a. parentOf \in Parents /\ at \in [Exists -> Project]
  BY TypeParts
<1>b. parentOf'[c] = p /\ p # parentOf[c] /\ SameHierarchy(c, p)
  BY DEF Moves
<1>1. parentOf' # parentOf
  BY <1>b
<1>2. ASSUME NEW d \in Project, NEW q \in Project \cup {NoProject},
             parentOf' = [parentOf EXCEPT ![d] = q]
      PROVE  d = c /\ q = p
  BY <1>a, <1>b, <1>2 DEF Parents
<1>3. ASSUME NEW d \in Project, NEW q \in Above[d], SetParent(d, q)
      PROVE  FALSE
  <2>1. q \in Project
    OBVIOUS
  <2>2. d = c /\ q = p
    BY <1>2, <1>3, <2>1 DEF SetParent
  <2>3. c \notin Lineage(p) /\ parentOf[c] = NoProject
    BY <1>3, <2>2 DEF SetParent, NoCycle
  <2>4. Lineage(c) = {c}
    BY <2>3, LineageUnfolds, LineageIsAncestry, NoProjectHasNoAncestry
  <2>5. DirectLineage(c, p) = {}
    BY <2>3, <2>4 DEF DirectLineage
  <2>6. QED
    BY <1>b, <2>5 DEF SameHierarchy
<1>4. ASSUME NEW d \in Project, NEW q \in Above[d], EditRelation(d, q)
      PROVE  Carried(c, p)
  <2>1. q \in Project
    OBVIOUS
  <2>2. d = c /\ q = p
    BY <1>2, <1>4, <2>1 DEF EditRelation
  <2>3. c \notin Lineage(p) /\ LinkedProjects(c) \subseteq {p}
    BY <1>4, <2>2 DEF EditRelation, NoCycle
  <2>4. LinkedProjects(c) \subseteq {parentOf[c]}
    BY DEF Consistent, ConsistentAt
  <2>5. LinkedProjects(c) = {}
    BY <1>b, <2>3, <2>4
  <2>6. NearestCommon(c, p) # c
    BY <1>b, <2>3, DirectLineageFacts
  <2>7. \A x \in RowsAt(c) : x \in Exists /\ at[x] = c /\ link[x] = NoRow
    BY <2>5 DEF LinkedProjects, RowsAt
  <2>8. QED
    BY <2>6, <2>7, NoCounterparts DEF Carried
<1>5. ASSUME NEW d \in Project, NEW q \in Above[d], ChangeParent(d, q)
      PROVE  Carried(c, p)
  <2>1. q \in Project
    OBVIOUS
  <2>2. d = c /\ q = p
    BY <1>2, <1>5, <2>1 DEF ChangeParent
  <2> DEFINE projects == DirectLineage(c, p)
             pairs == Resolved(Roots(projects), projects, c, p)
  <2>3. /\ NoCycle(c, p) /\ Resolvable(Roots(projects), projects, c, p)
        /\ link' = Relinked(pairs)
    BY <1>5, <2>2 DEF ChangeParent
  <2> SUFFICES ASSUME NEW x \in RowsAt(c), NEW w \in Counterparts(x, p)
               PROVE  link'[x] = w
    BY DEF Carried
  <2>4. x \in Exists
    BY DEF RowsAt
  <2>5. \E z \in Exists \cup {NoRow} : <<x, z>> \in pairs
    BY <1>b, <2>3, MovedRowIsPaired DEF RowsAt
  <2>6. <<x, link'[x]>> \in pairs
    <3> HIDE DEF pairs
    <3>1. QED
      BY <2>3, <2>4, <2>5, RelinkedShape
  <2>7. QED
    BY <1>b, <2>3, <2>6, MovedRowIsCarried
<1>6. ASSUME NEW d \in Project, DeleteRelation(d) \/ RemoveParent(d)
      PROVE  FALSE
  <2>1. parentOf' = [parentOf EXCEPT ![d] = NoProject]
    BY <1>6 DEF DeleteRelation, RemoveParent
  <2>2. QED
    BY <1>2, <2>1
<1>7. ASSUME NEW b \in Project, EditKind(b)
      PROVE  FALSE
  BY <1>2, <1>7 DEF EditKind
<1>8. ASSUME NEW b \in Project, NEW d \in Project, NEW q \in Above[d], EditChild(b, d, q)
      PROVE  FALSE
  <2>1. /\ q \in Project /\ d \notin Lineage(q) /\ parentOf[d] = NoProject
        /\ parentOf' = [parentOf EXCEPT ![b] = NoProject, ![d] = q]
    BY <1>8 DEF EditChild, NoCycle
  <2>2. d = c /\ q = p
    BY <1>a, <1>b, <2>1 DEF Parents
  <2>3. Lineage(c) = {c}
    BY <2>1, <2>2, LineageUnfolds, LineageIsAncestry, NoProjectHasNoAncestry
  <2>4. DirectLineage(c, p) = {}
    BY <2>1, <2>2, <2>3 DEF DirectLineage
  <2>5. QED
    BY <1>b, <2>4 DEF SameHierarchy
<1>9. QED
  BY <1>1, <1>3, <1>4, <1>5, <1>6, <1>7, <1>8
     DEF Next, CreateRow, ImportRow, Insert, DeleteRow, FixInconsistent

\* While rows are linked to rows of their project's parent only, a project that moves
\* within its hierarchy takes each row to the row of its new parent that it shares a
\* forebear with, whatever else is in the hierarchy.
THEOREM CarriedInvariant == Spec => LineageCarriedOver
<1>1. WellFormed /\ [Next]_vars =>
         [\A c, p \in Project :
             Moves(c, p) /\ p \notin Lineage(c) /\ Consistent => Carried(c, p)]_vars
  BY CarriedStep
<1>2. QED
  BY <1>1, TypeInit, TypeStep, PTL DEF Spec, LineageCarriedOver
===============================================================================
