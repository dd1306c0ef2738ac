-------------------------- MODULE ProjectHierarchy --------------------------
(***************************************************************************)
(* A hierarchy of projects and the links between the rows of their results  *)
(* frameworks (rsr/models/related_project.py, rsr/usecases).  A project has *)
(* at most one parent; a row (of results; indicators, periods and           *)
(* dimensions are treated alike, one table after the other) may have a      *)
(* parent row.  change_parent moves a project and follows the links of the  *)
(* rows to find each row's new parent row.  For default periods it raises   *)
(* (their parent is to be written to "parent_id_id"): the projects here     *)
(* have none.                                                               *)
(*                                                                          *)
(* change_parent and fix_inconsistent_result are transactions; here every   *)
(* operation is a single step.  A call that raises changes nothing and is   *)
(* no step.                                                                 *)
(***************************************************************************)
EXTENDS Naturals, FiniteSets, FiniteSetsExt, Functions

CONSTANTS
    Project, NoProject,
    Above,       \* bound: the parents considered for each project
    MaxRows      \* bound on the number of rows ever created

ASSUME HierarchyAssumption ==
    /\ NoProject \notin Project
    /\ IsFiniteSet(Project)
    /\ Above \in [Project -> SUBSET Project]
    /\ MaxRows \in Nat

NoRow == 0
Row == 1 .. MaxRows

VARIABLES
    parentOf,    \* the parent of each project (RelatedProject)
    at,          \* the project of each row that exists
    link,        \* its parent row
    nextRow,     \* the next primary key
    unseated     \* history: the project whose parent relation the last step took
                 \* away by an edit, or none

rows == <<at, link, nextRow>>
vars == <<parentOf, rows, unseated>>

Exists == DOMAIN at
RowsAt(p) == {x \in Exists : at[x] = p}

-----------------------------------------------------------------------------
(* Lineages (rsr/usecases/utils.py).                                         *)

\* get_project_lineage_ids: the project, its parent and so on; of no project there is
\* none.  Here, what every set of projects has that has p and the parents of its own.
Lineage(p) ==
    LET closed == {S \in SUBSET Project :
                      /\ p \in S \cup {NoProject}
                      /\ \A q \in S : parentOf[q] \in S \cup {NoProject}}
    IN  {q \in Project : \A S \in closed : q \in S}

\* get_first_common_item: what the lineages share is the nearest common project's.
NearestCommon(p, q) ==
    CHOOSE c \in Lineage(p) \cap Lineage(q) : Lineage(c) = Lineage(p) \cap Lineage(q)

\* Mutated form of DirectLineage: the nearest common project is left out.
DirectLineageBelowCommon(p, q) ==
    IF Lineage(p) \cap Lineage(q) = {} THEN {} ELSE SymDiff(Lineage(p), Lineage(q))

DirectLineage(p, q) ==
    IF Lineage(p) \cap Lineage(q) = {} THEN {}
    ELSE SymDiff(Lineage(p), Lineage(q)) \cup {NearestCommon(p, q)}

SameHierarchy(p, q) == DirectLineage(p, q) # {}

\* Projects below p, all of them or those reached through "through" only.
Children(p) == {c \in Project : parentOf[c] = p}
Below(p, through) ==
    {c \in through : p \in Lineage(c) \ {c} /\ (Lineage(c) \ Lineage(p)) \subseteq through}

-----------------------------------------------------------------------------
(* Trees of rows.  make_trees_from_list: the rows of some projects, each      *)
(* under its parent row, the roots being those whose parent is not among them. *)
Kids(x, projects) == {y \in Exists : link[y] = x /\ at[y] \in projects}
Roots(projects) ==
    {x \in Exists : at[x] \in projects /\ (link[x] = NoRow \/ at[link[x]] \notin projects)}

\* The row and all rows under it: what every set of rows has that has x and the
\* children of its own.
Tree(x, projects) ==
    LET closed == {S \in SUBSET Exists : x \in S /\ \A y \in S : Kids(y, projects) \subseteq S}
    IN  {y \in Exists : \A S \in closed : y \in S}

\* get_leaf_item_of_single_lineage_path_tree raises on a second child.
SinglePath(x, projects) ==
    \A y \in Tree(x, projects) : Cardinality(Kids(y, projects)) <= 1
Leaf(x, projects) == CHOOSE y \in Tree(x, projects) : Kids(y, projects) = {}

\* Mutated form of Pairs: that the other leaf is the target's is not tested.
PairsAnyTarget(x, projects, source, target) ==
    LET kids == Kids(x, projects)
        leaves == {Leaf(y, projects) : y \in kids}
    IN  IF kids = {}
        THEN ({x} \cap RowsAt(source)) \X {NoRow}
        ELSE UNION {{y} \X (IF leaves = {y} THEN {NoRow} ELSE leaves \ {y}) :
                       y \in leaves \cap RowsAt(source)}

\* get_source_to_target_pair for the tree of row x: no row, or a row of the source
\* with the row of the target it belongs to, or with none.
Pairs(x, projects, source, target) ==
    LET kids == Kids(x, projects)
        leaves == {Leaf(y, projects) : y \in kids}
    IN  IF kids = {}
        THEN ({x} \cap RowsAt(source)) \X {NoRow}
        ELSE IF Cardinality(kids) = 1 /\ at[x] = source
        THEN {x} \X (leaves \cap RowsAt(target))
        ELSE IF Cardinality(kids) <= 2
        THEN LET targets(y) == (leaves \ {y}) \cap RowsAt(target)
             IN  UNION {{y} \X (IF targets(y) = {} THEN {NoRow} ELSE targets(y)) :
                           y \in leaves \cap RowsAt(source)}
        ELSE {}

\* It raises when a path branches, and when a single path ends at neither the
\* source nor (from the source) the target: there is no second child to look at.
Raises(x, projects, source, target) ==
    LET kids == Kids(x, projects)
    IN  \/ \E y \in kids : ~SinglePath(y, projects)
        \/ /\ Cardinality(kids) = 1
           /\ Pairs(x, projects, source, target) = {}

\* make_source_to_target_map for the trees with the given roots.
Resolved(roots, projects, source, target) ==
    UNION {Pairs(x, projects, source, target) : x \in roots}
Resolvable(roots, projects, source, target) ==
    \A x \in roots : ~Raises(x, projects, source, target)

\* The links after "UPDATE ... SET parent" for each pair of a row and a parent row.
Relinked(pairs) ==
    [x \in Exists |->
        IF \E z \in Exists \cup {NoRow} : <<x, z>> \in pairs
        THEN CHOOSE z \in Exists \cup {NoRow} : <<x, z>> \in pairs
        ELSE link[x]]

\* unique_together (project, parent_result): an UPDATE that breaks it raises.
Unique ==
    \A x, y \in Exists : at[x] = at[y] /\ link[x] = link[y] /\ x # y => link[x] = NoRow

-----------------------------------------------------------------------------
(* Rows are created with their copies: Result.save copies a new result to the  *)
(* children that have imported, and so on.                                    *)
HasImported(c) == \E x \in RowsAt(c) : link[x] # NoRow

\* A new row at p under row y, or under none, and its copies below.
Insert(p, y) ==
    LET where == {p} \cup Below(p, {c \in Project : HasImported(c)})
        new == nextRow .. nextRow + Cardinality(where) - 1
    IN  /\ nextRow + Cardinality(where) <= MaxRows + 1
        /\ \E project \in Bijection(new, where) :
              LET row == Inverse(project, new, where)
              IN  /\ at' = [x \in Exists \cup new |->
                               IF x \in new THEN project[x] ELSE at[x]]
                  /\ link' = [x \in Exists \cup new |->
                                 IF x \notin new THEN link[x]
                                 ELSE IF project[x] = p THEN y
                                 ELSE row[parentOf[project[x]]]]
        /\ nextRow' = nextRow + Cardinality(where)
        /\ UNCHANGED parentOf

CreateRow(p) == Insert(p, NoRow)

\* Mutated form of ImportRow: that there is no copy yet is not tested.
ImportRowAgain(c, y) ==
    /\ y \in Exists
    /\ parentOf[c] = at[y]
    /\ Insert(c, y)

\* Project.import_result, and each turn of do_import_results.
ImportRow(c, y) ==
    /\ y \in Exists
    /\ parentOf[c] = at[y]
    /\ \A x \in RowsAt(c) : link[x] # y
    /\ Insert(c, y)

\* on_delete=SET_NULL: the copies stay, without a parent row.
DeleteRow(x) ==
    /\ at' = [y \in Exists \ {x} |-> at[y]]
    /\ link' = [y \in Exists \ {x} |-> IF link[y] = x THEN NoRow ELSE link[y]]
    /\ UNCHANGED <<parentOf, nextRow>>

-----------------------------------------------------------------------------
(* Relations.  Nothing in the code forbids a cycle, on which lineages do not   *)
(* end; that none is made is a bound of this model.  Another is that no        *)
(* project gets a second parent: validate_parents counts the parents for a new *)
(* relation only, so that an edit of another one may give a second.            *)
NoCycle(c, p) == c \notin Lineage(p)

\* validate_parents: a new relation.  (One of another kind, a sibling say, that is
\* edited to be a parent's does the same, but only where EditRelation would.)
SetParent(c, p) ==
    /\ parentOf[c] = NoProject
    /\ NoCycle(c, p)
    /\ parentOf' = [parentOf EXCEPT ![c] = p]
    /\ UNCHANGED rows

LinkedProjects(c) == {at[link[x]] : x \in {z \in RowsAt(c) : link[z] # NoRow}}

\* Mutated form of EditRelation: only new relations are validated.
EditRelationUnchecked(c, p) ==
    /\ parentOf[c] \notin {NoProject, p}
    /\ NoCycle(c, p)
    /\ parentOf' = [parentOf EXCEPT ![c] = p]
    /\ UNCHANGED rows

\* validate_parents: a parent relation that is edited to have another parent.
EditRelation(c, p) ==
    /\ parentOf[c] \notin {NoProject, p}
    /\ NoCycle(c, p)
    /\ LinkedProjects(c) \subseteq {p}
    /\ parentOf' = [parentOf EXCEPT ![c] = p]
    /\ UNCHANGED rows

\* The parent relation of c is edited and becomes that of another child d.
\* validate_parents looks at the rows of d only.
EditChild(c, d, p) ==
    /\ parentOf[c] # NoProject /\ parentOf[d] = NoProject
    /\ NoCycle(d, p)
    /\ LinkedProjects(d) \subseteq {p}
    /\ parentOf' = [parentOf EXCEPT ![c] = NoProject, ![d] = p]
    /\ UNCHANGED rows

\* It is edited to be of another kind, which validate_parents does not look at.
EditKind(c) ==
    /\ parentOf[c] # NoProject
    /\ parentOf' = [parentOf EXCEPT ![c] = NoProject]
    /\ UNCHANGED rows

\* prevent_parent_delete.
DeleteRelation(c) ==
    /\ parentOf[c] # NoProject
    /\ parentOf[c] \notin LinkedProjects(c)
    /\ parentOf' = [parentOf EXCEPT ![c] = NoProject]
    /\ UNCHANGED rows

\* remove_parent.
RemoveParent(c) ==
    /\ parentOf' = [parentOf EXCEPT ![c] = NoProject]
    /\ link' = [x \in Exists |-> IF at[x] = c THEN NoRow ELSE link[x]]
    /\ UNCHANGED <<at, nextRow>>

\* change_parent, and its get_rf_change_candidates.  With reimport, the copies it
\* then makes are made by ImportRow.
ChangeParent(c, p) ==
    LET projects == DirectLineage(c, p)
    IN  /\ parentOf[c] \notin {NoProject, p}
        /\ NoCycle(c, p)
        /\ Resolvable(Roots(projects), projects, c, p)
        /\ link' = Relinked(Resolved(Roots(projects), projects, c, p))
        /\ parentOf' = [parentOf EXCEPT ![c] = p]
        /\ UNCHANGED <<at, nextRow>>
        /\ Unique'

\* fix_inconsistent_result: the rows under the wrong project's rows are moved to the
\* rows of the parent project, along the lineage from the one to the other.
FixInconsistent(x) ==
    LET c == at[x]
        wrong == at[link[x]]
        projects == IF SameHierarchy(wrong, parentOf[c])
                    THEN DirectLineage(wrong, parentOf[c]) ELSE Lineage(wrong)
        roots == {y \in Roots(projects) : link[x] \in Tree(y, projects)}
        pairs == Resolved(roots, projects, wrong, parentOf[c])
    IN  /\ link[x] # NoRow
        /\ wrong # parentOf[c]
        /\ Resolvable(roots, projects, wrong, parentOf[c])
        /\ link' = Relinked({m \in RowsAt(c) \X (Exists \cup {NoRow}) :
                                <<link[m[1]], m[2]>> \in pairs})
        /\ UNCHANGED <<parentOf, at, nextRow>>
        /\ Unique'

-----------------------------------------------------------------------------
Init ==
    /\ parentOf = [p \in Project |-> NoProject]
    /\ at = <<>>
    /\ link = <<>>
    /\ nextRow = 1
    /\ unseated = NoProject

Next ==
    \/ /\ \/ \E p \in Project : CreateRow(p) \/ DeleteRelation(p) \/ RemoveParent(p)
          \/ \E c \in Project, y \in Exists : ImportRow(c, y)
          \/ \E x \in Exists : DeleteRow(x) \/ FixInconsistent(x)
          \/ \E c \in Project : \E p \in Above[c] :
                SetParent(c, p) \/ EditRelation(c, p) \/ ChangeParent(c, p)
       /\ unseated' = NoProject
    \/ \E c \in Project :
          /\ EditKind(c) \/ \E d \in Project : \E p \in Above[d] : EditChild(c, d, p)
          /\ unseated' = c

Spec == Init /\ [][Next]_vars

-----------------------------------------------------------------------------
\* Besides types: no cycle of projects (by NoCycle, a bound), and unique_together
\* (project, parent_result).
WellFormed ==
    /\ parentOf \in [Project -> Project \cup {NoProject}]
    /\ \A p \in Project : parentOf[p] \in Project => p \notin Lineage(parentOf[p])
    /\ nextRow \in 1 .. MaxRows + 1
    /\ Exists \subseteq 1 .. nextRow - 1
    /\ at \in [Exists -> Project]
    /\ link \in [Exists -> Exists \cup {NoRow}]
    /\ Unique

\* However projects are related, moved and released and rows imported, copied down,
\* relinked and deleted: a row's parent row exists, and a project has at most one
\* copy of a row.
TypeOK == WellFormed /\ unseated \in Project \cup {NoProject}

ConsistentAt(c) == LinkedProjects(c) \subseteq {parentOf[c]}
Consistent == \A c \in Project : ConsistentAt(c)

\* Project c moves to a hierarchy that shares no project with its own.
Leaves(c) ==
    /\ parentOf'[c] \notin {NoProject, parentOf[c]}
    /\ ~SameHierarchy(c, parentOf'[c])

\* While rows are linked to rows of their project's parent only, two things break
\* that, each for one project only: a change_parent to another hierarchy, where
\* get_direct_lineage_hierarchy_ids finds no lineage and no link is changed, and an
\* edit of the project's parent relation that gives it another child or another
\* kind, where validate_parents does not look at the project.  Imports, deletions,
\* deletions of relations, edits that give it another parent and moves within a
\* hierarchy keep it.
OnlyLeavingBreaksLinks ==
    [][Consistent =>
          \A c \in Project : ConsistentAt(c)' \/ Leaves(c) \/ unseated' = c]_vars

\* When an existing row gets another parent row (change_parent,
\* fix_inconsistent_result), it is one of the project that is then the parent, even
\* if other rows are linked elsewhere.
RelinkedToParent ==
    [][\A x \in Exists \cap Exists' :
          link'[x] \in {link[x], NoRow} \/ at'[link'[x]] = parentOf'[at[x]]]_vars

\* The rows a row descends from, itself included.
Forebears(x) ==
    LET closed == {S \in SUBSET Exists : x \in S /\ \A y \in S : link[y] \in S \cup {NoRow}}
    IN  {y \in Exists : \A S \in closed : y \in S}

\* Reference for change_parent: the rows of project p that row x belongs to, namely
\* those with a forebear in common with x at the nearest common project.
Counterparts(x, p) ==
    {y \in RowsAt(p) :
        Forebears(x) \cap Forebears(y) \cap RowsAt(NearestCommon(at[x], p)) # {}}

Carried(c, p) ==
    \A x \in RowsAt(c) : Counterparts(x, p) # {} => link'[x] \in Counterparts(x, p)

\* Project c moves to a project p of its hierarchy.
Moves(c, p) == parentOf'[c] = p /\ p # parentOf[c] /\ SameHierarchy(c, p)

\* change_parent to a project of the same hierarchy that is not above: each row goes
\* under the new parent's row with which it has a forebear in common.
LineageCarriedOver ==
    [][\A c, p \in Project :
          Moves(c, p) /\ p \notin Lineage(c) /\ Consistent => Carried(c, p)]_vars
=============================================================================
