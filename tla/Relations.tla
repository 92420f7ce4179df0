------------------------------ MODULE Relations ------------------------------
(***************************************************************************)
(* Directory relations and folder metrics (core/src/relations.rs).  A       *)
(* Hierarchy links every live row to its nearest indexed directory, and     *)
(* resolve() answers child:, descendant:, childcount: and foldersize: for   *)
(* each directory with yes, unknown or no, from the rows the index holds    *)
(* and the coverage the worker reported for their generation.               *)
(*                                                                         *)
(* The namespace is a fixed small tree.  What the index knows of a path is  *)
(* whether it has a row and what the inner query says of it ("unknown" when *)
(* content or a property is not indexed).                                   *)
(***************************************************************************)
EXTENDS Naturals, Sequences, FiniteSets, SequencesExt, FiniteSetsExt

CONSTANTS
    Tree,           \* [path -> parent path]; the root is its own parent
    Folders,        \* the paths that are directories; the others are files
    GapSets,        \* bounds: the uncovered sets considered
    RootSets,       \* bounds: the registered roots considered
    SizeMax,        \* the largest sum a size can hold (files have size 1)
    Nowhere         \* NO_PARENT

VARIABLES
    known,          \* [path -> "absent" | "true" | "false" | "unknown"], the index
    coverage,       \* [complete, roots, uncovered]
    question,       \* the relation or metric asked of every directory
    resolved        \* [yes, unknown] once resolved: sets of directories

relationVars == << known, coverage, question, resolved >>

TreePaths == DOMAIN Tree

RECURSIVE AncestorsOf(_)
\* Path::ancestors: the path itself and all above it.
AncestorsOf(p) == IF Tree[p] = p THEN {p} ELSE {p} \cup AncestorsOf(Tree[p])

Above(p) == AncestorsOf(p) \ {p}

Depth(p) == Cardinality(AncestorsOf(p))

Live == {p \in TreePaths : known[p] # "absent"}

DirectorySlots == Live \cap Folders

-----------------------------------------------------------------------------
(* Hierarchy::build.                                                        *)

\* The nearest indexed directory above a row, past missing intermediate rows.
ParentSlot(p) ==
    LET indexed == Above(p) \cap DirectorySlots
    IN  IF indexed = {} THEN Nowhere
        ELSE CHOOSE d \in indexed : \A e \in indexed : Depth(d) >= Depth(e)

\* Mutant: shorter paths first, so a directory passes on less than it will hold.
PreOrder == SetToSortSeq(DirectorySlots, LAMBDA a, b : Depth(a) < Depth(b))

\* Directories by decreasing path length, a topological order of the tree.
PostOrder == SetToSortSeq(DirectorySlots, LAMBDA a, b : Depth(a) > Depth(b))

\* Each directory hands its value to its parent, in postorder.
Propagate(values, Join(_, _)) ==
    FoldLeft(LAMBDA v, d : IF ParentSlot(d) = Nowhere THEN v
                           ELSE [v EXCEPT ![ParentSlot(d)] = Join(@, v[d])],
             values, PostOrder)

RowsAt(d) == {p \in Live : ParentSlot(p) = d}

Overflowing == SizeMax + 1

AddSizes(a, b) == IF a + b > SizeMax THEN Overflowing ELSE a + b

OwnCounts == [d \in DirectorySlots |-> Cardinality({p \in RowsAt(d) : Tree[p] = d})]

AllCounts == Propagate([d \in DirectorySlots |-> Cardinality(RowsAt(d))], LAMBDA a, b : a + b)

AllSizes ==
    Propagate([d \in DirectorySlots |->
                    LET files == Cardinality(RowsAt(d) \ Folders)
                    IN  IF files > SizeMax THEN Overflowing ELSE files],
              AddSizes)

\* Hierarchy::incomplete: not covered by a root, at or below a gap, or above one.
Incomplete(d) ==
    \/ ~coverage.complete
    \/ AncestorsOf(d) \cap coverage.roots = {}
    \/ AncestorsOf(d) \cap coverage.uncovered # {}
    \/ \E gap \in coverage.uncovered : d \in AncestorsOf(gap)

-----------------------------------------------------------------------------
(* resolve().                                                               *)

Evidence(d, recursive, value) ==
    \E p \in RowsAt(d) : (recursive \/ Tree[p] = d) /\ known[p] = value

Spread(values, recursive) ==
    IF recursive THEN Propagate(values, LAMBDA a, b : a \/ b) ELSE values

ResolveRelated(recursive) ==
    LET positive == Spread([d \in DirectorySlots |-> Evidence(d, recursive, "true")], recursive)
        unsure == Spread([d \in DirectorySlots |->
                            Incomplete(d) \/ Evidence(d, recursive, "unknown")], recursive)
    IN  [yes |-> {d \in DirectorySlots : positive[d]},
         unknown |-> {d \in DirectorySlots : ~positive[d] /\ unsure[d]}]

\* A metric's value, when it did not overflow and the directory is fully covered.
ResolveMetric(values, wanted) ==
    LET valued == {d \in DirectorySlots : ~Incomplete(d) /\ values[d] # Overflowing}
    IN  [yes |-> {d \in valued : values[d] = wanted}, unknown |-> DirectorySlots \ valued]

Counts == 0..2

Questions ==
    [ask: {"child", "descendant"}, wanted: {0}]
        \cup [ask: {"childcount", "descendantcount", "foldersize"}, wanted: Counts]

Resolve ==
    /\ resolved = << >>
    /\ resolved' = CASE question.ask = "child" -> ResolveRelated(FALSE)
                     [] question.ask = "descendant" -> ResolveRelated(TRUE)
                     [] question.ask = "childcount" -> ResolveMetric(OwnCounts, question.wanted)
                     [] question.ask = "descendantcount" ->
                            ResolveMetric(AllCounts, question.wanted)
                     [] question.ask = "foldersize" -> ResolveMetric(AllSizes, question.wanted)
    /\ UNCHANGED << known, coverage, question >>

RelationInit ==
    /\ known \in {k \in [TreePaths -> {"absent", "true", "false", "unknown"}] :
                    \A d \in Folders : k[d] # "unknown"}
    /\ coverage \in [complete: BOOLEAN, roots: RootSets, uncovered: GapSets]
    /\ question \in Questions
    /\ resolved = << >>

-----------------------------------------------------------------------------
(* Reference: a disk the index may describe.  It has every indexed row, the *)
(* inner query is decided for each of its files, and where the coverage is  *)
(* complete it has nothing more outside the gaps and the registered roots.  *)

MayHide(p) ==
    \/ ~coverage.complete
    \/ AncestorsOf(p) \cap coverage.uncovered # {}
    \/ AncestorsOf(p) \cap coverage.roots = {}

OnDisk(p) ==
    CASE known[p] = "absent" -> {"absent"} \cup (IF MayHide(p) THEN {"true", "false"} ELSE {})
      [] known[p] = "unknown" -> {"true", "false"}
      [] OTHER -> {known[p]}

Disks == {disk \in [TreePaths -> {"absent", "true", "false"}] :
            \A p \in TreePaths : disk[p] \in OnDisk(p)}

\* The answer for a directory of a disk.
HoldsOn(disk, d) ==
    LET present == {p \in TreePaths : disk[p] # "absent"}
        children == {p \in present : p # d /\ Tree[p] = d}
        below == {p \in present : d \in Above(p)}
    IN  CASE question.ask = "child" -> \E p \in children : disk[p] = "true"
          [] question.ask = "descendant" -> \E p \in below : disk[p] = "true"
          [] question.ask = "childcount" -> Cardinality(children) = question.wanted
          [] question.ask = "descendantcount" -> Cardinality(below) = question.wanted
          [] question.ask = "foldersize" -> Cardinality(below \ Folders) = question.wanted

(* RelationsAreSound: a directory answered yes or no is answered so on      *)
(* every disk the index and its coverage leave possible; what unreadable    *)
(* directories, unregistered roots, missing rows, unindexed content or an   *)
(* overflowing size could change is answered unknown.                       *)
RelationsAreSound ==
    resolved # << >> =>
        \A d \in DirectorySlots \ resolved.unknown :
            \A disk \in Disks : HoldsOn(disk, d) = (d \in resolved.yes)
=============================================================================
