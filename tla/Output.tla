------------------------------- MODULE Output -------------------------------
(***************************************************************************)
(* The output formats of output.go, and the errors errors.go and            *)
(* validate.go report.  A result is a list of errors, each with the causes  *)
(* nested in it, and a list of annotations; Detailed and Verbose rebuild a  *)
(* tree from their keyword locations.  The order in which JSON lists what   *)
(* is on one level is left out.                                             *)
(***************************************************************************)
EXTENDS Sequences, Integers, FiniteSets
LOCAL INSTANCE SequencesExt

CONSTANTS
    FoundErrors,        \* the errors a run may find
    FoundAnnotations,   \* the annotations it may collect
    MaxErrors, MaxAnnotations

\* An error at a keyword location (a sequence of segments) and an instance
\* location.
Error(at, instance, causes) == [at |-> at, instance |-> instance, causes |-> causes]
Annotation(at, instance) == [at |-> at, instance |-> instance]

ASSUME BoundsAssumption == MaxErrors \in Nat /\ MaxAnnotations \in Nat

VARIABLES errors, annotations, root

vars == << errors, annotations, root >>

Valid == errors = <<>>

-----------------------------------------------------------------------------
(* The tree *)

\* A node is a leaf with an error, a leaf with an annotation, or a group.
Group(at, instance) ==
    [valid |-> TRUE, at |-> at, instance |-> instance, leaf |-> "group", errors |-> <<>>, annotations |-> <<>>]
Leaf(kind, e) == [Group(e.at, e.instance) EXCEPT !.leaf = kind, !.valid = kind = "annotation"]
Root(valid) == [Group(<<>>, <<>>) EXCEPT !.valid = valid]

parentPointer(at) == IF at = <<>> THEN <<>> ELSE Front(at)

RECURSIVE Attach(_, _, _, _)

\* Mutant: only the group made last is looked at.
WrongAttach(node, depth, parent, leaf) ==
    LET prefix == SubSeq(parent, 1, depth + 1)
        last == Len(node.errors)
    IN IF depth = Len(parent)
       THEN IF leaf.leaf = "error" THEN [node EXCEPT !.errors = Append(@, leaf)]
            ELSE [node EXCEPT !.annotations = Append(@, leaf)]
       ELSE IF last > 0 /\ node.errors[last].at = prefix /\ node.errors[last].leaf = "group"
            THEN [node EXCEPT !.errors[last] = Attach(@, depth + 1, parent, leaf)]
            ELSE [node EXCEPT !.errors =
                      Append(@, Attach(Group(prefix, leaf.instance), depth + 1, parent, leaf))]

\* ensureParentForPath and the append to the node it finds: node is reached
\* after depth segments of parent, the groups that are missing are made on the
\* way, among the errors.
Attach(node, depth, parent, leaf) ==
    LET prefix == SubSeq(parent, 1, depth + 1)
        there == {i \in DOMAIN node.errors : node.errors[i].at = prefix /\ node.errors[i].leaf = "group"}
    IN IF depth = Len(parent)
       THEN IF leaf.leaf = "error" THEN [node EXCEPT !.errors = Append(@, leaf)]
            ELSE [node EXCEPT !.annotations = Append(@, leaf)]
       ELSE IF there # {}
            THEN [node EXCEPT !.errors[CHOOSE i \in there : \A j \in there : i <= j] =
                      Attach(@, depth + 1, parent, leaf)]
            ELSE [node EXCEPT !.errors =
                      Append(@, Attach(Group(prefix, leaf.instance), depth + 1, parent, leaf))]

RECURSIVE insertErrorIntoTree(_, _)
insertErrorIntoTree(node, e) ==
    Attach(node, 0, parentPointer(e.at), FoldLeft(insertErrorIntoTree, Leaf("error", e), e.causes))

insertAnnotationIntoTree(node, a) == Attach(node, 0, parentPointer(a.at), Leaf("annotation", a))

-----------------------------------------------------------------------------
(* Rendering *)

renderFlag == [valid |-> Valid]

RECURSIVE flatErrorEntries(_)
flatErrorEntries(e) ==
    << [kind |-> "error", at |-> e.at, instance |-> e.instance] >>
        \o FlattenSeq([i \in DOMAIN e.causes |-> flatErrorEntries(e.causes[i])])

\* The entries after the header.
renderBasic ==
    [valid |-> Valid,
     entries |->
        IF Valid
        THEN [i \in DOMAIN annotations |->
                [kind |-> "annotation", at |-> annotations[i].at, instance |-> annotations[i].instance]]
        ELSE FlattenSeq([i \in DOMAIN errors |-> flatErrorEntries(errors[i])])]

RECURSIVE propagateValidity(_)

\* Mutant: a group is as valid as the last thing in it.
WrongPropagate(node) ==
    IF node.leaf = "error" THEN [node EXCEPT !.valid = FALSE]
    ELSE LET below == [i \in DOMAIN node.errors |-> propagateValidity(node.errors[i])]
         IN [node EXCEPT !.errors = below, !.valid = @ /\ (below # <<>> => Last(below).valid)]

\* A failing descendant makes a group invalid; the walk ends at an error.
propagateValidity(node) ==
    IF node.leaf = "error" THEN [node EXCEPT !.valid = FALSE]
    ELSE LET below == [i \in DOMAIN node.errors |-> propagateValidity(node.errors[i])]
         IN [node EXCEPT !.errors = below, !.valid = @ /\ \A i \in DOMAIN below : below[i].valid]

renderVerbose == propagateValidity(root)

\* Mutant: a group becomes its one child whatever annotations it holds, and its
\* first child when it has more.
WrongCollapse(node, kept) ==
    IF kept # <<>> /\ node.at # <<>> THEN Head(kept)
    ELSE [node EXCEPT !.errors = kept, !.annotations = <<>>, !.valid = @ /\ kept = <<>>]

\* Only groups with an error somewhere are kept, and a group whose one child is
\* all there is to it becomes the child.
Collapse(node, kept) ==
    IF Len(kept) = 1 /\ node.at # <<>> /\ node.annotations = <<>>
    THEN [Head(kept) EXCEPT !.instance = IF @ = <<>> THEN node.instance ELSE @]
    ELSE [node EXCEPT !.errors = kept, !.annotations = <<>>, !.valid = @ /\ kept = <<>>]

RECURSIVE pruneToFailing(_)
pruneToFailing(node) ==
    LET prune(c) == IF c.leaf = "error" THEN c ELSE pruneToFailing(c)
        failing(c) == c.leaf = "error" \/ c.errors # <<>>
    IN Collapse(node, SelectSeq([i \in DOMAIN node.errors |-> prune(node.errors[i])], failing))

\* Annotations, and the groups that hold one.
RECURSIVE pruneToValid(_)
pruneToValid(node) ==
    LET groups == SelectSeq(node.errors, LAMBDA c : c.leaf # "error")
        kept == SelectSeq([i \in DOMAIN groups |-> pruneToValid(groups[i])], LAMBDA c : c.annotations # <<>>)
    IN [node EXCEPT !.errors = <<>>, !.annotations = @ \o kept]

renderDetailed == IF Valid THEN pruneToValid(root) ELSE pruneToFailing(root)

-----------------------------------------------------------------------------
(* The failures of one result as a Go error *)

\* The first failure, with the others added to its causes.
validationFailureError == [errors[1] EXCEPT !.causes = @ \o Tail(errors)]

-----------------------------------------------------------------------------
Init ==
    /\ errors = <<>>
    /\ annotations = <<>>
    /\ root = Root(TRUE)

\* buildOutputTree inserts every error before the first annotation.
AddError(e) ==
    /\ Len(errors) < MaxErrors
    /\ annotations = <<>>
    /\ e \notin Range(errors)
    /\ errors' = Append(errors, e)
    /\ root' = insertErrorIntoTree([root EXCEPT !.valid = FALSE], e)
    /\ UNCHANGED annotations

AddAnnotation(a) ==
    /\ Len(annotations) < MaxAnnotations
    /\ a \notin Range(annotations)
    /\ annotations' = Append(annotations, a)
    /\ root' = insertAnnotationIntoTree(root, a)
    /\ UNCHANGED errors

Next ==
    \/ \E e \in FoundErrors : AddError(e)
    \/ \E a \in FoundAnnotations : AddAnnotation(a)

Spec == Init /\ [][Next]_vars

-----------------------------------------------------------------------------
\* The leaves of a tree, those of the causes of an error included.
RECURSIVE Leaves(_)
Leaves(node) ==
    (IF node.leaf = "group" THEN <<>> ELSE << [kind |-> node.leaf, at |-> node.at, instance |-> node.instance] >>)
        \o FlattenSeq([i \in DOMAIN node.errors |-> Leaves(node.errors[i])])
        \o FlattenSeq([i \in DOMAIN node.annotations |-> Leaves(node.annotations[i])])

SameEntries(s, t) ==
    /\ Len(s) = Len(t)
    /\ \A x \in Range(s) \cup Range(t) :
          Cardinality({i \in DOMAIN s : s[i] = x}) = Cardinality({i \in DOMAIN t : t[i] = x})

OfKind(kind, s) == SelectSeq(s, LAMBDA x : x.kind = kind)

\* The nodes below one, itself included, as far as the errors whose causes are
\* not looked into.
RECURSIVE Outer(_)
Outer(node) == {node} \cup (IF node.leaf = "error" THEN {} ELSE UNION {Outer(c) : c \in Range(node.errors)})
RECURSIVE Inner(_)
Inner(node) == {node} \cup UNION {Inner(c) : c \in Range(node.errors)}

Groups(nodes) == {n \in nodes : n.leaf = "group"}
Fails(node) == \E n \in Inner(node) : n.leaf = "error"

\* Every format tells of the same failures, each as often as it happened and at
\* its own instance, and of a valid instance's annotations: rebuilding the tree
\* from keyword locations, collapsing and pruning lose and repeat nothing, and
\* the one error ValidateAndUnmarshal returns has all of them in it.
NothingLost ==
    /\ SameEntries(renderBasic.entries, Leaves(renderDetailed))
    /\ SameEntries(renderBasic.entries, OfKind(IF Valid THEN "annotation" ELSE "error", Leaves(renderVerbose)))
    /\ Len(OfKind("annotation", Leaves(renderVerbose))) = Len(annotations)
    /\ ~Valid => SameEntries(renderBasic.entries, flatErrorEntries(validationFailureError))

\* Every format gives the same verdict, and outside the causes of an error a
\* group is invalid exactly when something in it failed.
VerdictsAgree ==
    /\ renderVerbose.valid = Valid /\ renderDetailed.valid = Valid
    /\ \A g \in Groups(Outer(renderVerbose)) \cup Groups(Outer(renderDetailed)) : g.valid <=> ~Fails(g)

\* Entries that share a prefix of their locations are in one group: no node has
\* two groups for one location, and nothing is in a group its location does not
\* extend.
Grouped ==
    \A n \in Inner(renderVerbose) :
        /\ \A i, j \in DOMAIN n.errors :
              (i # j /\ n.errors[i].at = n.errors[j].at) => "error" \in {n.errors[i].leaf, n.errors[j].leaf}
        /\ n.leaf = "group" =>
              \A c \in Range(n.errors) \cup Range(n.annotations) :
                  IsStrictPrefix(n.at, c.at) /\ Len(c.at) = Len(n.at) + 1
=============================================================================
