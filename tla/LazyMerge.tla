------------------------------ MODULE LazyMerge ------------------------------
(***************************************************************************)
(* The git merge driver cinco-lazy-merge and the two branches it merges.   *)
(*                                                                         *)
(* A model file holds boxes, a box holds dots, edges connect dots.  Between*)
(* two merges the users of the branches edit their copies in the editor;   *)
(* a merge compares both with the last commit they share.  What the driver *)
(* cannot decide it leaves in the merged file, for the editor to show: an  *)
(* element deleted on one side only is a ghost, an end of an edge that both*)
(* sides changed is a choice.  The order of entries is left out.           *)
(***************************************************************************)
EXTENDS Naturals, FiniteSets

CONSTANTS
    Boxes, Dots, Edges,
    Values,         \* the positions and the attribute values, by their hash order
    Undecided,      \* the record an eager conflict leaves in place of a value
    FailOnLazy,     \* the flag --fail-merge-on-lazy-conflicts
    InitialModels,  \* the models the branches start from
    MaxEdits        \* bound: the edits of a behaviour

ASSUME ValuesAreNumbers == Values \subseteq Nat /\ Undecided \notin Values

Branches == {"a", "b"}
Other(x) == IF x = "a" THEN "b" ELSE "a"

-----------------------------------------------------------------------------
(* Optional, Deletable and Ghost of cell.ts. *)

Absent == [tag |-> "absent"]
Live(v) == [tag |-> "live", value |-> v]
Ghost(v) == [tag |-> "ghost", value |-> v]

Optional(V) == {Absent} \union [tag : {"live", "ghost"}, value : V]

Present(o) == o # Absent
IsGhost(o) == o.tag = "ghost"

DotValue == [position : Values, attributes : Values]
BoxValue == [Dots -> Optional(DotValue)]
EdgeValue == [src : SUBSET Dots, tgt : SUBSET Dots]
Model == [boxes : [Boxes -> Optional(BoxValue)], edges : [Edges -> Optional(EdgeValue)]]

ASSUME MergeAssumption ==
    /\ IsFiniteSet(Boxes) /\ IsFiniteSet(Dots)
    /\ InitialModels \subseteq Model
    /\ MaxEdits \in Nat

-----------------------------------------------------------------------------
(* The combinators.  threw: the merge ended in an exception. *)

MergeResult(v, eager, lazy, threw) ==
    [value |-> v, eager |-> eager, lazy |-> lazy, threw |-> threw]

mergeOk(v) == MergeResult(v, FALSE, FALSE, FALSE)

mergeLazyConflict(v) == MergeResult(v, FALSE, TRUE, FALSE)

(* sequenceMergeResultsObject                                               *)
Combined(results) ==
    [value |-> [k \in DOMAIN results |-> results[k].value],
     eager |-> \E k \in DOMAIN results : results[k].eager,
     lazy  |-> \E k \in DOMAIN results : results[k].lazy,
     threw |-> \E k \in DOMAIN results : results[k].threw]

(* Mutant: an edit that meets a deletion is no conflict.                    *)
optionalMergerQuiet(merged, anc, a, b) ==
    IF a = anc THEN mergeOk(b)
    ELSE IF b = anc THEN mergeOk(a)
    ELSE IF ~Present(a) /\ ~Present(b) THEN mergeOk(Absent)
    ELSE IF ~Present(anc) THEN MergeResult(Absent, FALSE, FALSE, TRUE)
    ELSE IF ~Present(a) THEN mergeOk(Ghost(b.value))
    ELSE IF ~Present(b) THEN mergeOk(Ghost(a.value))
    ELSE IF IsGhost(a) \/ IsGhost(b) THEN MergeResult(Ghost(merged.value), merged.eager, TRUE, merged.threw)
    ELSE MergeResult(Live(merged.value), merged.eager, merged.lazy, merged.threw)

(* An entry of an entity list; `merged' is what the merger of its value     *)
(* makes of the three versions, if all have one.  Both sides added it: its  *)
(* record merger asks for the keys of an undefined ancestor.                *)
optionalMerger(merged, anc, a, b) ==
    IF a = anc THEN mergeOk(b)
    ELSE IF b = anc THEN mergeOk(a)
    ELSE IF ~Present(a) /\ ~Present(b) THEN mergeOk(Absent)
    ELSE IF ~Present(anc) THEN MergeResult(Absent, FALSE, FALSE, TRUE)
    ELSE IF ~Present(a) THEN mergeLazyConflict(Ghost(b.value))
    ELSE IF ~Present(b) THEN mergeLazyConflict(Ghost(a.value))
    ELSE IF IsGhost(a) \/ IsGhost(b) THEN MergeResult(Ghost(merged.value), merged.eager, TRUE, merged.threw)
    ELSE MergeResult(Live(merged.value), merged.eager, merged.lazy, merged.threw)

(* The optionalMerger of a field, which every version of a record has.      *)
fieldMerger(merged, anc, a, b) ==
    IF a = anc THEN mergeOk(b) ELSE IF b = anc THEN mergeOk(a) ELSE merged

eagerMerger(anc, a, b) ==
    IF a = b THEN mergeOk(a) ELSE MergeResult(Undecided, TRUE, FALSE, FALSE)

(* Mutant: the first version wins.                                          *)
arbitraryMergerTakesA(anc, a, b) == mergeOk(a)

(* The version with the smaller hash.                                       *)
arbitraryMerger(anc, a, b) == mergeOk(IF a <= b THEN a ELSE b)

(* Mutant: only the options both sides have survive.                        *)
cellMergerIntersects(anc, a, b) ==
    MergeResult(a \intersect b, FALSE, Cardinality(a \intersect b) > 1, FALSE)

(* What the ancestor had survives if both sides kept it; what is new on a   *)
(* side is added.  A choice between old options only is no new conflict.    *)
cellMerger(anc, a, b) ==
    LET survivors == anc \intersect a \intersect b
        offspring == (a \union b) \ anc
        merged == survivors \union offspring
    IN  MergeResult(merged, FALSE, Cardinality(merged) > 1 /\ offspring # {}, FALSE)

dotMerger(anc, a, b) ==
    Combined([position   |-> fieldMerger(arbitraryMerger(anc.position, a.position, b.position),
                                        anc.position, a.position, b.position),
              attributes |-> fieldMerger(eagerMerger(anc.attributes, a.attributes, b.attributes),
                                        anc.attributes, a.attributes, b.attributes)])

(* Entries of the lists of dots, boxes and edges.                           *)
dotEntryMerger(anc, a, b) ==
    optionalMerger(dotMerger(anc.value, a.value, b.value), anc, a, b)

(* Mutant: only the keys of the ancestor are merged.                        *)
boxMergerOldKeys(anc, a, b) ==
    Combined([d \in Dots |->
        IF anc[d] = Absent THEN mergeOk(Absent) ELSE dotEntryMerger(anc[d], a[d], b[d])])

boxMerger(anc, a, b) ==
    Combined([d \in Dots |-> dotEntryMerger(anc[d], a[d], b[d])])

edgeMerger(anc, a, b) ==
    Combined([src |-> fieldMerger(cellMerger(anc.src, a.src, b.src), anc.src, a.src, b.src),
              tgt |-> fieldMerger(cellMerger(anc.tgt, a.tgt, b.tgt), anc.tgt, a.tgt, b.tgt)])

boxEntryMerger(anc, a, b) ==
    optionalMerger(boxMerger(anc.value, a.value, b.value), anc, a, b)

edgeEntryMerger(anc, a, b) ==
    optionalMerger(edgeMerger(anc.value, a.value, b.value), anc, a, b)

graphMerger(anc, a, b) ==
    Combined(
        [boxes |-> Combined([h \in Boxes |-> boxEntryMerger(anc.boxes[h], a.boxes[h], b.boxes[h])]),
         edges |-> Combined([e \in Edges |-> edgeEntryMerger(anc.edges[e], a.edges[e], b.edges[e])])])

-----------------------------------------------------------------------------
VARIABLES
    ancestor,       \* the model in the last commit the branches share
    branch,         \* the model at the head of each branch
    exit,           \* the exit code of the last merge
    edits           \* how many edits there were

mergeVars == <<ancestor, branch, exit, edits>>

MergeTypeOK ==
    /\ ancestor \in Model
    /\ branch \in [Branches -> Model]
    /\ exit \in 0 .. 2
    /\ edits \in 0 .. MaxEdits

MergeInit ==
    /\ ancestor \in InitialModels
    /\ branch = [x \in Branches |-> ancestor]
    /\ exit = 0
    /\ edits = 0

(* An operation of the editor on branch x.                                  *)
Edit(x, m) ==
    /\ edits < MaxEdits
    /\ edits' = edits + 1
    /\ branch' = [branch EXCEPT ![x] = m]
    /\ UNCHANGED <<ancestor, exit>>

HasDot(m, h, d) == Present(m.boxes[h]) /\ Present(m.boxes[h].value[d])
HoldersOf(m, d) == {h \in Boxes : HasDot(m, h, d)}

Versions == {ancestor} \union {branch[x] : x \in Branches}

SetPosition(x, h, d, v) ==
    /\ HasDot(branch[x], h, d)
    /\ Edit(x, [branch[x] EXCEPT !.boxes[h].value[d].value.position = v])

SetAttributes(x, h, d, v) ==
    /\ HasDot(branch[x], h, d)
    /\ Edit(x, [branch[x] EXCEPT !.boxes[h].value[d].value.attributes = v])

(* changeContainer: the moved dot is no ghost in its new box.               *)
MoveDot(x, h, k, d) ==
    /\ HasDot(branch[x], h, d)
    /\ Present(branch[x].boxes[k]) /\ ~HasDot(branch[x], k, d)
    /\ Edit(x, [branch[x] EXCEPT
                    !.boxes[h].value[d] = Absent,
                    !.boxes[k].value[d] = Live(branch[x].boxes[h].value[d].value)])

(* The edges of a deleted dot: see RemoveAssociatedEdges of GraphModel.     *)
WithoutEnd(o, d) ==
    IF ~Present(o) \/ d \notin o.value.src \union o.value.tgt THEN o
    ELSE IF o.value.src = {d} \/ o.value.tgt = {d} THEN Absent
    ELSE IF d \in o.value.src THEN [o EXCEPT !.value.src = @ \ {d}]
    ELSE [o EXCEPT !.value.tgt = @ \ {d}]

DeleteDot(x, h, d) ==
    /\ HasDot(branch[x], h, d)
    /\ Edit(x, [branch[x] EXCEPT
                    !.boxes[h].value[d] = Absent,
                    !.edges = [e \in Edges |-> WithoutEnd(@[e], d)]])

(* Bound: a box is deleted when it holds one dot at most.                   *)
DeleteBox(x, h) ==
    LET dots == {d \in Dots : HasDot(branch[x], h, d)}
    IN  /\ Present(branch[x].boxes[h])
        /\ \A d1, d2 \in dots : d1 = d2
        /\ Edit(x, [branch[x] EXCEPT
                        !.boxes[h] = Absent,
                        !.edges = [e \in Edges |->
                            IF dots = {} THEN @[e] ELSE WithoutEnd(@[e], CHOOSE d \in dots : TRUE)]])

DeleteEdge(x, e) ==
    /\ Present(branch[x].edges[e])
    /\ Edit(x, [branch[x] EXCEPT !.edges[e] = Absent])

(* A new edge has a fresh id.                                               *)
Connect(x, e, s, t) ==
    /\ \A m \in Versions : ~Present(m.edges[e])
    /\ HoldersOf(branch[x], s) # {} /\ HoldersOf(branch[x], t) # {}
    /\ Edit(x, [branch[x] EXCEPT !.edges[e] = Live([src |-> {s}, tgt |-> {t}])])

Decided(o) == Present(o) /\ Cardinality(o.value.src) = 1 /\ Cardinality(o.value.tgt) = 1

Reconnect(x, e, s, t) ==
    LET o == branch[x].edges[e]
    IN  /\ Decided(o) /\ ~IsGhost(o)
        /\ HoldersOf(branch[x], s) # {} /\ HoldersOf(branch[x], t) # {}
        /\ Edit(x, [branch[x] EXCEPT !.edges[e] = Live([src |-> {s}, tgt |-> {t}])])

ChooseEnd(x, e, d) ==
    LET o == branch[x].edges[e]
    IN  /\ Present(o)
        /\ \/ d \in o.value.src /\ Edit(x, [branch[x] EXCEPT !.edges[e].value.src = {d}])
           \/ d \in o.value.tgt /\ Edit(x, [branch[x] EXCEPT !.edges[e].value.tgt = {d}])

(* The ghost decision `restore'; its other outcome is a deletion.           *)
Restore(x) ==
    \/ \E h \in Boxes : /\ IsGhost(branch[x].boxes[h])
                        /\ Edit(x, [branch[x] EXCEPT !.boxes[h].tag = "live"])
    \/ \E h \in Boxes, d \in Dots :
                        /\ HasDot(branch[x], h, d) /\ IsGhost(branch[x].boxes[h].value[d])
                        /\ Edit(x, [branch[x] EXCEPT !.boxes[h].value[d].tag = "live"])
    \/ \E e \in Edges : /\ IsGhost(branch[x].edges[e])
                        /\ Edit(x, [branch[x] EXCEPT !.edges[e].tag = "live"])

EditOn(x) ==
    \/ \E h \in Boxes, d \in Dots, v \in Values : SetPosition(x, h, d, v) \/ SetAttributes(x, h, d, v)
    \/ \E h, k \in Boxes, d \in Dots : MoveDot(x, h, k, d)
    \/ \E h \in Boxes, d \in Dots : DeleteDot(x, h, d)
    \/ \E h \in Boxes : DeleteBox(x, h)
    \/ \E e \in Edges : DeleteEdge(x, e)
    \/ \E e \in Edges, s, t \in Dots : Connect(x, e, s, t) \/ Reconnect(x, e, s, t)
    \/ \E e \in Edges, d \in Dots : ChooseEnd(x, e, d)
    \/ Restore(x)

-----------------------------------------------------------------------------
exitCode(result) ==
    IF result.threw THEN 2
    ELSE IF result.eager \/ (FailOnLazy /\ result.lazy) THEN 1
    ELSE 0

(* Mutant: an eager conflict does not stop the merge.                       *)
MergeInSpiteOfConflict(x) ==
    LET y == Other(x)
        result == graphMerger(ancestor, branch[x], branch[y])
    IN  /\ Cardinality(Versions) = 3
        /\ ~result.threw
        /\ branch' = [branch EXCEPT ![x] = result.value]
        /\ ancestor' = branch[y]
        /\ UNCHANGED <<exit, edits>>

(* The other branch is merged into x.  Git asks the driver when both sides  *)
(* changed the file, and not in the same way; it commits the driver's output*)
(* when the driver ended with 0.  Any other merge is given up.              *)
Merge(x) ==
    LET y == Other(x)
        result == graphMerger(ancestor, branch[x], branch[y])
    IN  /\ Cardinality(Versions) = 3
        /\ exit' = exitCode(result)
        /\ IF exit' = 0
           THEN /\ branch' = [branch EXCEPT ![x] = result.value]
                /\ ancestor' = branch[y]
           ELSE UNCHANGED <<ancestor, branch>>
        /\ UNCHANGED edits

(* Only the other branch changed: x takes its model over.                   *)
FastForward(x) ==
    /\ branch[x] = ancestor /\ branch[Other(x)] # ancestor
    /\ branch' = [branch EXCEPT ![x] = branch[Other(x)]]
    /\ ancestor' = branch[Other(x)]
    /\ UNCHANGED <<exit, edits>>

(* Both branches changed in the same way: git merges without the driver.    *)
MergeOfEquals ==
    /\ branch["a"] = branch["b"] /\ branch["a"] # ancestor
    /\ ancestor' = branch["a"]
    /\ UNCHANGED <<branch, exit, edits>>

MergeNext ==
    \/ \E x \in Branches : EditOn(x) \/ Merge(x) \/ FastForward(x)
    \/ MergeOfEquals

MergeSpec == MergeInit /\ [][MergeNext]_mergeVars

-----------------------------------------------------------------------------
Result == graphMerger(ancestor, branch["a"], branch["b"])

(* Whichever branch is merged into the other, the outcome is the same, with *)
(* the same conflicts: users who merge each other's branches agree.         *)
MergeIsSymmetric ==
    Result = graphMerger(ancestor, branch["b"], branch["a"])

InConflict(o) == IsGhost(o) \/ (Present(o) /\ ~Decided(o))

(* A merge reports its new conflicts: if it raises no flag, an element of   *)
(* the outcome is a ghost, or undecided between several ends, only if it    *)
(* was a ghost or undecided on a branch.                                    *)
ConflictsAreReported ==
    ~(Result.eager \/ Result.lazy \/ Result.threw) =>
        /\ \A e \in Edges :
              LET o == Result.value.edges[e]
              IN  IsGhost(o) \/ (Present(o) /\ (Cardinality(o.value.src) > 1 \/ Cardinality(o.value.tgt) > 1))
                    => \E x \in Branches : InConflict(branch[x].edges[e])
        /\ \A h \in Boxes : IsGhost(Result.value.boxes[h]) => \E x \in Branches : IsGhost(branch[x].boxes[h])
        /\ \A h \in Boxes, d \in Dots :
              HasDot(Result.value, h, d) /\ IsGhost(Result.value.boxes[h].value[d])
                => \E x \in Branches : HasDot(branch[x], h, d) /\ IsGhost(branch[x].boxes[h].value[d])

Unique(m) == \A d \in Dots : Cardinality(HoldersOf(m, d)) <= 1

(* What both branches have, a merge does not lose: an edge stays, and a dot *)
(* stays wherever each side moved it, as long as the shared commit had it in*)
(* one box.                                                                 *)
AgreedElementsSurvive ==
    ~Result.threw =>
        /\ \A e \in Edges :
              (\A x \in Branches : Present(branch[x].edges[e])) => Present(Result.value.edges[e])
        /\ Unique(ancestor) => \A d \in Dots :
              (\A x \in Branches : HoldersOf(branch[x], d) # {}) => HoldersOf(Result.value, d) # {}

(* An edge loses all its candidates for an end in a merge only if the shared*)
(* commit left that end undecided and the branches kept different options.  *)
EndsAreLostToOpposedChoicesOnly ==
    ~Result.threw => \A e \in Edges :
        LET ends(o) == <<o.value.src, o.value.tgt>>
            merged == Result.value.edges[e]
        IN  /\ Present(merged) /\ Present(ancestor.edges[e])
            /\ \A x \in Branches : Present(branch[x].edges[e])
            => \A i \in 1 .. 2 : ends(merged)[i] = {} =>
                  \/ \E x \in Branches : ends(branch[x].edges[e])[i] = {}
                  \/ /\ Cardinality(ends(ancestor.edges[e])[i]) > 1
                     /\ ends(branch["a"].edges[e])[i] \cap ends(branch["b"].edges[e])[i] = {}
=============================================================================
