---------------------------- MODULE LazyMergeProofs ----------------------------
(***************************************************************************)
(* Theorems about the merge driver, for all models of all sizes.           *)
(*                                                                         *)
(* The type invariant is inductive: what the driver writes when it ends    *)
(* with 0 is a model again, so merges of merges are merges of models.  The *)
(* other theorems hold of the driver's result on any three models.         *)
(***************************************************************************)
EXTENDS LazyMerge, FiniteSetTheorems, TLAPS

-----------------------------------------------------------------------------
(* Optional entries. *)

LEMMA PresentIsTagged ==
    ASSUME NEW V, NEW o \in Optional(V), Present(o)
    PROVE  /\ o.value \in V
           /\ o.tag \in {"live", "ghost"}
           /\ o = [tag |-> o.tag, value |-> o.value]
BY DEF Optional, Present

LEMMA TaggedIsOptional ==
    ASSUME NEW V, NEW v \in V
    PROVE  /\ Live(v) \in Optional(V) /\ Ghost(v) \in Optional(V)
           /\ Present(Live(v)) /\ Present(Ghost(v))
           /\ Live(v).value = v /\ Ghost(v).value = v
           /\ ~IsGhost(Live(v)) /\ IsGhost(Ghost(v))
BY DEF Optional, Live, Ghost, Present, IsGhost, Absent

LEMMA AbsentIsOptional ==
    ASSUME NEW V
    PROVE  Absent \in Optional(V) /\ ~Present(Absent) /\ ~IsGhost(Absent)
BY DEF Optional, Present, IsGhost, Absent

-----------------------------------------------------------------------------
(* Types: a result is a record of four fields, whose value is of type V if  *)
(* the driver will write it.                                                *)

IsResult(r, V) ==
    /\ r = [value |-> r.value, eager |-> r.eager, lazy |-> r.lazy, threw |-> r.threw]
    /\ r.eager \in BOOLEAN /\ r.lazy \in BOOLEAN /\ r.threw \in BOOLEAN
    /\ ~r.eager /\ ~r.threw => r.value \in V

LEMMA OkIsResult ==
    ASSUME NEW V, NEW v \in V
    PROVE  IsResult(mergeOk(v), V) /\ IsResult(mergeLazyConflict(v), V)
BY DEF IsResult, mergeOk, mergeLazyConflict, MergeResult

LEMMA OptionalMergerTyped ==
    ASSUME NEW V, NEW anc \in Optional(V), NEW a \in Optional(V), NEW b \in Optional(V), NEW merged,
           Present(anc) /\ Present(a) /\ Present(b) => IsResult(merged, V)
    PROVE  IsResult(optionalMerger(merged, anc, a, b), Optional(V))
<1> DEFINE result == optionalMerger(merged, anc, a, b)
<1>1. CASE a = anc \/ b = anc
  BY <1>1, OkIsResult DEF optionalMerger
<1>2. CASE a # anc /\ b # anc /\ ~(Present(a) /\ Present(b) /\ Present(anc))
  <2>1. CASE ~Present(a) /\ ~Present(b)
    BY <1>2, <2>1, OkIsResult, AbsentIsOptional DEF optionalMerger
  <2>2. CASE (Present(a) \/ Present(b)) /\ ~Present(anc)
    <3>1. result = MergeResult(Absent, FALSE, FALSE, TRUE)
      BY <1>2, <2>2 DEF optionalMerger
    <3> QED BY <3>1 DEF IsResult, MergeResult
  <2>3. CASE Present(anc) /\ Present(b) /\ ~Present(a)
    <3>1. result = mergeLazyConflict(Ghost(b.value))
      BY <1>2, <2>3 DEF optionalMerger
    <3> QED BY <2>3, <3>1, PresentIsTagged, TaggedIsOptional, OkIsResult
  <2>4. CASE Present(anc) /\ Present(a) /\ ~Present(b)
    <3>1. result = mergeLazyConflict(Ghost(a.value))
      BY <1>2, <2>4 DEF optionalMerger
    <3> QED BY <2>4, <3>1, PresentIsTagged, TaggedIsOptional, OkIsResult
  <2> QED BY <1>2, <2>1, <2>2, <2>3, <2>4
<1>3. CASE a # anc /\ b # anc /\ Present(a) /\ Present(b) /\ Present(anc)
  <2>1. \/ result = MergeResult(Ghost(merged.value), merged.eager, TRUE, merged.threw)
        \/ result = MergeResult(Live(merged.value), merged.eager, merged.lazy, merged.threw)
    BY <1>3 DEF optionalMerger
  <2>2. IsResult(merged, V)
    BY <1>3
  <2>3. \E v, l : /\ v \in {Ghost(merged.value), Live(merged.value)} /\ l \in BOOLEAN
                  /\ result = [value |-> v, eager |-> merged.eager, lazy |-> l, threw |-> merged.threw]
    BY <2>1, <2>2 DEF IsResult, MergeResult
  <2> QED BY <2>2, <2>3, TaggedIsOptional DEF IsResult
<1> QED BY <1>1, <1>2, <1>3

LEMMA FieldMergerTyped ==
    ASSUME NEW V, NEW anc \in V, NEW a \in V, NEW b \in V, NEW merged, IsResult(merged, V)
    PROVE  IsResult(fieldMerger(merged, anc, a, b), V)
BY OkIsResult DEF fieldMerger

LEMMA CombinedTyped ==
    ASSUME NEW S, NEW V, NEW results, DOMAIN results = S, \A k \in S : IsResult(results[k], V)
    PROVE  IsResult(Combined(results), [S -> V])
BY DEF IsResult, Combined

LEMMA DotMergerTyped ==
    ASSUME NEW anc \in DotValue, NEW a \in DotValue, NEW b \in DotValue
    PROVE  IsResult(dotMerger(anc, a, b), DotValue)
<1> DEFINE p == fieldMerger(arbitraryMerger(anc.position, a.position, b.position),
                            anc.position, a.position, b.position)
           t == fieldMerger(eagerMerger(anc.attributes, a.attributes, b.attributes),
                            anc.attributes, a.attributes, b.attributes)
<1>1. IsResult(p, Values)
  <2>1. IsResult(arbitraryMerger(anc.position, a.position, b.position), Values)
    BY OkIsResult DEF arbitraryMerger, DotValue
  <2> QED BY <2>1, FieldMergerTyped DEF DotValue
<1>2. IsResult(t, Values)
  <2>1. IsResult(eagerMerger(anc.attributes, a.attributes, b.attributes), Values)
    <3>1. CASE a.attributes = b.attributes
      BY <3>1, OkIsResult DEF eagerMerger, DotValue
    <3>2. CASE a.attributes # b.attributes
      BY <3>2 DEF eagerMerger, IsResult, MergeResult
    <3> QED BY <3>1, <3>2
  <2> QED BY <2>1, FieldMergerTyped DEF DotValue
<1> HIDE DEF p, t
<1>3. IsResult(Combined([position |-> p, attributes |-> t]), DotValue)
  BY <1>1, <1>2 DEF IsResult, Combined, DotValue
<1> QED BY <1>3 DEF dotMerger, p, t

LEMMA EdgeMergerTyped ==
    ASSUME NEW anc \in EdgeValue, NEW a \in EdgeValue, NEW b \in EdgeValue
    PROVE  IsResult(edgeMerger(anc, a, b), EdgeValue)
<1> DEFINE end(o, x, y) == fieldMerger(cellMerger(o, x, y), o, x, y)
<1>1. ASSUME NEW o \in SUBSET Dots, NEW x \in SUBSET Dots, NEW y \in SUBSET Dots
      PROVE  IsResult(end(o, x, y), SUBSET Dots)
  <2>1. IsResult(cellMerger(o, x, y), SUBSET Dots)
    BY DEF IsResult, cellMerger, MergeResult
  <2> QED BY <2>1, FieldMergerTyped
<1>2. IsResult(end(anc.src, a.src, b.src), SUBSET Dots)
  BY <1>1 DEF EdgeValue
<1>3. IsResult(end(anc.tgt, a.tgt, b.tgt), SUBSET Dots)
  BY <1>1 DEF EdgeValue
<1> DEFINE s == end(anc.src, a.src, b.src)
           t == end(anc.tgt, a.tgt, b.tgt)
<1>4. IsResult(s, SUBSET Dots) /\ IsResult(t, SUBSET Dots)
  BY <1>2, <1>3
<1>5. edgeMerger(anc, a, b) = Combined([src |-> s, tgt |-> t])
  BY DEF edgeMerger
<1> HIDE DEF s, t
<1> QED BY <1>4, <1>5 DEF IsResult, Combined, EdgeValue

LEMMA BoxMergerTyped ==
    ASSUME NEW anc \in BoxValue, NEW a \in BoxValue, NEW b \in BoxValue
    PROVE  IsResult(boxMerger(anc, a, b), BoxValue)
<1> DEFINE results == [d \in Dots |-> dotEntryMerger(anc[d], a[d], b[d])]
<1>1. ASSUME NEW d \in Dots PROVE IsResult(results[d], Optional(DotValue))
  <2>1. anc[d] \in Optional(DotValue) /\ a[d] \in Optional(DotValue) /\ b[d] \in Optional(DotValue)
    BY DEF BoxValue
  <2>2. Present(anc[d]) /\ Present(a[d]) /\ Present(b[d])
            => IsResult(dotMerger(anc[d].value, a[d].value, b[d].value), DotValue)
    BY <2>1, PresentIsTagged, DotMergerTyped
  <2>3. IsResult(dotEntryMerger(anc[d], a[d], b[d]), Optional(DotValue))
    BY <2>1, <2>2, OptionalMergerTyped DEF dotEntryMerger
  <2> QED BY <2>3
<1>2. DOMAIN results = Dots
  OBVIOUS
<1> HIDE DEF results
<1>3. IsResult(Combined(results), [Dots -> Optional(DotValue)])
  BY <1>1, <1>2, CombinedTyped
<1> QED BY <1>3 DEF boxMerger, results, BoxValue

LEMMA BoxEntryMergerTyped ==
    ASSUME NEW anc \in Optional(BoxValue), NEW a \in Optional(BoxValue), NEW b \in Optional(BoxValue)
    PROVE  IsResult(boxEntryMerger(anc, a, b), Optional(BoxValue))
<1>1. Present(anc) /\ Present(a) /\ Present(b)
          => IsResult(boxMerger(anc.value, a.value, b.value), BoxValue)
  BY PresentIsTagged, BoxMergerTyped
<1> QED BY <1>1, OptionalMergerTyped DEF boxEntryMerger

LEMMA EdgeEntryMergerTyped ==
    ASSUME NEW anc \in Optional(EdgeValue), NEW a \in Optional(EdgeValue), NEW b \in Optional(EdgeValue)
    PROVE  IsResult(edgeEntryMerger(anc, a, b), Optional(EdgeValue))
<1>1. Present(anc) /\ Present(a) /\ Present(b)
          => IsResult(edgeMerger(anc.value, a.value, b.value), EdgeValue)
  BY PresentIsTagged, EdgeMergerTyped
<1> QED BY <1>1, OptionalMergerTyped DEF edgeEntryMerger

(* The parts of the driver's result.                                        *)
BoxResults(anc, a, b) == [h \in Boxes |-> boxEntryMerger(anc.boxes[h], a.boxes[h], b.boxes[h])]
EdgeResults(anc, a, b) == [e \in Edges |-> edgeEntryMerger(anc.edges[e], a.edges[e], b.edges[e])]

LEMMA GraphMergerParts ==
    ASSUME NEW anc, NEW a, NEW b
    PROVE  LET r == graphMerger(anc, a, b)
               boxes == BoxResults(anc, a, b)
               edges == EdgeResults(anc, a, b)
           IN  /\ r = MergeResult(r.value, r.eager, r.lazy, r.threw)
               /\ r.value = [boxes |-> [h \in Boxes |-> boxes[h].value],
                             edges |-> [e \in Edges |-> edges[e].value]]
               /\ r.eager = ((\E h \in Boxes : boxes[h].eager) \/ (\E e \in Edges : edges[e].eager))
               /\ r.lazy = ((\E h \in Boxes : boxes[h].lazy) \/ (\E e \in Edges : edges[e].lazy))
               /\ r.threw = ((\E h \in Boxes : boxes[h].threw) \/ (\E e \in Edges : edges[e].threw))
<1> DEFINE boxes == BoxResults(anc, a, b)
           edges == EdgeResults(anc, a, b)
           boxPart == Combined(boxes)
           edgePart == Combined(edges)
<1>1. DOMAIN boxes = Boxes /\ DOMAIN edges = Edges
  BY DEF BoxResults, EdgeResults
<1>2. graphMerger(anc, a, b) = Combined([boxes |-> boxPart, edges |-> edgePart])
  BY DEF graphMerger, BoxResults, EdgeResults
<1> HIDE DEF boxes, edges
<1>3. /\ boxPart.value = [h \in Boxes |-> boxes[h].value]
      /\ boxPart.eager = (\E h \in Boxes : boxes[h].eager)
      /\ boxPart.lazy = (\E h \in Boxes : boxes[h].lazy)
      /\ boxPart.threw = (\E h \in Boxes : boxes[h].threw)
  BY <1>1 DEF Combined
<1>4. /\ edgePart.value = [e \in Edges |-> edges[e].value]
      /\ edgePart.eager = (\E e \in Edges : edges[e].eager)
      /\ edgePart.lazy = (\E e \in Edges : edges[e].lazy)
      /\ edgePart.threw = (\E e \in Edges : edges[e].threw)
  BY <1>1 DEF Combined
<1> HIDE DEF boxPart, edgePart
<1> DEFINE parts == [boxes |-> boxPart, edges |-> edgePart]
           r == Combined(parts)
<1>5. DOMAIN parts = {"boxes", "edges"} /\ parts["boxes"] = boxPart /\ parts["edges"] = edgePart
  OBVIOUS
<1> HIDE DEF parts
<1>6. r = [value |-> [k \in {"boxes", "edges"} |-> parts[k].value],
           eager |-> (\E k \in {"boxes", "edges"} : parts[k].eager),
           lazy  |-> (\E k \in {"boxes", "edges"} : parts[k].lazy),
           threw |-> (\E k \in {"boxes", "edges"} : parts[k].threw)]
  BY <1>5 DEF Combined
<1> HIDE DEF r
<1>7. r = MergeResult(r.value, r.eager, r.lazy, r.threw)
  BY <1>6 DEF MergeResult
<1>8. r.value = [boxes |-> boxPart.value, edges |-> edgePart.value]
  BY <1>5, <1>6
<1>9. r.eager = (boxPart.eager \/ edgePart.eager)
  BY <1>5, <1>6
<1>10. r.lazy = (boxPart.lazy \/ edgePart.lazy)
  BY <1>5, <1>6
<1>11. r.threw = (boxPart.threw \/ edgePart.threw)
  BY <1>5, <1>6
<1>12. graphMerger(anc, a, b) = r
  BY <1>2 DEF r, parts
<1> USE DEF boxes, edges
<1> QED BY <1>3, <1>4, <1>7, <1>8, <1>9, <1>10, <1>11, <1>12

(* What the driver writes when it ends with 0 is a model.                   *)
LEMMA GraphMergerTyped ==
    ASSUME NEW anc \in Model, NEW a \in Model, NEW b \in Model,
           LET r == graphMerger(anc, a, b) IN ~r.eager /\ ~r.threw
    PROVE  graphMerger(anc, a, b).value \in Model
<1> DEFINE boxes == BoxResults(anc, a, b)
           edges == EdgeResults(anc, a, b)
<1>1. ASSUME NEW h \in Boxes PROVE boxes[h].value \in Optional(BoxValue)
  <2>1. IsResult(boxes[h], Optional(BoxValue))
    BY BoxEntryMergerTyped DEF BoxResults, Model
  <2>2. ~boxes[h].eager /\ ~boxes[h].threw
    BY GraphMergerParts
  <2> QED BY <2>1, <2>2 DEF IsResult
<1>2. ASSUME NEW e \in Edges PROVE edges[e].value \in Optional(EdgeValue)
  <2>1. IsResult(edges[e], Optional(EdgeValue))
    BY EdgeEntryMergerTyped DEF EdgeResults, Model
  <2>2. ~edges[e].eager /\ ~edges[e].threw
    BY GraphMergerParts
  <2> QED BY <2>1, <2>2 DEF IsResult
<1>3. graphMerger(anc, a, b).value = [boxes |-> [h \in Boxes |-> boxes[h].value],
                                      edges |-> [e \in Edges |-> edges[e].value]]
  BY GraphMergerParts
<1> HIDE DEF boxes, edges
<1> QED BY <1>1, <1>2, <1>3 DEF Model

-----------------------------------------------------------------------------
(* Edits of a model. *)

LEMMA BoxReplaced ==
    ASSUME NEW m \in Model, NEW h \in Boxes, NEW o \in Optional(BoxValue)
    PROVE  [m EXCEPT !.boxes[h] = o] \in Model
BY DEF Model

LEMMA EdgeReplaced ==
    ASSUME NEW m \in Model, NEW e \in Edges, NEW o \in Optional(EdgeValue)
    PROVE  [m EXCEPT !.edges[e] = o] \in Model
BY DEF Model

LEMMA DotReplaced ==
    ASSUME NEW m \in Model, NEW h \in Boxes, Present(m.boxes[h]),
           NEW d \in Dots, NEW o \in Optional(DotValue)
    PROVE  [m EXCEPT !.boxes[h].value[d] = o] \in Model
<1> DEFINE box == [m.boxes[h] EXCEPT !.value[d] = o]
<1>1. m.boxes[h] \in Optional(BoxValue)
  BY DEF Model
<1>2. /\ m.boxes[h].value \in BoxValue
      /\ m.boxes[h].tag \in {"live", "ghost"}
      /\ m.boxes[h] = [tag |-> m.boxes[h].tag, value |-> m.boxes[h].value]
  BY <1>1, PresentIsTagged
<1>3. [m.boxes[h].value EXCEPT ![d] = o] \in BoxValue
  BY <1>2 DEF BoxValue
<1>4. box = [tag |-> m.boxes[h].tag, value |-> [m.boxes[h].value EXCEPT ![d] = o]]
  BY <1>2
<1>5. box \in Optional(BoxValue)
  BY <1>2, <1>3, <1>4 DEF Optional
<1>6. [m EXCEPT !.boxes[h].value[d] = o] = [m EXCEPT !.boxes[h] = box]
  BY DEF Model
<1> QED BY <1>5, <1>6, BoxReplaced

LEMMA DotValueChanged ==
    ASSUME NEW o \in Optional(DotValue), Present(o), NEW v \in Values
    PROVE  /\ [o EXCEPT !.value.position = v] \in Optional(DotValue)
           /\ [o EXCEPT !.value.attributes = v] \in Optional(DotValue)
<1>1. o = [tag |-> o.tag, value |-> o.value] /\ o.tag \in {"live", "ghost"} /\ o.value \in DotValue
  BY PresentIsTagged
<1>2. /\ o.value = [position |-> o.value.position, attributes |-> o.value.attributes]
      /\ o.value.position \in Values /\ o.value.attributes \in Values
  BY <1>1 DEF DotValue
<1>3. [o EXCEPT !.value.position = v]
          = [tag |-> o.tag, value |-> [position |-> v, attributes |-> o.value.attributes]]
  BY <1>1, <1>2
<1>4. [o EXCEPT !.value.attributes = v]
          = [tag |-> o.tag, value |-> [position |-> o.value.position, attributes |-> v]]
  BY <1>1, <1>2
<1> QED BY <1>1, <1>2, <1>3, <1>4 DEF Optional, DotValue

LEMMA EndChosen ==
    ASSUME NEW o \in Optional(EdgeValue), Present(o), NEW d \in Dots
    PROVE  /\ [o EXCEPT !.value.src = {d}] \in Optional(EdgeValue)
           /\ [o EXCEPT !.value.tgt = {d}] \in Optional(EdgeValue)
<1>1. o = [tag |-> o.tag, value |-> o.value] /\ o.tag \in {"live", "ghost"} /\ o.value \in EdgeValue
  BY PresentIsTagged
<1>2. /\ o.value = [src |-> o.value.src, tgt |-> o.value.tgt]
      /\ o.value.src \in SUBSET Dots /\ o.value.tgt \in SUBSET Dots
  BY <1>1 DEF EdgeValue
<1>3. /\ [o.value EXCEPT !.src = {d}] = [src |-> {d}, tgt |-> o.value.tgt]
      /\ [o.value EXCEPT !.tgt = {d}] = [src |-> o.value.src, tgt |-> {d}]
  BY <1>2
<1>4. [o EXCEPT !.value.src = {d}] = [tag |-> o.tag, value |-> [o.value EXCEPT !.src = {d}]]
  BY <1>1
<1>5. [o EXCEPT !.value.tgt = {d}] = [tag |-> o.tag, value |-> [o.value EXCEPT !.tgt = {d}]]
  BY <1>1
<1>6. /\ [src |-> {d}, tgt |-> o.value.tgt] \in EdgeValue
      /\ [src |-> o.value.src, tgt |-> {d}] \in EdgeValue
  BY <1>2 DEF EdgeValue
<1> QED BY <1>1, <1>3, <1>4, <1>5, <1>6 DEF Optional

LEMMA WithoutEndTyped ==
    ASSUME NEW o \in Optional(EdgeValue), NEW d
    PROVE  WithoutEnd(o, d) \in Optional(EdgeValue)
<1>1. CASE ~Present(o) \/ d \notin o.value.src \union o.value.tgt
  BY <1>1 DEF WithoutEnd
<1>2. CASE Present(o) /\ (o.value.src = {d} \/ o.value.tgt = {d})
  BY <1>2, AbsentIsOptional DEF WithoutEnd
<1>3. CASE Present(o)
  <2>1. o = [tag |-> o.tag, value |-> o.value] /\ o.tag \in {"live", "ghost"} /\ o.value \in EdgeValue
    BY <1>3, PresentIsTagged
  <2>2. o.value = [src |-> o.value.src, tgt |-> o.value.tgt]
        /\ o.value.src \in SUBSET Dots /\ o.value.tgt \in SUBSET Dots
    BY <2>1 DEF EdgeValue
  <2>3. [o EXCEPT !.value.src = @ \ {d}]
            = [tag |-> o.tag, value |-> [src |-> o.value.src \ {d}, tgt |-> o.value.tgt]]
    BY <2>1, <2>2
  <2>4. [o EXCEPT !.value.tgt = @ \ {d}]
            = [tag |-> o.tag, value |-> [src |-> o.value.src, tgt |-> o.value.tgt \ {d}]]
    BY <2>1, <2>2
  <2>5. [o EXCEPT !.value.src = @ \ {d}] \in Optional(EdgeValue)
    BY <2>1, <2>2, <2>3 DEF Optional, EdgeValue
  <2>6. [o EXCEPT !.value.tgt = @ \ {d}] \in Optional(EdgeValue)
    BY <2>1, <2>2, <2>4 DEF Optional, EdgeValue
  <2> QED BY <1>1, <1>2, <1>3, <2>5, <2>6 DEF WithoutEnd
<1> QED BY <1>1, <1>3

LEMMA EdgesWithoutEnd ==
    ASSUME NEW m \in Model, NEW d
    PROVE  [m EXCEPT !.edges = [e \in Edges |-> WithoutEnd(@[e], d)]] \in Model
<1>1. \A e \in Edges : WithoutEnd(m.edges[e], d) \in Optional(EdgeValue)
  BY WithoutEndTyped DEF Model
<1> QED BY <1>1 DEF Model

(* Every edit of a model is an edit to a model.                             *)
LEMMA EditTyped ==
    ASSUME MergeTypeOK, NEW x \in Branches, NEW m \in Model, Edit(x, m)
    PROVE  MergeTypeOK'
BY MergeAssumption DEF Edit, MergeTypeOK

LEMMA DotOfBox ==
    ASSUME NEW m \in Model, NEW h \in Boxes, NEW d \in Dots, HasDot(m, h, d)
    PROVE  /\ Present(m.boxes[h])
           /\ m.boxes[h].value \in BoxValue
           /\ m.boxes[h].value[d] \in Optional(DotValue)
           /\ m.boxes[h].value[d].value \in DotValue
           /\ m.boxes[h].value[d].tag \in {"live", "ghost"}
           /\ m.boxes[h].value[d] = [tag |-> m.boxes[h].value[d].tag,
                                     value |-> m.boxes[h].value[d].value]
<1>1. m.boxes[h] \in Optional(BoxValue)
  BY DEF Model
<1>2. m.boxes[h].value \in BoxValue
  BY <1>1, PresentIsTagged DEF HasDot
<1>3. m.boxes[h].value[d] \in Optional(DotValue)
  BY <1>2 DEF BoxValue
<1> QED BY <1>2, <1>3, PresentIsTagged DEF HasDot

LEMMA EditOnTyped ==
    ASSUME MergeTypeOK, NEW x \in Branches, EditOn(x)
    PROVE  MergeTypeOK'
<1> DEFINE m == branch[x]
<1>1. m \in Model
  BY DEF MergeTypeOK
<1>2. ASSUME NEW h \in Boxes, NEW d \in Dots, NEW v \in Values, SetPosition(x, h, d, v)
      PROVE  MergeTypeOK'
  <2> DEFINE o == [m.boxes[h].value[d] EXCEPT !.value.position = v]
  <2>1. HasDot(m, h, d)
    BY <1>2 DEF SetPosition
  <2>2. Present(m.boxes[h].value[d]) /\ m.boxes[h].value[d] \in Optional(DotValue)
    BY <1>1, <2>1, DotOfBox DEF HasDot
  <2>3. o \in Optional(DotValue)
    BY <2>2, DotValueChanged
  <2>4. Edit(x, [m EXCEPT !.boxes[h].value[d] = o])
    BY <1>2 DEF SetPosition
  <2>5. [m EXCEPT !.boxes[h].value[d] = o] \in Model
    BY <1>1, <2>1, <2>3, DotOfBox, DotReplaced
  <2> QED BY <2>4, <2>5, EditTyped
<1>3. ASSUME NEW h \in Boxes, NEW d \in Dots, NEW v \in Values, SetAttributes(x, h, d, v)
      PROVE  MergeTypeOK'
  <2> DEFINE o == [m.boxes[h].value[d] EXCEPT !.value.attributes = v]
  <2>1. HasDot(m, h, d)
    BY <1>3 DEF SetAttributes
  <2>2. Present(m.boxes[h].value[d]) /\ m.boxes[h].value[d] \in Optional(DotValue)
    BY <1>1, <2>1, DotOfBox DEF HasDot
  <2>3. o \in Optional(DotValue)
    BY <2>2, DotValueChanged
  <2>4. Edit(x, [m EXCEPT !.boxes[h].value[d] = o])
    BY <1>3 DEF SetAttributes
  <2>5. [m EXCEPT !.boxes[h].value[d] = o] \in Model
    BY <1>1, <2>1, <2>3, DotOfBox, DotReplaced
  <2> QED BY <2>4, <2>5, EditTyped
<1>4. ASSUME NEW h \in Boxes, NEW k \in Boxes, NEW d \in Dots, MoveDot(x, h, k, d)
      PROVE  MergeTypeOK'
  <2> DEFINE o == Live(m.boxes[h].value[d].value)
             taken == [m EXCEPT !.boxes[h].value[d] = Absent]
  <2>1. HasDot(m, h, d) /\ Present(m.boxes[k]) /\ ~HasDot(m, k, d)
    BY <1>4 DEF MoveDot
  <2>2. o \in Optional(DotValue) /\ Absent \in Optional(DotValue)
    BY <1>1, <2>1, DotOfBox, TaggedIsOptional, AbsentIsOptional
  <2>3. taken \in Model
    BY <1>1, <2>1, <2>2, DotOfBox, DotReplaced
  <2>4. h # k /\ taken.boxes[k] = m.boxes[k]
    BY <1>1, <2>1 DEF Model
  <2>5. [taken EXCEPT !.boxes[k].value[d] = o] \in Model
    BY <2>1, <2>2, <2>3, <2>4, DotReplaced
  <2>6. Edit(x, [taken EXCEPT !.boxes[k].value[d] = o])
    BY <1>4 DEF MoveDot
  <2> QED BY <2>5, <2>6, EditTyped
<1>5. ASSUME NEW h \in Boxes, NEW d \in Dots, DeleteDot(x, h, d)
      PROVE  MergeTypeOK'
  <2> DEFINE taken == [m EXCEPT !.boxes[h].value[d] = Absent]
             left == [taken EXCEPT !.edges = [e \in Edges |-> WithoutEnd(@[e], d)]]
  <2>1. HasDot(m, h, d)
    BY <1>5 DEF DeleteDot
  <2>2. taken \in Model
    BY <1>1, <2>1, DotOfBox, AbsentIsOptional, DotReplaced
  <2>3. left \in Model
    BY <2>2, EdgesWithoutEnd
  <2>4. Edit(x, left)
    BY <1>5 DEF DeleteDot
  <2> QED BY <2>3, <2>4, EditTyped
<1>6. ASSUME NEW h \in Boxes, DeleteBox(x, h)
      PROVE  MergeTypeOK'
  <2> DEFINE dots == {d \in Dots : HasDot(m, h, d)}
             taken == [m EXCEPT !.boxes[h] = Absent]
             left == [taken EXCEPT !.edges = [e \in Edges |->
                          IF dots = {} THEN @[e] ELSE WithoutEnd(@[e], CHOOSE d \in dots : TRUE)]]
  <2>1. taken \in Model
    BY <1>1, AbsentIsOptional, BoxReplaced
  <2>2. Edit(x, left)
    BY <1>6 DEF DeleteBox
  <2> HIDE DEF taken, dots
  <2>3. left \in Model
    <3>1. CASE dots = {}
      <4>1. left = [taken EXCEPT !.edges = [e \in Edges |-> taken.edges[e]]]
        BY <3>1
      <4> QED BY <2>1, <4>1 DEF Model
    <3>2. CASE dots # {}
      <4>1. left = [taken EXCEPT !.edges = [e \in Edges |-> WithoutEnd(@[e], CHOOSE d \in dots : TRUE)]]
        BY <3>2
      <4> QED BY <2>1, <4>1, EdgesWithoutEnd
    <3> QED BY <3>1, <3>2
  <2> QED BY <2>2, <2>3, EditTyped
<1>7. ASSUME NEW e \in Edges, DeleteEdge(x, e)
      PROVE  MergeTypeOK'
  <2>1. [m EXCEPT !.edges[e] = Absent] \in Model
    BY <1>1, AbsentIsOptional, EdgeReplaced
  <2>2. Edit(x, [m EXCEPT !.edges[e] = Absent])
    BY <1>7 DEF DeleteEdge
  <2> QED BY <2>1, <2>2, EditTyped
<1>8. ASSUME NEW e \in Edges, NEW s \in Dots, NEW t \in Dots, Connect(x, e, s, t) \/ Reconnect(x, e, s, t)
      PROVE  MergeTypeOK'
  <2>1. [src |-> {s}, tgt |-> {t}] \in EdgeValue
    BY DEF EdgeValue
  <2>2. [m EXCEPT !.edges[e] = Live([src |-> {s}, tgt |-> {t}])] \in Model
    BY <1>1, <2>1, TaggedIsOptional, EdgeReplaced
  <2>3. Edit(x, [m EXCEPT !.edges[e] = Live([src |-> {s}, tgt |-> {t}])])
    BY <1>8 DEF Connect, Reconnect
  <2> QED BY <2>2, <2>3, EditTyped
<1>9. ASSUME NEW e \in Edges, NEW d \in Dots, ChooseEnd(x, e, d)
      PROVE  MergeTypeOK'
  <2> DEFINE o == m.edges[e]
  <2>1. Present(o) /\ o \in Optional(EdgeValue)
    BY <1>1, <1>9 DEF ChooseEnd, Model
  <2>2. [o EXCEPT !.value.src = {d}] \in Optional(EdgeValue)
        /\ [o EXCEPT !.value.tgt = {d}] \in Optional(EdgeValue)
    BY <2>1, EndChosen
  <2>3. \/ Edit(x, [m EXCEPT !.edges[e] = [o EXCEPT !.value.src = {d}]])
        \/ Edit(x, [m EXCEPT !.edges[e] = [o EXCEPT !.value.tgt = {d}]])
    BY <1>9 DEF ChooseEnd
  <2> HIDE DEF o
  <2>4. /\ [m EXCEPT !.edges[e] = [o EXCEPT !.value.src = {d}]] \in Model
        /\ [m EXCEPT !.edges[e] = [o EXCEPT !.value.tgt = {d}]] \in Model
    BY <1>1, <2>2, EdgeReplaced
  <2> QED BY <2>3, <2>4, EditTyped
<1>10. CASE Restore(x)
  <2>1. ASSUME NEW V, NEW o \in Optional(V), IsGhost(o)
        PROVE  [o EXCEPT !.tag = "live"] \in Optional(V)
    BY <2>1 DEF Optional, IsGhost, Absent
  <2>2. ASSUME NEW h \in Boxes, IsGhost(m.boxes[h]),
               Edit(x, [m EXCEPT !.boxes[h].tag = "live"])
        PROVE  MergeTypeOK'
    <3>1. [m.boxes[h] EXCEPT !.tag = "live"] \in Optional(BoxValue)
      BY <1>1, <2>1, <2>2 DEF Model
    <3>2. [m EXCEPT !.boxes[h] = [m.boxes[h] EXCEPT !.tag = "live"]] \in Model
      BY <1>1, <3>1, BoxReplaced
    <3> QED BY <2>2, <3>2, EditTyped
  <2>3. ASSUME NEW h \in Boxes, NEW d \in Dots, HasDot(m, h, d), IsGhost(m.boxes[h].value[d]),
               Edit(x, [m EXCEPT !.boxes[h].value[d].tag = "live"])
        PROVE  MergeTypeOK'
    <3>1. [m.boxes[h].value[d] EXCEPT !.tag = "live"] \in Optional(DotValue)
      BY <1>1, <2>1, <2>3, DotOfBox
    <3>2. [m EXCEPT !.boxes[h].value[d] = [m.boxes[h].value[d] EXCEPT !.tag = "live"]] \in Model
      BY <1>1, <2>3, <3>1, DotOfBox, DotReplaced
    <3> QED BY <2>3, <3>2, EditTyped
  <2>4. ASSUME NEW e \in Edges, IsGhost(m.edges[e]),
               Edit(x, [m EXCEPT !.edges[e].tag = "live"])
        PROVE  MergeTypeOK'
    <3>1. [m.edges[e] EXCEPT !.tag = "live"] \in Optional(EdgeValue)
      BY <1>1, <2>1, <2>4 DEF Model
    <3>2. [m EXCEPT !.edges[e] = [m.edges[e] EXCEPT !.tag = "live"]] \in Model
      BY <1>1, <3>1, EdgeReplaced
    <3> QED BY <2>4, <3>2, EditTyped
  <2> QED BY <1>10, <2>2, <2>3, <2>4 DEF Restore
<1> QED BY <1>2, <1>3, <1>4, <1>5, <1>6, <1>7, <1>8, <1>9, <1>10 DEF EditOn

-----------------------------------------------------------------------------
(* Merges. *)

LEMMA OtherIsBranch ==
    ASSUME NEW x \in Branches
    PROVE  Other(x) \in Branches
BY DEF Other, Branches

LEMMA MergeKeepsType ==
    ASSUME MergeTypeOK, NEW x \in Branches, Merge(x)
    PROVE  MergeTypeOK'
<1> DEFINE y == Other(x)
           result == graphMerger(ancestor, branch[x], branch[y])
<1>1. y \in Branches /\ ancestor \in Model /\ branch[x] \in Model /\ branch[y] \in Model
  BY OtherIsBranch DEF MergeTypeOK
<1>2. exit' = exitCode(result) /\ exitCode(result) \in 0 .. 2 /\ edits' = edits
  BY DEF Merge, exitCode
<1>3. CASE exit' = 0
  <2>1. branch' = [branch EXCEPT ![x] = result.value] /\ ancestor' = branch[y]
    BY <1>3 DEF Merge
  <2>2. ~result.eager /\ ~result.threw
    BY <1>2, <1>3 DEF exitCode
  <2>3. result.value \in Model
    BY <1>1, <2>2, GraphMergerTyped
  <2> HIDE DEF result, y
  <2> QED BY <1>1, <1>2, <2>1, <2>3 DEF MergeTypeOK
<1>4. CASE exit' # 0
  <2>1. UNCHANGED <<ancestor, branch>>
    BY <1>4 DEF Merge
  <2> HIDE DEF result
  <2> QED BY <1>2, <2>1 DEF MergeTypeOK
<1> QED BY <1>3, <1>4

(* Whatever is edited and merged, in whatever order, ancestor and branches  *)
(* are models: an eager conflict's record never gets into a branch.         *)
THEOREM MergeTyped == MergeSpec => []MergeTypeOK
<1>1. MergeInit => MergeTypeOK
  BY MergeAssumption DEF MergeInit, MergeTypeOK
<1>2. MergeTypeOK /\ [MergeNext]_mergeVars => MergeTypeOK'
  <2> SUFFICES ASSUME MergeTypeOK, [MergeNext]_mergeVars
               PROVE  MergeTypeOK'
    OBVIOUS
  <2>1. ASSUME NEW x \in Branches, EditOn(x)
        PROVE  MergeTypeOK'
    BY <2>1, EditOnTyped
  <2>2. ASSUME NEW x \in Branches, Merge(x)
        PROVE  MergeTypeOK'
    BY <2>2, MergeKeepsType
  <2>3. ASSUME NEW x \in Branches, FastForward(x)
        PROVE  MergeTypeOK'
    BY <2>3, OtherIsBranch DEF FastForward, MergeTypeOK
  <2>4. CASE MergeOfEquals
    BY <2>4 DEF MergeOfEquals, MergeTypeOK, Branches
  <2>5. CASE UNCHANGED mergeVars
    BY <2>5 DEF mergeVars, MergeTypeOK
  <2> QED BY <2>1, <2>2, <2>3, <2>4, <2>5 DEF MergeNext
<1> QED BY <1>1, <1>2, PTL DEF MergeSpec

-----------------------------------------------------------------------------
(* Symmetry: a merger that does not look at the side a version is from.     *)

LEMMA OptionalMergerSymmetric ==
    ASSUME NEW m1, NEW m2, NEW anc, NEW a, NEW b,
           Present(anc) /\ Present(a) /\ Present(b) => m1 = m2
    PROVE  optionalMerger(m1, anc, a, b) = optionalMerger(m2, anc, b, a)
<1>1. CASE a = anc \/ b = anc
  BY <1>1 DEF optionalMerger
<1>2. CASE a # anc /\ b # anc /\ ~(Present(anc) /\ Present(a) /\ Present(b))
  BY <1>2 DEF optionalMerger
<1>3. CASE a # anc /\ b # anc /\ Present(anc) /\ Present(a) /\ Present(b)
  BY <1>3 DEF optionalMerger
<1> QED BY <1>1, <1>2, <1>3

LEMMA FieldMergerSymmetric ==
    ASSUME NEW m, NEW anc, NEW a, NEW b
    PROVE  fieldMerger(m, anc, a, b) = fieldMerger(m, anc, b, a)
BY DEF fieldMerger

LEMMA CellMergerSymmetric ==
    ASSUME NEW anc, NEW a, NEW b
    PROVE  cellMerger(anc, a, b) = cellMerger(anc, b, a)
<1>1. a \union b = b \union a /\ anc \intersect a \intersect b = anc \intersect b \intersect a
  OBVIOUS
<1> QED BY <1>1 DEF cellMerger

LEMMA DotMergerSymmetric ==
    ASSUME NEW anc \in DotValue, NEW a \in DotValue, NEW b \in DotValue
    PROVE  dotMerger(anc, a, b) = dotMerger(anc, b, a)
<1>1. a.position \in Nat /\ b.position \in Nat
  BY ValuesAreNumbers DEF DotValue
<1>2. (IF a.position <= b.position THEN a.position ELSE b.position)
          = (IF b.position <= a.position THEN b.position ELSE a.position)
  BY <1>1
<1>3. arbitraryMerger(anc.position, a.position, b.position)
          = arbitraryMerger(anc.position, b.position, a.position)
  BY <1>2 DEF arbitraryMerger
<1>4. eagerMerger(anc.attributes, a.attributes, b.attributes)
          = eagerMerger(anc.attributes, b.attributes, a.attributes)
  BY DEF eagerMerger
<1> QED BY <1>3, <1>4, FieldMergerSymmetric DEF dotMerger

LEMMA EdgeMergerSymmetric ==
    ASSUME NEW anc, NEW a, NEW b
    PROVE  edgeMerger(anc, a, b) = edgeMerger(anc, b, a)
BY CellMergerSymmetric, FieldMergerSymmetric DEF edgeMerger

LEMMA BoxMergerSymmetric ==
    ASSUME NEW anc \in BoxValue, NEW a \in BoxValue, NEW b \in BoxValue
    PROVE  boxMerger(anc, a, b) = boxMerger(anc, b, a)
<1>1. ASSUME NEW d \in Dots
      PROVE  dotEntryMerger(anc[d], a[d], b[d]) = dotEntryMerger(anc[d], b[d], a[d])
  <2>1. anc[d] \in Optional(DotValue) /\ a[d] \in Optional(DotValue) /\ b[d] \in Optional(DotValue)
    BY DEF BoxValue
  <2>2. Present(anc[d]) /\ Present(a[d]) /\ Present(b[d])
            => dotMerger(anc[d].value, a[d].value, b[d].value) = dotMerger(anc[d].value, b[d].value, a[d].value)
    BY <2>1, PresentIsTagged, DotMergerSymmetric
  <2> QED BY <2>2, OptionalMergerSymmetric DEF dotEntryMerger
<1>2. [d \in Dots |-> dotEntryMerger(anc[d], a[d], b[d])]
          = [d \in Dots |-> dotEntryMerger(anc[d], b[d], a[d])]
  BY <1>1
<1> QED BY <1>2 DEF boxMerger

LEMMA GraphMergerSymmetric ==
    ASSUME NEW anc \in Model, NEW a \in Model, NEW b \in Model
    PROVE  graphMerger(anc, a, b) = graphMerger(anc, b, a)
<1>1. ASSUME NEW h \in Boxes
      PROVE  boxEntryMerger(anc.boxes[h], a.boxes[h], b.boxes[h])
                 = boxEntryMerger(anc.boxes[h], b.boxes[h], a.boxes[h])
  <2>1. /\ anc.boxes[h] \in Optional(BoxValue)
        /\ a.boxes[h] \in Optional(BoxValue) /\ b.boxes[h] \in Optional(BoxValue)
    BY DEF Model
  <2>2. Present(anc.boxes[h]) /\ Present(a.boxes[h]) /\ Present(b.boxes[h])
            => boxMerger(anc.boxes[h].value, a.boxes[h].value, b.boxes[h].value)
                   = boxMerger(anc.boxes[h].value, b.boxes[h].value, a.boxes[h].value)
    BY <2>1, PresentIsTagged, BoxMergerSymmetric
  <2> QED BY <2>2, OptionalMergerSymmetric DEF boxEntryMerger
<1>2. ASSUME NEW e \in Edges
      PROVE  edgeEntryMerger(anc.edges[e], a.edges[e], b.edges[e])
                 = edgeEntryMerger(anc.edges[e], b.edges[e], a.edges[e])
  BY EdgeMergerSymmetric, OptionalMergerSymmetric DEF edgeEntryMerger
<1>3. BoxResults(anc, a, b) = BoxResults(anc, b, a) /\ EdgeResults(anc, a, b) = EdgeResults(anc, b, a)
  BY <1>1, <1>2 DEF BoxResults, EdgeResults
<1> QED BY <1>3 DEF graphMerger, BoxResults, EdgeResults

(* Two users who merge each other's branches get the same model with the    *)
(* same conflicts, whatever their branches and the commit they share are.   *)
THEOREM MergeSymmetric == MergeSpec => []MergeIsSymmetric
<1>1. MergeTypeOK => MergeIsSymmetric
  BY GraphMergerSymmetric DEF MergeTypeOK, MergeIsSymmetric, Result, Branches
<1> QED BY <1>1, MergeTyped, PTL

-----------------------------------------------------------------------------
(* What the merger of an entry and the merger of an end may return.         *)

LEMMA OptionalMergerCases ==
    ASSUME NEW m, NEW anc, NEW a, NEW b,
           ~optionalMerger(m, anc, a, b).threw
    PROVE  LET r == optionalMerger(m, anc, a, b) IN
           \/ a = anc /\ r = mergeOk(b)
           \/ b = anc /\ r = mergeOk(a)
           \/ ~Present(a) /\ ~Present(b) /\ r = mergeOk(Absent)
           \/ Present(anc) /\ ~Present(a) /\ Present(b) /\ r = mergeLazyConflict(Ghost(b.value))
           \/ Present(anc) /\ Present(a) /\ ~Present(b) /\ r = mergeLazyConflict(Ghost(a.value))
           \/ /\ Present(anc) /\ Present(a) /\ Present(b)
              /\ \/ r = MergeResult(Ghost(m.value), m.eager, TRUE, m.threw)
                 \/ r = MergeResult(Live(m.value), m.eager, m.lazy, m.threw)
<1>1. CASE Present(anc) \/ a = anc \/ b = anc \/ (~Present(a) /\ ~Present(b))
  BY <1>1 DEF optionalMerger
<1>2. CASE ~Present(anc) /\ a # anc /\ b # anc /\ (Present(a) \/ Present(b))
  <2>1. optionalMerger(m, anc, a, b) = MergeResult(Absent, FALSE, FALSE, TRUE)
    BY <1>2 DEF optionalMerger
  <2> QED BY <2>1 DEF MergeResult
<1> QED BY <1>1, <1>2

LEMMA ResultFields ==
    ASSUME NEW v, NEW e, NEW l, NEW t
    PROVE  /\ MergeResult(v, e, l, t).value = v /\ mergeOk(v).value = v /\ mergeLazyConflict(v).value = v
           /\ MergeResult(v, e, l, t).threw = t /\ MergeResult(v, e, l, t).lazy = l
           /\ MergeResult(v, e, TRUE, t).lazy /\ mergeLazyConflict(v).lazy
BY DEF MergeResult, mergeOk, mergeLazyConflict

LEMMA TwoElements ==
    ASSUME NEW S, IsFiniteSet(S), NEW p \in S, NEW q \in S, p # q
    PROVE  Cardinality(S) > 1
<1>1. Cardinality(S) \in Nat /\ Cardinality(S) # 0
  BY FS_CardinalityType, FS_EmptySet
<1>2. Cardinality(S) # 1
  BY FS_Singleton
<1> QED BY <1>1, <1>2

LEMMA DotsAreFinite ==
    ASSUME NEW S \in SUBSET Dots
    PROVE  IsFiniteSet(S) /\ Cardinality(S) \in Nat
BY MergeAssumption, FS_Subset, FS_CardinalityType

(* An end without candidates.                                               *)
LEMMA EndLost ==
    ASSUME NEW o \in SUBSET Dots, NEW x \in SUBSET Dots, NEW y \in SUBSET Dots,
           fieldMerger(cellMerger(o, x, y), o, x, y).value = {}
    PROVE  x = {} \/ y = {} \/ (Cardinality(o) > 1 /\ x \intersect y = {})
<1>1. CASE x = o
  BY <1>1, ResultFields DEF fieldMerger
<1>2. CASE x # o /\ y = o
  BY <1>2, ResultFields DEF fieldMerger
<1>3. CASE x # o /\ y # o
  <2>1. fieldMerger(cellMerger(o, x, y), o, x, y) = cellMerger(o, x, y)
    BY <1>3 DEF fieldMerger
  <2>2. cellMerger(o, x, y).value = (o \intersect x \intersect y) \union ((x \union y) \ o)
    BY DEF cellMerger, MergeResult
  <2>3. x \subseteq o /\ y \subseteq o /\ x \intersect y = {}
    BY <2>1, <2>2
  <2>4. CASE x # {} /\ y # {}
    <3>1. PICK p \in x, q \in y : p # q
      BY <2>3, <2>4
    <3> QED BY <2>3, <3>1, DotsAreFinite, TwoElements
  <2> QED BY <2>4
<1> QED BY <1>1, <1>2, <1>3

(* An end with several candidates, and no new conflict.                     *)
LEMMA EndUndecided ==
    ASSUME NEW o \in SUBSET Dots, NEW x \in SUBSET Dots, NEW y \in SUBSET Dots,
           LET r == fieldMerger(cellMerger(o, x, y), o, x, y)
           IN  ~r.lazy /\ Cardinality(r.value) > 1
    PROVE  Cardinality(x) > 1 \/ Cardinality(y) > 1
<1>1. CASE x = o \/ y = o
  BY <1>1, ResultFields DEF fieldMerger
<1>2. CASE x # o /\ y # o
  <2> DEFINE survivors == o \intersect x \intersect y
             offspring == (x \union y) \ o
             merged == survivors \union offspring
             conflict == Cardinality(merged) > 1 /\ offspring # {}
             r == fieldMerger(cellMerger(o, x, y), o, x, y)
  <2>1. r = MergeResult(merged, FALSE, conflict, FALSE)
    BY <1>2 DEF fieldMerger, cellMerger
  <2> HIDE DEF r, merged, conflict
  <2>2. r.value = merged /\ (r.lazy <=> conflict)
    BY <2>1 DEF MergeResult
  <2> USE DEF r, merged, conflict
  <2>3. Cardinality(merged) > 1 /\ merged \subseteq x
    BY <2>2
  <2>4. Cardinality(merged) <= Cardinality(x) /\ Cardinality(x) \in Nat /\ Cardinality(merged) \in Nat
    BY <2>3, DotsAreFinite, FS_Subset, FS_CardinalityType
  <2> QED BY <2>3, <2>4
<1> QED BY <1>1, <1>2

(* The ends of a merged edge are merged each on its own.                    *)
LEMMA EdgeMergerParts ==
    ASSUME NEW anc, NEW a, NEW b
    PROVE  LET r == edgeMerger(anc, a, b)
               src == fieldMerger(cellMerger(anc.src, a.src, b.src), anc.src, a.src, b.src)
               tgt == fieldMerger(cellMerger(anc.tgt, a.tgt, b.tgt), anc.tgt, a.tgt, b.tgt)
           IN  /\ r.value.src = src.value /\ r.value.tgt = tgt.value
               /\ ~r.lazy => ~src.lazy /\ ~tgt.lazy
<1> DEFINE src == fieldMerger(cellMerger(anc.src, a.src, b.src), anc.src, a.src, b.src)
           tgt == fieldMerger(cellMerger(anc.tgt, a.tgt, b.tgt), anc.tgt, a.tgt, b.tgt)
           parts == [src |-> src, tgt |-> tgt]
<1>1. edgeMerger(anc, a, b) = Combined(parts)
  BY DEF edgeMerger
<1> HIDE DEF src, tgt
<1>2. DOMAIN parts = {"src", "tgt"} /\ parts["src"] = src /\ parts["tgt"] = tgt
  OBVIOUS
<1> HIDE DEF parts
<1>3. /\ Combined(parts).value = [k \in {"src", "tgt"} |-> parts[k].value]
      /\ Combined(parts).lazy = (\E k \in {"src", "tgt"} : parts[k].lazy)
  BY <1>2 DEF Combined
<1>4. Combined(parts).value.src = src.value /\ Combined(parts).value.tgt = tgt.value
  BY <1>2, <1>3
<1>5. ~Combined(parts).lazy => ~src.lazy /\ ~tgt.lazy
  BY <1>2, <1>3
<1> QED BY <1>1, <1>4, <1>5 DEF src, tgt

LEMMA BoxMergerParts ==
    ASSUME NEW anc, NEW a, NEW b, NEW d \in Dots
    PROVE  LET r == boxMerger(anc, a, b)
               p == dotEntryMerger(anc[d], a[d], b[d])
           IN  /\ r.value[d] = p.value
               /\ ~r.lazy => ~p.lazy
               /\ ~r.threw => ~p.threw
<1> DEFINE parts == [k \in Dots |-> dotEntryMerger(anc[k], a[k], b[k])]
<1>1. boxMerger(anc, a, b) = Combined(parts) /\ DOMAIN parts = Dots
      /\ parts[d] = dotEntryMerger(anc[d], a[d], b[d])
  BY DEF boxMerger
<1> HIDE DEF parts
<1>2. /\ Combined(parts).value = [k \in Dots |-> parts[k].value]
      /\ Combined(parts).lazy = (\E k \in Dots : parts[k].lazy)
      /\ Combined(parts).threw = (\E k \in Dots : parts[k].threw)
  BY <1>1 DEF Combined
<1> QED BY <1>1, <1>2

LEMMA PartsOfResult ==
    ASSUME NEW anc, NEW a, NEW b
    PROVE  LET r == graphMerger(anc, a, b) IN
           /\ \A h \in Boxes :
                 LET p == boxEntryMerger(anc.boxes[h], a.boxes[h], b.boxes[h])
                 IN  /\ r.value.boxes[h] = p.value
                     /\ (~r.lazy => ~p.lazy) /\ (~r.threw => ~p.threw)
           /\ \A e \in Edges :
                 LET p == edgeEntryMerger(anc.edges[e], a.edges[e], b.edges[e])
                 IN  /\ r.value.edges[e] = p.value
                     /\ (~r.lazy => ~p.lazy) /\ (~r.threw => ~p.threw)
<1> DEFINE r == graphMerger(anc, a, b)
           boxes == BoxResults(anc, a, b)
           edges == EdgeResults(anc, a, b)
<1>1. /\ \A h \in Boxes : boxes[h] = boxEntryMerger(anc.boxes[h], a.boxes[h], b.boxes[h])
      /\ \A e \in Edges : edges[e] = edgeEntryMerger(anc.edges[e], a.edges[e], b.edges[e])
  BY DEF BoxResults, EdgeResults
<1>2. /\ r.value = [boxes |-> [h \in Boxes |-> boxes[h].value], edges |-> [e \in Edges |-> edges[e].value]]
      /\ r.lazy = ((\E h \in Boxes : boxes[h].lazy) \/ (\E e \in Edges : edges[e].lazy))
      /\ r.threw = ((\E h \in Boxes : boxes[h].threw) \/ (\E e \in Edges : edges[e].threw))
  BY GraphMergerParts
<1> HIDE DEF r, boxes, edges
<1>3. ASSUME NEW h \in Boxes
      PROVE  r.value.boxes[h] = boxes[h].value /\ (~r.lazy => ~boxes[h].lazy) /\ (~r.threw => ~boxes[h].threw)
  <2>1. r.value.boxes[h] = boxes[h].value
    BY <1>2
  <2>2. (~r.lazy => ~boxes[h].lazy) /\ (~r.threw => ~boxes[h].threw)
    BY <1>2, Zenon
  <2> QED BY <2>1, <2>2
<1>4. ASSUME NEW e \in Edges
      PROVE  r.value.edges[e] = edges[e].value /\ (~r.lazy => ~edges[e].lazy) /\ (~r.threw => ~edges[e].threw)
  <2>1. r.value.edges[e] = edges[e].value
    BY <1>2
  <2>2. (~r.lazy => ~edges[e].lazy) /\ (~r.threw => ~edges[e].threw)
    BY <1>2, Zenon
  <2> QED BY <2>1, <2>2
<1> QED BY <1>1, <1>3, <1>4 DEF r

-----------------------------------------------------------------------------
(* The typed state as the facts the theorems below use.                     *)

LEMMA ThreeModels ==
    ASSUME MergeTypeOK
    PROVE  ancestor \in Model /\ branch["a"] \in Model /\ branch["b"] \in Model
BY DEF MergeTypeOK, Branches

LEMMA EdgesOfModel ==
    ASSUME NEW m \in Model, NEW e \in Edges, Present(m.edges[e])
    PROVE  m.edges[e].value.src \in SUBSET Dots /\ m.edges[e].value.tgt \in SUBSET Dots
<1>1. m.edges[e].value \in EdgeValue
  BY PresentIsTagged DEF Model
<1> QED BY <1>1 DEF EdgeValue

LEMMA EndOfEdgeLost ==
    ASSUME NEW anc, NEW a, NEW b, Present(anc), Present(a), Present(b),
           anc.value \in EdgeValue, a.value \in EdgeValue, b.value \in EdgeValue,
           ~edgeEntryMerger(anc, a, b).threw
    PROVE  LET v == edgeEntryMerger(anc, a, b).value.value IN
           /\ v.src = {} => \/ a.value.src = {} \/ b.value.src = {}
                            \/ Cardinality(anc.value.src) > 1 /\ a.value.src \cap b.value.src = {}
           /\ v.tgt = {} => \/ a.value.tgt = {} \/ b.value.tgt = {}
                            \/ Cardinality(anc.value.tgt) > 1 /\ a.value.tgt \cap b.value.tgt = {}
<1> DEFINE m == edgeMerger(anc.value, a.value, b.value)
           r == edgeEntryMerger(anc, a, b)
<1>1. r = optionalMerger(m, anc, a, b)
  BY DEF edgeEntryMerger
<1> HIDE DEF r, m
<1>2. \/ r = mergeOk(b) \/ r = mergeOk(a)
      \/ r = MergeResult(Ghost(m.value), m.eager, TRUE, m.threw)
      \/ r = MergeResult(Live(m.value), m.eager, m.lazy, m.threw)
  BY <1>1, OptionalMergerCases DEF r
<1>3. r.value \in {a, b, Ghost(m.value), Live(m.value)}
  BY <1>2 DEF MergeResult, mergeOk
<1>4. r.value.value \in {a.value, b.value, m.value}
  BY <1>3 DEF Ghost, Live
<1>5. CASE r.value.value = m.value
  <2>1. /\ m.value.src = fieldMerger(cellMerger(anc.value.src, a.value.src, b.value.src),
                                     anc.value.src, a.value.src, b.value.src).value
        /\ m.value.tgt = fieldMerger(cellMerger(anc.value.tgt, a.value.tgt, b.value.tgt),
                                     anc.value.tgt, a.value.tgt, b.value.tgt).value
    BY EdgeMergerParts DEF m
  <2>2. /\ anc.value.src \in SUBSET Dots /\ a.value.src \in SUBSET Dots /\ b.value.src \in SUBSET Dots
        /\ anc.value.tgt \in SUBSET Dots /\ a.value.tgt \in SUBSET Dots /\ b.value.tgt \in SUBSET Dots
    BY DEF EdgeValue
  <2>3. ASSUME m.value.src = {}
        PROVE  \/ a.value.src = {} \/ b.value.src = {}
               \/ Cardinality(anc.value.src) > 1 /\ a.value.src \cap b.value.src = {}
    <3> DEFINE o == anc.value.src
               x == a.value.src
               y == b.value.src
    <3>1. /\ o \in SUBSET Dots /\ x \in SUBSET Dots /\ y \in SUBSET Dots
          /\ fieldMerger(cellMerger(o, x, y), o, x, y).value = {}
      BY <2>1, <2>2, <2>3
    <3> HIDE DEF o, x, y
    <3>2. x = {} \/ y = {} \/ (Cardinality(o) > 1 /\ x \intersect y = {})
      BY <3>1, EndLost
    <3> QED BY <3>2 DEF o, x, y
  <2>4. ASSUME m.value.tgt = {}
        PROVE  \/ a.value.tgt = {} \/ b.value.tgt = {}
               \/ Cardinality(anc.value.tgt) > 1 /\ a.value.tgt \cap b.value.tgt = {}
    <3> DEFINE o == anc.value.tgt
               x == a.value.tgt
               y == b.value.tgt
    <3>1. /\ o \in SUBSET Dots /\ x \in SUBSET Dots /\ y \in SUBSET Dots
          /\ fieldMerger(cellMerger(o, x, y), o, x, y).value = {}
      BY <2>1, <2>2, <2>4
    <3> HIDE DEF o, x, y
    <3>2. x = {} \/ y = {} \/ (Cardinality(o) > 1 /\ x \intersect y = {})
      BY <3>1, EndLost
    <3> QED BY <3>2 DEF o, x, y
  <2> QED BY <1>5, <2>3, <2>4 DEF r
<1> QED BY <1>4, <1>5 DEF r

(* An edge that all have loses an end in a merge only to opposed choices    *)
(* between candidates the shared commit left open.                          *)
THEOREM MergeKeepsEnds == MergeSpec => []EndsAreLostToOpposedChoicesOnly
<1>1. MergeTypeOK => EndsAreLostToOpposedChoicesOnly
  <2> SUFFICES ASSUME MergeTypeOK, ~Result.threw, NEW e \in Edges,
                      Present(ancestor.edges[e]),
                      \A x \in Branches : Present(branch[x].edges[e])
               PROVE  \A i \in 1 .. 2 :
                          <<Result.value.edges[e].value.src, Result.value.edges[e].value.tgt>>[i] = {} =>
                          \/ \E x \in Branches :
                                <<branch[x].edges[e].value.src, branch[x].edges[e].value.tgt>>[i] = {}
                          \/ /\ Cardinality(<<ancestor.edges[e].value.src,
                                               ancestor.edges[e].value.tgt>>[i]) > 1
                             /\ <<branch["a"].edges[e].value.src, branch["a"].edges[e].value.tgt>>[i]
                                \cap <<branch["b"].edges[e].value.src, branch["b"].edges[e].value.tgt>>[i] = {}
    BY DEF EndsAreLostToOpposedChoicesOnly
  <2> DEFINE anc == ancestor.edges[e]
             a == branch["a"].edges[e]
             b == branch["b"].edges[e]
  <2>1. /\ Present(anc) /\ Present(a) /\ Present(b)
        /\ anc.value \in EdgeValue /\ a.value \in EdgeValue /\ b.value \in EdgeValue
    BY ThreeModels, PresentIsTagged DEF Model, Branches
  <2>2. /\ Result.value.edges[e] = edgeEntryMerger(anc, a, b).value
        /\ ~edgeEntryMerger(anc, a, b).threw
    BY PartsOfResult DEF Result
  <2>3. LET v == Result.value.edges[e].value IN
        /\ v.src = {} => \/ a.value.src = {} \/ b.value.src = {}
                         \/ Cardinality(anc.value.src) > 1 /\ a.value.src \cap b.value.src = {}
        /\ v.tgt = {} => \/ a.value.tgt = {} \/ b.value.tgt = {}
                         \/ Cardinality(anc.value.tgt) > 1 /\ a.value.tgt \cap b.value.tgt = {}
    BY <2>1, <2>2, EndOfEdgeLost
  <2> QED BY <2>3 DEF Branches
<1> QED BY <1>1, MergeTyped, PTL

-----------------------------------------------------------------------------
(* A merger that reports no lazy conflict makes no ghost.                   *)
LEMMA OptionalMergerQuietly ==
    ASSUME NEW m, NEW anc, NEW a, NEW b,
           ~optionalMerger(m, anc, a, b).threw, ~optionalMerger(m, anc, a, b).lazy
    PROVE  LET r == optionalMerger(m, anc, a, b) IN
           \/ r.value \in {a, b, Absent}
           \/ /\ Present(anc) /\ Present(a) /\ Present(b)
              /\ r.value = Live(m.value) /\ (~m.lazy /\ ~m.threw)
<1> DEFINE r == optionalMerger(m, anc, a, b)
<1>1. \/ r = mergeOk(b) \/ r = mergeOk(a) \/ r = mergeOk(Absent)
      \/ r = mergeLazyConflict(Ghost(b.value)) \/ r = mergeLazyConflict(Ghost(a.value))
      \/ /\ Present(anc) /\ Present(a) /\ Present(b)
         /\ \/ r = MergeResult(Ghost(m.value), m.eager, TRUE, m.threw)
            \/ r = MergeResult(Live(m.value), m.eager, m.lazy, m.threw)
  BY OptionalMergerCases
<1> HIDE DEF r
<1>2. ~r.threw /\ ~r.lazy
  BY DEF r
<1>3. r = mergeOk(b) \/ r = mergeOk(a) \/ r = mergeOk(Absent) => r.value \in {a, b, Absent}
  BY DEF mergeOk, MergeResult
<1>4. ~mergeLazyConflict(Ghost(b.value)).lazy => FALSE
  BY DEF mergeLazyConflict, MergeResult
<1>5. ~mergeLazyConflict(Ghost(a.value)).lazy => FALSE
  BY DEF mergeLazyConflict, MergeResult
<1>6. ~MergeResult(Ghost(m.value), m.eager, TRUE, m.threw).lazy => FALSE
  BY DEF MergeResult
<1>7. CASE /\ Present(anc) /\ Present(a) /\ Present(b)
           /\ r = MergeResult(Live(m.value), m.eager, m.lazy, m.threw)
  BY <1>2, <1>7 DEF r, MergeResult
<1> QED BY <1>1, <1>2, <1>3, <1>4, <1>5, <1>6, <1>7 DEF r

LEMMA UndecidedEdge ==
    ASSUME NEW o \in Optional(EdgeValue), Present(o),
           IsGhost(o) \/ Cardinality(o.value.src) > 1 \/ Cardinality(o.value.tgt) > 1
    PROVE  InConflict(o)
<1>1. CASE IsGhost(o)
  BY <1>1 DEF InConflict
<1>2. CASE Cardinality(o.value.src) > 1 \/ Cardinality(o.value.tgt) > 1
  BY <1>2 DEF InConflict, Decided
<1> QED BY <1>1, <1>2

LEMMA EdgeConflictReported ==
    ASSUME NEW anc \in Optional(EdgeValue), NEW a \in Optional(EdgeValue), NEW b \in Optional(EdgeValue),
           ~edgeEntryMerger(anc, a, b).threw, ~edgeEntryMerger(anc, a, b).lazy,
           LET o == edgeEntryMerger(anc, a, b).value
           IN  IsGhost(o) \/ (Present(o) /\ (Cardinality(o.value.src) > 1 \/ Cardinality(o.value.tgt) > 1))
    PROVE  InConflict(a) \/ InConflict(b)
<1> DEFINE m == edgeMerger(anc.value, a.value, b.value)
           o == edgeEntryMerger(anc, a, b).value
<1>1. \/ o \in {a, b, Absent}
      \/ /\ Present(anc) /\ Present(a) /\ Present(b)
         /\ o = Live(m.value) /\ (~m.lazy /\ ~m.threw)
  BY OptionalMergerQuietly DEF edgeEntryMerger
<1>2. IsGhost(o) \/ (Present(o) /\ (Cardinality(o.value.src) > 1 \/ Cardinality(o.value.tgt) > 1))
  OBVIOUS
<1> HIDE DEF o
<1>3. Present(o)
  BY <1>2 DEF IsGhost, Present, Absent
<1>4. CASE o \in {a, b, Absent}
  BY <1>2, <1>3, <1>4, UndecidedEdge DEF Present
<1>5. CASE Present(anc) /\ Present(a) /\ Present(b) /\ o = Live(m.value) /\ (~m.lazy /\ ~m.threw)
  <2>1. anc.value \in EdgeValue /\ a.value \in EdgeValue /\ b.value \in EdgeValue
    BY <1>5, PresentIsTagged
  <2>2. Cardinality(m.value.src) > 1 \/ Cardinality(m.value.tgt) > 1
    <3> HIDE DEF m
    <3> QED BY <1>2, <1>5 DEF Live, IsGhost
  <2>3. ASSUME Cardinality(m.value.src) > 1
        PROVE  Cardinality(a.value.src) > 1 \/ Cardinality(b.value.src) > 1
    <3> DEFINE z == anc.value.src
               x == a.value.src
               y == b.value.src
               r == fieldMerger(cellMerger(z, x, y), z, x, y)
    <3>1. z \in SUBSET Dots /\ x \in SUBSET Dots /\ y \in SUBSET Dots
      BY <2>1 DEF EdgeValue
    <3>2. ~r.lazy /\ Cardinality(r.value) > 1
      BY <1>5, <2>3, EdgeMergerParts
    <3> HIDE DEF x, y, z
    <3>3. Cardinality(x) > 1 \/ Cardinality(y) > 1
      BY <3>1, <3>2, EndUndecided
    <3> QED BY <3>3 DEF x, y
  <2>4. ASSUME Cardinality(m.value.tgt) > 1
        PROVE  Cardinality(a.value.tgt) > 1 \/ Cardinality(b.value.tgt) > 1
    <3> DEFINE z == anc.value.tgt
               x == a.value.tgt
               y == b.value.tgt
               r == fieldMerger(cellMerger(z, x, y), z, x, y)
    <3>1. z \in SUBSET Dots /\ x \in SUBSET Dots /\ y \in SUBSET Dots
      BY <2>1 DEF EdgeValue
    <3>2. ~r.lazy /\ Cardinality(r.value) > 1
      BY <1>5, <2>4, EdgeMergerParts
    <3> HIDE DEF x, y, z
    <3>3. Cardinality(x) > 1 \/ Cardinality(y) > 1
      BY <3>1, <3>2, EndUndecided
    <3> QED BY <3>3 DEF x, y
  <2> QED BY <1>5, <2>2, <2>3, <2>4, UndecidedEdge
<1> QED BY <1>1, <1>4, <1>5

LEMMA BoxGhostReported ==
    ASSUME NEW anc, NEW a, NEW b,
           ~boxEntryMerger(anc, a, b).threw, ~boxEntryMerger(anc, a, b).lazy,
           IsGhost(boxEntryMerger(anc, a, b).value)
    PROVE  IsGhost(a) \/ IsGhost(b)
<1> DEFINE m == boxMerger(anc.value, a.value, b.value)
           o == boxEntryMerger(anc, a, b).value
<1>1. o \in {a, b, Absent} \/ o = Live(m.value)
  BY OptionalMergerQuietly DEF boxEntryMerger
<1> HIDE DEF m, o
<1>2. IsGhost(o)
  BY DEF o
<1> QED BY <1>1, <1>2 DEF IsGhost, Absent, Live

LEMMA DotGhostReported ==
    ASSUME NEW anc, NEW a, NEW b,
           ~dotEntryMerger(anc, a, b).threw, ~dotEntryMerger(anc, a, b).lazy,
           IsGhost(dotEntryMerger(anc, a, b).value)
    PROVE  (Present(a) /\ IsGhost(a)) \/ (Present(b) /\ IsGhost(b))
<1> DEFINE m == dotMerger(anc.value, a.value, b.value)
           o == dotEntryMerger(anc, a, b).value
<1>1. o \in {a, b, Absent} \/ o = Live(m.value)
  BY OptionalMergerQuietly DEF dotEntryMerger
<1> HIDE DEF m, o
<1>2. IsGhost(o)
  BY DEF o
<1> QED BY <1>1, <1>2 DEF IsGhost, Absent, Live, Present

LEMMA DotOfBoxGhostReported ==
    ASSUME NEW anc, NEW a, NEW b, NEW d \in Dots,
           ~boxEntryMerger(anc, a, b).threw, ~boxEntryMerger(anc, a, b).lazy,
           LET o == boxEntryMerger(anc, a, b).value
           IN  Present(o) /\ Present(o.value[d]) /\ IsGhost(o.value[d])
    PROVE  \/ Present(a) /\ Present(a.value[d]) /\ IsGhost(a.value[d])
           \/ Present(b) /\ Present(b.value[d]) /\ IsGhost(b.value[d])
<1> DEFINE m == boxMerger(anc.value, a.value, b.value)
           o == boxEntryMerger(anc, a, b).value
<1>1. \/ o \in {a, b, Absent}
      \/ Present(a) /\ Present(b) /\ o = Live(m.value) /\ (~m.lazy /\ ~m.threw)
  BY OptionalMergerQuietly DEF boxEntryMerger
<1>2. CASE o \in {a, b, Absent}
  <2> HIDE DEF o
  <2>1. Present(o) /\ Present(o.value[d]) /\ IsGhost(o.value[d])
    BY DEF o
  <2> QED BY <1>2, <2>1 DEF Present
<1>3. CASE Present(a) /\ Present(b) /\ o = Live(m.value) /\ (~m.lazy /\ ~m.threw)
  <2> DEFINE p == dotEntryMerger(anc.value[d], a.value[d], b.value[d])
  <2>1. o.value = m.value
    <3> HIDE DEF m, o
    <3> QED BY <1>3 DEF Live
  <2>2. m.value[d] = p.value /\ ~p.lazy /\ ~p.threw
    <3>1. m.value[d] = p.value /\ (~m.lazy => ~p.lazy) /\ (~m.threw => ~p.threw)
      BY BoxMergerParts
    <3> HIDE DEF m, p
    <3> QED BY <1>3, <3>1, Zenon
  <2>3. IsGhost(p.value)
    <3>1. IsGhost(o.value[d])
      OBVIOUS
    <3> HIDE DEF o, m, p
    <3> QED BY <2>1, <2>2, <3>1
  <2> QED BY <1>3, <2>2, <2>3, DotGhostReported
<1> QED BY <1>1, <1>2, <1>3

(* A merge without flags leaves only the conflicts a branch had before.     *)
THEOREM ConflictsReported == MergeSpec => []ConflictsAreReported
<1>1. MergeTypeOK => ConflictsAreReported
  <2> SUFFICES ASSUME MergeTypeOK, ~(Result.eager \/ Result.lazy \/ Result.threw)
               PROVE  /\ \A e \in Edges :
                            LET o == Result.value.edges[e]
                            IN  IsGhost(o) \/ (Present(o) /\ (Cardinality(o.value.src) > 1
                                                            \/ Cardinality(o.value.tgt) > 1))
                                  => \E x \in Branches : InConflict(branch[x].edges[e])
                      /\ \A h \in Boxes : IsGhost(Result.value.boxes[h])
                                            => \E x \in Branches : IsGhost(branch[x].boxes[h])
                      /\ \A h \in Boxes, d \in Dots :
                            HasDot(Result.value, h, d) /\ IsGhost(Result.value.boxes[h].value[d])
                              => \E x \in Branches : HasDot(branch[x], h, d)
                                                     /\ IsGhost(branch[x].boxes[h].value[d])
    BY DEF ConflictsAreReported
  <2>1. ASSUME NEW e \in Edges,
               LET o == Result.value.edges[e]
               IN  IsGhost(o) \/ (Present(o) /\ (Cardinality(o.value.src) > 1
                                               \/ Cardinality(o.value.tgt) > 1))
        PROVE  \E x \in Branches : InConflict(branch[x].edges[e])
    <3> DEFINE anc == ancestor.edges[e]
               a == branch["a"].edges[e]
               b == branch["b"].edges[e]
    <3>1. anc \in Optional(EdgeValue) /\ a \in Optional(EdgeValue) /\ b \in Optional(EdgeValue)
      BY ThreeModels DEF Model
    <3>2. /\ Result.value.edges[e] = edgeEntryMerger(anc, a, b).value
          /\ ~edgeEntryMerger(anc, a, b).threw /\ ~edgeEntryMerger(anc, a, b).lazy
      BY PartsOfResult DEF Result
    <3>3. InConflict(a) \/ InConflict(b)
      BY <2>1, <3>1, <3>2, EdgeConflictReported
    <3> QED BY <3>3 DEF Branches
  <2>2. ASSUME NEW h \in Boxes, IsGhost(Result.value.boxes[h])
        PROVE  \E x \in Branches : IsGhost(branch[x].boxes[h])
    <3> DEFINE anc == ancestor.boxes[h]
               a == branch["a"].boxes[h]
               b == branch["b"].boxes[h]
    <3>1. /\ Result.value.boxes[h] = boxEntryMerger(anc, a, b).value
          /\ ~boxEntryMerger(anc, a, b).threw /\ ~boxEntryMerger(anc, a, b).lazy
      BY PartsOfResult DEF Result
    <3>2. IsGhost(a) \/ IsGhost(b)
      BY <2>2, <3>1, BoxGhostReported
    <3> QED BY <3>2 DEF Branches
  <2>3. ASSUME NEW h \in Boxes, NEW d \in Dots,
               HasDot(Result.value, h, d), IsGhost(Result.value.boxes[h].value[d])
        PROVE  \E x \in Branches : HasDot(branch[x], h, d) /\ IsGhost(branch[x].boxes[h].value[d])
    <3> DEFINE anc == ancestor.boxes[h]
               a == branch["a"].boxes[h]
               b == branch["b"].boxes[h]
    <3>1. /\ Result.value.boxes[h] = boxEntryMerger(anc, a, b).value
          /\ ~boxEntryMerger(anc, a, b).threw /\ ~boxEntryMerger(anc, a, b).lazy
      BY PartsOfResult DEF Result
    <3>2. \/ Present(a) /\ Present(a.value[d]) /\ IsGhost(a.value[d])
          \/ Present(b) /\ Present(b.value[d]) /\ IsGhost(b.value[d])
      BY <2>3, <3>1, DotOfBoxGhostReported DEF HasDot
    <3> QED BY <3>2 DEF HasDot, Branches
  <2> QED BY <2>1, <2>2, <2>3
<1> QED BY <1>1, MergeTyped, PTL

-----------------------------------------------------------------------------
(* What both sides have, and what is new on a side, is in the outcome.      *)

LEMMA AgreedEntrySurvives ==
    ASSUME NEW m, NEW anc, NEW a, NEW b,
           ~optionalMerger(m, anc, a, b).threw, Present(a), Present(b)
    PROVE  Present(optionalMerger(m, anc, a, b).value)
<1> DEFINE r == optionalMerger(m, anc, a, b)
<1>1. \/ r = mergeOk(b) \/ r = mergeOk(a)
      \/ r = MergeResult(Ghost(m.value), m.eager, TRUE, m.threw)
      \/ r = MergeResult(Live(m.value), m.eager, m.lazy, m.threw)
  BY OptionalMergerCases
<1> HIDE DEF r
<1>2. r.value \in {a, b, Ghost(m.value), Live(m.value)}
  BY <1>1 DEF mergeOk, MergeResult
<1>3. Present(r.value)
  BY <1>2 DEF Present, Ghost, Live, Absent
<1> QED BY <1>3 DEF r

LEMMA NewEntrySurvives ==
    ASSUME NEW m, NEW anc, NEW a, NEW b,
           ~optionalMerger(m, anc, a, b).threw, ~Present(anc), Present(a) \/ Present(b)
    PROVE  Present(optionalMerger(m, anc, a, b).value)
<1>1. \/ a = anc /\ optionalMerger(m, anc, a, b) = mergeOk(b)
      \/ b = anc /\ optionalMerger(m, anc, a, b) = mergeOk(a)
  BY OptionalMergerCases
<1>2. mergeOk(a).value = a /\ mergeOk(b).value = b
  BY DEF mergeOk, MergeResult
<1> QED BY <1>1, <1>2

(* The merged box, if one side has a dot the ancestor had not there, or both*)
(* sides have the dot.                                                      *)
HasDotIn(o, d) == Present(o) /\ Present(o.value[d])

LEMMA DotOfBoxSurvives ==
    ASSUME NEW anc, NEW a, NEW b, NEW d \in Dots,
           ~boxEntryMerger(anc, a, b).threw,
           \/ HasDotIn(a, d) /\ HasDotIn(b, d)
           \/ ~HasDotIn(anc, d) /\ (HasDotIn(a, d) \/ HasDotIn(b, d))
    PROVE  HasDotIn(boxEntryMerger(anc, a, b).value, d)
<1> DEFINE m == boxMerger(anc.value, a.value, b.value)
           r == boxEntryMerger(anc, a, b)
           p == dotEntryMerger(anc.value[d], a.value[d], b.value[d])
<1>1. \/ a = anc /\ r = mergeOk(b)
      \/ b = anc /\ r = mergeOk(a)
      \/ ~Present(a) /\ ~Present(b) /\ r = mergeOk(Absent)
      \/ Present(anc) /\ ~Present(a) /\ Present(b) /\ r = mergeLazyConflict(Ghost(b.value))
      \/ Present(anc) /\ Present(a) /\ ~Present(b) /\ r = mergeLazyConflict(Ghost(a.value))
      \/ /\ Present(anc) /\ Present(a) /\ Present(b)
         /\ \/ r = MergeResult(Ghost(m.value), m.eager, TRUE, m.threw)
            \/ r = MergeResult(Live(m.value), m.eager, m.lazy, m.threw)
  BY OptionalMergerCases DEF boxEntryMerger
<1>2. m.value[d] = p.value /\ (~m.threw => ~p.threw)
  <2>1. ASSUME NEW x, NEW y, NEW z
        PROVE  /\ boxMerger(x, y, z).value[d] = dotEntryMerger(x[d], y[d], z[d]).value
               /\ ~boxMerger(x, y, z).threw => ~dotEntryMerger(x[d], y[d], z[d]).threw
    BY BoxMergerParts
  <2> QED BY <2>1
<1>3. ~r.threw
  OBVIOUS
<1>4. /\ HasDotIn(a, d) /\ HasDotIn(b, d) /\ ~p.threw => Present(p.value)
      /\ Present(anc) /\ ~HasDotIn(anc, d) /\ (HasDotIn(a, d) \/ HasDotIn(b, d)) /\ ~p.threw
            => Present(p.value)
  BY AgreedEntrySurvives, NewEntrySurvives DEF HasDotIn, dotEntryMerger
<1> HIDE DEF r, m, p
<1>5. CASE (a = anc /\ r = mergeOk(b)) \/ (b = anc /\ r = mergeOk(a))
  <2>1. (a = anc /\ r.value = b) \/ (b = anc /\ r.value = a)
    BY <1>5 DEF mergeOk, MergeResult
  <2> QED BY <2>1 DEF r
<1>6. CASE ~Present(a) /\ ~Present(b)
  BY <1>6 DEF HasDotIn
<1>7. CASE Present(anc) /\ ~Present(a) /\ Present(b) /\ r = mergeLazyConflict(Ghost(b.value))
  <2>1. r.value = Ghost(b.value) /\ HasDotIn(b, d)
    BY <1>7, ResultFields DEF HasDotIn
  <2> QED BY <2>1 DEF r, HasDotIn, Ghost, Present, Absent
<1>8. CASE Present(anc) /\ Present(a) /\ ~Present(b) /\ r = mergeLazyConflict(Ghost(a.value))
  <2>1. r.value = Ghost(a.value) /\ HasDotIn(a, d)
    BY <1>8, ResultFields DEF HasDotIn
  <2> QED BY <2>1 DEF r, HasDotIn, Ghost, Present, Absent
<1>9. CASE /\ Present(anc) /\ Present(a) /\ Present(b)
           /\ \/ r = MergeResult(Ghost(m.value), m.eager, TRUE, m.threw)
              \/ r = MergeResult(Live(m.value), m.eager, m.lazy, m.threw)
  <2>1. r.value \in {Ghost(m.value), Live(m.value)}
    BY <1>9 DEF MergeResult
  <2>2. ~m.threw
    BY <1>3, <1>9 DEF MergeResult
  <2>3. ~p.threw
    BY <1>2, <2>2
  <2>4. Present(p.value)
    BY <1>4, <1>9, <2>3
  <2>5. Present(r.value) /\ r.value.value = m.value
    BY <2>1 DEF Ghost, Live, Present, Absent
  <2> QED BY <1>2, <2>4, <2>5 DEF HasDotIn, r
<1> QED BY <1>1, <1>5, <1>6, <1>7, <1>8, <1>9

LEMMA UniqueHolder ==
    ASSUME NEW m, Unique(m), NEW d \in Dots,
           NEW h \in HoldersOf(m, d), NEW k \in HoldersOf(m, d)
    PROVE  h = k
<1>1. IsFiniteSet(HoldersOf(m, d))
  BY MergeAssumption, FS_Subset DEF HoldersOf
<1>2. Cardinality(HoldersOf(m, d)) <= 1 /\ Cardinality(HoldersOf(m, d)) \in Nat
  BY <1>1, FS_CardinalityType DEF Unique
<1> QED BY <1>1, <1>2, TwoElements

(* No merge loses what both branches have: an edge, or a dot, wherever each *)
(* side moved it.                                                           *)
THEOREM AgreedSurvive == MergeSpec => []AgreedElementsSurvive
<1>1. AgreedElementsSurvive
  <2>1. ASSUME ~Result.threw, NEW e \in Edges, \A x \in Branches : Present(branch[x].edges[e])
        PROVE  Present(Result.value.edges[e])
    <3> DEFINE anc == ancestor.edges[e]
               a == branch["a"].edges[e]
               b == branch["b"].edges[e]
    <3>1. /\ Result.value.edges[e] = edgeEntryMerger(anc, a, b).value
          /\ ~edgeEntryMerger(anc, a, b).threw
      BY <2>1, PartsOfResult DEF Result
    <3>2. Present(a) /\ Present(b)
      BY <2>1 DEF Branches
    <3>3. Present(edgeEntryMerger(anc, a, b).value)
      BY <3>1, <3>2, AgreedEntrySurvives DEF edgeEntryMerger
    <3> QED BY <3>1, <3>3
  <2>2. ASSUME ~Result.threw, Unique(ancestor), NEW d \in Dots,
               \A x \in Branches : HoldersOf(branch[x], d) # {}
        PROVE  HoldersOf(Result.value, d) # {}
    <3>1. PICK ha \in Boxes, hb \in Boxes : HasDot(branch["a"], ha, d) /\ HasDot(branch["b"], hb, d)
      BY <2>2 DEF HoldersOf, Branches
    <3>2. ASSUME NEW h \in Boxes,
                 \/ HasDot(branch["a"], h, d) /\ HasDot(branch["b"], h, d)
                 \/ /\ ~HasDot(ancestor, h, d)
                    /\ HasDot(branch["a"], h, d) \/ HasDot(branch["b"], h, d)
          PROVE  HoldersOf(Result.value, d) # {}
      <4> DEFINE anc == ancestor.boxes[h]
                 a == branch["a"].boxes[h]
                 b == branch["b"].boxes[h]
      <4>1. /\ Result.value.boxes[h] = boxEntryMerger(anc, a, b).value
            /\ ~boxEntryMerger(anc, a, b).threw
        BY <2>2, PartsOfResult DEF Result
      <4>2. \/ HasDotIn(a, d) /\ HasDotIn(b, d)
            \/ ~HasDotIn(anc, d) /\ (HasDotIn(a, d) \/ HasDotIn(b, d))
        BY <3>2 DEF HasDot, HasDotIn
      <4>3. HasDotIn(Result.value.boxes[h], d)
        BY <4>1, <4>2, DotOfBoxSurvives
      <4> QED BY <4>3 DEF HasDotIn, HasDot, HoldersOf
    <3>3. CASE HasDot(ancestor, ha, d) /\ HasDot(ancestor, hb, d)
      <4>1. ha = hb
        BY <2>2, <3>3, UniqueHolder DEF HoldersOf
      <4> QED BY <3>1, <3>2, <4>1
    <3>4. CASE ~HasDot(ancestor, ha, d) \/ ~HasDot(ancestor, hb, d)
      BY <3>1, <3>2, <3>4
    <3> QED BY <3>3, <3>4
  <2> QED BY <2>1, <2>2 DEF AgreedElementsSurvive
<1> QED BY <1>1, PTL
================================================================================
