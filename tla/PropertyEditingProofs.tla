------------------------- MODULE PropertyEditingProofs -------------------------
(***************************************************************************)
(* Theorems about PropertyEditing, for any number of elements, edits, hooks *)
(* and messages under way: no edit moves a list out of the bounds of its    *)
(* attribute, and a view that was not left behind shows what the model will *)
(* hold.                                                                   *)
(***************************************************************************)
EXTENDS PropertyEditing, WellFoundedInduction, TLAPS

(* What a message can ask for.  An index was one of an entry the widget     *)
(* showed then, which says nothing of the list it arrives at.               *)
Changes ==
    [kind : {"addValue"}]
    \union [kind : {"assignValue"}, index : Nat, value : Values]
    \union [kind : {"deleteValue"}, index : Nat]

Messages ==
    [kind : {"requestView", "applyLabelEdit"}, element : Elements]
    \union [kind : {"editProperty"}, element : Elements, change : Changes]

Answers == [element : Elements, values : Seq(Entries), age : Nat]

(* The inductive invariant: what is under way is well formed, so that each  *)
(* list stays a list.                                                       *)
PropertyTyped ==
    /\ model \in [Elements -> Seq(Entries) \union {Gone}]
    /\ shown \in Elements \union {NoElement}
    /\ values \in Seq(Entries)
    /\ toServer \in Seq(Messages)
    /\ toClient \in Seq(Answers)
    /\ postUpdateQueue \in SUBSET Elements
    /\ age \in [Elements -> Nat]

(* Taking an entry out of a list leaves a list that is shorter by one.      *)
LEMMA RemoveAtShortens ==
    ASSUME NEW S, NEW list \in Seq(S), NEW i \in 1 .. Len(list)
    PROVE  RemoveAt(list, i) \in Seq(S) /\ Len(RemoveAt(list, i)) = Len(list) - 1
<1> DEFINE before == SubSeq(list, 1, i - 1)
           after == SubSeq(list, i + 1, Len(list))
<1>1. before \in Seq(S) /\ Len(before) = i - 1
    OBVIOUS
<1>2. after \in Seq(S) /\ Len(after) = Len(list) - i
    OBVIOUS
<1>3. RemoveAt(list, i) = before \o after
    BY DEF RemoveAt
<1> HIDE DEF before, after
<1>4. before \o after \in Seq(S) /\ Len(before \o after) = Len(before) + Len(after)
    BY <1>1, <1>2
<1> QED  BY <1>1, <1>2, <1>3, <1>4

(* An edit turns a list of entries into a list of entries.                  *)
LEMMA PerformedIsAList ==
    ASSUME NEW list \in Seq(Entries), NEW change \in Changes
    PROVE  performed(list, change) \in Seq(Entries)
<1>1. CASE change.kind = "addValue"
    BY <1>1, PropertyAssumption DEF performed, Entries
<1>2. CASE change.kind = "assignValue"
    <2>1. change.index \in Nat /\ change.value \in Values
        BY <1>2 DEF Changes
    <2>2. Larger(Len(list), change.index + 1) \in Nat
        BY <2>1 DEF Larger
    <2>3. \A i \in 1 .. Larger(Len(list), change.index + 1) :
            (IF i = change.index + 1 THEN change.value
             ELSE IF i <= Len(list) THEN list[i] ELSE Hole) \in Entries
        BY <2>1, <2>2 DEF Entries
    <2> QED  BY <1>2, <2>2, <2>3 DEF performed
<1>3. CASE change.kind = "deleteValue"
    <2>1. change.index \in Nat
        BY <1>3 DEF Changes
    <2>2. CASE change.index < Len(list)
        BY <1>3, <2>1, <2>2, RemoveAtShortens DEF performed
    <2> QED  BY <1>3, <2>1, <2>2 DEF performed
<1> QED  BY <1>1, <1>2, <1>3 DEF Changes

(* How long the list is after an edit.                                      *)
LEMMA PerformedLength ==
    ASSUME NEW list \in Seq(Entries), NEW change \in Changes
    PROVE  Len(performed(list, change)) =
             CASE change.kind = "addValue" -> Len(list) + 1
               [] change.kind = "assignValue" -> Larger(Len(list), change.index + 1)
               [] change.kind = "deleteValue" ->
                    IF change.index < Len(list) THEN Len(list) - 1 ELSE Len(list)
<1>1. CASE change.kind = "addValue"
    BY <1>1 DEF performed
<1>2. CASE change.kind = "assignValue"
    <2>1. change.index \in Nat
        BY <1>2 DEF Changes
    <2>2. Larger(Len(list), change.index + 1) \in Nat
        BY <2>1 DEF Larger
    <2> QED  BY <1>2, <2>2 DEF performed
<1>3. CASE change.kind = "deleteValue"
    <2>1. change.index \in Nat
        BY <1>3 DEF Changes
    <2>2. CASE change.index < Len(list)
        BY <1>3, <2>1, <2>2, RemoveAtShortens DEF performed
    <2> QED  BY <1>3, <2>1, <2>2 DEF performed
<1> QED  BY <1>1, <1>2, <1>3 DEF Changes

(* The server's check is enough: an edit it lets through does not leave the *)
(* bounds.                                                                  *)
LEMMA CheckedEditKeepsBounds ==
    ASSUME NEW list \in Seq(Entries), NEW change \in Changes, checkConstraint(list, change)
    PROVE  /\ ~Unbounded /\ Len(list) <= Upper => Len(performed(list, change)) <= Upper
           /\ Len(list) >= Lower => Len(performed(list, change)) >= Lower
<1>1. Lower \in Nat /\ Upper \in Int /\ Len(list) \in Nat
    BY PropertyAssumption
<1>2. CASE change.kind = "addValue"
    BY <1>1, <1>2, PerformedLength DEF checkConstraint, canAdd, Unbounded
<1>3. CASE change.kind = "assignValue"
    <2>1. change.index \in Nat
        BY <1>3 DEF Changes
    <2>2. Len(performed(list, change)) = Larger(Len(list), change.index + 1)
        BY <1>3, PerformedLength
    <2>3. Unbounded \/ Upper >= change.index + 1
        BY <1>3 DEF checkConstraint, canAssign
    <2> QED  BY <1>1, <2>1, <2>2, <2>3 DEF Larger, Unbounded
<1>4. CASE change.kind = "deleteValue"
    <2>1. Len(performed(list, change)) = IF change.index < Len(list) THEN Len(list) - 1 ELSE Len(list)
        BY <1>4, PerformedLength
    <2>2. Len(list) - 1 >= Lower
        BY <1>4 DEF checkConstraint, canDelete
    <2> QED  BY <1>1, <2>1, <2>2
<1> QED  BY <1>2, <1>3, <1>4 DEF Changes

(* What the buttons send is well formed.                                    *)
LEMMA OfferedAreChanges ==
    ASSUME values \in Seq(Entries), NEW change \in Offered
    PROVE  change \in Changes
BY DEF Offered, Changes

(* Lists that come from elsewhere are lists of entries.                     *)
LEMMA ListsAreTyped ==
    ASSUME NEW list \in Lists
    PROVE  list \in Seq(Entries)
<1>1. list \in Seq(Values)
    BY PropertyAssumption
<1> QED  BY <1>1 DEF Entries

(* The messages of the server that answer for an element.                   *)
LEMMA AnswersAreTyped ==
    ASSUME PropertyTyped, NEW e \in Elements
    PROVE  Answered(e) \in Seq(Answers)
<1>1. CASE model[e] = Gone
    BY <1>1 DEF Answered, PropertyTyped
<1>2. CASE model[e] # Gone
    <2>1. [element |-> e, values |-> model[e], age |-> age[e]] \in Answers
        BY <1>2 DEF PropertyTyped, Answers
    <2> QED  BY <1>2, <2>1 DEF Answered, PropertyTyped
<1> QED  BY <1>1, <1>2

(* The next message is a message, and what is left is a queue.              *)
LEMMA ReceivedIsTyped ==
    ASSUME PropertyTyped, toServer # <<>>
    PROVE  Head(toServer) \in Messages /\ Tail(toServer) \in Seq(Messages)
BY DEF PropertyTyped

LEMMA PropertyInitTyped == PropertyInit => PropertyTyped
<1> SUFFICES ASSUME PropertyInit PROVE PropertyTyped
    OBVIOUS
<1>1. \A list \in Lists : list \in Seq(Entries)
    BY ListsAreTyped
<1>2. model \in [Elements -> Seq(Entries) \union {Gone}]
    BY <1>1 DEF PropertyInit
<1>3. <<>> \in Seq(Messages) /\ <<>> \in Seq(Answers)
    OBVIOUS
<1>4. age \in [Elements -> Nat]
    BY DEF PropertyInit
<1> QED  BY <1>1, <1>2, <1>3, <1>4 DEF PropertyInit, PropertyTyped

LEMMA PropertyStepTyped ==
    ASSUME PropertyTyped, [PropertyNext]_propertyVars
    PROVE  PropertyTyped'
<1>1. ASSUME NEW e \in Elements, mouseUp(e)
      PROVE  PropertyTyped'
    <2>1. [kind |-> "requestView", element |-> e] \in Messages
        BY DEF Messages
    <2> QED  BY <1>1, <2>1 DEF mouseUp, PropertyTyped
<1>2. ASSUME NEW e \in Elements, EditLabel(e)
      PROVE  PropertyTyped'
    <2>1. [kind |-> "applyLabelEdit", element |-> e] \in Messages
        BY DEF Messages
    <2> QED  BY <1>2, <2>1 DEF EditLabel, PropertyTyped, widgetVars
<1>3. ASSUME NEW e \in Elements, AfterUpdate(e)
      PROVE  PropertyTyped'
    BY <1>3, AnswersAreTyped DEF AfterUpdate, PropertyTyped, widgetVars
<1>4. ASSUME NEW e \in Elements, ChangedElsewhere(e)
      PROVE  PropertyTyped'
    <2>1. PICK content \in Lists \union {Gone} :
            model' = [model EXCEPT ![e] = content]
        BY <1>4 DEF ChangedElsewhere
    <2>2. content \in Seq(Entries) \union {Gone}
        BY <2>1, ListsAreTyped
    <2>3. age' \in [Elements -> Nat]
        BY <1>4 DEF ChangedElsewhere, PropertyTyped
    <2>4. UNCHANGED <<shown, values, toServer, toClient, postUpdateQueue>>
        BY <1>4 DEF ChangedElsewhere, widgetVars, channelVars
    <2> QED  BY <2>1, <2>2, <2>3, <2>4 DEF PropertyTyped
<1>5. ASSUME NEW change \in Offered, EditProperty(change)
      PROVE  PropertyTyped'
    <2>1. change \in Changes
        BY OfferedAreChanges DEF PropertyTyped
    <2>2. performed(values, change) \in Seq(Entries)
        BY <2>1, PerformedIsAList DEF PropertyTyped
    <2>3. [kind |-> "editProperty", element |-> shown, change |-> change] \in Messages
        BY <1>5, <2>1 DEF EditProperty, PropertyTyped, Messages
    <2> QED  BY <1>5, <2>2, <2>3 DEF EditProperty, PropertyTyped
<1>6. ASSUME updatePropertySelection
      PROVE  PropertyTyped'
    <2>1. Head(toClient) \in Answers /\ Tail(toClient) \in Seq(Answers)
        BY <1>6 DEF updatePropertySelection, PropertyTyped
    <2> QED  BY <1>6, <2>1 DEF updatePropertySelection, PropertyTyped, Answers
<1>7. ASSUME ViewRequest
      PROVE  PropertyTyped'
    <2>1. Head(toServer) \in Messages /\ Tail(toServer) \in Seq(Messages)
        BY <1>7, ReceivedIsTyped DEF ViewRequest, Received
    <2>2. Head(toServer).element \in Elements
        BY <2>1 DEF Messages
    <2> QED  BY <1>7, <2>1, <2>2, AnswersAreTyped DEF ViewRequest, PropertyTyped, widgetVars
<1>8. ASSUME LabelEdit
      PROVE  PropertyTyped'
    <2>1. Head(toServer) \in Messages /\ Tail(toServer) \in Seq(Messages)
        BY <1>8, ReceivedIsTyped DEF LabelEdit, Received
    <2>2. Head(toServer).element \in Elements
        BY <2>1 DEF Messages
    <2> QED  BY <1>8, <2>1, <2>2 DEF LabelEdit, PropertyTyped, widgetVars
<1>9. ASSUME PropertyEdit
      PROVE  PropertyTyped'
    <2> DEFINE edit == Head(toServer)
    <2>1. edit \in Messages /\ Tail(toServer) \in Seq(Messages)
        BY <1>9, ReceivedIsTyped DEF PropertyEdit, Received
    <2>2. edit.element \in Elements /\ edit.change \in Changes
        BY <1>9, <2>1 DEF PropertyEdit, Received, Messages
    <2>3. UNCHANGED <<shown, values, toClient, postUpdateQueue>> /\ toServer' = Tail(toServer)
        BY <1>9 DEF PropertyEdit, widgetVars
    <2>4. CASE Accepted(edit)
        <3>1. model[edit.element] \in Seq(Entries)
            BY <2>2, <2>4 DEF Accepted, PropertyTyped
        <3>2. performed(model[edit.element], edit.change) \in Seq(Entries)
            BY <2>2, <3>1, PerformedIsAList
        <3>3. \/ model' = model
              \/ model' = [model EXCEPT ![edit.element] = performed(model[edit.element], edit.change)]
            BY <1>9, <2>4 DEF PropertyEdit
        <3>4. model' \in [Elements -> Seq(Entries) \union {Gone}]
            BY <3>2, <3>3 DEF PropertyTyped
        <3>5. age' \in [Elements -> Nat]
            BY <1>9, <2>4 DEF PropertyEdit, PropertyTyped
        <3> QED  BY <2>1, <2>3, <3>4, <3>5 DEF PropertyTyped
    <2>5. CASE ~Accepted(edit)
        BY <1>9, <2>1, <2>3, <2>5 DEF PropertyEdit, PropertyTyped
    <2> QED  BY <2>4, <2>5
<1>10. CASE UNCHANGED propertyVars
    BY <1>10 DEF PropertyTyped, propertyVars, widgetVars, channelVars
<1> QED
    BY <1>1, <1>2, <1>3, <1>4, <1>5, <1>6, <1>7, <1>8, <1>9, <1>10 DEF PropertyNext

LEMMA PropertyIsTyped == PropertySpec => []PropertyTyped
<1>1. PropertyInit => PropertyTyped
    BY PropertyInitTyped
<1>2. PropertyTyped /\ [PropertyNext]_propertyVars => PropertyTyped'
    BY PropertyStepTyped
<1> QED  BY <1>1, <1>2, PTL DEF PropertySpec

-----------------------------------------------------------------------------
(* The step of BoundsAreKept.                                               *)
KeepsBounds ==
    \A e \in Elements :
        UNCHANGED elsewhere /\ model[e] # Gone /\ model'[e] # Gone =>
            /\ ~Unbounded /\ Len(model[e]) <= Upper => Len(model'[e]) <= Upper
            /\ Len(model[e]) >= Lower => Len(model'[e]) >= Lower

(* The changes from elsewhere are counted.                                  *)
ElsewhereCounted == elsewhere \in Nat

LEMMA ElsewhereIsCounted == PropertySpec => []ElsewhereCounted
<1>1. PropertyInit => ElsewhereCounted
    BY DEF PropertyInit, ElsewhereCounted
<1>2. ASSUME ElsewhereCounted, [PropertyNext]_propertyVars
      PROVE  ElsewhereCounted'
    <2>1. \/ UNCHANGED elsewhere
          \/ \E x \in Elements : ChangedElsewhere(x)
        BY <1>2 DEF PropertyNext, mouseUp, EditLabel, AfterUpdate, EditProperty, updatePropertySelection,
                    ViewRequest, LabelEdit, PropertyEdit, propertyVars, boundVars
    <2> QED  BY <1>2, <2>1 DEF ChangedElsewhere, ElsewhereCounted
<1> QED  BY <1>1, <1>2, PTL DEF PropertySpec

(* Lists change in two actions only: by a checked edit, and by what comes   *)
(* from elsewhere.                                                          *)
LEMMA StepKeepsBounds ==
    ASSUME PropertyTyped, ElsewhereCounted, [PropertyNext]_propertyVars
    PROVE  KeepsBounds
<1>1. CASE UNCHANGED model
    BY <1>1 DEF KeepsBounds
<1>2. ASSUME NEW x \in Elements, ChangedElsewhere(x)
      PROVE  KeepsBounds
    <2>1. elsewhere' = elsewhere + 1
        BY <1>2 DEF ChangedElsewhere
    <2>2. elsewhere' # elsewhere
        BY <2>1 DEF ElsewhereCounted
    <2> QED  BY <2>2 DEF KeepsBounds
<1>3. ASSUME PropertyEdit, model' # model
      PROVE  KeepsBounds
    <2> DEFINE edit == Head(toServer)
    <2>1. edit \in Messages
        BY <1>3, ReceivedIsTyped DEF PropertyEdit, Received
    <2>2. edit.element \in Elements /\ edit.change \in Changes
        BY <1>3, <2>1 DEF PropertyEdit, Received, Messages
    <2>3. /\ Accepted(edit)
          /\ model' = [model EXCEPT ![edit.element] = performed(model[edit.element], edit.change)]
        BY <1>3 DEF PropertyEdit
    <2>4. /\ model[edit.element] \in Seq(Entries)
          /\ checkConstraint(model[edit.element], edit.change)
        BY <2>2, <2>3 DEF Accepted, PropertyTyped
    <2> SUFFICES ASSUME NEW e \in Elements
                 PROVE  /\ ~Unbounded /\ Len(model[e]) <= Upper => Len(model'[e]) <= Upper
                        /\ Len(model[e]) >= Lower => Len(model'[e]) >= Lower
        BY DEF KeepsBounds
    <2>5. CASE e = edit.element
        <3>1. model'[e] = performed(model[e], edit.change)
            BY <2>3, <2>5 DEF PropertyTyped
        <3> QED  BY <2>2, <2>4, <2>5, <3>1, CheckedEditKeepsBounds
    <2>6. CASE e # edit.element
        BY <2>3, <2>6 DEF PropertyTyped
    <2> QED  BY <2>5, <2>6
<1>4. \/ UNCHANGED model
      \/ \E x \in Elements : ChangedElsewhere(x)
      \/ PropertyEdit
    BY DEF PropertyNext, mouseUp, EditLabel, AfterUpdate, EditProperty, updatePropertySelection,
           ViewRequest, LabelEdit, propertyVars
<1> QED  BY <1>1, <1>2, <1>3, <1>4

(* Whatever the widgets that sent them took the list to be, whatever hooks  *)
(* decide and however long the channel is: no edit moves a list out of the  *)
(* bounds of its attribute, as PropertyEditHandler checks them              *)
(* (checkConstraint), and none that is out of them already gets further out *)
(* on the side where it was in.                                             *)
THEOREM EditsKeepBounds == PropertySpec => BoundsAreKept
<1>1. PropertyTyped /\ ElsewhereCounted /\ [PropertyNext]_propertyVars => [KeepsBounds]_propertyVars
    BY StepKeepsBounds
<1>2. PropertySpec => [][KeepsBounds]_propertyVars
    BY <1>1, PropertyIsTyped, ElsewhereIsCounted, PTL DEF PropertySpec
<1> QED  BY <1>2 DEF BoundsAreKept, KeepsBounds

-----------------------------------------------------------------------------
(* A set of natural numbers with some element has a least one.              *)
LEMMA LeastNumber ==
    ASSUME NEW T \in SUBSET Nat, T # {}
    PROVE  \E x \in T : \A y \in T : x <= y
<1>1. PICK R : R = OpToRel(<, Nat)
    OBVIOUS
<1>2. IsWellFoundedOn(R, Nat)
    BY <1>1, NatLessThanWellFounded
<1>3. PICK x \in T : \A y \in T : ~ (<<y, x>> \in R)
    BY <1>2, WFMin, Zenon
<1>4. \A y \in T : ~ (y < x)
    BY <1>1, <1>3 DEF OpToRel
<1> QED  BY <1>4

(* Induction, for a set of numbers.                                         *)
LEMMA NumberSetInduction ==
    ASSUME NEW T, 0 \in T, \A n \in Nat : n \in T => n + 1 \in T
    PROVE  Nat \subseteq T
<1> SUFFICES ASSUME Nat \ T # {} PROVE FALSE
    OBVIOUS
<1>1. PICK x \in Nat \ T : \A y \in Nat \ T : x <= y
    <2>1. Nat \ T \in SUBSET Nat
        OBVIOUS
    <2> QED  BY <2>1, LeastNumber, Zenon
<1>2. x # 0 /\ x - 1 \in Nat /\ ~(x <= x - 1)
    BY <1>1
<1>3. x - 1 \in T
    BY <1>1, <1>2
<1> QED  BY <1>1, <1>2, <1>3

(* What becomes of a list of element e while the messages of a queue arrive *)
(* one by one, each edit passing the server's check: f[i] after i messages. *)
Leads(f, list, queue, e) ==
    /\ f \in [0 .. Len(queue) -> Seq(Entries)]
    /\ f[0] = list
    /\ \A i \in 1 .. Len(queue) :
        /\ f[i] = arrived(f[i - 1], queue[i], e)
        /\ IsEditOf(queue[i], e) => checkConstraint(f[i - 1], queue[i].change)

(* The inductive invariant.  Until it strays, the view is where the edits   *)
(* under way lead from the model, and none of them will be turned down; and *)
(* an answer that is not older than the last change of its element holds    *)
(* the list the model holds.                                                *)
LedTo(list, queue, e, end) == \E f : Leads(f, list, queue, e) /\ f[Len(queue)] = end

ViewIsLedTo ==
    shown # NoElement /\ ~strayed =>
        model[shown] # Gone /\ LedTo(model[shown], toServer, shown, values)

FreshAnswer(answer) ==
    /\ answer.age <= age[answer.element]
    /\ answer.age = age[answer.element] =>
        model[answer.element] # Gone /\ model[answer.element] = answer.values

AnswersAreFresh == \A i \in 1 .. Len(toClient) : FreshAnswer(toClient[i])

InStepInv ==
    /\ PropertyTyped
    /\ strayed \in BOOLEAN
    /\ ViewIsLedTo
    /\ AnswersAreFresh

(* An edit that arrives turns a list of entries into one.                   *)
LEMMA ArrivedIsAList ==
    ASSUME NEW list \in Seq(Entries), NEW message \in Messages, NEW e
    PROVE  arrived(list, message, e) \in Seq(Entries)
<1>1. CASE IsEditOf(message, e)
    <2>1. message.change \in Changes
        BY <1>1 DEF IsEditOf, Messages
    <2> QED  BY <1>1, <2>1, PerformedIsAList DEF arrived
<1>2. CASE ~IsEditOf(message, e)
    BY <1>2 DEF arrived
<1> QED  BY <1>1, <1>2

(* Sending one more message takes the list one step further.                *)
LEMMA SendingLeadsOn ==
    ASSUME NEW queue \in Seq(Messages), NEW message \in Messages, NEW e,
           NEW list, NEW end \in Seq(Entries),
           LedTo(list, queue, e, end),
           IsEditOf(message, e) => checkConstraint(end, message.change)
    PROVE  LedTo(list, Append(queue, message), e, arrived(end, message, e))
<1>1. PICK f : Leads(f, list, queue, e) /\ f[Len(queue)] = end
    BY DEF LedTo
<1>2. PICK n \in Nat : n = Len(queue)
    OBVIOUS
<1>3. PICK longer \in Seq(Messages) :
        /\ longer = Append(queue, message) /\ Len(longer) = n + 1
        /\ longer[n + 1] = message
        /\ \A i \in 1 .. n : longer[i] = queue[i]
    <2>1. PICK longer : longer = Append(queue, message)
        OBVIOUS
    <2>2. longer \in Seq(Messages)
        BY <2>1
    <2>3. Len(longer) = n + 1 /\ longer[n + 1] = message
        BY <1>2, <2>1
    <2>4. \A i \in 1 .. n : longer[i] = queue[i]
        BY <1>2, <2>1
    <2> QED  BY <2>1, <2>2, <2>3, <2>4
<1>4. PICK last \in Seq(Entries) : last = arrived(end, message, e)
    BY ArrivedIsAList
<1>5. PICK g : g = [i \in 0 .. n + 1 |-> IF i = n + 1 THEN last ELSE f[i]]
    OBVIOUS
<1>6. /\ g \in [0 .. n + 1 -> Seq(Entries)] /\ g[n + 1] = last
      /\ \A i \in 0 .. n : g[i] = f[i]
    BY <1>1, <1>2, <1>5 DEF Leads
<1>7. ASSUME NEW i \in 1 .. n + 1
      PROVE  /\ g[i] = arrived(g[i - 1], longer[i], e)
             /\ IsEditOf(longer[i], e) => checkConstraint(g[i - 1], longer[i].change)
    <2>1. CASE i = n + 1
        <3>1. g[i - 1] = end /\ longer[i] = message /\ g[i] = last
            BY <1>1, <1>2, <1>3, <1>6, <2>1
        <3> QED  BY <1>4, <3>1
    <2>2. CASE i # n + 1
        <3>1. i \in 1 .. n /\ i \in 0 .. n /\ i - 1 \in 0 .. n
            BY <2>2
        <3>2. g[i] = f[i] /\ g[i - 1] = f[i - 1] /\ longer[i] = queue[i]
            BY <1>3, <1>6, <3>1
        <3> QED  BY <1>1, <1>2, <3>1, <3>2 DEF Leads
    <2> QED  BY <2>1, <2>2
<1>8. g[0] = list
    BY <1>1, <1>2, <1>6 DEF Leads
<1>9. Leads(g, list, longer, e) /\ g[Len(longer)] = last
    BY <1>3, <1>6, <1>7, <1>8 DEF Leads
<1> QED  BY <1>3, <1>4, <1>9 DEF LedTo

(* When the next message arrives, the rest leads to the same list.          *)
LEMMA ArrivingLeadsOn ==
    ASSUME NEW queue \in Seq(Messages), queue # <<>>, NEW e, NEW list, NEW end,
           LedTo(list, queue, e, end)
    PROVE  /\ LedTo(arrived(list, Head(queue), e), Tail(queue), e, end)
           /\ IsEditOf(Head(queue), e) => checkConstraint(list, Head(queue).change)
<1>1. PICK f : Leads(f, list, queue, e) /\ f[Len(queue)] = end
    BY DEF LedTo
<1>2. PICK n \in Nat : n = Len(queue) - 1
    OBVIOUS
<1>3. PICK rest \in Seq(Messages) :
        /\ rest = Tail(queue) /\ Len(rest) = n
        /\ \A i \in 1 .. n : rest[i] = queue[i + 1]
    <2>1. PICK rest : rest = Tail(queue)
        OBVIOUS
    <2>2. rest \in Seq(Messages)
        BY <2>1
    <2>3. Len(rest) = n /\ \A i \in 1 .. n : rest[i] = queue[i + 1]
        BY <1>2, <2>1
    <2> QED  BY <2>1, <2>2, <2>3
<1>4. Head(queue) = queue[1] /\ 1 \in 1 .. Len(queue)
    BY <1>2
<1>5. PICK g : g = [i \in 0 .. n |-> f[i + 1]]
    OBVIOUS
<1>6. g \in [0 .. n -> Seq(Entries)] /\ \A i \in 0 .. n : g[i] = f[i + 1]
    BY <1>1, <1>2, <1>5 DEF Leads
<1>7. /\ f[1] = arrived(list, Head(queue), e)
      /\ IsEditOf(Head(queue), e) => checkConstraint(list, Head(queue).change)
    BY <1>1, <1>4 DEF Leads
<1>8. ASSUME NEW i \in 1 .. n
      PROVE  /\ g[i] = arrived(g[i - 1], rest[i], e)
             /\ IsEditOf(rest[i], e) => checkConstraint(g[i - 1], rest[i].change)
    <2>1. i + 1 \in 1 .. Len(queue) /\ i - 1 \in 0 .. n /\ i \in 0 .. n /\ (i + 1) - 1 = i /\ (i - 1) + 1 = i
        BY <1>2
    <2>2. g[i] = f[i + 1] /\ g[i - 1] = f[i] /\ rest[i] = queue[i + 1]
        BY <1>3, <1>6, <2>1
    <2>3. /\ f[i + 1] = arrived(f[i], queue[i + 1], e)
          /\ IsEditOf(queue[i + 1], e) => checkConstraint(f[i], queue[i + 1].change)
        BY <1>1, <2>1 DEF Leads
    <2> QED  BY <2>2, <2>3
<1>9. Leads(g, f[1], rest, e) /\ g[Len(rest)] = end
    BY <1>1, <1>2, <1>3, <1>6, <1>8 DEF Leads
<1> QED  BY <1>3, <1>7, <1>9 DEF LedTo

(* A queue without edits of the element leads nowhere.                      *)
LEMMA NothingUnderWay ==
    ASSUME NEW queue \in Seq(Messages), NEW e, NEW list \in Seq(Entries),
           \A i \in 1 .. Len(queue) : ~IsEditOf(queue[i], e)
    PROVE  LedTo(list, queue, e, list)
<1>1. PICK n \in Nat : n = Len(queue)
    OBVIOUS
<1>2. PICK f : f = [i \in 0 .. n |-> list]
    OBVIOUS
<1>3. f \in [0 .. n -> Seq(Entries)] /\ \A i \in 0 .. n : f[i] = list
    BY <1>2
<1>4. Leads(f, list, queue, e) /\ f[Len(queue)] = list
    BY <1>1, <1>3 DEF Leads, arrived
<1> QED  BY <1>4 DEF LedTo

(* What the widget offers, the server would accept of the same list.        *)
LEMMA OfferedIsAccepted ==
    ASSUME values \in Seq(Entries), NEW change \in Offered, ~BeyondTheBound(change)
    PROVE  checkConstraint(values, change)
<1>1. Lower \in Nat /\ Upper \in Int /\ Len(values) \in Nat
    BY PropertyAssumption
<1>2. CASE change.kind = "addValue"
    BY <1>2 DEF Offered, checkConstraint
<1>3. CASE change.kind = "assignValue"
    <2>1. canAssign(change.index + 1)
        BY <1>3 DEF BeyondTheBound
    <2> QED  BY <1>3, <2>1 DEF checkConstraint
<1>4. CASE change.kind = "deleteValue"
    BY <1>4 DEF Offered, checkConstraint
<1> QED  BY <1>2, <1>3, <1>4 DEF Offered

LEMMA InitInStep == PropertyInit => InStepInv
<1> SUFFICES ASSUME PropertyInit PROVE InStepInv
    OBVIOUS
<1>1. PropertyTyped /\ strayed \in BOOLEAN
    BY PropertyInitTyped DEF PropertyInit
<1>2. ViewIsLedTo
    BY DEF PropertyInit, ViewIsLedTo
<1>3. AnswersAreFresh
    BY DEF PropertyInit, AnswersAreFresh
<1> QED  BY <1>1, <1>2, <1>3 DEF InStepInv

(* A message other than an edit goes into the queue, ...                    *)
LEMMA SendingKeepsStep ==
    ASSUME InStepInv, NEW kind \in {"requestView", "applyLabelEdit"}, NEW e \in Elements,
           toServer' = Append(toServer, [kind |-> kind, element |-> e]),
           UNCHANGED <<model, shown, values, toClient, age, strayed>>
    PROVE  ViewIsLedTo' /\ AnswersAreFresh'
<1>1. PICK message : message = [kind |-> kind, element |-> e]
    OBVIOUS
<1>2. message \in Messages /\ ~IsEditOf(message, shown)
    BY <1>1 DEF Messages, IsEditOf
<1>3. ASSUME shown # NoElement, ~strayed
      PROVE  model[shown] # Gone /\ LedTo(model[shown], Append(toServer, message), shown, values)
    <2>1. model[shown] # Gone /\ LedTo(model[shown], toServer, shown, values)
        BY <1>3 DEF InStepInv, ViewIsLedTo
    <2>2. toServer \in Seq(Messages) /\ values \in Seq(Entries)
        BY DEF InStepInv, PropertyTyped
    <2>3. LedTo(model[shown], Append(toServer, message), shown, arrived(values, message, shown))
        BY <1>2, <2>1, <2>2, SendingLeadsOn
    <2> QED  BY <1>2, <2>1, <2>3 DEF arrived
<1>4. ViewIsLedTo'
    BY <1>1, <1>3 DEF ViewIsLedTo
<1>5. AnswersAreFresh'
    BY DEF InStepInv, AnswersAreFresh, FreshAnswer
<1> QED  BY <1>4, <1>5

(* ... and when it arrives the rest leads to the same values.               *)
LEMMA ReceivingKeepsStep ==
    ASSUME InStepInv, NEW kind \in {"requestView", "applyLabelEdit"}, Received(kind),
           toServer' = Tail(toServer),
           UNCHANGED <<model, shown, values, strayed>>
    PROVE  ViewIsLedTo'
<1>1. toServer \in Seq(Messages) /\ toServer # <<>> /\ ~IsEditOf(Head(toServer), shown)
    BY DEF InStepInv, PropertyTyped, Received, IsEditOf
<1>2. ASSUME shown # NoElement, ~strayed
      PROVE  model[shown] # Gone /\ LedTo(model[shown], Tail(toServer), shown, values)
    <2>1. model[shown] # Gone /\ LedTo(model[shown], toServer, shown, values)
        BY <1>2 DEF InStepInv, ViewIsLedTo
    <2>2. LedTo(arrived(model[shown], Head(toServer), shown), Tail(toServer), shown, values)
        BY <1>1, <2>1, ArrivingLeadsOn
    <2> QED  BY <1>1, <2>1, <2>2 DEF arrived
<1> QED  BY <1>2 DEF ViewIsLedTo

(* An answer holds what the model holds now.                                *)
LEMMA AnsweringKeepsFresh ==
    ASSUME InStepInv, NEW e \in Elements, toClient' = Answered(e),
           UNCHANGED <<model, values, age>>
    PROVE  AnswersAreFresh'
<1>1. toClient \in Seq(Answers)
    BY DEF InStepInv, PropertyTyped
<1>2. CASE model[e] = Gone
    BY <1>2 DEF InStepInv, Answered, AnswersAreFresh, FreshAnswer
<1>3. CASE model[e] # Gone
    <2>1. PICK answer : answer = [element |-> e, values |-> model[e], age |-> age[e]]
        OBVIOUS
    <2>2. toClient' = Append(toClient, answer)
        BY <1>3, <2>1 DEF Answered
    <2>3. FreshAnswer(answer)
        BY <1>3, <2>1 DEF InStepInv, PropertyTyped, FreshAnswer
    <2>4. \A i \in 1 .. Len(toClient) : FreshAnswer(toClient[i])
        BY DEF InStepInv, AnswersAreFresh
    <2>5. ASSUME NEW i \in 1 .. Len(toClient')
          PROVE  FreshAnswer(toClient'[i])
        <3>1. CASE i = Len(toClient) + 1
            <4>1. toClient'[i] = answer
                BY <1>1, <2>2, <3>1
            <4> QED  BY <2>3, <4>1
        <3>2. CASE i # Len(toClient) + 1
            <4>1. i \in 1 .. Len(toClient) /\ toClient'[i] = toClient[i]
                BY <1>1, <2>2, <2>5, <3>2
            <4> QED  BY <2>4, <4>1
        <3> QED  BY <3>1, <3>2
    <2>6. AnswersAreFresh'
        BY <2>5 DEF AnswersAreFresh, FreshAnswer
    <2> QED  BY <2>6
<1> QED  BY <1>2, <1>3

(* The list of an element was dealt with: answers for it are out of date,   *)
(* the others are not touched.                                              *)
LEMMA AgeingKeepsFresh ==
    ASSUME InStepInv, NEW e \in Elements,
           age' = [age EXCEPT ![e] = @ + 1],
           NEW content, model' = [model EXCEPT ![e] = content],
           UNCHANGED <<values, toClient>>
    PROVE  AnswersAreFresh'
<1>1. toClient \in Seq(Answers) /\ age \in [Elements -> Nat] /\ DOMAIN model = Elements
    BY DEF InStepInv, PropertyTyped
<1>2. ASSUME NEW i \in 1 .. Len(toClient)
      PROVE  /\ toClient[i].age <= age'[toClient[i].element]
             /\ toClient[i].age = age'[toClient[i].element] =>
                    /\ model'[toClient[i].element] # Gone
                    /\ model'[toClient[i].element] = toClient[i].values
    <2>1. FreshAnswer(toClient[i])
        BY DEF InStepInv, AnswersAreFresh
    <2>2. PICK answer \in Answers : answer = toClient[i]
        BY <1>1
    <2>3. PICK x \in Elements : x = answer.element
        BY DEF Answers
    <2>4. answer.age \in Nat /\ age[x] \in Nat
        BY <1>1 DEF Answers
    <2>5. CASE x = e
        BY <1>1, <2>1, <2>2, <2>3, <2>4, <2>5 DEF FreshAnswer
    <2>6. CASE x # e
        <3>1. age'[x] = age[x] /\ model'[x] = model[x]
            BY <1>1, <2>6
        <3> QED  BY <2>1, <2>2, <2>3, <3>1 DEF FreshAnswer
    <2> QED  BY <2>5, <2>6
<1>3. AnswersAreFresh'
    BY <1>2 DEF AnswersAreFresh, FreshAnswer
<1> QED  BY <1>3

LEMMA PropertyEditInStep ==
    ASSUME InStepInv, PropertyEdit
    PROVE  ViewIsLedTo' /\ AnswersAreFresh'
<1> DEFINE edit == Head(toServer)
<1>1. /\ toServer \in Seq(Messages) /\ toServer # <<>> /\ edit \in Messages /\ edit.kind = "editProperty"
      /\ DOMAIN model = Elements
    BY DEF InStepInv, PropertyTyped, PropertyEdit, Received
<1>2. edit.element \in Elements /\ edit.change \in Changes
    BY <1>1 DEF Messages
<1>3. UNCHANGED <<shown, values, toClient>> /\ toServer' = Tail(toServer)
    BY DEF PropertyEdit, widgetVars
<1>4. ASSUME shown # NoElement, ~strayed
      PROVE  /\ model[shown] # Gone
             /\ LedTo(arrived(model[shown], edit, shown), Tail(toServer), shown, values)
             /\ edit.element = shown => Accepted(edit)
    <2>1. model[shown] # Gone /\ LedTo(model[shown], toServer, shown, values)
        BY <1>4 DEF InStepInv, ViewIsLedTo
    <2>2. /\ LedTo(arrived(model[shown], edit, shown), Tail(toServer), shown, values)
          /\ IsEditOf(edit, shown) => checkConstraint(model[shown], edit.change)
        BY <1>1, <2>1, ArrivingLeadsOn
    <2>3. edit.element = shown => IsEditOf(edit, shown)
        BY <1>1 DEF IsEditOf
    <2> QED  BY <2>1, <2>2, <2>3 DEF Accepted
<1>5. CASE ~Accepted(edit)
    <2>1. UNCHANGED <<model, age, strayed>>
        BY <1>5 DEF PropertyEdit
    <2>2. AnswersAreFresh'
        BY <1>3, <2>1 DEF InStepInv, AnswersAreFresh, FreshAnswer
    <2>3. ViewIsLedTo'
        <3>1. SUFFICES ASSUME shown' # NoElement, ~strayed'
                       PROVE  model'[shown'] # Gone /\ LedTo(model'[shown'], toServer', shown', values')
            BY DEF ViewIsLedTo
        <3>2. shown # NoElement /\ ~strayed
            BY <1>3, <2>1, <3>1
        <3>3. ~IsEditOf(edit, shown)
            BY <1>4, <1>5, <3>2 DEF IsEditOf
        <3>4. arrived(model[shown], edit, shown) = model[shown]
            BY <3>3 DEF arrived
        <3> QED  BY <1>3, <1>4, <2>1, <3>2, <3>4
    <2> QED  BY <2>2, <2>3
<1>6. CASE Accepted(edit)
    <2>1. PICK outcome \in [Hooks -> {"agrees", "refuses", "throws"}] :
            /\ model' = IF executeHook(outcome)
                        THEN [model EXCEPT ![edit.element] = performed(@, edit.change)] ELSE model
            /\ strayed' = (strayed \/ (~executeHook(outcome) /\ shown = edit.element))
        BY <1>6 DEF PropertyEdit
    <2>2. age' = [age EXCEPT ![edit.element] = @ + 1]
        BY <1>6 DEF PropertyEdit
    <2>3. PICK before \in Seq(Entries) : before = model[edit.element]
        BY <1>2, <1>6 DEF InStepInv, PropertyTyped, Accepted
    <2>4. checkConstraint(before, edit.change) /\ before # Gone
        BY <1>2, <1>6, <2>3 DEF InStepInv, Accepted
    <2>5. PICK after \in Seq(Entries) : after = performed(before, edit.change)
        BY <1>2, PerformedIsAList
    <2>6. after # Gone
        BY <2>5, PropertyAssumption DEF Entries
    <2>7. PICK content : /\ model' = [model EXCEPT ![edit.element] = content]
                         /\ content \in {before, after}
                         /\ executeHook(outcome) => content = after
        <3>1. CASE executeHook(outcome)
            BY <2>1, <2>3, <2>5, <3>1
        <3>2. CASE ~executeHook(outcome)
            BY <2>1, <2>3, <3>2, <1>1, <1>2 DEF InStepInv, PropertyTyped
        <3> QED  BY <3>1, <3>2
    <2>8. AnswersAreFresh'
        BY <1>2, <1>3, <2>2, <2>4, <2>6, <2>7, AgeingKeepsFresh
    <2>9. ViewIsLedTo'
        <3>1. SUFFICES ASSUME shown' # NoElement, ~strayed'
                       PROVE  model'[shown'] # Gone /\ LedTo(model'[shown'], toServer', shown', values')
            BY DEF ViewIsLedTo
        <3>2. /\ shown # NoElement /\ ~strayed
              /\ shown = edit.element => executeHook(outcome)
            BY <1>3, <2>1, <3>1
        <3>3. model'[shown] # Gone /\ model'[shown] = arrived(model[shown], edit, shown)
            <4>1. CASE shown = edit.element
                <5>1. model'[shown] = after
                    BY <1>1, <1>2, <2>7, <3>2, <4>1
                <5>2. arrived(model[shown], edit, shown) = after
                    BY <1>1, <2>3, <2>5, <4>1 DEF arrived, IsEditOf
                <5> QED  BY <2>6, <5>1, <5>2
            <4>2. CASE shown # edit.element
                <5>1. shown \in Elements
                    BY <3>2 DEF InStepInv, PropertyTyped
                <5>2. model'[shown] = model[shown]
                    BY <1>1, <2>7, <4>2, <5>1
                <5>3. arrived(model[shown], edit, shown) = model[shown]
                    BY <4>2 DEF arrived, IsEditOf
                <5> QED  BY <1>4, <3>2, <5>2, <5>3
            <4> QED  BY <4>1, <4>2
        <3> QED  BY <1>3, <1>4, <3>2, <3>3
    <2> QED  BY <2>8, <2>9
<1> QED  BY <1>5, <1>6

LEMMA EditPropertyInStep ==
    ASSUME InStepInv, NEW change \in Offered, EditProperty(change)
    PROVE  ViewIsLedTo' /\ AnswersAreFresh'
<1>1. toServer \in Seq(Messages) /\ values \in Seq(Entries) /\ shown \in Elements
    BY DEF InStepInv, PropertyTyped, EditProperty
<1>2. change \in Changes /\ (~BeyondTheBound(change) => checkConstraint(values, change))
    BY <1>1, OfferedAreChanges, OfferedIsAccepted
<1>3. PICK message : message = [kind |-> "editProperty", element |-> shown, change |-> change]
    OBVIOUS
<1>4. message \in Messages /\ message.change = change /\ IsEditOf(message, shown)
    BY <1>1, <1>2, <1>3 DEF Messages, IsEditOf
<1>5. /\ UNCHANGED <<model, shown, toClient, age>>
      /\ strayed' = (strayed \/ BeyondTheBound(change))
      /\ toServer' = Append(toServer, message)
      /\ values' = performed(values, change)
    BY <1>3 DEF EditProperty
<1>6. values' = arrived(values, message, shown)
    BY <1>4, <1>5 DEF arrived
<1>7. ASSUME ~strayed'
      PROVE  model[shown] # Gone /\ LedTo(model[shown], Append(toServer, message), shown, values')
    <2>1. model[shown] # Gone /\ LedTo(model[shown], toServer, shown, values)
        BY <1>5, <1>7 DEF InStepInv, ViewIsLedTo, EditProperty
    <2>2. checkConstraint(values, message.change)
        BY <1>2, <1>4, <1>5, <1>7
    <2> QED  BY <1>1, <1>2, <1>4, <1>6, <2>1, <2>2, SendingLeadsOn
<1>8. ViewIsLedTo'
    BY <1>5, <1>7 DEF ViewIsLedTo
<1>9. AnswersAreFresh'
    BY <1>5 DEF InStepInv, AnswersAreFresh, FreshAnswer
<1> QED  BY <1>8, <1>9

(* An answer that is not out of date, with no edit of its element under way, *)
(* brings the view back.                                                    *)
LEMMA SelectionInStep ==
    ASSUME InStepInv, updatePropertySelection
    PROVE  ViewIsLedTo' /\ AnswersAreFresh'
<1>1. toServer \in Seq(Messages) /\ toClient \in Seq(Answers) /\ toClient # <<>>
    BY DEF InStepInv, PropertyTyped, updatePropertySelection
<1>2. PICK answer \in Answers : answer = Head(toClient)
    BY <1>1
<1>3. /\ shown' = answer.element /\ values' = answer.values
      /\ strayed' = (answer.age # age[answer.element] \/ UnderWay(answer.element))
      /\ toClient' = Tail(toClient)
      /\ UNCHANGED <<model, toServer, age>>
    BY <1>2 DEF updatePropertySelection
<1>4. answer = toClient[1] /\ 1 \in 1 .. Len(toClient)
    BY <1>1, <1>2
<1>5. FreshAnswer(answer)
    BY <1>4 DEF InStepInv, AnswersAreFresh
<1>6. ViewIsLedTo'
    <2>1. SUFFICES ASSUME ~strayed'
                   PROVE  model[shown'] # Gone /\ LedTo(model[shown'], toServer, shown', values')
        BY <1>3 DEF ViewIsLedTo
    <2>2. answer.age = age[answer.element] /\ ~UnderWay(answer.element)
        BY <1>3, <2>1
    <2>3. model[shown'] # Gone /\ model[shown'] = values'
        BY <1>3, <1>5, <2>2 DEF FreshAnswer
    <2>4. \A i \in 1 .. Len(toServer) : ~IsEditOf(toServer[i], shown')
        BY <1>1, <1>3, <2>2 DEF UnderWay
    <2>5. values' \in Seq(Entries)
        BY <1>3 DEF Answers
    <2> QED  BY <1>1, <2>3, <2>4, <2>5, NothingUnderWay
<1>7. \A i \in 1 .. Len(Tail(toClient)) :
        i + 1 \in 1 .. Len(toClient) /\ Tail(toClient)[i] = toClient[i + 1]
    BY <1>1
<1>8. \A i \in 1 .. Len(Tail(toClient)) : FreshAnswer(Tail(toClient)[i])
    BY <1>7 DEF InStepInv, AnswersAreFresh
<1>9. AnswersAreFresh'
    BY <1>3, <1>8 DEF AnswersAreFresh, FreshAnswer
<1> QED  BY <1>6, <1>9

LEMMA ChangedElsewhereInStep ==
    ASSUME InStepInv, NEW e \in Elements, ChangedElsewhere(e)
    PROVE  ViewIsLedTo' /\ AnswersAreFresh'
<1>1. PICK content \in Lists \union {Gone} :
        model' = [model EXCEPT ![e] = content]
    BY DEF ChangedElsewhere
<1>2. /\ age' = [age EXCEPT ![e] = @ + 1]
      /\ strayed' = (strayed \/ shown = e)
      /\ UNCHANGED <<shown, values, toServer, toClient>>
    BY DEF ChangedElsewhere, widgetVars, channelVars
<1>3. AnswersAreFresh'
    BY <1>1, <1>2, AgeingKeepsFresh
<1>4. ViewIsLedTo'
    <2>1. SUFFICES ASSUME shown # NoElement, ~strayed'
                   PROVE  model'[shown] # Gone /\ LedTo(model'[shown], toServer, shown, values)
        BY <1>2 DEF ViewIsLedTo
    <2>2. ~strayed /\ shown # e /\ shown \in Elements
        BY <1>2, <2>1 DEF InStepInv, PropertyTyped
    <2>3. model'[shown] = model[shown]
        BY <1>1, <2>2 DEF InStepInv, PropertyTyped
    <2> QED  BY <2>1, <2>2, <2>3 DEF InStepInv, ViewIsLedTo
<1> QED  BY <1>3, <1>4

LEMMA StepInStep ==
    ASSUME InStepInv, [PropertyNext]_propertyVars
    PROVE  InStepInv'
<1>1. PropertyTyped'
    BY PropertyStepTyped DEF InStepInv
<1>2. strayed' \in BOOLEAN
    <2>1. \/ UNCHANGED strayed
          \/ updatePropertySelection
          \/ \E e \in Elements : ChangedElsewhere(e)
          \/ PropertyEdit
          \/ \E change \in Offered : EditProperty(change)
        BY DEF PropertyNext, mouseUp, EditLabel, AfterUpdate, ViewRequest, LabelEdit, propertyVars
    <2>2. ASSUME PropertyEdit, ~UNCHANGED strayed
          PROVE  strayed' \in BOOLEAN
        <3>1. \E outcome \in [Hooks -> {"agrees", "refuses", "throws"}] :
                strayed' = (strayed \/ (~executeHook(outcome) /\ shown = Head(toServer).element))
            BY <2>2 DEF PropertyEdit
        <3> QED  BY <3>1
    <2> QED  BY <2>1, <2>2 DEF InStepInv, updatePropertySelection, ChangedElsewhere, EditProperty
<1>3. ASSUME NEW e \in Elements, mouseUp(e)
      PROVE  ViewIsLedTo' /\ AnswersAreFresh'
    BY <1>3, SendingKeepsStep DEF mouseUp
<1>4. ASSUME NEW e \in Elements, EditLabel(e)
      PROVE  ViewIsLedTo' /\ AnswersAreFresh'
    BY <1>4, SendingKeepsStep DEF EditLabel, widgetVars
<1>5. ASSUME NEW e \in Elements, AfterUpdate(e)
      PROVE  ViewIsLedTo' /\ AnswersAreFresh'
    <2>1. UNCHANGED <<model, shown, values, toServer, age, strayed>> /\ toClient' = Answered(e)
        BY <1>5 DEF AfterUpdate, widgetVars
    <2>2. ViewIsLedTo'
        BY <2>1 DEF InStepInv, ViewIsLedTo
    <2> QED  BY <2>1, <2>2, AnsweringKeepsFresh
<1>6. ASSUME ViewRequest
      PROVE  ViewIsLedTo' /\ AnswersAreFresh'
    <2>1. Received("requestView") /\ toServer' = Tail(toServer) /\ toClient' = Answered(Head(toServer).element)
        BY <1>6 DEF ViewRequest
    <2>2. UNCHANGED <<model, shown, values, age, strayed>>
        BY <1>6 DEF ViewRequest, widgetVars
    <2>3. Head(toServer).element \in Elements
        <3>1. Head(toServer) \in Messages
            BY <2>1, ReceivedIsTyped DEF InStepInv, Received
        <3> QED  BY <3>1 DEF Messages
    <2> QED  BY <2>1, <2>2, <2>3, ReceivingKeepsStep, AnsweringKeepsFresh
<1>7. ASSUME LabelEdit
      PROVE  ViewIsLedTo' /\ AnswersAreFresh'
    <2>1. Received("applyLabelEdit") /\ toServer' = Tail(toServer)
        BY <1>7 DEF LabelEdit
    <2>2. UNCHANGED <<model, shown, values, toClient, age, strayed>>
        BY <1>7 DEF LabelEdit, widgetVars
    <2>3. AnswersAreFresh'
        BY <2>2 DEF InStepInv, AnswersAreFresh, FreshAnswer
    <2> QED  BY <2>1, <2>2, <2>3, ReceivingKeepsStep
<1>8. ASSUME UNCHANGED propertyVars
      PROVE  ViewIsLedTo' /\ AnswersAreFresh'
    BY <1>8 DEF InStepInv, ViewIsLedTo, AnswersAreFresh, FreshAnswer,
                propertyVars, widgetVars, channelVars
<1>9. ViewIsLedTo' /\ AnswersAreFresh'
    BY <1>3, <1>4, <1>5, <1>6, <1>7, <1>8, EditPropertyInStep, SelectionInStep,
       ChangedElsewhereInStep, PropertyEditInStep DEF PropertyNext
<1> QED  BY <1>1, <1>2, <1>9 DEF InStepInv

(* The list ViewIsInStep computes is the one the queue leads to.            *)
LEMMA LedToInStep == InStepInv => ViewIsInStep
<1> DEFINE list == CHOOSE f : f = [i \in 0 .. Len(toServer) |->
                        IF i = 0 THEN model[shown] ELSE arrived(f[i - 1], toServer[i], shown)]
<1> SUFFICES ASSUME InStepInv, shown # NoElement, ~strayed
             PROVE  values = list[Len(toServer)]
    BY DEF ViewIsInStep
<1>1. LedTo(model[shown], toServer, shown, values)
    BY DEF InStepInv, ViewIsLedTo
<1>2. PICK f : Leads(f, model[shown], toServer, shown) /\ f[Len(toServer)] = values
    BY <1>1 DEF LedTo
<1>3. PICK n \in Nat : n = Len(toServer)
    BY DEF InStepInv, PropertyTyped
<1>4. f = [i \in 0 .. n |-> IF i = 0 THEN model[shown] ELSE arrived(f[i - 1], toServer[i], shown)]
    <2>1. \A i \in 0 .. n : i # 0 => i \in 1 .. n
        OBVIOUS
    <2> QED  BY <1>2, <1>3, <2>1 DEF Leads
<1>5. list = [i \in 0 .. n |-> IF i = 0 THEN model[shown] ELSE arrived(list[i - 1], toServer[i], shown)]
    BY <1>3, <1>4
<1> HIDE DEF list
<1> DEFINE T == {k \in Nat : k <= n => list[k] = f[k]}
<1>6. 0 \in T
    BY <1>4, <1>5
<1>7. ASSUME NEW k \in Nat, k \in T
      PROVE  k + 1 \in T
    <2>1. ASSUME k + 1 <= n
          PROVE  list[k + 1] = f[k + 1]
        <3>1. k + 1 \in 0 .. n /\ k + 1 # 0 /\ (k + 1) - 1 = k /\ list[k] = f[k]
            BY <1>7, <2>1
        <3>2. list[k + 1] = arrived(list[k], toServer[k + 1], shown)
            BY <1>5, <3>1
        <3>3. f[k + 1] = arrived(f[k], toServer[k + 1], shown)
            BY <1>4, <3>1
        <3> QED  BY <3>1, <3>2, <3>3
    <2> QED  BY <2>1
<1>8. n \in T
    <2> HIDE DEF T
    <2>1. Nat \subseteq T
        BY <1>6, <1>7, NumberSetInduction
    <2> QED  BY <2>1
<1> QED  BY <1>2, <1>3, <1>8

(* However many edits are under way and whatever they are: what the user    *)
(* sees is what the model will hold when they have arrived, unless a hook's *)
(* veto, a change from elsewhere or an answer that came too late has left   *)
(* the view behind, or the user wrote the first entry beyond the bound of a *)
(* list that is too long (PropertyEditHandler and the property widget,      *)
(* which do not wait for each other).                                       *)
THEOREM ViewStaysInStep == PropertySpec => []ViewIsInStep
<1>1. PropertyInit => InStepInv
    BY InitInStep
<1>2. InStepInv /\ [PropertyNext]_propertyVars => InStepInv'
    BY StepInStep
<1>3. InStepInv => ViewIsInStep
    BY LedToInStep
<1> QED  BY <1>1, <1>2, <1>3, PTL DEF PropertySpec
=============================================================================
