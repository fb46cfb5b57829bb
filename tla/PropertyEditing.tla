---------------------------- MODULE PropertyEditing ----------------------------
(***************************************************************************)
(* Editing a list attribute in the property view: the widget, which changes *)
(* its own copy of the values at once, the session that holds the model,    *)
(* and the messages between them.  A message names an entry by its place.   *)
(*                                                                         *)
(* The attribute is at the top of its element and neither final nor         *)
(* readOnly; every element has one.  Values are what the type allows.       *)
(***************************************************************************)
EXTENDS Integers, Sequences, SequencesExt

CONSTANTS
    Elements,       \* model elements of the open diagram
    Values,         \* what an entry can hold ...
    Default,        \* ... getFallbackDefaultValue of the type among it
    Hole,           \* an entry nobody has written
    Gone,           \* the element has been deleted
    NoElement,      \* nothing has been selected yet
    Hooks,          \* CAN_ATTRIBUTE_CHANGE hooks of the elements' type
    Lower, Upper,   \* bounds of the attribute; Upper -1 is unlimited
    MaxEdits,       \* bound: changes made in the widget
    MaxClicks,      \* bound: clicks and label edits
    Lists,          \* what a file, an undo or a hook brings: nothing holds
                    \* these to the bounds of the attribute
    MaxElsewhere    \* bound: changes that come from elsewhere

ASSUME PropertyAssumption ==
    /\ Default \in Values /\ Hole \notin Values
    /\ NoElement \notin Elements /\ Gone \notin Seq(Values \union {Hole})
    /\ Lower \in Nat /\ Upper \in Nat \union {-1}
    /\ (Upper = -1 \/ (Upper > 1 /\ Lower <= Upper))    \* isListAttribute
    /\ MaxEdits \in Nat /\ MaxClicks \in Nat /\ MaxElsewhere \in Nat
    /\ Lists \subseteq Seq(Values)

VARIABLES
    model,          \* the list of each element, in the session
    lastTarget,     \* the element the mouse was released on last
    shown,          \* currentModelElementId of the widget ...
    values,         \* ... and its copy of the list
    toServer,       \* messages of the client, in order
    toClient,       \* answers to it, in order
    postUpdateQueue, \* elements whose view follows the next update
    edits, clicks, elsewhere,
    age,            \* auxiliary: how often an element's list was dealt with
    strayed         \* auxiliary: the view missed something

widgetVars == <<lastTarget, shown, values>>
channelVars == <<toServer, toClient, postUpdateQueue>>
boundVars == <<edits, clicks, elsewhere>>
propertyVars == <<model, widgetVars, channelVars, boundVars, age, strayed>>

Entries == Values \union {Hole}
Unbounded == Upper < Lower

canAdd(length) == Unbounded \/ Upper >= length
canDelete(length) == length >= Lower
canAssign(length) == (Unbounded \/ Upper >= length) /\ length >= 0

(* What push, an assignment by index (with holes up to it) and splice do to *)
(* an array; indices count from 0.                                          *)
Larger(m, n) == IF m > n THEN m ELSE n

performed(list, change) ==
    CASE change.kind = "addValue" -> Append(list, Default)
      [] change.kind = "assignValue" ->
            [i \in 1 .. Larger(Len(list), change.index + 1) |->
                IF i = change.index + 1 THEN change.value
                ELSE IF i <= Len(list) THEN list[i] ELSE Hole]
      [] change.kind = "deleteValue" ->
            IF change.index < Len(list) THEN RemoveAt(list, change.index + 1) ELSE list

(* What a message does to the list of element e when it arrives.            *)
IsEditOf(message, e) == message.kind = "editProperty" /\ message.element = e

arrived(list, message, e) == IF IsEditOf(message, e) THEN performed(list, message.change) ELSE list

UnderWay(e) == \E i \in DOMAIN toServer : IsEditOf(toServer[i], e)

PropertyInit ==
    /\ model \in [Elements -> Lists]
    /\ lastTarget = NoElement /\ shown = NoElement /\ values = <<>>
    /\ toServer = <<>> /\ toClient = <<>> /\ postUpdateQueue = {}
    /\ edits = 0 /\ clicks = 0 /\ elsewhere = 0
    /\ age = [e \in Elements |-> 0] /\ strayed = FALSE

-----------------------------------------------------------------------------
(* The mouse is released on an element, or on its label.                    *)
mouseUp(e) ==
    /\ clicks < MaxClicks /\ clicks' = clicks + 1
    /\ e # lastTarget
    /\ lastTarget' = e
    /\ toServer' = Append(toServer, [kind |-> "requestView", element |-> e])
    /\ UNCHANGED <<model, shown, values, toClient, postUpdateQueue, edits, elsewhere, age, strayed>>

(* A label that was edited in the diagram is sent.                          *)
EditLabel(e) ==
    /\ clicks < MaxClicks /\ clicks' = clicks + 1
    /\ toServer' = Append(toServer, [kind |-> "applyLabelEdit", element |-> e])
    /\ UNCHANGED <<model, widgetVars, toClient, postUpdateQueue, edits, elsewhere, age, strayed>>

(* The buttons and fields there are, and what the widget checks itself.     *)
Offered ==
    {c \in [kind : {"addValue"}] : canAdd(Len(values) + 1)}
    \union {c \in [kind : {"assignValue"}, index : 0 .. Len(values) - 1, value : Values] :
                canAssign(c.index)}
    \union {c \in [kind : {"deleteValue"}, index : 0 .. Len(values) - 1] :
                canDelete(Len(values) - 1)}

(* An entry the widget lets the user write and the server does not: the     *)
(* widget checks the index, the server the place, which is one more.  In a  *)
(* list that is too long this is the first entry beyond the bound.          *)
BeyondTheBound(change) == change.kind = "assignValue" /\ ~canAssign(change.index + 1)

(* addPropertyValue, assignPropertyValue, deletePropertyValue: the widget's *)
(* copy changes, and the session is told.                                   *)
EditProperty(change) ==
    /\ edits < MaxEdits /\ edits' = edits + 1
    /\ shown # NoElement
    /\ change \in Offered
    /\ values' = performed(values, change)
    /\ toServer' = Append(toServer, [kind |-> "editProperty", element |-> shown, change |-> change])
    /\ strayed' = (strayed \/ BeyondTheBound(change))
    /\ UNCHANGED <<model, lastTarget, shown, toClient, postUpdateQueue, clicks, elsewhere, age>>

(* updatePropertySelection, when an answer arrives.  If the element changed *)
(* since it was given, or will by what the user did since, the view has      *)
(* missed that; any other answer brings it back in step.                    *)
updatePropertySelection ==
    /\ toClient # <<>>
    /\ LET answer == Head(toClient) IN
        /\ shown' = answer.element
        /\ values' = answer.values
        /\ strayed' = (answer.age # age[answer.element] \/ UnderWay(answer.element))
    /\ toClient' = Tail(toClient)
    /\ UNCHANGED <<model, lastTarget, toServer, postUpdateQueue, boundVars, age>>

-----------------------------------------------------------------------------
Received(kind) == toServer # <<>> /\ Head(toServer).kind = kind

(* PropertyViewHandler answers for elements of its model only.              *)
Answered(e) ==
    IF model[e] = Gone THEN toClient
    ELSE Append(toClient, [element |-> e, values |-> model[e], age |-> age[e]])

ViewRequest ==
    /\ Received("requestView")
    /\ toServer' = Tail(toServer)
    /\ toClient' = Answered(Head(toServer).element)
    /\ UNCHANGED <<model, widgetVars, postUpdateQueue, boundVars, age, strayed>>

(* ApplyLabelEditHandler, of which only the request for the view concerns   *)
(* the lists; it is dispatched after the next update.                       *)
LabelEdit ==
    /\ Received("applyLabelEdit")
    /\ toServer' = Tail(toServer)
    /\ LET e == Head(toServer).element IN
        postUpdateQueue' = IF model[e] = Gone THEN postUpdateQueue ELSE postUpdateQueue \union {e}
    /\ UNCHANGED <<model, widgetVars, toClient, boundVars, age, strayed>>

AfterUpdate(e) ==
    /\ e \in postUpdateQueue
    /\ postUpdateQueue' = postUpdateQueue \ {e}
    /\ toClient' = Answered(e)
    /\ UNCHANGED <<model, widgetVars, toServer, boundVars, age, strayed>>

(* Mutant: the next length is confused with the length.                     *)
checkConstraintOffByOne(list, change) ==
    CASE change.kind = "addValue" -> canAdd(Len(list))
      [] change.kind = "deleteValue" -> canDelete(Len(list) - 1)
      [] change.kind = "assignValue" -> canAssign(change.index + 1)

checkConstraint(list, change) ==
    CASE change.kind = "addValue" -> canAdd(Len(list) + 1)
      [] change.kind = "deleteValue" -> canDelete(Len(list) - 1)
      [] change.kind = "assignValue" -> canAssign(change.index + 1)

(* HookManager.executeHook: each hook agrees, refuses or throws.            *)
executeHook(outcome) == \A h \in Hooks : outcome[h] = "agrees"

Accepted(edit) == model[edit.element] # Gone /\ checkConstraint(model[edit.element], edit.change)

(* Mutant: an entry is deleted by storing what splice returns.              *)
PropertyEditKeepsTheDeleted ==
    /\ Received("editProperty")
    /\ toServer' = Tail(toServer)
    /\ LET edit == Head(toServer) IN
        IF Accepted(edit)
        THEN /\ model' = [model EXCEPT ![edit.element] =
                    IF edit.change.kind = "deleteValue" /\ edit.change.index < Len(@)
                    THEN <<@[edit.change.index + 1]>> ELSE performed(@, edit.change)]
             /\ age' = [age EXCEPT ![edit.element] = @ + 1]
             /\ UNCHANGED strayed
        ELSE UNCHANGED <<model, age, strayed>>
    /\ UNCHANGED <<widgetVars, toClient, postUpdateQueue, boundVars>>

(* PropertyEditHandler.  Nobody tells the widget of an edit that a hook     *)
(* vetoed.  (The save and the update of the diagram concern no list.)       *)
PropertyEdit ==
    /\ Received("editProperty")
    /\ toServer' = Tail(toServer)
    /\ LET edit == Head(toServer) IN
        IF Accepted(edit)
        THEN /\ \E outcome \in [Hooks -> {"agrees", "refuses", "throws"}] :
                /\ model' = IF executeHook(outcome)
                            THEN [model EXCEPT ![edit.element] = performed(@, edit.change)] ELSE model
                /\ strayed' = (strayed \/ (~executeHook(outcome) /\ shown = edit.element))
             /\ age' = [age EXCEPT ![edit.element] = @ + 1]
        ELSE UNCHANGED <<model, age, strayed>>
    /\ UNCHANGED <<widgetVars, toClient, postUpdateQueue, boundVars>>

(* The model is replaced from the file, undone, or changed by another       *)
(* handler: an element's list changes or the element goes, and the widget   *)
(* is not told either.                                                      *)
ChangedElsewhere(e) ==
    /\ elsewhere < MaxElsewhere /\ elsewhere' = elsewhere + 1
    /\ model[e] # Gone
    /\ \E content \in Lists \union {Gone} :
        content # model[e] /\ model' = [model EXCEPT ![e] = content]
    /\ age' = [age EXCEPT ![e] = @ + 1]
    /\ strayed' = (strayed \/ shown = e)
    /\ UNCHANGED <<widgetVars, channelVars, edits, clicks>>

PropertyNext ==
    \/ \E e \in Elements : mouseUp(e) \/ EditLabel(e) \/ AfterUpdate(e) \/ ChangedElsewhere(e)
    \/ \E change \in Offered : EditProperty(change)
    \/ updatePropertySelection
    \/ ViewRequest \/ LabelEdit \/ PropertyEdit

PropertySpec == PropertyInit /\ [][PropertyNext]_propertyVars

-----------------------------------------------------------------------------
(* What the user sees is what the model will hold once the edits that are   *)
(* on their way have arrived, although neither side waits for the other:    *)
(* unless a hook's veto, a change from elsewhere or an answer given before  *)
(* the last edits has left the view behind, or the user wrote the first     *)
(* entry beyond the bound of a list that came too long, which the server    *)
(* refuses without a word; the next answer heals that.                      *)
ViewIsInStep ==
    shown # NoElement /\ ~strayed =>
        LET list[i \in 0 .. Len(toServer)] ==
                IF i = 0 THEN model[shown] ELSE arrived(list[i - 1], toServer[i], shown)
        IN  values = list[Len(toServer)]

(* No edit moves a list out of the attribute's bounds, whatever the widget  *)
(* that sent it took the list to be; only what comes from elsewhere may.    *)
BoundsAreKept ==
    [][\A e \in Elements :
        UNCHANGED elsewhere /\ model[e] # Gone /\ model'[e] # Gone =>
            /\ ~Unbounded /\ Len(model[e]) <= Upper => Len(model'[e]) <= Upper
            /\ Len(model[e]) >= Lower => Len(model'[e]) >= Lower]_propertyVars
=============================================================================
