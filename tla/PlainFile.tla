------------------------------ MODULE PlainFile ------------------------------
(***************************************************************************)
(* What saving promises, without the code that saves: a file that several  *)
(* writers overwrite and that nobody keeps apart.  A save that had the     *)
(* file for itself leaves what it was given; saves that overlap leave the  *)
(* content of one of them, or something no reader can decode.              *)
(***************************************************************************)
CONSTANTS
    Saves,          \* the saves of one file
    Contents,       \* what a model file may hold
    Torn            \* what a reader finds in any other file

VARIABLES
    text,           \* what a reader makes of the file now
    outcome,        \* how each save stands
    given,          \* the content each save was given
    overlapped      \* the saves that did not have the file for themselves

plainVars == <<text, outcome, given, overlapped>>

Writers == {s \in Saves : outcome[s] = "writing"}

PlainInit ==
    /\ text \in Contents \union {Torn}
    /\ outcome = [s \in Saves |-> "idle"]
    /\ given \in [Saves -> Contents]
    /\ overlapped = {}

Start(s, c) ==
    /\ outcome[s] = "idle"
    /\ outcome' = [outcome EXCEPT ![s] = "writing"]
    /\ given' = [given EXCEPT ![s] = c]
    /\ overlapped' = IF Writers = {} THEN overlapped ELSE overlapped \union Writers \union {s}
    /\ UNCHANGED text

(* A save is turned down before it touches the file.                        *)
Refuse(s) ==
    /\ outcome[s] = "idle"
    /\ outcome' = [outcome EXCEPT ![s] = "lost"]
    /\ UNCHANGED <<text, given, overlapped>>

(* Only a save in progress changes the file.                                *)
Alter(s) ==
    /\ outcome[s] = "writing"
    /\ text' \in {given[s], Torn}
    /\ UNCHANGED <<outcome, given, overlapped>>

(* A save reports success.                                                  *)
Finish(s) ==
    /\ outcome[s] = "writing"
    /\ s \notin overlapped => text = given[s]
    /\ outcome' = [outcome EXCEPT ![s] = "saved"]
    /\ UNCHANGED <<text, given, overlapped>>

(* A save ends without success.                                             *)
Lose(s) ==
    /\ outcome[s] = "writing"
    /\ outcome' = [outcome EXCEPT ![s] = "lost"]
    /\ UNCHANGED <<text, given, overlapped>>

(* The process ends, and with it the saves in progress.                     *)
Halt ==
    /\ Writers # {}
    /\ outcome' = [s \in Saves |-> IF s \in Writers THEN "lost" ELSE outcome[s]]
    /\ UNCHANGED <<text, given, overlapped>>

PlainNext ==
    \/ Halt
    \/ \E s \in Saves :
        \/ \E c \in Contents : Start(s, c)
        \/ Refuse(s)
        \/ Alter(s)
        \/ Finish(s)
        \/ Lose(s)

(* Every save that started ends.                                            *)
PlainFairness == \A s \in Saves : WF_plainVars(Finish(s) \/ Lose(s) \/ Halt)

PlainSpec == PlainInit /\ [][PlainNext]_plainVars /\ PlainFairness
=============================================================================
