--------------------------- MODULE MCLanguageReload ---------------------------
(* Model-checking instance of LanguageReload: a class in a subfolder and    *)
(* one in the languages folder, types of each kind, and one meta file at    *)
(* first, so that one change suffices to drop or add what annotations name. *)
EXTENDS LanguageReload
CONSTANTS h1, h2, m1, m2

Both == [handlers |-> {h1, h2}, kind |-> "plain"]
One == [handlers |-> {h1}, kind |-> "plain"]

Declared ==
    {Both, One,
     [handlers |-> {}, kind |-> "deep"], [handlers |-> {}, kind |-> "endless"]}

OneFile == [f \in MetaFiles |-> IF f = m1 THEN Both ELSE Absent]

Places == [h \in Handlers |-> IF h = h1 THEN 1 ELSE 2]
===============================================================================
