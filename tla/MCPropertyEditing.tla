-------------------------- MODULE MCPropertyEditing --------------------------
(* Model-checking instance of PropertyEditing.  Only one value is a default; *)
(* lists that come from elsewhere are too short, right or too long.          *)
EXTENDS PropertyEditing, TLC
CONSTANTS d, v
SmallLists == {<<>>, <<d>>, <<v, d, v>>}
Alike == Permutations(Elements)
=============================================================================
