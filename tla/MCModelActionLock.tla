------------------------- MODULE MCModelActionLock -------------------------
(* Model-checking instance of ModelActionLock. *)
EXTENDS ModelActionLock
=============================================================================
