----------------------------- MODULE MCFileSync -----------------------------
(* Model-checking instance of FileSync: each element takes a block more.    *)
EXTENDS FileSync
Models == [id : Clients \union {Origin}, elements : SUBSET Elements]
Sizes == [c \in Models |-> 1 + Cardinality(c.elements)]
=============================================================================
