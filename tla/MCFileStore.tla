---------------------------- MODULE MCFileStore ----------------------------
(* Model-checking instance of FileStore: a short and a long model.          *)
EXTENDS FileStore, TLC
CONSTANTS short, long
TwoContents == {short, long}
Sizes == (short :> 1 @@ long :> 2)
=============================================================================
