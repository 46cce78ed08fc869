---------------------------- MODULE MCTableWrite ----------------------------
(***************************************************************************)
(* Small instances of TableWrite for TLC.  Writers w1 and w2 are two runs  *)
(* of one job (the same txn), w3 is an unrelated writer.                   *)
(***************************************************************************)
EXTENDS TableWrite

CONSTANTS w1, w2, w3, t1

MCTxnOf == [w \in Writer |-> IF w \in {w1, w2} THEN t1 ELSE NoTxn]
MCNoTxnOf == [w \in Writer |-> NoTxn]
=============================================================================
