--------------------------- MODULE MCDedupWrapper ---------------------------
(* Small archives for DedupWrapper. *)
EXTENDS DedupWrapper, TLC

CONSTANTS t1, t2, e1, e2, e3, e4, e5, e6

OfTwo == [e \in Entries |-> IF e \in {e1, e2, e3, e4} THEN t1 ELSE t2]
=============================================================================
