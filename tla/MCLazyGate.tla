---------------------------- MODULE MCLazyGate ----------------------------
(* Two stubs, the initialiser of "outer" fetching "inner" (n1), and two     *)
(* independent readers of "inner": up to two of the three wait in a chain   *)
(* for the third, while the holder releases it.                             *)
EXTENDS LazyGate

MCStubs == {"inner", "outer"}
MCActs == {"o1", "n1", "i1", "i2"}
MCTarget == [a \in MCActs |-> IF a = "o1" THEN "outer" ELSE "inner"]
MCParent == [a \in MCActs |-> IF a = "n1" THEN "o1" ELSE "NULL"]
MCRank == [s \in MCStubs |-> IF s = "outer" THEN 1 ELSE 0]
=============================================================================
