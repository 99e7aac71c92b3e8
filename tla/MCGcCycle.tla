----------------------------- MODULE MCGcCycle -----------------------------
(* Small heaps for TLC: a static slot S, objects a and b that are there when*)
(* the model starts, and c, which is not born yet.                          *)
EXTENDS GcCycle, TLC

CONSTANTS t1, t2, a, b, c, S

TwoThreads == {t1, t2}
AandC == {a, c}
AandB == {a, b}
OneStatic == {S}
HeapEmpty == [s \in Slots |-> Null]
HeapSab == [s \in Slots |-> CASE s = S -> a [] s = a -> b [] OTHER -> Null]
NoLocals == [t \in Threads |-> {}]
T2HoldsA == [t \in Threads |-> IF t = t2 THEN {a} ELSE {}]
FirstReturns == {t1}
=============================================================================
