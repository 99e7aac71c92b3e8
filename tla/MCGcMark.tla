----------------------------- MODULE MCGcMark -----------------------------
(* Heaps for TLC: chains of references that cross the pages back and       *)
(* forth, so that back-edges, late marks and requeues meet; g is garbage.  *)
EXTENDS GcMark

MCObjects == {"a1", "a2", "a3", "b1", "b2", "b3", "g"}
MCPages == {"A", "B"}
MCPageOf == [o \in MCObjects |-> IF o \in {"a1", "a2", "a3", "g"} THEN "A" ELSE "B"]
MCField0 == [a1 |-> "b1", b1 |-> "a2", a2 |-> "b2", b2 |-> "Null",
             a3 |-> "b3", b3 |-> "Null", g |-> "a2"]
MCRoots == {"a1", "a3"}

(* The smaller heap of the runs with two executors.                        *)
PairObjects == {"a1", "a2", "b1", "b2"}
PairPageOf == [o \in PairObjects |-> IF o \in {"a1", "a2"} THEN "A" ELSE "B"]
PairField0 == [a1 |-> "b1", b1 |-> "a2", a2 |-> "b2", b2 |-> "Null"]
PairRoots == {"a1"}

(* The heap of the runs that overflow the ring: three pages, and chains   *)
(* behind what an overflow drops.                                          *)
WideObjects == {"x1", "x2", "z", "m", "c", "y", "d", "e"}
WidePages == {"X", "P", "D"}
WidePageOf == [o \in WideObjects |-> IF o \in {"x1", "x2", "z"} THEN "X"
                                     ELSE IF o \in {"m", "c", "y"} THEN "P" ELSE "D"]
WideField0 == [x1 |-> "m", m |-> "Null", x2 |-> "d", d |-> "c",
               c |-> "e", e |-> "y", y |-> "z", z |-> "Null"]
WideRoots == {"x1", "x2"}
WideMutable == {"x1", "x2", "d", "e"}

(* Three targets on three pages, their referents on a fourth.              *)
StarObjects == {"r1", "r2", "r3", "p", "q", "s"}
StarPages == {"R", "P", "Q", "S"}
StarPageOf == [r1 |-> "R", r2 |-> "R", r3 |-> "R", p |-> "P", q |-> "Q", s |-> "S"]
StarField0 == [r1 |-> "p", r2 |-> "q", r3 |-> "s", p |-> "Null", q |-> "Null", s |-> "Null"]
StarRoots == {"r1", "r2", "r3"}
=============================================================================
