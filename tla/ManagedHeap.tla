---------------------------- MODULE ManagedHeap ----------------------------
(***************************************************************************)
(* What a garbage collected heap promises to the program: threads allocate,*)
(* load, store and drop references as they like, and an object is taken    *)
(* back only when nobody can reach it any more; then, in the end, it is.   *)
(***************************************************************************)
CONSTANTS Threads, Objects, Statics, Null

VARIABLES
  mem,      (* the reference each object or static slot holds              *)
  locals,   (* the references each thread holds                            *)
  born,     (* objects allocated so far                                    *)
  freed     (* objects taken back                                          *)

hvars == <<mem, locals, born, freed>>

(* What the program can reach: from the static slots and the threads.      *)
HeapRoots == (UNION {locals[t] : t \in Threads}) \cup ({mem[s] : s \in Statics} \ {Null})
HeapClosed(C) == \A o \in C : mem[o] # Null => mem[o] \in C
Reachable == {o \in Objects :
  \A C \in SUBSET Objects : HeapRoots \subseteq C /\ HeapClosed(C) => o \in C}

HInit == freed = {}

HAlloc(t) == \E o \in Objects \ born :
  /\ born' = born \cup {o}
  /\ locals' = [locals EXCEPT ![t] = @ \cup {o}]
  /\ UNCHANGED <<mem, freed>>
HLoad(t) == \E s \in Statics \cup locals[t] :
  /\ mem[s] # Null
  /\ locals' = [locals EXCEPT ![t] = @ \cup {mem[s]}]
  /\ UNCHANGED <<mem, born, freed>>
HStore(t) == \E s \in Statics \cup locals[t], v \in locals[t] \cup {Null} :
  /\ mem' = [mem EXCEPT ![s] = v]
  /\ UNCHANGED <<locals, born, freed>>
HDrop(t) == \E o \in locals[t] :
  /\ locals' = [locals EXCEPT ![t] = @ \ {o}]
  /\ UNCHANGED <<mem, born, freed>>

Reclaim == \E o \in born \ (Reachable \cup freed) :
  /\ freed' = freed \cup {o}
  /\ UNCHANGED <<mem, locals, born>>

HNext == Reclaim \/ \E t \in Threads : HAlloc(t) \/ HLoad(t) \/ HStore(t) \/ HDrop(t)

HSpec == HInit /\ [][HNext]_hvars

(* Garbage does not float for ever.                                        *)
GarbageComesBack == \A o \in Objects : o \in born \ Reachable ~> o \in freed
=============================================================================
