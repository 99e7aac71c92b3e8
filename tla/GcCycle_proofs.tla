--------------------------- MODULE GcCycle_proofs ---------------------------
(***************************************************************************)
(* Proofs about GcCycle, for any threads, objects, static slots and store  *)
(* macros: no store hides an object from the marker, nobody's stack is     *)
(* scanned while it runs, and the collector is a ManagedHeap.              *)
(***************************************************************************)
EXTENDS GcCycle, TLAPS

Opening == {"open", "statics", "ask"}
Scanning == {"pick", "scan", "resume", "decide"}
Storing == {"inline", "once", "before", "overwrite", "flush", "old", "shade",
            "grey", "expected", "write", "publish", "seen"}
Exclusively == Opening \cup Scanning   \* fsa_lock is held
Plain(t) == op[t].kind # "cas"

Stored == [kind : Kinds \cup {"none"}, slot : Slots \cup {Null},
           value : Objects \cup {Null}, expected : Objects \cup {Null},
           over : BOOLEAN]

(* The types, without what they owe to liveness of objects.                *)
Types ==
  /\ mem \in [Slots -> Objects \cup {Null}]
  /\ locals \in [Threads -> SUBSET Objects]
  /\ where \in [Objects -> {"none", "new", "pool", "freed"}]
  /\ owner \in [Objects -> Threads \cup {Null}]
  /\ marked \subseteq Objects /\ scanned \subseteq marked
  /\ toPrune \subseteq {o \in Objects : where[o] = "pool"}
  /\ stage \in Stages /\ fsaLock \in Threads \cup {Null} /\ barrier \in BOOLEAN
  /\ tstate \in [Threads -> {"RUNNING", "SUSPENDED", "SUSPENDED_SCAN"}]
  /\ rootsScanned \in [Threads -> BOOLEAN] /\ request \in [Threads -> BOOLEAN]
  /\ grey \in [Threads -> Slots \cup {Null}]
  /\ pc \in [Threads -> PCs]
  /\ op \in [Threads -> Stored]
  /\ held \in [Threads -> Objects \cup {Null}]
  /\ todo \subseteq Statics \cup Threads
  /\ scanning \in Threads \cup {Null}
  /\ stores \in 0 .. MaxStores

-----------------------------------------------------------------------------
(* The stages.                                                             *)

LockAgrees == \A t \in Threads : fsaLock = t <=> pc[t] \in Exclusively
StageAgrees ==
  /\ \A t \in Threads : pc[t] \in Opening => stage = "START"
  /\ \A t \in Threads : pc[t] \in Scanning => stage = "SCAN_ROOTS"
  /\ barrier <=> \/ stage \in {"SCAN_ROOTS", "MARK"}
                 \/ \E t \in Threads : pc[t] \in {"statics", "ask"}
  /\ \A t \in Threads : pc[t] = "statics" => todo \subseteq Statics
  /\ \A t \in Threads : pc[t] = "ask" => todo \subseteq Threads
(* A thread is asked for its roots from OpenAsk to its scan.               *)
RequestAgrees ==
  /\ \A u \in Threads : request[u] =>
       /\ ~rootsScanned[u]
       /\ stage = "SCAN_ROOTS" \/ \E t \in Threads : pc[t] = "ask"
  /\ \A t, u \in Threads : pc[t] = "ask" /\ u \notin todo => request[u]
  /\ stage = "SCAN_ROOTS" => \A u \in Threads : request[u] \/ rootsScanned[u]
  /\ stage = "MARK" => \A u \in Threads : rootsScanned[u]
(* Whoever is scanned is not in the middle of anything.                    *)
ScanAgrees ==
  /\ \A t \in Threads : pc[t] \in {"scan", "resume"} =>
       scanning \in Threads /\ (scanning = t \/ pc[scanning] = "io")
  /\ \A t \in Threads : pc[t] = "scan" => ~rootsScanned[scanning]
  /\ scanning # Null => \E t \in Threads : pc[t] \in {"scan", "resume"}
SetsAgree ==
  /\ stage # "PRUNE" => toPrune = {}
  /\ stage = "MARK" => scanned \subseteq {o \in Objects : where[o] = "pool"}
  /\ stage = "PRUNE" => scanned \subseteq toPrune
  /\ stage \notin {"MARK", "PRUNE"} => scanned = {}
BirthAgrees == \A o \in Objects :
  /\ where[o] = "none" => mem[o] = Null
  /\ where[o] = "new" => owner[o] \in Threads

-----------------------------------------------------------------------------
(* The stores.                                                             *)

OpAgrees == \A t \in Threads :
  /\ pc[t] \notin Storing => op[t] = Idle
  /\ pc[t] \in Storing =>
       /\ op[t].kind \in AllKinds
       /\ op[t].slot \in locals[t] \cup Statics
       /\ op[t].value \in locals[t] \cup {Null}
       /\ op[t].expected \in locals[t] \cup {Null}
       /\ op[t].kind \in {"root", "cas"} => op[t].slot \in Statics
  /\ pc[t] \in {"inline", "once"} => op[t].kind \in {"store", "publish"}
  /\ pc[t] \in {"before", "flush", "grey"} => op[t].kind \in {"store", "publish", "cas"}
  /\ pc[t] = "overwrite" => op[t].kind = "root"
  /\ pc[t] = "expected" => op[t].kind = "cas"
  /\ op[t].kind = "fill" =>
       /\ pc[t] = "write" => owner[op[t].slot] = t /\ mem[op[t].slot] = Null
       /\ pc[t] = "write"
       /\ op[t].slot \in Objects
HeldAgrees == \A t \in Threads :
  /\ held[t] # Null => pc[t] \in {"shade", "seen"}
  /\ pc[t] = "shade" /\ Plain(t) => held[t] = mem[op[t].slot]
GreyAgrees == \A t \in Threads :
  /\ grey[t] # Null => request[t]
  /\ pc[t] \in {"old", "shade", "grey"} /\ op[t].kind # "root" => grey[t] = Null

Busy(t) == pc[t] \in Storing \ {"publish", "seen"}
(* One thread stores into a slot, or several CAS it; ...                   *)
Exclusive == \A t, u \in Threads :
  pc[t] \in Storing /\ pc[u] \in Storing /\ op[t].slot = op[u].slot =>
    t = u \/ (~Plain(t) /\ ~Plain(u))
(* ... what a CAS brings nobody has seen; ...                              *)
FreshValue == \A t \in Threads :
  Busy(t) /\ ~Plain(t) /\ op[t].value # Null => Private(t, op[t].value)
(* ... and a first store finds the slot empty.                             *)
FirstStore == \A t \in Threads :
  Busy(t) /\ Plain(t) /\ ~op[t].over => mem[op[t].slot] = Null

-----------------------------------------------------------------------------
(* The marker's view.  A thread is black once its roots are scanned; young *)
(* objects are those a black thread has allocated, which the cycle keeps   *)
(* without following them.                                                 *)
Black(t) == stage \in {"SCAN_ROOTS", "MARK"} /\ rootsScanned[t]
White(t) == barrier /\ ~Black(t)
Young == {o \in Objects : where[o] = "new" /\ owner[o] \in Threads /\ Black(owner[o])}
ReadStatics == {s \in Statics : barrier /\ \A t \in Threads : pc[t] = "statics" => s \notin todo}

(* Slots whose reference is about to be overwritten by a thread that may   *)
(* not have shaded it: a white thread read the flag before the cycle.      *)
Stale == {s \in Slots : \E t \in Threads :
            White(t) /\ pc[t] \in {"grey", "write"} /\ Plain(t) /\ op[t].slot = s}

(* What the marker will get to: marks, and what the unscanned threads are  *)
(* bound to mark, and what these lead to.                                  *)
WillMark ==
  marked \cup
  (({held[t] : t \in {u \in Threads : White(u)}} \cup
   {mem[grey[t]] : t \in {u \in Threads : grey[u] \in Slots \ Stale}} \cup
   {mem[op[t].slot] : t \in {u \in Threads : White(u) /\ pc[u] = "publish"
                                             /\ op[u].slot \in ReadStatics}}) \ {Null})
KeptEdges(C) == \A o \in C \ (Young \cup scanned \cup Stale) : mem[o] # Null => mem[o] \in C
Kept == {o \in Objects : \A C \in SUBSET Objects : WillMark \subseteq C /\ KeptEdges(C) => o \in C}

(* What a black thread holds, what a slot it can load from holds, is kept. *)
Safe == Kept \cup Young \cup {Null}
BlackKept == \A t \in Threads : Black(t) => locals[t] \cup {held[t]} \subseteq Safe
StaticsKept == \A s \in ReadStatics : mem[s] \in Safe
YoungKept == \A o \in Young : mem[o] \in Safe
ScannedKept == stage = "MARK" => \A o \in scanned : mem[o] \in Safe

(* A store has shaded what it overwrites, or its thread is white and still *)
(* holds it.                                                               *)
Shaded(o) == o \in marked \cup {Null}
WriteShaded == \A t \in Threads : barrier /\ Plain(t) /\ pc[t] \in {"grey", "write"} =>
  \/ Shaded(mem[op[t].slot])
  \/ White(t) /\ op[t].slot \notin ReadStatics \cup Young
CasShaded == \A t \in Threads :
  ~Plain(t) /\ pc[t] = "write" /\ op[t].slot \in ReadStatics /\ mem[op[t].slot] = op[t].expected =>
    Shaded(op[t].expected)
(* A white thread that stores into a young object remembers the slot.      *)
InsertKept == \A t \in Threads : White(t) /\ pc[t] \in Storing /\ op[t].slot \in Young
    => (pc[t] = "write" => grey[t] = op[t].slot)

(* What is not reclaimed.                                                  *)
LiveRoots == marked \cup
  (((UNION {locals[t] : t \in Threads}) \cup {mem[s] : s \in Statics} \cup
   {held[t] : t \in Threads} \cup ({grey[t] : t \in Threads} \ Statics)) \ {Null})
LiveClosed(C) == \A o \in C : mem[o] # Null => mem[o] \in C
Live == {o \in Objects : \A C \in SUBSET Objects : LiveRoots \subseteq C /\ LiveClosed(C) => o \in C}
LivePresent == \A o \in Live : where[o] \in {"new", "pool"}
LivePruned == stage = "PRUNE" => Live \cap toPrune \subseteq marked

Control == LockAgrees /\ StageAgrees /\ RequestAgrees /\ ScanAgrees /\ ScannedThreadHeld /\ SetsAgree
Stores == BirthAgrees /\ OpAgrees /\ HeldAgrees /\ GreyAgrees /\ Exclusive /\ FreshValue /\ FirstStore
Marker == BlackKept /\ StaticsKept /\ YoungKept /\ ScannedKept /\ WriteShaded /\ CasShaded /\ InsertKept
Heap == LivePresent /\ LivePruned
IInv == Types /\ Control /\ Stores /\ Marker /\ Heap

-----------------------------------------------------------------------------
(* What steps outside the exclusive stages leave of the control.           *)
LEMMA ControlQuiet ==
  ASSUME LockAgrees, StageAgrees, RequestAgrees, ScanAgrees,
         UNCHANGED <<stage, fsaLock, barrier, todo, scanning, rootsScanned, request>>,
         \A u \in Threads : pc[u] \in Exclusively \/ pc'[u] \in Exclusively => pc'[u] = pc[u],
         \A u \in Threads : scanning = u /\ pc[u] = "io" => pc'[u] = "io"
  PROVE  LockAgrees' /\ StageAgrees' /\ RequestAgrees' /\ ScanAgrees'
<1> USE DEF Exclusively, Opening, Scanning
<1>1. LockAgrees'
  BY DEF LockAgrees
<1>2. StageAgrees'
  <2>1. \A u \in Threads : pc'[u] \in Opening => stage' = "START"
    BY DEF StageAgrees
  <2>2. \A u \in Threads : pc'[u] \in Scanning => stage' = "SCAN_ROOTS"
    BY DEF StageAgrees
  <2>3. (\E u \in Threads : pc[u] \in {"statics", "ask"})
          <=> (\E u \in Threads : pc'[u] \in {"statics", "ask"})
    OBVIOUS
  <2>4. \A u \in Threads : (pc'[u] = "statics" => todo' \subseteq Statics)
                        /\ (pc'[u] = "ask" => todo' \subseteq Threads)
    BY DEF StageAgrees
  <2> QED
    BY <2>1, <2>2, <2>3, <2>4 DEF StageAgrees
<1>3. RequestAgrees'
  <2>1. \A u \in Threads : pc'[u] = "ask" <=> pc[u] = "ask"
    OBVIOUS
  <2> QED
    BY <2>1 DEF RequestAgrees
<1>4. ScanAgrees'
  <2>1. \A u \in Threads : (pc'[u] = "scan" <=> pc[u] = "scan")
                        /\ (pc'[u] = "resume" <=> pc[u] = "resume")
    OBVIOUS
  <2> QED
    BY <2>1 DEF ScanAgrees
<1> QED
  BY <1>1, <1>2, <1>3, <1>4

(* What steps outside the stores leave of them.                            *)
LEMMA StoresQuiet ==
  ASSUME OpAgrees, HeldAgrees, Exclusive, FreshValue, FirstStore,
         UNCHANGED <<mem, locals, owner, op, held>>,
         \A u \in Threads : pc[u] \in Storing \/ pc'[u] \in Storing => pc'[u] = pc[u]
  PROVE  OpAgrees' /\ HeldAgrees' /\ Exclusive' /\ FreshValue' /\ FirstStore'
<1>1. OpAgrees'
  BY DEF OpAgrees, Storing
<1>2. HeldAgrees'
  BY DEF HeldAgrees, Plain, Storing
<1>3. Exclusive'
  BY DEF Exclusive, Plain
<1>4. FreshValue'
  BY DEF FreshValue, Plain, Busy, Private
<1>5. FirstStore'
  BY DEF FirstStore, Plain, Busy
<1> QED
  BY <1>1, <1>2, <1>3, <1>4, <1>5


-----------------------------------------------------------------------------
(* Every step keeps the types.                                             *)
LEMMA InitTypes == Init => Types
<1> SUFFICES ASSUME Init PROVE Types
  OBVIOUS
<1>1. Idle \in Stored
  BY DEF Idle, Stored
<1>2. where \in [Objects -> {"none", "new", "pool", "freed"}]
  BY DEF Init
<1>3. op \in [Threads -> Stored]
  BY <1>1 DEF Init
<1>4. /\ pc \in [Threads -> PCs]
      /\ tstate \in [Threads -> {"RUNNING", "SUSPENDED", "SUSPENDED_SCAN"}]
      /\ rootsScanned \in [Threads -> BOOLEAN] /\ request \in [Threads -> BOOLEAN]
  BY DEF Init, PCs
<1>5. /\ owner \in [Objects -> Threads \cup {Null}]
      /\ grey \in [Threads -> Slots \cup {Null}]
      /\ held \in [Threads -> Objects \cup {Null}]
  BY DEF Init
<1>6. stores \in 0 .. MaxStores
  BY HeapAssumption DEF Init
<1>7. /\ mem \in [Slots -> Objects \cup {Null}]
      /\ locals \in [Threads -> SUBSET Objects]
  BY HeapAssumption DEF Init
<1> QED
  BY <1>2, <1>3, <1>4, <1>5, <1>6, <1>7 DEF Init, Types, Stages

(* A step of a store that only shades and moves on.                        *)
LEMMA StepTypes ==
  ASSUME Types, NEW t \in Threads, NEW from, NEW to \in PCs, Step(t, from, to),
         marked' \subseteq Objects, marked \subseteq marked',
         grey' \in [Threads -> Slots \cup {Null}],
         held' \in [Threads -> Objects \cup {Null}]
  PROVE  Types'
<1>1. pc' \in [Threads -> PCs]
  BY DEF Types, Step, Goto
<1>2. scanned' \subseteq marked'
  BY DEF Types, Step
<1> QED
  BY <1>1, <1>2 DEF Types, Step, progVars, gcVars

LEMMA NextTypes ==
  ASSUME Types, StageAgrees, ScanAgrees, OpAgrees, [Next]_vars
  PROVE  Types'
<1> USE HeapAssumption
<1>1. ASSUME NEW t \in Threads, Alloc(t) PROVE Types'
  <2>1. PICK o \in Objects : /\ where[o] = "none"
                             /\ where' = [where EXCEPT ![o] = "new"]
                             /\ owner' = [owner EXCEPT ![o] = t]
                             /\ locals' = [locals EXCEPT ![t] = @ \cup {o}]
                             /\ marked' = IF request[t] THEN marked \cup {o} ELSE marked
    BY <1>1 DEF Alloc
  <2> QED
    BY <1>1, <2>1 DEF Types, PCs, Stages, Alloc, gcVars, thrVars, opVars
<1>2. ASSUME NEW t \in Threads, Load(t) PROVE Types'
  <2>1. PICK s \in Slots : mem[s] # Null /\ locals' = [locals EXCEPT ![t] = @ \cup {mem[s]}]
    BY <1>2 DEF Load, Readable, Types, Slots
  <2> QED
    BY <1>2, <2>1 DEF Types, PCs, Stages, Load, objVars, gcVars, thrVars, opVars
<1>3. ASSUME NEW t \in Threads, Drop(t) PROVE Types'
  BY <1>3 DEF Types, PCs, Stages, Drop, objVars, gcVars, thrVars, opVars
<1>4. ASSUME NEW t \in Threads, Begin(t) PROVE Types'
  <2>1. PICK k \in Kinds, s \in Slots, v \in locals[t] \cup {Null} :
          LET e == IF k = "cas" THEN mem[s] ELSE Null IN
          /\ op' = [op EXCEPT ![t] = [kind |-> k, slot |-> s, value |-> v,
                                      expected |-> e, over |-> mem[s] # Null]]
          /\ locals' = [locals EXCEPT ![t] = @ \cup ({e} \ {Null})]
          /\ Goto(t, Entry[k])
    BY <1>4 DEF Begin
  <2>2. Entry[k] \in PCs
    BY DEF Entry, AllKinds, PCs
  <2>3. pc' \in [Threads -> PCs]
    BY <2>1, <2>2 DEF Goto, Types
  <2>4. op' \in [Threads -> Stored]
    BY <2>1 DEF Stored, Types, Slots
  <2>5. locals' \in [Threads -> SUBSET Objects]
    BY <2>1 DEF Types
  <2>6. stores' \in 0 .. MaxStores
    BY <1>4 DEF Begin, Types
  <2> QED
    BY <1>4, <2>3, <2>4, <2>5, <2>6 DEF Types, Begin, objVars, thrVars
<1>5. ASSUME NEW t \in Threads, IoBegin(t) PROVE Types'
  BY <1>5 DEF Types, PCs, Stages, IoBegin, Goto, heapVars, progVars, objVars, opVars
<1>6. ASSUME NEW t \in Threads, IoEnd(t) PROVE Types'
  BY <1>6 DEF Types, PCs, Stages, IoEnd, Goto, heapVars, progVars, objVars, opVars
<1>0. Idle \in Stored
  BY DEF Idle, Stored
<1>8. \A t \in Threads : pc[t] \in Storing =>
        /\ mem[op[t].slot] \in Objects \cup {Null}
        /\ op[t].slot \in Slots
        /\ op[t].expected \in Objects \cup {Null}
        /\ op[t].value \in Objects \cup {Null}
  BY DEF OpAgrees, Types, Slots
<1>9. \A t \in Threads : GreyTarget(t) \subseteq Objects
  BY DEF GreyTarget, Types
<1>10. ASSUME NEW t \in Threads, Inline(t) \/ Once(t) \/ Before(t) \/ Overwrite(t) PROVE Types'
  <2>1. PICK from, to \in PCs : Step(t, from, to)
    BY <1>10 DEF Inline, Once, Before, Overwrite, AfterBefore, PCs
  <2>2. UNCHANGED <<marked, grey, held>>
    BY <1>10 DEF Inline, Once, Before, Overwrite
  <2>3. marked' \subseteq Objects /\ marked \subseteq marked'
        /\ grey' \in [Threads -> Slots \cup {Null}]
        /\ held' \in [Threads -> Objects \cup {Null}]
    BY <2>2 DEF Types
  <2> QED
    BY StepTypes, <2>1, <2>3
<1>11. ASSUME NEW t \in Threads, Flush(t) PROVE Types'
  <2>1. marked' \subseteq Objects /\ marked \subseteq marked'
        /\ grey' \in [Threads -> Slots \cup {Null}]
        /\ held' \in [Threads -> Objects \cup {Null}]
    BY <1>9, <1>11 DEF Flush, GreyFlush, Types
  <2>2. Step(t, "flush", "old") /\ "old" \in PCs
    BY <1>11 DEF Flush, PCs
  <2> QED
    BY StepTypes, <2>1, <2>2
<1>12. ASSUME NEW t \in Threads, Old(t) PROVE Types'
  <2>1. marked' \subseteq Objects /\ marked \subseteq marked'
        /\ grey' \in [Threads -> Slots \cup {Null}]
        /\ held' \in [Threads -> Objects \cup {Null}]
    BY <1>8, <1>12 DEF Old, Step, Storing, Types
  <2>2. Step(t, "old", "shade") /\ "shade" \in PCs
    BY <1>12 DEF Old, PCs
  <2> QED
    BY StepTypes, <2>1, <2>2
<1>13. ASSUME NEW t \in Threads, Shade(t) PROVE Types'
  <2>1. marked' \subseteq Objects /\ marked \subseteq marked'
        /\ grey' \in [Threads -> Slots \cup {Null}]
        /\ held' \in [Threads -> Objects \cup {Null}]
    BY <1>13 DEF Shade, Mark, Types
  <2>2. PICK to \in PCs : Step(t, "shade", to)
    BY <1>13 DEF Shade, PCs
  <2> QED
    BY StepTypes, <2>1, <2>2
<1>14. ASSUME NEW t \in Threads, Grey(t) PROVE Types'
  <2>1. marked' \subseteq Objects /\ marked \subseteq marked'
        /\ grey' \in [Threads -> Slots \cup {Null}]
        /\ held' \in [Threads -> Objects \cup {Null}]
    BY <1>8, <1>14 DEF Grey, Step, Storing, Types
  <2>2. PICK to \in PCs : Step(t, "grey", to)
    BY <1>14 DEF Grey, AfterBefore, PCs
  <2> QED
    BY StepTypes, <2>1, <2>2
<1>15. ASSUME NEW t \in Threads, Expected(t) PROVE Types'
  <2>1. marked' \subseteq Objects /\ marked \subseteq marked'
        /\ grey' \in [Threads -> Slots \cup {Null}]
        /\ held' \in [Threads -> Objects \cup {Null}]
    BY <1>8, <1>15 DEF Expected, Step, Storing, Mark, Types
  <2>2. Step(t, "expected", "write") /\ "write" \in PCs
    BY <1>15 DEF Expected, PCs
  <2> QED
    BY StepTypes, <2>1, <2>2
<1>16. ASSUME NEW t \in Threads, Write(t) PROVE Types'
  <2>1. /\ mem' \in [Slots -> Objects \cup {Null}]
        /\ locals' \in [Threads -> SUBSET Objects]
    BY <1>8, <1>16 DEF Write, Storing, Types
  <2>2. /\ pc' \in [Threads -> PCs]
        /\ op' \in [Threads -> Stored]
    BY <1>0, <1>16 DEF Write, Goto, Finish, Types, PCs
  <2> QED
    BY <1>16, <2>1, <2>2 DEF Types, PCs, Stages, Write, objVars, gcVars, thrVars
<1>17. ASSUME NEW t \in Threads, Publish(t) \/ Seen(t) PROVE Types'
  <2>1. /\ pc' \in [Threads -> PCs]
        /\ op' \in [Threads -> Stored]
    BY <1>0, <1>17 DEF Publish, Seen, Finish, Goto, Types, PCs
  <2>2. held' \in [Threads -> Objects \cup {Null}] /\ marked \subseteq marked' /\ marked' \subseteq Objects
    BY <1>8, <1>17 DEF Publish, Seen, Mark, Storing, heapVars, objVars, Types
  <2> QED
    BY <1>17, <2>1, <2>2 DEF Types, PCs, Stages, Publish, Seen, heapVars, progVars, objVars, gcVars, thrVars
<1>18. ASSUME NEW t \in Threads, Enter(t) PROVE Types'
  BY <1>18 DEF Types, PCs, Stages, Enter, Goto, heapVars, progVars, objVars, thrVars, opVars
<1>19. ASSUME NEW t \in Threads, OpenBarrier(t) PROVE Types'
  BY <1>19 DEF Types, PCs, Stages, OpenBarrier, Goto, heapVars, progVars, objVars, thrVars, opVars
<1>20. ASSUME NEW t \in Threads, OpenStatics(t) PROVE Types'
  <2>1. \A s \in todo : mem[s] \in Objects \cup {Null}
    BY <1>20 DEF OpenStatics, StageAgrees, Types, Slots
  <2> QED
    BY <1>20, <2>1 DEF Types, PCs, Stages, OpenStatics, First, Mark, Goto, progVars, thrVars, opVars
<1>21. ASSUME NEW t \in Threads, OpenAsk(t) PROVE Types'
  <2>1. pc' \in [Threads -> PCs]
    BY <1>21 DEF OpenAsk, Goto, Types, PCs
  <2>2. /\ request' \in [Threads -> BOOLEAN] /\ rootsScanned' \in [Threads -> BOOLEAN]
        /\ todo' \subseteq todo
    BY <1>21 DEF OpenAsk, Types
  <2>3. stage' \in Stages /\ fsaLock' \in Threads \cup {Null}
    BY <1>21 DEF OpenAsk, Types, Stages
  <2> QED
    BY <1>21, <2>1, <2>2, <2>3 DEF Types, OpenAsk, heapVars, progVars, objVars, opVars
<1>22. ASSUME NEW t \in Threads, ScanPick(t) PROVE Types'
  BY <1>22 DEF Types, PCs, Stages, ScanPick, Goto, heapVars, progVars, objVars, opVars
<1>23. ASSUME NEW t \in Threads, ScanThread(t) PROVE Types'
  <2>1. scanning \in Threads
    BY <1>23 DEF ScanThread, ScanAgrees
  <2>2. /\ where' \in [Objects -> {"none", "new", "pool", "freed"}]
        /\ \A o \in Objects : where[o] = "pool" => where'[o] = "pool"
    BY <1>23 DEF ScanThread, Taken, Types
  <2>3. marked' \subseteq Objects /\ marked \subseteq marked'
    BY <1>9, <1>23, <2>1 DEF ScanThread, Types
  <2> QED
    BY <1>23, <2>1, <2>2, <2>3 DEF Types, PCs, Stages, ScanThread, Goto, progVars, gcVars, opVars
<1>24. ASSUME NEW t \in Threads, ScanResume(t) \/ ScanDecide(t) PROVE Types'
  BY <1>24 DEF Types, PCs, Stages, ScanResume, ScanDecide, Goto, heapVars, progVars, objVars, thrVars, opVars
<1>25. ASSUME NEW t \in Threads, MarkObject(t) PROVE Types'
  <2>1. /\ marked \subseteq marked' /\ marked' \subseteq Objects
        /\ scanned' \subseteq marked'
    BY <1>25 DEF MarkObject, Mark, Types, Slots
  <2> QED
    BY <1>25, <2>1 DEF Types, MarkObject, progVars, gcVars, thrVars, opVars
<1>26. ASSUME NEW t \in Threads, Retire(t) PROVE Types'
  BY <1>26 DEF Types, PCs, Stages, Retire, progVars, objVars, thrVars, opVars
<1>27. ASSUME NEW t \in Threads, PruneObject(t) PROVE Types'
  BY <1>27 DEF Types, PCs, Stages, PruneObject, progVars, thrVars, opVars
<1>28. ASSUME NEW t \in Threads, PruneEnd(t) PROVE Types'
  BY <1>28 DEF Types, PCs, Stages, PruneEnd, heapVars, progVars, objVars, thrVars, opVars
<1>29. CASE UNCHANGED vars
  BY <1>29 DEF Types, vars, progVars, objVars, gcVars, thrVars, opVars
<1> QED
  BY <1>1, <1>2, <1>3, <1>4, <1>5, <1>6, <1>10, <1>11, <1>12, <1>13, <1>14, <1>15,
     <1>16, <1>17, <1>18, <1>19, <1>20, <1>21, <1>22, <1>23, <1>24, <1>25, <1>26,
     <1>27, <1>28, <1>29
  DEF Next, Program, StoreStep, Collect

-----------------------------------------------------------------------------
(* The lock, the stages, the requests and the scans.                       *)
LEMMA HeldQuiet ==
  ASSUME ScannedThreadHeld, UNCHANGED <<tstate, scanning>>,
         \A u \in Threads : pc'[u] = "io" <=> pc[u] = "io"
  PROVE  ScannedThreadHeld'
BY DEF ScannedThreadHeld

LEMMA SetsQuiet ==
  ASSUME SetsAgree, UNCHANGED <<stage, toPrune, scanned>>,
         \A o \in Objects : where[o] = "pool" => where'[o] = "pool"
  PROVE  SetsAgree'
BY DEF SetsAgree

(* A step of thread t that goes from one label to another, neither of them *)
(* inside the exclusive stages nor at rest in a blocking call.             *)
LEMMA ThreadQuiet ==
  ASSUME Types, Control, NEW t \in Threads, NEW l,
         pc[t] \notin Exclusively \cup {"io"}, l \notin Exclusively \cup {"io"},
         pc' = [pc EXCEPT ![t] = l],
         UNCHANGED <<stage, fsaLock, barrier, todo, scanning, rootsScanned,
                     request, tstate, toPrune, scanned>>,
         \A o \in Objects : where[o] = "pool" => where'[o] = "pool"
  PROVE  Control'
<1>1. \A u \in Threads : pc'[u] = IF u = t THEN l ELSE pc[u]
  BY DEF Types
<1>2. LockAgrees' /\ StageAgrees' /\ RequestAgrees' /\ ScanAgrees'
  <2>1. /\ \A u \in Threads : pc[u] \in Exclusively \/ pc'[u] \in Exclusively => pc'[u] = pc[u]
        /\ \A u \in Threads : scanning = u /\ pc[u] = "io" => pc'[u] = "io"
    BY <1>1
  <2> QED
    BY <2>1, ControlQuiet DEF Control
<1>3. ScannedThreadHeld'
  <2>1. \A u \in Threads : pc'[u] = "io" <=> pc[u] = "io"
    BY <1>1
  <2> QED
    BY <2>1, HeldQuiet DEF Control
<1>4. SetsAgree'
  BY SetsQuiet DEF Control
<1> QED
  BY <1>2, <1>3, <1>4 DEF Control

LEMMA InitControl == Init => Control
<1> SUFFICES ASSUME Init PROVE Control
  OBVIOUS
<1> USE HeapAssumption
<1>1. LockAgrees
  BY DEF Init, LockAgrees, Exclusively, Opening, Scanning
<1>2. StageAgrees /\ RequestAgrees /\ ScanAgrees
  BY DEF Init, StageAgrees, RequestAgrees, ScanAgrees, Opening, Scanning
<1>3. ScannedThreadHeld /\ SetsAgree
  BY DEF Init, ScannedThreadHeld, SetsAgree
<1> QED
  BY <1>1, <1>2, <1>3 DEF Control

LEMMA NextControl ==
  ASSUME Types, Control, [Next]_vars
  PROVE  Control'
<1> USE HeapAssumption
<1>0. /\ LockAgrees /\ StageAgrees /\ RequestAgrees /\ ScanAgrees
      /\ ScannedThreadHeld /\ SetsAgree
      /\ pc \in [Threads -> PCs]
  BY DEF Control, Types
<1>a. \A t, u \in Threads : pc[t] \in Exclusively /\ pc[u] \in Exclusively => t = u
  BY <1>0 DEF LockAgrees
<1>b. ASSUME NEW t \in Threads, Running(t),
             UNCHANGED <<pc, stage, fsaLock, barrier, todo, scanning, rootsScanned,
                         request, tstate, toPrune, scanned>>,
             \A o \in Objects : where[o] = "pool" => where'[o] = "pool"
      PROVE  Control'
  <2>1. pc' = [pc EXCEPT ![t] = "run"]
    BY <1>0, <1>b DEF Running
  <2> QED
    BY <1>b, <2>1, ThreadQuiet DEF Running, Exclusively, Opening, Scanning
<1>1. ASSUME NEW t \in Threads, Alloc(t) \/ Load(t) \/ Drop(t) PROVE Control'
  <2>1. \A o \in Objects : where[o] = "pool" => where'[o] = "pool"
    BY <1>1 DEF Alloc, Load, Drop, objVars, Types
  <2> QED
    BY <1>1, <1>b, <2>1 DEF Alloc, Load, Drop, objVars, gcVars, thrVars
<1>2. ASSUME NEW t \in Threads, Begin(t) PROVE Control'
  <2>1. PICK k \in Kinds : pc' = [pc EXCEPT ![t] = Entry[k]]
    BY <1>2 DEF Begin, Goto
  <2>2. Entry[k] \notin Exclusively \cup {"io"}
    BY DEF Entry, AllKinds, Exclusively, Opening, Scanning
  <2>3. pc[t] \notin Exclusively \cup {"io"}
    BY <1>2 DEF Begin, Running, Exclusively, Opening, Scanning
  <2> QED
    BY <1>2, <2>1, <2>2, <2>3, ThreadQuiet DEF Begin, objVars, thrVars
<1>3. ASSUME NEW t \in Threads, IoBegin(t) \/ IoEnd(t) PROVE Control'
  <2>1. \A u \in Threads \ {t} : pc'[u] = pc[u] /\ tstate'[u] = tstate[u]
    BY <1>3 DEF IoBegin, IoEnd, Goto, Types
  <2>2. /\ pc[t] \in {"run", "io"} /\ pc'[t] \in {"run", "io"} /\ scanning # t
        /\ tstate'[t] = IF pc'[t] = "io" THEN "SUSPENDED" ELSE "RUNNING"
    BY <1>0, <1>3 DEF IoBegin, IoEnd, Goto, Running, ScannedThreadHeld, ScanAgrees, Types
  <2>3. LockAgrees' /\ StageAgrees' /\ RequestAgrees' /\ ScanAgrees'
    <3>1. UNCHANGED <<stage, fsaLock, barrier, todo, scanning, rootsScanned, request>>
      BY <1>3 DEF IoBegin, IoEnd
    <3>2. \A u \in Threads : pc[u] \in Exclusively \/ pc'[u] \in Exclusively => pc'[u] = pc[u]
      BY <2>1, <2>2 DEF Exclusively, Opening, Scanning
    <3>3. \A u \in Threads : scanning = u /\ pc[u] = "io" => pc'[u] = "io"
      BY <2>1, <2>2
    <3> QED
      BY <1>0, <3>1, <3>2, <3>3, ControlQuiet
  <2>4. ScannedThreadHeld'
    <3>1. UNCHANGED scanning
      BY <1>3 DEF IoBegin, IoEnd
    <3> QED
      BY <1>0, <2>1, <2>2, <3>1 DEF ScannedThreadHeld
  <2>5. SetsAgree'
    BY <1>0, <1>3, SetsQuiet DEF IoBegin, IoEnd, heapVars, objVars
  <2> QED
    BY <2>3, <2>4, <2>5 DEF Control
<1>4. ASSUME NEW t \in Threads, NEW from, NEW to, Step(t, from, to),
             from \notin Exclusively \cup {"io"}, to \notin Exclusively \cup {"io"}
      PROVE  Control'
  BY <1>4, ThreadQuiet DEF Step, Goto, gcVars
<1>5. ASSUME NEW t \in Threads,
             \/ Inline(t) \/ Once(t) \/ Before(t) \/ Overwrite(t) \/ Flush(t) \/ Old(t)
             \/ Shade(t) \/ Grey(t) \/ Expected(t)
      PROVE  Control'
  <2>1. PICK from, to : /\ Step(t, from, to)
                        /\ from \in Storing /\ to \in Storing
    BY <1>5 DEF Inline, Once, Before, Overwrite, Flush, Old, Shade, Grey, Expected,
       AfterBefore, Storing
  <2> QED
    BY <1>4, <2>1 DEF Storing, Exclusively, Opening, Scanning
<1>6. ASSUME NEW t \in Threads, Write(t) \/ Publish(t) \/ Seen(t) PROVE Control'
  <2>1. PICK l \in {"run", "publish", "seen"} : pc' = [pc EXCEPT ![t] = l]
    BY <1>6 DEF Write, Publish, Seen, Finish, Goto
  <2>2. pc[t] \in {"write", "publish", "seen"}
    BY <1>6 DEF Write, Publish, Seen
  <2>3. /\ pc[t] \notin Exclusively \cup {"io"}
        /\ l \notin Exclusively \cup {"io"}
    BY <2>1, <2>2 DEF Exclusively, Opening, Scanning
  <2>4. /\ UNCHANGED <<stage, fsaLock, barrier, todo, scanning, rootsScanned,
                       request, tstate, toPrune, scanned>>
        /\ UNCHANGED where
    BY <1>6 DEF Write, Publish, Seen, heapVars, objVars, gcVars, thrVars
  <2> QED
    BY <2>1, <2>3, <2>4, ThreadQuiet
<1>7. ASSUME NEW t \in Threads, Enter(t) PROVE Control'
  <2>0. /\ Running(t) /\ fsaLock = Null
        /\ UNCHANGED <<barrier, todo, scanning, rootsScanned, request, tstate,
                       toPrune, scanned, where>>
    BY <1>7 DEF Enter, heapVars, objVars, thrVars
  <2>n. \A u \in Threads : pc[u] \notin Exclusively
    BY <1>0, <2>0 DEF LockAgrees
  <2>1. CASE stage = "IDLE" /\ stage' = "START" /\ UNCHANGED <<pc, fsaLock>>
    <3>1. LockAgrees'
      BY <1>0, <2>1 DEF LockAgrees
    <3>2. StageAgrees'
      BY <1>0, <2>0, <2>n, <2>1 DEF StageAgrees, Exclusively, Opening, Scanning
    <3>3. RequestAgrees' /\ ScanAgrees'
      BY <1>0, <2>0, <2>n, <2>1 DEF RequestAgrees, ScanAgrees, Exclusively, Opening, Scanning
    <3>4. ScannedThreadHeld' /\ SetsAgree'
      BY <1>0, <2>0, <2>1 DEF ScannedThreadHeld, SetsAgree
    <3> QED
      BY <3>1, <3>2, <3>3, <3>4 DEF Control
  <2>2. CASE /\ stage \in {"START", "SCAN_ROOTS"} /\ fsaLock' = t /\ UNCHANGED stage
             /\ pc' = [pc EXCEPT ![t] = IF stage = "START" THEN "open" ELSE "pick"]
    <3>0. \A u \in Threads : pc'[u] =
            IF u = t THEN (IF stage = "START" THEN "open" ELSE "pick") ELSE pc[u]
      BY <1>0, <2>2
    <3>1. LockAgrees'
      BY <1>0, <2>0, <2>2, <2>n, <3>0 DEF LockAgrees, Exclusively, Opening, Scanning
    <3>2. StageAgrees'
      BY <1>0, <2>0, <2>2, <2>n, <3>0 DEF StageAgrees, Exclusively, Opening, Scanning
    <3>3. RequestAgrees'
      <4>1. \A u \in Threads : pc'[u] # "ask" /\ pc[u] # "ask"
        BY <2>n, <3>0 DEF Exclusively, Opening
      <4> QED
        BY <1>0, <2>0, <2>2, <4>1 DEF RequestAgrees
    <3>4. ScanAgrees'
      BY <1>0, <2>0, <2>2, <2>n, <3>0 DEF ScanAgrees, Exclusively, Scanning
    <3>5. ScannedThreadHeld'
      BY <1>0, <2>0, <3>0, HeldQuiet DEF Running
    <3>6. SetsAgree'
      BY <1>0, <2>0, <2>2, SetsQuiet
    <3> QED
      BY <3>1, <3>2, <3>3, <3>4, <3>5, <3>6 DEF Control
  <2> QED
    BY <1>7, <2>1, <2>2 DEF Enter, Goto
(* A step of the thread that holds the lock, from label to label.          *)
<1>c. ASSUME NEW t \in Threads, pc[t] \in Exclusively, NEW l,
             pc' = [pc EXCEPT ![t] = l]
      PROVE  /\ pc'[t] = l
             /\ \A u \in Threads \ {t} : pc'[u] = pc[u] /\ pc[u] \notin Exclusively
             /\ fsaLock = t /\ \A u \in Threads : pc[u] \in Exclusively => u = t
  BY <1>0, <1>a, <1>c DEF LockAgrees
<1>d. ASSUME NEW t \in Threads, pc[t] \in Exclusively, NEW l,
             pc' = [pc EXCEPT ![t] = l],
             fsaLock' = IF l \in Exclusively THEN t ELSE Null
      PROVE  LockAgrees'
  BY <1>c, <1>d DEF LockAgrees
<1>8. ASSUME NEW t \in Threads, OpenBarrier(t) PROVE Control'
  <2>0. /\ pc[t] = "open" /\ pc' = [pc EXCEPT ![t] = "statics"]
        /\ barrier' = TRUE /\ todo' = Statics
        /\ UNCHANGED <<stage, fsaLock, scanning, rootsScanned, request, tstate,
                       toPrune, scanned, where>>
    BY <1>8 DEF OpenBarrier, Goto, heapVars, objVars, thrVars
  <2>e. pc[t] \in Exclusively /\ "statics" \in Exclusively
    BY <2>0 DEF Exclusively, Opening
  <2>f. /\ pc'[t] = "statics" /\ fsaLock = t
        /\ \A u \in Threads \ {t} : pc'[u] = pc[u] /\ pc[u] \notin Exclusively
    BY <1>c, <2>0, <2>e
  <2>1. LockAgrees'
    BY <1>d, <2>0, <2>e, <2>f
  <2>2. StageAgrees'
    BY <1>0, <2>0, <2>f DEF StageAgrees, Exclusively, Opening, Scanning
  <2>3. RequestAgrees'
    <3>1. \A u \in Threads : pc'[u] # "ask" /\ pc[u] # "ask"
      BY <2>0, <2>f DEF Exclusively, Opening
    <3> QED
      BY <1>0, <2>0, <3>1 DEF RequestAgrees
  <2>4. ScanAgrees'
    BY <1>0, <2>0, <2>f DEF ScanAgrees, Exclusively, Scanning
  <2>5. ScannedThreadHeld'
    BY <1>0, <2>0, <2>f, HeldQuiet
  <2>6. SetsAgree'
    BY <1>0, <2>0, SetsQuiet
  <2> QED
    BY <2>1, <2>2, <2>3, <2>4, <2>5, <2>6 DEF Control
<1>9. ASSUME NEW t \in Threads, OpenStatics(t) PROVE Control'
  <2>0. /\ pc[t] = "statics"
        /\ UNCHANGED <<stage, fsaLock, barrier, scanning, rootsScanned, request, tstate,
                       toPrune, scanned, where>>
    BY <1>9 DEF OpenStatics, thrVars
  <2>1. PICK l \in {"statics", "ask"} :
          /\ pc' = [pc EXCEPT ![t] = l]
          /\ l = "statics" => todo' \subseteq todo
          /\ l = "ask" => todo' = Threads
    BY <1>0, <1>9 DEF OpenStatics, Goto
  <2>e. pc[t] \in Exclusively /\ l \in Exclusively
    BY <2>0, <2>1 DEF Exclusively, Opening
  <2>f. /\ pc'[t] = l /\ fsaLock = t
        /\ \A u \in Threads \ {t} : pc'[u] = pc[u] /\ pc[u] \notin Exclusively
    BY <1>c, <2>1, <2>e
  <2>2. LockAgrees'
    BY <1>d, <2>0, <2>1, <2>e, <2>f
  <2>3. StageAgrees'
    BY <1>0, <2>0, <2>1, <2>f DEF StageAgrees, Exclusively, Opening, Scanning
  <2>4. RequestAgrees'
    <3>1. \A u \in Threads : pc[u] # "ask"
      BY <2>0, <2>f DEF Exclusively, Opening
    <3>2. stage = "START"
      BY <1>0, <2>0 DEF StageAgrees, Opening
    <3>3. \A u \in Threads : ~request[u]
      BY <1>0, <3>1, <3>2 DEF RequestAgrees
    <3> QED
      BY <2>0, <2>1, <2>f, <3>2, <3>3 DEF RequestAgrees, Exclusively, Opening
  <2>5. ScanAgrees'
    BY <1>0, <2>0, <2>1, <2>f DEF ScanAgrees, Exclusively, Scanning
  <2>6. ScannedThreadHeld'
    BY <1>0, <2>0, <2>1, <2>f, HeldQuiet
  <2>7. SetsAgree'
    BY <1>0, <2>0, SetsQuiet
  <2> QED
    BY <2>2, <2>3, <2>4, <2>5, <2>6, <2>7 DEF Control
<1>10. ASSUME NEW t \in Threads, OpenAsk(t) PROVE Control'
  <2>0. /\ pc[t] = "ask"
        /\ UNCHANGED <<barrier, scanning, tstate, toPrune, scanned, where>>
    BY <1>10 DEF OpenAsk, heapVars, objVars
  <2>e. pc[t] \in Exclusively /\ "ask" \in Exclusively /\ "run" \notin Exclusively
    BY <2>0 DEF Exclusively, Opening, Scanning
  <2>s. stage = "START" /\ barrier
    BY <1>0, <2>0 DEF StageAgrees, Opening
  <2>1. CASE /\ todo # {}
             /\ LET u == First(todo) IN
                  /\ todo' = todo \ {u}
                  /\ request' = [request EXCEPT ![u] = TRUE]
                  /\ rootsScanned' = [rootsScanned EXCEPT ![u] = FALSE]
             /\ UNCHANGED <<pc, stage, fsaLock>>
    <3>1. PICK u \in todo : /\ todo' = todo \ {u}
                            /\ request' = [request EXCEPT ![u] = TRUE]
                            /\ rootsScanned' = [rootsScanned EXCEPT ![u] = FALSE]
      BY <2>1 DEF First
    <3>2. LockAgrees'
      BY <1>0, <2>1 DEF LockAgrees
    <3>3. StageAgrees'
      BY <1>0, <2>0, <2>1, <3>1 DEF StageAgrees
    <3>4. RequestAgrees'
      <4>1. u \in Threads
        BY <1>0, <2>0, <3>1 DEF StageAgrees
      <4>2. \A v \in Threads :
              /\ request'[v] = IF v = u THEN TRUE ELSE request[v]
              /\ rootsScanned'[v] = IF v = u THEN FALSE ELSE rootsScanned[v]
        BY <3>1, <4>1 DEF Types
      <4>3. \A v \in Threads : v \notin todo' => v = u \/ v \notin todo
        BY <3>1
      <4> QED
        BY <1>0, <2>0, <2>1, <2>s, <4>2, <4>3 DEF RequestAgrees
    <3>5. ScanAgrees'
      <4>1. \A v \in Threads : pc[v] \notin {"scan", "resume"}
        BY <1>a, <2>0, <2>e DEF Exclusively, Scanning
      <4> QED
        BY <1>0, <2>0, <2>1, <4>1 DEF ScanAgrees
    <3>6. ScannedThreadHeld' /\ SetsAgree'
      BY <1>0, <2>0, <2>1 DEF ScannedThreadHeld, SetsAgree
    <3> QED
      BY <3>2, <3>3, <3>4, <3>5, <3>6 DEF Control
  <2>2. CASE /\ todo = {} /\ stage' = "SCAN_ROOTS" /\ fsaLock' = Null
             /\ pc' = [pc EXCEPT ![t] = "run"]
             /\ UNCHANGED <<todo, request, rootsScanned>>
    <3>0. /\ pc'[t] = "run" /\ fsaLock = t
          /\ \A u \in Threads \ {t} : pc'[u] = pc[u] /\ pc[u] \notin Exclusively
      BY <1>c, <2>2, <2>e
    <3>n. \A u \in Threads : pc'[u] \notin Exclusively
      BY <2>e, <3>0
    <3>1. LockAgrees'
      BY <1>d, <2>2, <2>e
    <3>2. StageAgrees'
      BY <2>0, <2>2, <2>s, <3>n DEF StageAgrees, Exclusively, Opening
    <3>3. RequestAgrees'
      <4>1. \A u \in Threads : request[u] /\ ~rootsScanned[u]
        BY <1>0, <2>0, <2>2 DEF RequestAgrees
      <4> QED
        BY <2>2, <3>n, <4>1 DEF RequestAgrees, Exclusively, Opening
    <3>4. ScanAgrees'
      <4>1. \A u \in Threads : pc[u] \notin {"scan", "resume"}
        BY <1>a, <2>0, <2>e DEF Exclusively, Scanning
      <4> QED
        BY <1>0, <2>0, <3>n, <4>1 DEF ScanAgrees, Exclusively, Scanning
    <3>5. ScannedThreadHeld'
      BY <1>0, <2>0, <3>0, HeldQuiet
    <3>6. SetsAgree'
      BY <1>0, <2>0, <2>2, <2>s DEF SetsAgree
    <3> QED
      BY <3>1, <3>2, <3>3, <3>4, <3>5, <3>6 DEF Control
  <2> QED
    BY <1>10, <2>1, <2>2 DEF OpenAsk, Goto
<1>11. ASSUME NEW t \in Threads, ScanPick(t) PROVE Control'
  <2>0. /\ pc[t] = "pick"
        /\ UNCHANGED <<stage, fsaLock, barrier, todo, rootsScanned, request,
                       toPrune, scanned, where>>
    BY <1>11 DEF ScanPick, heapVars, objVars
  <2>1. PICK u \in Threads \cup {Null} :
          /\ IF ~rootsScanned[t] THEN u = t
             ELSE IF \E w \in Threads : ~rootsScanned[w] /\ tstate[w] = "SUSPENDED"
                  THEN u # Null /\ ~rootsScanned[u] /\ tstate[u] = "SUSPENDED"
                  ELSE u = Null
          /\ scanning' = u
          /\ tstate' = IF u = Null THEN tstate
                       ELSE [tstate EXCEPT ![u] = "SUSPENDED_SCAN"]
          /\ pc' = [pc EXCEPT ![t] = IF u = Null THEN "decide" ELSE "scan"]
    BY <1>11 DEF ScanPick, Goto
  <2>s. stage = "SCAN_ROOTS"
    BY <1>0, <2>0 DEF StageAgrees, Scanning
  <2>e. pc[t] \in Exclusively /\ (IF u = Null THEN "decide" ELSE "scan") \in Exclusively
    BY <2>0 DEF Exclusively, Scanning
  <2>f. /\ pc'[t] = IF u = Null THEN "decide" ELSE "scan"
        /\ fsaLock = t
        /\ \A v \in Threads \ {t} : pc'[v] = pc[v] /\ pc[v] \notin Exclusively
    BY <1>c, <2>1, <2>e
  <2>g. scanning = Null
    <3>1. \A v \in Threads : pc[v] \notin {"scan", "resume"}
      BY <2>0, <2>f DEF Exclusively, Scanning
    <3> QED
      BY <1>0, <3>1 DEF ScanAgrees
  <2>2. LockAgrees'
    BY <1>d, <2>0, <2>1, <2>e, <2>f
  <2>3. StageAgrees'
    BY <1>0, <2>0, <2>f, <2>s DEF StageAgrees, Exclusively, Opening, Scanning
  <2>4. RequestAgrees'
    <3>1. \A v \in Threads : pc'[v] # "ask" /\ pc[v] # "ask"
      BY <2>0, <2>f DEF Exclusively, Opening
    <3> QED
      BY <1>0, <2>0, <3>1 DEF RequestAgrees
  <2>5. u # Null => ~rootsScanned[u] /\ (u = t \/ (u # t /\ pc[u] = "io"))
    BY <1>0, <2>1 DEF ScannedThreadHeld, Types
  <2>6. ScanAgrees'
    <3>1. \A v \in Threads \ {t} : pc'[v] \notin {"scan", "resume"}
      BY <2>f DEF Exclusively, Scanning
    <3> QED
      BY <2>0, <2>1, <2>5, <2>f, <3>1 DEF ScanAgrees
  <2>7. ScannedThreadHeld'
    <3>1. \A v \in Threads : pc'[v] = "io" <=> pc[v] = "io"
      BY <2>0, <2>f
    <3>2. \A v \in Threads : tstate'[v] = IF v = u THEN "SUSPENDED_SCAN" ELSE tstate[v]
      BY <2>1, HeapAssumption DEF Types
    <3>3. \A v \in Threads : tstate[v] # "SUSPENDED_SCAN"
      BY <1>0, <2>g DEF ScannedThreadHeld
    <3> QED
      BY <1>0, <2>1, <2>g, <3>1, <3>2, <3>3 DEF ScannedThreadHeld
  <2>8. SetsAgree'
    BY <1>0, <2>0, SetsQuiet
  <2> QED
    BY <2>2, <2>3, <2>4, <2>6, <2>7, <2>8 DEF Control
<1>12. ASSUME NEW t \in Threads, ScanThread(t) PROVE Control'
  <2>0. /\ pc[t] = "scan" /\ pc' = [pc EXCEPT ![t] = "resume"]
        /\ rootsScanned' = [rootsScanned EXCEPT ![scanning] = TRUE]
        /\ request' = [request EXCEPT ![scanning] = FALSE]
        /\ UNCHANGED <<stage, fsaLock, barrier, todo, scanning, tstate, toPrune, scanned>>
    BY <1>12 DEF ScanThread, Goto, gcVars
  <2>e. pc[t] \in Exclusively /\ "resume" \in Exclusively
    BY <2>0 DEF Exclusively, Scanning
  <2>f. /\ pc'[t] = "resume" /\ fsaLock = t
        /\ \A v \in Threads \ {t} : pc'[v] = pc[v] /\ pc[v] \notin Exclusively
    BY <1>c, <2>0, <2>e
  <2>s. /\ stage = "SCAN_ROOTS" /\ scanning \in Threads
        /\ scanning = t \/ pc[scanning] = "io"
    BY <1>0, <2>0 DEF StageAgrees, Scanning, ScanAgrees
  <2>1. LockAgrees'
    BY <1>d, <2>0, <2>e, <2>f
  <2>2. StageAgrees'
    BY <1>0, <2>0, <2>f, <2>s DEF StageAgrees, Exclusively, Opening, Scanning
  <2>3. RequestAgrees'
    <3>1. \A v \in Threads : pc'[v] # "ask" /\ pc[v] # "ask"
      BY <2>0, <2>f DEF Exclusively, Opening
    <3>2. \A v \in Threads :
            /\ request'[v] = IF v = scanning THEN FALSE ELSE request[v]
            /\ rootsScanned'[v] = IF v = scanning THEN TRUE ELSE rootsScanned[v]
      BY <2>0, <2>s DEF Types
    <3> QED
      BY <1>0, <2>0, <2>s, <3>1, <3>2 DEF RequestAgrees
  <2>4. ScanAgrees'
    <3>1. \A v \in Threads \ {t} : pc'[v] \notin {"scan", "resume"}
      BY <2>f DEF Exclusively, Scanning
    <3> QED
      BY <2>0, <2>f, <2>s, <3>1 DEF ScanAgrees
  <2>5. ScannedThreadHeld'
    BY <1>0, <2>0, <2>f, HeldQuiet
  <2>6. SetsAgree'
    BY <1>0, <2>0, <2>s DEF SetsAgree
  <2> QED
    BY <2>1, <2>2, <2>3, <2>4, <2>5, <2>6 DEF Control
<1>13. ASSUME NEW t \in Threads, ScanResume(t) PROVE Control'
  <2>0. /\ pc[t] = "resume" /\ pc' = [pc EXCEPT ![t] = "decide"]
        /\ tstate' = [tstate EXCEPT ![scanning] =
                        IF scanning = t THEN "RUNNING" ELSE "SUSPENDED"]
        /\ scanning' = Null
        /\ UNCHANGED <<stage, fsaLock, barrier, todo, rootsScanned, request,
                       toPrune, scanned, where>>
    BY <1>13 DEF ScanResume, Goto, heapVars, objVars
  <2>e. pc[t] \in Exclusively /\ "decide" \in Exclusively
    BY <2>0 DEF Exclusively, Scanning
  <2>f. /\ pc'[t] = "decide" /\ fsaLock = t
        /\ \A v \in Threads \ {t} : pc'[v] = pc[v] /\ pc[v] \notin Exclusively
    BY <1>c, <2>0, <2>e
  <2>s. /\ stage = "SCAN_ROOTS" /\ scanning \in Threads
        /\ scanning = t \/ pc[scanning] = "io"
    BY <1>0, <2>0 DEF StageAgrees, Scanning, ScanAgrees
  <2>1. LockAgrees'
    BY <1>d, <2>0, <2>e, <2>f
  <2>2. StageAgrees'
    BY <1>0, <2>0, <2>f, <2>s DEF StageAgrees, Exclusively, Opening, Scanning
  <2>3. RequestAgrees'
    <3>1. \A v \in Threads : pc'[v] # "ask" /\ pc[v] # "ask"
      BY <2>0, <2>f DEF Exclusively, Opening
    <3> QED
      BY <1>0, <2>0, <3>1 DEF RequestAgrees
  <2>4. ScanAgrees'
    <3>1. \A v \in Threads : pc'[v] \notin {"scan", "resume"}
      BY <2>f DEF Exclusively, Scanning
    <3> QED
      BY <2>0, <3>1 DEF ScanAgrees
  <2>5. ScannedThreadHeld'
    <3>1. \A v \in Threads : pc'[v] = "io" <=> pc[v] = "io"
      BY <2>0, <2>f
    <3>2. \A v \in Threads : tstate'[v] =
            IF v = scanning THEN (IF scanning = t THEN "RUNNING" ELSE "SUSPENDED") ELSE tstate[v]
      BY <2>0, <2>s DEF Types
    <3>3. t = scanning => pc[t] # "io"
      BY <2>0
    <3> QED
      BY <1>0, <2>0, <2>s, <3>1, <3>2, <3>3, HeapAssumption DEF ScannedThreadHeld
  <2>6. SetsAgree'
    BY <1>0, <2>0, SetsQuiet
  <2> QED
    BY <2>1, <2>2, <2>3, <2>4, <2>5, <2>6 DEF Control
<1>14. ASSUME NEW t \in Threads, ScanDecide(t) PROVE Control'
  <2>0. /\ pc[t] = "decide" /\ pc' = [pc EXCEPT ![t] = "run"]
        /\ stage' = IF \A u \in Threads : rootsScanned[u] THEN "MARK" ELSE "SCAN_ROOTS"
        /\ fsaLock' = Null
        /\ UNCHANGED <<barrier, todo, scanning, rootsScanned, request, tstate,
                       toPrune, scanned, where>>
    BY <1>14 DEF ScanDecide, Goto, heapVars, objVars, thrVars
  <2>e. pc[t] \in Exclusively /\ "run" \notin Exclusively
    BY <2>0 DEF Exclusively, Opening, Scanning
  <2>f. /\ pc'[t] = "run" /\ fsaLock = t
        /\ \A v \in Threads \ {t} : pc'[v] = pc[v] /\ pc[v] \notin Exclusively
    BY <1>c, <2>0, <2>e
  <2>n. \A u \in Threads : pc'[u] \notin Exclusively
    BY <2>e, <2>f
  <2>s. stage = "SCAN_ROOTS" /\ barrier
    BY <1>0, <2>0 DEF StageAgrees, Scanning
  <2>1. LockAgrees'
    BY <1>d, <2>0, <2>e
  <2>2. StageAgrees'
    BY <2>0, <2>n, <2>s DEF StageAgrees, Exclusively, Opening
  <2>3. RequestAgrees'
    <3>1. \A v \in Threads : pc'[v] # "ask" /\ pc[v] # "ask"
      BY <2>0, <2>f, <2>n DEF Exclusively, Opening
    <3> QED
      BY <1>0, <2>0, <2>s, <3>1 DEF RequestAgrees
  <2>4. ScanAgrees'
    <3>1. \A v \in Threads : pc'[v] \notin {"scan", "resume"} /\ pc[v] \notin {"scan", "resume"}
      BY <2>0, <2>f, <2>n DEF Exclusively, Scanning
    <3> QED
      BY <1>0, <2>0, <3>1 DEF ScanAgrees
  <2>5. ScannedThreadHeld'
    BY <1>0, <2>0, <2>f, HeldQuiet
  <2>6. SetsAgree'
    BY <1>0, <2>0, <2>s DEF SetsAgree
  <2> QED
    BY <2>1, <2>2, <2>3, <2>4, <2>5, <2>6 DEF Control
<1>15. ASSUME NEW t \in Threads, MarkObject(t) PROVE Control'
  <2>0. /\ UNCHANGED <<pc, stage, fsaLock, barrier, todo, scanning, rootsScanned,
                       request, tstate, toPrune, where>>
        /\ stage = "MARK"
        /\ \E o \in Objects : where[o] = "pool" /\ scanned' = scanned \cup {o}
    BY <1>15 DEF MarkObject, gcVars, thrVars, Types
  <2>1. LockAgrees' /\ StageAgrees' /\ RequestAgrees' /\ ScanAgrees' /\ ScannedThreadHeld'
    BY <1>0, <2>0 DEF LockAgrees, StageAgrees, RequestAgrees, ScanAgrees, ScannedThreadHeld
  <2>2. SetsAgree'
    BY <1>0, <2>0 DEF SetsAgree
  <2> QED
    BY <2>1, <2>2 DEF Control
<1>16. ASSUME NEW t \in Threads, Retire(t) \/ PruneObject(t) \/ PruneEnd(t) PROVE Control'
  <2>0. /\ UNCHANGED <<pc, fsaLock, todo, scanning, rootsScanned, request, tstate>>
        /\ stage \in {"MARK", "PRUNE"} /\ stage' \in {"PRUNE", "IDLE"} /\ barrier' = FALSE
    <3>1. stage = "PRUNE" => ~barrier
      BY <1>0 DEF StageAgrees, Opening
    <3> QED
      BY <1>0, <1>16, <3>1 DEF Retire, PruneObject, PruneEnd, thrVars, Types
  <2>n. \A u \in Threads : pc[u] \notin Exclusively
    BY <1>0, <2>0 DEF StageAgrees, Exclusively
  <2>1. LockAgrees'
    BY <1>0, <2>0 DEF LockAgrees
  <2>2. StageAgrees'
    BY <2>0, <2>n DEF StageAgrees, Exclusively, Opening, Scanning
  <2>3. RequestAgrees'
    BY <1>0, <2>0, <2>n DEF RequestAgrees, Exclusively, Opening
  <2>4. ScanAgrees' /\ ScannedThreadHeld'
    BY <1>0, <2>0 DEF ScanAgrees, ScannedThreadHeld
  <2>5. SetsAgree'
    <3>1. CASE Retire(t)
      BY <1>0, <3>1 DEF Retire, SetsAgree, objVars
    <3>2. CASE PruneObject(t)
      BY <1>0, <3>2 DEF PruneObject, SetsAgree
    <3>3. CASE PruneEnd(t)
      BY <1>0, <3>3 DEF PruneEnd, SetsAgree, heapVars, objVars
    <3> QED
      BY <1>16, <3>1, <3>2, <3>3
  <2> QED
    BY <2>1, <2>2, <2>3, <2>4, <2>5 DEF Control
<1>17. CASE UNCHANGED vars
  BY <1>0, <1>17 DEF vars, objVars, gcVars, thrVars, Control, LockAgrees, StageAgrees,
     RequestAgrees, ScanAgrees, ScannedThreadHeld, SetsAgree
<1> QED
  BY <1>1, <1>2, <1>3, <1>5, <1>6, <1>7, <1>8, <1>9, <1>10, <1>11, <1>12, <1>13, <1>14,
     <1>15, <1>16, <1>17
  DEF Next, Program, StoreStep, Collect

-----------------------------------------------------------------------------
(* Live is the smallest set that is closed and holds its roots.            *)
LEMMA LiveFacts ==
  ASSUME Types
  PROVE  LiveRoots \subseteq Live /\ LiveClosed(Live) /\ Live \subseteq Objects
<1> USE HeapAssumption DEF Types, Slots
<1>1. LiveRoots \subseteq Objects
  <2>1. \A t \in Threads : locals[t] \subseteq Objects /\ held[t] \in Objects \cup {Null}
                       /\ grey[t] \in Objects \cup Statics \cup {Null}
    OBVIOUS
  <2>2. \A x \in Statics : mem[x] \in Objects \cup {Null}
    OBVIOUS
  <2>3. UNION {locals[t] : t \in Threads} \subseteq Objects
    BY <2>1
  <2>4. {mem[x] : x \in Statics} \subseteq Objects \cup {Null}
    BY <2>2
  <2>5. {held[t] : t \in Threads} \subseteq Objects \cup {Null}
    BY <2>1
  <2>6. {grey[t] : t \in Threads} \ Statics \subseteq Objects \cup {Null}
    BY <2>1
  <2>7. marked \subseteq Objects
    OBVIOUS
  <2> HIDE DEF Types, Slots
  <2> QED
    <3> SUFFICES ASSUME NEW x \in LiveRoots, x \notin marked PROVE x \in Objects
      BY <2>7
    <3>1. x # Null /\ (x \in UNION {locals[t] : t \in Threads} \/ x \in {mem[y] : y \in Statics}
            \/ x \in {held[t] : t \in Threads} \/ x \in {grey[t] : t \in Threads} \ Statics)
      BY DEF LiveRoots
    <3> QED
      BY <2>3, <2>4, <2>5, <2>6, <3>1
<1>2. LiveRoots \subseteq Live
  BY <1>1 DEF Live
<1>3. LiveClosed(Live)
  <2> SUFFICES ASSUME NEW o \in Live, mem[o] # Null PROVE mem[o] \in Live
    BY DEF LiveClosed
  <2>1. mem[o] \in Objects
    BY DEF Live
  <2> QED
    BY <2>1 DEF Live, LiveClosed
<1> QED
  BY <1>2, <1>3 DEF Live

LEMMA LocalsBorn ==
  ASSUME Types, Heap
  PROVE  \A t \in Threads : \A o \in locals[t] : o \in Objects /\ where[o] \in {"new", "pool"}
<1>1. \A t \in Threads : locals[t] \ {Null} \subseteq LiveRoots
  BY DEF LiveRoots
<1>2. \A t \in Threads : locals[t] \subseteq Objects /\ Null \notin Objects
  BY HeapAssumption DEF Types, Slots
<1> QED
  BY <1>1, <1>2, LiveFacts DEF Heap, LivePresent

-----------------------------------------------------------------------------
(* The stores.                                                             *)
LEMMA BirthQuiet ==
  ASSUME BirthAgrees, UNCHANGED <<mem, owner>>,
         \A o \in Objects : (where'[o] = "none" => where[o] = "none")
                         /\ (where'[o] = "new" => where[o] = "new")
  PROVE  BirthAgrees'
BY DEF BirthAgrees

LEMMA GreyQuiet ==
  ASSUME GreyAgrees, UNCHANGED <<grey, op>>,
         \A u \in Threads : request[u] => request'[u],
         \A u \in Threads : pc'[u] \in {"old", "shade", "grey"} => pc'[u] = pc[u]
  PROVE  GreyAgrees'
BY DEF GreyAgrees

Barring == Storing \ {"publish", "seen"}   \* before the store itself

LEMMA StepStores ==
  ASSUME Types, Stores, NEW t \in Threads, NEW from \in Barring, NEW to \in Barring,
         Step(t, from, to)
  PROVE  /\ \A u \in Threads : pc'[u] = IF u = t THEN to ELSE pc[u]
         /\ BirthAgrees' /\ Exclusive' /\ FreshValue' /\ FirstStore'
<1>1. \A u \in Threads : pc'[u] = IF u = t THEN to ELSE pc[u]
  BY DEF Types, Step, Goto
<1>2. UNCHANGED <<mem, locals, where, owner, op>> /\ pc[t] = from
  BY DEF Step, progVars
<1>3. BirthAgrees'
  BY <1>2, BirthQuiet DEF Stores
<1>4. \A u \in Threads : (pc'[u] \in Storing <=> pc[u] \in Storing)
                      /\ (pc'[u] \in Barring <=> pc[u] \in Barring)
  BY <1>1, <1>2 DEF Barring
<1>5. Exclusive'
  BY <1>2, <1>4 DEF Stores, Exclusive, Plain
<1>6. FreshValue' /\ FirstStore'
  BY <1>2, <1>4 DEF Stores, FreshValue, FirstStore, Busy, Plain, Private, Barring
<1> QED
  BY <1>1, <1>3, <1>5, <1>6

LEMMA InitStores == Init => Stores
<1> SUFFICES ASSUME Init PROVE Stores
  OBVIOUS
<1> USE HeapAssumption
<1>1. BirthAgrees
  BY DEF Init, BirthAgrees, Slots
<1>2. OpAgrees
  BY DEF Init, OpAgrees, Storing, Idle
<1>3. HeldAgrees /\ GreyAgrees
  BY DEF Init, HeldAgrees, GreyAgrees
<1>4. Exclusive /\ FreshValue /\ FirstStore
  BY DEF Init, Exclusive, FreshValue, FirstStore, Busy, Storing
<1> QED
  BY <1>1, <1>2, <1>3, <1>4 DEF Stores

LEMMA NextStores ==
  ASSUME Types, Control, Stores, Heap, [Next]_vars
  PROVE  Stores'
<1> USE HeapAssumption
<1>0. /\ BirthAgrees /\ OpAgrees /\ HeldAgrees /\ GreyAgrees
      /\ Exclusive /\ FreshValue /\ FirstStore
  BY DEF Stores
<1>a. \A t \in Threads : \A o \in locals[t] : o \in Objects /\ where[o] \in {"new", "pool"}
  BY LocalsBorn
<1>b. \A t \in Threads : Running(t) => pc[t] \notin Storing /\ op[t] = Idle /\ held[t] = Null
  BY <1>0 DEF Running, Storing, OpAgrees, HeldAgrees
<1>1. ASSUME NEW t \in Threads, Alloc(t) PROVE Stores'
  <2>1. PICK o \in Objects : /\ where[o] = "none"
                             /\ where' = [where EXCEPT ![o] = "new"]
                             /\ owner' = [owner EXCEPT ![o] = t]
                             /\ locals' = [locals EXCEPT ![t] = @ \cup {o}]
    BY <1>1 DEF Alloc
  <2>2. UNCHANGED <<mem, pc, op, held, grey, request>> /\ Running(t)
    BY <1>1 DEF Alloc, thrVars, opVars
  <2>3. \A u \in Threads : o \notin locals[u] /\ locals[u] \subseteq locals'[u]
                        /\ locals'[u] \subseteq locals[u] \cup {o}
    BY <1>a, <2>1 DEF Types
  <2>4. \A p \in Objects \ {o} : owner'[p] = owner[p]
    BY <2>1 DEF Types
  <2>5. BirthAgrees'
    BY <1>0, <2>1, <2>2 DEF BirthAgrees, Types
  <2>6. OpAgrees'
    <3>1. \A u \in Threads : pc[u] \in Storing => op[u].slot # o
      BY <1>0, <2>1, <2>3 DEF OpAgrees
    <3>2. \A u \in Threads : op[u].kind = "fill" => pc[u] \in Storing /\ op[u].slot \in Objects
      BY <1>0 DEF OpAgrees, Storing
    <3> QED
      BY <1>0, <2>2, <2>3, <2>4, <3>1, <3>2 DEF OpAgrees
  <2>7. HeldAgrees' /\ GreyAgrees' /\ Exclusive' /\ FirstStore'
    BY <1>0, <2>2 DEF HeldAgrees, GreyAgrees, Exclusive, FirstStore, Plain, Busy
  <2>8. FreshValue'
    <3>1. ASSUME NEW u \in Threads, Busy(u), ~Plain(u), op[u].value # Null
          PROVE  Private(u, op[u].value)'
      <4>1. Private(u, op[u].value) /\ op[u].value \in locals[u]
        BY <1>0, <3>1 DEF FreshValue, OpAgrees, Busy
      <4>2. op[u].value \in Objects /\ op[u].value # o
        BY <1>a, <2>3, <4>1
      <4> QED
        BY <2>2, <2>3, <2>4, <4>1, <4>2 DEF Private
    <3> QED
      BY <2>2, <3>1 DEF FreshValue, Busy, Plain
  <2> QED
    BY <2>5, <2>6, <2>7, <2>8 DEF Stores
<1>2. ASSUME NEW t \in Threads, Load(t) PROVE Stores'
  <2>1. PICK s \in Slots : mem[s] # Null /\ locals' = [locals EXCEPT ![t] = @ \cup {mem[s]}]
    BY <1>2, <1>a DEF Load, Readable, Slots
  <2>2. UNCHANGED <<mem, where, owner, pc, op, held, grey, request>> /\ Running(t)
    BY <1>2 DEF Load, objVars, thrVars, opVars
  <2>3. \A u \in Threads : /\ locals[u] \subseteq locals'[u]
                           /\ locals'[u] \subseteq locals[u] \cup {mem[s]}
    BY <2>1 DEF Types
  <2>4. OpAgrees'
    BY <1>0, <2>2, <2>3 DEF OpAgrees
  <2>5. BirthAgrees' /\ HeldAgrees' /\ GreyAgrees' /\ Exclusive' /\ FirstStore'
    BY <1>0, <2>2 DEF BirthAgrees, HeldAgrees, GreyAgrees, Exclusive, FirstStore, Plain, Busy
  <2>6. FreshValue'
    BY <1>0, <2>1, <2>2, <2>3 DEF FreshValue, Private, Busy, Plain
  <2> QED
    BY <2>4, <2>5, <2>6 DEF Stores
<1>3. ASSUME NEW t \in Threads, Drop(t) PROVE Stores'
  <2>1. /\ UNCHANGED <<mem, where, owner, pc, op, held, grey, request>> /\ Running(t)
        /\ \A u \in Threads \ {t} : locals'[u] = locals[u]
        /\ \A u \in Threads : locals'[u] \subseteq locals[u]
    BY <1>3 DEF Drop, objVars, thrVars, opVars, Types
  <2>2. OpAgrees'
    BY <1>0, <1>b, <2>1 DEF OpAgrees
  <2>3. BirthAgrees' /\ HeldAgrees' /\ GreyAgrees' /\ Exclusive' /\ FirstStore'
    BY <1>0, <2>1 DEF BirthAgrees, HeldAgrees, GreyAgrees, Exclusive, FirstStore, Plain, Busy
  <2>4. FreshValue'
    BY <1>0, <2>1 DEF FreshValue, Private, Busy, Plain
  <2> QED
    BY <2>2, <2>3, <2>4 DEF Stores
<1>4. ASSUME NEW t \in Threads, Begin(t) PROVE Stores'
  <2>1. PICK k \in Kinds, s \in Slots, v \in locals[t] \cup {Null}, e \in Objects \cup {Null} :
          /\ e = IF k = "cas" THEN mem[s] ELSE Null
          /\ Writable(t, k, s)
          /\ k \in {"root", "cas"} => s \in Statics
          /\ k = "fill" => s \notin Statics /\ Private(t, s) /\ mem[s] = Null
          /\ k = "cas" => v # e /\ (v # Null => Private(t, v))
          /\ op' = [op EXCEPT ![t] = [kind |-> k, slot |-> s, value |-> v,
                                      expected |-> e, over |-> mem[s] # Null]]
          /\ locals' = [locals EXCEPT ![t] = @ \cup ({e} \ {Null})]
          /\ pc' = [pc EXCEPT ![t] = Entry[k]]
    <3>1. PICK k \in Kinds, s \in Slots, v \in locals[t] \cup {Null} :
          LET e == IF k = "cas" THEN mem[s] ELSE Null IN
          /\ Writable(t, k, s)
          /\ k \in {"root", "cas"} => s \in Statics
          /\ k = "fill" => s \notin Statics /\ Private(t, s) /\ mem[s] = Null
          /\ k = "cas" => v # e /\ (v # Null => Private(t, v))
          /\ op' = [op EXCEPT ![t] = [kind |-> k, slot |-> s, value |-> v,
                                      expected |-> e, over |-> mem[s] # Null]]
          /\ locals' = [locals EXCEPT ![t] = @ \cup ({e} \ {Null})]
          /\ pc' = [pc EXCEPT ![t] = Entry[k]]
      BY <1>4 DEF Begin, Goto
    <3>2. (IF k = "cas" THEN mem[s] ELSE Null) \in Objects \cup {Null}
      BY DEF Types
    <3> QED
      BY <3>1, <3>2
  <2>2. UNCHANGED <<mem, where, owner, held, grey, request>> /\ Running(t)
    BY <1>4 DEF Begin, objVars, thrVars
  <2>3. /\ op'[t].kind = k /\ op'[t].slot = s /\ op'[t].value = v /\ op'[t].expected = e
        /\ op'[t].over = (mem[s] # Null)
        /\ \A u \in Threads \ {t} : op'[u] = op[u]
    BY <2>1 DEF Types
  <2>4. /\ pc'[t] = Entry[k]
        /\ Entry[k] \in {"inline", "before", "overwrite", "write"}
        /\ \A u \in Threads \ {t} : pc'[u] = pc[u]
    BY <2>1 DEF Types, Entry, AllKinds
  <2>5. /\ locals'[t] = locals[t] \cup ({e} \ {Null})
        /\ \A u \in Threads \ {t} : locals'[u] = locals[u]
    BY <2>1 DEF Types
  <2>6. BirthAgrees'
    BY <1>0, <2>2 DEF BirthAgrees
  <2>7. OpAgrees'
    <3>1. ASSUME NEW u \in Threads \ {t} PROVE
            /\ op'[u] = op[u] /\ pc'[u] = pc[u] /\ locals'[u] = locals[u]
      BY <2>3, <2>4, <2>5
    <3>2. k \in AllKinds
      OBVIOUS
    <3>3. pc'[t] \in Storing /\ (pc'[t] = "inline" <=> k \in {"store", "publish"})
          /\ (pc'[t] = "before" <=> k = "cas") /\ (pc'[t] = "overwrite" <=> k = "root")
          /\ (pc'[t] = "write" <=> k = "fill")
      BY <2>4, <3>2 DEF Entry, AllKinds, Storing
    <3>4. /\ s \in locals'[t] \cup Statics
          /\ v \in locals'[t] \cup {Null}
          /\ e \in locals'[t] \cup {Null}
      BY <2>1, <2>5 DEF Writable
    <3>5. k = "fill" => owner[s] = t /\ mem[s] = Null /\ s \in Objects
      BY <2>1 DEF Private, Slots
    <3>6. \A u \in Threads \ {t} : 
            /\ pc'[u] \notin Storing => op'[u] = Idle
            /\ op'[u].kind = "fill" => pc'[u] = "write" /\ op'[u].slot \in Objects
      BY <1>0, <3>1 DEF OpAgrees
    <3> QED
      BY <1>0, <2>1, <2>2, <2>3, <2>4, <3>1, <3>2, <3>3, <3>4, <3>5 DEF OpAgrees
  <2>8. HeldAgrees' /\ GreyAgrees'
    BY <1>0, <1>b, <2>2, <2>3, <2>4 DEF HeldAgrees, GreyAgrees, Plain
  <2>9. Exclusive'
    <3>1. \A u \in Threads \ {t} : pc[u] \in Storing /\ op[u].slot = s =>
            k = "cas" /\ op[u].kind = "cas"
      BY <2>1 DEF Writable
    <3> QED
      BY <1>0, <2>3, <2>4, <3>1 DEF Exclusive, Plain
  <2>10. FreshValue'
    <3>1. ASSUME NEW u \in Threads, NEW p, p = op'[u].value,
                 Busy(u)', ~Plain(u)', p # Null
          PROVE  /\ owner'[p] = u /\ \A x \in Slots : mem'[x] # p
                 /\ \A w \in Threads \ {u} : p \notin locals'[w]
      <4>1. CASE u = t
        <5>1. p = v /\ Private(t, v)
          BY <2>1, <2>3, <3>1, <4>1 DEF Plain
        <5> QED
          BY <2>2, <2>5, <4>1, <5>1 DEF Private
      <4>2. CASE u # t
        <5>1. Private(u, p)
          BY <1>0, <2>3, <2>4, <3>1, <4>2 DEF FreshValue, Busy, Plain
        <5>2. p # e
          BY <2>1, <3>1, <5>1 DEF Private
        <5>3. \A w \in Threads \ {u} : p \notin locals[w]
          BY <5>1 DEF Private
        <5>4. \A w \in Threads \ {u} : locals'[w] \subseteq locals[w] \cup {e}
          BY <2>5
        <5> QED
          BY <2>2, <5>1, <5>2, <5>3, <5>4 DEF Private
      <4> QED
        BY <4>1, <4>2
    <3> QED
      BY <3>1 DEF FreshValue, Private
  <2>11. FirstStore'
    BY <1>0, <2>2, <2>3, <2>4 DEF FirstStore, Busy, Plain
  <2> QED
    BY <2>6, <2>7, <2>8, <2>9, <2>10, <2>11 DEF Stores
<1>5. ASSUME NEW t \in Threads, IoBegin(t) \/ IoEnd(t) PROVE Stores'
  <2>1. /\ UNCHANGED <<mem, locals, where, owner, op, held, grey, request>>
        /\ \A u \in Threads \ {t} : pc'[u] = pc[u]
        /\ pc[t] \in {"run", "io"} /\ pc'[t] \in {"run", "io"}
    BY <1>5 DEF IoBegin, IoEnd, Running, Goto, heapVars, progVars, objVars, opVars, Types
  <2>2. OpAgrees' /\ HeldAgrees' /\ Exclusive' /\ FreshValue' /\ FirstStore'
    BY <1>0, <2>1, StoresQuiet DEF Storing
  <2>3. BirthAgrees' /\ GreyAgrees'
    BY <1>0, <2>1, BirthQuiet, GreyQuiet
  <2> QED
    BY <2>2, <2>3 DEF Stores
<1>6. ASSUME NEW t \in Threads, NEW from \in Barring, NEW to \in Barring, Step(t, from, to),
             from # "shade", to # "shade",
             UNCHANGED held, \A u \in Threads : grey'[u] # Null => grey[u] # Null \/ (u = t /\ request[t]),
             to \in {"old", "grey"} => op[t].kind = "root" \/ grey'[t] = Null,
             /\ to = "once" => op[t].kind \in {"store", "publish"}
             /\ to \in {"before", "flush", "grey"} => op[t].kind \in {"store", "publish", "cas"}
             /\ to = "expected" => op[t].kind = "cas"
             /\ to \notin {"inline", "overwrite"}
             /\ op[t].kind # "fill"
      PROVE Stores'
  <2>1. /\ \A u \in Threads : pc'[u] = IF u = t THEN to ELSE pc[u]
        /\ BirthAgrees' /\ Exclusive' /\ FreshValue' /\ FirstStore'
    BY <1>6, StepStores
  <2>2. UNCHANGED <<mem, locals, where, owner, op, request>> /\ pc[t] = from
    BY <1>6 DEF Step, progVars
  <2>3. OpAgrees'
    <3>1. pc[t] \in Storing /\ to \in Storing
      BY <2>2 DEF Barring
    <3> QED
      BY <1>0, <1>6, <2>1, <2>2, <3>1 DEF OpAgrees
  <2>4. HeldAgrees'
    BY <1>0, <1>6, <2>1, <2>2 DEF HeldAgrees, Plain, Barring
  <2>5. GreyAgrees'
    <3>1. \A u \in Threads : grey'[u] # Null => request'[u]
      BY <1>0, <1>6, <2>2 DEF GreyAgrees
    <3>2. \A u \in Threads : pc'[u] \in {"old", "shade", "grey"} /\ op'[u].kind # "root" => grey'[u] = Null
      BY <1>0, <1>6, <2>1, <2>2 DEF GreyAgrees
    <3> QED
      BY <3>1, <3>2 DEF GreyAgrees
  <2> QED
    BY <2>1, <2>3, <2>4, <2>5 DEF Stores
<1>7. ASSUME NEW t \in Threads, Inline(t) \/ Once(t) \/ Before(t) \/ Overwrite(t) PROVE Stores'
  <2>1. PICK from \in {"inline", "once", "before", "overwrite"},
             to \in {"once", "before", "flush", "old", "expected", "write"} :
          Step(t, from, to)
    BY <1>7 DEF Inline, Once, Before, Overwrite, AfterBefore
  <2>2. pc[t] = from /\ UNCHANGED <<held, grey>>
    BY <1>7, <2>1 DEF Inline, Once, Before, Overwrite, Step
  <2>3. pc' = [pc EXCEPT ![t] = to] /\ pc'[t] = to
    BY <2>1 DEF Step, Goto, Types
  <2>4. /\ from = "inline" => to \in {"once", "write"}
        /\ from = "once" => to \in {"before", "write"}
        /\ from = "before" => to \in {"flush", "write"} \/ (to = "expected" /\ op[t].kind = "cas")
        /\ from = "overwrite" => to \in {"old", "write"}
    <3>1. CASE Inline(t)
      <4>1. pc[t] = "inline" /\ pc'[t] \in {"once", "write"}
        BY <3>1 DEF Inline, Step, Goto, Types
      <4> QED
        BY <4>1, <2>2, <2>3
    <3>2. CASE Once(t)
      <4>1. pc[t] = "once" /\ pc'[t] \in {"before", "write"}
        BY <3>2 DEF Once, Step, Goto, Types
      <4> QED
        BY <4>1, <2>2, <2>3
    <3>3. CASE Before(t)
      <4>1. pc[t] = "before" /\ (pc'[t] \in {"flush", "write"} \/ (pc'[t] = "expected" /\ op[t].kind = "cas"))
        BY <3>3 DEF Before, AfterBefore, Step, Goto, Types
      <4> QED
        BY <4>1, <2>2, <2>3
    <3>4. CASE Overwrite(t)
      <4>1. pc[t] = "overwrite" /\ pc'[t] \in {"old", "write"}
        BY <3>4 DEF Overwrite, Step, Goto, Types
      <4> QED
        BY <4>1, <2>2, <2>3
    <3> QED
      BY <1>7, <3>1, <3>2, <3>3, <3>4
  <2>5. /\ from \in {"inline", "once"} => op[t].kind \in {"store", "publish"}
        /\ from = "before" => op[t].kind \in {"store", "publish", "cas"}
        /\ from = "overwrite" => op[t].kind = "root"
    BY <1>0, <2>2 DEF OpAgrees
  <2>6. from \in Barring /\ to \in Barring
    BY DEF Barring, Storing
  <2> QED
    BY <1>6, <2>1, <2>2, <2>4, <2>5, <2>6
<1>8. ASSUME NEW t \in Threads, Flush(t) \/ Grey(t) \/ Expected(t) PROVE Stores'
  <2>1. PICK from \in {"flush", "grey", "expected"}, to \in {"old", "expected", "write"} :
          Step(t, from, to)
    BY <1>8 DEF Flush, Grey, Expected, AfterBefore
  <2>2. pc[t] = from /\ UNCHANGED held
    BY <1>8, <2>1 DEF Flush, Grey, Expected, Step
  <2>3. pc'[t] = to
    BY <2>1 DEF Step, Goto, Types
  <2>4. /\ from = "flush" => Flush(t)
        /\ from = "grey" => Grey(t)
        /\ from = "expected" => Expected(t)
    BY <1>8, <2>2 DEF Flush, Grey, Expected, Step
  <2>5. /\ from = "flush" => to = "old" /\ grey' = [grey EXCEPT ![t] = Null]
        /\ from = "grey" => to # "old" /\ (grey' = grey \/ (request[t] /\ grey' = [grey EXCEPT ![t] = op[t].slot]))
        /\ from = "grey" /\ to = "expected" => op[t].kind = "cas"
        /\ from = "expected" => to = "write" /\ grey' = grey
    BY <2>2, <2>3, <2>4 DEF Flush, Grey, Expected, GreyFlush, AfterBefore, Step, Goto, Types
  <2>6. /\ \A u \in Threads : grey'[u] # Null => grey[u] # Null \/ (u = t /\ request[t])
        /\ to = "old" => grey'[t] = Null
    BY <2>5 DEF Types
  <2>7. op[t].kind \in {"store", "publish", "cas"}
    BY <1>0, <2>2 DEF OpAgrees
  <2>8. from \in Barring /\ to \in Barring
    BY DEF Barring, Storing
  <2> QED
    BY <1>6, <2>1, <2>2, <2>5, <2>6, <2>7, <2>8
<1>9. ASSUME NEW t \in Threads, Old(t) PROVE Stores'
  <2>1. Step(t, "old", "shade") /\ UNCHANGED grey /\ held' = [held EXCEPT ![t] = mem[op[t].slot]]
    BY <1>9 DEF Old
  <2>2. /\ \A u \in Threads : pc'[u] = IF u = t THEN "shade" ELSE pc[u]
        /\ BirthAgrees' /\ Exclusive' /\ FreshValue' /\ FirstStore'
    BY <2>1, StepStores DEF Barring, Storing
  <2>3. UNCHANGED <<mem, locals, where, owner, op, request, grey>> /\ pc[t] = "old"
    BY <2>1 DEF Step, progVars
  <2>4. held'[t] = mem[op[t].slot] /\ \A u \in Threads \ {t} : held'[u] = held[u]
    BY <2>1 DEF Types
  <2>5. OpAgrees'
    BY <1>0, <2>2, <2>3 DEF OpAgrees, Storing
  <2>6. HeldAgrees'
    BY <1>0, <2>2, <2>3, <2>4 DEF HeldAgrees, Plain
  <2>7. GreyAgrees'
    BY <1>0, <2>2, <2>3 DEF GreyAgrees
  <2> QED
    BY <2>2, <2>5, <2>6, <2>7 DEF Stores
<1>10. ASSUME NEW t \in Threads, Shade(t) PROVE Stores'
  <2>1. PICK to \in {"write", "grey"} :
          /\ Step(t, "shade", to) /\ UNCHANGED grey
          /\ to = IF op[t].kind = "root" THEN "write" ELSE "grey"
          /\ held' = [held EXCEPT ![t] = Null]
    BY <1>10 DEF Shade
  <2>2. /\ \A u \in Threads : pc'[u] = IF u = t THEN to ELSE pc[u]
        /\ BirthAgrees' /\ Exclusive' /\ FreshValue' /\ FirstStore'
    BY <2>1, StepStores DEF Barring, Storing
  <2>3. UNCHANGED <<mem, locals, where, owner, op, request, grey>> /\ pc[t] = "shade"
    BY <2>1 DEF Step, progVars
  <2>4. held'[t] = Null /\ \A u \in Threads \ {t} : held'[u] = held[u]
    BY <2>1 DEF Types
  <2>5. OpAgrees'
    <3>1. op[t].kind # "fill" /\ op[t].kind \in AllKinds
      BY <1>0, <2>3 DEF OpAgrees, Storing
    <3> QED
      BY <1>0, <2>1, <2>2, <2>3, <3>1 DEF OpAgrees, Storing, AllKinds
  <2>6. HeldAgrees'
    BY <1>0, <2>2, <2>3, <2>4 DEF HeldAgrees, Plain
  <2>7. GreyAgrees'
    BY <1>0, <2>1, <2>2, <2>3 DEF GreyAgrees
  <2> QED
    BY <2>2, <2>5, <2>6, <2>7 DEF Stores
<1>11. ASSUME NEW t \in Threads, Write(t) PROVE Stores'
  <2>1. UNCHANGED <<where, owner, held, grey, request>> /\ pc[t] = "write"
    BY <1>11 DEF Write, objVars, thrVars
  <2>2. PICK l \in {"run", "publish"} :
          /\ pc' = [pc EXCEPT ![t] = l]
          /\ IF l = "run" THEN op' = [op EXCEPT ![t] = Idle] ELSE op' = op
    BY <1>11 DEF Write, Goto
  <2>3. /\ pc'[t] = l /\ \A u \in Threads \ {t} : pc'[u] = pc[u] /\ op'[u] = op[u]
        /\ op'[t] = IF l = "run" THEN Idle ELSE op[t]
    BY <2>2 DEF Types
  <2>4. /\ op[t].slot \in locals[t] \cup Statics
        /\ op[t].value \in locals[t] \cup {Null}
        /\ op[t].kind \in AllKinds
        /\ op[t].slot \in Slots
    BY <1>0, <1>a, <2>1 DEF OpAgrees, Storing, Slots
  <2>5. BirthAgrees'
    <3>1. \A o \in Objects : where[o] = "none" => mem'[o] = mem[o]
      BY <1>11, <1>a, <2>4 DEF Write, Types, Slots
    <3> QED
      BY <1>0, <2>1, <3>1 DEF BirthAgrees
  <2>6. \A u \in Threads : locals[u] \subseteq locals'[u]
    BY <1>11 DEF Write, Types
  <2>7. \A u \in Threads \ {t} : locals'[u] = locals[u]
    BY <1>11 DEF Write, Types
  <2>8. \A x \in Slots : x # op[t].slot => mem'[x] = mem[x]
    BY <1>11 DEF Write, Types
  <2>9. OpAgrees'
    <3>1. \A u \in Threads \ {t} : op[u].kind = "fill" => mem'[op[u].slot] = mem[op[u].slot]
      <4>1. SUFFICES ASSUME NEW u \in Threads \ {t}, op[u].kind = "fill"
                     PROVE  mem'[op[u].slot] = mem[op[u].slot]
        OBVIOUS
      <4>2. pc[u] = "write" /\ op[u].slot \in Objects
        BY <1>0, <4>1 DEF OpAgrees
      <4>3. op[u].slot # op[t].slot
        BY <1>0, <2>1, <4>1, <4>2 DEF Exclusive, Plain, Storing
      <4> QED
        BY <2>8, <4>2, <4>3 DEF Slots
    <3>2. l = "publish" => op[t].kind # "fill"
      <4>1. l = "publish" => Publishes(t)
        BY <1>11, <2>3 DEF Write, Goto, Types
      <4> QED
        BY <1>0, <4>1, HeapAssumption DEF OpAgrees, Publishes
    <3>3. \A u \in Threads \ {t} : op'[u] = op[u] /\ pc'[u] = pc[u] /\ locals'[u] = locals[u]
      BY <2>3, <2>7
    <3>4. Idle.kind = "none" /\ Idle.slot = Null
      BY DEF Idle
    <3> QED
      BY <1>0, <2>1, <2>3, <2>6, <3>1, <3>2, <3>3, <3>4 DEF OpAgrees, Storing
  <2>10. HeldAgrees'
    <3>1. held[t] = Null
      BY <1>0, <2>1 DEF HeldAgrees
    <3>2. ASSUME NEW u \in Threads \ {t}, pc[u] = "shade", Plain(u)
          PROVE  mem'[op[u].slot] = mem[op[u].slot]
      <4>1. op[u].slot # op[t].slot /\ op[u].slot \in Slots
        BY <1>0, <1>a, <2>1, <3>2 DEF Exclusive, Storing, OpAgrees, Slots
      <4> QED
        BY <2>8, <4>1
    <3> QED
      BY <1>0, <2>1, <2>3, <3>1, <3>2 DEF HeldAgrees, Plain
  <2>11. GreyAgrees'
    BY <1>0, <2>1, <2>3 DEF GreyAgrees
  <2>12. Exclusive'
    BY <1>0, <2>1, <2>3 DEF Exclusive, Plain, Storing
  <2>13. FreshValue'
    <3>1. ASSUME NEW u \in Threads, NEW p, p = op'[u].value,
                 Busy(u)', ~Plain(u)', p # Null
          PROVE  /\ owner'[p] = u /\ \A x \in Slots : mem'[x] # p
                 /\ \A w \in Threads \ {u} : p \notin locals'[w]
      <4>1. u # t /\ p = op[u].value /\ Busy(u) /\ ~Plain(u)
        BY <2>3, <3>1 DEF Busy, Plain, Storing
      <4>2. Private(u, p)
        BY <1>0, <3>1, <4>1 DEF FreshValue
      <4>3. op[t].value # p
        BY <2>4, <3>1, <4>1, <4>2 DEF Private
      <4>4. \A x \in Slots : mem'[x] \in {mem[x], op[t].value}
        BY <1>11 DEF Write, Types
      <4>5. \A w \in Threads : locals'[w] \subseteq locals[w] \cup {mem[op[t].slot]}
        BY <1>11 DEF Write, Types
      <4> QED
        BY <2>1, <2>4, <4>2, <4>3, <4>4, <4>5 DEF Private
    <3> QED
      BY <3>1 DEF FreshValue, Private
  <2>14. FirstStore'
    <3>1. ASSUME NEW u \in Threads \ {t}, Busy(u), Plain(u), ~op[u].over
          PROVE  mem'[op[u].slot] = Null
      <4>1. op[u].slot # op[t].slot /\ op[u].slot \in Slots
        BY <1>0, <1>a, <2>1, <3>1 DEF Exclusive, Busy, Storing, OpAgrees, Slots
      <4> QED
        BY <1>0, <2>8, <3>1, <4>1 DEF FirstStore
    <3>2. ~Busy(t)'
      BY <2>3 DEF Busy, Storing
    <3> QED
      BY <2>3, <3>1, <3>2 DEF FirstStore, Busy, Plain
  <2> QED
    BY <2>5, <2>9, <2>10, <2>11, <2>12, <2>13, <2>14 DEF Stores
<1>12. ASSUME NEW t \in Threads, Publish(t) PROVE Stores'
  <2>1. UNCHANGED <<mem, locals, where, owner, grey, request>> /\ pc[t] = "publish"
    BY <1>12 DEF Publish, heapVars, progVars, objVars, thrVars
  <2>2. PICK l \in {"run", "seen"} :
          /\ pc' = [pc EXCEPT ![t] = l]
          /\ op' = IF l = "run" THEN [op EXCEPT ![t] = Idle] ELSE op
          /\ held' = IF l = "run" THEN held ELSE [held EXCEPT ![t] = mem[op[t].slot]]
    BY <1>12 DEF Publish, Goto, Finish
  <2>3. /\ pc'[t] = l /\ \A u \in Threads \ {t} : pc'[u] = pc[u] /\ op'[u] = op[u] /\ held'[u] = held[u]
        /\ op'[t] = IF l = "run" THEN Idle ELSE op[t]
        /\ l = "run" => held' = held
    BY <2>2 DEF Types
  <2>4. BirthAgrees'
    BY <1>0, <2>1 DEF BirthAgrees
  <2>5. OpAgrees'
    <3>1. Idle.kind = "none"
      BY DEF Idle
    <3>2. op[t].kind # "fill"
      BY <1>0, <2>1 DEF OpAgrees
    <3>3. \A u \in Threads \ {t} : pc'[u] = pc[u] /\ op'[u] = op[u]
      BY <2>3
    <3> QED
      BY <1>0, <2>1, <2>3, <3>1, <3>2, <3>3 DEF OpAgrees, Storing
  <2>6. HeldAgrees'
    BY <1>0, <2>1, <2>3 DEF HeldAgrees, Plain
  <2>7. GreyAgrees'
    BY <1>0, <2>1, <2>3 DEF GreyAgrees
  <2>8. Exclusive'
    BY <1>0, <2>1, <2>3 DEF Exclusive, Plain, Storing
  <2>9. FreshValue' /\ FirstStore'
    <3>1. \A u \in Threads : Busy(u)' => u # t /\ Busy(u)
      BY <2>1, <2>3 DEF Busy, Storing
    <3> QED
      BY <1>0, <2>1, <2>3, <3>1 DEF FreshValue, FirstStore, Busy, Plain, Private
  <2> QED
    BY <2>4, <2>5, <2>6, <2>7, <2>8, <2>9 DEF Stores
<1>13. ASSUME NEW t \in Threads, Seen(t) PROVE Stores'
  <2>1. UNCHANGED <<mem, locals, where, owner, grey, request>> /\ pc[t] = "seen"
    BY <1>13 DEF Seen, progVars, thrVars
  <2>2. /\ pc' = [pc EXCEPT ![t] = "run"]
        /\ op' = [op EXCEPT ![t] = Idle]
        /\ held' = [held EXCEPT ![t] = Null]
    BY <1>13 DEF Seen, Goto, Finish
  <2>3. /\ pc'[t] = "run" /\ \A u \in Threads \ {t} : pc'[u] = pc[u] /\ op'[u] = op[u] /\ held'[u] = held[u]
        /\ op'[t] = Idle /\ held'[t] = Null
    BY <2>2 DEF Types
  <2>4. BirthAgrees'
    BY <1>0, <2>1 DEF BirthAgrees
  <2>5. OpAgrees'
    <3>1. Idle.kind = "none"
      BY DEF Idle
    <3>2. op[t].kind # "fill"
      BY <1>0, <2>1 DEF OpAgrees
    <3>3. \A u \in Threads \ {t} : pc'[u] = pc[u] /\ op'[u] = op[u]
      BY <2>3
    <3> QED
      BY <1>0, <2>1, <2>3, <3>1, <3>2, <3>3 DEF OpAgrees, Storing
  <2>6. HeldAgrees'
    BY <1>0, <2>1, <2>3 DEF HeldAgrees, Plain
  <2>7. GreyAgrees'
    BY <1>0, <2>1, <2>3 DEF GreyAgrees
  <2>8. Exclusive'
    BY <1>0, <2>1, <2>3 DEF Exclusive, Plain, Storing
  <2>9. FreshValue' /\ FirstStore'
    <3>1. \A u \in Threads : Busy(u)' => u # t /\ Busy(u)
      BY <2>1, <2>3 DEF Busy, Storing
    <3> QED
      BY <1>0, <2>1, <2>3, <3>1 DEF FreshValue, FirstStore, Busy, Plain, Private
  <2> QED
    BY <2>4, <2>5, <2>6, <2>7, <2>8, <2>9 DEF Stores
<1>14. ASSUME NEW t \in Threads, Enter(t) \/ OpenBarrier(t) \/ OpenStatics(t) \/ ScanPick(t)
                                 \/ ScanResume(t) \/ ScanDecide(t)
       PROVE Stores'
  <2>1. /\ UNCHANGED <<mem, locals, where, owner, op, held, grey, request>>
        /\ pc[t] \in Exclusively \cup {"run"}
    BY <1>14 DEF Enter, OpenBarrier, OpenStatics, ScanPick, ScanResume, ScanDecide, Running,
                 Exclusively, Opening, Scanning, heapVars, progVars, objVars, opVars, thrVars
  <2>2. PICK l \in Exclusively \cup {"run"} : pc' = pc \/ pc' = [pc EXCEPT ![t] = l]
    BY <1>14 DEF Enter, OpenBarrier, OpenStatics, ScanPick, ScanResume, ScanDecide, Goto,
                 Exclusively, Opening, Scanning
  <2>3. \A u \in Threads : pc'[u] = pc[u] \/ (pc[u] \notin Storing /\ pc'[u] \notin Storing)
    BY <2>1, <2>2 DEF Types, Exclusively, Opening, Scanning, Storing
  <2>4. OpAgrees' /\ HeldAgrees' /\ Exclusive' /\ FreshValue' /\ FirstStore'
    BY <1>0, <2>1, <2>3, StoresQuiet
  <2>5. BirthAgrees' /\ GreyAgrees'
    BY <1>0, <2>1, <2>3, BirthQuiet, GreyQuiet DEF Storing
  <2> QED
    BY <2>4, <2>5 DEF Stores
<1>15. ASSUME NEW t \in Threads, OpenAsk(t) PROVE Stores'
  <2>1. /\ UNCHANGED <<mem, locals, where, owner, op, held, grey>> /\ pc[t] = "ask"
        /\ pc' = pc \/ pc' = [pc EXCEPT ![t] = "run"]
    BY <1>15 DEF OpenAsk, Goto, heapVars, progVars, objVars, opVars
  <2>2. \A u \in Threads : request[u] => request'[u]
    BY <1>15 DEF OpenAsk, Types
  <2>3. \A u \in Threads : pc'[u] = pc[u] \/ (pc[u] \notin Storing /\ pc'[u] \notin Storing)
    BY <2>1 DEF Types, Storing
  <2>4. OpAgrees' /\ HeldAgrees' /\ Exclusive' /\ FreshValue' /\ FirstStore'
    BY <1>0, <2>1, <2>3, StoresQuiet
  <2>5. BirthAgrees' /\ GreyAgrees'
    BY <1>0, <2>1, <2>2, <2>3, BirthQuiet, GreyQuiet DEF Storing
  <2> QED
    BY <2>4, <2>5 DEF Stores
<1>16. ASSUME NEW t \in Threads, ScanThread(t) PROVE Stores'
  <2>1. /\ UNCHANGED <<mem, locals, owner, op, held>> /\ pc[t] = "scan"
        /\ pc' = [pc EXCEPT ![t] = "resume"]
        /\ grey' = [grey EXCEPT ![scanning] = Null]
        /\ request' = [request EXCEPT ![scanning] = FALSE]
    BY <1>16 DEF ScanThread, Goto, progVars, opVars
  <2>2. \A o \in Objects : (where'[o] = "none" => where[o] = "none")
                        /\ (where'[o] = "new" => where[o] = "new")
    BY <1>16 DEF ScanThread, Taken
  <2>3. \A u \in Threads : pc'[u] = pc[u] \/ (pc[u] \notin Storing /\ pc'[u] \notin Storing)
    BY <2>1 DEF Types, Storing
  <2>4. OpAgrees' /\ HeldAgrees' /\ Exclusive' /\ FreshValue' /\ FirstStore'
    BY <1>0, <2>1, <2>3, StoresQuiet
  <2>5. BirthAgrees'
    BY <1>0, <2>1, <2>2, BirthQuiet
  <2>6. GreyAgrees'
    <3>1. \A u \in Threads : /\ u = scanning => grey'[u] = Null
                             /\ u # scanning => grey'[u] = grey[u] /\ request'[u] = request[u]
      BY <2>1 DEF Types
    <3> QED
      BY <1>0, <2>1, <2>3, <3>1 DEF GreyAgrees, Storing
  <2> QED
    BY <2>4, <2>5, <2>6 DEF Stores
<1>17. ASSUME NEW t \in Threads, MarkObject(t) \/ Retire(t) \/ PruneObject(t) \/ PruneEnd(t)
       PROVE Stores'
  <2>1. UNCHANGED <<mem, locals, owner, op, held, grey, request, pc>>
    BY <1>17 DEF MarkObject, Retire, PruneObject, PruneEnd, heapVars, progVars, objVars, opVars, thrVars
  <2>2. \A o \in Objects : (where'[o] = "none" => where[o] = "none")
                        /\ (where'[o] = "new" => where[o] = "new")
    BY <1>17 DEF MarkObject, Retire, PruneObject, PruneEnd, heapVars, objVars, Types
  <2>3. OpAgrees' /\ HeldAgrees' /\ Exclusive' /\ FreshValue' /\ FirstStore'
    BY <1>0, <2>1, StoresQuiet
  <2>4. BirthAgrees' /\ GreyAgrees'
    BY <1>0, <2>1, <2>2, BirthQuiet, GreyQuiet
  <2> QED
    BY <2>3, <2>4 DEF Stores
<1>18. ASSUME UNCHANGED vars PROVE Stores'
  <2>1. UNCHANGED <<mem, locals, where, owner, op, held, grey, request, pc>>
    BY <1>18 DEF vars, progVars, objVars, opVars, thrVars
  <2>2. OpAgrees' /\ HeldAgrees' /\ Exclusive' /\ FreshValue' /\ FirstStore'
    BY <1>0, <2>1, StoresQuiet
  <2>3. BirthAgrees' /\ GreyAgrees'
    BY <1>0, <2>1, BirthQuiet, GreyQuiet
  <2> QED
    BY <2>2, <2>3 DEF Stores
<1> QED
  BY <1>1, <1>2, <1>3, <1>4, <1>5, <1>7, <1>8, <1>9, <1>10, <1>11, <1>12, <1>13, <1>14, <1>15,
     <1>16, <1>17, <1>18 DEF Next, Program, StoreStep, Collect
=============================================================================
