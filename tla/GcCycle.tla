------------------------------ MODULE GcCycle ------------------------------
(***************************************************************************)
(* A collector cycle end to end (yafllib/object.c, with the stores of      *)
(* yafl.h): the cycle opens, every thread's roots are scanned, by itself   *)
(* or, while it blocks, by others; marking runs and retires; prune takes   *)
(* the unmarked objects back.  All of it while the threads allocate, load, *)
(* store and drop references.                                              *)
(*                                                                         *)
(* Grain: a store is the steps of its macro, an access to shared memory at *)
(* a time; gc_fsa_start and the handshake of a root scan are steps too.    *)
(* The mark stage is one object a step and retires when its closure is     *)
(* complete: that the executors achieve this is GcMark.  An object holds   *)
(* one reference and stands for itself (a page is pruned object by         *)
(* object); it does not move.  Every cycle is a major one: there is no old *)
(* generation.                                                             *)
(*                                                                         *)
(* Bound: MaxStores stores by the program; Objects bounds its allocations. *)
(***************************************************************************)
EXTENDS Naturals, FiniteSets

CONSTANTS
  Threads,   (* the declared threads                                       *)
  Objects,   (* every object the program can allocate                      *)
  Statics,   (* declared roots: root slots, fields of static objects       *)
  Kinds,     (* the store macros the program uses                          *)
  Mem0, Locals0,  (* where the program is when the model starts            *)
  Returning, (* threads whose blocking calls do return                     *)
  MaxStores, (* bound                                                      *)
  Null

AllKinds == {"store", "publish", "root", "cas", "fill"}
Slots == Objects \cup Statics
Born0 == (UNION {Locals0[t] : t \in Threads}) \cup {Mem0[s] : s \in Slots}

ASSUME HeapAssumption ==
  /\ Objects \cap Statics = {} /\ Null \notin Slots \cup Threads
  /\ Kinds \subseteq AllKinds
  /\ Mem0 \in [Slots -> Objects \cup {Null}]
  /\ Locals0 \in [Threads -> SUBSET Objects]
  /\ \A o \in Objects \ Born0 : Mem0[o] = Null
  /\ Returning \subseteq Threads /\ Returning # {}
  /\ MaxStores \in Nat

VARIABLES
  mem,      (* the reference in each slot                                  *)
  locals,   (* stack and registers                                         *)
  where,    (* "none", "new" (thread->new_pages), "pool", "freed"          *)
  owner,    (* the thread that allocated the object                        *)
  marked,   (* seen or atomic_seen                                         *)
  scanned,  (* its reference has been followed in this cycle               *)
  toPrune,  (* on pages_to_prune                                           *)
  stage, fsaLock,
  barrier,  (* gc_write_barrier_requested                                  *)
  tstate,   (* thread_state                                                *)
  rootsScanned, request,      (* roots_scanned, GC_SAFE_POINT_SCAN_ROOTS   *)
  grey,     (* grey_slot                                                   *)
  pc,       (* where each thread is                                        *)
  op,       (* the store under way: kind, slot, value, expected, and       *)
            (* whether it overwrites a reference                           *)
  held,     (* the reference its barrier has read                          *)
  todo,     (* gc_fsa_start: what remains of its loops                     *)
  scanning, (* the thread whose roots are being scanned                    *)
  stores    (* bound                                                       *)

progVars == <<mem, locals>>
objVars == <<where, owner, marked, scanned>>
heapVars == <<progVars, objVars, toPrune>>
gcVars == <<toPrune, stage, fsaLock, barrier, todo, scanning>>
thrVars == <<tstate, rootsScanned, request, grey>>
opVars == <<op, held, stores>>
vars == <<progVars, objVars, gcVars, thrVars, pc, opVars>>

Idle == [kind |-> "none", slot |-> Null, value |-> Null, expected |-> Null,
         over |-> FALSE]
Goto(t, l) == pc' = [pc EXCEPT ![t] = l]
Running(t) == pc[t] = "run"

Init ==
  /\ mem = Mem0
  /\ locals = Locals0
  /\ where = [o \in Objects |-> IF o \in Born0 THEN "pool" ELSE "none"]
  /\ owner = [o \in Objects |-> Null]
  /\ marked = {} /\ scanned = {} /\ toPrune = {}
  /\ stage = "IDLE"
  /\ fsaLock = Null
  /\ barrier = FALSE
  /\ tstate = [t \in Threads |-> "RUNNING"]
  /\ rootsScanned = [t \in Threads |-> FALSE]
  /\ request = [t \in Threads |-> FALSE]
  /\ grey = [t \in Threads |-> Null]
  /\ pc = [t \in Threads |-> "run"]
  /\ op = [t \in Threads |-> Idle]
  /\ held = [t \in Threads |-> Null]
  /\ todo = {} /\ scanning = Null
  /\ stores = 0

-----------------------------------------------------------------------------
(* The program between stores.                                             *)

(* object_alloc_fast_raw: black while this thread's scan is pending.       *)
Alloc(t) ==
  /\ Running(t)
  /\ \E o \in Objects : where[o] = "none"
  /\ LET o == CHOOSE x \in Objects : where[x] = "none" IN
       /\ where' = [where EXCEPT ![o] = "new"]
       /\ owner' = [owner EXCEPT ![o] = t]
       /\ locals' = [locals EXCEPT ![t] = @ \cup {o}]
       /\ marked' = IF request[t] THEN marked \cup {o} ELSE marked
  /\ UNCHANGED <<mem, scanned, gcVars, thrVars, pc, opVars>>

(* The sharing contract.  A heap field that is overwritten is read and      *)
(* written under its object's pin, so nobody loads it while such a store is *)
(* under way; a field whose store is its first, and a static slot, are read *)
(* at any time.                                                             *)
Readable(t) == Statics \cup {o \in locals[t] :
  \A u \in Threads \ {t} : op[u].slot = o => ~op[u].over}

Load(t) ==
  /\ Running(t)
  /\ \E s \in Readable(t) :
       mem[s] # Null /\ locals' = [locals EXCEPT ![t] = @ \cup {mem[s]}]
  /\ UNCHANGED <<mem, objVars, gcVars, thrVars, pc, opVars>>

Drop(t) ==
  /\ Running(t)
  /\ \E o \in locals[t] : locals' = [locals EXCEPT ![t] = @ \ {o}]
  /\ UNCHANGED <<mem, objVars, gcVars, thrVars, pc, opVars>>

(* gc_io_begin, around anything that may block.                            *)
IoBegin(t) ==
  /\ Running(t)
  /\ tstate' = [tstate EXCEPT ![t] = "SUSPENDED"]
  /\ Goto(t, "io")
  /\ UNCHANGED <<heapVars, stage, fsaLock, barrier, todo, scanning,
                 rootsScanned, request, grey, opVars>>

(* gc_io_end spins on a CAS from SUSPENDED.                                *)
IoEnd_Stores(t) ==   \* a plain store in place of the CAS
  /\ pc[t] = "io"
  /\ tstate' = [tstate EXCEPT ![t] = "RUNNING"]
  /\ Goto(t, "run")
  /\ UNCHANGED <<heapVars, stage, fsaLock, barrier, todo, scanning,
                 rootsScanned, request, grey, opVars>>
IoEnd(t) ==
  /\ pc[t] = "io"
  /\ tstate[t] = "SUSPENDED"
  /\ tstate' = [tstate EXCEPT ![t] = "RUNNING"]
  /\ Goto(t, "run")
  /\ UNCHANGED <<heapVars, stage, fsaLock, barrier, todo, scanning,
                 rootsScanned, request, grey, opVars>>

-----------------------------------------------------------------------------
(* The stores of yafl.h, one access a step.                                *)

(* Nobody else can have seen o since t allocated it.                       *)
Private(t, o) ==
  /\ owner[o] = t
  /\ \A s \in Slots : mem[s] # o
  /\ \A u \in Threads \ {t} : o \notin locals[u]

Entry == [store |-> "inline", publish |-> "inline", cas |-> "before",
          root |-> "overwrite", fill |-> "write"]

(* ... One thread at a time stores into a slot: under the pin, under the    *)
(* lock of the structure a root belongs to, or as the holder of a stub.     *)
(* Only a CAS competes, with others of its kind.                            *)
Writable(t, k, s) ==
  /\ s \in locals[t] \cup Statics
  /\ \A u \in Threads \ {t} : op[u].slot = s => k = "cas" /\ op[u].kind = "cas"

(* What a CAS expects it has just read from the slot, and what it puts      *)
(* there is fresh (lazy_enqueue_waiter) or no reference (lazy_release).     *)
Begin(t) ==
  /\ Running(t)
  /\ stores < MaxStores
  /\ stores' = stores + 1
  /\ \E k \in Kinds, s \in Slots, v \in locals[t] \cup {Null} :
       LET e == IF k = "cas" THEN mem[s] ELSE Null IN
       /\ Writable(t, k, s)
       /\ k \in {"root", "cas"} => s \in Statics
       /\ k = "fill" => s \notin Statics /\ Private(t, s) /\ mem[s] = Null
       /\ k = "cas" => v # e /\ (v # Null => Private(t, v))
       /\ op' = [op EXCEPT ![t] = [kind |-> k, slot |-> s, value |-> v,
                                   expected |-> e, over |-> mem[s] # Null]]
       /\ locals' = [locals EXCEPT ![t] = @ \cup ({e} \ {Null})]
       /\ Goto(t, Entry[k])
  /\ UNCHANGED <<mem, objVars, toPrune, stage, fsaLock, barrier, todo, scanning,
                 thrVars, held>>

(* A step of t's barrier that only moves on.                               *)
Step(t, from, to) ==
  /\ pc[t] = from
  /\ Goto(t, to)
  /\ UNCHANGED <<progVars, where, owner, scanned, gcVars, tstate,
                 rootsScanned, request, op, stores>>

Mark(o) == marked' = marked \cup ({o} \ {Null})

(* gc_store_owes_nothing: the flag, then a write-once store by a thread    *)
(* whose scan is done.                                                     *)
Inline(t) ==
  /\ Step(t, "inline", IF barrier THEN "once" ELSE "write")
  /\ UNCHANGED <<marked, grey, held>>
Once(t) ==
  /\ Step(t, "once", IF mem[op[t].slot] = Null /\ ~request[t] THEN "write"
                     ELSE "before")
  /\ UNCHANGED <<marked, grey, held>>

(* gc_store_before, and gc_root_overwrite, which has no insertion half.    *)
AfterBefore(t) == IF op[t].kind = "cas" THEN "expected" ELSE "write"
Before(t) ==
  /\ Step(t, "before", IF barrier THEN "flush" ELSE AfterBefore(t))
  /\ UNCHANGED <<marked, grey, held>>
Overwrite(t) ==
  /\ Step(t, "overwrite", IF barrier THEN "old" ELSE "write")
  /\ UNCHANGED <<marked, grey, held>>

GreyTarget(u) == IF grey[u] = Null THEN {} ELSE {mem[grey[u]]} \ {Null}

(* _gc_write_barrier_in2: the last store's new value, ...                  *)
GreyFlush(t) ==
  /\ grey' = [grey EXCEPT ![t] = Null]
  /\ marked' = marked \cup GreyTarget(t)
Flush(t) == Step(t, "flush", "old") /\ GreyFlush(t) /\ UNCHANGED held

(* ... this store's old value, ...                                         *)
Old(t) ==
  /\ Step(t, "old", "shade")
  /\ held' = [held EXCEPT ![t] = mem[op[t].slot]]
  /\ UNCHANGED <<marked, grey>>
Shade(t) ==
  /\ Step(t, "shade", IF op[t].kind = "root" THEN "write" ELSE "grey")
  /\ Mark(held[t])
  /\ held' = [held EXCEPT ![t] = Null]
  /\ UNCHANGED grey

(* ... and, while the thread's scan is pending, its new value later.       *)
Grey_Dropped(t) ==   \* a deletion barrier only
  /\ Step(t, "grey", AfterBefore(t))
  /\ UNCHANGED <<marked, grey, held>>
Grey(t) ==
  /\ Step(t, "grey", AfterBefore(t))
  /\ grey' = IF request[t] THEN [grey EXCEPT ![t] = op[t].slot] ELSE grey
  /\ UNCHANGED <<marked, held>>

(* gc_cas: the shade of the value it replaces if it lands.                 *)
Expected(t) ==
  /\ Step(t, "expected", "write")
  /\ IF barrier THEN Mark(op[t].expected) ELSE UNCHANGED marked
  /\ UNCHANGED <<grey, held>>

Publishes_HeapOnly(t) == op[t].kind = "publish" /\ op[t].slot \notin Statics
Publishes(t) == op[t].kind \in {"publish", "root"} \/ op[t].slot \in Statics

(* The store.  A CAS that fails leaves what it found with the caller.      *)
Write(t) ==
  LET o == op[t] IN
  /\ pc[t] = "write"
  /\ \/ /\ o.kind # "cas" \/ mem[o.slot] = o.expected
        /\ mem' = [mem EXCEPT ![o.slot] = o.value]
        /\ IF Publishes(t) THEN Goto(t, "publish") /\ UNCHANGED op
                           ELSE Goto(t, "run") /\ op' = [op EXCEPT ![t] = Idle]
        /\ UNCHANGED locals
     \/ /\ o.kind = "cas" /\ mem[o.slot] # o.expected
        /\ locals' = [locals EXCEPT ![t] = @ \cup ({mem[o.slot]} \ {Null})]
        /\ Goto(t, "run")
        /\ op' = [op EXCEPT ![t] = Idle]
        /\ UNCHANGED mem
  /\ UNCHANGED <<objVars, gcVars, thrVars, held, stores>>

(* gc_publish_slots: what the slot now holds, read back.                   *)
Finish(t) == Goto(t, "run") /\ op' = [op EXCEPT ![t] = Idle]
Publish(t) ==
  /\ pc[t] = "publish"
  /\ IF barrier
       THEN /\ held' = [held EXCEPT ![t] = mem[op[t].slot]]
            /\ Goto(t, "seen") /\ UNCHANGED op
       ELSE Finish(t) /\ UNCHANGED held
  /\ UNCHANGED <<heapVars, stage, fsaLock, barrier, todo, scanning, thrVars,
                 stores>>
Seen(t) ==
  /\ pc[t] = "seen"
  /\ Mark(held[t])
  /\ held' = [held EXCEPT ![t] = Null]
  /\ Finish(t)
  /\ UNCHANGED <<progVars, where, owner, scanned, gcVars, thrVars, stores>>

-----------------------------------------------------------------------------
(* The exclusive stages, under fsa_lock (gc_fsa_impl).                     *)

(* A thread enters at an allocation or a safe point.                       *)
Enter(t) ==
  /\ Running(t)
  /\ fsaLock = Null
  /\ \/ /\ stage = "IDLE"
        /\ stage' = "START"
        /\ UNCHANGED <<pc, fsaLock>>
     \/ /\ stage \in {"START", "SCAN_ROOTS"}
        /\ fsaLock' = t
        /\ Goto(t, IF stage = "START" THEN "open" ELSE "pick")
        /\ UNCHANGED stage
  /\ UNCHANGED <<heapVars, barrier, todo, scanning, thrVars, opVars>>

First(Rest) == CHOOSE x \in Rest : TRUE   (* the next in its declared order *)

(* gc_fsa_start: the barrier goes up, ...                                  *)
OpenBarrier(t) ==
  /\ pc[t] = "open"
  /\ barrier' = TRUE
  /\ todo' = Statics
  /\ Goto(t, "statics")
  /\ UNCHANGED <<heapVars, stage, fsaLock, scanning, thrVars, opVars>>

(* ... then the declared roots are read, once, ...                         *)
OpenStatics(t) ==
  /\ pc[t] = "statics"
  /\ \/ /\ todo # {}
        /\ LET s == First(todo) IN todo' = todo \ {s} /\ Mark(mem[s])
        /\ UNCHANGED pc
     \/ /\ todo = {}
        /\ todo' = Threads
        /\ Goto(t, "ask")
        /\ UNCHANGED marked
  /\ UNCHANGED <<progVars, where, owner, scanned, toPrune, stage, fsaLock,
                 barrier, scanning, thrVars, opVars>>

(* ... then every thread is asked for its own.                             *)
OpenAsk(t) ==
  /\ pc[t] = "ask"
  /\ \/ /\ todo # {}
        /\ LET u == First(todo) IN
             /\ todo' = todo \ {u}
             /\ request' = [request EXCEPT ![u] = TRUE]
             /\ rootsScanned' = [rootsScanned EXCEPT ![u] = FALSE]
        /\ UNCHANGED <<pc, stage, fsaLock>>
     \/ /\ todo = {}
        /\ stage' = "SCAN_ROOTS"
        /\ fsaLock' = Null
        /\ Goto(t, "run")
        /\ UNCHANGED <<todo, request, rootsScanned>>
  /\ UNCHANGED <<heapVars, barrier, scanning, tstate, grey, opVars>>

(* gc_fsa_scan_roots: this thread, if it is not scanned yet, or one that   *)
(* is suspended, or none.                                                  *)
ScanPick_OwnOnly(t) ==   \* suspended threads are left to themselves
  /\ pc[t] = "pick"
  /\ LET u == IF rootsScanned[t] THEN Null ELSE t IN
       /\ scanning' = u
       /\ tstate' = IF u = Null THEN tstate
                    ELSE [tstate EXCEPT ![u] = "SUSPENDED_SCAN"]
       /\ Goto(t, IF u = Null THEN "decide" ELSE "scan")
  /\ UNCHANGED <<heapVars, stage, fsaLock, barrier, todo, rootsScanned,
                 request, grey, opVars>>
ScanPick(t) ==
  /\ pc[t] = "pick"
  /\ \E u \in Threads \cup {Null} :
       /\ IF ~rootsScanned[t] THEN u = t
          ELSE IF \E w \in Threads : ~rootsScanned[w] /\ tstate[w] = "SUSPENDED"
               THEN u # Null /\ ~rootsScanned[u] /\ tstate[u] = "SUSPENDED"
               ELSE u = Null
       /\ scanning' = u
       /\ tstate' = IF u = Null THEN tstate
                    ELSE [tstate EXCEPT ![u] = "SUSPENDED_SCAN"]
       /\ Goto(t, IF u = Null THEN "decide" ELSE "scan")
  /\ UNCHANGED <<heapVars, stage, fsaLock, barrier, todo, rootsScanned,
                 request, grey, opVars>>

Taken(u) == [o \in Objects |->
  IF where[o] = "new" /\ owner[o] = u THEN "pool" ELSE where[o]]

(* The thread is held at its safe point or suspended: its grey slot, its   *)
(* new pages and its stack.                                                *)
ScanThread_KeepsGrey(t) ==   \* flushed but not cleared
  LET u == scanning IN
  /\ pc[t] = "scan"
  /\ rootsScanned' = [rootsScanned EXCEPT ![u] = TRUE]
  /\ where' = Taken(u)
  /\ marked' = marked \cup locals[u] \cup GreyTarget(u)
  /\ request' = [request EXCEPT ![u] = FALSE]
  /\ Goto(t, "resume")
  /\ UNCHANGED <<progVars, owner, scanned, gcVars, tstate, grey, opVars>>
ScanThread(t) ==
  LET u == scanning IN
  /\ pc[t] = "scan"
  /\ rootsScanned' = [rootsScanned EXCEPT ![u] = TRUE]
  /\ where' = Taken(u)
  /\ marked' = marked \cup locals[u] \cup GreyTarget(u)
  /\ grey' = [grey EXCEPT ![u] = Null]
  /\ request' = [request EXCEPT ![u] = FALSE]
  /\ Goto(t, "resume")
  /\ UNCHANGED <<progVars, owner, scanned, gcVars, tstate, opVars>>

ScanResume(t) ==
  /\ pc[t] = "resume"
  /\ tstate' = [tstate EXCEPT ![scanning] =
                  IF scanning = t THEN "RUNNING" ELSE "SUSPENDED"]
  /\ scanning' = Null
  /\ Goto(t, "decide")
  /\ UNCHANGED <<heapVars, stage, fsaLock, barrier, todo, rootsScanned,
                 request, grey, opVars>>

ScanDecide(t) ==
  /\ pc[t] = "decide"
  /\ stage' = IF \A u \in Threads : rootsScanned[u] THEN "MARK" ELSE "SCAN_ROOTS"
  /\ fsaLock' = Null
  /\ Goto(t, "run")
  /\ UNCHANGED <<heapVars, barrier, todo, scanning, thrVars, opVars>>

-----------------------------------------------------------------------------
(* The parallel stages, as GcMark and prune promise them.                  *)

(* Follow the reference of a marked object of this cycle's pages.          *)
MarkObject(t) ==
  /\ Running(t) /\ stage = "MARK"
  /\ \E o \in marked \ scanned :
       /\ where[o] = "pool"
       /\ Mark(mem[o])
       /\ scanned' = scanned \cup {o}
  /\ UNCHANGED <<progVars, where, owner, gcVars, thrVars, pc, opVars>>

(* gc_fsa_mark_sweep_tail retires the stage: the barrier goes down.        *)
Retire(t) ==
  /\ Running(t) /\ stage = "MARK"
  /\ \A o \in marked \ scanned : where[o] # "pool"
  /\ barrier' = FALSE
  /\ stage' = "PRUNE"
  /\ toPrune' = {o \in Objects : where[o] = "pool"}
  /\ UNCHANGED <<progVars, objVars, fsaLock, todo, scanning, thrVars, pc,
                 opVars>>

(* gc_fsa_prune_body: marked survives, with its marks reset; the rest goes.*)
PruneObject_KeepsScanned(t) ==   \* the survivor is not reset
  /\ Running(t) /\ stage = "PRUNE"
  /\ \E o \in toPrune :
       /\ toPrune' = toPrune \ {o}
       /\ where' = IF o \in marked THEN where ELSE [where EXCEPT ![o] = "freed"]
       /\ marked' = marked \ {o}
  /\ UNCHANGED <<progVars, owner, scanned, stage, fsaLock, barrier, todo,
                 scanning, thrVars, pc, opVars>>
PruneObject(t) ==
  /\ Running(t) /\ stage = "PRUNE"
  /\ \E o \in toPrune :
       /\ toPrune' = toPrune \ {o}
       /\ where' = IF o \in marked THEN where ELSE [where EXCEPT ![o] = "freed"]
       /\ marked' = marked \ {o}
       /\ scanned' = scanned \ {o}
  /\ UNCHANGED <<progVars, owner, stage, fsaLock, barrier, todo, scanning,
                 thrVars, pc, opVars>>

(* gc_fsa_prune_tail.                                                      *)
PruneEnd(t) ==
  /\ Running(t) /\ stage = "PRUNE"
  /\ toPrune = {}
  /\ stage' = "IDLE"
  /\ UNCHANGED <<heapVars, fsaLock, barrier, todo, scanning, thrVars, pc,
                 opVars>>

-----------------------------------------------------------------------------
StoreStep(t) ==
  \/ Inline(t) \/ Once(t) \/ Before(t) \/ Overwrite(t) \/ Flush(t) \/ Old(t)
  \/ Shade(t) \/ Grey(t) \/ Expected(t) \/ Write(t) \/ Publish(t) \/ Seen(t)
Collect(t) ==
  \/ OpenBarrier(t) \/ OpenStatics(t) \/ OpenAsk(t)
  \/ ScanPick(t) \/ ScanThread(t) \/ ScanResume(t) \/ ScanDecide(t)
  \/ MarkObject(t) \/ Retire(t) \/ PruneObject(t) \/ PruneEnd(t)
Program(t) == Alloc(t) \/ Load(t) \/ Drop(t) \/ Begin(t) \/ IoBegin(t) \/ IoEnd(t)

Next == \E t \in Threads : Program(t) \/ StoreStep(t) \/ Enter(t) \/ Collect(t)

SafeSpec == Init /\ [][Next]_vars

(* The compiler plants safe points in loops and allocations drive the       *)
(* collector, so a thread that runs keeps trying to enter it, and a step it *)
(* is inside of ends.  The lock is held for short: a thread that is not     *)
(* blocked for good does not run only while another holds it.  Outside      *)
(* Returning, a thread may be blocked for good.  The program owes nothing:  *)
(* it may stop storing, or never drop.                                      *)
RunsOften(t) == []<>(Running(t) /\ fsaLock = Null)
BlocksForGood(t) == t \notin Returning /\ <>[](pc[t] = "io")
Fairness == \A t \in Threads :
  /\ WF_vars(StoreStep(t))
  /\ SF_vars(Enter(t) \/ Collect(t))
  /\ RunsOften(t) \/ BlocksForGood(t)
Spec == SafeSpec /\ Fairness

-----------------------------------------------------------------------------
PCs == {"run", "io", "inline", "once", "before", "overwrite", "flush", "old",
        "shade", "grey", "expected", "write", "publish", "seen", "open",
        "statics", "ask", "pick", "scan", "resume", "decide"}
Stages == {"IDLE", "START", "SCAN_ROOTS", "MARK", "PRUNE"}

(* The type invariant; an object that is not born, or is gone, carries no   *)
(* mark, so a block handed out again starts white or black by its birth.    *)
TypeOK ==
  /\ mem \in [Slots -> Objects \cup {Null}]
  /\ locals \in [Threads -> SUBSET Objects]
  /\ where \in [Objects -> {"none", "new", "pool", "freed"}]
  /\ owner \in [Objects -> Threads \cup {Null}]
  /\ marked \subseteq {o \in Objects : where[o] \in {"new", "pool"}}
  /\ scanned \subseteq marked
  /\ toPrune \subseteq {o \in Objects : where[o] = "pool"}
  /\ stage \in Stages /\ fsaLock \in Threads \cup {Null} /\ barrier \in BOOLEAN
  /\ tstate \in [Threads -> {"RUNNING", "SUSPENDED", "SUSPENDED_SCAN"}]
  /\ rootsScanned \in [Threads -> BOOLEAN] /\ request \in [Threads -> BOOLEAN]
  /\ grey \in [Threads -> Slots \cup {Null}]
  /\ pc \in [Threads -> PCs]
  /\ op \in [Threads -> [kind : Kinds \cup {"none"}, slot : Slots \cup {Null},
                        value : Objects \cup {Null},
                        expected : Objects \cup {Null}, over : BOOLEAN]]
  /\ held \in [Threads -> Objects \cup {Null}]
  /\ todo \subseteq Statics \cup Threads
  /\ scanning \in Threads \cup {Null}
  /\ stores \in 0 .. MaxStores

(* The collector is a garbage collected heap: what it takes back nobody can *)
(* reach, whatever the program stored while the cycle ran.                  *)
H == INSTANCE ManagedHeap WITH
       born <- {o \in Objects : where[o] # "none"},
       freed <- {o \in Objects : where[o] = "freed"}
ImplementsHeap == H!HSpec

(* A barrier never marks through a reference that has gone stale: what it   *)
(* has read from a slot, or will read from its grey slot, is not reclaimed  *)
(* under it, although the thread may be preempted there for a whole stage.  *)
HeldNotFreed == \A t \in Threads :
  /\ held[t] # Null => where[held[t]] # "freed"
  /\ grey[t] \in Objects => where[grey[t]] # "freed"

(* While marking runs, an object of this cycle that the program can reach   *)
(* is marked, or marked objects still to be scanned lead to it: no store    *)
(* hides one from the marker (the "no black to white" half of the hybrid    *)
(* barrier's argument, for threads scanned at different times).             *)
GreyClosed(C) == \A o \in C :
  where[o] = "pool" /\ mem[o] # Null /\ where[mem[o]] = "pool" => mem[o] \in C
GreyReach == {o \in Objects :
  \A C \in SUBSET Objects : marked \ scanned \subseteq C /\ GreyClosed(C) => o \in C}
NothingHidden ==
  stage = "MARK" => \A o \in H!Reachable : where[o] = "pool" =>
                      o \in marked \cup GreyReach

(* Nobody scans the stack of a thread that runs the program: a thread comes *)
(* back from a blocking call only when no scan of it is under way, and the  *)
(* scanner gives it back as it found it.                                    *)
ScannedThreadHeld == \A t \in Threads :
  /\ tstate[t] = "RUNNING" <=> pc[t] # "io" /\ scanning # t
  /\ tstate[t] = "SUSPENDED_SCAN" <=> scanning = t

(* Garbage comes back, although some thread blocks for ever: its roots are  *)
(* scanned by others, and no mark keeps an unreachable object for good.     *)
GarbageComesBack == H!GarbageComesBack
=============================================================================
