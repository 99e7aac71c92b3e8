------------------------------ MODULE GcMark ------------------------------
(***************************************************************************)
(* The mark stage of the collector (yafllib/object.c): executors that      *)
(* claim pages and scan them in parallel, mutators whose deletion barrier  *)
(* marks what they overwrite, the reprocess ring between the two, and the  *)
(* tail that decides that marking is over.                                 *)
(*                                                                         *)
(* Grain: each access to a word that another thread writes is a step, and  *)
(* so is each critical section of the pool lock, except the tail's checks, *)
(* which hold the lock over several steps because what they read is also   *)
(* written without it.  A page's bitmap is one word.                       *)
(*                                                                         *)
(* One mark stage is modelled, from the end of SCAN_ROOTS (roots marked,   *)
(* every page to scan) to the store of PRUNE.  An object holds one         *)
(* reference.  Forwarding, the old generation (whose pages are never       *)
(* marked) and pacing are left out; an executor may stop claiming after    *)
(* any batch, as the step budget makes it.                                 *)
(*                                                                         *)
(* Bounds: MaxWrites mutator stores; Batch (8) and RingSize (16) are       *)
(* parameters.                                                             *)
(***************************************************************************)
EXTENDS Naturals, FiniteSets

CONSTANTS
  Objects, Pages, PageOf,  (* the heap at the start of the stage ...       *)
  Field0, Roots,           (* ... with its references and its roots        *)
  Executors, Mutators,
  Mutable, NewValues,      (* the objects mutators store to, and what      *)
  RingSize,                (* REPROCESS_PAGE_COUNT                         *)
  Batch,                   (* MARK_CLAIM_BATCH                             *)
  MaxWrites,               (* bound: stores by all mutators                *)
  Null

ASSUME HeapAssumption ==
  /\ Null \notin Objects \cup Pages \cup Executors
  /\ IsFiniteSet(Pages) /\ IsFiniteSet(Executors)
  /\ PageOf \in [Objects -> Pages]
  /\ Field0 \in [Objects -> Objects \cup {Null}]
  /\ Roots \in SUBSET Objects
  /\ Mutable \in SUBSET Objects
  /\ NewValues \in SUBSET (Objects \cup {Null})
ASSUME SizeAssumption ==
  /\ RingSize \in Nat \ {0}
  /\ Batch \in Nat \ {0}
  /\ MaxWrites \in Nat

(* What was reachable when the stage began: the smallest set that holds    *)
(* the roots and whatever its objects refer to.                            *)
HeapClosed(S) == \A o \in S : Field0[o] # Null => Field0[o] \in S
Snapshot ==
  {o \in Objects : \A S \in SUBSET Objects : Roots \subseteq S /\ HeapClosed(S) => o \in S}

VARIABLES
  field,       (* the reference each object holds                          *)
  seen, atomicSeen, scanned,  (* page->head.scanner bitmaps                *)
  processed,   (* processed_by_epoch                                       *)
  pending,     (* requeue_pending                                          *)
  epoch,
  toScan, toPrune,            (* pages_to_scan, pages_to_prune             *)
  inFlight,    (* gc_pages_in_flight                                       *)
  ring, head, tail, overflow, (* reprocess_page_list and its indexes       *)
  stage,       (* MARK_SWEEP, then PRUNE; the barrier is on until PRUNE    *)
  lock,        (* the pool lock, where the tail holds it over steps        *)
  fsaLock,
  pc, cur, batch, finished, requeue,  (* executor: pc, page, its batch     *)
  todo, worklist, child,      (* executor: the scan's bits, back-edges ... *)
  draining,    (* ... and whether it is drain_worklist that scans          *)
  slot, taken, inTail,        (* executor: pump_ring's locals              *)
  mpc, writing, target, mtail, writes, (* mutator                          *)
  followed     (* history: objects whose reference a scan has read         *)

pageVars == <<seen, atomicSeen, scanned, processed, pending>>
listVars == <<toScan, toPrune>>
ringVars == <<ring, head, tail, overflow>>
scanVars == <<todo, worklist, child, draining, followed>>
batchVars == <<cur, batch, finished, requeue>>
pumpVars == <<slot, taken, inTail>>
mutVars == <<mpc, writing, target, mtail, writes>>
heapVars == <<field, pageVars, epoch, listVars>>
ctlVars == <<stage, lock, fsaLock>>
sharedVars == <<heapVars, inFlight, ringVars, ctlVars>>
execVars == <<batchVars, scanVars, pumpVars>>
vars == <<sharedVars, pc, execVars, mutVars>>

Marked == UNION {seen[p] \cup atomicSeen[p] : p \in Pages}
Goto(e, l) == pc' = [pc EXCEPT ![e] = l]
MGoto(m, l) == mpc' = [mpc EXCEPT ![m] = l]

Init ==
  /\ field = Field0
  /\ seen = [p \in Pages |-> {}]
  /\ atomicSeen = [p \in Pages |-> {o \in Roots : PageOf[o] = p}]
  /\ scanned = [p \in Pages |-> {}]
  /\ processed = [p \in Pages |-> 0]
  /\ pending = [p \in Pages |-> FALSE]
  /\ epoch = 1
  /\ toScan = Pages
  /\ toPrune = {}
  /\ inFlight = 0
  /\ ring = [i \in 0 .. RingSize - 1 |-> Null]
  /\ head = 0
  /\ tail = 0
  /\ overflow = FALSE
  /\ stage = "MARK_SWEEP"
  /\ lock = Null
  /\ fsaLock = FALSE
  /\ pc = [e \in Executors |-> "idle"]
  /\ cur = [e \in Executors |-> Null]
  /\ batch = [e \in Executors |-> {}]
  /\ finished = [e \in Executors |-> {}]
  /\ requeue = [e \in Executors |-> {}]
  /\ todo = [e \in Executors |-> {}]
  /\ worklist = [e \in Executors |-> {}]
  /\ child = [e \in Executors |-> Null]
  /\ draining = [e \in Executors |-> FALSE]
  /\ followed = {}
  /\ slot = [e \in Executors |-> 0]
  /\ taken = [e \in Executors |-> Null]
  /\ inTail = [e \in Executors |-> FALSE]
  /\ mpc = [m \in Mutators |-> "idle"]
  /\ writing = [m \in Mutators |-> 0]
  /\ target = [m \in Mutators |-> <<Null, Null, Null>>]
  /\ mtail = [m \in Mutators |-> 0]
  /\ writes = 0

-----------------------------------------------------------------------------
(* The mutator: a store of v over o's reference, the barrier first; a      *)
(* store over NULL owes nothing.                                           *)
(* target[m] is <<o, the old reference, v>>.                               *)
(*                                                                         *)
(* atomic_gc_object_mark_as_seen: what is marked already needs nothing;    *)
(* otherwise the writer counts itself before its bit can be seen.          *)
Barrier(m, o, v) ==
  /\ mpc[m] = "idle"
  /\ stage = "MARK_SWEEP"
  /\ writes < MaxWrites
  /\ v # field[o]
  /\ writes' = writes + 1
  /\ target' = [target EXCEPT ![m] = <<o, field[o], v>>]
  /\ IF field[o] \in Marked \cup {Null}
       THEN MGoto(m, "store") /\ UNCHANGED writing
       ELSE MGoto(m, "set") /\ writing' = [writing EXCEPT ![m] = @ + 1]
  /\ UNCHANGED <<sharedVars, pc, execVars, mtail>>

TargetPage(m) == PageOf[target[m][2]]

(* ...$push: the bit, by fetch_or; a bit already set is its setter's.      *)
PushSet(m) ==
  LET c == target[m][2] p == TargetPage(m) IN
  /\ mpc[m] = "set"
  /\ MGoto(m, IF c \in atomicSeen[p] THEN "leave" ELSE "epoch")
  /\ atomicSeen' = [atomicSeen EXCEPT ![p] = @ \cup {c}]
  /\ UNCHANGED <<field, seen, scanned, processed, pending, epoch, listVars,
                 inFlight, ringVars, ctlVars, pc, execVars, writing, target,
                 mtail, writes>>

(* A page not yet processed this epoch will find the bit itself.           *)
PushEpoch(m) ==
  /\ mpc[m] = "epoch"
  /\ MGoto(m, IF processed[TargetPage(m)] = epoch THEN "dedupe" ELSE "leave")
  /\ UNCHANGED <<sharedVars, pc, execVars, writing, target, mtail, writes>>

(* A page whose entry stands in any slot of the list is not pushed again.  *)
PushDedupe(m) ==
  /\ mpc[m] = "dedupe"
  /\ IF \E i \in DOMAIN ring : ring[i] = TargetPage(m)
       THEN MGoto(m, "leave") /\ UNCHANGED mtail
       ELSE MGoto(m, "full") /\ mtail' = [mtail EXCEPT ![m] = tail]
  /\ UNCHANGED <<sharedVars, pc, execVars, writing, target, writes>>

(* tail - head is unsigned: a head past the tail reads as a full ring.     *)
PushFull(m) ==
  /\ mpc[m] = "full"
  /\ IF mtail[m] < head \/ mtail[m] - head >= RingSize
       THEN overflow' = TRUE /\ MGoto(m, "leave")
       ELSE MGoto(m, "cas") /\ UNCHANGED overflow
  /\ UNCHANGED <<heapVars, inFlight, ring, head, tail, ctlVars, pc, execVars,
                 writing, target, mtail, writes>>

PushCas(m) ==
  /\ mpc[m] = "cas"
  /\ IF tail = mtail[m]
       THEN tail' = tail + 1 /\ MGoto(m, "entry") /\ UNCHANGED mtail
       ELSE mtail' = [mtail EXCEPT ![m] = tail] /\ MGoto(m, "full")
            /\ UNCHANGED tail
  /\ UNCHANGED <<heapVars, inFlight, ring, head, overflow, ctlVars, pc,
                 execVars, writing, target, writes>>

PushEntry(m) ==
  /\ mpc[m] = "entry"
  /\ ring' = [ring EXCEPT ![mtail[m] % RingSize] = TargetPage(m)]
  /\ MGoto(m, "leave")
  /\ UNCHANGED <<heapVars, inFlight, head, tail, overflow, ctlVars, pc,
                 execVars, writing, target, mtail, writes>>

PushLeave(m) ==
  /\ mpc[m] = "leave"
  /\ writing' = [writing EXCEPT ![m] = @ - 1]
  /\ MGoto(m, "store")
  /\ UNCHANGED <<sharedVars, pc, execVars, target, mtail, writes>>

(* The store the barrier was for.                                          *)
Store(m) ==
  /\ mpc[m] = "store"
  /\ field' = [field EXCEPT ![target[m][1]] = target[m][3]]
  /\ target' = [target EXCEPT ![m] = <<Null, Null, Null>>]
  /\ mtail' = [mtail EXCEPT ![m] = 0]
  /\ MGoto(m, "idle")
  /\ UNCHANGED <<pageVars, epoch, listVars, inFlight, ringVars, ctlVars, pc,
                 execVars, writing, writes>>

-----------------------------------------------------------------------------
(* gc_fsa_mark_sweep_body: claim, scan, publish.                           *)

(* gc_fsa_impl finds the stage MARK_SWEEP.                                 *)
Enter(e) ==
  /\ pc[e] = "idle"
  /\ stage = "MARK_SWEEP"
  /\ Goto(e, "claim")
  /\ UNCHANGED <<sharedVars, execVars, mutVars>>

(* One hold of the pool lock claims up to Batch pages.                     *)
Claim(e) ==
  /\ pc[e] = "claim"
  /\ lock = Null
  /\ \/ /\ stage = "MARK_SWEEP"
        /\ \E B \in SUBSET toScan :
             /\ B # {} /\ Cardinality(B) <= Batch
             /\ toScan' = toScan \ B
             /\ pending' = [p \in Pages |-> pending[p] /\ p \notin B]
             /\ inFlight' = inFlight + Cardinality(B)
             /\ batch' = [batch EXCEPT ![e] = B]
             /\ Goto(e, "merge")
     \/ /\ stage # "MARK_SWEEP" \/ toScan = {}
        /\ Goto(e, "pump")
        /\ UNCHANGED <<toScan, pending, inFlight, batch>>
  /\ UNCHANGED <<field, seen, atomicSeen, scanned, processed, epoch, toPrune,
                 ringVars, ctlVars, cur, finished, requeue, scanVars,
                 pumpVars, mutVars>>

(* The next page of the batch: fold its marks in, and enter the scan when  *)
(* any object of it is marked.                                             *)
MergeFirst(e) ==
  /\ pc[e] = "merge"
  /\ \E p \in batch[e] :
       /\ cur' = [cur EXCEPT ![e] = p]
       /\ batch' = [batch EXCEPT ![e] = @ \ {p}]
       /\ seen' = [seen EXCEPT ![p] = @ \cup atomicSeen[p]]
       /\ atomicSeen' = [atomicSeen EXCEPT ![p] = {}]
       /\ Goto(e, IF seen[p] \cup atomicSeen[p] # {} THEN "pass" ELSE "processed")
  /\ UNCHANGED <<field, scanned, processed, pending, epoch, listVars,
                 inFlight, ringVars, ctlVars, finished, requeue, scanVars,
                 pumpVars, mutVars>>

(* scan_page: the diff of seen and scanned, until a pass finds nothing.    *)
ScanPage(e) ==
  LET p == cur[e] IN
  /\ pc[e] = "pass"
  /\ todo' = [todo EXCEPT ![e] = seen[p] \ scanned[p]]
  /\ scanned' = [scanned EXCEPT ![p] = seen[p]]
  /\ Goto(e, IF seen[p] \ scanned[p] # {} THEN "scan" ELSE "again")
  /\ UNCHANGED <<field, seen, atomicSeen, processed, pending, epoch,
                 listVars, inFlight, ringVars, ctlVars, batchVars, worklist,
                 child, draining, followed, pumpVars, mutVars>>

(* scan_object reads the reference; mark_object filters what is marked.    *)
ScanRead(e, o) ==
  /\ followed' = followed \cup {o}
  /\ IF field[o] \in Marked \cup {Null}
       THEN UNCHANGED <<child, pc>>
       ELSE child' = [child EXCEPT ![e] = field[o]] /\ Goto(e, "mark")

ScanObject(e) ==
  /\ pc[e] = "scan" /\ ~draining[e]
  /\ \/ \E o \in todo[e] : ScanRead(e, o) /\ todo' = [todo EXCEPT ![e] = @ \ {o}]
     \/ todo[e] = {} /\ Goto(e, "pass") /\ UNCHANGED <<todo, child, followed>>
  /\ UNCHANGED <<sharedVars, batchVars, worklist, draining, pumpVars, mutVars>>

(* mark_object: the bit, by fetch_or ...                                   *)
MarkSet(e) ==
  LET c == child[e] p == PageOf[c] IN
  /\ pc[e] = "mark"
  /\ atomicSeen' = [atomicSeen EXCEPT ![p] = @ \cup {c}]
  /\ IF c \in atomicSeen[p]
       THEN Goto(e, "scan") /\ child' = [child EXCEPT ![e] = Null]
       ELSE Goto(e, "check") /\ UNCHANGED child
  /\ UNCHANGED <<field, seen, scanned, processed, pending, epoch, listVars,
                 inFlight, ringVars, ctlVars, batchVars, todo, worklist,
                 draining, followed, pumpVars, mutVars>>

(* ... then a back-edge into a processed page goes to the worklist.        *)
MarkCheck(e) ==
  /\ pc[e] = "check"
  /\ worklist' = IF processed[PageOf[child[e]]] = epoch
                   THEN [worklist EXCEPT ![e] = @ \cup {child[e]}]
                   ELSE worklist
  /\ child' = [child EXCEPT ![e] = Null]
  /\ Goto(e, "scan")
  /\ UNCHANGED <<sharedVars, batchVars, todo, draining, followed, pumpVars,
                 mutVars>>

(* bitmap_or_test_new_reset_all: scan again when new marks arrived.        *)
MergeAgain(e) ==
  LET p == cur[e] IN
  /\ pc[e] = "again"
  /\ seen' = [seen EXCEPT ![p] = @ \cup atomicSeen[p]]
  /\ atomicSeen' = [atomicSeen EXCEPT ![p] = {}]
  /\ Goto(e, IF atomicSeen[p] \ seen[p] # {} THEN "pass" ELSE "processed")
  /\ UNCHANGED <<field, scanned, processed, pending, epoch, listVars,
                 inFlight, ringVars, ctlVars, execVars, mutVars>>

SetProcessed(e) ==
  /\ pc[e] = "processed"
  /\ processed' = [processed EXCEPT ![cur[e]] = epoch]
  /\ draining' = [draining EXCEPT ![e] = TRUE]
  /\ Goto(e, "scan")
  /\ UNCHANGED <<field, seen, atomicSeen, scanned, pending, epoch, listVars,
                 inFlight, ringVars, ctlVars, batchVars, todo, worklist,
                 child, followed, pumpVars, mutVars>>

(* drain_worklist: scan each back-edge, without its scanned bit.           *)
Drain(e) ==
  /\ pc[e] = "scan" /\ draining[e]
  /\ \/ /\ \E o \in worklist[e] :
             ScanRead(e, o) /\ worklist' = [worklist EXCEPT ![e] = @ \ {o}]
        /\ UNCHANGED draining
     \/ /\ worklist[e] = {}
        /\ draining' = [draining EXCEPT ![e] = FALSE]
        /\ Goto(e, "late")
        /\ UNCHANGED <<worklist, child, followed>>
  /\ UNCHANGED <<sharedVars, batchVars, todo, pumpVars, mutVars>>

(* Broken variant: no end-of-page merge; only a deferred request sends the *)
(* page back.                                                              *)
LateMerge_NoMerge(e) ==
  LET p == cur[e] IN
  /\ pc[e] = "late"
  /\ pending' = [pending EXCEPT ![p] = FALSE]
  /\ requeue' = [requeue EXCEPT ![e] = IF pending[p] THEN @ \cup {p} ELSE @]
  /\ finished' = [finished EXCEPT ![e] = @ \cup {p}]
  /\ cur' = [cur EXCEPT ![e] = Null]
  /\ Goto(e, IF batch[e] # {} THEN "merge" ELSE "publish")
  /\ UNCHANGED <<field, seen, atomicSeen, scanned, processed, epoch,
                 listVars, inFlight, ringVars, ctlVars, batch, scanVars,
                 pumpVars, mutVars>>

(* The end-of-page merge: late marks, or a deferred request, send the page *)
(* back.                                                                   *)
LateMerge(e) ==
  LET p == cur[e] IN
  /\ pc[e] = "late"
  /\ seen' = [seen EXCEPT ![p] = @ \cup atomicSeen[p]]
  /\ atomicSeen' = [atomicSeen EXCEPT ![p] = {}]
  /\ pending' = [pending EXCEPT ![p] = FALSE]
  /\ requeue' = [requeue EXCEPT ![e] =
                   IF atomicSeen[p] # {} \/ pending[p] THEN @ \cup {p} ELSE @]
  /\ finished' = [finished EXCEPT ![e] = @ \cup {p}]
  /\ cur' = [cur EXCEPT ![e] = Null]
  /\ Goto(e, IF batch[e] # {} THEN "merge" ELSE "publish")
  /\ UNCHANGED <<field, scanned, processed, epoch, listVars, inFlight,
                 ringVars, ctlVars, batch, scanVars, pumpVars, mutVars>>

(* One hold of the lock publishes the batch.                               *)
Publish(e) ==
  LET back == requeue[e] \cup {p \in finished[e] : pending[p]} IN
  /\ pc[e] = "publish"
  /\ lock = Null
  /\ toScan' = toScan \cup back
  /\ toPrune' = toPrune \cup (finished[e] \ back)
  /\ processed' = [p \in Pages |-> IF p \in back THEN 0 ELSE processed[p]]
  /\ pending' = [p \in Pages |-> pending[p] /\ p \notin finished[e] \ requeue[e]]
  /\ requeue' = [requeue EXCEPT ![e] = {}]
  /\ Goto(e, "release")
  /\ UNCHANGED <<field, seen, atomicSeen, scanned, epoch, inFlight, ringVars,
                 ctlVars, cur, batch, finished, scanVars, pumpVars, mutVars>>

(* The batch leaves flight; the step's budget may be spent.                *)
Release(e) ==
  /\ pc[e] = "release"
  /\ inFlight' = inFlight - Cardinality(finished[e])
  /\ finished' = [finished EXCEPT ![e] = {}]
  /\ \/ Goto(e, "claim")
     \/ Goto(e, "pump")
  /\ UNCHANGED <<heapVars, ringVars, ctlVars, cur, batch, requeue, scanVars,
                 pumpVars, mutVars>>

-----------------------------------------------------------------------------
(* Broken variants: the entry is not counted in flight; the ring counts as *)
(* non-empty when its indexes meet.                                        *)
PumpRead_Uncounted(e) ==
  /\ pc[e] = "pump"
  /\ IF head >= tail
       THEN /\ Goto(e, IF inTail[e] THEN "busy" ELSE "empty")
            /\ UNCHANGED slot
       ELSE /\ slot' = [slot EXCEPT ![e] = head]
            /\ Goto(e, "claimentry")
  /\ UNCHANGED <<sharedVars, batchVars, scanVars, taken, inTail, mutVars>>

PumpRead_OffByOne(e) ==
  /\ pc[e] = "pump"
  /\ IF head > tail
       THEN /\ Goto(e, IF inTail[e] THEN "busy" ELSE "empty")
            /\ UNCHANGED <<slot, inFlight>>
       ELSE /\ slot' = [slot EXCEPT ![e] = head]
            /\ inFlight' = inFlight + 1
            /\ Goto(e, "claimentry")
  /\ UNCHANGED <<heapVars, ringVars, ctlVars, batchVars, scanVars, taken,
                 inTail, mutVars>>

(* pump_ring and page_needs_scan.                                          *)

PumpRead(e) ==
  /\ pc[e] = "pump"
  /\ IF head >= tail
       THEN /\ Goto(e, IF inTail[e] THEN "busy" ELSE "empty")
            /\ UNCHANGED <<slot, inFlight>>
       ELSE /\ slot' = [slot EXCEPT ![e] = head]
            /\ inFlight' = inFlight + 1
            /\ Goto(e, "claimentry")
  /\ UNCHANGED <<heapVars, ringVars, ctlVars, batchVars, scanVars, taken,
                 inTail, mutVars>>

(* Broken variant: the head is taken by an unconditional fetch_add.        *)
PumpCas_Add(e) ==
  /\ pc[e] = "claimentry"
  /\ slot' = [slot EXCEPT ![e] = head]
  /\ head' = head + 1
  /\ Goto(e, "take")
  /\ UNCHANGED <<heapVars, inFlight, ring, tail, overflow, ctlVars,
                 batchVars, scanVars, taken, inTail, mutVars>>

PumpCas(e) ==
  /\ pc[e] = "claimentry"
  /\ IF head = slot[e]
       THEN head' = head + 1 /\ Goto(e, "take") /\ UNCHANGED inFlight
       ELSE inFlight' = inFlight - 1 /\ Goto(e, "pump") /\ UNCHANGED head
  /\ UNCHANGED <<heapVars, ring, tail, overflow, ctlVars, execVars, mutVars>>

(* The exchange is retried until it returns a page.                        *)
PumpTake(e) ==
  LET i == slot[e] % RingSize IN
  /\ pc[e] = "take"
  /\ ring[i] # Null
  /\ taken' = [taken EXCEPT ![e] = ring[i]]
  /\ ring' = [ring EXCEPT ![i] = Null]
  /\ Goto(e, "needs")
  /\ UNCHANGED <<heapVars, inFlight, head, tail, overflow, ctlVars,
                 batchVars, scanVars, slot, inTail, mutVars>>

(* Broken variant: a claimed page is put on the scan list all the same.    *)
PageNeedsScan_Claimed(e) ==
  LET p == taken[e] IN
  /\ pc[e] = "needs"
  /\ lock = Null
  /\ \/ /\ stage # "MARK_SWEEP"
        /\ UNCHANGED <<processed, listVars>>
     \/ /\ stage = "MARK_SWEEP"
        /\ processed' = [processed EXCEPT ![p] = 0]
        /\ toPrune' = toPrune \ {p}
        /\ toScan' = toScan \cup {p}
  /\ taken' = [taken EXCEPT ![e] = Null]
  /\ Goto(e, "landed")
  /\ UNCHANGED <<field, seen, atomicSeen, scanned, pending, epoch, inFlight,
                 ringVars, ctlVars, batchVars, scanVars, slot, inTail,
                 mutVars>>

(* page_needs_scan: nothing once marking ended; a claimed page's owner is  *)
(* told; a page on a list is moved to the scan list.                       *)
PageNeedsScan(e) ==
  LET p == taken[e] IN
  /\ pc[e] = "needs"
  /\ lock = Null
  /\ \/ /\ stage # "MARK_SWEEP"
        /\ UNCHANGED <<pending, processed, listVars>>
     \/ /\ stage = "MARK_SWEEP"
        /\ p \notin toScan \cup toPrune
        /\ pending' = [pending EXCEPT ![p] = TRUE]
        /\ UNCHANGED <<processed, listVars>>
     \/ /\ stage = "MARK_SWEEP"
        /\ p \in toScan \cup toPrune
        /\ processed' = [processed EXCEPT ![p] = 0]
        /\ toPrune' = toPrune \ {p}
        /\ toScan' = toScan \cup {p}
        /\ UNCHANGED pending
  /\ taken' = [taken EXCEPT ![e] = Null]
  /\ Goto(e, "landed")
  /\ UNCHANGED <<field, seen, atomicSeen, scanned, epoch, inFlight, ringVars,
                 ctlVars, batchVars, scanVars, slot, inTail, mutVars>>

PumpLanded(e) ==
  /\ pc[e] = "landed"
  /\ inFlight' = inFlight - 1
  /\ slot' = [slot EXCEPT ![e] = 0]
  /\ Goto(e, "pump")
  /\ UNCHANGED <<heapVars, ringVars, ctlVars, batchVars, scanVars, taken,
                 inTail, mutVars>>

-----------------------------------------------------------------------------
(* The transition: gc_fsa_try_transition and gc_fsa_mark_sweep_tail.       *)

(* The body's verdict, a hint: is the scan list empty?                     *)
MaybeDone(e) ==
  /\ pc[e] = "empty"
  /\ lock = Null
  /\ Goto(e, IF toScan = {} THEN "try" ELSE "idle")
  /\ UNCHANGED <<sharedVars, execVars, mutVars>>

TryTransition(e) ==
  /\ pc[e] = "try"
  /\ \/ /\ fsaLock
        /\ Goto(e, "idle")
        /\ UNCHANGED <<fsaLock, inTail>>
     \/ /\ ~fsaLock
        /\ fsaLock' = TRUE
        /\ inTail' = [inTail EXCEPT ![e] = TRUE]
        /\ Goto(e, IF stage = "MARK_SWEEP" THEN "pump" ELSE "unlock")
  /\ UNCHANGED <<heapVars, inFlight, ringVars, stage, lock, batchVars,
                 scanVars, slot, taken, mutVars>>

(* gc_mark_work_outstanding, read in the order work moves on; run twice:   *)
(* from "busy" before the overflow flag, from "recheck" before the store.  *)
OutstandingLock(e) ==
  /\ pc[e] \in {"busy", "recheck"}
  /\ lock = Null
  /\ lock' = e
  /\ Goto(e, IF pc[e] = "busy" THEN "writers1" ELSE "writers2")
  /\ UNCHANGED <<heapVars, inFlight, ringVars, stage, fsaLock, execVars,
                 mutVars>>

Busy(e) == lock' = Null /\ Goto(e, "unlock")

(* Broken variant: the tail does not count the writers.                    *)
OutstandingWriters_Ignored(e) ==
  /\ pc[e] \in {"writers1", "writers2"}
  /\ Goto(e, IF pc[e] = "writers1" THEN "ring1" ELSE "ring2")
  /\ UNCHANGED <<sharedVars, execVars, mutVars>>

OutstandingWriters(e) ==
  /\ pc[e] \in {"writers1", "writers2"}
  /\ IF \E m \in Mutators : writing[m] # 0
       THEN Busy(e)
       ELSE Goto(e, IF pc[e] = "writers1" THEN "ring1" ELSE "ring2") /\ UNCHANGED lock
  /\ UNCHANGED <<heapVars, inFlight, ringVars, stage, fsaLock, execVars,
                 mutVars>>

OutstandingRing(e) ==
  /\ pc[e] \in {"ring1", "ring2"}
  /\ IF head # tail
       THEN Busy(e)
       ELSE Goto(e, IF pc[e] = "ring1" THEN "flight1" ELSE "flight2") /\ UNCHANGED lock
  /\ UNCHANGED <<heapVars, inFlight, ringVars, stage, fsaLock, execVars,
                 mutVars>>

(* The scan list changes under the lock only, so it is read here too.      *)
OutstandingFlight(e) ==
  /\ pc[e] \in {"flight1", "flight2"}
  /\ IF inFlight # 0 \/ toScan # {}
       THEN Busy(e)
       ELSE IF pc[e] = "flight1"
              THEN lock' = Null /\ Goto(e, "overflow")
              ELSE Goto(e, "retire") /\ UNCHANGED lock
  /\ UNCHANGED <<heapVars, inFlight, ringVars, stage, fsaLock, execVars,
                 mutVars>>

(* Broken variant: the overflow is cleared and not answered.               *)
OverflowRead_Ignored(e) ==
  /\ pc[e] = "overflow"
  /\ overflow' = FALSE
  /\ Goto(e, "recheck")
  /\ UNCHANGED <<heapVars, inFlight, ring, head, tail, ctlVars, execVars,
                 mutVars>>

(* A ring that overflowed dropped marks: every page is to be scanned       *)
(* again.  The ring is wiped, its indexes are zeroed (the tail first) ...  *)
OverflowRead(e) ==
  /\ pc[e] = "overflow"
  /\ overflow' = FALSE
  /\ Goto(e, IF overflow THEN "wipe" ELSE "recheck")
  /\ UNCHANGED <<heapVars, inFlight, ring, head, tail, ctlVars, execVars,
                 mutVars>>

ResetWipe(e) ==
  /\ pc[e] = "wipe"
  /\ ring' = [i \in DOMAIN ring |-> Null]
  /\ Goto(e, "zerotail")
  /\ UNCHANGED <<heapVars, inFlight, head, tail, overflow, ctlVars, execVars,
                 mutVars>>

ResetTail(e) ==
  /\ pc[e] = "zerotail"
  /\ tail' = 0
  /\ Goto(e, "zerohead")
  /\ UNCHANGED <<heapVars, inFlight, ring, head, overflow, ctlVars, execVars,
                 mutVars>>

ResetHead(e) ==
  /\ pc[e] = "zerohead"
  /\ head' = 0
  /\ Goto(e, "rescan")
  /\ UNCHANGED <<heapVars, inFlight, ring, tail, overflow, ctlVars, execVars,
                 mutVars>>

(* ... and the epoch moves on with the lists, in one hold of the lock.     *)
Rescan(e) ==
  /\ pc[e] = "rescan"
  /\ lock = Null
  /\ epoch' = epoch + 1
  /\ toScan' = toScan \cup toPrune
  /\ toPrune' = {}
  /\ Goto(e, "unlock")
  /\ UNCHANGED <<field, pageVars, inFlight, ringVars, ctlVars, execVars,
                 mutVars>>

(* The verdict and the store of the stage, under the lock.                 *)
Retire(e) ==
  /\ pc[e] = "retire"
  /\ stage' = IF overflow THEN stage ELSE "PRUNE"
  /\ lock' = Null
  /\ Goto(e, "unlock")
  /\ UNCHANGED <<heapVars, inFlight, ringVars, fsaLock, execVars, mutVars>>

FsaUnlock(e) ==
  /\ pc[e] = "unlock"
  /\ fsaLock' = FALSE
  /\ inTail' = [inTail EXCEPT ![e] = FALSE]
  /\ Goto(e, "idle")
  /\ UNCHANGED <<heapVars, inFlight, ringVars, stage, lock, batchVars,
                 scanVars, slot, taken, mutVars>>

-----------------------------------------------------------------------------
Push(m) ==
  \/ PushSet(m) \/ PushEpoch(m) \/ PushDedupe(m) \/ PushFull(m)
  \/ PushCas(m) \/ PushEntry(m) \/ PushLeave(m) \/ Store(m)

Body(e) ==
  \/ Enter(e) \/ Claim(e) \/ MergeFirst(e) \/ ScanPage(e) \/ ScanObject(e)
  \/ MarkSet(e) \/ MarkCheck(e) \/ MergeAgain(e) \/ SetProcessed(e)
  \/ Drain(e) \/ LateMerge(e) \/ Publish(e) \/ Release(e)
Pump(e) ==
  \/ PumpRead(e) \/ PumpCas(e) \/ PumpTake(e) \/ PageNeedsScan(e)
  \/ PumpLanded(e)
MarkTail(e) ==
  \/ MaybeDone(e) \/ TryTransition(e)
  \/ OutstandingLock(e) \/ OutstandingWriters(e) \/ OutstandingRing(e)
  \/ OutstandingFlight(e) \/ OverflowRead(e) \/ ResetWipe(e) \/ ResetTail(e)
  \/ ResetHead(e) \/ Rescan(e) \/ Retire(e) \/ FsaUnlock(e)
Execute(e) == Body(e) \/ Pump(e) \/ MarkTail(e)

(* A mutator writes to and stores what it can reach.                       *)
Next ==
  \/ \E m \in Mutators :
       \/ \E o \in Mutable \cap Snapshot, v \in NewValues \cap (Snapshot \cup {Null}) :
            Barrier(m, o, v)
       \/ Push(m)
  \/ \E e \in Executors : Execute(e)

(* Allocation keeps calling the collector, and threads keep running: every *)
(* executor comes back, and a mutator in its barrier leaves it.            *)
Spec ==
  /\ Init /\ [][Next]_vars
  /\ \A e \in Executors : WF_vars(Execute(e))
  /\ \A m \in Mutators : WF_vars(Push(m))

-----------------------------------------------------------------------------
(* Types: among them, that the in-flight count never goes below zero, that *)
(* no page carries a future epoch, and that marks lie on their own page.   *)
TypeOK ==
  /\ field \in [Objects -> Objects \cup {Null}]
  /\ \A b \in {seen, atomicSeen, scanned} :
       b \in [Pages -> SUBSET Objects]
       /\ \A p \in Pages : \A o \in b[p] : PageOf[o] = p
  /\ processed \in [Pages -> 0 .. epoch]
  /\ pending \in [Pages -> BOOLEAN]
  /\ toScan \in SUBSET Pages /\ toPrune \in SUBSET Pages
  /\ inFlight \in Nat
  /\ ring \in [0 .. RingSize - 1 -> Pages \cup {Null}]
  /\ head \in Nat /\ tail \in Nat /\ overflow \in BOOLEAN
  /\ stage \in {"MARK_SWEEP", "PRUNE"}
  /\ lock \in Executors \cup {Null} /\ fsaLock \in BOOLEAN
  /\ batch \in [Executors -> SUBSET Pages]
  /\ \A e \in Executors : requeue[e] \subseteq finished[e]
  /\ writing \in [Mutators -> 0 .. 1]

(* The snapshot: when marking ends, everything that was reachable when it  *)
(* began is marked, whatever the mutators overwrote meanwhile.             *)
SnapshotKept == stage = "PRUNE" => Snapshot \subseteq Marked

(* Pages an executor has claimed and not yet published.                    *)
Claimed(e) ==
  batch[e] \cup (IF cur[e] = Null THEN {} ELSE {cur[e]})
           \cup (IF pc[e] = "release" THEN {} ELSE finished[e])

(* A page is on one list, or claimed by one executor.                      *)
OneOwner ==
  /\ toScan \cap toPrune = {}
  /\ \A e \in Executors : Claimed(e) \cap (toScan \cup toPrune) = {}
  /\ \A e, f \in Executors : e # f => Claimed(e) \cap Claimed(f) = {}
  /\ \A p \in Pages : p \in toScan \cup toPrune \/ \E e \in Executors : p \in Claimed(e)

(* Every way in which a mark set on a page that is done is still answered. *)
Answered(o, p) ==
  \/ overflow
  \/ \E m \in Mutators :
       /\ mpc[m] \in {"epoch", "dedupe", "full", "cas", "entry"}
       /\ TargetPage(m) = p
  \/ \E i \in DOMAIN ring : ring[i] = p
  \/ \E e \in Executors :
       \/ taken[e] = p
       \/ child[e] = o \/ o \in worklist[e]
       \/ pc[e] \in {"wipe", "zerotail", "zerohead", "rescan"}

(* A mark that lands on a page already done is never left to nobody: its   *)
(* object's reference was followed, or someone still answers for it.       *)
MarkNotForgotten ==
  stage = "MARK_SWEEP" =>
    \A p \in toPrune : \A o \in atomicSeen[p] :
      o \in followed \/ Answered(o, p)

(* A pump that took a place in the ring finds an entry there, or a writer  *)
(* that is about to store it.                                              *)
ClaimedEntryComes ==
  \A e \in Executors : pc[e] = "take" =>
    \/ ring[slot[e] % RingSize] # Null
    \/ \E m \in Mutators : mpc[m] = "entry" /\ mtail[m] = slot[e]

Satb == INSTANCE SatbMark WITH marked <- Marked, over <- stage = "PRUNE"

(* Refinement: the stage implements SatbMark.  Its marks are those of the  *)
(* snapshot and are never lost, and it ends, once the mutators stop.       *)
ImplementsSatb == Satb!MSpec
=============================================================================
