----------------------- MODULE GcMarkSnapshot_proofs -----------------------
(***************************************************************************)
(* The snapshot of GcMark: as long as the ring of pages to reprocess has   *)
(* neither overflowed nor gone round, the stage ends with everything that  *)
(* was reachable at its start marked, for any heap, any executors and any  *)
(* stores of the mutators.  (When the ring overflows or goes round this is *)
(* false: the runs gc_ring_reset and gc_ring_entry show how.)              *)
(***************************************************************************)
EXTENDS GcMark_proofs

(* The ring has neither overflowed nor gone round: a place in it has been  *)
(* used once at most, and never wiped.  A run that has left this state     *)
(* never comes back to it.                                                 *)
Unwrapped ==
  /\ epoch = 1
  /\ ~overflow
  /\ tail <= RingSize
  /\ \A e \in Executors : pc[e] \notin {"wipe", "zerotail", "zerohead", "rescan"}

(* Every place below the tail is about to be written, holds its entry, or  *)
(* has been taken.                                                         *)
RingAgrees ==
  /\ head <= tail
  /\ \A i \in 0 .. RingSize - 1 :
       ring[i] # Null =>
         /\ i < tail
         /\ i < head => \E e \in Executors : pc[e] = "take" /\ slot[e] = i
  /\ \A i \in 0 .. RingSize - 1 : head <= i /\ i < tail =>
       \/ ring[i] # Null
       \/ \E m \in Mutators : mpc[m] = "entry" /\ mtail[m] = i
PusherAgrees ==
  /\ \A m \in Mutators : mpc[m] = "entry" => mtail[m] < tail /\ ring[mtail[m]] = Null
  /\ \A m \in Mutators : mpc[m] = "entry" /\ mtail[m] < head =>
       \E e \in Executors : pc[e] = "take" /\ slot[e] = mtail[m]
  /\ \A m, n \in Mutators :
       mpc[m] = "entry" /\ mpc[n] = "entry" /\ mtail[m] = mtail[n] => m = n
PumpAgrees ==
  /\ \A e \in Executors : pc[e] = "claimentry" => slot[e] < tail
  /\ \A e \in Executors : pc[e] = "take" =>
       /\ slot[e] < head
       /\ \/ ring[slot[e]] # Null
          \/ \E m \in Mutators : mpc[m] = "entry" /\ mtail[m] = slot[e]
  /\ \A e, f \in Executors :
       pc[e] = "take" /\ pc[f] = "take" /\ slot[e] = slot[f] => e = f

(* A page that is done carries the epoch.                                  *)
EpochAgrees ==
  /\ \A p \in Pages : processed[p] # epoch =>
       p \in toScan \/ \E e \in Executors : p \in batch[e] \cup {cur[e]}
  /\ \A e \in Executors : draining[e] \/ pc[e] = "late" => processed[cur[e]] = epoch

(* A store in progress has what its object held at the start of the stage  *)
(* marked, or is about to.                                                 *)
OldKept == \A o \in Snapshot : field[o] # Field0[o] => Field0[o] \in Marked \cup {Null}
TargetKept == \A m \in Mutators :
  /\ mpc[m] # "idle" =>
       \/ target[m][2] = Field0[target[m][1]]
       \/ Field0[target[m][1]] \in Marked \cup {Null}
  /\ mpc[m] \notin {"idle", "set"} => target[m][2] \in Marked \cup {Null}

(* What a scan has read is marked, or about to be.                         *)
FollowedKept == \A o \in followed :
  \/ Field0[o] \in Marked \cup {Null}
  \/ \E e \in Executors : pc[e] = "mark" /\ child[e] = Field0[o]

(* While marking lasts, a scanned bit is answered by its scan, and the     *)
(* marks a page has gathered by its scan, when it is not waiting for one.  *)
ScannedKept == stage = "MARK_SWEEP" =>
  \A p \in Pages : \A o \in scanned[p] :
    o \in followed \/ \E e \in Executors : o \in todo[e]
TodoAgrees == \A e \in Executors : \A o \in todo[e] : PageOf[o] = cur[e]
Due(p) ==
  \/ p \in toScan
  \/ \E e \in Executors :
       p \in batch[e] \cup requeue[e] \/ (cur[e] = p /\ pc[e] = "pass")
SeenKept == stage = "MARK_SWEEP" =>
  \A p \in Pages : seen[p] \subseteq scanned[p] \/ Due(p)

(* Who will come to a page that has marks: whoever has it or will claim    *)
(* it, and for a page that is done, whoever pushes it.                     *)
HandAwaits(p) == \E e \in Executors :
  \/ p \in batch[e] \cup {cur[e]} \cup requeue[e]
  \/ pc[e] # "release" /\ p \in finished[e] /\ pending[p]
  \/ taken[e] = p
PushAwaits(p) == \E m \in Mutators :
  mpc[m] \in {"epoch", "dedupe", "full", "cas", "entry"} /\ TargetPage(m) = p
RingAwaits(p) == \E i \in 0 .. RingSize - 1 : ring[i] = p
Awaits(p) == p \in toScan \/ HandAwaits(p) \/ PushAwaits(p) \/ RingAwaits(p)
InScan(o) == \E e \in Executors :
  o \in todo[e] \cup worklist[e] \/ (pc[e] = "check" /\ child[e] = o)
MarksKept == stage = "MARK_SWEEP" =>
  \A p \in Pages : \A o \in MarksOf(p) : o \in followed \/ InScan(o) \/ Awaits(p)

RootsKept == Roots \subseteq Marked

(* The tail's reading of the four words, in the order work moves on: while *)
(* it holds the lock, work it has not seen cannot have passed behind it.   *)
Complete == Snapshot \subseteq Marked
Working ==
  \/ toScan # {}
  \/ \E e \in Executors : Hand(e) # {} /\ pc[e] \in Publishing
  \/ \E e \in Executors : pc[e] \in {"take", "needs"}
TailAgrees ==
  /\ \A e \in Executors :
       /\ pc[e] \in {"ring1", "ring2"} => Complete \/ Working \/ head < tail
       /\ pc[e] \in {"flight1", "flight2"} => Complete \/ Working
       /\ pc[e] = "retire" => Complete
  /\ stage = "PRUNE" => Complete

MarkInv ==
  /\ RingAgrees /\ PusherAgrees /\ PumpAgrees
  /\ EpochAgrees /\ OldKept /\ TargetKept /\ FollowedKept
  /\ RootsKept /\ TodoAgrees /\ ScannedKept /\ SeenKept /\ MarksKept /\ TailAgrees
SnapInv == epoch > 0 /\ (Unwrapped => MarkInv)

-----------------------------------------------------------------------------
(* What most steps leave as it was.                                        *)
LEMMA RingSame ==
  ASSUME RingAgrees, PusherAgrees, PumpAgrees, UNCHANGED <<ring, head, tail>>,
         \A f \in Executors :
           /\ pc'[f] = "take" <=> pc[f] = "take"
           /\ pc'[f] = "claimentry" => pc[f] = "claimentry"
           /\ pc[f] \in {"take", "claimentry"} => slot'[f] = slot[f],
         \A n \in Mutators :
           /\ mpc'[n] = "entry" <=> mpc[n] = "entry"
           /\ mpc[n] = "entry" => mtail'[n] = mtail[n]
  PROVE  RingAgrees' /\ PusherAgrees' /\ PumpAgrees'
<1>1. RingAgrees'
  BY DEF RingAgrees
<1>2. PusherAgrees'
  BY DEF PusherAgrees
<1>3. PumpAgrees'
  BY DEF PumpAgrees
<1> QED
  BY <1>1, <1>2, <1>3

LEMMA MarksStay ==
  ASSUME MarksKept, stage' = "MARK_SWEEP" => stage = "MARK_SWEEP",
         \A p \in Pages : \A o \in MarksOf(p)' :
           o \in MarksOf(p) \/ InScan(o)' \/ Awaits(p)',
         followed \subseteq followed',
         \A o : InScan(o) => InScan(o)' \/ o \in followed',
         \A p \in Pages : Awaits(p) => Awaits(p)'
  PROVE  MarksKept'
BY DEF MarksKept

LEMMA AwaitsQuiet ==
  ASSUME UNCHANGED <<toScan, batch, cur, requeue, finished, pending, taken, ring, mpc, target>>,
         \A f \in Executors : pc'[f] = "release" => pc[f] = "release"
  PROVE  \A p \in Pages : Awaits(p) => Awaits(p)'
BY DEF Awaits, HandAwaits, PushAwaits, RingAwaits, TargetPage

LEMMA AwaitsExec ==
  ASSUME UNCHANGED <<ring, mpc, target>>, NEW p,
         p \in toScan \/ HandAwaits(p) => p \in toScan' \/ HandAwaits(p)'
  PROVE  Awaits(p) => Awaits(p)'
BY DEF Awaits, PushAwaits, RingAwaits, TargetPage

LEMMA AwaitsMut ==
  ASSUME UNCHANGED <<toScan, batch, cur, requeue, finished, pending, taken, pc>>, NEW p,
         PushAwaits(p) \/ RingAwaits(p) => Awaits(p)'
  PROVE  Awaits(p) => Awaits(p)'
BY DEF Awaits, HandAwaits

LEMMA InScanSame ==
  ASSUME UNCHANGED <<todo, worklist, child>>,
         \A f \in Executors : pc[f] = "check" => pc'[f] = "check"
  PROVE  \A o : InScan(o) => InScan(o)' \/ o \in followed'
BY DEF InScan

LEMMA WorkSame ==
  ASSUME Working, UNCHANGED toScan,
         \A f \in Executors :
           /\ pc[f] \in Publishing => Hand(f)' = Hand(f) /\ pc'[f] \in Publishing
           /\ pc[f] \in {"take", "needs"} => pc'[f] \in {"take", "needs"}
  PROVE  Working'
BY DEF Working

Reading == {"ring1", "ring2", "flight1", "flight2", "retire"}

LEMMA TailStays ==
  ASSUME TailAgrees, Marked \subseteq Marked', UNCHANGED stage,
         Working => Working', head < tail => head' < tail' \/ Working',
         \A f \in Executors : pc'[f] \in Reading => pc'[f] = pc[f]
  PROVE  TailAgrees'
<1>1. Complete => Complete'
  BY DEF Complete
<1> QED
  BY <1>1 DEF TailAgrees, Reading

LEMMA TailElsewhere ==
  ASSUME TailAgrees, Marked \subseteq Marked', UNCHANGED stage,
         \A f \in Executors : pc'[f] \notin Reading
  PROVE  TailAgrees'
<1>1. Complete => Complete'
  BY DEF Complete
<1> QED
  BY <1>1 DEF TailAgrees, Reading

(* When there is no work left anywhere the whole snapshot is marked: what  *)
(* has been followed is closed under the references of the snapshot.       *)
LEMMA NothingLeft ==
  ASSUME IInv, SnapshotOnly, MarkInv, stage = "MARK_SWEEP",
         \A m \in Mutators : writing[m] = 0
  PROVE  Complete \/ Working \/ head < tail
<1> SUFFICES ASSUME ~Working, ~(head < tail) PROVE Complete
  OBVIOUS
<1> USE HeapAssumption, SizeAssumption
<1>0. /\ RingTypes /\ ExecTypes /\ BatchAgrees /\ ScanAgrees /\ WriterAgrees
      /\ RingAgrees /\ FollowedKept /\ MarksKept /\ RootsKept /\ BitsOnly
  BY DEF IInv, MarkInv, SnapshotOnly
<1>1. /\ toScan = {}
      /\ \A e \in Executors : pc[e] \in Publishing => Hand(e) = {}
      /\ \A e \in Executors : pc[e] \notin {"take", "needs"}
  BY DEF Working
<1>2. \A e \in Executors :
        /\ pc[e] \notin Scanning /\ cur[e] = Null /\ batch[e] = {} /\ requeue[e] = {}
        /\ finished[e] # {} => pc[e] = "release"
  BY <1>0, <1>1 DEF BatchAgrees, Hand, Publishing, Scanning, ExecTypes
<1>3. head = tail
  BY <1>0 DEF RingAgrees, RingTypes
<1>4. ASSUME NEW p \in Pages PROVE ~Awaits(p)
  <2>1. \A m \in Mutators : mpc[m] \notin Pushing
    BY <1>0 DEF WriterAgrees
  <2>2. \A i \in 0 .. RingSize - 1 : ring[i] = Null
    BY <1>0, <1>1, <1>3 DEF RingAgrees
  <2>3. \A e \in Executors : taken[e] = Null
    BY <1>0, <1>1 DEF ScanAgrees
  <2> QED
    BY <1>1, <1>2, <2>1, <2>2, <2>3 DEF Awaits, HandAwaits, PushAwaits, RingAwaits,
       Pushing
<1>5. \A o : ~InScan(o)
  BY <1>0, <1>2 DEF InScan, ScanAgrees, Scanning
<1>6. \A o \in Marked : o \in followed /\ o \in Objects
  BY <1>0, <1>4, <1>5, SnapshotIn DEF MarksKept, MarksOf, Marked, BitsOnly
<1>7. \A o \in followed : Field0[o] \in Marked \cup {Null}
  BY <1>0, <1>2 DEF FollowedKept, Scanning
<1> QED
  BY <1>0, <1>6, <1>7 DEF Complete, Snapshot, HeapClosed, RootsKept

(* No page in an executor's hands, and no pump under way.                  *)
LEMMA NoFlight ==
  ASSUME IInv, inFlight = 0, toScan = {}
  PROVE  ~Working
<1>1. Cardinality(InHand) = 0 /\ Cardinality(Pumping) = 0
  BY CountedFinite DEF IInv, FlightExact
<1>2. InHand = {} /\ Pumping = {}
  BY <1>1, CountedFinite, FS_EmptySet
<1>3. \A e \in Executors : Hand(e) \subseteq Pages
  BY DEF IInv, ExecTypes, Hand
<1>4. ASSUME NEW e \in Executors PROVE Hand(e) = {}
  <2>1. \A p \in Pages : <<e, p>> \notin InHand
    BY <1>2
  <2>2. \A p \in Pages : p \notin Hand(e)
    BY <2>1 DEF InHand
  <2> QED
    BY <1>3, <2>2
<1> QED
  BY <1>2, <1>4 DEF Working, Pumping, Counted

LEMMA ModSmall ==
  ASSUME NEW i \in Nat, i < RingSize
  PROVE  i % RingSize = i /\ i \in 0 .. RingSize - 1
BY SizeAssumption

(* The invariant holds when the stage begins.                              *)
LEMMA InitMarkInv == Init => MarkInv
<1> SUFFICES ASSUME Init PROVE MarkInv
  OBVIOUS
<1> USE HeapAssumption, SizeAssumption
<1>1. RingAgrees /\ PusherAgrees /\ PumpAgrees
  BY DEF Init, RingAgrees, PusherAgrees, PumpAgrees
<1>2. EpochAgrees /\ OldKept /\ TargetKept /\ FollowedKept
  BY SnapshotIn DEF Init, EpochAgrees, OldKept, TargetKept, FollowedKept
<1>3. RootsKept
  BY DEF Init, RootsKept, Marked
<1>4. TodoAgrees /\ ScannedKept /\ SeenKept /\ MarksKept
  BY DEF Init, TodoAgrees, ScannedKept, SeenKept, MarksKept, Due, Awaits
<1>5. TailAgrees
  BY DEF Init, TailAgrees
<1> QED
  BY <1>1, <1>2, <1>3, <1>4, <1>5 DEF MarkInv

-----------------------------------------------------------------------------
(* Every step of a stage whose ring is unwrapped keeps the invariant.      *)
LEMMA NextMarkInv ==
  ASSUME IInv, SnapshotOnly, MarkInv, Unwrapped, Unwrapped', [Next]_vars
  PROVE  MarkInv'
<1> USE HeapAssumption, SizeAssumption
<1>MM. Marked \subseteq Marked'
  BY MarksStep
<1>ST. stage' = "MARK_SWEEP" => stage = "MARK_SWEEP"
  BY StageStep
<1>U. tail <= RingSize /\ tail' <= RingSize /\ ~overflow /\ ~overflow' /\ epoch = 1
  BY DEF Unwrapped
<1>V. \A e \in Executors : pc[e] \notin {"wipe", "zerotail", "zerohead", "rescan"}
  BY DEF Unwrapped
<1>t. BitTypes
  BY DEF IInv
<1>p. PcType
  BY DEF IInv
<1>mp. MpcType
  BY DEF IInv
<1>h. HeapTypes
  BY DEF IInv
<1>r. RingTypes
  BY DEF IInv
<1>x. ExecTypes
  BY DEF IInv
<1>m. MutTypes
  BY DEF IInv
<1>b. BatchAgrees
  BY DEF IInv
<1>s. ScanAgrees
  BY DEF IInv
<1>l. LockAgrees
  BY DEF IInv
<1>w. WriterAgrees
  BY DEF IInv
<1>f. FlightExact
  BY DEF IInv
<1>o. OneOwner
  BY DEF IInv
<1>RA. RingAgrees
  BY DEF MarkInv
<1>PS. PusherAgrees
  BY DEF MarkInv
<1>PU. PumpAgrees
  BY DEF MarkInv
<1>EA. EpochAgrees
  BY DEF MarkInv
<1>OK. OldKept
  BY DEF MarkInv
<1>TK. TargetKept
  BY DEF MarkInv
<1>FK. FollowedKept
  BY DEF MarkInv
<1>RK. RootsKept
  BY DEF MarkInv
<1>TD. TodoAgrees
  BY DEF MarkInv
<1>SK. ScannedKept
  BY DEF MarkInv
<1>SN. SeenKept
  BY DEF MarkInv
<1>MK. MarksKept
  BY DEF MarkInv
<1>TA. TailAgrees
  BY DEF MarkInv
<1>fo. FieldsOnly
  BY DEF SnapshotOnly
<1>bo. BitsOnly
  BY DEF SnapshotOnly
<1>so. ScansOnly
  BY DEF SnapshotOnly
<1>to. TargetsOnly
  BY DEF SnapshotOnly
<1> USE DEF Goto, MGoto, pageVars, listVars, ringVars, scanVars, batchVars, pumpVars,
            mutVars, heapVars, ctlVars, sharedVars, execVars
<1>1. ASSUME NEW m \in Mutators, NEW o \in Mutable \cap Snapshot,
              NEW v \in NewValues \cap (Snapshot \cup {Null}), Barrier(m, o, v)
      PROVE  MarkInv'
  <2>0. /\ mpc[m] = "idle" /\ mpc'[m] \in {"store", "set"}
        /\ \A n \in Mutators \ {m} : mpc'[n] = mpc[n]
    BY <1>mp, <1>1 DEF Barrier, MpcType
  <2>1. /\ EpochAgrees' /\ OldKept' /\ FollowedKept' /\ RootsKept'
        /\ TodoAgrees' /\ ScannedKept'
    BY <1>EA, <1>OK, <1>FK, <1>RK, <1>TD, <1>SK, <1>1 DEF Barrier, EpochAgrees,
       OldKept, FollowedKept, RootsKept, TodoAgrees, ScannedKept, Marked
  <2>2. /\ SeenKept'
    BY <1>SN, <1>1 DEF Barrier, SeenKept, Due
  <2>3. RingAgrees' /\ PusherAgrees' /\ PumpAgrees'
    BY <1>RA, <1>PS, <1>PU, <1>x, <1>m, <2>0, <1>1, RingSame DEF Barrier, ExecTypes,
       MutTypes
  <2>4. TargetKept'
    BY <1>h, <1>m, <1>mp, <1>MM, <1>OK, <1>TK, <1>to, <1>1, SnapshotIn DEF Barrier,
       HeapTypes, MutTypes, MpcType, OldKept, TargetsOnly, TargetKept
  <2>5. MarksKept'
    <3>1. \A p \in Pages : \A q \in MarksOf(p)' : q \in MarksOf(p)
      BY <1>t, <1>x, <1>1 DEF Barrier, MarksOf, BitTypes, Bits, ExecTypes
    <3>2. \A q : InScan(q) => InScan(q)' \/ q \in followed'
      BY <1>x, <1>s, <2>0, <1>1, InScanSame DEF Barrier, InScan, ExecTypes, ScanAgrees
    <3>3. ASSUME NEW p \in Pages PROVE Awaits(p) => Awaits(p)'
      <4>1. ASSUME PushAwaits(p) PROVE Awaits(p)'
        BY <1>m, <2>0, <4>1, <1>1 DEF Barrier, PushAwaits, MutTypes, TargetPage, Awaits
      <4>2. ASSUME RingAwaits(p) PROVE Awaits(p)'
        BY <4>2, <1>1 DEF Barrier, RingAwaits, Awaits
      <4>3. UNCHANGED <<toScan, batch, cur, requeue, finished, pending, taken, pc>>
        BY <1>1 DEF Barrier
      <4> QED
        BY <4>1, <4>2, <4>3, AwaitsMut
    <3>4. followed \subseteq followed'
      BY <1>1 DEF Barrier
    <3> QED
      BY <1>MK, <1>ST, <3>1, <3>2, <3>3, <3>4, MarksStay
  <2>6. TailAgrees'
    <3>1. UNCHANGED <<stage, toScan, pc, batch, finished, cur>>
      BY <1>1 DEF Barrier
    <3>2. Working => Working'
      BY <3>1 DEF Working, Hand
    <3>3. head < tail => head' < tail' \/ Working'
      BY <1>r, <1>1 DEF Barrier, RingTypes
    <3> QED
      BY <1>TA, <1>MM, <3>1, <3>2, <3>3, TailStays DEF Reading
  <2> QED
    BY <2>1, <2>2, <2>3, <2>4, <2>5, <2>6 DEF MarkInv
<1>2. ASSUME NEW m \in Mutators, PushSet(m)
      PROVE  MarkInv'
  <2>0. /\ mpc[m] = "set" /\ mpc'[m] \in {"leave", "epoch"}
        /\ \A n \in Mutators \ {m} : mpc'[n] = mpc[n]
    BY <1>mp, <1>2 DEF PushSet, TargetPage, MpcType
  <2>1. /\ EpochAgrees' /\ TodoAgrees' /\ ScannedKept'
    BY <1>EA, <1>TD, <1>SK, <1>2 DEF PushSet, TargetPage, EpochAgrees, TodoAgrees,
       ScannedKept
  <2>2. /\ SeenKept'
    BY <1>SN, <1>2 DEF PushSet, TargetPage, SeenKept, Due
  <2>3. RingAgrees' /\ PusherAgrees' /\ PumpAgrees'
    BY <1>RA, <1>PS, <1>PU, <1>x, <1>m, <2>0, <1>2, RingSame DEF PushSet, TargetPage,
       ExecTypes, MutTypes
  <2>4. OldKept'
    BY <1>h, <1>MM, <1>fo, <1>TK, <1>OK, <1>2, SnapshotIn DEF PushSet, TargetPage,
       HeapTypes, FieldsOnly, TargetKept, OldKept
  <2>5. TargetKept'
    <3>1. /\ target[m][2] \in Objects /\ TargetPage(m) \in Pages
          /\ UNCHANGED target
          /\ atomicSeen' = [atomicSeen EXCEPT ![TargetPage(m)] = @ \cup {target[m][2]}]
      BY <1>w, <2>0, <1>2 DEF PushSet, TargetPage, WriterAgrees, Pushing
    <3>2. target[m][2] \in Marked'
      BY <1>t, <3>1 DEF BitTypes, Bits, Marked
    <3> QED
      BY <1>TK, <1>MM, <2>0, <3>1, <3>2 DEF TargetKept
  <2>6. FollowedKept'
    BY <1>h, <1>x, <1>p, <1>s, <1>MM, <1>OK, <1>FK, <1>2 DEF PushSet, TargetPage,
       HeapTypes, ExecTypes, PcType, ScanAgrees, OldKept, FollowedKept, Scanning
  <2>7. RootsKept'
    BY <1>MM, <1>RK, <1>2 DEF PushSet, TargetPage, RootsKept
  <2>8. MarksKept'
    <3>0. /\ target[m][2] \in Objects /\ TargetPage(m) \in Pages
          /\ UNCHANGED <<seen, target>>
          /\ atomicSeen' = [atomicSeen EXCEPT ![TargetPage(m)] = @ \cup {target[m][2]}]
          /\ target[m][2] \notin atomicSeen[TargetPage(m)] => mpc'[m] = "epoch"
      BY <1>w, <1>mp, <2>0, <1>2 DEF PushSet, TargetPage, WriterAgrees, Pushing, MpcType
    <3>1. ASSUME NEW p \in Pages, NEW o \in MarksOf(p)' PROVE o \in MarksOf(p) \/ Awaits(p)'
      <4>1. CASE p = TargetPage(m) /\ target[m][2] \notin atomicSeen[p]
        BY <3>0, <4>1 DEF Awaits, PushAwaits, TargetPage
      <4>2. CASE ~(p = TargetPage(m) /\ target[m][2] \notin atomicSeen[p])
        BY <1>t, <3>0, <4>2 DEF MarksOf, BitTypes, Bits
      <4> QED
        BY <4>1, <4>2
    <3>2. \A o : InScan(o) => InScan(o)' \/ o \in followed'
      BY <1>x, <1>s, <2>0, <1>2, InScanSame DEF PushSet, TargetPage, InScan,
         ExecTypes, ScanAgrees
    <3>3. ASSUME NEW p \in Pages PROVE Awaits(p) => Awaits(p)'
      <4>1. ASSUME PushAwaits(p) PROVE Awaits(p)'
        BY <1>m, <2>0, <4>1, <1>2 DEF PushSet, PushAwaits, MutTypes, TargetPage, Awaits
      <4>2. ASSUME RingAwaits(p) PROVE Awaits(p)'
        BY <4>2, <1>2 DEF PushSet, RingAwaits, Awaits
      <4>3. UNCHANGED <<toScan, batch, cur, requeue, finished, pending, taken, pc>>
        BY <1>2 DEF PushSet
      <4> QED
        BY <4>1, <4>2, <4>3, AwaitsMut
    <3>4. followed \subseteq followed'
      BY <1>2 DEF PushSet, TargetPage
    <3> QED
      BY <1>MK, <1>ST, <3>1, <3>2, <3>3, <3>4, MarksStay
  <2>9. TailAgrees'
    <3>1. UNCHANGED <<stage, toScan, pc, batch, finished, cur>>
      BY <1>2 DEF PushSet
    <3>2. Working => Working'
      BY <3>1 DEF Working, Hand
    <3>3. head < tail => head' < tail' \/ Working'
      BY <1>r, <1>2 DEF PushSet, RingTypes
    <3> QED
      BY <1>TA, <1>MM, <3>1, <3>2, <3>3, TailStays DEF Reading
  <2> QED
    BY <2>1, <2>2, <2>3, <2>4, <2>5, <2>6, <2>7, <2>8, <2>9 DEF MarkInv
<1>3. ASSUME NEW m \in Mutators, PushEpoch(m)
      PROVE  MarkInv'
  <2>0. /\ mpc[m] = "epoch" /\ mpc'[m] \in {"dedupe", "leave"}
        /\ \A n \in Mutators \ {m} : mpc'[n] = mpc[n]
    BY <1>mp, <1>3 DEF PushEpoch, TargetPage, MpcType
  <2>1. /\ EpochAgrees' /\ OldKept' /\ FollowedKept' /\ RootsKept'
        /\ TodoAgrees' /\ ScannedKept'
    BY <1>EA, <1>OK, <1>FK, <1>RK, <1>TD, <1>SK, <1>3 DEF PushEpoch, TargetPage,
       EpochAgrees, OldKept, FollowedKept, RootsKept, TodoAgrees, ScannedKept, Marked
  <2>2. /\ SeenKept'
    BY <1>SN, <1>3 DEF PushEpoch, TargetPage, SeenKept, Due
  <2>3. RingAgrees' /\ PusherAgrees' /\ PumpAgrees'
    BY <1>RA, <1>PS, <1>PU, <1>x, <1>m, <2>0, <1>3, RingSame DEF PushEpoch,
       TargetPage, ExecTypes, MutTypes
  <2>4. TargetKept'
    BY <1>h, <1>m, <1>mp, <1>MM, <1>OK, <1>TK, <1>to, <1>3 DEF PushEpoch, TargetPage,
       HeapTypes, MutTypes, MpcType, OldKept, TargetsOnly, TargetKept
  <2>5. MarksKept'
    <3>1. \A p \in Pages : \A o \in MarksOf(p)' : o \in MarksOf(p)
      BY <1>t, <1>x, <1>3 DEF PushEpoch, TargetPage, MarksOf, BitTypes, Bits, ExecTypes
    <3>2. \A o : InScan(o) => InScan(o)' \/ o \in followed'
      BY <1>x, <1>s, <2>0, <1>3, InScanSame DEF PushEpoch, TargetPage, InScan,
         ExecTypes, ScanAgrees
    <3>3. ASSUME NEW p \in Pages PROVE Awaits(p) => Awaits(p)'
      <4>1. ASSUME PushAwaits(p) PROVE Awaits(p)'
        <5>1. PICK n \in Mutators :
                mpc[n] \in {"epoch", "dedupe", "full", "cas", "entry"} /\ TargetPage(n) = p
          BY <4>1 DEF PushAwaits
        <5>2. CASE n = m /\ processed[p] # epoch
          BY <1>EA, <5>2, <1>3 DEF PushEpoch, EpochAgrees, Awaits, HandAwaits
        <5>3. CASE ~(n = m /\ processed[p] # epoch)
          <6>1. mpc'[n] \in {"epoch", "dedupe", "full", "cas", "entry"}
            BY <1>mp, <2>0, <5>1, <5>3, <1>3 DEF PushEpoch, MpcType
          <6>2. TargetPage(n)' = p
            BY <5>1, <1>3 DEF PushEpoch, TargetPage
          <6> QED
            BY <6>1, <6>2 DEF Awaits, PushAwaits
        <5> QED
          BY <5>2, <5>3
      <4>2. ASSUME RingAwaits(p) PROVE Awaits(p)'
        BY <4>2, <1>3 DEF PushEpoch, RingAwaits, Awaits
      <4>3. UNCHANGED <<toScan, batch, cur, requeue, finished, pending, taken, pc>>
        BY <1>3 DEF PushEpoch
      <4> QED
        BY <4>1, <4>2, <4>3, AwaitsMut
    <3>4. followed \subseteq followed'
      BY <1>3 DEF PushEpoch, TargetPage
    <3> QED
      BY <1>MK, <1>ST, <3>1, <3>2, <3>3, <3>4, MarksStay
  <2>6. TailAgrees'
    <3>1. UNCHANGED <<stage, toScan, pc, batch, finished, cur>>
      BY <1>3 DEF PushEpoch
    <3>2. Working => Working'
      BY <3>1 DEF Working, Hand
    <3>3. head < tail => head' < tail' \/ Working'
      BY <1>r, <1>3 DEF PushEpoch, RingTypes
    <3> QED
      BY <1>TA, <1>MM, <3>1, <3>2, <3>3, TailStays DEF Reading
  <2> QED
    BY <2>1, <2>2, <2>3, <2>4, <2>5, <2>6 DEF MarkInv
<1>4. ASSUME NEW m \in Mutators, PushDedupe(m)
      PROVE  MarkInv'
  <2>0. /\ mpc[m] = "dedupe" /\ mpc'[m] \in {"leave", "full"}
        /\ \A n \in Mutators \ {m} : mpc'[n] = mpc[n]
    BY <1>mp, <1>4 DEF PushDedupe, TargetPage, MpcType
  <2>1. /\ EpochAgrees' /\ OldKept' /\ FollowedKept' /\ RootsKept'
        /\ TodoAgrees' /\ ScannedKept'
    BY <1>EA, <1>OK, <1>FK, <1>RK, <1>TD, <1>SK, <1>4 DEF PushDedupe, TargetPage,
       EpochAgrees, OldKept, FollowedKept, RootsKept, TodoAgrees, ScannedKept, Marked
  <2>2. /\ SeenKept'
    BY <1>SN, <1>4 DEF PushDedupe, TargetPage, SeenKept, Due
  <2>3. RingAgrees' /\ PusherAgrees' /\ PumpAgrees'
    BY <1>RA, <1>PS, <1>PU, <1>x, <1>m, <2>0, <1>4, RingSame DEF PushDedupe,
       TargetPage, ExecTypes, MutTypes
  <2>4. TargetKept'
    BY <1>h, <1>m, <1>mp, <1>MM, <1>OK, <1>TK, <1>to, <1>4 DEF PushDedupe,
       TargetPage, HeapTypes, MutTypes, MpcType, OldKept, TargetsOnly, TargetKept
  <2>5. MarksKept'
    <3>1. \A p \in Pages : \A o \in MarksOf(p)' : o \in MarksOf(p)
      BY <1>t, <1>x, <1>4 DEF PushDedupe, TargetPage, MarksOf, BitTypes, Bits, ExecTypes
    <3>2. \A o : InScan(o) => InScan(o)' \/ o \in followed'
      BY <1>x, <1>s, <2>0, <1>4, InScanSame DEF PushDedupe, TargetPage, InScan,
         ExecTypes, ScanAgrees
    <3>3. ASSUME NEW p \in Pages PROVE Awaits(p) => Awaits(p)'
      <4>1. ASSUME PushAwaits(p) PROVE Awaits(p)'
        <5>1. PICK n \in Mutators :
                mpc[n] \in {"epoch", "dedupe", "full", "cas", "entry"} /\ TargetPage(n) = p
          BY <4>1 DEF PushAwaits
        <5>2. CASE n = m /\ \E i \in DOMAIN ring : ring[i] = p
          BY <1>r, <5>2, <1>4 DEF PushDedupe, RingTypes, Awaits, RingAwaits
        <5>3. CASE ~(n = m /\ \E i \in DOMAIN ring : ring[i] = p)
          <6>1. mpc'[n] \in {"epoch", "dedupe", "full", "cas", "entry"}
            BY <1>mp, <2>0, <5>1, <5>3, <1>4 DEF PushDedupe, MpcType
          <6>2. TargetPage(n)' = p
            BY <5>1, <1>4 DEF PushDedupe, TargetPage
          <6> QED
            BY <6>1, <6>2 DEF Awaits, PushAwaits
        <5> QED
          BY <5>2, <5>3
      <4>2. ASSUME RingAwaits(p) PROVE Awaits(p)'
        BY <4>2, <1>4 DEF PushDedupe, RingAwaits, Awaits
      <4>3. UNCHANGED <<toScan, batch, cur, requeue, finished, pending, taken, pc>>
        BY <1>4 DEF PushDedupe
      <4> QED
        BY <4>1, <4>2, <4>3, AwaitsMut
    <3>4. followed \subseteq followed'
      BY <1>4 DEF PushDedupe, TargetPage
    <3> QED
      BY <1>MK, <1>ST, <3>1, <3>2, <3>3, <3>4, MarksStay
  <2>6. TailAgrees'
    <3>1. UNCHANGED <<stage, toScan, pc, batch, finished, cur>>
      BY <1>4 DEF PushDedupe
    <3>2. Working => Working'
      BY <3>1 DEF Working, Hand
    <3>3. head < tail => head' < tail' \/ Working'
      BY <1>r, <1>4 DEF PushDedupe, RingTypes
    <3> QED
      BY <1>TA, <1>MM, <3>1, <3>2, <3>3, TailStays DEF Reading
  <2> QED
    BY <2>1, <2>2, <2>3, <2>4, <2>5, <2>6 DEF MarkInv
<1>5. ASSUME NEW m \in Mutators, PushFull(m)
      PROVE  MarkInv'
  <2>0. /\ mpc[m] = "full" /\ mpc'[m] \in {"leave", "cas"}
        /\ \A n \in Mutators \ {m} : mpc'[n] = mpc[n]
    BY <1>mp, <1>5 DEF PushFull, MpcType
  <2>1. /\ EpochAgrees' /\ OldKept' /\ FollowedKept' /\ RootsKept'
        /\ TodoAgrees' /\ ScannedKept'
    BY <1>EA, <1>OK, <1>FK, <1>RK, <1>TD, <1>SK, <1>5 DEF PushFull, EpochAgrees,
       OldKept, FollowedKept, RootsKept, TodoAgrees, ScannedKept, Marked
  <2>2. /\ SeenKept'
    BY <1>SN, <1>5 DEF PushFull, SeenKept, Due
  <2>3. RingAgrees' /\ PusherAgrees' /\ PumpAgrees'
    BY <1>RA, <1>PS, <1>PU, <1>x, <1>m, <2>0, <1>5, RingSame DEF PushFull, ExecTypes,
       MutTypes
  <2>4. TargetKept'
    BY <1>h, <1>m, <1>mp, <1>MM, <1>OK, <1>TK, <1>to, <1>5 DEF PushFull, HeapTypes,
       MutTypes, MpcType, OldKept, TargetsOnly, TargetKept
  <2>5. MarksKept'
    <3>1. \A p \in Pages : \A o \in MarksOf(p)' : o \in MarksOf(p)
      BY <1>t, <1>x, <1>5 DEF PushFull, MarksOf, BitTypes, Bits, ExecTypes
    <3>2. \A o : InScan(o) => InScan(o)' \/ o \in followed'
      BY <1>x, <1>s, <2>0, <1>5, InScanSame DEF PushFull, InScan, ExecTypes, ScanAgrees
    <3>3. ASSUME NEW p \in Pages PROVE Awaits(p) => Awaits(p)'
      <4>1. ASSUME PushAwaits(p) PROVE Awaits(p)'
        <5>1. PICK n \in Mutators :
                mpc[n] \in {"epoch", "dedupe", "full", "cas", "entry"} /\ TargetPage(n) = p
          BY <4>1 DEF PushAwaits
        <5>2. mpc'[n] \in {"epoch", "dedupe", "full", "cas", "entry"}
          BY <1>mp, <1>U, <2>0, <5>1, <1>5 DEF PushFull, MpcType
        <5>3. TargetPage(n)' = p
          BY <5>1, <1>5 DEF PushFull, TargetPage
        <5> QED
          BY <5>2, <5>3 DEF Awaits, PushAwaits
      <4>2. ASSUME RingAwaits(p) PROVE Awaits(p)'
        BY <4>2, <1>5 DEF PushFull, RingAwaits, Awaits
      <4>3. UNCHANGED <<toScan, batch, cur, requeue, finished, pending, taken, pc>>
        BY <1>5 DEF PushFull
      <4> QED
        BY <4>1, <4>2, <4>3, AwaitsMut
    <3>4. followed \subseteq followed'
      BY <1>5 DEF PushFull
    <3> QED
      BY <1>MK, <1>ST, <3>1, <3>2, <3>3, <3>4, MarksStay
  <2>6. TailAgrees'
    <3>1. UNCHANGED <<stage, toScan, pc, batch, finished, cur>>
      BY <1>5 DEF PushFull
    <3>2. Working => Working'
      BY <3>1 DEF Working, Hand
    <3>3. head < tail => head' < tail' \/ Working'
      BY <1>r, <1>5 DEF PushFull, RingTypes
    <3> QED
      BY <1>TA, <1>MM, <3>1, <3>2, <3>3, TailStays DEF Reading
  <2> QED
    BY <2>1, <2>2, <2>3, <2>4, <2>5, <2>6 DEF MarkInv
<1>6. ASSUME NEW m \in Mutators, PushCas(m)
      PROVE  MarkInv'
  <2>0. /\ mpc[m] = "cas" /\ mpc'[m] \in {"entry", "full"}
        /\ \A n \in Mutators \ {m} : mpc'[n] = mpc[n]
    BY <1>mp, <1>6 DEF PushCas, MpcType
  <2>r. /\ UNCHANGED <<ring, head, pc, slot>> /\ tail \in Nat /\ head \in Nat
        /\ \A n \in Mutators \ {m} : mtail'[n] = mtail[n]
        /\ \/ mpc'[m] = "full" /\ tail' = tail
           \/ mpc'[m] = "entry" /\ mtail'[m] = tail /\ tail' = tail + 1 /\ tail < RingSize
    BY <1>U, <1>m, <1>mp, <1>r, <2>0, <1>6 DEF PushCas, MutTypes, MpcType, RingTypes
  <2>1. /\ EpochAgrees' /\ OldKept' /\ FollowedKept' /\ RootsKept'
        /\ TodoAgrees' /\ ScannedKept'
    BY <1>EA, <1>OK, <1>FK, <1>RK, <1>TD, <1>SK, <1>6 DEF PushCas, EpochAgrees,
       OldKept, FollowedKept, RootsKept, TodoAgrees, ScannedKept, Marked
  <2>2. /\ SeenKept'
    BY <1>SN, <1>6 DEF PushCas, SeenKept, Due
  <2>3. RingAgrees'
    <3>1. CASE mpc'[m] = "full"
      BY <1>RA, <2>0, <2>r, <3>1 DEF RingAgrees
    <3>2. CASE mpc'[m] = "entry"
      <4>1. mtail'[m] = tail /\ tail' = tail + 1
        BY <2>r, <3>2
      <4>2. ASSUME NEW i \in 0 .. RingSize - 1, head' <= i, i < tail'
            PROVE  ring'[i] # Null \/ \E n \in Mutators : mpc'[n] = "entry" /\ mtail'[n] = i
        <5>1. CASE i = tail
          BY <3>2, <4>1, <5>1
        <5>2. CASE i # tail
          <6>1. head <= i /\ i < tail
            BY <2>r, <4>1, <4>2, <5>2
          <6>2. CASE ring[i] # Null
            BY <2>r, <6>2
          <6>3. CASE \E n \in Mutators : mpc[n] = "entry" /\ mtail[n] = i
            BY <2>0, <2>r, <6>3
          <6> QED
            BY <1>RA, <6>1, <6>2, <6>3 DEF RingAgrees
        <5> QED
          BY <5>1, <5>2
      <4>3. head' <= tail'
        BY <1>RA, <2>r, <4>1 DEF RingAgrees
      <4>4. ASSUME NEW i \in 0 .. RingSize - 1, ring'[i] # Null
            PROVE  /\ i < tail'
                   /\ i < head' => \E f \in Executors : pc'[f] = "take" /\ slot'[f] = i
        BY <1>RA, <2>r, <4>1, <4>4 DEF RingAgrees
      <4> QED
        BY <4>2, <4>3, <4>4 DEF RingAgrees
    <3> QED
      BY <2>r, <3>1, <3>2
  <2>4. PusherAgrees'
    <3>1. CASE mpc'[m] = "full"
      BY <1>PS, <2>0, <2>r, <3>1 DEF PusherAgrees
    <3>2. CASE mpc'[m] = "entry"
      <4>1. mtail'[m] = tail /\ tail' = tail + 1 /\ tail \in 0 .. RingSize - 1 /\ head <= tail
        BY <1>RA, <2>r, <3>2 DEF RingAgrees
      <4>2. ring[tail] = Null
        BY <1>RA, <4>1 DEF RingAgrees
      <4>3. \A n \in Mutators \ {m} : mpc'[n] = mpc[n] /\ mtail'[n] = mtail[n] /\ mtail[n] \in Nat
        BY <1>m, <2>0, <2>r DEF MutTypes
      <4>4. ASSUME NEW n \in Mutators, mpc'[n] = "entry"
            PROVE  /\ mtail'[n] < tail' /\ ring'[mtail'[n]] = Null
                   /\ mtail'[n] < head' => \E f \in Executors : pc'[f] = "take" /\ slot'[f] = mtail'[n]
                   /\ n # m => mtail'[n] < tail
        BY <1>PS, <2>r, <4>1, <4>2, <4>3, <4>4 DEF PusherAgrees
      <4>5. ASSUME NEW n \in Mutators, NEW o \in Mutators, mpc'[n] = "entry", mpc'[o] = "entry",
                   mtail'[n] = mtail'[o]
            PROVE  n = o
        BY <1>PS, <2>r, <4>1, <4>3, <4>4, <4>5 DEF PusherAgrees
      <4> QED
        BY <4>4, <4>5 DEF PusherAgrees
    <3> QED
      BY <2>r, <3>1, <3>2
  <2>5. PumpAgrees'
    <3>1. CASE mpc'[m] = "full"
      BY <1>PU, <2>0, <2>r, <3>1 DEF PumpAgrees
    <3>2. CASE mpc'[m] = "entry"
      <4>1. \A f \in Executors : slot[f] \in Nat
        BY <1>x DEF ExecTypes
      <4>2. \A i : (\E n \in Mutators : mpc[n] = "entry" /\ mtail[n] = i)
              => \E n \in Mutators : mpc'[n] = "entry" /\ mtail'[n] = i
        BY <2>0, <2>r
      <4>3. \A f \in Executors : pc[f] = "claimentry" => slot[f] < tail'
        BY <1>PU, <2>r, <3>2, <4>1 DEF PumpAgrees
      <4> QED
        BY <1>PU, <2>r, <4>2, <4>3 DEF PumpAgrees
    <3> QED
      BY <2>r, <3>1, <3>2
  <2>6. TargetKept'
    BY <1>h, <1>m, <1>mp, <1>MM, <1>OK, <1>TK, <1>to, <1>6 DEF PushCas, HeapTypes,
       MutTypes, MpcType, OldKept, TargetsOnly, TargetKept
  <2>7. MarksKept'
    <3>1. \A p \in Pages : \A o \in MarksOf(p)' : o \in MarksOf(p)
      BY <1>t, <1>x, <1>6 DEF PushCas, MarksOf, BitTypes, Bits, ExecTypes
    <3>2. \A o : InScan(o) => InScan(o)' \/ o \in followed'
      BY <1>x, <1>s, <2>0, <1>6, InScanSame DEF PushCas, InScan, ExecTypes, ScanAgrees
    <3>3. ASSUME NEW p \in Pages PROVE Awaits(p) => Awaits(p)'
      <4>1. ASSUME PushAwaits(p) PROVE Awaits(p)'
        <5>1. PICK n \in Mutators :
                mpc[n] \in {"epoch", "dedupe", "full", "cas", "entry"} /\ TargetPage(n) = p
          BY <4>1 DEF PushAwaits
        <5>2. mpc'[n] \in {"epoch", "dedupe", "full", "cas", "entry"}
          BY <1>mp, <1>U, <2>0, <5>1, <1>6 DEF PushCas, MpcType
        <5>3. TargetPage(n)' = p
          BY <5>1, <1>6 DEF PushCas, TargetPage
        <5> QED
          BY <5>2, <5>3 DEF Awaits, PushAwaits
      <4>2. ASSUME RingAwaits(p) PROVE Awaits(p)'
        BY <4>2, <1>6 DEF PushCas, RingAwaits, Awaits
      <4>3. UNCHANGED <<toScan, batch, cur, requeue, finished, pending, taken, pc>>
        BY <1>6 DEF PushCas
      <4> QED
        BY <4>1, <4>2, <4>3, AwaitsMut
    <3>4. followed \subseteq followed'
      BY <1>6 DEF PushCas
    <3> QED
      BY <1>MK, <1>ST, <3>1, <3>2, <3>3, <3>4, MarksStay
  <2>8. TailAgrees'
    <3>1. UNCHANGED <<stage, toScan, pc, batch, finished, cur>>
      BY <1>6 DEF PushCas
    <3>2. Working => Working'
      BY <3>1 DEF Working, Hand
    <3>3. head < tail => head' < tail' \/ Working'
      BY <1>r, <1>6 DEF PushCas, RingTypes
    <3> QED
      BY <1>TA, <1>MM, <3>1, <3>2, <3>3, TailStays DEF Reading
  <2> QED
    BY <2>1, <2>2, <2>3, <2>4, <2>5, <2>6, <2>7, <2>8 DEF MarkInv
<1>7. ASSUME NEW m \in Mutators, PushEntry(m)
      PROVE  MarkInv'
  <2>0. /\ mpc[m] = "entry" /\ mpc'[m] = "leave"
        /\ \A n \in Mutators \ {m} : mpc'[n] = mpc[n]
    BY <1>mp, <1>7 DEF PushEntry, TargetPage, MpcType
  <2>q. mtail[m] \in Nat /\ mtail[m] < tail /\ tail <= RingSize /\ ring[mtail[m]] = Null
    BY <1>U, <1>PS, <1>m, <2>0 DEF PusherAgrees, MutTypes
  <2>v. mtail[m] < RingSize
    BY <1>r, <2>q DEF RingTypes
  <2>s. mtail[m] % RingSize = mtail[m] /\ mtail[m] \in 0 .. RingSize - 1
    BY <2>q, <2>v, ModSmall
  <2>t. TargetPage(m) \in Pages
    BY <1>w, <2>0 DEF TargetPage, WriterAgrees, Pushing
  <2>u. ring' = [ring EXCEPT ![mtail[m]] = TargetPage(m)] /\ UNCHANGED <<head, tail, pc, slot, mtail>>
    BY <2>s, <1>7 DEF PushEntry
  <2>r. /\ ring' = [ring EXCEPT ![mtail[m]] = TargetPage(m)] /\ TargetPage(m) \in Pages
        /\ mtail[m] \in 0 .. RingSize - 1 /\ mtail[m] < tail /\ ring[mtail[m]] = Null
        /\ UNCHANGED <<head, tail, pc, slot, mtail>>
    BY <2>q, <2>s, <2>t, <2>u
  <2>1. /\ EpochAgrees' /\ OldKept' /\ FollowedKept' /\ RootsKept'
        /\ TodoAgrees' /\ ScannedKept'
    BY <1>EA, <1>OK, <1>FK, <1>RK, <1>TD, <1>SK, <1>7 DEF PushEntry, TargetPage,
       EpochAgrees, OldKept, FollowedKept, RootsKept, TodoAgrees, ScannedKept, Marked
  <2>2. /\ SeenKept'
    BY <1>SN, <1>7 DEF PushEntry, TargetPage, SeenKept, Due
  <2>w. /\ ring'[mtail[m]] # Null
        /\ \A i \in 0 .. RingSize - 1 : i # mtail[m] => ring'[i] = ring[i]
    BY <1>r, <2>r DEF RingTypes
  <2>x. UNCHANGED <<head, tail, pc, slot, mtail>>
    BY <2>r
  <2>3. RingAgrees'
    <3>1. ASSUME NEW i \in 0 .. RingSize - 1, ring'[i] # Null
          PROVE  i < tail /\ (i < head => \E e \in Executors : pc[e] = "take" /\ slot[e] = i)
      <4>1. CASE i = mtail[m]
        BY <1>PS, <2>0, <2>r, <4>1 DEF PusherAgrees
      <4>2. CASE i # mtail[m]
        BY <1>RA, <2>w, <3>1, <4>2 DEF RingAgrees
      <4> QED
        BY <4>1, <4>2
    <3>2. ASSUME NEW i \in 0 .. RingSize - 1, head <= i, i < tail, ring'[i] = Null
          PROVE  \E n \in Mutators : mpc'[n] = "entry" /\ mtail[n] = i
      <4>1. i # mtail[m] /\ ring[i] = Null
        BY <2>w, <3>2
      <4>2. PICK n \in Mutators : mpc[n] = "entry" /\ mtail[n] = i
        BY <1>RA, <3>2, <4>1 DEF RingAgrees
      <4> QED
        BY <2>0, <4>1, <4>2
    <3>3. head <= tail
      BY <1>RA DEF RingAgrees
    <3> QED
      BY <2>x, <3>1, <3>2, <3>3 DEF RingAgrees
  <2>4. PusherAgrees'
    <3>1. ASSUME NEW n \in Mutators, mpc'[n] = "entry" PROVE n # m /\ mpc[n] = "entry"
      BY <2>0, <3>1
    <3>2. ASSUME NEW n \in Mutators, mpc'[n] = "entry"
          PROVE  mtail[n] < tail /\ ring'[mtail[n]] = Null
      <4>1. mtail[n] # mtail[m] /\ mtail[n] \in Nat /\ mtail[n] < tail /\ ring[mtail[n]] = Null
        BY <1>PS, <1>m, <2>0, <3>1, <3>2 DEF MutTypes, PusherAgrees
      <4>2. mtail[n] \in 0 .. RingSize - 1
        BY <1>U, <1>r, <4>1 DEF RingTypes
      <4> QED
        BY <2>w, <4>1, <4>2
    <3> QED
      BY <1>PS, <2>x, <3>1, <3>2 DEF PusherAgrees
  <2>5. PumpAgrees'
    <3>1. ASSUME NEW e \in Executors, pc[e] = "take"
          PROVE  \/ ring'[slot[e]] # Null
                 \/ \E n \in Mutators : mpc'[n] = "entry" /\ mtail[n] = slot[e]
      <4>1. CASE slot[e] = mtail[m]
        BY <2>w, <4>1
      <4>2. CASE slot[e] # mtail[m]
        BY <1>PU, <2>0, <2>r, <3>1, <4>2 DEF PumpAgrees
      <4> QED
        BY <4>1, <4>2
    <3> QED
      BY <1>PU, <2>x, <3>1 DEF PumpAgrees
  <2>6. TargetKept'
    BY <1>h, <1>m, <1>mp, <1>MM, <1>OK, <1>TK, <1>to, <1>7 DEF PushEntry, TargetPage,
       HeapTypes, MutTypes, MpcType, OldKept, TargetsOnly, TargetKept
  <2>7. MarksKept'
    <3>1. \A p \in Pages : \A o \in MarksOf(p)' : o \in MarksOf(p)
      BY <1>t, <1>x, <1>7 DEF PushEntry, TargetPage, MarksOf, BitTypes, Bits, ExecTypes
    <3>2. \A o : InScan(o) => InScan(o)' \/ o \in followed'
      BY <1>x, <1>s, <2>0, <1>7, InScanSame DEF PushEntry, TargetPage, InScan,
         ExecTypes, ScanAgrees
    <3>3. ASSUME NEW p \in Pages PROVE Awaits(p) => Awaits(p)'
      <4>1. ASSUME PushAwaits(p) PROVE Awaits(p)'
        <5>0. ring' = [ring EXCEPT ![mtail[m]] = TargetPage(m)] /\ mtail[m] \in 0 .. RingSize - 1
          BY <2>r
        <5>1. PICK n \in Mutators :
                mpc[n] \in {"epoch", "dedupe", "full", "cas", "entry"} /\ TargetPage(n) = p
          BY <4>1 DEF PushAwaits
        <5>2. CASE n = m
          BY <1>r, <5>0, <5>1, <5>2 DEF RingTypes, Awaits, RingAwaits
        <5>3. CASE n # m
          <6>1. mpc'[n] = mpc[n] /\ TargetPage(n)' = p
            BY <2>0, <5>1, <5>3, <1>7 DEF PushEntry, TargetPage
          <6> QED
            BY <5>1, <6>1 DEF Awaits, PushAwaits
        <5> QED
          BY <5>2, <5>3
      <4>2. ASSUME RingAwaits(p) PROVE Awaits(p)'
        <5>0. /\ ring' = [ring EXCEPT ![mtail[m]] = TargetPage(m)]
              /\ mtail[m] \in 0 .. RingSize - 1 /\ ring[mtail[m]] = Null
          BY <2>r
        <5> QED
          BY <1>r, <4>2, <5>0 DEF RingTypes, RingAwaits, Awaits
      <4>3. UNCHANGED <<toScan, batch, cur, requeue, finished, pending, taken, pc>>
        BY <1>7 DEF PushEntry
      <4> QED
        BY <4>1, <4>2, <4>3, AwaitsMut
    <3>4. followed \subseteq followed'
      BY <1>7 DEF PushEntry, TargetPage
    <3> QED
      BY <1>MK, <1>ST, <3>1, <3>2, <3>3, <3>4, MarksStay
  <2>8. TailAgrees'
    <3>1. UNCHANGED <<stage, toScan, pc, batch, finished, cur>>
      BY <1>7 DEF PushEntry
    <3>2. Working => Working'
      BY <3>1 DEF Working, Hand
    <3>3. head < tail => head' < tail' \/ Working'
      BY <1>r, <1>7 DEF PushEntry, RingTypes
    <3> QED
      BY <1>TA, <1>MM, <3>1, <3>2, <3>3, TailStays DEF Reading
  <2> QED
    BY <2>1, <2>2, <2>3, <2>4, <2>5, <2>6, <2>7, <2>8 DEF MarkInv
<1>8. ASSUME NEW m \in Mutators, PushLeave(m)
      PROVE  MarkInv'
  <2>0. /\ mpc[m] = "leave" /\ mpc'[m] = "store"
        /\ \A n \in Mutators \ {m} : mpc'[n] = mpc[n]
    BY <1>mp, <1>8 DEF PushLeave, MpcType
  <2>1. /\ EpochAgrees' /\ OldKept' /\ FollowedKept' /\ RootsKept'
        /\ TodoAgrees' /\ ScannedKept'
    BY <1>EA, <1>OK, <1>FK, <1>RK, <1>TD, <1>SK, <1>8 DEF PushLeave, EpochAgrees,
       OldKept, FollowedKept, RootsKept, TodoAgrees, ScannedKept, Marked
  <2>2. /\ SeenKept'
    BY <1>SN, <1>8 DEF PushLeave, SeenKept, Due
  <2>3. RingAgrees' /\ PusherAgrees' /\ PumpAgrees'
    BY <1>RA, <1>PS, <1>PU, <1>x, <1>m, <2>0, <1>8, RingSame DEF PushLeave,
       ExecTypes, MutTypes
  <2>4. TargetKept'
    BY <1>h, <1>m, <1>mp, <1>MM, <1>OK, <1>TK, <1>to, <1>8 DEF PushLeave, HeapTypes,
       MutTypes, MpcType, OldKept, TargetsOnly, TargetKept
  <2>5. MarksKept'
    <3>1. \A p \in Pages : \A o \in MarksOf(p)' : o \in MarksOf(p)
      BY <1>t, <1>x, <1>8 DEF PushLeave, MarksOf, BitTypes, Bits, ExecTypes
    <3>2. \A o : InScan(o) => InScan(o)' \/ o \in followed'
      BY <1>x, <1>s, <2>0, <1>8, InScanSame DEF PushLeave, InScan, ExecTypes, ScanAgrees
    <3>3. ASSUME NEW p \in Pages PROVE Awaits(p) => Awaits(p)'
      <4>1. ASSUME PushAwaits(p) PROVE Awaits(p)'
        BY <1>m, <2>0, <4>1, <1>8 DEF PushLeave, PushAwaits, MutTypes, TargetPage,
           Awaits
      <4>2. ASSUME RingAwaits(p) PROVE Awaits(p)'
        BY <4>2, <1>8 DEF PushLeave, RingAwaits, Awaits
      <4>3. UNCHANGED <<toScan, batch, cur, requeue, finished, pending, taken, pc>>
        BY <1>8 DEF PushLeave
      <4> QED
        BY <4>1, <4>2, <4>3, AwaitsMut
    <3>4. followed \subseteq followed'
      BY <1>8 DEF PushLeave
    <3> QED
      BY <1>MK, <1>ST, <3>1, <3>2, <3>3, <3>4, MarksStay
  <2>6. TailAgrees'
    <3>1. UNCHANGED <<stage, toScan, pc, batch, finished, cur>>
      BY <1>8 DEF PushLeave
    <3>2. Working => Working'
      BY <3>1 DEF Working, Hand
    <3>3. head < tail => head' < tail' \/ Working'
      BY <1>r, <1>8 DEF PushLeave, RingTypes
    <3> QED
      BY <1>TA, <1>MM, <3>1, <3>2, <3>3, TailStays DEF Reading
  <2> QED
    BY <2>1, <2>2, <2>3, <2>4, <2>5, <2>6 DEF MarkInv
<1>9. ASSUME NEW m \in Mutators, Store(m)
      PROVE  MarkInv'
  <2>0. /\ mpc[m] = "store" /\ mpc'[m] = "idle"
        /\ \A n \in Mutators \ {m} : mpc'[n] = mpc[n]
    BY <1>mp, <1>9 DEF Store, MpcType
  <2>1. /\ EpochAgrees' /\ FollowedKept' /\ RootsKept' /\ TodoAgrees'
        /\ ScannedKept'
    BY <1>EA, <1>FK, <1>RK, <1>TD, <1>SK, <1>9 DEF Store, EpochAgrees, FollowedKept,
       RootsKept, TodoAgrees, ScannedKept, Marked
  <2>2. /\ SeenKept'
    BY <1>SN, <1>9 DEF Store, SeenKept, Due
  <2>3. RingAgrees' /\ PusherAgrees' /\ PumpAgrees'
    BY <1>RA, <1>PS, <1>PU, <1>x, <1>m, <2>0, <1>9, RingSame DEF Store, ExecTypes,
       MutTypes
  <2>4. OldKept'
    BY <1>h, <1>MM, <1>fo, <1>TK, <1>OK, <1>9, SnapshotIn DEF Store, HeapTypes,
       FieldsOnly, TargetKept, OldKept
  <2>5. TargetKept'
    BY <1>h, <1>m, <1>mp, <1>MM, <1>OK, <1>TK, <1>to, <1>9 DEF Store, HeapTypes,
       MutTypes, MpcType, OldKept, TargetsOnly, TargetKept
  <2>6. MarksKept'
    <3>1. \A p \in Pages : \A o \in MarksOf(p)' : o \in MarksOf(p)
      BY <1>t, <1>x, <1>9 DEF Store, MarksOf, BitTypes, Bits, ExecTypes
    <3>2. \A o : InScan(o) => InScan(o)' \/ o \in followed'
      BY <1>x, <1>s, <2>0, <1>9, InScanSame DEF Store, InScan, ExecTypes, ScanAgrees
    <3>3. ASSUME NEW p \in Pages PROVE Awaits(p) => Awaits(p)'
      <4>1. ASSUME PushAwaits(p) PROVE Awaits(p)'
        BY <1>m, <2>0, <4>1, <1>9 DEF Store, PushAwaits, MutTypes, TargetPage, Awaits
      <4>2. ASSUME RingAwaits(p) PROVE Awaits(p)'
        BY <4>2, <1>9 DEF Store, RingAwaits, Awaits
      <4>3. UNCHANGED <<toScan, batch, cur, requeue, finished, pending, taken, pc>>
        BY <1>9 DEF Store
      <4> QED
        BY <4>1, <4>2, <4>3, AwaitsMut
    <3>4. followed \subseteq followed'
      BY <1>9 DEF Store
    <3> QED
      BY <1>MK, <1>ST, <3>1, <3>2, <3>3, <3>4, MarksStay
  <2>7. TailAgrees'
    <3>1. UNCHANGED <<stage, toScan, pc, batch, finished, cur>>
      BY <1>9 DEF Store
    <3>2. Working => Working'
      BY <3>1 DEF Working, Hand
    <3>3. head < tail => head' < tail' \/ Working'
      BY <1>r, <1>9 DEF Store, RingTypes
    <3> QED
      BY <1>TA, <1>MM, <3>1, <3>2, <3>3, TailStays DEF Reading
  <2> QED
    BY <2>1, <2>2, <2>3, <2>4, <2>5, <2>6, <2>7 DEF MarkInv
<1>10. ASSUME NEW e \in Executors, Enter(e)
      PROVE  MarkInv'
  <2>0. /\ pc[e] = "idle" /\ pc'[e] = "claim"
        /\ \A f \in Executors \ {e} : pc'[f] = pc[f]
    BY <1>p, <1>10 DEF Enter, PcType
  <2>1. /\ OldKept' /\ TargetKept' /\ RootsKept' /\ TodoAgrees' /\ ScannedKept'
    BY <1>OK, <1>TK, <1>RK, <1>TD, <1>SK, <1>10 DEF Enter, OldKept, TargetKept,
       RootsKept, TodoAgrees, ScannedKept, Marked
  <2>2. RingAgrees' /\ PusherAgrees' /\ PumpAgrees'
    BY <1>RA, <1>PS, <1>PU, <1>x, <1>m, <2>0, <1>10, RingSame DEF Enter, ExecTypes,
       MutTypes
  <2>3. EpochAgrees'
    BY <1>h, <1>x, <1>p, <1>b, <1>s, <1>o, <1>EA, <1>10 DEF Enter, HeapTypes,
       ExecTypes, PcType, BatchAgrees, ScanAgrees, OneOwner, EpochAgrees, Claimed,
       Scanning
  <2>4. FollowedKept'
    BY <1>h, <1>x, <1>p, <1>s, <1>MM, <1>OK, <1>FK, <1>10 DEF Enter, HeapTypes,
       ExecTypes, PcType, ScanAgrees, OldKept, FollowedKept, Scanning
  <2>5. SeenKept'
    BY <1>ST, <1>t, <1>x, <1>p, <1>b, <1>o, <1>SN, <1>10 DEF Enter, BitTypes,
       ExecTypes, PcType, BatchAgrees, OneOwner, SeenKept, Due, Scanning
  <2>6. MarksKept'
    <3>1. \A p \in Pages : \A o \in MarksOf(p)' : o \in MarksOf(p)
      BY <1>t, <1>x, <1>10 DEF Enter, MarksOf, BitTypes, Bits, ExecTypes
    <3>2. \A o : InScan(o) => InScan(o)' \/ o \in followed'
      BY <1>x, <1>s, <2>0, <1>10, InScanSame DEF Enter, InScan, ExecTypes, ScanAgrees
    <3>3. \A p \in Pages : Awaits(p) => Awaits(p)'
      BY <2>0, <1>10, AwaitsQuiet DEF Enter
    <3>4. followed \subseteq followed'
      BY <1>10 DEF Enter
    <3> QED
      BY <1>MK, <1>ST, <3>1, <3>2, <3>3, <3>4, MarksStay
  <2>7. TailAgrees'
    <3>1. UNCHANGED <<stage, toScan>>
      BY <1>10 DEF Enter
    <3>2. \A f \in Executors : pc[f] \in Publishing => Hand(f)' = Hand(f)
      BY <1>x, <2>0, <1>10 DEF Enter, Hand, ExecTypes, Publishing, Scanning
    <3>3. \A f \in Executors : pc[f] \in Publishing => pc'[f] \in Publishing
      BY <2>0, <1>10 DEF Enter, Publishing, Scanning
    <3>4. Working => Working'
      BY <2>0, <3>1, <3>2, <3>3, WorkSame DEF Publishing, Scanning
    <3>5. head < tail => head' < tail' \/ Working'
      BY <1>r, <2>0, <1>10 DEF Enter, RingTypes, Working
    <3>6. \A f \in Executors : pc'[f] \in Reading => pc'[f] = pc[f]
      BY <2>0, <1>10 DEF Enter, Reading
    <3> QED
      BY <1>TA, <1>MM, <3>1, <3>4, <3>5, <3>6, TailStays
  <2> QED
    BY <2>1, <2>2, <2>3, <2>4, <2>5, <2>6, <2>7 DEF MarkInv
<1>11. ASSUME NEW e \in Executors, Claim(e)
      PROVE  MarkInv'
  <2>0. /\ pc[e] = "claim" /\ pc'[e] \in {"merge", "pump"}
        /\ \A f \in Executors \ {e} : pc'[f] = pc[f]
    BY <1>p, <1>11 DEF Claim, PcType
  <2>1. /\ OldKept' /\ TargetKept' /\ RootsKept' /\ TodoAgrees' /\ ScannedKept'
    BY <1>OK, <1>TK, <1>RK, <1>TD, <1>SK, <1>11 DEF Claim, OldKept, TargetKept,
       RootsKept, TodoAgrees, ScannedKept, Marked
  <2>2. RingAgrees' /\ PusherAgrees' /\ PumpAgrees'
    BY <1>RA, <1>PS, <1>PU, <1>x, <1>m, <2>0, <1>11, RingSame DEF Claim, ExecTypes,
       MutTypes
  <2>3. EpochAgrees'
    BY <1>h, <1>x, <1>p, <1>b, <1>s, <1>o, <1>EA, <1>11 DEF Claim, HeapTypes,
       ExecTypes, PcType, BatchAgrees, ScanAgrees, OneOwner, EpochAgrees, Claimed,
       Scanning
  <2>4. FollowedKept'
    BY <1>h, <1>x, <1>p, <1>s, <1>MM, <1>OK, <1>FK, <1>11 DEF Claim, HeapTypes,
       ExecTypes, PcType, ScanAgrees, OldKept, FollowedKept, Scanning
  <2>5. SeenKept'
    BY <1>ST, <1>t, <1>x, <1>p, <1>b, <1>o, <1>SN, <1>11 DEF Claim, BitTypes,
       ExecTypes, PcType, BatchAgrees, OneOwner, SeenKept, Due, Scanning
  <2>6. MarksKept'
    <3>1. \A p \in Pages : \A o \in MarksOf(p)' : o \in MarksOf(p)
      BY <1>t, <1>x, <1>11 DEF Claim, MarksOf, BitTypes, Bits, ExecTypes
    <3>2. \A o : InScan(o) => InScan(o)' \/ o \in followed'
      BY <1>x, <1>s, <2>0, <1>11, InScanSame DEF Claim, InScan, ExecTypes, ScanAgrees
    <3>3. ASSUME NEW p \in Pages PROVE Awaits(p) => Awaits(p)'
      <4>1. ASSUME p \in toScan \/ HandAwaits(p) PROVE p \in toScan' \/ HandAwaits(p)'
        <5>1. ASSUME p \in toScan PROVE p \in toScan' \/ HandAwaits(p)'
          BY <1>x, <5>1, <1>11 DEF Claim, HandAwaits, ExecTypes
        <5>2. ASSUME HandAwaits(p) PROVE HandAwaits(p)'
          <6>0. /\ UNCHANGED <<cur, requeue, finished, taken>>
                /\ \A f \in Executors : batch[f] \subseteq batch'[f]
                /\ \A f \in Executors : pc[f] # "release" => pc'[f] # "release"
                /\ pending[p] /\ p \notin toScan => pending'[p]
            BY <1>x, <1>h, <1>b, <2>0, <1>11 DEF Claim, ExecTypes, HeapTypes,
               BatchAgrees, Scanning
          <6>1. PICK f \in Executors :
                  \/ p \in batch[f] \cup {cur[f]} \cup requeue[f]
                  \/ pc[f] # "release" /\ p \in finished[f] /\ pending[p]
                  \/ taken[f] = p
            BY <5>2 DEF HandAwaits
          <6>2. pc[f] # "release" /\ p \in finished[f] => p \notin toScan
            BY <1>o DEF OneOwner, Claimed
          <6> QED
            BY <6>0, <6>1, <6>2 DEF HandAwaits
        <5> QED
          BY <4>1, <5>1, <5>2
      <4>2. UNCHANGED <<ring, mpc, target>>
        BY <1>11 DEF Claim
      <4> QED
        BY <4>1, <4>2, AwaitsExec
    <3>4. followed \subseteq followed'
      BY <1>11 DEF Claim
    <3> QED
      BY <1>MK, <1>ST, <3>1, <3>2, <3>3, <3>4, MarksStay
  <2>7. TailAgrees'
    <3>1. UNCHANGED stage /\ lock = Null
      BY <1>11 DEF Claim
    <3>2. \A f \in Executors : pc[f] \notin Checking
      BY <1>l, <3>1 DEF LockAgrees
    <3>3. \A f \in Executors : pc'[f] \notin Reading
      BY <2>0, <3>2 DEF Checking, Reading
    <3> QED
      BY <1>TA, <1>MM, <3>1, <3>3, TailElsewhere
  <2> QED
    BY <2>1, <2>2, <2>3, <2>4, <2>5, <2>6, <2>7 DEF MarkInv
<1>12. ASSUME NEW e \in Executors, MergeFirst(e)
      PROVE  MarkInv'
  <2>0. /\ pc[e] = "merge" /\ pc'[e] \in {"pass", "processed"}
        /\ \A f \in Executors \ {e} : pc'[f] = pc[f]
    BY <1>p, <1>12 DEF MergeFirst, PcType
  <2>1. /\ ScannedKept'
    BY <1>SK, <1>12 DEF MergeFirst, ScannedKept
  <2>2. RingAgrees' /\ PusherAgrees' /\ PumpAgrees'
    BY <1>RA, <1>PS, <1>PU, <1>x, <1>m, <2>0, <1>12, RingSame DEF MergeFirst,
       ExecTypes, MutTypes
  <2>3. EpochAgrees'
    BY <1>h, <1>x, <1>p, <1>b, <1>s, <1>o, <1>EA, <1>12 DEF MergeFirst, HeapTypes,
       ExecTypes, PcType, BatchAgrees, ScanAgrees, OneOwner, EpochAgrees, Claimed,
       Scanning
  <2>4. OldKept'
    BY <1>h, <1>MM, <1>fo, <1>TK, <1>OK, <1>12, SnapshotIn DEF MergeFirst, HeapTypes,
       FieldsOnly, TargetKept, OldKept
  <2>5. TargetKept'
    BY <1>h, <1>m, <1>mp, <1>MM, <1>OK, <1>TK, <1>to, <1>12 DEF MergeFirst,
       HeapTypes, MutTypes, MpcType, OldKept, TargetsOnly, TargetKept
  <2>6. FollowedKept'
    BY <1>h, <1>x, <1>p, <1>s, <1>MM, <1>OK, <1>FK, <1>12 DEF MergeFirst, HeapTypes,
       ExecTypes, PcType, ScanAgrees, OldKept, FollowedKept, Scanning
  <2>7. RootsKept'
    BY <1>MM, <1>RK, <1>12 DEF MergeFirst, RootsKept
  <2>8. TodoAgrees'
    BY <1>t, <1>x, <1>p, <1>b, <1>s, <1>TD, <1>12 DEF MergeFirst, BitTypes,
       ExecTypes, PcType, BatchAgrees, ScanAgrees, TodoAgrees, Bits, Scanning
  <2>9. SeenKept'
    BY <1>ST, <1>t, <1>x, <1>p, <1>b, <1>o, <1>SN, <1>12 DEF MergeFirst, BitTypes,
       ExecTypes, PcType, BatchAgrees, OneOwner, SeenKept, Due, Scanning
  <2>10. MarksKept'
    <3>1. \A p \in Pages : \A o \in MarksOf(p)' : o \in MarksOf(p)
      BY <1>t, <1>x, <1>12 DEF MergeFirst, MarksOf, BitTypes, Bits, ExecTypes
    <3>2. \A o : InScan(o) => InScan(o)' \/ o \in followed'
      BY <1>x, <1>s, <2>0, <1>12, InScanSame DEF MergeFirst, InScan, ExecTypes,
         ScanAgrees
    <3>3. ASSUME NEW p \in Pages PROVE Awaits(p) => Awaits(p)'
      <4>1. ASSUME p \in toScan \/ HandAwaits(p) PROVE p \in toScan' \/ HandAwaits(p)'
        <5>1. PICK q \in batch[e] : cur' = [cur EXCEPT ![e] = q] /\ batch' = [batch EXCEPT ![e] = @ \ {q}]
          BY <1>12 DEF MergeFirst
        <5>2. /\ UNCHANGED <<toScan, requeue, finished, pending, taken>>
              /\ cur[e] = Null
              /\ \A f \in Executors : pc[f] # "release" => pc'[f] # "release"
          BY <1>b, <2>0, <1>12 DEF MergeFirst, BatchAgrees, Scanning
        <5>3. \A f \in Executors : batch[f] \cup ({cur[f]} \ {Null}) \subseteq batch'[f] \cup {cur'[f]}
          BY <1>x, <5>1, <5>2 DEF ExecTypes
        <5> QED
          BY <4>1, <5>2, <5>3 DEF HandAwaits
      <4>2. UNCHANGED <<ring, mpc, target>>
        BY <1>12 DEF MergeFirst
      <4> QED
        BY <4>1, <4>2, AwaitsExec
    <3>4. followed \subseteq followed'
      BY <1>12 DEF MergeFirst
    <3> QED
      BY <1>MK, <1>ST, <3>1, <3>2, <3>3, <3>4, MarksStay
  <2>11. TailAgrees'
    <3>1. UNCHANGED <<stage, toScan>>
      BY <1>12 DEF MergeFirst
    <3>2. \A f \in Executors : pc[f] \in Publishing => Hand(f)' = Hand(f)
      <4>1. ASSUME NEW f \in Executors \ {e} PROVE Hand(f)' = Hand(f)
        BY <1>x, <1>12 DEF MergeFirst, Hand, ExecTypes
      <4>2. Hand(e)' = Hand(e)
        BY <1>x, <1>b, <1>12 DEF MergeFirst, Hand, ExecTypes, BatchAgrees, Scanning
      <4> QED
        BY <4>1, <4>2
    <3>3. \A f \in Executors : pc[f] \in Publishing => pc'[f] \in Publishing
      BY <2>0, <1>12 DEF MergeFirst, Publishing, Scanning
    <3>4. Working => Working'
      BY <2>0, <3>1, <3>2, <3>3, WorkSame DEF Publishing, Scanning
    <3>5. head < tail => head' < tail' \/ Working'
      BY <1>r, <2>0, <1>12 DEF MergeFirst, RingTypes, Working
    <3>6. \A f \in Executors : pc'[f] \in Reading => pc'[f] = pc[f]
      BY <2>0, <1>12 DEF MergeFirst, Reading
    <3> QED
      BY <1>TA, <1>MM, <3>1, <3>4, <3>5, <3>6, TailStays
  <2> QED
    BY <2>1, <2>2, <2>3, <2>4, <2>5, <2>6, <2>7, <2>8, <2>9, <2>10, <2>11 DEF MarkInv
<1>13. ASSUME NEW e \in Executors, ScanPage(e)
      PROVE  MarkInv'
  <2>0. /\ pc[e] = "pass" /\ pc'[e] \in {"scan", "again"}
        /\ \A f \in Executors \ {e} : pc'[f] = pc[f]
    BY <1>p, <1>13 DEF ScanPage, PcType
  <2>1. /\ OldKept' /\ TargetKept' /\ RootsKept'
    BY <1>OK, <1>TK, <1>RK, <1>13 DEF ScanPage, OldKept, TargetKept, RootsKept, Marked
  <2>2. RingAgrees' /\ PusherAgrees' /\ PumpAgrees'
    BY <1>RA, <1>PS, <1>PU, <1>x, <1>m, <2>0, <1>13, RingSame DEF ScanPage,
       ExecTypes, MutTypes
  <2>3. EpochAgrees'
    BY <1>h, <1>x, <1>p, <1>b, <1>s, <1>o, <1>EA, <1>13 DEF ScanPage, HeapTypes,
       ExecTypes, PcType, BatchAgrees, ScanAgrees, OneOwner, EpochAgrees, Claimed,
       Scanning
  <2>4. FollowedKept'
    BY <1>h, <1>x, <1>p, <1>s, <1>MM, <1>OK, <1>FK, <1>13 DEF ScanPage, HeapTypes,
       ExecTypes, PcType, ScanAgrees, OldKept, FollowedKept, Scanning
  <2>5. TodoAgrees'
    BY <1>t, <1>x, <1>p, <1>b, <1>s, <1>TD, <1>13 DEF ScanPage, BitTypes, ExecTypes,
       PcType, BatchAgrees, ScanAgrees, TodoAgrees, Bits, Scanning
  <2>6. ScannedKept'
    <3>1. /\ cur[e] \in Pages /\ todo[e] = {} /\ UNCHANGED <<stage, followed, seen>>
          /\ scanned' = [scanned EXCEPT ![cur[e]] = seen[cur[e]]]
          /\ todo' = [todo EXCEPT ![e] = seen[cur[e]] \ scanned[cur[e]]]
      BY <1>x, <1>b, <1>s, <2>0, <1>13 DEF ScanPage, ExecTypes, BatchAgrees,
         ScanAgrees, Scanning
    <3>2. \A f \in Executors : todo[f] \subseteq todo'[f]
      BY <1>x, <3>1 DEF ExecTypes
    <3>3. ASSUME NEW p \in Pages, NEW o \in scanned'[p] PROVE o \in scanned[p] \/ o \in todo'[e]
      BY <1>t, <1>x, <3>1 DEF ExecTypes, BitTypes, Bits
    <3> QED
      BY <1>SK, <3>1, <3>2, <3>3 DEF ScannedKept
  <2>7. SeenKept'
    <3>1. /\ cur[e] \in Pages
          /\ UNCHANGED <<stage, toScan, batch, requeue, cur, seen>>
          /\ scanned' = [scanned EXCEPT ![cur[e]] = seen[cur[e]]]
      BY <1>x, <1>b, <2>0, <1>13 DEF ScanPage, ExecTypes, BatchAgrees, Scanning
    <3>2. ASSUME NEW p \in Pages, p # cur[e], Due(p) PROVE Due(p)'
      BY <2>0, <3>1, <3>2 DEF Due
    <3>3. \A p \in Pages : scanned'[p] = IF p = cur[e] THEN seen[p] ELSE scanned[p]
      BY <1>t, <3>1 DEF BitTypes, Bits
    <3> QED
      BY <1>SN, <3>1, <3>2, <3>3 DEF SeenKept
  <2>8. MarksKept'
    <3>1. \A p \in Pages : \A o \in MarksOf(p)' : o \in MarksOf(p)
      BY <1>t, <1>x, <1>13 DEF ScanPage, MarksOf, BitTypes, Bits, ExecTypes
    <3>2. \A o : InScan(o) => InScan(o)' \/ o \in followed'
      BY <1>x, <1>s, <2>0, <1>13, InScanSame DEF ScanPage, InScan, ExecTypes, ScanAgrees
    <3>3. \A p \in Pages : Awaits(p) => Awaits(p)'
      BY <2>0, <1>13, AwaitsQuiet DEF ScanPage
    <3>4. followed \subseteq followed'
      BY <1>13 DEF ScanPage
    <3> QED
      BY <1>MK, <1>ST, <3>1, <3>2, <3>3, <3>4, MarksStay
  <2>9. TailAgrees'
    <3>1. UNCHANGED <<stage, toScan>>
      BY <1>13 DEF ScanPage
    <3>2. \A f \in Executors : pc[f] \in Publishing => Hand(f)' = Hand(f)
      BY <1>x, <2>0, <1>13 DEF ScanPage, Hand, ExecTypes, Publishing, Scanning
    <3>3. \A f \in Executors : pc[f] \in Publishing => pc'[f] \in Publishing
      BY <2>0, <1>13 DEF ScanPage, Publishing, Scanning
    <3>4. Working => Working'
      BY <2>0, <3>1, <3>2, <3>3, WorkSame DEF Publishing, Scanning
    <3>5. head < tail => head' < tail' \/ Working'
      BY <1>r, <2>0, <1>13 DEF ScanPage, RingTypes, Working
    <3>6. \A f \in Executors : pc'[f] \in Reading => pc'[f] = pc[f]
      BY <2>0, <1>13 DEF ScanPage, Reading
    <3> QED
      BY <1>TA, <1>MM, <3>1, <3>4, <3>5, <3>6, TailStays
  <2> QED
    BY <2>1, <2>2, <2>3, <2>4, <2>5, <2>6, <2>7, <2>8, <2>9 DEF MarkInv
<1>14. ASSUME NEW e \in Executors, ScanObject(e)
      PROVE  MarkInv'
  <2>0. /\ pc[e] = "scan" /\ pc'[e] \in {"scan", "mark", "pass"}
        /\ \A f \in Executors \ {e} : pc'[f] = pc[f]
    BY <1>p, <1>14 DEF ScanObject, ScanRead, PcType
  <2>1. /\ OldKept' /\ TargetKept' /\ RootsKept'
    BY <1>OK, <1>TK, <1>RK, <1>14 DEF ScanObject, ScanRead, OldKept, TargetKept,
       RootsKept, Marked
  <2>2. RingAgrees' /\ PusherAgrees' /\ PumpAgrees'
    BY <1>RA, <1>PS, <1>PU, <1>x, <1>m, <2>0, <1>14, RingSame DEF ScanObject,
       ScanRead, ExecTypes, MutTypes
  <2>3. EpochAgrees'
    BY <1>h, <1>x, <1>p, <1>b, <1>s, <1>o, <1>EA, <1>14 DEF ScanObject, ScanRead,
       HeapTypes, ExecTypes, PcType, BatchAgrees, ScanAgrees, OneOwner, EpochAgrees,
       Claimed, Scanning
  <2>4. FollowedKept'
    <3>1. Marked' = Marked
      BY <1>14 DEF ScanObject, Marked
    <3>2. CASE followed' = followed
      <4>1. \A f \in Executors : pc[f] = "mark" => pc'[f] = "mark" /\ child'[f] = child[f]
        BY <1>x, <2>0, <1>14 DEF ScanObject, ScanRead, ExecTypes
      <4> QED
        BY <1>FK, <3>1, <3>2, <4>1 DEF FollowedKept
    <3>3. ASSUME NEW o \in todo[e], ScanRead(e, o) PROVE FollowedKept'
      <4>1. o \in Snapshot /\ o \in Objects
        BY <1>so, SnapshotIn DEF ScansOnly
      <4>2. \A f \in Executors : pc[f] = "mark" => pc'[f] = "mark" /\ child'[f] = child[f]
        BY <1>x, <2>0, <3>3 DEF ScanRead, ExecTypes
      <4>3. field[o] \in Marked \cup {Null} \/ (pc'[e] = "mark" /\ child'[e] = field[o])
        BY <1>x, <1>p, <3>3 DEF ScanRead, ExecTypes, PcType
      <4>4. field[o] = Field0[o] \/ Field0[o] \in Marked \cup {Null}
        BY <1>OK, <4>1 DEF OldKept
      <4>5. followed' = followed \cup {o}
        BY <3>3 DEF ScanRead
      <4> QED
        BY <1>FK, <3>1, <4>2, <4>3, <4>4, <4>5 DEF FollowedKept
    <3> QED
      BY <3>2, <3>3, <1>14 DEF ScanObject
  <2>5. TodoAgrees'
    BY <1>t, <1>x, <1>p, <1>b, <1>s, <1>TD, <1>14 DEF ScanObject, ScanRead, BitTypes,
       ExecTypes, PcType, BatchAgrees, ScanAgrees, TodoAgrees, Bits, Scanning
  <2>6. ScannedKept'
    BY <1>ST, <1>t, <1>x, <1>SK, <1>14 DEF ScanObject, ScanRead, BitTypes, ExecTypes,
       ScannedKept
  <2>7. SeenKept'
    BY <1>ST, <1>t, <1>x, <1>p, <1>b, <1>o, <1>SN, <1>14 DEF ScanObject, ScanRead,
       BitTypes, ExecTypes, PcType, BatchAgrees, OneOwner, SeenKept, Due, Scanning
  <2>8. MarksKept'
    <3>1. \A p \in Pages : \A o \in MarksOf(p)' : o \in MarksOf(p)
      BY <1>t, <1>x, <1>14 DEF ScanObject, ScanRead, MarksOf, BitTypes, Bits, ExecTypes
    <3>2. \A o : InScan(o) => InScan(o)' \/ o \in followed'
      BY <1>x, <1>s, <2>0, <1>14, InScanSame DEF ScanObject, ScanRead, InScan,
         ExecTypes, ScanAgrees
    <3>3. \A p \in Pages : Awaits(p) => Awaits(p)'
      BY <2>0, <1>14, AwaitsQuiet DEF ScanObject, ScanRead
    <3>4. followed \subseteq followed'
      BY <1>14 DEF ScanObject, ScanRead
    <3> QED
      BY <1>MK, <1>ST, <3>1, <3>2, <3>3, <3>4, MarksStay
  <2>9. TailAgrees'
    <3>1. UNCHANGED <<stage, toScan>>
      BY <1>14 DEF ScanObject, ScanRead
    <3>2. \A f \in Executors : pc[f] \in Publishing => Hand(f)' = Hand(f)
      BY <1>x, <2>0, <1>14 DEF ScanObject, ScanRead, Hand, ExecTypes, Publishing,
         Scanning
    <3>3. \A f \in Executors : pc[f] \in Publishing => pc'[f] \in Publishing
      BY <2>0, <1>14 DEF ScanObject, ScanRead, Publishing, Scanning
    <3>4. Working => Working'
      BY <2>0, <3>1, <3>2, <3>3, WorkSame DEF Publishing, Scanning
    <3>5. head < tail => head' < tail' \/ Working'
      BY <1>r, <2>0, <1>14 DEF ScanObject, ScanRead, RingTypes, Working
    <3>6. \A f \in Executors : pc'[f] \in Reading => pc'[f] = pc[f]
      BY <2>0, <1>14 DEF ScanObject, Reading
    <3> QED
      BY <1>TA, <1>MM, <3>1, <3>4, <3>5, <3>6, TailStays
  <2> QED
    BY <2>1, <2>2, <2>3, <2>4, <2>5, <2>6, <2>7, <2>8, <2>9 DEF MarkInv
<1>15. ASSUME NEW e \in Executors, MarkSet(e)
      PROVE  MarkInv'
  <2>0. /\ pc[e] = "mark" /\ pc'[e] \in {"scan", "check"}
        /\ \A f \in Executors \ {e} : pc'[f] = pc[f]
    BY <1>p, <1>15 DEF MarkSet, PcType
  <2>1. /\ TodoAgrees' /\ ScannedKept'
    BY <1>TD, <1>SK, <1>15 DEF MarkSet, TodoAgrees, ScannedKept
  <2>2. RingAgrees' /\ PusherAgrees' /\ PumpAgrees'
    BY <1>RA, <1>PS, <1>PU, <1>x, <1>m, <2>0, <1>15, RingSame DEF MarkSet, ExecTypes,
       MutTypes
  <2>3. EpochAgrees'
    BY <1>h, <1>x, <1>p, <1>b, <1>s, <1>o, <1>EA, <1>15 DEF MarkSet, HeapTypes,
       ExecTypes, PcType, BatchAgrees, ScanAgrees, OneOwner, EpochAgrees, Claimed,
       Scanning
  <2>4. OldKept'
    BY <1>h, <1>MM, <1>fo, <1>TK, <1>OK, <1>15, SnapshotIn DEF MarkSet, HeapTypes,
       FieldsOnly, TargetKept, OldKept
  <2>5. TargetKept'
    BY <1>h, <1>m, <1>mp, <1>MM, <1>OK, <1>TK, <1>to, <1>15 DEF MarkSet, HeapTypes,
       MutTypes, MpcType, OldKept, TargetsOnly, TargetKept
  <2>6. FollowedKept'
    <3>1. /\ child[e] \in Objects /\ PageOf[child[e]] \in Pages
          /\ UNCHANGED followed
          /\ atomicSeen' = [atomicSeen EXCEPT ![PageOf[child[e]]] = @ \cup {child[e]}]
          /\ \A f \in Executors \ {e} : child'[f] = child[f]
      BY <1>x, <1>s, <2>0, <1>15 DEF MarkSet, ExecTypes, ScanAgrees
    <3>2. child[e] \in Marked'
      BY <1>t, <3>1 DEF BitTypes, Bits, Marked
    <3> QED
      BY <1>FK, <1>MM, <2>0, <3>1, <3>2 DEF FollowedKept
  <2>7. RootsKept'
    BY <1>MM, <1>RK, <1>15 DEF MarkSet, RootsKept
  <2>8. SeenKept'
    BY <1>ST, <1>t, <1>x, <1>p, <1>b, <1>o, <1>SN, <1>15 DEF MarkSet, BitTypes,
       ExecTypes, PcType, BatchAgrees, OneOwner, SeenKept, Due, Scanning
  <2>9. MarksKept'
    <3>0. /\ child[e] \in Objects /\ PageOf[child[e]] \in Pages
          /\ UNCHANGED <<seen>>
          /\ atomicSeen' = [atomicSeen EXCEPT ![PageOf[child[e]]] = @ \cup {child[e]}]
          /\ child[e] \notin atomicSeen[PageOf[child[e]]] => pc'[e] = "check" /\ child' = child
      BY <1>x, <1>s, <1>p, <2>0, <1>15 DEF MarkSet, ExecTypes, ScanAgrees, PcType
    <3>1. ASSUME NEW p \in Pages, NEW o \in MarksOf(p)' PROVE o \in MarksOf(p) \/ InScan(o)'
      BY <1>t, <3>0 DEF MarksOf, BitTypes, Bits, InScan
    <3>2. \A o : InScan(o) => InScan(o)' \/ o \in followed'
      BY <1>x, <1>s, <2>0, <1>15, InScanSame DEF MarkSet, InScan, ExecTypes, ScanAgrees
    <3>3. \A p \in Pages : Awaits(p) => Awaits(p)'
      BY <2>0, <1>15, AwaitsQuiet DEF MarkSet
    <3>4. followed \subseteq followed'
      BY <1>15 DEF MarkSet
    <3> QED
      BY <1>MK, <1>ST, <3>1, <3>2, <3>3, <3>4, MarksStay
  <2>10. TailAgrees'
    <3>1. UNCHANGED <<stage, toScan>>
      BY <1>15 DEF MarkSet
    <3>2. \A f \in Executors : pc[f] \in Publishing => Hand(f)' = Hand(f)
      BY <1>x, <2>0, <1>15 DEF MarkSet, Hand, ExecTypes, Publishing, Scanning
    <3>3. \A f \in Executors : pc[f] \in Publishing => pc'[f] \in Publishing
      BY <2>0, <1>15 DEF MarkSet, Publishing, Scanning
    <3>4. Working => Working'
      BY <2>0, <3>1, <3>2, <3>3, WorkSame DEF Publishing, Scanning
    <3>5. head < tail => head' < tail' \/ Working'
      BY <1>r, <2>0, <1>15 DEF MarkSet, RingTypes, Working
    <3>6. \A f \in Executors : pc'[f] \in Reading => pc'[f] = pc[f]
      BY <2>0, <1>15 DEF MarkSet, Reading
    <3> QED
      BY <1>TA, <1>MM, <3>1, <3>4, <3>5, <3>6, TailStays
  <2> QED
    BY <2>1, <2>2, <2>3, <2>4, <2>5, <2>6, <2>7, <2>8, <2>9, <2>10 DEF MarkInv
<1>16. ASSUME NEW e \in Executors, MarkCheck(e)
      PROVE  MarkInv'
  <2>0. /\ pc[e] = "check" /\ pc'[e] = "scan"
        /\ \A f \in Executors \ {e} : pc'[f] = pc[f]
    BY <1>p, <1>16 DEF MarkCheck, PcType
  <2>1. /\ OldKept' /\ TargetKept' /\ RootsKept' /\ TodoAgrees' /\ ScannedKept'
    BY <1>OK, <1>TK, <1>RK, <1>TD, <1>SK, <1>16 DEF MarkCheck, OldKept, TargetKept,
       RootsKept, TodoAgrees, ScannedKept, Marked
  <2>2. RingAgrees' /\ PusherAgrees' /\ PumpAgrees'
    BY <1>RA, <1>PS, <1>PU, <1>x, <1>m, <2>0, <1>16, RingSame DEF MarkCheck,
       ExecTypes, MutTypes
  <2>3. EpochAgrees'
    BY <1>h, <1>x, <1>p, <1>b, <1>s, <1>o, <1>EA, <1>16 DEF MarkCheck, HeapTypes,
       ExecTypes, PcType, BatchAgrees, ScanAgrees, OneOwner, EpochAgrees, Claimed,
       Scanning
  <2>4. FollowedKept'
    BY <1>h, <1>x, <1>p, <1>s, <1>MM, <1>OK, <1>FK, <1>16 DEF MarkCheck, HeapTypes,
       ExecTypes, PcType, ScanAgrees, OldKept, FollowedKept, Scanning
  <2>5. SeenKept'
    BY <1>ST, <1>t, <1>x, <1>p, <1>b, <1>o, <1>SN, <1>16 DEF MarkCheck, BitTypes,
       ExecTypes, PcType, BatchAgrees, OneOwner, SeenKept, Due, Scanning
  <2>6. MarksKept'
    <3>1. /\ UNCHANGED <<stage, seen, atomicSeen, followed, todo>>
          /\ \A f \in Executors : worklist[f] \subseteq worklist'[f]
          /\ \A f \in Executors \ {e} : child'[f] = child[f]
          /\ processed[PageOf[child[e]]] = epoch => child[e] \in worklist'[e]
      BY <1>x, <1>16 DEF MarkCheck, ExecTypes
    <3>2. \A p \in Pages : Awaits(p) => Awaits(p)'
      BY <2>0, <1>16, AwaitsQuiet DEF MarkCheck
    <3>3. ASSUME NEW p \in Pages, NEW o \in MarksOf(p), InScan(o) PROVE InScan(o)' \/ Awaits(p)
      <4>1. PICK f \in Executors : o \in todo[f] \cup worklist[f] \/ (pc[f] = "check" /\ child[f] = o)
        BY <3>3 DEF InScan
      <4>2. CASE f # e \/ o \in todo[f] \cup worklist[f]
        BY <2>0, <3>1, <4>1, <4>2 DEF InScan
      <4>3. CASE o = child[e] /\ processed[PageOf[o]] = epoch
        BY <3>1, <4>3 DEF InScan
      <4>4. CASE o = child[e] /\ processed[PageOf[o]] # epoch
        <5>1. p = PageOf[o]
          BY <1>t DEF BitTypes, Bits, MarksOf
        <5> QED
          BY <1>EA, <4>4, <5>1 DEF EpochAgrees, Awaits, HandAwaits
      <4> QED
        BY <4>1, <4>2, <4>3, <4>4
    <3>4. \A p \in Pages : MarksOf(p)' = MarksOf(p)
      BY <3>1 DEF MarksOf
    <3> QED
      BY <1>MK, <1>ST, <3>1, <3>2, <3>3, <3>4 DEF MarksKept
  <2>7. TailAgrees'
    <3>1. UNCHANGED <<stage, toScan>>
      BY <1>16 DEF MarkCheck
    <3>2. \A f \in Executors : pc[f] \in Publishing => Hand(f)' = Hand(f)
      BY <1>x, <2>0, <1>16 DEF MarkCheck, Hand, ExecTypes, Publishing, Scanning
    <3>3. \A f \in Executors : pc[f] \in Publishing => pc'[f] \in Publishing
      BY <2>0, <1>16 DEF MarkCheck, Publishing, Scanning
    <3>4. Working => Working'
      BY <2>0, <3>1, <3>2, <3>3, WorkSame DEF Publishing, Scanning
    <3>5. head < tail => head' < tail' \/ Working'
      BY <1>r, <2>0, <1>16 DEF MarkCheck, RingTypes, Working
    <3>6. \A f \in Executors : pc'[f] \in Reading => pc'[f] = pc[f]
      BY <2>0, <1>16 DEF MarkCheck, Reading
    <3> QED
      BY <1>TA, <1>MM, <3>1, <3>4, <3>5, <3>6, TailStays
  <2> QED
    BY <2>1, <2>2, <2>3, <2>4, <2>5, <2>6, <2>7 DEF MarkInv
<1>17. ASSUME NEW e \in Executors, MergeAgain(e)
      PROVE  MarkInv'
  <2>0. /\ pc[e] = "again" /\ pc'[e] \in {"pass", "processed"}
        /\ \A f \in Executors \ {e} : pc'[f] = pc[f]
    BY <1>p, <1>17 DEF MergeAgain, PcType
  <2>1. /\ TodoAgrees' /\ ScannedKept'
    BY <1>TD, <1>SK, <1>17 DEF MergeAgain, TodoAgrees, ScannedKept
  <2>2. RingAgrees' /\ PusherAgrees' /\ PumpAgrees'
    BY <1>RA, <1>PS, <1>PU, <1>x, <1>m, <2>0, <1>17, RingSame DEF MergeAgain,
       ExecTypes, MutTypes
  <2>3. EpochAgrees'
    BY <1>h, <1>x, <1>p, <1>b, <1>s, <1>o, <1>EA, <1>17 DEF MergeAgain, HeapTypes,
       ExecTypes, PcType, BatchAgrees, ScanAgrees, OneOwner, EpochAgrees, Claimed,
       Scanning
  <2>4. OldKept'
    BY <1>h, <1>MM, <1>fo, <1>TK, <1>OK, <1>17, SnapshotIn DEF MergeAgain, HeapTypes,
       FieldsOnly, TargetKept, OldKept
  <2>5. TargetKept'
    BY <1>h, <1>m, <1>mp, <1>MM, <1>OK, <1>TK, <1>to, <1>17 DEF MergeAgain,
       HeapTypes, MutTypes, MpcType, OldKept, TargetsOnly, TargetKept
  <2>6. FollowedKept'
    BY <1>h, <1>x, <1>p, <1>s, <1>MM, <1>OK, <1>FK, <1>17 DEF MergeAgain, HeapTypes,
       ExecTypes, PcType, ScanAgrees, OldKept, FollowedKept, Scanning
  <2>7. RootsKept'
    BY <1>MM, <1>RK, <1>17 DEF MergeAgain, RootsKept
  <2>8. SeenKept'
    BY <1>ST, <1>t, <1>x, <1>p, <1>b, <1>o, <1>SN, <1>17 DEF MergeAgain, BitTypes,
       ExecTypes, PcType, BatchAgrees, OneOwner, SeenKept, Due, Scanning
  <2>9. MarksKept'
    <3>1. \A p \in Pages : \A o \in MarksOf(p)' : o \in MarksOf(p)
      BY <1>t, <1>x, <1>17 DEF MergeAgain, MarksOf, BitTypes, Bits, ExecTypes
    <3>2. \A o : InScan(o) => InScan(o)' \/ o \in followed'
      BY <1>x, <1>s, <2>0, <1>17, InScanSame DEF MergeAgain, InScan, ExecTypes,
         ScanAgrees
    <3>3. \A p \in Pages : Awaits(p) => Awaits(p)'
      BY <2>0, <1>17, AwaitsQuiet DEF MergeAgain
    <3>4. followed \subseteq followed'
      BY <1>17 DEF MergeAgain
    <3> QED
      BY <1>MK, <1>ST, <3>1, <3>2, <3>3, <3>4, MarksStay
  <2>10. TailAgrees'
    <3>1. UNCHANGED <<stage, toScan>>
      BY <1>17 DEF MergeAgain
    <3>2. \A f \in Executors : pc[f] \in Publishing => Hand(f)' = Hand(f)
      BY <1>x, <2>0, <1>17 DEF MergeAgain, Hand, ExecTypes, Publishing, Scanning
    <3>3. \A f \in Executors : pc[f] \in Publishing => pc'[f] \in Publishing
      BY <2>0, <1>17 DEF MergeAgain, Publishing, Scanning
    <3>4. Working => Working'
      BY <2>0, <3>1, <3>2, <3>3, WorkSame DEF Publishing, Scanning
    <3>5. head < tail => head' < tail' \/ Working'
      BY <1>r, <2>0, <1>17 DEF MergeAgain, RingTypes, Working
    <3>6. \A f \in Executors : pc'[f] \in Reading => pc'[f] = pc[f]
      BY <2>0, <1>17 DEF MergeAgain, Reading
    <3> QED
      BY <1>TA, <1>MM, <3>1, <3>4, <3>5, <3>6, TailStays
  <2> QED
    BY <2>1, <2>2, <2>3, <2>4, <2>5, <2>6, <2>7, <2>8, <2>9, <2>10 DEF MarkInv
<1>18. ASSUME NEW e \in Executors, SetProcessed(e)
      PROVE  MarkInv'
  <2>0. /\ pc[e] = "processed" /\ pc'[e] = "scan"
        /\ \A f \in Executors \ {e} : pc'[f] = pc[f]
    BY <1>p, <1>18 DEF SetProcessed, PcType
  <2>1. /\ OldKept' /\ TargetKept' /\ RootsKept' /\ TodoAgrees' /\ ScannedKept'
    BY <1>OK, <1>TK, <1>RK, <1>TD, <1>SK, <1>18 DEF SetProcessed, OldKept,
       TargetKept, RootsKept, TodoAgrees, ScannedKept, Marked
  <2>2. RingAgrees' /\ PusherAgrees' /\ PumpAgrees'
    BY <1>RA, <1>PS, <1>PU, <1>x, <1>m, <2>0, <1>18, RingSame DEF SetProcessed,
       ExecTypes, MutTypes
  <2>3. EpochAgrees'
    BY <1>h, <1>x, <1>p, <1>b, <1>s, <1>o, <1>EA, <1>18 DEF SetProcessed, HeapTypes,
       ExecTypes, PcType, BatchAgrees, ScanAgrees, OneOwner, EpochAgrees, Claimed,
       Scanning
  <2>4. FollowedKept'
    BY <1>h, <1>x, <1>p, <1>s, <1>MM, <1>OK, <1>FK, <1>18 DEF SetProcessed,
       HeapTypes, ExecTypes, PcType, ScanAgrees, OldKept, FollowedKept, Scanning
  <2>5. SeenKept'
    BY <1>ST, <1>t, <1>x, <1>p, <1>b, <1>o, <1>SN, <1>18 DEF SetProcessed, BitTypes,
       ExecTypes, PcType, BatchAgrees, OneOwner, SeenKept, Due, Scanning
  <2>6. MarksKept'
    <3>1. \A p \in Pages : \A o \in MarksOf(p)' : o \in MarksOf(p)
      BY <1>t, <1>x, <1>18 DEF SetProcessed, MarksOf, BitTypes, Bits, ExecTypes
    <3>2. \A o : InScan(o) => InScan(o)' \/ o \in followed'
      BY <1>x, <1>s, <2>0, <1>18, InScanSame DEF SetProcessed, InScan, ExecTypes,
         ScanAgrees
    <3>3. \A p \in Pages : Awaits(p) => Awaits(p)'
      BY <2>0, <1>18, AwaitsQuiet DEF SetProcessed
    <3>4. followed \subseteq followed'
      BY <1>18 DEF SetProcessed
    <3> QED
      BY <1>MK, <1>ST, <3>1, <3>2, <3>3, <3>4, MarksStay
  <2>7. TailAgrees'
    <3>1. UNCHANGED <<stage, toScan>>
      BY <1>18 DEF SetProcessed
    <3>2. \A f \in Executors : pc[f] \in Publishing => Hand(f)' = Hand(f)
      BY <1>x, <2>0, <1>18 DEF SetProcessed, Hand, ExecTypes, Publishing, Scanning
    <3>3. \A f \in Executors : pc[f] \in Publishing => pc'[f] \in Publishing
      BY <2>0, <1>18 DEF SetProcessed, Publishing, Scanning
    <3>4. Working => Working'
      BY <2>0, <3>1, <3>2, <3>3, WorkSame DEF Publishing, Scanning
    <3>5. head < tail => head' < tail' \/ Working'
      BY <1>r, <2>0, <1>18 DEF SetProcessed, RingTypes, Working
    <3>6. \A f \in Executors : pc'[f] \in Reading => pc'[f] = pc[f]
      BY <2>0, <1>18 DEF SetProcessed, Reading
    <3> QED
      BY <1>TA, <1>MM, <3>1, <3>4, <3>5, <3>6, TailStays
  <2> QED
    BY <2>1, <2>2, <2>3, <2>4, <2>5, <2>6, <2>7 DEF MarkInv
<1>19. ASSUME NEW e \in Executors, Drain(e)
      PROVE  MarkInv'
  <2>0. /\ pc[e] = "scan" /\ pc'[e] \in {"scan", "mark", "late"}
        /\ \A f \in Executors \ {e} : pc'[f] = pc[f]
    BY <1>p, <1>19 DEF Drain, ScanRead, PcType
  <2>1. /\ OldKept' /\ TargetKept' /\ RootsKept' /\ TodoAgrees'
    BY <1>OK, <1>TK, <1>RK, <1>TD, <1>19 DEF Drain, ScanRead, OldKept, TargetKept,
       RootsKept, TodoAgrees, Marked
  <2>2. RingAgrees' /\ PusherAgrees' /\ PumpAgrees'
    BY <1>RA, <1>PS, <1>PU, <1>x, <1>m, <2>0, <1>19, RingSame DEF Drain, ScanRead,
       ExecTypes, MutTypes
  <2>3. EpochAgrees'
    BY <1>h, <1>x, <1>p, <1>b, <1>s, <1>o, <1>EA, <1>19 DEF Drain, ScanRead,
       HeapTypes, ExecTypes, PcType, BatchAgrees, ScanAgrees, OneOwner, EpochAgrees,
       Claimed, Scanning
  <2>4. FollowedKept'
    <3>1. Marked' = Marked
      BY <1>19 DEF Drain, Marked
    <3>2. CASE followed' = followed
      <4>1. \A f \in Executors : pc[f] = "mark" => pc'[f] = "mark" /\ child'[f] = child[f]
        BY <1>x, <2>0, <1>19 DEF Drain, ScanRead, ExecTypes
      <4> QED
        BY <1>FK, <3>1, <3>2, <4>1 DEF FollowedKept
    <3>3. ASSUME NEW o \in worklist[e], ScanRead(e, o) PROVE FollowedKept'
      <4>1. o \in Snapshot /\ o \in Objects
        BY <1>so, SnapshotIn DEF ScansOnly
      <4>2. \A f \in Executors : pc[f] = "mark" => pc'[f] = "mark" /\ child'[f] = child[f]
        BY <1>x, <2>0, <3>3 DEF ScanRead, ExecTypes
      <4>3. field[o] \in Marked \cup {Null} \/ (pc'[e] = "mark" /\ child'[e] = field[o])
        BY <1>x, <1>p, <3>3 DEF ScanRead, ExecTypes, PcType
      <4>4. field[o] = Field0[o] \/ Field0[o] \in Marked \cup {Null}
        BY <1>OK, <4>1 DEF OldKept
      <4>5. followed' = followed \cup {o}
        BY <3>3 DEF ScanRead
      <4> QED
        BY <1>FK, <3>1, <4>2, <4>3, <4>4, <4>5 DEF FollowedKept
    <3> QED
      BY <3>2, <3>3, <1>19 DEF Drain
  <2>5. ScannedKept'
    BY <1>ST, <1>t, <1>x, <1>SK, <1>19 DEF Drain, ScanRead, BitTypes, ExecTypes,
       ScannedKept
  <2>6. SeenKept'
    BY <1>ST, <1>t, <1>x, <1>p, <1>b, <1>o, <1>SN, <1>19 DEF Drain, ScanRead,
       BitTypes, ExecTypes, PcType, BatchAgrees, OneOwner, SeenKept, Due, Scanning
  <2>7. MarksKept'
    <3>1. \A p \in Pages : \A o \in MarksOf(p)' : o \in MarksOf(p)
      BY <1>t, <1>x, <1>19 DEF Drain, ScanRead, MarksOf, BitTypes, Bits, ExecTypes
    <3>2. \A o : InScan(o) => InScan(o)' \/ o \in followed'
      BY <1>x, <1>s, <2>0, <1>19, InScanSame DEF Drain, ScanRead, InScan, ExecTypes,
         ScanAgrees
    <3>3. \A p \in Pages : Awaits(p) => Awaits(p)'
      BY <2>0, <1>19, AwaitsQuiet DEF Drain, ScanRead
    <3>4. followed \subseteq followed'
      BY <1>19 DEF Drain, ScanRead
    <3> QED
      BY <1>MK, <1>ST, <3>1, <3>2, <3>3, <3>4, MarksStay
  <2>8. TailAgrees'
    <3>1. UNCHANGED <<stage, toScan>>
      BY <1>19 DEF Drain, ScanRead
    <3>2. \A f \in Executors : pc[f] \in Publishing => Hand(f)' = Hand(f)
      BY <1>x, <2>0, <1>19 DEF Drain, ScanRead, Hand, ExecTypes, Publishing, Scanning
    <3>3. \A f \in Executors : pc[f] \in Publishing => pc'[f] \in Publishing
      BY <2>0, <1>19 DEF Drain, ScanRead, Publishing, Scanning
    <3>4. Working => Working'
      BY <2>0, <3>1, <3>2, <3>3, WorkSame DEF Publishing, Scanning
    <3>5. head < tail => head' < tail' \/ Working'
      BY <1>r, <2>0, <1>19 DEF Drain, ScanRead, RingTypes, Working
    <3>6. \A f \in Executors : pc'[f] \in Reading => pc'[f] = pc[f]
      BY <2>0, <1>19 DEF Drain, Reading
    <3> QED
      BY <1>TA, <1>MM, <3>1, <3>4, <3>5, <3>6, TailStays
  <2> QED
    BY <2>1, <2>2, <2>3, <2>4, <2>5, <2>6, <2>7, <2>8 DEF MarkInv
<1>20. ASSUME NEW e \in Executors, LateMerge(e)
      PROVE  MarkInv'
  <2>0. /\ pc[e] = "late" /\ pc'[e] \in {"merge", "publish"}
        /\ \A f \in Executors \ {e} : pc'[f] = pc[f]
    BY <1>p, <1>20 DEF LateMerge, PcType
  <2>1. /\ ScannedKept'
    BY <1>SK, <1>20 DEF LateMerge, ScannedKept
  <2>2. RingAgrees' /\ PusherAgrees' /\ PumpAgrees'
    BY <1>RA, <1>PS, <1>PU, <1>x, <1>m, <2>0, <1>20, RingSame DEF LateMerge,
       ExecTypes, MutTypes
  <2>3. EpochAgrees'
    BY <1>h, <1>x, <1>p, <1>b, <1>s, <1>o, <1>EA, <1>20 DEF LateMerge, HeapTypes,
       ExecTypes, PcType, BatchAgrees, ScanAgrees, OneOwner, EpochAgrees, Claimed,
       Scanning
  <2>4. OldKept'
    BY <1>h, <1>MM, <1>fo, <1>TK, <1>OK, <1>20, SnapshotIn DEF LateMerge, HeapTypes,
       FieldsOnly, TargetKept, OldKept
  <2>5. TargetKept'
    BY <1>h, <1>m, <1>mp, <1>MM, <1>OK, <1>TK, <1>to, <1>20 DEF LateMerge, HeapTypes,
       MutTypes, MpcType, OldKept, TargetsOnly, TargetKept
  <2>6. FollowedKept'
    BY <1>h, <1>x, <1>p, <1>s, <1>MM, <1>OK, <1>FK, <1>20 DEF LateMerge, HeapTypes,
       ExecTypes, PcType, ScanAgrees, OldKept, FollowedKept, Scanning
  <2>7. RootsKept'
    BY <1>MM, <1>RK, <1>20 DEF LateMerge, RootsKept
  <2>8. TodoAgrees'
    BY <1>t, <1>x, <1>p, <1>b, <1>s, <1>TD, <1>20 DEF LateMerge, BitTypes, ExecTypes,
       PcType, BatchAgrees, ScanAgrees, TodoAgrees, Bits, Scanning
  <2>9. SeenKept'
    BY <1>ST, <1>t, <1>x, <1>p, <1>b, <1>o, <1>SN, <1>20 DEF LateMerge, BitTypes,
       ExecTypes, PcType, BatchAgrees, OneOwner, SeenKept, Due, Scanning
  <2>10. MarksKept'
    <3>1. /\ cur[e] \in Pages
          /\ UNCHANGED <<stage, toScan, batch, taken, ring, mpc, target, followed, todo, worklist, child>>
          /\ seen' = [seen EXCEPT ![cur[e]] = @ \cup atomicSeen[cur[e]]]
          /\ atomicSeen' = [atomicSeen EXCEPT ![cur[e]] = {}]
          /\ pending' = [pending EXCEPT ![cur[e]] = FALSE]
          /\ cur' = [cur EXCEPT ![e] = Null]
          /\ atomicSeen[cur[e]] # {} \/ pending[cur[e]] => cur[e] \in requeue'[e]
          /\ \A f \in Executors : requeue[f] \subseteq requeue'[f] /\ finished[f] \subseteq finished'[f]
          /\ \A f \in Executors : pc[f] # "release" => pc'[f] # "release"
      BY <1>x, <1>b, <2>0, <1>20 DEF LateMerge, ExecTypes, BatchAgrees, Scanning
    <3>2. \A p \in Pages : MarksOf(p)' = MarksOf(p)
      BY <1>t, <3>1 DEF MarksOf, BitTypes, Bits
    <3>3. \A o : InScan(o) => InScan(o)'
      BY <2>0, <3>1 DEF InScan
    <3>4. ASSUME NEW p \in Pages, p # cur[e] \/ p \in requeue'[e], Awaits(p) PROVE Awaits(p)'
      <4>1. CASE p = cur[e]
        BY <3>4, <4>1 DEF Awaits, HandAwaits
      <4>2. CASE p # cur[e]
        <5>1. CASE p \in toScan \/ PushAwaits(p) \/ RingAwaits(p)
          BY <3>1, <5>1 DEF Awaits, PushAwaits, RingAwaits, TargetPage
        <5>2. CASE HandAwaits(p)
          <6>1. pending'[p] = pending[p]
            BY <1>h, <3>1, <4>2 DEF HeapTypes
          <6>2. \A f \in Executors : cur[f] = p => cur'[f] = p
            BY <1>x, <3>1, <4>2 DEF ExecTypes
          <6> QED
            BY <3>1, <5>2, <6>1, <6>2 DEF Awaits, HandAwaits
        <5> QED
          BY <3>4, <5>1, <5>2 DEF Awaits
      <4> QED
        BY <4>1, <4>2
    <3>5. ASSUME stage = "MARK_SWEEP", cur[e] \notin requeue'[e], NEW o \in MarksOf(cur[e])
          PROVE  o \in followed \/ InScan(o)
      <4>1. ~Due(cur[e])
        <5>1. cur[e] \in Claimed(e)
          BY <3>1 DEF Claimed
        <5>2. cur[e] \notin toScan /\ \A f \in Executors \ {e} : cur[e] \notin Claimed(f)
          BY <1>o, <3>1, <5>1 DEF OneOwner, Claimed
        <5>3. \A f \in Executors : batch[f] \cup requeue[f] \subseteq Claimed(f)
          BY <1>x, <1>b DEF Claimed, ExecTypes, BatchAgrees, Publishing, Scanning
        <5>4. \A f \in Executors \ {e} : cur[f] # cur[e]
          BY <3>1, <5>2 DEF Claimed
        <5>5. cur[e] \notin batch[e] \cup requeue[e]
          BY <1>x, <1>b DEF BatchAgrees, ExecTypes
        <5> QED
          BY <2>0, <5>2, <5>3, <5>4, <5>5 DEF Due
      <4>2. seen[cur[e]] \subseteq scanned[cur[e]]
        BY <1>SN, <3>1, <3>5, <4>1 DEF SeenKept
      <4>3. o \in seen[cur[e]]
        BY <3>1, <3>5 DEF MarksOf
      <4> QED
        BY <1>SK, <3>1, <3>5, <4>2, <4>3 DEF ScannedKept, InScan
    <3>6. SUFFICES ASSUME stage' = "MARK_SWEEP", NEW p \in Pages, NEW o \in MarksOf(p)'
          PROVE  o \in followed' \/ InScan(o)' \/ Awaits(p)'
      BY DEF MarksKept
    <3>7. o \in MarksOf(p) /\ stage = "MARK_SWEEP"
      BY <3>1, <3>2, <3>6
    <3>8. CASE p = cur[e] /\ p \notin requeue'[e]
      BY <3>1, <3>3, <3>5, <3>7, <3>8
    <3>9. CASE ~(p = cur[e] /\ p \notin requeue'[e])
      BY <1>MK, <3>1, <3>3, <3>4, <3>7, <3>9 DEF MarksKept
    <3> QED
      BY <3>8, <3>9
  <2>11. TailAgrees'
    <3>1. UNCHANGED <<stage, toScan>>
      BY <1>20 DEF LateMerge
    <3>2. \A f \in Executors : pc[f] \in Publishing => Hand(f)' = Hand(f)
      <4>1. ASSUME NEW f \in Executors \ {e} PROVE Hand(f)' = Hand(f)
        BY <1>x, <1>20 DEF LateMerge, Hand, ExecTypes
      <4>2. Hand(e)' = Hand(e)
        BY <1>x, <1>b, <1>20 DEF LateMerge, Hand, ExecTypes, BatchAgrees, Scanning
      <4> QED
        BY <4>1, <4>2
    <3>3. \A f \in Executors : pc[f] \in Publishing => pc'[f] \in Publishing
      BY <2>0, <1>20 DEF LateMerge, Publishing, Scanning
    <3>4. Working => Working'
      BY <2>0, <3>1, <3>2, <3>3, WorkSame DEF Publishing, Scanning
    <3>5. head < tail => head' < tail' \/ Working'
      BY <1>r, <2>0, <1>20 DEF LateMerge, RingTypes, Working
    <3>6. \A f \in Executors : pc'[f] \in Reading => pc'[f] = pc[f]
      BY <2>0, <1>20 DEF LateMerge, Reading
    <3> QED
      BY <1>TA, <1>MM, <3>1, <3>4, <3>5, <3>6, TailStays
  <2> QED
    BY <2>1, <2>2, <2>3, <2>4, <2>5, <2>6, <2>7, <2>8, <2>9, <2>10, <2>11 DEF MarkInv
<1>21. ASSUME NEW e \in Executors, Publish(e)
      PROVE  MarkInv'
  <2>0. /\ pc[e] = "publish" /\ pc'[e] = "release"
        /\ \A f \in Executors \ {e} : pc'[f] = pc[f]
    BY <1>p, <1>21 DEF Publish, PcType
  <2>1. /\ OldKept' /\ TargetKept' /\ RootsKept' /\ TodoAgrees' /\ ScannedKept'
    BY <1>OK, <1>TK, <1>RK, <1>TD, <1>SK, <1>21 DEF Publish, OldKept, TargetKept,
       RootsKept, TodoAgrees, ScannedKept, Marked
  <2>2. RingAgrees' /\ PusherAgrees' /\ PumpAgrees'
    BY <1>RA, <1>PS, <1>PU, <1>x, <1>m, <2>0, <1>21, RingSame DEF Publish, ExecTypes,
       MutTypes
  <2>3. EpochAgrees'
    BY <1>h, <1>x, <1>p, <1>b, <1>s, <1>o, <1>EA, <1>21 DEF Publish, HeapTypes,
       ExecTypes, PcType, BatchAgrees, ScanAgrees, OneOwner, EpochAgrees, Claimed,
       Scanning
  <2>4. FollowedKept'
    BY <1>h, <1>x, <1>p, <1>s, <1>MM, <1>OK, <1>FK, <1>21 DEF Publish, HeapTypes,
       ExecTypes, PcType, ScanAgrees, OldKept, FollowedKept, Scanning
  <2>5. SeenKept'
    BY <1>ST, <1>t, <1>x, <1>p, <1>b, <1>o, <1>SN, <1>21 DEF Publish, BitTypes,
       ExecTypes, PcType, BatchAgrees, OneOwner, SeenKept, Due, Scanning
  <2>6. MarksKept'
    <3>1. \A p \in Pages : \A o \in MarksOf(p)' : o \in MarksOf(p)
      BY <1>t, <1>x, <1>21 DEF Publish, MarksOf, BitTypes, Bits, ExecTypes
    <3>2. \A o : InScan(o) => InScan(o)' \/ o \in followed'
      BY <1>x, <1>s, <2>0, <1>21, InScanSame DEF Publish, InScan, ExecTypes, ScanAgrees
    <3>3. ASSUME NEW p \in Pages PROVE Awaits(p) => Awaits(p)'
      <4>1. ASSUME p \in toScan \/ HandAwaits(p) PROVE p \in toScan' \/ HandAwaits(p)'
        BY <1>x, <1>h, <2>0, <4>1, <1>21 DEF Publish, HandAwaits, ExecTypes, HeapTypes
      <4>2. UNCHANGED <<ring, mpc, target>>
        BY <1>21 DEF Publish
      <4> QED
        BY <4>1, <4>2, AwaitsExec
    <3>4. followed \subseteq followed'
      BY <1>21 DEF Publish
    <3> QED
      BY <1>MK, <1>ST, <3>1, <3>2, <3>3, <3>4, MarksStay
  <2>7. TailAgrees'
    <3>1. UNCHANGED stage /\ lock = Null
      BY <1>21 DEF Publish
    <3>2. \A f \in Executors : pc[f] \notin Checking
      BY <1>l, <3>1 DEF LockAgrees
    <3>3. \A f \in Executors : pc'[f] \notin Reading
      BY <2>0, <3>2 DEF Checking, Reading
    <3> QED
      BY <1>TA, <1>MM, <3>1, <3>3, TailElsewhere
  <2> QED
    BY <2>1, <2>2, <2>3, <2>4, <2>5, <2>6, <2>7 DEF MarkInv
<1>22. ASSUME NEW e \in Executors, Release(e)
      PROVE  MarkInv'
  <2>0. /\ pc[e] = "release" /\ pc'[e] \in {"claim", "pump"}
        /\ \A f \in Executors \ {e} : pc'[f] = pc[f]
    BY <1>p, <1>22 DEF Release, PcType
  <2>1. /\ OldKept' /\ TargetKept' /\ RootsKept' /\ TodoAgrees' /\ ScannedKept'
    BY <1>OK, <1>TK, <1>RK, <1>TD, <1>SK, <1>22 DEF Release, OldKept, TargetKept,
       RootsKept, TodoAgrees, ScannedKept, Marked
  <2>2. RingAgrees' /\ PusherAgrees' /\ PumpAgrees'
    BY <1>RA, <1>PS, <1>PU, <1>x, <1>m, <2>0, <1>22, RingSame DEF Release, ExecTypes,
       MutTypes
  <2>3. EpochAgrees'
    BY <1>h, <1>x, <1>p, <1>b, <1>s, <1>o, <1>EA, <1>22 DEF Release, HeapTypes,
       ExecTypes, PcType, BatchAgrees, ScanAgrees, OneOwner, EpochAgrees, Claimed,
       Scanning
  <2>4. FollowedKept'
    BY <1>h, <1>x, <1>p, <1>s, <1>MM, <1>OK, <1>FK, <1>22 DEF Release, HeapTypes,
       ExecTypes, PcType, ScanAgrees, OldKept, FollowedKept, Scanning
  <2>5. SeenKept'
    BY <1>ST, <1>t, <1>x, <1>p, <1>b, <1>o, <1>SN, <1>22 DEF Release, BitTypes,
       ExecTypes, PcType, BatchAgrees, OneOwner, SeenKept, Due, Scanning
  <2>6. MarksKept'
    <3>1. \A p \in Pages : \A o \in MarksOf(p)' : o \in MarksOf(p)
      BY <1>t, <1>x, <1>22 DEF Release, MarksOf, BitTypes, Bits, ExecTypes
    <3>2. \A o : InScan(o) => InScan(o)' \/ o \in followed'
      BY <1>x, <1>s, <2>0, <1>22, InScanSame DEF Release, InScan, ExecTypes, ScanAgrees
    <3>3. ASSUME NEW p \in Pages PROVE Awaits(p) => Awaits(p)'
      <4>1. ASSUME p \in toScan \/ HandAwaits(p) PROVE p \in toScan' \/ HandAwaits(p)'
        BY <1>x, <1>h, <2>0, <4>1, <1>22 DEF Release, HandAwaits, ExecTypes, HeapTypes
      <4>2. UNCHANGED <<ring, mpc, target>>
        BY <1>22 DEF Release
      <4> QED
        BY <4>1, <4>2, AwaitsExec
    <3>4. followed \subseteq followed'
      BY <1>22 DEF Release
    <3> QED
      BY <1>MK, <1>ST, <3>1, <3>2, <3>3, <3>4, MarksStay
  <2>7. TailAgrees'
    <3>1. UNCHANGED <<stage, toScan>>
      BY <1>22 DEF Release
    <3>2. \A f \in Executors : pc[f] \in Publishing => Hand(f)' = Hand(f)
      BY <1>x, <2>0, <1>22 DEF Release, Hand, ExecTypes, Publishing, Scanning
    <3>3. \A f \in Executors : pc[f] \in Publishing => pc'[f] \in Publishing
      BY <2>0, <1>22 DEF Release, Publishing, Scanning
    <3>4. Working => Working'
      BY <2>0, <3>1, <3>2, <3>3, WorkSame DEF Publishing, Scanning
    <3>5. head < tail => head' < tail' \/ Working'
      BY <1>r, <2>0, <1>22 DEF Release, RingTypes, Working
    <3>6. \A f \in Executors : pc'[f] \in Reading => pc'[f] = pc[f]
      BY <2>0, <1>22 DEF Release, Reading
    <3> QED
      BY <1>TA, <1>MM, <3>1, <3>4, <3>5, <3>6, TailStays
  <2> QED
    BY <2>1, <2>2, <2>3, <2>4, <2>5, <2>6, <2>7 DEF MarkInv
<1>23. ASSUME NEW e \in Executors, PumpRead(e)
      PROVE  MarkInv'
  <2>0. /\ pc[e] = "pump" /\ pc'[e] \in {"busy", "empty", "claimentry"}
        /\ \A f \in Executors \ {e} : pc'[f] = pc[f]
    BY <1>p, <1>23 DEF PumpRead, PcType
  <2>r. /\ UNCHANGED <<ring, head, tail, mpc, mtail>>
        /\ \A f \in Executors \ {e} : slot'[f] = slot[f]
        /\ pc'[e] = "claimentry" => slot'[e] < tail
    BY <1>x, <1>p, <1>r, <2>0, <1>23 DEF PumpRead, ExecTypes, PcType, RingTypes
  <2>1. /\ OldKept' /\ TargetKept' /\ RootsKept' /\ TodoAgrees' /\ ScannedKept'
    BY <1>OK, <1>TK, <1>RK, <1>TD, <1>SK, <1>23 DEF PumpRead, OldKept, TargetKept,
       RootsKept, TodoAgrees, ScannedKept, Marked
  <2>2. RingAgrees'
    BY <1>RA, <1>PS, <1>PU, <1>U, <1>r, <2>0, <2>r
    DEF RingTypes, RingAgrees, PusherAgrees, PumpAgrees
  <2>3. PusherAgrees'
    BY <1>RA, <1>PS, <1>PU, <1>U, <1>r, <2>0, <2>r
    DEF RingTypes, PusherAgrees, RingAgrees, PumpAgrees
  <2>4. PumpAgrees'
    BY <1>RA, <1>PS, <1>PU, <1>U, <1>r, <2>0, <2>r
    DEF RingTypes, PumpAgrees, RingAgrees, PusherAgrees
  <2>5. EpochAgrees'
    BY <1>h, <1>x, <1>p, <1>b, <1>s, <1>o, <1>EA, <1>23 DEF PumpRead, HeapTypes,
       ExecTypes, PcType, BatchAgrees, ScanAgrees, OneOwner, EpochAgrees, Claimed,
       Scanning
  <2>6. FollowedKept'
    BY <1>h, <1>x, <1>p, <1>s, <1>MM, <1>OK, <1>FK, <1>23 DEF PumpRead, HeapTypes,
       ExecTypes, PcType, ScanAgrees, OldKept, FollowedKept, Scanning
  <2>7. SeenKept'
    BY <1>ST, <1>t, <1>x, <1>p, <1>b, <1>o, <1>SN, <1>23 DEF PumpRead, BitTypes,
       ExecTypes, PcType, BatchAgrees, OneOwner, SeenKept, Due, Scanning
  <2>8. MarksKept'
    <3>1. \A p \in Pages : \A o \in MarksOf(p)' : o \in MarksOf(p)
      BY <1>t, <1>x, <1>23 DEF PumpRead, MarksOf, BitTypes, Bits, ExecTypes
    <3>2. \A o : InScan(o) => InScan(o)' \/ o \in followed'
      BY <1>x, <1>s, <2>0, <1>23, InScanSame DEF PumpRead, InScan, ExecTypes, ScanAgrees
    <3>3. \A p \in Pages : Awaits(p) => Awaits(p)'
      BY <2>0, <1>23, AwaitsQuiet DEF PumpRead
    <3>4. followed \subseteq followed'
      BY <1>23 DEF PumpRead
    <3> QED
      BY <1>MK, <1>ST, <3>1, <3>2, <3>3, <3>4, MarksStay
  <2>9. TailAgrees'
    <3>1. UNCHANGED <<stage, toScan>>
      BY <1>23 DEF PumpRead
    <3>2. \A f \in Executors : pc[f] \in Publishing => Hand(f)' = Hand(f)
      BY <1>x, <2>0, <1>23 DEF PumpRead, Hand, ExecTypes, Publishing, Scanning
    <3>3. \A f \in Executors : pc[f] \in Publishing => pc'[f] \in Publishing
      BY <2>0, <1>23 DEF PumpRead, Publishing, Scanning
    <3>4. Working => Working'
      BY <2>0, <3>1, <3>2, <3>3, WorkSame DEF Publishing, Scanning
    <3>5. head < tail => head' < tail' \/ Working'
      BY <1>r, <2>0, <1>23 DEF PumpRead, RingTypes, Working
    <3>6. \A f \in Executors : pc'[f] \in Reading => pc'[f] = pc[f]
      BY <2>0, <1>23 DEF PumpRead, Reading
    <3> QED
      BY <1>TA, <1>MM, <3>1, <3>4, <3>5, <3>6, TailStays
  <2> QED
    BY <2>1, <2>2, <2>3, <2>4, <2>5, <2>6, <2>7, <2>8, <2>9 DEF MarkInv
<1>24. ASSUME NEW e \in Executors, PumpCas(e)
      PROVE  MarkInv'
  <2>0. /\ pc[e] = "claimentry" /\ pc'[e] \in {"take", "pump"}
        /\ \A f \in Executors \ {e} : pc'[f] = pc[f]
    BY <1>p, <1>24 DEF PumpCas, PcType
  <2>r. /\ UNCHANGED <<ring, tail, mpc, mtail, slot>> /\ tail \in Nat
        /\ head \in Nat
        /\ \/ pc'[e] = "take" /\ slot[e] = head /\ head' = head + 1 /\ head < tail
           \/ pc'[e] = "pump" /\ head' = head
    BY <1>PU, <1>p, <1>r, <2>0, <1>24 DEF PumpCas, PcType, RingTypes, PumpAgrees
  <2>1. /\ OldKept' /\ TargetKept' /\ RootsKept' /\ TodoAgrees' /\ ScannedKept'
    BY <1>OK, <1>TK, <1>RK, <1>TD, <1>SK, <1>24 DEF PumpCas, OldKept, TargetKept,
       RootsKept, TodoAgrees, ScannedKept, Marked
  <2>2. RingAgrees'
    BY <1>RA, <1>PS, <1>PU, <1>U, <1>r, <2>0, <2>r
    DEF RingTypes, RingAgrees, PusherAgrees, PumpAgrees
  <2>3. PusherAgrees'
    <3>1. CASE pc'[e] = "pump"
      BY <1>PS, <2>0, <2>r, <3>1 DEF PusherAgrees
    <3>2. CASE pc'[e] = "take"
      <4>1. slot'[e] = head /\ head' = head + 1
        BY <2>r, <3>2
      <4>2. ASSUME NEW n \in Mutators, mpc'[n] = "entry", mtail'[n] < head'
            PROVE  \E f \in Executors : pc'[f] = "take" /\ slot'[f] = mtail'[n]
        <5>1. CASE mtail[n] = head
          BY <2>r, <3>2, <4>1, <5>1
        <5>2. CASE mtail[n] # head
          <6>0. mtail'[n] = mtail[n] /\ mtail[n] \in Nat /\ head \in Nat
            BY <1>m, <2>r DEF MutTypes
          <6>1. mtail[n] < head
            BY <4>1, <4>2, <5>2, <6>0
          <6>2. PICK f \in Executors : pc[f] = "take" /\ slot[f] = mtail[n]
            BY <1>PS, <2>r, <4>2, <6>1 DEF PusherAgrees
          <6> QED
            BY <2>0, <2>r, <6>2
        <5> QED
          BY <5>1, <5>2
      <4> QED
        BY <1>PS, <2>r, <4>2 DEF PusherAgrees
    <3> QED
      BY <2>r, <3>1, <3>2
  <2>4. PumpAgrees'
    <3>1. CASE pc'[e] = "pump"
      BY <1>PU, <2>0, <2>r, <3>1 DEF PumpAgrees
    <3>2. CASE pc'[e] = "take"
      <4>1. slot'[e] = head /\ head' = head + 1 /\ head < tail /\ head \in 0 .. RingSize - 1
        BY <1>U, <2>r, <3>2
      <4>2. \A f \in Executors \ {e} : pc[f] = "take" => slot[f] < head
        BY <1>PU DEF PumpAgrees
      <4>3. \A f \in Executors : slot[f] \in Nat
        BY <1>x DEF ExecTypes
      <4>4. ring[head] # Null \/ \E m \in Mutators : mpc[m] = "entry" /\ mtail[m] = head
        BY <1>RA, <2>r, <4>1 DEF RingAgrees
      <4>5. ASSUME NEW f \in Executors, pc'[f] = "take"
            PROVE  /\ slot'[f] < head'
                   /\ ring'[slot'[f]] # Null
                      \/ \E m \in Mutators : mpc'[m] = "entry" /\ mtail'[m] = slot'[f]
        <5>1. CASE f = e
          BY <2>r, <4>1, <4>4, <5>1
        <5>2. CASE f # e
          BY <1>PU, <2>0, <2>r, <4>1, <4>2, <4>3, <4>5, <5>2 DEF PumpAgrees
        <5> QED
          BY <5>1, <5>2
      <4>6. ASSUME NEW f \in Executors, NEW g \in Executors, pc'[f] = "take", pc'[g] = "take",
                   slot'[f] = slot'[g]
            PROVE  f = g
        BY <1>PU, <2>0, <2>r, <4>1, <4>2, <4>3, <4>6 DEF PumpAgrees
      <4>7. \A f \in Executors : pc'[f] = "claimentry" => slot'[f] < tail'
        BY <1>PU, <2>0, <2>r, <3>2 DEF PumpAgrees
      <4> QED
        BY <4>5, <4>6, <4>7 DEF PumpAgrees
    <3> QED
      BY <2>r, <3>1, <3>2
  <2>5. EpochAgrees'
    BY <1>h, <1>x, <1>p, <1>b, <1>s, <1>o, <1>EA, <1>24 DEF PumpCas, HeapTypes,
       ExecTypes, PcType, BatchAgrees, ScanAgrees, OneOwner, EpochAgrees, Claimed,
       Scanning
  <2>6. FollowedKept'
    BY <1>h, <1>x, <1>p, <1>s, <1>MM, <1>OK, <1>FK, <1>24 DEF PumpCas, HeapTypes,
       ExecTypes, PcType, ScanAgrees, OldKept, FollowedKept, Scanning
  <2>7. SeenKept'
    BY <1>ST, <1>t, <1>x, <1>p, <1>b, <1>o, <1>SN, <1>24 DEF PumpCas, BitTypes,
       ExecTypes, PcType, BatchAgrees, OneOwner, SeenKept, Due, Scanning
  <2>8. MarksKept'
    <3>1. \A p \in Pages : \A o \in MarksOf(p)' : o \in MarksOf(p)
      BY <1>t, <1>x, <1>24 DEF PumpCas, MarksOf, BitTypes, Bits, ExecTypes
    <3>2. \A o : InScan(o) => InScan(o)' \/ o \in followed'
      BY <1>x, <1>s, <2>0, <1>24, InScanSame DEF PumpCas, InScan, ExecTypes, ScanAgrees
    <3>3. \A p \in Pages : Awaits(p) => Awaits(p)'
      BY <2>0, <1>24, AwaitsQuiet DEF PumpCas
    <3>4. followed \subseteq followed'
      BY <1>24 DEF PumpCas
    <3> QED
      BY <1>MK, <1>ST, <3>1, <3>2, <3>3, <3>4, MarksStay
  <2>9. TailAgrees'
    <3>1. UNCHANGED <<stage, toScan>>
      BY <1>24 DEF PumpCas
    <3>2. \A f \in Executors : pc[f] \in Publishing => Hand(f)' = Hand(f)
      BY <1>x, <2>0, <1>24 DEF PumpCas, Hand, ExecTypes, Publishing, Scanning
    <3>3. \A f \in Executors : pc[f] \in Publishing => pc'[f] \in Publishing
      BY <2>0, <1>24 DEF PumpCas, Publishing, Scanning
    <3>4. Working => Working'
      BY <2>0, <3>1, <3>2, <3>3, WorkSame DEF Publishing, Scanning
    <3>5. head < tail => head' < tail' \/ Working'
      BY <2>r DEF Working
    <3>6. \A f \in Executors : pc'[f] \in Reading => pc'[f] = pc[f]
      BY <2>0, <1>24 DEF PumpCas, Reading
    <3> QED
      BY <1>TA, <1>MM, <3>1, <3>4, <3>5, <3>6, TailStays
  <2> QED
    BY <2>1, <2>2, <2>3, <2>4, <2>5, <2>6, <2>7, <2>8, <2>9 DEF MarkInv
<1>25. ASSUME NEW e \in Executors, PumpTake(e)
      PROVE  MarkInv'
  <2>0. /\ pc[e] = "take" /\ pc'[e] = "needs"
        /\ \A f \in Executors \ {e} : pc'[f] = pc[f]
    BY <1>p, <1>25 DEF PumpTake, PcType
  <2>q. /\ slot[e] \in Nat /\ slot[e] < head /\ head <= tail /\ tail <= RingSize
        /\ head \in Nat /\ tail \in Nat
    BY <1>U, <1>PU, <1>RA, <1>x, <1>r, <2>0 DEF PumpAgrees, RingAgrees, ExecTypes,
       RingTypes
  <2>s. slot[e] % RingSize = slot[e] /\ slot[e] \in 0 .. RingSize - 1
    BY <2>q, ModSmall, SizeAssumption
  <2>r. /\ ring' = [ring EXCEPT ![slot[e]] = Null]
        /\ taken' = [taken EXCEPT ![e] = ring[slot[e]]]
        /\ slot[e] \in 0 .. RingSize - 1 /\ slot[e] < head /\ ring[slot[e]] # Null
        /\ UNCHANGED <<head, tail, mpc, mtail, slot>>
    BY <2>q, <2>s, <1>25 DEF PumpTake
  <2>1. /\ OldKept' /\ TargetKept' /\ RootsKept' /\ TodoAgrees' /\ ScannedKept'
    BY <1>OK, <1>TK, <1>RK, <1>TD, <1>SK, <1>25 DEF PumpTake, OldKept, TargetKept,
       RootsKept, TodoAgrees, ScannedKept, Marked
  <2>2. RingAgrees'
    <3>1. \A i \in 0 .. RingSize - 1 : ring'[i] = IF i = slot[e] THEN Null ELSE ring[i]
      BY <1>r, <2>r DEF RingTypes
    <3>2. ASSUME NEW i \in 0 .. RingSize - 1, ring'[i] # Null
          PROVE  /\ i < tail'
                 /\ i < head' => \E f \in Executors : pc'[f] = "take" /\ slot'[f] = i
      <4>1. i # slot[e] /\ ring[i] # Null
        BY <3>1, <3>2
      <4> QED
        BY <1>RA, <2>0, <2>r, <4>1 DEF RingAgrees
    <3>3. ASSUME NEW i \in 0 .. RingSize - 1, head' <= i, i < tail'
          PROVE  ring'[i] # Null \/ \E n \in Mutators : mpc'[n] = "entry" /\ mtail'[n] = i
      <4>1. i # slot[e] /\ head <= i /\ i < tail
        BY <2>q, <2>r, <3>3
      <4> QED
        BY <1>RA, <2>r, <3>1, <4>1 DEF RingAgrees
    <3> QED
      BY <1>RA, <2>r, <3>2, <3>3 DEF RingAgrees
  <2>3. PusherAgrees'
    BY <1>RA, <1>PS, <1>PU, <1>U, <1>r, <2>0, <2>r
    DEF RingTypes, PusherAgrees, RingAgrees, PumpAgrees
  <2>4. PumpAgrees'
    <3>1. \A i \in 0 .. RingSize - 1 : ring'[i] = IF i = slot[e] THEN Null ELSE ring[i]
      BY <1>r, <2>r DEF RingTypes
    <3>2. \A f \in Executors : pc'[f] = "take" =>
            f # e /\ pc[f] = "take" /\ slot[f] \in 0 .. RingSize - 1 /\ slot[f] # slot[e]
      <4>1. ASSUME NEW f \in Executors, pc'[f] = "take" PROVE f # e /\ pc[f] = "take"
        BY <2>0, <4>1
      <4>2. ASSUME NEW f \in Executors, pc'[f] = "take" PROVE slot[f] \in Nat /\ slot[f] < head
        BY <1>x, <1>PU, <4>1, <4>2 DEF ExecTypes, PumpAgrees
      <4> QED
        BY <1>PU, <2>0, <2>q, <4>1, <4>2, SizeAssumption DEF PumpAgrees
    <3>3. \A f \in Executors : pc'[f] = "claimentry" => pc[f] = "claimentry"
      BY <2>0
    <3> QED
      BY <1>PU, <2>r, <3>1, <3>2, <3>3 DEF PumpAgrees
  <2>5. EpochAgrees'
    BY <1>h, <1>x, <1>p, <1>b, <1>s, <1>o, <1>EA, <1>25 DEF PumpTake, HeapTypes,
       ExecTypes, PcType, BatchAgrees, ScanAgrees, OneOwner, EpochAgrees, Claimed,
       Scanning
  <2>6. FollowedKept'
    BY <1>h, <1>x, <1>p, <1>s, <1>MM, <1>OK, <1>FK, <1>25 DEF PumpTake, HeapTypes,
       ExecTypes, PcType, ScanAgrees, OldKept, FollowedKept, Scanning
  <2>7. SeenKept'
    BY <1>ST, <1>t, <1>x, <1>p, <1>b, <1>o, <1>SN, <1>25 DEF PumpTake, BitTypes,
       ExecTypes, PcType, BatchAgrees, OneOwner, SeenKept, Due, Scanning
  <2>8. MarksKept'
    <3>1. \A p \in Pages : \A o \in MarksOf(p)' : o \in MarksOf(p)
      BY <1>t, <1>x, <1>25 DEF PumpTake, MarksOf, BitTypes, Bits, ExecTypes
    <3>2. \A o : InScan(o) => InScan(o)' \/ o \in followed'
      BY <1>x, <1>s, <2>0, <1>25, InScanSame DEF PumpTake, InScan, ExecTypes, ScanAgrees
    <3>3. ASSUME NEW p \in Pages, Awaits(p) PROVE Awaits(p)'
      <4>0. taken[e] = Null /\ UNCHANGED <<toScan, batch, cur, requeue, finished, pending, mpc, target>>
        BY <1>s, <2>0, <1>25 DEF PumpTake, ScanAgrees
      <4>1. CASE p \in toScan \/ PushAwaits(p)
        BY <4>0, <4>1 DEF Awaits, PushAwaits, TargetPage
      <4>2. CASE HandAwaits(p)
        <5>1. PICK f \in Executors :
                \/ p \in batch[f] \cup {cur[f]} \cup requeue[f]
                \/ pc[f] # "release" /\ p \in finished[f] /\ pending[p]
                \/ taken[f] = p
          BY <4>2 DEF HandAwaits
        <5>2. taken[f] = p => taken'[f] = p
          BY <1>x, <2>r, <4>0 DEF ExecTypes
        <5>3. pc[f] # "release" => pc'[f] # "release"
          BY <2>0
        <5> QED
          BY <4>0, <5>1, <5>2, <5>3 DEF Awaits, HandAwaits
      <4>3. CASE RingAwaits(p)
        <5>1. PICK i \in 0 .. RingSize - 1 : ring[i] = p
          BY <4>3 DEF RingAwaits
        <5>2. CASE i = slot[e]
          BY <1>x, <2>r, <5>1, <5>2 DEF ExecTypes, Awaits, HandAwaits
        <5>3. CASE i # slot[e]
          BY <1>r, <2>r, <5>1, <5>3 DEF RingTypes, Awaits, RingAwaits
        <5> QED
          BY <5>2, <5>3
      <4> QED
        BY <3>3, <4>1, <4>2, <4>3 DEF Awaits
    <3>4. followed \subseteq followed'
      BY <1>25 DEF PumpTake
    <3> QED
      BY <1>MK, <1>ST, <3>1, <3>2, <3>3, <3>4, MarksStay
  <2>9. TailAgrees'
    <3>1. UNCHANGED <<stage, toScan>>
      BY <1>25 DEF PumpTake
    <3>2. \A f \in Executors : pc[f] \in Publishing => Hand(f)' = Hand(f)
      BY <1>x, <2>0, <1>25 DEF PumpTake, Hand, ExecTypes, Publishing, Scanning
    <3>3. \A f \in Executors : pc[f] \in Publishing => pc'[f] \in Publishing
      BY <2>0, <1>25 DEF PumpTake, Publishing, Scanning
    <3>4. Working => Working'
      BY <2>0, <3>1, <3>2, <3>3, WorkSame DEF Publishing, Scanning
    <3>5. head < tail => head' < tail' \/ Working'
      BY <1>r, <2>0, <1>25 DEF PumpTake, RingTypes, Working
    <3>6. \A f \in Executors : pc'[f] \in Reading => pc'[f] = pc[f]
      BY <2>0, <1>25 DEF PumpTake, Reading
    <3> QED
      BY <1>TA, <1>MM, <3>1, <3>4, <3>5, <3>6, TailStays
  <2> QED
    BY <2>1, <2>2, <2>3, <2>4, <2>5, <2>6, <2>7, <2>8, <2>9 DEF MarkInv
<1>26. ASSUME NEW e \in Executors, PageNeedsScan(e)
      PROVE  MarkInv'
  <2>0. /\ pc[e] = "needs" /\ pc'[e] = "landed"
        /\ \A f \in Executors \ {e} : pc'[f] = pc[f]
    BY <1>p, <1>26 DEF PageNeedsScan, PcType
  <2>1. /\ OldKept' /\ TargetKept' /\ RootsKept' /\ TodoAgrees' /\ ScannedKept'
    BY <1>OK, <1>TK, <1>RK, <1>TD, <1>SK, <1>26 DEF PageNeedsScan, OldKept,
       TargetKept, RootsKept, TodoAgrees, ScannedKept, Marked
  <2>2. RingAgrees' /\ PusherAgrees' /\ PumpAgrees'
    BY <1>RA, <1>PS, <1>PU, <1>x, <1>m, <2>0, <1>26, RingSame DEF PageNeedsScan,
       ExecTypes, MutTypes
  <2>3. EpochAgrees'
    BY <1>h, <1>x, <1>p, <1>b, <1>s, <1>o, <1>EA, <1>26 DEF PageNeedsScan, HeapTypes,
       ExecTypes, PcType, BatchAgrees, ScanAgrees, OneOwner, EpochAgrees, Claimed,
       Scanning
  <2>4. FollowedKept'
    BY <1>h, <1>x, <1>p, <1>s, <1>MM, <1>OK, <1>FK, <1>26 DEF PageNeedsScan,
       HeapTypes, ExecTypes, PcType, ScanAgrees, OldKept, FollowedKept, Scanning
  <2>5. SeenKept'
    BY <1>ST, <1>t, <1>x, <1>p, <1>b, <1>o, <1>SN, <1>26 DEF PageNeedsScan, BitTypes,
       ExecTypes, PcType, BatchAgrees, OneOwner, SeenKept, Due, Scanning
  <2>6. MarksKept'
    <3>1.
          /\ UNCHANGED <<stage, batch, cur, finished, requeue, followed, seen, atomicSeen, ring, mpc, target>>
          /\ UNCHANGED <<todo, worklist, child>>
          /\ toScan \subseteq toScan' /\ \A p \in Pages : pending[p] => pending'[p]
          /\ taken[e] \in Pages /\ \A f \in Executors \ {e} : taken'[f] = taken[f]
          /\ \A f \in Executors : pc[f] # "release" => pc'[f] # "release"
      <4>1. UNCHANGED <<stage, batch, cur, finished, requeue, followed, seen, atomicSeen, ring, mpc, target,
                        todo, worklist, child>>
        BY <1>26 DEF PageNeedsScan
      <4>2. toScan \subseteq toScan' /\ \A p \in Pages : pending[p] => pending'[p]
        BY <1>h, <1>26 DEF PageNeedsScan, HeapTypes
      <4>3. taken[e] \in Pages /\ \A f \in Executors \ {e} : taken'[f] = taken[f]
        BY <1>x, <1>s, <2>0, <1>26 DEF PageNeedsScan, ExecTypes, ScanAgrees
      <4> QED
        BY <2>0, <4>1, <4>2, <4>3
    <3>2. \A p \in Pages : MarksOf(p)' = MarksOf(p)
      BY <3>1 DEF MarksOf
    <3>3. \A o : InScan(o) => InScan(o)'
      BY <2>0, <3>1 DEF InScan
    <3>4. stage = "MARK_SWEEP" => taken[e] \in toScan' \/ pending'[taken[e]]
      BY <1>h, <3>1, <1>26 DEF PageNeedsScan, HeapTypes
    <3>5. stage = "MARK_SWEEP" => taken[e] \in toScan' \/ (\E f \in Executors : taken[e] \in Claimed(f))
      BY <1>o, <3>1, <1>26 DEF PageNeedsScan, OneOwner
    <3>6. ASSUME stage = "MARK_SWEEP", NEW p \in Pages, p = taken[e] PROVE Awaits(p)'
      <4>1. CASE taken[e] \in toScan'
        BY <3>6, <4>1 DEF Awaits
      <4>2. CASE taken[e] \notin toScan'
        <5>1. PICK f \in Executors : taken[e] \in Claimed(f)
          BY <3>5, <3>6, <4>2
        <5>2. CASE taken[e] \in batch[f] \cup {cur[f]}
          BY <3>1, <3>6, <5>2 DEF Awaits, HandAwaits
        <5>3. CASE pc[f] # "release" /\ taken[e] \in finished[f]
          BY <3>1, <3>4, <3>6, <4>2, <5>3 DEF Awaits, HandAwaits
        <5> QED
          BY <5>1, <5>2, <5>3 DEF Claimed
      <4> QED
        BY <4>1, <4>2
    <3>7. ASSUME stage = "MARK_SWEEP", NEW p \in Pages, Awaits(p) PROVE Awaits(p)'
      <4>1. CASE p = taken[e]
        BY <3>6, <3>7, <4>1
      <4>2. CASE p # taken[e] /\ (p \in toScan \/ PushAwaits(p) \/ RingAwaits(p))
        BY <3>1, <4>2 DEF Awaits, PushAwaits, RingAwaits, TargetPage
      <4>3. CASE p # taken[e] /\ HandAwaits(p)
        BY <3>1, <4>3 DEF Awaits, HandAwaits
      <4> QED
        BY <3>7, <4>1, <4>2, <4>3 DEF Awaits
    <3> QED
      BY <1>MK, <3>1, <3>2, <3>3, <3>7 DEF MarksKept
  <2>7. TailAgrees'
    <3>1. UNCHANGED stage /\ lock = Null
      BY <1>26 DEF PageNeedsScan
    <3>2. \A f \in Executors : pc[f] \notin Checking
      BY <1>l, <3>1 DEF LockAgrees
    <3>3. \A f \in Executors : pc'[f] \notin Reading
      BY <2>0, <3>2 DEF Checking, Reading
    <3> QED
      BY <1>TA, <1>MM, <3>1, <3>3, TailElsewhere
  <2> QED
    BY <2>1, <2>2, <2>3, <2>4, <2>5, <2>6, <2>7 DEF MarkInv
<1>27. ASSUME NEW e \in Executors, PumpLanded(e)
      PROVE  MarkInv'
  <2>0. /\ pc[e] = "landed" /\ pc'[e] = "pump"
        /\ \A f \in Executors \ {e} : pc'[f] = pc[f]
    BY <1>p, <1>27 DEF PumpLanded, PcType
  <2>1. /\ OldKept' /\ TargetKept' /\ RootsKept' /\ TodoAgrees' /\ ScannedKept'
    BY <1>OK, <1>TK, <1>RK, <1>TD, <1>SK, <1>27 DEF PumpLanded, OldKept, TargetKept,
       RootsKept, TodoAgrees, ScannedKept, Marked
  <2>2. RingAgrees' /\ PusherAgrees' /\ PumpAgrees'
    BY <1>RA, <1>PS, <1>PU, <1>x, <1>m, <2>0, <1>27, RingSame DEF PumpLanded,
       ExecTypes, MutTypes
  <2>3. EpochAgrees'
    BY <1>h, <1>x, <1>p, <1>b, <1>s, <1>o, <1>EA, <1>27 DEF PumpLanded, HeapTypes,
       ExecTypes, PcType, BatchAgrees, ScanAgrees, OneOwner, EpochAgrees, Claimed,
       Scanning
  <2>4. FollowedKept'
    BY <1>h, <1>x, <1>p, <1>s, <1>MM, <1>OK, <1>FK, <1>27 DEF PumpLanded, HeapTypes,
       ExecTypes, PcType, ScanAgrees, OldKept, FollowedKept, Scanning
  <2>5. SeenKept'
    BY <1>ST, <1>t, <1>x, <1>p, <1>b, <1>o, <1>SN, <1>27 DEF PumpLanded, BitTypes,
       ExecTypes, PcType, BatchAgrees, OneOwner, SeenKept, Due, Scanning
  <2>6. MarksKept'
    <3>1. \A p \in Pages : \A o \in MarksOf(p)' : o \in MarksOf(p)
      BY <1>t, <1>x, <1>27 DEF PumpLanded, MarksOf, BitTypes, Bits, ExecTypes
    <3>2. \A o : InScan(o) => InScan(o)' \/ o \in followed'
      BY <1>x, <1>s, <2>0, <1>27, InScanSame DEF PumpLanded, InScan, ExecTypes,
         ScanAgrees
    <3>3. \A p \in Pages : Awaits(p) => Awaits(p)'
      BY <2>0, <1>27, AwaitsQuiet DEF PumpLanded
    <3>4. followed \subseteq followed'
      BY <1>27 DEF PumpLanded
    <3> QED
      BY <1>MK, <1>ST, <3>1, <3>2, <3>3, <3>4, MarksStay
  <2>7. TailAgrees'
    <3>1. UNCHANGED <<stage, toScan>>
      BY <1>27 DEF PumpLanded
    <3>2. \A f \in Executors : pc[f] \in Publishing => Hand(f)' = Hand(f)
      BY <1>x, <2>0, <1>27 DEF PumpLanded, Hand, ExecTypes, Publishing, Scanning
    <3>3. \A f \in Executors : pc[f] \in Publishing => pc'[f] \in Publishing
      BY <2>0, <1>27 DEF PumpLanded, Publishing, Scanning
    <3>4. Working => Working'
      BY <2>0, <3>1, <3>2, <3>3, WorkSame DEF Publishing, Scanning
    <3>5. head < tail => head' < tail' \/ Working'
      BY <1>r, <2>0, <1>27 DEF PumpLanded, RingTypes, Working
    <3>6. \A f \in Executors : pc'[f] \in Reading => pc'[f] = pc[f]
      BY <2>0, <1>27 DEF PumpLanded, Reading
    <3> QED
      BY <1>TA, <1>MM, <3>1, <3>4, <3>5, <3>6, TailStays
  <2> QED
    BY <2>1, <2>2, <2>3, <2>4, <2>5, <2>6, <2>7 DEF MarkInv
<1>28. ASSUME NEW e \in Executors, MaybeDone(e)
      PROVE  MarkInv'
  <2>0. /\ pc[e] = "empty" /\ pc'[e] \in {"try", "idle"}
        /\ \A f \in Executors \ {e} : pc'[f] = pc[f]
    BY <1>p, <1>28 DEF MaybeDone, PcType
  <2>1. /\ OldKept' /\ TargetKept' /\ RootsKept' /\ TodoAgrees' /\ ScannedKept'
    BY <1>OK, <1>TK, <1>RK, <1>TD, <1>SK, <1>28 DEF MaybeDone, OldKept, TargetKept,
       RootsKept, TodoAgrees, ScannedKept, Marked
  <2>2. RingAgrees' /\ PusherAgrees' /\ PumpAgrees'
    BY <1>RA, <1>PS, <1>PU, <1>x, <1>m, <2>0, <1>28, RingSame DEF MaybeDone,
       ExecTypes, MutTypes
  <2>3. EpochAgrees'
    BY <1>h, <1>x, <1>p, <1>b, <1>s, <1>o, <1>EA, <1>28 DEF MaybeDone, HeapTypes,
       ExecTypes, PcType, BatchAgrees, ScanAgrees, OneOwner, EpochAgrees, Claimed,
       Scanning
  <2>4. FollowedKept'
    BY <1>h, <1>x, <1>p, <1>s, <1>MM, <1>OK, <1>FK, <1>28 DEF MaybeDone, HeapTypes,
       ExecTypes, PcType, ScanAgrees, OldKept, FollowedKept, Scanning
  <2>5. SeenKept'
    BY <1>ST, <1>t, <1>x, <1>p, <1>b, <1>o, <1>SN, <1>28 DEF MaybeDone, BitTypes,
       ExecTypes, PcType, BatchAgrees, OneOwner, SeenKept, Due, Scanning
  <2>6. MarksKept'
    <3>1. \A p \in Pages : \A o \in MarksOf(p)' : o \in MarksOf(p)
      BY <1>t, <1>x, <1>28 DEF MaybeDone, MarksOf, BitTypes, Bits, ExecTypes
    <3>2. \A o : InScan(o) => InScan(o)' \/ o \in followed'
      BY <1>x, <1>s, <2>0, <1>28, InScanSame DEF MaybeDone, InScan, ExecTypes,
         ScanAgrees
    <3>3. \A p \in Pages : Awaits(p) => Awaits(p)'
      BY <2>0, <1>28, AwaitsQuiet DEF MaybeDone
    <3>4. followed \subseteq followed'
      BY <1>28 DEF MaybeDone
    <3> QED
      BY <1>MK, <1>ST, <3>1, <3>2, <3>3, <3>4, MarksStay
  <2>7. TailAgrees'
    <3>1. UNCHANGED stage /\ lock = Null
      BY <1>28 DEF MaybeDone
    <3>2. \A f \in Executors : pc[f] \notin Checking
      BY <1>l, <3>1 DEF LockAgrees
    <3>3. \A f \in Executors : pc'[f] \notin Reading
      BY <2>0, <3>2 DEF Checking, Reading
    <3> QED
      BY <1>TA, <1>MM, <3>1, <3>3, TailElsewhere
  <2> QED
    BY <2>1, <2>2, <2>3, <2>4, <2>5, <2>6, <2>7 DEF MarkInv
<1>29. ASSUME NEW e \in Executors, TryTransition(e)
      PROVE  MarkInv'
  <2>0. /\ pc[e] = "try" /\ pc'[e] \in {"idle", "pump", "unlock"}
        /\ \A f \in Executors \ {e} : pc'[f] = pc[f]
    BY <1>p, <1>29 DEF TryTransition, PcType
  <2>1. /\ OldKept' /\ TargetKept' /\ RootsKept' /\ TodoAgrees' /\ ScannedKept'
    BY <1>OK, <1>TK, <1>RK, <1>TD, <1>SK, <1>29 DEF TryTransition, OldKept,
       TargetKept, RootsKept, TodoAgrees, ScannedKept, Marked
  <2>2. RingAgrees' /\ PusherAgrees' /\ PumpAgrees'
    BY <1>RA, <1>PS, <1>PU, <1>x, <1>m, <2>0, <1>29, RingSame DEF TryTransition,
       ExecTypes, MutTypes
  <2>3. EpochAgrees'
    BY <1>h, <1>x, <1>p, <1>b, <1>s, <1>o, <1>EA, <1>29 DEF TryTransition, HeapTypes,
       ExecTypes, PcType, BatchAgrees, ScanAgrees, OneOwner, EpochAgrees, Claimed,
       Scanning
  <2>4. FollowedKept'
    BY <1>h, <1>x, <1>p, <1>s, <1>MM, <1>OK, <1>FK, <1>29 DEF TryTransition,
       HeapTypes, ExecTypes, PcType, ScanAgrees, OldKept, FollowedKept, Scanning
  <2>5. SeenKept'
    BY <1>ST, <1>t, <1>x, <1>p, <1>b, <1>o, <1>SN, <1>29 DEF TryTransition, BitTypes,
       ExecTypes, PcType, BatchAgrees, OneOwner, SeenKept, Due, Scanning
  <2>6. MarksKept'
    <3>1. \A p \in Pages : \A o \in MarksOf(p)' : o \in MarksOf(p)
      BY <1>t, <1>x, <1>29 DEF TryTransition, MarksOf, BitTypes, Bits, ExecTypes
    <3>2. \A o : InScan(o) => InScan(o)' \/ o \in followed'
      BY <1>x, <1>s, <2>0, <1>29, InScanSame DEF TryTransition, InScan, ExecTypes,
         ScanAgrees
    <3>3. \A p \in Pages : Awaits(p) => Awaits(p)'
      BY <2>0, <1>29, AwaitsQuiet DEF TryTransition
    <3>4. followed \subseteq followed'
      BY <1>29 DEF TryTransition
    <3> QED
      BY <1>MK, <1>ST, <3>1, <3>2, <3>3, <3>4, MarksStay
  <2>7. TailAgrees'
    <3>1. UNCHANGED <<stage, toScan>>
      BY <1>29 DEF TryTransition
    <3>2. \A f \in Executors : pc[f] \in Publishing => Hand(f)' = Hand(f)
      BY <1>x, <2>0, <1>29 DEF TryTransition, Hand, ExecTypes, Publishing, Scanning
    <3>3. \A f \in Executors : pc[f] \in Publishing => pc'[f] \in Publishing
      BY <2>0, <1>29 DEF TryTransition, Publishing, Scanning
    <3>4. Working => Working'
      BY <2>0, <3>1, <3>2, <3>3, WorkSame DEF Publishing, Scanning
    <3>5. head < tail => head' < tail' \/ Working'
      BY <1>r, <2>0, <1>29 DEF TryTransition, RingTypes, Working
    <3>6. \A f \in Executors : pc'[f] \in Reading => pc'[f] = pc[f]
      BY <2>0, <1>29 DEF TryTransition, Reading
    <3> QED
      BY <1>TA, <1>MM, <3>1, <3>4, <3>5, <3>6, TailStays
  <2> QED
    BY <2>1, <2>2, <2>3, <2>4, <2>5, <2>6, <2>7 DEF MarkInv
<1>30. ASSUME NEW e \in Executors, OutstandingLock(e)
      PROVE  MarkInv'
  <2>0. /\ pc[e] \in {"busy", "recheck"} /\ pc'[e] \in {"writers1", "writers2"}
        /\ \A f \in Executors \ {e} : pc'[f] = pc[f]
    BY <1>p, <1>30 DEF OutstandingLock, PcType
  <2>1. /\ OldKept' /\ TargetKept' /\ RootsKept' /\ TodoAgrees' /\ ScannedKept'
    BY <1>OK, <1>TK, <1>RK, <1>TD, <1>SK, <1>30 DEF OutstandingLock, OldKept,
       TargetKept, RootsKept, TodoAgrees, ScannedKept, Marked
  <2>2. RingAgrees' /\ PusherAgrees' /\ PumpAgrees'
    BY <1>RA, <1>PS, <1>PU, <1>x, <1>m, <2>0, <1>30, RingSame DEF OutstandingLock,
       ExecTypes, MutTypes
  <2>3. EpochAgrees'
    BY <1>h, <1>x, <1>p, <1>b, <1>s, <1>o, <1>EA, <1>30 DEF OutstandingLock,
       HeapTypes, ExecTypes, PcType, BatchAgrees, ScanAgrees, OneOwner, EpochAgrees,
       Claimed, Scanning
  <2>4. FollowedKept'
    BY <1>h, <1>x, <1>p, <1>s, <1>MM, <1>OK, <1>FK, <1>30 DEF OutstandingLock,
       HeapTypes, ExecTypes, PcType, ScanAgrees, OldKept, FollowedKept, Scanning
  <2>5. SeenKept'
    BY <1>ST, <1>t, <1>x, <1>p, <1>b, <1>o, <1>SN, <1>30 DEF OutstandingLock,
       BitTypes, ExecTypes, PcType, BatchAgrees, OneOwner, SeenKept, Due, Scanning
  <2>6. MarksKept'
    <3>1. \A p \in Pages : \A o \in MarksOf(p)' : o \in MarksOf(p)
      BY <1>t, <1>x, <1>30 DEF OutstandingLock, MarksOf, BitTypes, Bits, ExecTypes
    <3>2. \A o : InScan(o) => InScan(o)' \/ o \in followed'
      BY <1>x, <1>s, <2>0, <1>30, InScanSame DEF OutstandingLock, InScan, ExecTypes,
         ScanAgrees
    <3>3. \A p \in Pages : Awaits(p) => Awaits(p)'
      BY <2>0, <1>30, AwaitsQuiet DEF OutstandingLock
    <3>4. followed \subseteq followed'
      BY <1>30 DEF OutstandingLock
    <3> QED
      BY <1>MK, <1>ST, <3>1, <3>2, <3>3, <3>4, MarksStay
  <2>7. TailAgrees'
    <3>1. UNCHANGED stage /\ lock = Null
      BY <1>30 DEF OutstandingLock
    <3>2. \A f \in Executors : pc[f] \notin Checking
      BY <1>l, <3>1 DEF LockAgrees
    <3>3. \A f \in Executors : pc'[f] \notin Reading
      BY <2>0, <3>2 DEF Checking, Reading
    <3> QED
      BY <1>TA, <1>MM, <3>1, <3>3, TailElsewhere
  <2> QED
    BY <2>1, <2>2, <2>3, <2>4, <2>5, <2>6, <2>7 DEF MarkInv
<1>31. ASSUME NEW e \in Executors, OutstandingWriters(e)
      PROVE  MarkInv'
  <2>0. /\ pc[e] \in {"writers1", "writers2"}
        /\ pc'[e] \in {"ring1", "ring2", "unlock"}
        /\ \A f \in Executors \ {e} : pc'[f] = pc[f]
    BY <1>p, <1>31 DEF OutstandingWriters, Busy, PcType
  <2>1. /\ OldKept' /\ TargetKept' /\ RootsKept' /\ TodoAgrees' /\ ScannedKept'
    BY <1>OK, <1>TK, <1>RK, <1>TD, <1>SK, <1>31 DEF OutstandingWriters, Busy,
       OldKept, TargetKept, RootsKept, TodoAgrees, ScannedKept, Marked
  <2>2. RingAgrees' /\ PusherAgrees' /\ PumpAgrees'
    BY <1>RA, <1>PS, <1>PU, <1>x, <1>m, <2>0, <1>31, RingSame DEF OutstandingWriters,
       Busy, ExecTypes, MutTypes
  <2>3. EpochAgrees'
    BY <1>h, <1>x, <1>p, <1>b, <1>s, <1>o, <1>EA, <1>31 DEF OutstandingWriters, Busy,
       HeapTypes, ExecTypes, PcType, BatchAgrees, ScanAgrees, OneOwner, EpochAgrees,
       Claimed, Scanning
  <2>4. FollowedKept'
    BY <1>h, <1>x, <1>p, <1>s, <1>MM, <1>OK, <1>FK, <1>31 DEF OutstandingWriters,
       Busy, HeapTypes, ExecTypes, PcType, ScanAgrees, OldKept, FollowedKept, Scanning
  <2>5. SeenKept'
    BY <1>ST, <1>t, <1>x, <1>p, <1>b, <1>o, <1>SN, <1>31 DEF OutstandingWriters,
       Busy, BitTypes, ExecTypes, PcType, BatchAgrees, OneOwner, SeenKept, Due, Scanning
  <2>6. MarksKept'
    <3>1. \A p \in Pages : \A o \in MarksOf(p)' : o \in MarksOf(p)
      BY <1>t, <1>x, <1>31 DEF OutstandingWriters, Busy, MarksOf, BitTypes, Bits,
         ExecTypes
    <3>2. \A o : InScan(o) => InScan(o)' \/ o \in followed'
      BY <1>x, <1>s, <2>0, <1>31, InScanSame DEF OutstandingWriters, Busy, InScan,
         ExecTypes, ScanAgrees
    <3>3. \A p \in Pages : Awaits(p) => Awaits(p)'
      BY <2>0, <1>31, AwaitsQuiet DEF OutstandingWriters, Busy
    <3>4. followed \subseteq followed'
      BY <1>31 DEF OutstandingWriters, Busy
    <3> QED
      BY <1>MK, <1>ST, <3>1, <3>2, <3>3, <3>4, MarksStay
  <2>7. TailAgrees'
    <3>1. stage' = stage /\ Marked' = Marked
      BY <1>31 DEF OutstandingWriters, Marked
    <3>2. CASE pc'[e] = "unlock"
      BY <1>l, <1>TA, <1>MM, <2>0, <3>1, <3>2, TailElsewhere, <1>31
      DEF OutstandingWriters, LockAgrees, Checking, Reading
    <3>3. CASE pc'[e] # "unlock"
      <4>1. \A m \in Mutators : writing[m] = 0
        BY <1>p, <3>3, <1>31 DEF OutstandingWriters, Busy, PcType
      <4>2. Complete \/ Working \/ head < tail
        BY <1>r, <1>TA, <4>1, NothingLeft DEF RingTypes, TailAgrees
      <4>3. UNCHANGED <<heapVars, ringVars, stage, execVars>>
        BY <1>31 DEF OutstandingWriters
      <4>4. \A f \in Executors \ {e} : pc'[f] \notin Reading
        BY <1>l, <2>0 DEF LockAgrees, Checking, Reading
      <4>5. Complete' = Complete
        BY <3>1 DEF Complete
      <4>6. Working => Working'
        BY <2>0, <4>3, WorkSame DEF Publishing, Scanning, Hand
      <4> QED
        BY <1>TA, <2>0, <3>3, <4>2, <4>3, <4>4, <4>5, <4>6 DEF TailAgrees, Reading
    <3> QED
      BY <3>2, <3>3
  <2> QED
    BY <2>1, <2>2, <2>3, <2>4, <2>5, <2>6, <2>7 DEF MarkInv
<1>32. ASSUME NEW e \in Executors, OutstandingRing(e)
      PROVE  MarkInv'
  <2>0. /\ pc[e] \in {"ring1", "ring2"}
        /\ pc'[e] \in {"flight1", "flight2", "unlock"}
        /\ \A f \in Executors \ {e} : pc'[f] = pc[f]
    BY <1>p, <1>32 DEF OutstandingRing, Busy, PcType
  <2>1. /\ OldKept' /\ TargetKept' /\ RootsKept' /\ TodoAgrees' /\ ScannedKept'
    BY <1>OK, <1>TK, <1>RK, <1>TD, <1>SK, <1>32 DEF OutstandingRing, Busy, OldKept,
       TargetKept, RootsKept, TodoAgrees, ScannedKept, Marked
  <2>2. RingAgrees' /\ PusherAgrees' /\ PumpAgrees'
    BY <1>RA, <1>PS, <1>PU, <1>x, <1>m, <2>0, <1>32, RingSame DEF OutstandingRing,
       Busy, ExecTypes, MutTypes
  <2>3. EpochAgrees'
    BY <1>h, <1>x, <1>p, <1>b, <1>s, <1>o, <1>EA, <1>32 DEF OutstandingRing, Busy,
       HeapTypes, ExecTypes, PcType, BatchAgrees, ScanAgrees, OneOwner, EpochAgrees,
       Claimed, Scanning
  <2>4. FollowedKept'
    BY <1>h, <1>x, <1>p, <1>s, <1>MM, <1>OK, <1>FK, <1>32 DEF OutstandingRing, Busy,
       HeapTypes, ExecTypes, PcType, ScanAgrees, OldKept, FollowedKept, Scanning
  <2>5. SeenKept'
    BY <1>ST, <1>t, <1>x, <1>p, <1>b, <1>o, <1>SN, <1>32 DEF OutstandingRing, Busy,
       BitTypes, ExecTypes, PcType, BatchAgrees, OneOwner, SeenKept, Due, Scanning
  <2>6. MarksKept'
    <3>1. \A p \in Pages : \A o \in MarksOf(p)' : o \in MarksOf(p)
      BY <1>t, <1>x, <1>32 DEF OutstandingRing, Busy, MarksOf, BitTypes, Bits, ExecTypes
    <3>2. \A o : InScan(o) => InScan(o)' \/ o \in followed'
      BY <1>x, <1>s, <2>0, <1>32, InScanSame DEF OutstandingRing, Busy, InScan,
         ExecTypes, ScanAgrees
    <3>3. \A p \in Pages : Awaits(p) => Awaits(p)'
      BY <2>0, <1>32, AwaitsQuiet DEF OutstandingRing, Busy
    <3>4. followed \subseteq followed'
      BY <1>32 DEF OutstandingRing, Busy
    <3> QED
      BY <1>MK, <1>ST, <3>1, <3>2, <3>3, <3>4, MarksStay
  <2>7. TailAgrees'
    <3>1. UNCHANGED <<heapVars, ringVars, stage, execVars>> /\ Marked' = Marked
      BY <1>32 DEF OutstandingRing, Marked
    <3>2. \A f \in Executors \ {e} : pc'[f] \notin Reading
      BY <1>l, <2>0 DEF LockAgrees, Checking, Reading
    <3>3. Complete' = Complete
      BY <3>1 DEF Complete
    <3>4. Working => Working'
      BY <2>0, <3>1, WorkSame DEF Publishing, Scanning, Hand
    <3>5. pc'[e] # "unlock" => Complete \/ Working
      BY <1>p, <1>TA, <1>r, <2>0, <1>32 DEF OutstandingRing, Busy, PcType,
         TailAgrees, RingTypes
    <3> QED
      BY <1>TA, <2>0, <3>1, <3>2, <3>3, <3>4, <3>5 DEF TailAgrees, Reading
  <2> QED
    BY <2>1, <2>2, <2>3, <2>4, <2>5, <2>6, <2>7 DEF MarkInv
<1>33. ASSUME NEW e \in Executors, OutstandingFlight(e)
      PROVE  MarkInv'
  <2>0. /\ pc[e] \in {"flight1", "flight2"}
        /\ pc'[e] \in {"overflow", "retire", "unlock"}
        /\ \A f \in Executors \ {e} : pc'[f] = pc[f]
    BY <1>p, <1>33 DEF OutstandingFlight, Busy, PcType
  <2>1. /\ OldKept' /\ TargetKept' /\ RootsKept' /\ TodoAgrees' /\ ScannedKept'
    BY <1>OK, <1>TK, <1>RK, <1>TD, <1>SK, <1>33 DEF OutstandingFlight, Busy, OldKept,
       TargetKept, RootsKept, TodoAgrees, ScannedKept, Marked
  <2>2. RingAgrees' /\ PusherAgrees' /\ PumpAgrees'
    BY <1>RA, <1>PS, <1>PU, <1>x, <1>m, <2>0, <1>33, RingSame DEF OutstandingFlight,
       Busy, ExecTypes, MutTypes
  <2>3. EpochAgrees'
    BY <1>h, <1>x, <1>p, <1>b, <1>s, <1>o, <1>EA, <1>33 DEF OutstandingFlight, Busy,
       HeapTypes, ExecTypes, PcType, BatchAgrees, ScanAgrees, OneOwner, EpochAgrees,
       Claimed, Scanning
  <2>4. FollowedKept'
    BY <1>h, <1>x, <1>p, <1>s, <1>MM, <1>OK, <1>FK, <1>33 DEF OutstandingFlight,
       Busy, HeapTypes, ExecTypes, PcType, ScanAgrees, OldKept, FollowedKept, Scanning
  <2>5. SeenKept'
    BY <1>ST, <1>t, <1>x, <1>p, <1>b, <1>o, <1>SN, <1>33 DEF OutstandingFlight, Busy,
       BitTypes, ExecTypes, PcType, BatchAgrees, OneOwner, SeenKept, Due, Scanning
  <2>6. MarksKept'
    <3>1. \A p \in Pages : \A o \in MarksOf(p)' : o \in MarksOf(p)
      BY <1>t, <1>x, <1>33 DEF OutstandingFlight, Busy, MarksOf, BitTypes, Bits,
         ExecTypes
    <3>2. \A o : InScan(o) => InScan(o)' \/ o \in followed'
      BY <1>x, <1>s, <2>0, <1>33, InScanSame DEF OutstandingFlight, Busy, InScan,
         ExecTypes, ScanAgrees
    <3>3. \A p \in Pages : Awaits(p) => Awaits(p)'
      BY <2>0, <1>33, AwaitsQuiet DEF OutstandingFlight, Busy
    <3>4. followed \subseteq followed'
      BY <1>33 DEF OutstandingFlight, Busy
    <3> QED
      BY <1>MK, <1>ST, <3>1, <3>2, <3>3, <3>4, MarksStay
  <2>7. TailAgrees'
    <3>1. UNCHANGED <<heapVars, ringVars, stage, execVars>> /\ Marked' = Marked
      BY <1>33 DEF OutstandingFlight, Marked
    <3>2. \A f \in Executors \ {e} : pc'[f] \notin Reading
      BY <1>l, <2>0 DEF LockAgrees, Checking, Reading
    <3>3. Complete' = Complete
      BY <3>1 DEF Complete
    <3>4. Working => Working'
      BY <2>0, <3>1, WorkSame DEF Publishing, Scanning, Hand
    <3>5. ASSUME pc'[e] = "retire" PROVE Complete
      <4>1. inFlight = 0 /\ toScan = {}
        BY <1>p, <2>0, <3>5, <1>33 DEF OutstandingFlight, Busy, PcType
      <4>2. ~Working
        BY <4>1, NoFlight
      <4> QED
        BY <1>TA, <2>0, <4>2 DEF TailAgrees
    <3> QED
      BY <1>TA, <2>0, <3>1, <3>2, <3>3, <3>5 DEF TailAgrees, Reading
  <2> QED
    BY <2>1, <2>2, <2>3, <2>4, <2>5, <2>6, <2>7 DEF MarkInv
<1>34. ASSUME NEW e \in Executors, OverflowRead(e)
      PROVE  MarkInv'
  <2>0. /\ pc[e] = "overflow" /\ pc'[e] \in {"wipe", "recheck"}
        /\ \A f \in Executors \ {e} : pc'[f] = pc[f]
    BY <1>p, <1>34 DEF OverflowRead, PcType
  <2>1. /\ OldKept' /\ TargetKept' /\ RootsKept' /\ TodoAgrees' /\ ScannedKept'
    BY <1>OK, <1>TK, <1>RK, <1>TD, <1>SK, <1>34 DEF OverflowRead, OldKept,
       TargetKept, RootsKept, TodoAgrees, ScannedKept, Marked
  <2>2. RingAgrees' /\ PusherAgrees' /\ PumpAgrees'
    BY <1>RA, <1>PS, <1>PU, <1>x, <1>m, <2>0, <1>34, RingSame DEF OverflowRead,
       ExecTypes, MutTypes
  <2>3. EpochAgrees'
    BY <1>h, <1>x, <1>p, <1>b, <1>s, <1>o, <1>EA, <1>34 DEF OverflowRead, HeapTypes,
       ExecTypes, PcType, BatchAgrees, ScanAgrees, OneOwner, EpochAgrees, Claimed,
       Scanning
  <2>4. FollowedKept'
    BY <1>h, <1>x, <1>p, <1>s, <1>MM, <1>OK, <1>FK, <1>34 DEF OverflowRead,
       HeapTypes, ExecTypes, PcType, ScanAgrees, OldKept, FollowedKept, Scanning
  <2>5. SeenKept'
    BY <1>ST, <1>t, <1>x, <1>p, <1>b, <1>o, <1>SN, <1>34 DEF OverflowRead, BitTypes,
       ExecTypes, PcType, BatchAgrees, OneOwner, SeenKept, Due, Scanning
  <2>6. MarksKept'
    <3>1. \A p \in Pages : \A o \in MarksOf(p)' : o \in MarksOf(p)
      BY <1>t, <1>x, <1>34 DEF OverflowRead, MarksOf, BitTypes, Bits, ExecTypes
    <3>2. \A o : InScan(o) => InScan(o)' \/ o \in followed'
      BY <1>x, <1>s, <2>0, <1>34, InScanSame DEF OverflowRead, InScan, ExecTypes,
         ScanAgrees
    <3>3. \A p \in Pages : Awaits(p) => Awaits(p)'
      BY <2>0, <1>34, AwaitsQuiet DEF OverflowRead
    <3>4. followed \subseteq followed'
      BY <1>34 DEF OverflowRead
    <3> QED
      BY <1>MK, <1>ST, <3>1, <3>2, <3>3, <3>4, MarksStay
  <2>7. TailAgrees'
    <3>1. UNCHANGED <<stage, toScan>>
      BY <1>34 DEF OverflowRead
    <3>2. \A f \in Executors : pc[f] \in Publishing => Hand(f)' = Hand(f)
      BY <1>x, <2>0, <1>34 DEF OverflowRead, Hand, ExecTypes, Publishing, Scanning
    <3>3. \A f \in Executors : pc[f] \in Publishing => pc'[f] \in Publishing
      BY <2>0, <1>34 DEF OverflowRead, Publishing, Scanning
    <3>4. Working => Working'
      BY <2>0, <3>1, <3>2, <3>3, WorkSame DEF Publishing, Scanning
    <3>5. head < tail => head' < tail' \/ Working'
      BY <1>r, <2>0, <1>34 DEF OverflowRead, RingTypes, Working
    <3>6. \A f \in Executors : pc'[f] \in Reading => pc'[f] = pc[f]
      BY <2>0, <1>34 DEF OverflowRead, Reading
    <3> QED
      BY <1>TA, <1>MM, <3>1, <3>4, <3>5, <3>6, TailStays
  <2> QED
    BY <2>1, <2>2, <2>3, <2>4, <2>5, <2>6, <2>7 DEF MarkInv
<1>35. ASSUME NEW e \in Executors, ResetWipe(e)
      PROVE  MarkInv'
  BY <1>V, <1>35 DEF ResetWipe
<1>36. ASSUME NEW e \in Executors, ResetTail(e)
      PROVE  MarkInv'
  BY <1>V, <1>36 DEF ResetTail
<1>37. ASSUME NEW e \in Executors, ResetHead(e)
      PROVE  MarkInv'
  BY <1>V, <1>37 DEF ResetHead
<1>38. ASSUME NEW e \in Executors, Rescan(e)
      PROVE  MarkInv'
  BY <1>V, <1>38 DEF Rescan
<1>39. ASSUME NEW e \in Executors, Retire(e)
      PROVE  MarkInv'
  <2>0. /\ pc[e] = "retire" /\ pc'[e] = "unlock"
        /\ \A f \in Executors \ {e} : pc'[f] = pc[f]
    BY <1>p, <1>39 DEF Retire, PcType
  <2>1. /\ OldKept' /\ TargetKept' /\ RootsKept' /\ TodoAgrees'
    BY <1>OK, <1>TK, <1>RK, <1>TD, <1>39 DEF Retire, OldKept, TargetKept, RootsKept,
       TodoAgrees, Marked
  <2>2. RingAgrees' /\ PusherAgrees' /\ PumpAgrees'
    BY <1>RA, <1>PS, <1>PU, <1>x, <1>m, <2>0, <1>39, RingSame DEF Retire, ExecTypes,
       MutTypes
  <2>3. EpochAgrees'
    BY <1>h, <1>x, <1>p, <1>b, <1>s, <1>o, <1>EA, <1>39 DEF Retire, HeapTypes,
       ExecTypes, PcType, BatchAgrees, ScanAgrees, OneOwner, EpochAgrees, Claimed,
       Scanning
  <2>4. FollowedKept'
    BY <1>h, <1>x, <1>p, <1>s, <1>MM, <1>OK, <1>FK, <1>39 DEF Retire, HeapTypes,
       ExecTypes, PcType, ScanAgrees, OldKept, FollowedKept, Scanning
  <2>5. ScannedKept'
    BY <1>ST, <1>t, <1>x, <1>SK, <1>39 DEF Retire, BitTypes, ExecTypes, ScannedKept
  <2>6. SeenKept'
    BY <1>ST, <1>t, <1>x, <1>p, <1>b, <1>o, <1>SN, <1>39 DEF Retire, BitTypes,
       ExecTypes, PcType, BatchAgrees, OneOwner, SeenKept, Due, Scanning
  <2>7. MarksKept'
    <3>1. \A p \in Pages : \A o \in MarksOf(p)' : o \in MarksOf(p)
      BY <1>t, <1>x, <1>39 DEF Retire, MarksOf, BitTypes, Bits, ExecTypes
    <3>2. \A o : InScan(o) => InScan(o)' \/ o \in followed'
      BY <1>x, <1>s, <2>0, <1>39, InScanSame DEF Retire, InScan, ExecTypes, ScanAgrees
    <3>3. \A p \in Pages : Awaits(p) => Awaits(p)'
      BY <2>0, <1>39, AwaitsQuiet DEF Retire
    <3>4. followed \subseteq followed'
      BY <1>39 DEF Retire
    <3> QED
      BY <1>MK, <1>ST, <3>1, <3>2, <3>3, <3>4, MarksStay
  <2>8. TailAgrees'
    <3>1. Complete
      BY <1>TA, <2>0 DEF TailAgrees
    <3>2. Complete'
      BY <1>MM, <3>1 DEF Complete
    <3> QED
      BY <3>2 DEF TailAgrees
  <2> QED
    BY <2>1, <2>2, <2>3, <2>4, <2>5, <2>6, <2>7, <2>8 DEF MarkInv
<1>40. ASSUME NEW e \in Executors, FsaUnlock(e)
      PROVE  MarkInv'
  <2>0. /\ pc[e] = "unlock" /\ pc'[e] = "idle"
        /\ \A f \in Executors \ {e} : pc'[f] = pc[f]
    BY <1>p, <1>40 DEF FsaUnlock, PcType
  <2>1. /\ OldKept' /\ TargetKept' /\ RootsKept' /\ TodoAgrees' /\ ScannedKept'
    BY <1>OK, <1>TK, <1>RK, <1>TD, <1>SK, <1>40 DEF FsaUnlock, OldKept, TargetKept,
       RootsKept, TodoAgrees, ScannedKept, Marked
  <2>2. RingAgrees' /\ PusherAgrees' /\ PumpAgrees'
    BY <1>RA, <1>PS, <1>PU, <1>x, <1>m, <2>0, <1>40, RingSame DEF FsaUnlock,
       ExecTypes, MutTypes
  <2>3. EpochAgrees'
    BY <1>h, <1>x, <1>p, <1>b, <1>s, <1>o, <1>EA, <1>40 DEF FsaUnlock, HeapTypes,
       ExecTypes, PcType, BatchAgrees, ScanAgrees, OneOwner, EpochAgrees, Claimed,
       Scanning
  <2>4. FollowedKept'
    BY <1>h, <1>x, <1>p, <1>s, <1>MM, <1>OK, <1>FK, <1>40 DEF FsaUnlock, HeapTypes,
       ExecTypes, PcType, ScanAgrees, OldKept, FollowedKept, Scanning
  <2>5. SeenKept'
    BY <1>ST, <1>t, <1>x, <1>p, <1>b, <1>o, <1>SN, <1>40 DEF FsaUnlock, BitTypes,
       ExecTypes, PcType, BatchAgrees, OneOwner, SeenKept, Due, Scanning
  <2>6. MarksKept'
    <3>1. \A p \in Pages : \A o \in MarksOf(p)' : o \in MarksOf(p)
      BY <1>t, <1>x, <1>40 DEF FsaUnlock, MarksOf, BitTypes, Bits, ExecTypes
    <3>2. \A o : InScan(o) => InScan(o)' \/ o \in followed'
      BY <1>x, <1>s, <2>0, <1>40, InScanSame DEF FsaUnlock, InScan, ExecTypes,
         ScanAgrees
    <3>3. \A p \in Pages : Awaits(p) => Awaits(p)'
      BY <2>0, <1>40, AwaitsQuiet DEF FsaUnlock
    <3>4. followed \subseteq followed'
      BY <1>40 DEF FsaUnlock
    <3> QED
      BY <1>MK, <1>ST, <3>1, <3>2, <3>3, <3>4, MarksStay
  <2>7. TailAgrees'
    <3>1. UNCHANGED <<stage, toScan>>
      BY <1>40 DEF FsaUnlock
    <3>2. \A f \in Executors : pc[f] \in Publishing => Hand(f)' = Hand(f)
      BY <1>x, <2>0, <1>40 DEF FsaUnlock, Hand, ExecTypes, Publishing, Scanning
    <3>3. \A f \in Executors : pc[f] \in Publishing => pc'[f] \in Publishing
      BY <2>0, <1>40 DEF FsaUnlock, Publishing, Scanning
    <3>4. Working => Working'
      BY <2>0, <3>1, <3>2, <3>3, WorkSame DEF Publishing, Scanning
    <3>5. head < tail => head' < tail' \/ Working'
      BY <1>r, <2>0, <1>40 DEF FsaUnlock, RingTypes, Working
    <3>6. \A f \in Executors : pc'[f] \in Reading => pc'[f] = pc[f]
      BY <2>0, <1>40 DEF FsaUnlock, Reading
    <3> QED
      BY <1>TA, <1>MM, <3>1, <3>4, <3>5, <3>6, TailStays
  <2> QED
    BY <2>1, <2>2, <2>3, <2>4, <2>5, <2>6, <2>7 DEF MarkInv
<1>41. CASE UNCHANGED vars
  BY <1>41, <1>RA, <1>PS, <1>PU, <1>EA, <1>OK, <1>TK, <1>FK, <1>RK, <1>TD, <1>SK,
     <1>SN, <1>MK, <1>TA DEF MarkInv, vars, RingAgrees, PusherAgrees, PumpAgrees,
     EpochAgrees, OldKept, TargetKept, FollowedKept, RootsKept, TodoAgrees,
     ScannedKept, SeenKept, MarksKept, TailAgrees, Due, Awaits, HandAwaits,
     PushAwaits, RingAwaits, InScan, MarksOf, TargetPage, Working, Complete, Hand,
     Marked
<1> QED
  BY <1>1, <1>2, <1>3, <1>4, <1>5, <1>6, <1>7, <1>8, <1>9, <1>10, <1>11, <1>12,
     <1>13, <1>14, <1>15, <1>16, <1>17, <1>18, <1>19, <1>20, <1>21, <1>22, <1>23,
     <1>24, <1>25, <1>26, <1>27, <1>28, <1>29, <1>30, <1>31, <1>32, <1>33, <1>34,
     <1>35, <1>36, <1>37, <1>38, <1>39, <1>40, <1>41 DEF Next, Push, Body, Pump,
     MarkTail, Execute

-----------------------------------------------------------------------------
(* Nothing takes a run back to an unwrapped ring: the epoch only grows, an *)
(* overflow is cleared only on the way to the reset, and the indexes are   *)
(* zeroed only in it.                                                      *)
Resetting == {"wipe", "zerotail", "zerohead", "rescan"}
LEMMA UnwrappedStays ==
  ASSUME IInv, epoch > 0, [Next]_vars
  PROVE  epoch' > 0 /\ (Unwrapped' => Unwrapped)
<1> USE DEF Goto, MGoto, pageVars, listVars, ringVars, scanVars, batchVars, pumpVars,
            mutVars, heapVars, ctlVars, sharedVars, execVars
<1>p. PcType /\ tail \in Nat /\ epoch \in Nat /\ overflow \in BOOLEAN
  BY DEF IInv, HeapTypes, RingTypes
<1>0. ASSUME epoch' = epoch, overflow => overflow', tail <= tail', tail' \in Nat,
             \A f \in Executors : pc[f] \in Resetting => pc'[f] \in Resetting
      PROVE  epoch' > 0 /\ (Unwrapped' => Unwrapped)
  BY <1>p, <1>0, SizeAssumption DEF Unwrapped, Resetting
<1>1. ASSUME NEW m \in Mutators,
             (\E o \in Mutable \cap Snapshot, v \in NewValues \cap (Snapshot \cup {Null}) :
                Barrier(m, o, v))
             \/ Push(m)
      PROVE  epoch' > 0 /\ (Unwrapped' => Unwrapped)
  <2>1. UNCHANGED <<epoch, pc>>
    BY <1>1 DEF Barrier, Push, PushSet, PushEpoch, PushDedupe, PushFull, PushCas,
       PushEntry,
                PushLeave, Store
  <2>2. (overflow => overflow') /\ tail <= tail' /\ tail' \in Nat
    BY <1>p, <1>1
    DEF Barrier, Push, PushSet, PushEpoch, PushDedupe, PushFull, PushCas, PushEntry,
        PushLeave, Store
  <2> QED
    BY <1>0, <2>1, <2>2
<1>2. ASSUME NEW e \in Executors, Body(e)
      PROVE  epoch' > 0 /\ (Unwrapped' => Unwrapped)
  <2>1. UNCHANGED <<epoch, overflow, tail>>
    BY <1>2
    DEF Body, Enter, Claim, MergeFirst, ScanPage, ScanObject, MarkSet, MarkCheck, MergeAgain,
        SetProcessed, Drain, LateMerge, Publish, Release
  <2>2. pc[e] \notin Resetting /\ \A f \in Executors \ {e} : pc'[f] = pc[f]
    BY <1>p, <1>2
    DEF Body, Enter, Claim, MergeFirst, ScanPage, ScanObject, ScanRead, MarkSet, MarkCheck,
        MergeAgain, SetProcessed, Drain, LateMerge, Publish, Release, PcType, Resetting
  <2> QED
    BY <1>0, <1>p, <2>1, <2>2
<1>3. ASSUME NEW e \in Executors, Pump(e)
      PROVE  epoch' > 0 /\ (Unwrapped' => Unwrapped)
  <2>1. UNCHANGED <<epoch, overflow, tail>>
    BY <1>3 DEF Pump, PumpRead, PumpCas, PumpTake, PageNeedsScan, PumpLanded
  <2>2. pc[e] \notin Resetting /\ \A f \in Executors \ {e} : pc'[f] = pc[f]
    BY <1>p, <1>3
    DEF Pump, PumpRead, PumpCas, PumpTake, PageNeedsScan, PumpLanded, PcType, Resetting
  <2> QED
    BY <1>0, <1>p, <2>1, <2>2
<1>4. ASSUME NEW e \in Executors,
             \/ MaybeDone(e) \/ TryTransition(e) \/ OutstandingLock(e)
             \/ OutstandingWriters(e) \/ OutstandingRing(e) \/ OutstandingFlight(e)
             \/ Retire(e) \/ FsaUnlock(e)
      PROVE  epoch' > 0 /\ (Unwrapped' => Unwrapped)
  <2>1. UNCHANGED <<epoch, overflow, tail>>
    BY <1>4
    DEF MaybeDone, TryTransition, OutstandingLock, OutstandingWriters, Busy, OutstandingRing,
        OutstandingFlight, Retire, FsaUnlock
  <2>2. pc[e] \notin Resetting /\ \A f \in Executors \ {e} : pc'[f] = pc[f]
    BY <1>p, <1>4
    DEF MaybeDone, TryTransition, OutstandingLock, OutstandingWriters, Busy, OutstandingRing,
        OutstandingFlight, Retire, FsaUnlock, PcType, Resetting
  <2> QED
    BY <1>0, <1>p, <2>1, <2>2
<1>5. ASSUME NEW e \in Executors, OverflowRead(e)
      PROVE  epoch' > 0 /\ (Unwrapped' => Unwrapped)
  <2>1. CASE overflow
    BY <1>p, <1>5, <2>1 DEF OverflowRead, PcType, Unwrapped
  <2>2. CASE ~overflow
    <3>1. pc[e] \notin Resetting /\ \A f \in Executors \ {e} : pc'[f] = pc[f]
      BY <1>p, <1>5 DEF OverflowRead, PcType, Resetting
    <3> QED
      BY <1>0, <1>p, <1>5, <2>2, <3>1 DEF OverflowRead
  <2> QED
    BY <2>1, <2>2
<1>6. ASSUME NEW e \in Executors, ResetWipe(e) \/ ResetTail(e) \/ ResetHead(e)
      PROVE  epoch' > 0 /\ (Unwrapped' => Unwrapped)
  BY <1>p, <1>6 DEF ResetWipe, ResetTail, ResetHead, PcType, Unwrapped
<1>7. ASSUME NEW e \in Executors, Rescan(e)
      PROVE  epoch' > 0 /\ (Unwrapped' => Unwrapped)
  BY <1>p, <1>7 DEF Rescan, Unwrapped
<1>8. CASE UNCHANGED vars
  BY <1>0, <1>p, <1>8 DEF vars
<1> QED
  BY <1>1, <1>2, <1>3, <1>4, <1>5, <1>6, <1>7, <1>8 DEF Next, Execute, MarkTail

(* The invariant of the runs whose ring is unwrapped.                      *)
THEOREM SnapshotInvariance == Spec => []SnapInv
<1>1. Init => SnapInv
  BY InitMarkInv DEF SnapInv, Init
<1>2. IInv /\ SnapshotOnly /\ SnapInv /\ [Next]_vars => SnapInv'
  BY NextMarkInv, UnwrappedStays DEF SnapInv
<1> QED
  BY <1>1, <1>2, Invariance, PTL DEF Spec

(* Snapshot at the beginning: when the stage ends, everything that was     *)
(* reachable when it began is marked, whatever the mutators overwrote      *)
(* meanwhile and however the executors' claims, scans, merges and pumps    *)
(* interleaved with the four reads that decide the end.                    *)
THEOREM SnapshotMarked == Spec => [](Unwrapped => SnapshotKept)
<1>1. SnapInv => (Unwrapped => SnapshotKept)
  BY DEF SnapInv, MarkInv, TailAgrees, Complete, SnapshotKept
<1> QED
  BY <1>1, SnapshotInvariance, PTL

(* No mark on a page that is done is left to nobody.                       *)
THEOREM NoMarkForgotten == Spec => [](Unwrapped => MarkNotForgotten)
<1>1. IInv /\ SnapInv => (Unwrapped => MarkNotForgotten)
  <2> SUFFICES ASSUME IInv, SnapInv, Unwrapped, stage = "MARK_SWEEP",
                      NEW p \in toPrune, NEW o \in atomicSeen[p], o \notin followed
               PROVE  Answered(o, p)
    BY DEF MarkNotForgotten
  <2>0. /\ BitTypes /\ HeapTypes /\ RingTypes /\ ExecTypes /\ BatchAgrees
        /\ ScanAgrees
        /\ OneOwner /\ MarksKept /\ TodoAgrees /\ p \in Pages /\ p # Null
    BY HeapAssumption DEF IInv, SnapInv, MarkInv, HeapTypes
  <2>1. p \notin toScan /\ \A e \in Executors : p \notin Claimed(e)
    BY <2>0 DEF OneOwner
  <2>2. \A e \in Executors :
          /\ p \notin batch[e] /\ p # cur[e]
          /\ pc[e] # "release" => p \notin finished[e]
          /\ p \notin requeue[e]
    <3>1. \A e \in Executors : p \notin batch[e] /\ p # cur[e]
                               /\ (pc[e] # "release" => p \notin finished[e])
      BY <2>0, <2>1 DEF Claimed
    <3>2. \A e \in Executors : p \in requeue[e] => p \in finished[e] /\ pc[e] # "release"
      BY <2>0 DEF ExecTypes, BatchAgrees, Publishing, Scanning
    <3> QED
      BY <3>1, <3>2
  <2>3. PageOf[o] = p
    BY <2>0 DEF BitTypes, Bits
  <2>4. InScan(o) \/ Awaits(p)
    BY <2>0 DEF MarksKept, MarksOf
  <2>5. CASE InScan(o)
    BY <2>0, <2>2, <2>3, <2>5 DEF InScan, TodoAgrees, Answered
  <2>6. CASE Awaits(p)
    <3>1. CASE HandAwaits(p)
      BY <2>2, <3>1 DEF HandAwaits, Answered
    <3>2. CASE PushAwaits(p)
      BY <3>2 DEF PushAwaits, Answered
    <3>3. CASE RingAwaits(p)
      BY <2>0, <3>3 DEF RingAwaits, RingTypes, Answered
    <3> QED
      BY <2>1, <2>6, <3>1, <3>2, <3>3 DEF Awaits
  <2> QED
    BY <2>4, <2>5, <2>6
<1> QED
  BY <1>1, Invariance, SnapshotInvariance, PTL

(* A pump never waits at a place in the ring that nobody will fill.        *)
THEOREM ClaimedEntryArrives == Spec => [](Unwrapped => ClaimedEntryComes)
<1>1. IInv /\ SnapInv => (Unwrapped => ClaimedEntryComes)
  <2> SUFFICES ASSUME IInv, SnapInv, Unwrapped, NEW e \in Executors, pc[e] = "take"
               PROVE  \/ ring[slot[e] % RingSize] # Null
                      \/ \E m \in Mutators : mpc[m] = "entry" /\ mtail[m] = slot[e]
    BY DEF ClaimedEntryComes
  <2>1. /\ slot[e] < head
        /\ ring[slot[e]] # Null \/ \E m \in Mutators : mpc[m] = "entry" /\ mtail[m] = slot[e]
    BY DEF SnapInv, MarkInv, PumpAgrees
  <2>2. slot[e] \in Nat /\ slot[e] < RingSize
    BY <2>1, SizeAssumption DEF IInv, ExecTypes, RingTypes, SnapInv, MarkInv,
       RingAgrees, Unwrapped
  <2>3. slot[e] % RingSize = slot[e]
    BY <2>2, ModSmall
  <2> QED
    BY <2>1, <2>3
<1> QED
  BY <1>1, Invariance, SnapshotInvariance, PTL

(* Refinement: a stage whose ring stays unwrapped does what SatbMark       *)
(* promises, its end included.                                             *)
THEOREM SafeMarking == Spec /\ []Unwrapped => Satb!SafeSpec
<1>1. IInv /\ SnapshotOnly /\ SnapInv /\ Unwrapped /\ Unwrapped' /\ [Next]_vars
        => [Satb!Next]_<<Marked, stage = "PRUNE">>
  <2> SUFFICES ASSUME IInv, SnapshotOnly, SnapInv, Unwrapped, Unwrapped', [Next]_vars
               PROVE  [Satb!Next]_<<Marked, stage = "PRUNE">>
    OBVIOUS
  <2>1. CASE stage' = stage
    <3>1. CASE Marked' = Marked
      BY <2>1, <3>1
    <3>2. CASE Marked' # Marked
      <4>1. PICK o \in Snapshot : Marked' = Marked \cup {o}
        BY <3>2, MarksStep
      <4> QED
        BY <2>1, <3>2, <4>1 DEF Satb!Next, Satb!Mark
    <3> QED
      BY <3>1, <3>2
  <2>2. CASE stage' # stage
    <3>1. /\ stage = "MARK_SWEEP" /\ stage' = "PRUNE" /\ Marked' = Marked
          /\ \E e \in Executors : Retire(e)
      BY <2>2, StageStep
    <3>2. Snapshot \subseteq Marked
      BY <3>1 DEF Retire, SnapInv, MarkInv, TailAgrees, Complete
    <3> QED
      BY <3>1, <3>2 DEF Satb!Next, Satb!End, Satb!Stop
  <2> QED
    BY <2>1, <2>2
<1>2. Spec => Satb!Init
  BY SoundMarking, PTL DEF Satb!SoundSpec
<1> QED
  BY <1>1, <1>2, Invariance, SnapshotInvariance, PTL DEF Spec, Satb!SafeSpec
=============================================================================
