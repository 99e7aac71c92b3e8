--------------------------- MODULE GcMark_proofs ---------------------------
(***************************************************************************)
(* Proofs about GcMark, for any heap, any number of executors and mutators *)
(* and any sizes: the in-flight count is exact, a page has one owner, and  *)
(* marks are those of the snapshot and are never lost.                     *)
(***************************************************************************)
EXTENDS GcMark, FiniteSetTheorems, TLAPS

PCs == {"idle", "claim", "merge", "pass", "scan", "mark", "check", "again",
        "processed", "late", "publish", "release", "pump", "claimentry",
        "take", "needs", "landed", "empty", "try", "busy", "recheck",
        "writers1", "writers2", "ring1", "ring2", "flight1", "flight2",
        "overflow", "wipe", "zerotail", "zerohead", "rescan", "retire", "unlock"}
Scanning == {"pass", "scan", "mark", "check", "again", "processed", "late"}
Publishing == Scanning \cup {"merge", "publish"}
Counted == {"claimentry", "take", "needs", "landed"}
Checking == {"writers1", "writers2", "ring1", "ring2", "flight1", "flight2", "retire"}
MPCs == {"idle", "set", "epoch", "dedupe", "full", "cas", "entry", "leave", "store"}
Pushing == {"set", "epoch", "dedupe", "full", "cas", "entry", "leave"}

(* The types of every variable, those TypeOK leaves out included.          *)
Bits(b) == b \in [Pages -> SUBSET Objects] /\ \A p \in Pages : \A o \in b[p] : PageOf[o] = p
BitTypes == Bits(seen) /\ Bits(atomicSeen) /\ Bits(scanned)
HeapTypes ==
  /\ field \in [Objects -> Objects \cup {Null}]
  /\ epoch \in Nat
  /\ processed \in [Pages -> Nat] /\ \A p \in Pages : processed[p] <= epoch
  /\ pending \in [Pages -> BOOLEAN]
  /\ toScan \in SUBSET Pages /\ toPrune \in SUBSET Pages
  /\ followed \in SUBSET Objects
RingTypes ==
  /\ ring \in [0 .. RingSize - 1 -> Pages \cup {Null}]
  /\ head \in Nat /\ tail \in Nat /\ overflow \in BOOLEAN
  /\ stage \in {"MARK_SWEEP", "PRUNE"}
  /\ lock \in Executors \cup {Null} /\ fsaLock \in BOOLEAN
PcType == pc \in [Executors -> PCs]
ExecTypes ==
  /\ cur \in [Executors -> Pages \cup {Null}]
  /\ batch \in [Executors -> SUBSET Pages]
  /\ finished \in [Executors -> SUBSET Pages]
  /\ requeue \in [Executors -> SUBSET Pages]
  /\ \A e \in Executors : requeue[e] \subseteq finished[e]
  /\ todo \in [Executors -> SUBSET Objects]
  /\ worklist \in [Executors -> SUBSET Objects]
  /\ child \in [Executors -> Objects \cup {Null}]
  /\ draining \in [Executors -> BOOLEAN]
  /\ slot \in [Executors -> Nat]
  /\ taken \in [Executors -> Pages \cup {Null}]
  /\ inTail \in [Executors -> BOOLEAN]
MpcType == mpc \in [Mutators -> MPCs]
MutTypes ==
  /\ writing \in [Mutators -> Nat]
  /\ target \in [Mutators ->
       (Objects \cup {Null}) \X (Objects \cup {Null}) \X (Objects \cup {Null})]
  /\ mtail \in [Mutators -> Nat]
  /\ writes \in Nat

(* A batch is taken page by page from batch through cur to finished, and   *)
(* an executor outside the mark body has none of it left.                  *)
BatchAgrees == \A e \in Executors :
  /\ cur[e] # Null <=> pc[e] \in Scanning
  /\ cur[e] \notin batch[e] \cup finished[e]
  /\ batch[e] \cap finished[e] = {}
  /\ batch[e] # {} => pc[e] \in Scanning \cup {"merge"}
  /\ finished[e] # {} => pc[e] \in Publishing \cup {"release"}
  /\ requeue[e] # {} => pc[e] \in Publishing

(* What a scan has still to read.                                          *)
ScanAgrees == \A e \in Executors :
  /\ child[e] # Null <=> pc[e] \in {"mark", "check"}
  /\ todo[e] # {} => pc[e] \in {"scan", "mark", "check"} /\ ~draining[e]
  /\ draining[e] => pc[e] \in {"scan", "mark", "check"}
  /\ worklist[e] # {} => pc[e] \in Scanning \ {"late"}
  /\ taken[e] # Null <=> pc[e] = "needs"

(* The tail holds the pool lock over its checks; nothing else keeps it.    *)
LockAgrees == \A e \in Executors : lock = e <=> pc[e] \in Checking

(* A writer counts itself for as long as it may push.                      *)
WriterAgrees == \A m \in Mutators :
  /\ writing[m] = IF mpc[m] \in Pushing THEN 1 ELSE 0
  /\ mpc[m] # "idle" => target[m][1] \in Objects
  /\ mpc[m] \in Pushing => target[m][2] \in Objects

(* The in-flight count is the pages in the executors' hands and the pumps  *)
(* between their claim of an entry and its landing.                        *)
Hand(e) == batch[e] \cup finished[e] \cup (IF cur[e] = Null THEN {} ELSE {cur[e]})
InHand == {x \in Executors \X Pages : x[2] \in Hand(x[1])}
Pumping == {e \in Executors : pc[e] \in Counted}
FlightExact == inFlight = Cardinality(InHand) + Cardinality(Pumping)

IInv ==
  /\ BitTypes /\ HeapTypes /\ RingTypes
  /\ PcType /\ ExecTypes /\ MpcType /\ MutTypes
  /\ BatchAgrees /\ ScanAgrees /\ LockAgrees /\ WriterAgrees
  /\ FlightExact /\ OneOwner

(* Only what the snapshot reaches is ever read, marked or stored.          *)
FieldsOnly == \A o \in Snapshot : field[o] \in Snapshot \cup {Null}
BitsOnly == \A p \in Pages : seen[p] \cup atomicSeen[p] \cup scanned[p] \subseteq Snapshot
ScansOnly ==
  /\ followed \subseteq Snapshot
  /\ \A e \in Executors :
       /\ todo[e] \cup worklist[e] \subseteq Snapshot
       /\ child[e] \in Snapshot \cup {Null}
TargetsOnly == \A m \in Mutators : mpc[m] # "idle" =>
  /\ target[m][1] \in Snapshot
  /\ target[m][2] \in Snapshot \cup {Null}
  /\ target[m][3] \in Snapshot \cup {Null}
SnapshotOnly == FieldsOnly /\ BitsOnly /\ ScansOnly /\ TargetsOnly

-----------------------------------------------------------------------------
LEMMA SnapshotIn == Snapshot \subseteq Objects
BY DEF Snapshot

(* What is counted is finite.                                              *)
LEMMA CountedFinite ==
  /\ IsFiniteSet(InHand) /\ Cardinality(InHand) \in Nat
  /\ IsFiniteSet(Pumping) /\ Cardinality(Pumping) \in Nat
<1>1. IsFiniteSet(Executors \X Pages)
  BY HeapAssumption, FS_Product
<1> QED
  BY <1>1, HeapAssumption, FS_Subset, FS_CardinalityType DEF InHand, Pumping

LEMMA FlightSame ==
  ASSUME FlightExact, inFlight' = inFlight,
         \A e \in Executors : Hand(e)' = Hand(e),
         \A e \in Executors : pc'[e] \in Counted <=> pc[e] \in Counted
  PROVE  FlightExact'
<1>1. InHand' = InHand
  BY DEF InHand
<1>2. Pumping' = Pumping
  BY DEF Pumping
<1> QED
  BY <1>1, <1>2 DEF FlightExact

LEMMA ModRange ==
  ASSUME NEW i \in Nat
  PROVE  i % RingSize \in 0 .. RingSize - 1
BY SizeAssumption

(* A claim brings its pages into flight; a release takes them out; a pump  *)
(* counts itself.                                                          *)
LEMMA FlightGains ==
  ASSUME FlightExact, NEW e \in Executors, NEW B \in SUBSET Pages,
         inFlight' = inFlight + Cardinality(B), Hand(e) = {}, Hand(e)' = B,
         \A f \in Executors \ {e} : Hand(f)' = Hand(f),
         \A f \in Executors : pc'[f] \in Counted <=> pc[f] \in Counted
  PROVE  FlightExact'
<1>1. InHand' = InHand \cup ({e} \X B) /\ InHand \cap ({e} \X B) = {}
  BY DEF InHand
<1>2. Pumping' = Pumping
  BY DEF Pumping
<1>3. IsFiniteSet(B)
  BY HeapAssumption, FS_Subset
<1>4. IsFiniteSet({e}) /\ Cardinality({e}) = 1
  BY FS_Singleton
<1>5. IsFiniteSet({e} \X B) /\ Cardinality({e} \X B) = Cardinality(B)
  BY <1>3, <1>4, FS_Product, FS_CardinalityType
<1>6. Cardinality(InHand') = Cardinality(InHand) + Cardinality(B)
  <2>1. Cardinality(InHand \cap ({e} \X B)) = 0
    BY <1>1, FS_EmptySet
  <2>2. Cardinality(InHand \cup ({e} \X B))
        = Cardinality(InHand) + Cardinality({e} \X B) - Cardinality(InHand \cap ({e} \X B))
    BY <1>5, CountedFinite, FS_Union
  <2>3. Cardinality(B) \in Nat
    BY <1>3, FS_CardinalityType
  <2> QED
    BY <1>1, <1>5, <2>1, <2>2, <2>3, CountedFinite
<1> QED
  BY <1>2, <1>3, <1>6, CountedFinite, FS_CardinalityType DEF FlightExact

LEMMA FlightLoses ==
  ASSUME FlightExact, NEW e \in Executors, NEW B \in SUBSET Pages,
         inFlight' = inFlight - Cardinality(B), Hand(e) = B, Hand(e)' = {},
         \A f \in Executors \ {e} : Hand(f)' = Hand(f),
         \A f \in Executors : pc'[f] \in Counted <=> pc[f] \in Counted
  PROVE  FlightExact'
<1>1. InHand = InHand' \cup ({e} \X B) /\ InHand' \cap ({e} \X B) = {}
  BY DEF InHand
<1>2. Pumping' = Pumping
  BY DEF Pumping
<1>3. IsFiniteSet(B)
  BY HeapAssumption, FS_Subset
<1>4. IsFiniteSet({e}) /\ Cardinality({e}) = 1
  BY FS_Singleton
<1>5. IsFiniteSet({e} \X B) /\ Cardinality({e} \X B) = Cardinality(B)
  BY <1>3, <1>4, FS_Product, FS_CardinalityType
<1>6. IsFiniteSet(InHand') /\ Cardinality(InHand') \in Nat
  BY <1>1, CountedFinite, FS_Subset, FS_CardinalityType
<1>7. Cardinality(InHand) = Cardinality(InHand') + Cardinality(B)
  <2>1. Cardinality(InHand' \cap ({e} \X B)) = 0
    BY <1>1, FS_EmptySet
  <2>2. Cardinality(InHand' \cup ({e} \X B))
        = Cardinality(InHand') + Cardinality({e} \X B) - Cardinality(InHand' \cap ({e} \X B))
    BY <1>5, <1>6, FS_Union
  <2>3. Cardinality(B) \in Nat
    BY <1>3, FS_CardinalityType
  <2> QED
    BY <1>1, <1>5, <1>6, <2>1, <2>2, <2>3
<1> QED
  BY <1>2, <1>3, <1>6, <1>7, CountedFinite, FS_CardinalityType DEF FlightExact

LEMMA PumpEnters ==
  ASSUME FlightExact, NEW e \in Executors, inFlight' = inFlight + 1,
         \A f \in Executors : Hand(f)' = Hand(f),
         Pumping' = Pumping \cup {e}, e \notin Pumping
  PROVE  FlightExact'
<1>1. InHand' = InHand
  BY DEF InHand
<1>2. Cardinality(Pumping') = Cardinality(Pumping) + 1
  BY CountedFinite, FS_AddElement
<1> QED
  BY <1>1, <1>2, CountedFinite DEF FlightExact

LEMMA PumpLeaves ==
  ASSUME FlightExact, NEW e \in Executors, inFlight' = inFlight - 1,
         \A f \in Executors : Hand(f)' = Hand(f),
         Pumping' = Pumping \ {e}, e \in Pumping
  PROVE  FlightExact'
<1>1. InHand' = InHand
  BY DEF InHand
<1>2. Cardinality(Pumping') = Cardinality(Pumping) - 1
  BY CountedFinite, FS_RemoveElement
<1> QED
  BY <1>1, <1>2, CountedFinite DEF FlightExact


(* The invariant holds when the stage begins.                              *)
LEMMA InitIInv == Init => IInv
<1> SUFFICES ASSUME Init PROVE IInv
  OBVIOUS
<1> USE HeapAssumption, SizeAssumption
<1>1. BitTypes /\ HeapTypes /\ RingTypes
  <2>1. Bits(seen) /\ Bits(scanned)
    BY DEF Init, Bits
  <2>2. Bits(atomicSeen)
    BY DEF Init, Bits
  <2>3. processed \in [Pages -> Nat] /\ \A p \in Pages : processed[p] <= epoch
    BY DEF Init
  <2>4. HeapTypes
    BY <2>3 DEF Init, HeapTypes
  <2> QED
    BY <2>1, <2>2, <2>4 DEF Init, BitTypes, RingTypes
<1>5. PcType /\ ExecTypes /\ MpcType /\ MutTypes
  BY DEF Init, PcType, ExecTypes, MpcType, MutTypes, PCs, MPCs
<1>2. BatchAgrees /\ ScanAgrees /\ LockAgrees /\ WriterAgrees
  BY DEF Init, BatchAgrees, ScanAgrees, LockAgrees, WriterAgrees, Scanning,
     Publishing, Checking, Pushing
<1>3. FlightExact
  <2>1. InHand = {} /\ Pumping = {}
    BY DEF Init, InHand, Hand, Pumping, Counted
  <2> QED
    BY <2>1, FS_EmptySet DEF Init, FlightExact
<1>4. OneOwner
  BY DEF Init, OneOwner, Claimed
<1> QED
  BY <1>1, <1>2, <1>3, <1>4, <1>5 DEF IInv

-----------------------------------------------------------------------------
(* Every step keeps the invariant.                                         *)
LEMMA NextIInv == IInv /\ [Next]_vars => IInv'
<1> SUFFICES ASSUME IInv, [Next]_vars PROVE IInv'
  OBVIOUS
<1> USE HeapAssumption, SizeAssumption
<1>t. BitTypes
  BY DEF IInv
<1>p. PcType
  BY DEF IInv
<1>mp. MpcType
  BY DEF IInv
<1>h. HeapTypes
  BY DEF IInv
<1>r. RingTypes
  BY DEF IInv
<1>x. ExecTypes
  BY DEF IInv
<1>m. MutTypes
  BY DEF IInv
<1>b. BatchAgrees
  BY DEF IInv
<1>s. ScanAgrees
  BY DEF IInv
<1>l. LockAgrees
  BY DEF IInv
<1>w. WriterAgrees
  BY DEF IInv
<1>f. FlightExact
  BY DEF IInv
<1>o. OneOwner
  BY DEF IInv
<1> USE DEF Goto, MGoto, pageVars, listVars, ringVars, scanVars, batchVars, pumpVars,
            mutVars, heapVars, ctlVars, sharedVars, execVars
<1>1. ASSUME NEW m \in Mutators, NEW o \in Mutable \cap Snapshot,
              NEW v \in NewValues \cap (Snapshot \cup {Null}), Barrier(m, o, v)
      PROVE  IInv'
  <2>1. /\ BitTypes' /\ HeapTypes' /\ RingTypes' /\ PcType' /\ ExecTypes'
        /\ BatchAgrees' /\ ScanAgrees' /\ LockAgrees' /\ FlightExact'
        /\ OneOwner'
    BY <1>t, <1>h, <1>r, <1>p, <1>x, <1>b, <1>s, <1>l, <1>f, <1>o, <1>1 DEF Barrier,
       BitTypes, HeapTypes, RingTypes, PcType, ExecTypes, BatchAgrees, ScanAgrees,
       LockAgrees, FlightExact, OneOwner, Bits, InHand, Hand, Pumping, Claimed
  <2>2. MpcType'
    BY <1>mp, <1>m, <1>1, SnapshotIn DEF Barrier, MutTypes, MpcType, MPCs
  <2>3. MutTypes'
    <3>1. o \in Objects /\ field[o] \in Objects \cup {Null} /\ v \in Objects \cup {Null}
      BY <1>h, SnapshotIn DEF HeapTypes
    <3>2. target' \in [Mutators ->
            (Objects \cup {Null}) \X (Objects \cup {Null}) \X (Objects \cup {Null})]
      <4>1. <<o, field[o], v>> \in
              (Objects \cup {Null}) \X (Objects \cup {Null}) \X (Objects \cup {Null})
        BY <3>1
      <4>2. target' = [target EXCEPT ![m] = <<o, field[o], v>>]
        BY <1>1 DEF Barrier
      <4> QED
        BY <1>m, <4>1, <4>2 DEF MutTypes
    <3>3. writing' \in [Mutators -> Nat]
      BY <1>m, <1>1 DEF Barrier, MutTypes
    <3> QED
      BY <1>m, <1>1, <3>2, <3>3 DEF Barrier, MutTypes
  <2>4. WriterAgrees'
    BY <1>h, <1>m, <1>mp, <1>w, <1>1, SnapshotIn DEF Barrier, HeapTypes, MutTypes,
       MpcType, WriterAgrees, Pushing
  <2> QED
    BY <2>1, <2>2, <2>3, <2>4 DEF IInv
<1>2. ASSUME NEW m \in Mutators, PushSet(m)
      PROVE  IInv'
  <2>1. /\ HeapTypes' /\ RingTypes' /\ PcType' /\ ExecTypes' /\ MutTypes'
        /\ BatchAgrees' /\ ScanAgrees' /\ LockAgrees' /\ FlightExact'
        /\ OneOwner'
    BY <1>h, <1>r, <1>p, <1>x, <1>m, <1>b, <1>s, <1>l, <1>f, <1>o, <1>2 DEF PushSet,
       TargetPage, HeapTypes, RingTypes, PcType, ExecTypes, MutTypes, BatchAgrees,
       ScanAgrees, LockAgrees, FlightExact, OneOwner, InHand, Hand, Pumping, Claimed
  <2>2. BitTypes'
    BY <1>t, <1>w, <1>2 DEF PushSet, TargetPage, WriterAgrees, BitTypes, Bits, Pushing
  <2>3. MpcType'
    BY <1>mp, <1>m, <1>2 DEF PushSet, TargetPage, MutTypes, MpcType, MPCs
  <2>4. WriterAgrees'
    BY <1>h, <1>m, <1>mp, <1>w, <1>2 DEF PushSet, TargetPage, HeapTypes, MutTypes,
       MpcType, WriterAgrees, Pushing
  <2> QED
    BY <2>1, <2>2, <2>3, <2>4 DEF IInv
<1>3. ASSUME NEW m \in Mutators, PushEpoch(m)
      PROVE  IInv'
  <2>1. /\ BitTypes' /\ HeapTypes' /\ RingTypes' /\ PcType' /\ ExecTypes'
        /\ MutTypes' /\ BatchAgrees' /\ ScanAgrees' /\ LockAgrees'
        /\ FlightExact' /\ OneOwner'
    <3>1. UNCHANGED <<field, seen, atomicSeen, scanned, processed, pending, epoch, listVars,
                      inFlight, ringVars, ctlVars, pc, execVars, writing, target, mtail, writes>>
      BY <1>3 DEF PushEpoch
    <3>2. /\ BitTypes' /\ HeapTypes' /\ RingTypes' /\ PcType'
      BY <1>t, <1>h, <1>r, <1>p, <3>1 DEF BitTypes, HeapTypes, RingTypes, PcType, Bits
    <3>3. /\ ExecTypes' /\ MutTypes' /\ BatchAgrees' /\ ScanAgrees' /\ LockAgrees'
      BY <1>x, <1>m, <1>b, <1>s, <1>l, <3>1 DEF ExecTypes, MutTypes, BatchAgrees, ScanAgrees,
         LockAgrees
    <3>4. FlightExact' /\ OneOwner'
      BY <1>f, <1>o, <3>1 DEF FlightExact, OneOwner, InHand, Hand, Pumping, Claimed
    <3> QED
      BY <3>2, <3>3, <3>4
  <2>2. MpcType'
    BY <1>mp, <1>m, <1>3 DEF PushEpoch, TargetPage, MutTypes, MpcType, MPCs
  <2>3. WriterAgrees'
    BY <1>h, <1>m, <1>mp, <1>w, <1>3 DEF PushEpoch, TargetPage, HeapTypes, MutTypes,
       MpcType, WriterAgrees, Pushing
  <2> QED
    BY <2>1, <2>2, <2>3 DEF IInv
<1>4. ASSUME NEW m \in Mutators, PushDedupe(m)
      PROVE  IInv'
  <2>1. /\ BitTypes' /\ HeapTypes' /\ RingTypes' /\ PcType' /\ ExecTypes'
        /\ BatchAgrees' /\ ScanAgrees' /\ LockAgrees' /\ FlightExact'
        /\ OneOwner'
    BY <1>t, <1>h, <1>r, <1>p, <1>x, <1>b, <1>s, <1>l, <1>f, <1>o,
       <1>4 DEF PushDedupe, TargetPage, BitTypes, HeapTypes, RingTypes, PcType,
       ExecTypes, BatchAgrees, ScanAgrees, LockAgrees, FlightExact, OneOwner, Bits,
       InHand, Hand, Pumping, Claimed
  <2>2. MpcType'
    BY <1>mp, <1>m, <1>4 DEF PushDedupe, TargetPage, MutTypes, MpcType, MPCs
  <2>3. MutTypes'
    <3>1. UNCHANGED <<writing, target, writes>> /\ mtail' \in {mtail, [mtail EXCEPT ![m] = tail]}
      BY <1>4 DEF PushDedupe
    <3>2. mtail' \in [Mutators -> Nat]
      BY <1>r, <1>m, <3>1 DEF RingTypes, MutTypes
    <3> QED
      BY <1>m, <3>1, <3>2 DEF MutTypes
  <2>4. WriterAgrees'
    BY <1>h, <1>m, <1>mp, <1>w, <1>4 DEF PushDedupe, TargetPage, HeapTypes, MutTypes,
       MpcType, WriterAgrees, Pushing
  <2> QED
    BY <2>1, <2>2, <2>3, <2>4 DEF IInv
<1>5. ASSUME NEW m \in Mutators, PushFull(m)
      PROVE  IInv'
  <2>1. /\ BitTypes' /\ HeapTypes' /\ PcType' /\ ExecTypes' /\ MutTypes'
        /\ BatchAgrees' /\ ScanAgrees' /\ LockAgrees' /\ FlightExact'
        /\ OneOwner'
    BY <1>t, <1>h, <1>p, <1>x, <1>m, <1>b, <1>s, <1>l, <1>f, <1>o, <1>5 DEF PushFull,
       BitTypes, HeapTypes, PcType, ExecTypes, MutTypes, BatchAgrees, ScanAgrees,
       LockAgrees, FlightExact, OneOwner, Bits, InHand, Hand, Pumping, Claimed
  <2>2. RingTypes'
    BY <1>r, <1>x, <1>m, <1>mp, <1>w, <1>5 DEF PushFull, ExecTypes, MutTypes,
       MpcType, WriterAgrees, RingTypes
  <2>3. MpcType'
    BY <1>mp, <1>m, <1>5 DEF PushFull, MutTypes, MpcType, MPCs
  <2>4. WriterAgrees'
    BY <1>h, <1>m, <1>mp, <1>w, <1>5 DEF PushFull, HeapTypes, MutTypes, MpcType,
       WriterAgrees, Pushing
  <2> QED
    BY <2>1, <2>2, <2>3, <2>4 DEF IInv
<1>6. ASSUME NEW m \in Mutators, PushCas(m)
      PROVE  IInv'
  <2>1. /\ BitTypes' /\ HeapTypes' /\ PcType' /\ ExecTypes' /\ BatchAgrees'
        /\ ScanAgrees' /\ LockAgrees' /\ FlightExact' /\ OneOwner'
    BY <1>t, <1>h, <1>p, <1>x, <1>b, <1>s, <1>l, <1>f, <1>o, <1>6 DEF PushCas,
       BitTypes, HeapTypes, PcType, ExecTypes, BatchAgrees, ScanAgrees, LockAgrees,
       FlightExact, OneOwner, Bits, InHand, Hand, Pumping, Claimed
  <2>2. RingTypes'
    BY <1>r, <1>x, <1>m, <1>mp, <1>w, <1>6 DEF PushCas, ExecTypes, MutTypes, MpcType,
       WriterAgrees, RingTypes
  <2>3. MpcType'
    BY <1>mp, <1>m, <1>6 DEF PushCas, MutTypes, MpcType, MPCs
  <2>4. MutTypes'
    BY <1>h, <1>r, <1>m, <1>w, <1>mp, <1>6 DEF PushCas, HeapTypes, RingTypes,
       WriterAgrees, MpcType, MutTypes, Pushing
  <2>5. WriterAgrees'
    BY <1>h, <1>m, <1>mp, <1>w, <1>6 DEF PushCas, HeapTypes, MutTypes, MpcType,
       WriterAgrees, Pushing
  <2> QED
    BY <2>1, <2>2, <2>3, <2>4, <2>5 DEF IInv
<1>7. ASSUME NEW m \in Mutators, PushEntry(m)
      PROVE  IInv'
  <2>1. /\ BitTypes' /\ HeapTypes' /\ PcType' /\ ExecTypes' /\ MutTypes'
        /\ BatchAgrees' /\ ScanAgrees' /\ LockAgrees' /\ FlightExact'
        /\ OneOwner'
    BY <1>t, <1>h, <1>p, <1>x, <1>m, <1>b, <1>s, <1>l, <1>f, <1>o,
       <1>7 DEF PushEntry, TargetPage, BitTypes, HeapTypes, PcType, ExecTypes,
       MutTypes, BatchAgrees, ScanAgrees, LockAgrees, FlightExact, OneOwner, Bits,
       InHand, Hand, Pumping, Claimed
  <2>2. RingTypes'
    <3>1. TargetPage(m) \in Pages /\ mtail[m] % RingSize \in 0 .. RingSize - 1
      BY <1>m, <1>w, <1>7, ModRange DEF PushEntry, TargetPage, WriterAgrees, Pushing,
         MutTypes
    <3> QED
      BY <1>r, <3>1, <1>7 DEF PushEntry, RingTypes
  <2>3. MpcType'
    BY <1>mp, <1>m, <1>7 DEF PushEntry, TargetPage, MutTypes, MpcType, MPCs
  <2>4. WriterAgrees'
    BY <1>h, <1>m, <1>mp, <1>w, <1>7 DEF PushEntry, TargetPage, HeapTypes, MutTypes,
       MpcType, WriterAgrees, Pushing
  <2> QED
    BY <2>1, <2>2, <2>3, <2>4 DEF IInv
<1>8. ASSUME NEW m \in Mutators, PushLeave(m)
      PROVE  IInv'
  <2>1. /\ BitTypes' /\ HeapTypes' /\ RingTypes' /\ PcType' /\ ExecTypes'
        /\ BatchAgrees' /\ ScanAgrees' /\ LockAgrees' /\ FlightExact'
        /\ OneOwner'
    BY <1>t, <1>h, <1>r, <1>p, <1>x, <1>b, <1>s, <1>l, <1>f, <1>o,
       <1>8 DEF PushLeave, BitTypes, HeapTypes, RingTypes, PcType, ExecTypes,
       BatchAgrees, ScanAgrees, LockAgrees, FlightExact, OneOwner, Bits, InHand,
       Hand, Pumping, Claimed
  <2>2. MpcType'
    BY <1>mp, <1>m, <1>8 DEF PushLeave, MutTypes, MpcType, MPCs
  <2>3. MutTypes'
    BY <1>h, <1>r, <1>m, <1>w, <1>mp, <1>8 DEF PushLeave, HeapTypes, RingTypes,
       WriterAgrees, MpcType, MutTypes, Pushing
  <2>4. WriterAgrees'
    BY <1>h, <1>m, <1>mp, <1>w, <1>8 DEF PushLeave, HeapTypes, MutTypes, MpcType,
       WriterAgrees, Pushing
  <2> QED
    BY <2>1, <2>2, <2>3, <2>4 DEF IInv
<1>9. ASSUME NEW m \in Mutators, Store(m)
      PROVE  IInv'
  <2>1. /\ BitTypes' /\ RingTypes' /\ PcType' /\ ExecTypes' /\ BatchAgrees'
        /\ ScanAgrees' /\ LockAgrees' /\ FlightExact' /\ OneOwner'
    BY <1>t, <1>r, <1>p, <1>x, <1>b, <1>s, <1>l, <1>f, <1>o, <1>9 DEF Store,
       BitTypes, RingTypes, PcType, ExecTypes, BatchAgrees, ScanAgrees, LockAgrees,
       FlightExact, OneOwner, Bits, InHand, Hand, Pumping, Claimed
  <2>2. HeapTypes'
    BY <1>h, <1>x, <1>m, <1>b, <1>s, <1>w, <1>mp, <1>9 DEF Store, ExecTypes,
       MutTypes, BatchAgrees, ScanAgrees, WriterAgrees, MpcType, HeapTypes, Pushing,
       Scanning
  <2>3. MpcType'
    BY <1>mp, <1>m, <1>9 DEF Store, MutTypes, MpcType, MPCs
  <2>4. MutTypes'
    BY <1>h, <1>r, <1>m, <1>w, <1>mp, <1>9 DEF Store, HeapTypes, RingTypes,
       WriterAgrees, MpcType, MutTypes, Pushing
  <2>5. WriterAgrees'
    BY <1>h, <1>m, <1>mp, <1>w, <1>9 DEF Store, HeapTypes, MutTypes, MpcType,
       WriterAgrees, Pushing
  <2> QED
    BY <2>1, <2>2, <2>3, <2>4, <2>5 DEF IInv
<1>10. ASSUME NEW e \in Executors, Enter(e)
      PROVE  IInv'
  <2>1. /\ BitTypes' /\ HeapTypes' /\ RingTypes' /\ ExecTypes' /\ MpcType'
        /\ MutTypes' /\ WriterAgrees'
    BY <1>t, <1>h, <1>r, <1>x, <1>mp, <1>m, <1>w, <1>10 DEF Enter, BitTypes,
       HeapTypes, RingTypes, ExecTypes, MpcType, MutTypes, WriterAgrees, Bits
  <2>2. PcType'
    BY <1>p, <1>x, <1>10 DEF Enter, ExecTypes, PcType, PCs
  <2>3. BatchAgrees'
    BY <1>x, <1>p, <1>b, <1>10 DEF Enter, ExecTypes, PcType, BatchAgrees, Scanning,
       Publishing
  <2>4. ScanAgrees'
    BY <1>h, <1>x, <1>p, <1>b, <1>s, <1>r, <1>10 DEF Enter, HeapTypes, ExecTypes,
       PcType, BatchAgrees, RingTypes, ScanAgrees, Scanning
  <2>5. LockAgrees'
    BY <1>r, <1>p, <1>l, <1>10 DEF Enter, RingTypes, PcType, LockAgrees, Checking
  <2>6. FlightExact'
    BY <1>x, <1>p, <1>b, <1>f, <1>10, FlightSame DEF Enter, ExecTypes, PcType, Hand,
       Counted
  <2>7. OneOwner'
    BY <1>h, <1>x, <1>p, <1>b, <1>s, <1>o, <1>10 DEF Enter, HeapTypes, ExecTypes,
       PcType, BatchAgrees, ScanAgrees, OneOwner, OneOwner, Claimed
  <2> QED
    BY <2>1, <2>2, <2>3, <2>4, <2>5, <2>6, <2>7 DEF IInv
<1>11. ASSUME NEW e \in Executors, Claim(e)
      PROVE  IInv'
  <2>1. /\ BitTypes' /\ RingTypes' /\ MpcType' /\ MutTypes' /\ WriterAgrees'
    BY <1>t, <1>r, <1>mp, <1>m, <1>w, <1>11 DEF Claim, BitTypes, RingTypes, MpcType,
       MutTypes, WriterAgrees, Bits
  <2>2. HeapTypes'
    <3>1. UNCHANGED <<field, epoch, processed, toPrune, followed>>
      BY <1>11 DEF Claim
    <3>2. toScan' \in SUBSET Pages
      BY <1>h, <1>11 DEF Claim, HeapTypes
    <3>3. pending' \in [Pages -> BOOLEAN]
      BY <1>h, <1>11 DEF Claim, HeapTypes
    <3> QED
      BY <1>h, <3>1, <3>2, <3>3 DEF HeapTypes
  <2>3. PcType'
    BY <1>p, <1>x, <1>11 DEF Claim, ExecTypes, PcType, PCs
  <2>4. ExecTypes'
    BY <1>x, <1>h, <1>11 DEF Claim, HeapTypes, ExecTypes
  <2>5. BatchAgrees'
    <3>1. PICK B \in SUBSET Pages : batch' = [batch EXCEPT ![e] = B] /\ (B # {} => pc'[e] = "merge")
      <4>1. CASE UNCHANGED batch
        BY <1>x, <1>b, <4>1, <1>11 DEF Claim, ExecTypes, BatchAgrees, Scanning
      <4>2. CASE ~UNCHANGED batch
        BY <1>h, <1>p, <4>2, <1>11 DEF Claim, HeapTypes, PcType
      <4> QED
        BY <4>1, <4>2
    <3>2. /\ UNCHANGED <<cur, finished, requeue>> /\ pc[e] = "claim"
          /\ pc'[e] \notin Scanning /\ \A f \in Executors \ {e} : pc'[f] = pc[f]
      BY <1>p, <1>11 DEF Claim, PcType, Scanning
    <3> QED
      BY <1>x, <1>b, <3>1, <3>2 DEF ExecTypes, BatchAgrees, Scanning, Publishing
  <2>6. ScanAgrees'
    BY <1>h, <1>x, <1>p, <1>b, <1>s, <1>r, <1>11 DEF Claim, HeapTypes, ExecTypes,
       PcType, BatchAgrees, RingTypes, ScanAgrees, Scanning
  <2>7. LockAgrees'
    BY <1>r, <1>p, <1>l, <1>11 DEF Claim, RingTypes, PcType, LockAgrees, Checking
  <2>8. FlightExact'
    <3>0. pc[e] = "claim" /\ batch[e] = {} /\ cur[e] = Null /\ finished[e] = {}
      BY <1>b, <1>11 DEF Claim, BatchAgrees, Scanning, Publishing
    <3>1. \A f \in Executors : pc'[f] \in Counted <=> pc[f] \in Counted
      BY <1>p, <1>11 DEF Claim, PcType, Counted
    <3>2. CASE UNCHANGED <<batch, inFlight>>
      BY <1>f, <3>1, <3>2, <1>11, FlightSame DEF Claim, Hand
    <3>3. CASE ~UNCHANGED <<batch, inFlight>>
      <4>1. PICK B \in SUBSET toScan : /\ inFlight' = inFlight + Cardinality(B)
                                     /\ batch' = [batch EXCEPT ![e] = B]
        BY <3>3, <1>11 DEF Claim
      <4>2. B \in SUBSET Pages
        BY <1>h, <4>1 DEF HeapTypes
      <4>3. UNCHANGED <<cur, finished>>
        BY <1>11 DEF Claim
      <4>4. Hand(e) = {} /\ Hand(e)' = B /\ \A f \in Executors \ {e} : Hand(f)' = Hand(f)
        BY <1>x, <3>0, <4>1, <4>3 DEF Hand, ExecTypes
      <4> QED
        BY <1>f, <3>1, <4>1, <4>2, <4>4, FlightGains
    <3> QED
      BY <3>2, <3>3
  <2>9. OneOwner'
    <3>0. lock = Null /\ pc[e] = "claim" /\ batch[e] = {} /\ cur[e] = Null /\ finished[e] = {}
      BY <1>b, <1>11 DEF Claim, BatchAgrees, Scanning, Publishing
    <3>1. PICK B \in SUBSET toScan : toScan' = toScan \ B /\ batch' = [batch EXCEPT ![e] = B]
      BY <1>x, <3>0, <1>11 DEF Claim, ExecTypes
    <3>2. /\ UNCHANGED <<cur, finished, toPrune>>
          /\ \A f \in Executors \ {e} : pc'[f] = pc[f]
      BY <1>p, <1>11 DEF Claim, PcType
    <3>3. Claimed(e) = {} /\ Claimed(e)' = B
      BY <1>x, <3>0, <3>1, <3>2 DEF Claimed, ExecTypes
    <3>4. \A f \in Executors \ {e} : Claimed(f)' = Claimed(f)
      BY <1>x, <3>1, <3>2 DEF Claimed, ExecTypes
    <3> QED
      BY <1>o, <3>1, <3>2, <3>3, <3>4 DEF OneOwner
  <2> QED
    BY <2>1, <2>2, <2>3, <2>4, <2>5, <2>6, <2>7, <2>8, <2>9 DEF IInv
<1>12. ASSUME NEW e \in Executors, MergeFirst(e)
      PROVE  IInv'
  <2>1. /\ HeapTypes' /\ RingTypes' /\ MpcType' /\ MutTypes' /\ WriterAgrees'
    BY <1>h, <1>r, <1>mp, <1>m, <1>w, <1>12 DEF MergeFirst, HeapTypes, RingTypes,
       MpcType, MutTypes, WriterAgrees
  <2>2. BitTypes'
    BY <1>t, <1>x, <1>12 DEF MergeFirst, ExecTypes, BitTypes, Bits
  <2>3. PcType'
    BY <1>p, <1>x, <1>12 DEF MergeFirst, ExecTypes, PcType, PCs
  <2>4. ExecTypes'
    BY <1>h, <1>t, <1>r, <1>x, <1>p, <1>b, <1>s, <1>12 DEF MergeFirst, HeapTypes,
       BitTypes, RingTypes, PcType, BatchAgrees, ScanAgrees, ExecTypes, Scanning
  <2>5. BatchAgrees'
    BY <1>x, <1>p, <1>b, <1>12 DEF MergeFirst, ExecTypes, PcType, BatchAgrees,
       Scanning, Publishing
  <2>6. ScanAgrees'
    BY <1>h, <1>x, <1>p, <1>b, <1>s, <1>r, <1>12 DEF MergeFirst, HeapTypes,
       ExecTypes, PcType, BatchAgrees, RingTypes, ScanAgrees, Scanning
  <2>7. LockAgrees'
    BY <1>r, <1>p, <1>l, <1>12 DEF MergeFirst, RingTypes, PcType, LockAgrees, Checking
  <2>8. FlightExact'
    <3>1. ASSUME NEW f \in Executors \ {e} PROVE Hand(f)' = Hand(f)
      BY <1>x, <1>12 DEF MergeFirst, Hand, ExecTypes
    <3>2. Hand(e)' = Hand(e)
      BY <1>x, <1>b, <1>12 DEF MergeFirst, Hand, ExecTypes, BatchAgrees, Scanning
    <3>3. \A f \in Executors : pc'[f] \in Counted <=> pc[f] \in Counted
      BY <1>p, <1>12 DEF MergeFirst, PcType, Counted
    <3>4. inFlight' = inFlight
      BY <1>12 DEF MergeFirst
    <3> QED
      BY <1>f, <3>1, <3>2, <3>3, <3>4, FlightSame
  <2>9. OneOwner'
    <3>1. \A f \in Executors : Claimed(f)' = Claimed(f)
      <4>1. ASSUME NEW f \in Executors \ {e} PROVE Claimed(f)' = Claimed(f)
        BY <1>x, <1>p, <1>12 DEF MergeFirst, Claimed, ExecTypes, PcType
      <4>2. Claimed(e)' = Claimed(e)
        BY <1>x, <1>p, <1>b, <1>12 DEF MergeFirst, Claimed, ExecTypes, PcType,
           BatchAgrees, Scanning
      <4> QED
        BY <4>1, <4>2
    <3> QED
      BY <1>o, <3>1, <1>12 DEF MergeFirst, OneOwner
  <2> QED
    BY <2>1, <2>2, <2>3, <2>4, <2>5, <2>6, <2>7, <2>8, <2>9 DEF IInv
<1>13. ASSUME NEW e \in Executors, ScanPage(e)
      PROVE  IInv'
  <2>1. /\ HeapTypes' /\ RingTypes' /\ MpcType' /\ MutTypes' /\ WriterAgrees'
    BY <1>h, <1>r, <1>mp, <1>m, <1>w, <1>13 DEF ScanPage, HeapTypes, RingTypes,
       MpcType, MutTypes, WriterAgrees
  <2>2. BitTypes'
    BY <1>t, <1>x, <1>b, <1>13 DEF ScanPage, ExecTypes, BatchAgrees, BitTypes, Bits, Scanning
  <2>3. PcType'
    BY <1>p, <1>x, <1>13 DEF ScanPage, ExecTypes, PcType, PCs
  <2>4. ExecTypes'
    BY <1>x, <1>t, <1>b, <1>p, <1>13 DEF ScanPage, BitTypes, BatchAgrees, PcType,
       ExecTypes, Scanning, Bits
  <2>5. BatchAgrees'
    BY <1>x, <1>p, <1>b, <1>13 DEF ScanPage, ExecTypes, PcType, BatchAgrees,
       Scanning, Publishing
  <2>6. ScanAgrees'
    BY <1>h, <1>x, <1>p, <1>b, <1>s, <1>r, <1>13 DEF ScanPage, HeapTypes, ExecTypes,
       PcType, BatchAgrees, RingTypes, ScanAgrees, Scanning
  <2>7. LockAgrees'
    BY <1>r, <1>p, <1>l, <1>13 DEF ScanPage, RingTypes, PcType, LockAgrees, Checking
  <2>8. FlightExact'
    BY <1>x, <1>p, <1>b, <1>f, <1>13, FlightSame DEF ScanPage, ExecTypes, PcType,
       Hand, Counted
  <2>9. OneOwner'
    BY <1>h, <1>x, <1>p, <1>b, <1>s, <1>o, <1>13 DEF ScanPage, HeapTypes, ExecTypes,
       PcType, BatchAgrees, ScanAgrees, OneOwner, OneOwner, Claimed
  <2> QED
    BY <2>1, <2>2, <2>3, <2>4, <2>5, <2>6, <2>7, <2>8, <2>9 DEF IInv
<1>14. ASSUME NEW e \in Executors, ScanObject(e)
      PROVE  IInv'
  <2>1. /\ BitTypes' /\ RingTypes' /\ MpcType' /\ MutTypes' /\ WriterAgrees'
    BY <1>t, <1>r, <1>mp, <1>m, <1>w, <1>14 DEF ScanObject, ScanRead, BitTypes,
       RingTypes, MpcType, MutTypes, WriterAgrees, Bits
  <2>2. HeapTypes'
    BY <1>h, <1>x, <1>m, <1>b, <1>s, <1>w, <1>mp, <1>14 DEF ScanObject, ScanRead,
       ExecTypes, MutTypes, BatchAgrees, ScanAgrees, WriterAgrees, MpcType,
       HeapTypes, Pushing, Scanning
  <2>3. PcType'
    BY <1>p, <1>x, <1>14 DEF ScanObject, ScanRead, ExecTypes, PcType, PCs
  <2>4. ExecTypes'
    BY <1>x, <1>h, <1>14 DEF ScanObject, ScanRead, HeapTypes, ExecTypes
  <2>5. BatchAgrees'
    BY <1>x, <1>p, <1>b, <1>14 DEF ScanObject, ScanRead, ExecTypes, PcType,
       BatchAgrees, Scanning, Publishing
  <2>6. ScanAgrees'
    BY <1>h, <1>x, <1>p, <1>s, <1>14 DEF ScanObject, ScanRead, HeapTypes, ExecTypes,
       PcType, ScanAgrees, Scanning
  <2>7. LockAgrees'
    BY <1>r, <1>p, <1>l, <1>14 DEF ScanObject, ScanRead, RingTypes, PcType,
       LockAgrees, Checking
  <2>8. FlightExact'
    BY <1>x, <1>p, <1>b, <1>f, <1>14, FlightSame DEF ScanObject, ScanRead, ExecTypes,
       PcType, Hand, Counted
  <2>9. OneOwner'
    BY <1>h, <1>x, <1>p, <1>b, <1>s, <1>o, <1>14 DEF ScanObject, ScanRead, HeapTypes,
       ExecTypes, PcType, BatchAgrees, ScanAgrees, OneOwner, OneOwner, Claimed
  <2> QED
    BY <2>1, <2>2, <2>3, <2>4, <2>5, <2>6, <2>7, <2>8, <2>9 DEF IInv
<1>15. ASSUME NEW e \in Executors, MarkSet(e)
      PROVE  IInv'
  <2>1. /\ HeapTypes' /\ RingTypes' /\ MpcType' /\ MutTypes' /\ WriterAgrees'
    BY <1>h, <1>r, <1>mp, <1>m, <1>w, <1>15 DEF MarkSet, HeapTypes, RingTypes,
       MpcType, MutTypes, WriterAgrees
  <2>2. BitTypes'
    BY <1>t, <1>x, <1>s, <1>15 DEF MarkSet, ExecTypes, ScanAgrees, BitTypes, Bits
  <2>3. PcType'
    BY <1>p, <1>x, <1>15 DEF MarkSet, ExecTypes, PcType, PCs
  <2>4. ExecTypes'
    BY <1>x, <1>15 DEF MarkSet, ExecTypes
  <2>5. BatchAgrees'
    BY <1>x, <1>p, <1>b, <1>15 DEF MarkSet, ExecTypes, PcType, BatchAgrees, Scanning,
       Publishing
  <2>6. ScanAgrees'
    BY <1>x, <1>p, <1>s, <1>15 DEF MarkSet, ExecTypes, PcType, ScanAgrees, Scanning
  <2>7. LockAgrees'
    BY <1>r, <1>p, <1>l, <1>15 DEF MarkSet, RingTypes, PcType, LockAgrees, Checking
  <2>8. FlightExact'
    BY <1>x, <1>p, <1>b, <1>f, <1>15, FlightSame DEF MarkSet, ExecTypes, PcType,
       Hand, Counted
  <2>9. OneOwner'
    BY <1>h, <1>x, <1>p, <1>b, <1>s, <1>o, <1>15 DEF MarkSet, HeapTypes, ExecTypes,
       PcType, BatchAgrees, ScanAgrees, OneOwner, OneOwner, Claimed
  <2> QED
    BY <2>1, <2>2, <2>3, <2>4, <2>5, <2>6, <2>7, <2>8, <2>9 DEF IInv
<1>16. ASSUME NEW e \in Executors, MarkCheck(e)
      PROVE  IInv'
  <2>1. /\ BitTypes' /\ HeapTypes' /\ RingTypes' /\ MpcType' /\ MutTypes'
        /\ WriterAgrees'
    BY <1>t, <1>h, <1>r, <1>mp, <1>m, <1>w, <1>16 DEF MarkCheck, BitTypes, HeapTypes,
       RingTypes, MpcType, MutTypes, WriterAgrees, Bits
  <2>2. PcType'
    BY <1>p, <1>x, <1>16 DEF MarkCheck, ExecTypes, PcType, PCs
  <2>3. ExecTypes'
    BY <1>h, <1>t, <1>r, <1>x, <1>p, <1>b, <1>s, <1>16 DEF MarkCheck, HeapTypes,
       BitTypes, RingTypes, PcType, BatchAgrees, ScanAgrees, ExecTypes, Scanning
  <2>4. BatchAgrees'
    BY <1>x, <1>p, <1>b, <1>16 DEF MarkCheck, ExecTypes, PcType, BatchAgrees,
       Scanning, Publishing
  <2>5. ScanAgrees'
    BY <1>h, <1>x, <1>p, <1>b, <1>s, <1>r, <1>16 DEF MarkCheck, HeapTypes, ExecTypes,
       PcType, BatchAgrees, RingTypes, ScanAgrees, Scanning
  <2>6. LockAgrees'
    BY <1>r, <1>p, <1>l, <1>16 DEF MarkCheck, RingTypes, PcType, LockAgrees, Checking
  <2>7. FlightExact'
    BY <1>x, <1>p, <1>b, <1>f, <1>16, FlightSame DEF MarkCheck, ExecTypes, PcType,
       Hand, Counted
  <2>8. OneOwner'
    BY <1>h, <1>x, <1>p, <1>b, <1>s, <1>o, <1>16 DEF MarkCheck, HeapTypes, ExecTypes,
       PcType, BatchAgrees, ScanAgrees, OneOwner, OneOwner, Claimed
  <2> QED
    BY <2>1, <2>2, <2>3, <2>4, <2>5, <2>6, <2>7, <2>8 DEF IInv
<1>17. ASSUME NEW e \in Executors, MergeAgain(e)
      PROVE  IInv'
  <2>1. /\ HeapTypes' /\ RingTypes' /\ ExecTypes' /\ MpcType' /\ MutTypes'
        /\ WriterAgrees'
    BY <1>h, <1>r, <1>x, <1>mp, <1>m, <1>w, <1>17 DEF MergeAgain, HeapTypes,
       RingTypes, ExecTypes, MpcType, MutTypes, WriterAgrees
  <2>2. BitTypes'
    BY <1>t, <1>x, <1>b, <1>17 DEF MergeAgain, ExecTypes, BatchAgrees, BitTypes, Bits, Scanning
  <2>3. PcType'
    BY <1>p, <1>x, <1>17 DEF MergeAgain, ExecTypes, PcType, PCs
  <2>4. BatchAgrees'
    BY <1>x, <1>p, <1>b, <1>17 DEF MergeAgain, ExecTypes, PcType, BatchAgrees,
       Scanning, Publishing
  <2>5. ScanAgrees'
    BY <1>h, <1>x, <1>p, <1>b, <1>s, <1>r, <1>17 DEF MergeAgain, HeapTypes,
       ExecTypes, PcType, BatchAgrees, RingTypes, ScanAgrees, Scanning
  <2>6. LockAgrees'
    BY <1>r, <1>p, <1>l, <1>17 DEF MergeAgain, RingTypes, PcType, LockAgrees, Checking
  <2>7. FlightExact'
    BY <1>x, <1>p, <1>b, <1>f, <1>17, FlightSame DEF MergeAgain, ExecTypes, PcType,
       Hand, Counted
  <2>8. OneOwner'
    BY <1>h, <1>x, <1>p, <1>b, <1>s, <1>o, <1>17 DEF MergeAgain, HeapTypes,
       ExecTypes, PcType, BatchAgrees, ScanAgrees, OneOwner, OneOwner, Claimed
  <2> QED
    BY <2>1, <2>2, <2>3, <2>4, <2>5, <2>6, <2>7, <2>8 DEF IInv
<1>18. ASSUME NEW e \in Executors, SetProcessed(e)
      PROVE  IInv'
  <2>1. /\ BitTypes' /\ RingTypes' /\ MpcType' /\ MutTypes' /\ WriterAgrees'
    BY <1>t, <1>r, <1>mp, <1>m, <1>w, <1>18 DEF SetProcessed, BitTypes, RingTypes,
       MpcType, MutTypes, WriterAgrees, Bits
  <2>2. HeapTypes'
    BY <1>h, <1>x, <1>m, <1>b, <1>s, <1>w, <1>mp, <1>18 DEF SetProcessed, ExecTypes,
       MutTypes, BatchAgrees, ScanAgrees, WriterAgrees, MpcType, HeapTypes, Pushing,
       Scanning
  <2>3. PcType'
    BY <1>p, <1>x, <1>18 DEF SetProcessed, ExecTypes, PcType, PCs
  <2>4. ExecTypes'
    BY <1>h, <1>t, <1>r, <1>x, <1>p, <1>b, <1>s, <1>18 DEF SetProcessed, HeapTypes,
       BitTypes, RingTypes, PcType, BatchAgrees, ScanAgrees, ExecTypes, Scanning
  <2>5. BatchAgrees'
    BY <1>x, <1>p, <1>b, <1>18 DEF SetProcessed, ExecTypes, PcType, BatchAgrees,
       Scanning, Publishing
  <2>6. ScanAgrees'
    BY <1>h, <1>x, <1>p, <1>b, <1>s, <1>r, <1>18 DEF SetProcessed, HeapTypes,
       ExecTypes, PcType, BatchAgrees, RingTypes, ScanAgrees, Scanning
  <2>7. LockAgrees'
    BY <1>r, <1>p, <1>l, <1>18 DEF SetProcessed, RingTypes, PcType, LockAgrees, Checking
  <2>8. FlightExact'
    BY <1>x, <1>p, <1>b, <1>f, <1>18, FlightSame DEF SetProcessed, ExecTypes, PcType,
       Hand, Counted
  <2>9. OneOwner'
    BY <1>h, <1>x, <1>p, <1>b, <1>s, <1>o, <1>18 DEF SetProcessed, HeapTypes,
       ExecTypes, PcType, BatchAgrees, ScanAgrees, OneOwner, OneOwner, Claimed
  <2> QED
    BY <2>1, <2>2, <2>3, <2>4, <2>5, <2>6, <2>7, <2>8, <2>9 DEF IInv
<1>19. ASSUME NEW e \in Executors, Drain(e)
      PROVE  IInv'
  <2>1. /\ BitTypes' /\ RingTypes' /\ MpcType' /\ MutTypes' /\ WriterAgrees'
    BY <1>t, <1>r, <1>mp, <1>m, <1>w, <1>19 DEF Drain, ScanRead, BitTypes, RingTypes,
       MpcType, MutTypes, WriterAgrees, Bits
  <2>2. HeapTypes'
    BY <1>h, <1>x, <1>m, <1>b, <1>s, <1>w, <1>mp, <1>19 DEF Drain, ScanRead,
       ExecTypes, MutTypes, BatchAgrees, ScanAgrees, WriterAgrees, MpcType,
       HeapTypes, Pushing, Scanning
  <2>3. PcType'
    BY <1>p, <1>x, <1>19 DEF Drain, ScanRead, ExecTypes, PcType, PCs
  <2>4. ExecTypes'
    <3>1. UNCHANGED <<batchVars, todo, pumpVars>>
      BY <1>19 DEF Drain
    <3>2. worklist' \in [Executors -> SUBSET Objects] /\ draining' \in [Executors -> BOOLEAN]
      <4>1. CASE UNCHANGED worklist
        BY <1>x, <4>1, <1>19 DEF Drain, ExecTypes
      <4>2. CASE UNCHANGED draining
        BY <1>x, <4>2, <1>19 DEF Drain, ExecTypes
      <4> QED
        BY <4>1, <4>2, <1>19 DEF Drain
    <3>3. child' \in [Executors -> Objects \cup {Null}]
      BY <1>x, <1>h, <1>19 DEF Drain, ScanRead, ExecTypes, HeapTypes
    <3> QED
      BY <1>x, <3>1, <3>2, <3>3 DEF ExecTypes
  <2>5. BatchAgrees'
    BY <1>x, <1>p, <1>b, <1>19 DEF Drain, ScanRead, ExecTypes, PcType, BatchAgrees,
       Scanning, Publishing
  <2>6. ScanAgrees'
    BY <1>h, <1>x, <1>p, <1>s, <1>19 DEF Drain, ScanRead, HeapTypes, ExecTypes,
       PcType, ScanAgrees, Scanning
  <2>7. LockAgrees'
    BY <1>r, <1>p, <1>l, <1>19 DEF Drain, ScanRead, RingTypes, PcType, LockAgrees,
       Checking
  <2>8. FlightExact'
    BY <1>x, <1>p, <1>b, <1>f, <1>19, FlightSame DEF Drain, ScanRead, ExecTypes,
       PcType, Hand, Counted
  <2>9. OneOwner'
    BY <1>h, <1>x, <1>p, <1>b, <1>s, <1>o, <1>19 DEF Drain, ScanRead, HeapTypes,
       ExecTypes, PcType, BatchAgrees, ScanAgrees, OneOwner, OneOwner, Claimed
  <2> QED
    BY <2>1, <2>2, <2>3, <2>4, <2>5, <2>6, <2>7, <2>8, <2>9 DEF IInv
<1>20. ASSUME NEW e \in Executors, LateMerge(e)
      PROVE  IInv'
  <2>1. /\ RingTypes' /\ MpcType' /\ MutTypes' /\ WriterAgrees'
    BY <1>r, <1>mp, <1>m, <1>w, <1>20 DEF LateMerge, RingTypes, MpcType, MutTypes,
       WriterAgrees
  <2>2. BitTypes'
    BY <1>t, <1>x, <1>b, <1>20 DEF LateMerge, ExecTypes, BatchAgrees, BitTypes, Bits, Scanning
  <2>3. HeapTypes'
    BY <1>h, <1>x, <1>m, <1>b, <1>s, <1>w, <1>mp, <1>20 DEF LateMerge, ExecTypes,
       MutTypes, BatchAgrees, ScanAgrees, WriterAgrees, MpcType, HeapTypes, Pushing,
       Scanning
  <2>4. PcType'
    BY <1>p, <1>x, <1>20 DEF LateMerge, ExecTypes, PcType, PCs
  <2>5. ExecTypes'
    BY <1>h, <1>t, <1>r, <1>x, <1>p, <1>b, <1>s, <1>20 DEF LateMerge, HeapTypes,
       BitTypes, RingTypes, PcType, BatchAgrees, ScanAgrees, ExecTypes, Scanning
  <2>6. BatchAgrees'
    BY <1>x, <1>p, <1>b, <1>20 DEF LateMerge, ExecTypes, PcType, BatchAgrees,
       Scanning, Publishing
  <2>7. ScanAgrees'
    BY <1>h, <1>x, <1>p, <1>b, <1>s, <1>r, <1>20 DEF LateMerge, HeapTypes, ExecTypes,
       PcType, BatchAgrees, RingTypes, ScanAgrees, Scanning
  <2>8. LockAgrees'
    BY <1>r, <1>p, <1>l, <1>20 DEF LateMerge, RingTypes, PcType, LockAgrees, Checking
  <2>9. FlightExact'
    <3>1. ASSUME NEW f \in Executors \ {e} PROVE Hand(f)' = Hand(f)
      BY <1>x, <1>20 DEF LateMerge, Hand, ExecTypes
    <3>2. Hand(e)' = Hand(e)
      BY <1>x, <1>b, <1>20 DEF LateMerge, Hand, ExecTypes, BatchAgrees, Scanning
    <3>3. \A f \in Executors : pc'[f] \in Counted <=> pc[f] \in Counted
      BY <1>p, <1>20 DEF LateMerge, PcType, Counted
    <3>4. inFlight' = inFlight
      BY <1>20 DEF LateMerge
    <3> QED
      BY <1>f, <3>1, <3>2, <3>3, <3>4, FlightSame
  <2>10. OneOwner'
    <3>1. \A f \in Executors : Claimed(f)' = Claimed(f)
      <4>1. ASSUME NEW f \in Executors \ {e} PROVE Claimed(f)' = Claimed(f)
        BY <1>x, <1>p, <1>20 DEF LateMerge, Claimed, ExecTypes, PcType
      <4>2. Claimed(e)' = Claimed(e)
        BY <1>x, <1>p, <1>b, <1>20 DEF LateMerge, Claimed, ExecTypes, PcType,
           BatchAgrees, Scanning
      <4> QED
        BY <4>1, <4>2
    <3> QED
      BY <1>o, <3>1, <1>20 DEF LateMerge, OneOwner
  <2> QED
    BY <2>1, <2>2, <2>3, <2>4, <2>5, <2>6, <2>7, <2>8, <2>9, <2>10 DEF IInv
<1>21. ASSUME NEW e \in Executors, Publish(e)
      PROVE  IInv'
  <2>1. /\ BitTypes' /\ RingTypes' /\ MpcType' /\ MutTypes' /\ WriterAgrees'
    BY <1>t, <1>r, <1>mp, <1>m, <1>w, <1>21 DEF Publish, BitTypes, RingTypes,
       MpcType, MutTypes, WriterAgrees, Bits
  <2>2. HeapTypes'
    BY <1>h, <1>x, <1>m, <1>b, <1>s, <1>w, <1>mp, <1>21 DEF Publish, ExecTypes,
       MutTypes, BatchAgrees, ScanAgrees, WriterAgrees, MpcType, HeapTypes, Pushing,
       Scanning
  <2>3. PcType'
    BY <1>p, <1>x, <1>21 DEF Publish, ExecTypes, PcType, PCs
  <2>4. ExecTypes'
    BY <1>h, <1>t, <1>r, <1>x, <1>p, <1>b, <1>s, <1>21 DEF Publish, HeapTypes,
       BitTypes, RingTypes, PcType, BatchAgrees, ScanAgrees, ExecTypes, Scanning
  <2>5. BatchAgrees'
    BY <1>x, <1>p, <1>b, <1>21 DEF Publish, ExecTypes, PcType, BatchAgrees, Scanning,
       Publishing
  <2>6. ScanAgrees'
    BY <1>h, <1>x, <1>p, <1>b, <1>s, <1>r, <1>21 DEF Publish, HeapTypes, ExecTypes,
       PcType, BatchAgrees, RingTypes, ScanAgrees, Scanning
  <2>7. LockAgrees'
    BY <1>r, <1>p, <1>l, <1>21 DEF Publish, RingTypes, PcType, LockAgrees, Checking
  <2>8. FlightExact'
    BY <1>x, <1>p, <1>b, <1>f, <1>21, FlightSame DEF Publish, ExecTypes, PcType,
       Hand, Counted
  <2>9. OneOwner'
    BY <1>h, <1>x, <1>p, <1>b, <1>s, <1>o, <1>21 DEF Publish, HeapTypes, ExecTypes,
       PcType, BatchAgrees, ScanAgrees, OneOwner, OneOwner, Claimed
  <2> QED
    BY <2>1, <2>2, <2>3, <2>4, <2>5, <2>6, <2>7, <2>8, <2>9 DEF IInv
<1>22. ASSUME NEW e \in Executors, Release(e)
      PROVE  IInv'
  <2>1. /\ BitTypes' /\ HeapTypes' /\ RingTypes' /\ MpcType' /\ MutTypes'
        /\ WriterAgrees'
    BY <1>t, <1>h, <1>r, <1>mp, <1>m, <1>w, <1>22 DEF Release, BitTypes, HeapTypes,
       RingTypes, MpcType, MutTypes, WriterAgrees, Bits
  <2>2. PcType'
    BY <1>p, <1>x, <1>22 DEF Release, ExecTypes, PcType, PCs
  <2>3. ExecTypes'
    <3>1. UNCHANGED <<cur, batch, requeue, scanVars, pumpVars>>
          /\ finished' = [finished EXCEPT ![e] = {}] /\ requeue[e] = {}
      BY <1>b, <1>22 DEF Release, BatchAgrees, Scanning, Publishing
    <3> QED
      BY <1>x, <3>1 DEF ExecTypes
  <2>4. BatchAgrees'
    BY <1>x, <1>p, <1>b, <1>22 DEF Release, ExecTypes, PcType, BatchAgrees, Scanning,
       Publishing
  <2>5. ScanAgrees'
    BY <1>h, <1>x, <1>p, <1>b, <1>s, <1>r, <1>22 DEF Release, HeapTypes, ExecTypes,
       PcType, BatchAgrees, RingTypes, ScanAgrees, Scanning
  <2>6. LockAgrees'
    BY <1>r, <1>p, <1>l, <1>22 DEF Release, RingTypes, PcType, LockAgrees, Checking
  <2>7. FlightExact'
    <3>0. pc[e] = "release" /\ batch[e] = {} /\ cur[e] = Null /\ finished[e] \in SUBSET Pages
      BY <1>b, <1>x, <1>22 DEF Release, BatchAgrees, Scanning, ExecTypes
    <3>1. \A f \in Executors : pc'[f] \in Counted <=> pc[f] \in Counted
      BY <1>p, <1>22 DEF Release, PcType, Counted
    <3>2. /\ inFlight' = inFlight - Cardinality(finished[e])
          /\ finished' = [finished EXCEPT ![e] = {}] /\ UNCHANGED <<batch, cur>>
      BY <1>22 DEF Release
    <3>3. Hand(e) = finished[e] /\ Hand(e)' = {} /\ \A f \in Executors \ {e} : Hand(f)' = Hand(f)
      BY <1>x, <3>0, <3>2 DEF Hand, ExecTypes
    <3> QED
      BY <1>f, <3>0, <3>1, <3>2, <3>3, FlightLoses
  <2>8. OneOwner'
    BY <1>h, <1>x, <1>p, <1>b, <1>s, <1>o, <1>22 DEF Release, HeapTypes, ExecTypes,
       PcType, BatchAgrees, ScanAgrees, OneOwner, OneOwner, Claimed
  <2> QED
    BY <2>1, <2>2, <2>3, <2>4, <2>5, <2>6, <2>7, <2>8 DEF IInv
<1>23. ASSUME NEW e \in Executors, PumpRead(e)
      PROVE  IInv'
  <2>1. /\ BitTypes' /\ HeapTypes' /\ RingTypes' /\ MpcType' /\ MutTypes'
        /\ WriterAgrees'
    BY <1>t, <1>h, <1>r, <1>mp, <1>m, <1>w, <1>23 DEF PumpRead, BitTypes, HeapTypes,
       RingTypes, MpcType, MutTypes, WriterAgrees, Bits
  <2>2. PcType'
    BY <1>p, <1>x, <1>23 DEF PumpRead, ExecTypes, PcType, PCs
  <2>3. ExecTypes'
    <3>1. UNCHANGED <<batchVars, scanVars, taken, inTail>> /\ slot' \in {slot, [slot EXCEPT ![e] = head]}
      BY <1>23 DEF PumpRead
    <3>2. slot' \in [Executors -> Nat]
      <4>1. head \in Nat /\ slot \in [Executors -> Nat]
        BY <1>r, <1>x DEF RingTypes, ExecTypes
      <4> QED
        BY <3>1, <4>1
    <3> QED
      BY <1>x, <3>1, <3>2 DEF ExecTypes
  <2>4. BatchAgrees'
    BY <1>x, <1>p, <1>b, <1>23 DEF PumpRead, ExecTypes, PcType, BatchAgrees,
       Scanning, Publishing
  <2>5. ScanAgrees'
    BY <1>h, <1>x, <1>p, <1>b, <1>s, <1>r, <1>23 DEF PumpRead, HeapTypes, ExecTypes,
       PcType, BatchAgrees, RingTypes, ScanAgrees, Scanning
  <2>6. LockAgrees'
    BY <1>r, <1>p, <1>l, <1>23 DEF PumpRead, RingTypes, PcType, LockAgrees, Checking
  <2>7. FlightExact'
    <3>1. \A f \in Executors : Hand(f)' = Hand(f)
      BY <1>23 DEF PumpRead, Hand
    <3>2. CASE head >= tail
      <4>1. \A f \in Executors : pc'[f] \in Counted <=> pc[f] \in Counted
        BY <1>p, <3>2, <1>23 DEF PumpRead, PcType, Counted
      <4>2. inFlight' = inFlight
        BY <3>2, <1>23 DEF PumpRead
      <4> QED
        BY <1>f, <3>1, <4>1, <4>2, FlightSame
    <3>3. CASE ~(head >= tail)
      <4>1. Pumping' = Pumping \cup {e} /\ e \notin Pumping
        BY <1>p, <3>3, <1>23 DEF PumpRead, PcType, Counted, Pumping
      <4>2. inFlight' = inFlight + 1
        BY <3>3, <1>23 DEF PumpRead
      <4> QED
        BY <1>f, <3>1, <4>1, <4>2, PumpEnters
    <3> QED
      BY <3>2, <3>3
  <2>8. OneOwner'
    BY <1>h, <1>x, <1>p, <1>b, <1>s, <1>o, <1>23 DEF PumpRead, HeapTypes, ExecTypes,
       PcType, BatchAgrees, ScanAgrees, OneOwner, OneOwner, Claimed
  <2> QED
    BY <2>1, <2>2, <2>3, <2>4, <2>5, <2>6, <2>7, <2>8 DEF IInv
<1>24. ASSUME NEW e \in Executors, PumpCas(e)
      PROVE  IInv'
  <2>1. /\ BitTypes' /\ HeapTypes' /\ ExecTypes' /\ MpcType' /\ MutTypes'
        /\ WriterAgrees'
    BY <1>t, <1>h, <1>x, <1>mp, <1>m, <1>w, <1>24 DEF PumpCas, BitTypes, HeapTypes,
       ExecTypes, MpcType, MutTypes, WriterAgrees, Bits
  <2>2. RingTypes'
    BY <1>r, <1>x, <1>m, <1>mp, <1>w, <1>24 DEF PumpCas, ExecTypes, MutTypes,
       MpcType, WriterAgrees, RingTypes
  <2>3. PcType'
    BY <1>p, <1>x, <1>24 DEF PumpCas, ExecTypes, PcType, PCs
  <2>4. BatchAgrees'
    BY <1>x, <1>p, <1>b, <1>24 DEF PumpCas, ExecTypes, PcType, BatchAgrees, Scanning,
       Publishing
  <2>5. ScanAgrees'
    BY <1>h, <1>x, <1>p, <1>b, <1>s, <1>r, <1>24 DEF PumpCas, HeapTypes, ExecTypes,
       PcType, BatchAgrees, RingTypes, ScanAgrees, Scanning
  <2>6. LockAgrees'
    BY <1>r, <1>p, <1>l, <1>24 DEF PumpCas, RingTypes, PcType, LockAgrees, Checking
  <2>7. FlightExact'
    <3>1. \A f \in Executors : Hand(f)' = Hand(f)
      BY <1>24 DEF PumpCas, Hand
    <3>2. CASE head = slot[e]
      <4>1. \A f \in Executors : pc'[f] \in Counted <=> pc[f] \in Counted
        BY <1>p, <3>2, <1>24 DEF PumpCas, PcType, Counted
      <4>2. inFlight' = inFlight
        BY <3>2, <1>24 DEF PumpCas
      <4> QED
        BY <1>f, <3>1, <4>1, <4>2, FlightSame
    <3>3. CASE ~(head = slot[e])
      <4>1. Pumping' = Pumping \ {e} /\ e \in Pumping
        BY <1>p, <3>3, <1>24 DEF PumpCas, PcType, Counted, Pumping
      <4>2. inFlight' = inFlight - 1
        BY <3>3, <1>24 DEF PumpCas
      <4> QED
        BY <1>f, <3>1, <4>1, <4>2, PumpLeaves
    <3> QED
      BY <3>2, <3>3
  <2>8. OneOwner'
    BY <1>h, <1>x, <1>p, <1>b, <1>s, <1>o, <1>24 DEF PumpCas, HeapTypes, ExecTypes,
       PcType, BatchAgrees, ScanAgrees, OneOwner, OneOwner, Claimed
  <2> QED
    BY <2>1, <2>2, <2>3, <2>4, <2>5, <2>6, <2>7, <2>8 DEF IInv
<1>25. ASSUME NEW e \in Executors, PumpTake(e)
      PROVE  IInv'
  <2>1. /\ BitTypes' /\ HeapTypes' /\ MpcType' /\ MutTypes' /\ WriterAgrees'
    BY <1>t, <1>h, <1>mp, <1>m, <1>w, <1>25 DEF PumpTake, BitTypes, HeapTypes,
       MpcType, MutTypes, WriterAgrees, Bits
  <2>2. RingTypes'
    BY <1>r, <1>x, <1>m, <1>mp, <1>w, <1>25 DEF PumpTake, ExecTypes, MutTypes,
       MpcType, WriterAgrees, RingTypes
  <2>3. PcType'
    BY <1>p, <1>x, <1>25 DEF PumpTake, ExecTypes, PcType, PCs
  <2>4. ExecTypes'
    BY <1>h, <1>t, <1>r, <1>x, <1>p, <1>b, <1>s, <1>25 DEF PumpTake, HeapTypes,
       BitTypes, RingTypes, PcType, BatchAgrees, ScanAgrees, ExecTypes, Scanning
  <2>5. BatchAgrees'
    BY <1>x, <1>p, <1>b, <1>25 DEF PumpTake, ExecTypes, PcType, BatchAgrees,
       Scanning, Publishing
  <2>6. ScanAgrees'
    BY <1>h, <1>x, <1>p, <1>b, <1>s, <1>r, <1>25 DEF PumpTake, HeapTypes, ExecTypes,
       PcType, BatchAgrees, RingTypes, ScanAgrees, Scanning
  <2>7. LockAgrees'
    BY <1>r, <1>p, <1>l, <1>25 DEF PumpTake, RingTypes, PcType, LockAgrees, Checking
  <2>8. FlightExact'
    BY <1>x, <1>p, <1>b, <1>f, <1>25, FlightSame DEF PumpTake, ExecTypes, PcType,
       Hand, Counted
  <2>9. OneOwner'
    BY <1>h, <1>x, <1>p, <1>b, <1>s, <1>o, <1>25 DEF PumpTake, HeapTypes, ExecTypes,
       PcType, BatchAgrees, ScanAgrees, OneOwner, OneOwner, Claimed
  <2> QED
    BY <2>1, <2>2, <2>3, <2>4, <2>5, <2>6, <2>7, <2>8, <2>9 DEF IInv
<1>26. ASSUME NEW e \in Executors, PageNeedsScan(e)
      PROVE  IInv'
  <2>1. /\ BitTypes' /\ RingTypes' /\ MpcType' /\ MutTypes' /\ WriterAgrees'
    BY <1>t, <1>r, <1>mp, <1>m, <1>w, <1>26 DEF PageNeedsScan, BitTypes, RingTypes,
       MpcType, MutTypes, WriterAgrees, Bits
  <2>2. HeapTypes'
    <3>1. taken[e] \in Pages
      BY <1>x, <1>s, <1>26 DEF PageNeedsScan, ExecTypes, ScanAgrees
    <3>2. /\ UNCHANGED <<field, epoch, followed>>
          /\ pending' \in {pending, [pending EXCEPT ![taken[e]] = TRUE]}
          /\ processed' \in {processed, [processed EXCEPT ![taken[e]] = 0]}
          /\ toScan' \in {toScan, toScan \cup {taken[e]}}
          /\ toPrune' \in {toPrune, toPrune \ {taken[e]}}
      BY <1>26 DEF PageNeedsScan
    <3>3. pending' \in [Pages -> BOOLEAN] /\ toScan' \in SUBSET Pages /\ toPrune' \in SUBSET Pages
      BY <1>h, <3>1, <3>2 DEF HeapTypes
    <3>4. processed' \in [Pages -> Nat] /\ \A p \in Pages : processed'[p] <= epoch
      BY <1>h, <3>1, <3>2 DEF HeapTypes
    <3> QED
      BY <1>h, <3>2, <3>3, <3>4 DEF HeapTypes
  <2>3. PcType'
    BY <1>p, <1>x, <1>26 DEF PageNeedsScan, ExecTypes, PcType, PCs
  <2>4. ExecTypes'
    BY <1>h, <1>t, <1>r, <1>x, <1>p, <1>b, <1>s, <1>26 DEF PageNeedsScan, HeapTypes,
       BitTypes, RingTypes, PcType, BatchAgrees, ScanAgrees, ExecTypes, Scanning
  <2>5. BatchAgrees'
    BY <1>x, <1>p, <1>b, <1>26 DEF PageNeedsScan, ExecTypes, PcType, BatchAgrees,
       Scanning, Publishing
  <2>6. ScanAgrees'
    BY <1>h, <1>x, <1>p, <1>b, <1>s, <1>r, <1>26 DEF PageNeedsScan, HeapTypes,
       ExecTypes, PcType, BatchAgrees, RingTypes, ScanAgrees, Scanning
  <2>7. LockAgrees'
    BY <1>r, <1>p, <1>l, <1>26 DEF PageNeedsScan, RingTypes, PcType, LockAgrees,
       Checking
  <2>8. FlightExact'
    BY <1>x, <1>p, <1>b, <1>f, <1>26, FlightSame DEF PageNeedsScan, ExecTypes,
       PcType, Hand, Counted
  <2>9. OneOwner'
    BY <1>h, <1>x, <1>p, <1>b, <1>s, <1>o, <1>26 DEF PageNeedsScan, HeapTypes,
       ExecTypes, PcType, BatchAgrees, ScanAgrees, OneOwner, OneOwner, Claimed
  <2> QED
    BY <2>1, <2>2, <2>3, <2>4, <2>5, <2>6, <2>7, <2>8, <2>9 DEF IInv
<1>27. ASSUME NEW e \in Executors, PumpLanded(e)
      PROVE  IInv'
  <2>1. /\ BitTypes' /\ HeapTypes' /\ RingTypes' /\ MpcType' /\ MutTypes'
        /\ WriterAgrees'
    BY <1>t, <1>h, <1>r, <1>mp, <1>m, <1>w, <1>27 DEF PumpLanded, BitTypes,
       HeapTypes, RingTypes, MpcType, MutTypes, WriterAgrees, Bits
  <2>2. PcType'
    BY <1>p, <1>x, <1>27 DEF PumpLanded, ExecTypes, PcType, PCs
  <2>3. ExecTypes'
    BY <1>h, <1>t, <1>r, <1>x, <1>p, <1>b, <1>s, <1>27 DEF PumpLanded, HeapTypes,
       BitTypes, RingTypes, PcType, BatchAgrees, ScanAgrees, ExecTypes, Scanning
  <2>4. BatchAgrees'
    BY <1>x, <1>p, <1>b, <1>27 DEF PumpLanded, ExecTypes, PcType, BatchAgrees,
       Scanning, Publishing
  <2>5. ScanAgrees'
    BY <1>h, <1>x, <1>p, <1>b, <1>s, <1>r, <1>27 DEF PumpLanded, HeapTypes,
       ExecTypes, PcType, BatchAgrees, RingTypes, ScanAgrees, Scanning
  <2>6. LockAgrees'
    BY <1>r, <1>p, <1>l, <1>27 DEF PumpLanded, RingTypes, PcType, LockAgrees, Checking
  <2>7. FlightExact'
    <3>1. \A f \in Executors : Hand(f)' = Hand(f)
      BY <1>27 DEF PumpLanded, Hand
    <3>2. Pumping' = Pumping \ {e} /\ e \in Pumping
      BY <1>p, <1>27 DEF PumpLanded, PcType, Counted, Pumping
    <3>3. inFlight' = inFlight - 1
      BY <1>27 DEF PumpLanded
    <3> QED
      BY <1>f, <3>1, <3>2, <3>3, PumpLeaves
  <2>8. OneOwner'
    BY <1>h, <1>x, <1>p, <1>b, <1>s, <1>o, <1>27 DEF PumpLanded, HeapTypes,
       ExecTypes, PcType, BatchAgrees, ScanAgrees, OneOwner, OneOwner, Claimed
  <2> QED
    BY <2>1, <2>2, <2>3, <2>4, <2>5, <2>6, <2>7, <2>8 DEF IInv
<1>28. ASSUME NEW e \in Executors, MaybeDone(e)
      PROVE  IInv'
  <2>1. /\ BitTypes' /\ HeapTypes' /\ RingTypes' /\ ExecTypes' /\ MpcType'
        /\ MutTypes' /\ WriterAgrees'
    BY <1>t, <1>h, <1>r, <1>x, <1>mp, <1>m, <1>w, <1>28 DEF MaybeDone, BitTypes,
       HeapTypes, RingTypes, ExecTypes, MpcType, MutTypes, WriterAgrees, Bits
  <2>2. PcType'
    BY <1>p, <1>x, <1>28 DEF MaybeDone, ExecTypes, PcType, PCs
  <2>3. BatchAgrees'
    BY <1>x, <1>p, <1>b, <1>28 DEF MaybeDone, ExecTypes, PcType, BatchAgrees,
       Scanning, Publishing
  <2>4. ScanAgrees'
    BY <1>h, <1>x, <1>p, <1>b, <1>s, <1>r, <1>28 DEF MaybeDone, HeapTypes, ExecTypes,
       PcType, BatchAgrees, RingTypes, ScanAgrees, Scanning
  <2>5. LockAgrees'
    BY <1>r, <1>p, <1>l, <1>28 DEF MaybeDone, RingTypes, PcType, LockAgrees, Checking
  <2>6. FlightExact'
    BY <1>x, <1>p, <1>b, <1>f, <1>28, FlightSame DEF MaybeDone, ExecTypes, PcType,
       Hand, Counted
  <2>7. OneOwner'
    BY <1>h, <1>x, <1>p, <1>b, <1>s, <1>o, <1>28 DEF MaybeDone, HeapTypes, ExecTypes,
       PcType, BatchAgrees, ScanAgrees, OneOwner, OneOwner, Claimed
  <2> QED
    BY <2>1, <2>2, <2>3, <2>4, <2>5, <2>6, <2>7 DEF IInv
<1>29. ASSUME NEW e \in Executors, TryTransition(e)
      PROVE  IInv'
  <2>1. /\ BitTypes' /\ HeapTypes' /\ MpcType' /\ MutTypes' /\ WriterAgrees'
    BY <1>t, <1>h, <1>mp, <1>m, <1>w, <1>29 DEF TryTransition, BitTypes, HeapTypes,
       MpcType, MutTypes, WriterAgrees, Bits
  <2>2. RingTypes'
    BY <1>r, <1>x, <1>m, <1>mp, <1>w, <1>29 DEF TryTransition, ExecTypes, MutTypes,
       MpcType, WriterAgrees, RingTypes
  <2>3. PcType'
    BY <1>p, <1>x, <1>29 DEF TryTransition, ExecTypes, PcType, PCs
  <2>4. ExecTypes'
    BY <1>h, <1>t, <1>r, <1>x, <1>p, <1>b, <1>s, <1>29 DEF TryTransition, HeapTypes,
       BitTypes, RingTypes, PcType, BatchAgrees, ScanAgrees, ExecTypes, Scanning
  <2>5. BatchAgrees'
    BY <1>x, <1>p, <1>b, <1>29 DEF TryTransition, ExecTypes, PcType, BatchAgrees,
       Scanning, Publishing
  <2>6. ScanAgrees'
    BY <1>h, <1>x, <1>p, <1>b, <1>s, <1>r, <1>29 DEF TryTransition, HeapTypes,
       ExecTypes, PcType, BatchAgrees, RingTypes, ScanAgrees, Scanning
  <2>7. LockAgrees'
    BY <1>r, <1>p, <1>l, <1>29 DEF TryTransition, RingTypes, PcType, LockAgrees,
       Checking
  <2>8. FlightExact'
    BY <1>x, <1>p, <1>b, <1>f, <1>29, FlightSame DEF TryTransition, ExecTypes,
       PcType, Hand, Counted
  <2>9. OneOwner'
    BY <1>h, <1>x, <1>p, <1>b, <1>s, <1>o, <1>29 DEF TryTransition, HeapTypes,
       ExecTypes, PcType, BatchAgrees, ScanAgrees, OneOwner, OneOwner, Claimed
  <2> QED
    BY <2>1, <2>2, <2>3, <2>4, <2>5, <2>6, <2>7, <2>8, <2>9 DEF IInv
<1>30. ASSUME NEW e \in Executors, OutstandingLock(e)
      PROVE  IInv'
  <2>1. /\ BitTypes' /\ HeapTypes' /\ ExecTypes' /\ MpcType' /\ MutTypes'
        /\ WriterAgrees'
    BY <1>t, <1>h, <1>x, <1>mp, <1>m, <1>w, <1>30 DEF OutstandingLock, BitTypes,
       HeapTypes, ExecTypes, MpcType, MutTypes, WriterAgrees, Bits
  <2>2. RingTypes'
    BY <1>r, <1>x, <1>m, <1>mp, <1>w, <1>30 DEF OutstandingLock, ExecTypes, MutTypes,
       MpcType, WriterAgrees, RingTypes
  <2>3. PcType'
    BY <1>p, <1>x, <1>30 DEF OutstandingLock, ExecTypes, PcType, PCs
  <2>4. BatchAgrees'
    BY <1>x, <1>p, <1>b, <1>30 DEF OutstandingLock, ExecTypes, PcType, BatchAgrees,
       Scanning, Publishing
  <2>5. ScanAgrees'
    BY <1>h, <1>x, <1>p, <1>b, <1>s, <1>r, <1>30 DEF OutstandingLock, HeapTypes,
       ExecTypes, PcType, BatchAgrees, RingTypes, ScanAgrees, Scanning
  <2>6. LockAgrees'
    BY <1>r, <1>p, <1>l, <1>30 DEF OutstandingLock, RingTypes, PcType, LockAgrees,
       Checking
  <2>7. FlightExact'
    BY <1>x, <1>p, <1>b, <1>f, <1>30, FlightSame DEF OutstandingLock, ExecTypes,
       PcType, Hand, Counted
  <2>8. OneOwner'
    BY <1>h, <1>x, <1>p, <1>b, <1>s, <1>o, <1>30 DEF OutstandingLock, HeapTypes,
       ExecTypes, PcType, BatchAgrees, ScanAgrees, OneOwner, OneOwner, Claimed
  <2> QED
    BY <2>1, <2>2, <2>3, <2>4, <2>5, <2>6, <2>7, <2>8 DEF IInv
<1>31. ASSUME NEW e \in Executors, OutstandingWriters(e)
      PROVE  IInv'
  <2>1. /\ BitTypes' /\ HeapTypes' /\ ExecTypes' /\ MpcType' /\ MutTypes'
        /\ WriterAgrees'
    BY <1>t, <1>h, <1>x, <1>mp, <1>m, <1>w, <1>31 DEF OutstandingWriters, Busy,
       BitTypes, HeapTypes, ExecTypes, MpcType, MutTypes, WriterAgrees, Bits
  <2>2. RingTypes'
    BY <1>r, <1>x, <1>m, <1>mp, <1>w, <1>31 DEF OutstandingWriters, Busy, ExecTypes,
       MutTypes, MpcType, WriterAgrees, RingTypes
  <2>3. PcType'
    BY <1>p, <1>x, <1>31 DEF OutstandingWriters, Busy, ExecTypes, PcType, PCs
  <2>4. BatchAgrees'
    BY <1>x, <1>p, <1>b, <1>31 DEF OutstandingWriters, Busy, ExecTypes, PcType,
       BatchAgrees, Scanning, Publishing
  <2>5. ScanAgrees'
    BY <1>h, <1>x, <1>p, <1>b, <1>s, <1>r, <1>31 DEF OutstandingWriters, Busy,
       HeapTypes, ExecTypes, PcType, BatchAgrees, RingTypes, ScanAgrees, Scanning
  <2>6. LockAgrees'
    BY <1>r, <1>p, <1>l, <1>31 DEF OutstandingWriters, Busy, RingTypes, PcType,
       LockAgrees, Checking
  <2>7. FlightExact'
    BY <1>x, <1>p, <1>b, <1>f, <1>31, FlightSame DEF OutstandingWriters, Busy,
       ExecTypes, PcType, Hand, Counted
  <2>8. OneOwner'
    BY <1>h, <1>x, <1>p, <1>b, <1>s, <1>o, <1>31 DEF OutstandingWriters, Busy,
       HeapTypes, ExecTypes, PcType, BatchAgrees, ScanAgrees, OneOwner, OneOwner,
       Claimed
  <2> QED
    BY <2>1, <2>2, <2>3, <2>4, <2>5, <2>6, <2>7, <2>8 DEF IInv
<1>32. ASSUME NEW e \in Executors, OutstandingRing(e)
      PROVE  IInv'
  <2>1. /\ BitTypes' /\ HeapTypes' /\ ExecTypes' /\ MpcType' /\ MutTypes'
        /\ WriterAgrees'
    BY <1>t, <1>h, <1>x, <1>mp, <1>m, <1>w, <1>32 DEF OutstandingRing, Busy,
       BitTypes, HeapTypes, ExecTypes, MpcType, MutTypes, WriterAgrees, Bits
  <2>2. RingTypes'
    BY <1>r, <1>x, <1>m, <1>mp, <1>w, <1>32 DEF OutstandingRing, Busy, ExecTypes,
       MutTypes, MpcType, WriterAgrees, RingTypes
  <2>3. PcType'
    BY <1>p, <1>x, <1>32 DEF OutstandingRing, Busy, ExecTypes, PcType, PCs
  <2>4. BatchAgrees'
    BY <1>x, <1>p, <1>b, <1>32 DEF OutstandingRing, Busy, ExecTypes, PcType,
       BatchAgrees, Scanning, Publishing
  <2>5. ScanAgrees'
    BY <1>h, <1>x, <1>p, <1>b, <1>s, <1>r, <1>32 DEF OutstandingRing, Busy,
       HeapTypes, ExecTypes, PcType, BatchAgrees, RingTypes, ScanAgrees, Scanning
  <2>6. LockAgrees'
    BY <1>r, <1>p, <1>l, <1>32 DEF OutstandingRing, Busy, RingTypes, PcType,
       LockAgrees, Checking
  <2>7. FlightExact'
    BY <1>x, <1>p, <1>b, <1>f, <1>32, FlightSame DEF OutstandingRing, Busy,
       ExecTypes, PcType, Hand, Counted
  <2>8. OneOwner'
    BY <1>h, <1>x, <1>p, <1>b, <1>s, <1>o, <1>32 DEF OutstandingRing, Busy,
       HeapTypes, ExecTypes, PcType, BatchAgrees, ScanAgrees, OneOwner, OneOwner,
       Claimed
  <2> QED
    BY <2>1, <2>2, <2>3, <2>4, <2>5, <2>6, <2>7, <2>8 DEF IInv
<1>33. ASSUME NEW e \in Executors, OutstandingFlight(e)
      PROVE  IInv'
  <2>1. /\ BitTypes' /\ HeapTypes' /\ ExecTypes' /\ MpcType' /\ MutTypes'
        /\ WriterAgrees'
    BY <1>t, <1>h, <1>x, <1>mp, <1>m, <1>w, <1>33 DEF OutstandingFlight, Busy,
       BitTypes, HeapTypes, ExecTypes, MpcType, MutTypes, WriterAgrees, Bits
  <2>2. RingTypes'
    BY <1>r, <1>x, <1>m, <1>mp, <1>w, <1>33 DEF OutstandingFlight, Busy, ExecTypes,
       MutTypes, MpcType, WriterAgrees, RingTypes
  <2>3. PcType'
    BY <1>p, <1>x, <1>33 DEF OutstandingFlight, Busy, ExecTypes, PcType, PCs
  <2>4. BatchAgrees'
    BY <1>x, <1>p, <1>b, <1>33 DEF OutstandingFlight, Busy, ExecTypes, PcType,
       BatchAgrees, Scanning, Publishing
  <2>5. ScanAgrees'
    BY <1>h, <1>x, <1>p, <1>b, <1>s, <1>r, <1>33 DEF OutstandingFlight, Busy,
       HeapTypes, ExecTypes, PcType, BatchAgrees, RingTypes, ScanAgrees, Scanning
  <2>6. LockAgrees'
    BY <1>r, <1>p, <1>l, <1>33 DEF OutstandingFlight, Busy, RingTypes, PcType,
       LockAgrees, Checking
  <2>7. FlightExact'
    BY <1>x, <1>p, <1>b, <1>f, <1>33, FlightSame DEF OutstandingFlight, Busy,
       ExecTypes, PcType, Hand, Counted
  <2>8. OneOwner'
    BY <1>h, <1>x, <1>p, <1>b, <1>s, <1>o, <1>33 DEF OutstandingFlight, Busy,
       HeapTypes, ExecTypes, PcType, BatchAgrees, ScanAgrees, OneOwner, OneOwner,
       Claimed
  <2> QED
    BY <2>1, <2>2, <2>3, <2>4, <2>5, <2>6, <2>7, <2>8 DEF IInv
<1>34. ASSUME NEW e \in Executors, OverflowRead(e)
      PROVE  IInv'
  <2>1. /\ BitTypes' /\ HeapTypes' /\ ExecTypes' /\ MpcType' /\ MutTypes'
        /\ WriterAgrees'
    BY <1>t, <1>h, <1>x, <1>mp, <1>m, <1>w, <1>34 DEF OverflowRead, BitTypes,
       HeapTypes, ExecTypes, MpcType, MutTypes, WriterAgrees, Bits
  <2>2. RingTypes'
    BY <1>r, <1>x, <1>m, <1>mp, <1>w, <1>34 DEF OverflowRead, ExecTypes, MutTypes,
       MpcType, WriterAgrees, RingTypes
  <2>3. PcType'
    BY <1>p, <1>x, <1>34 DEF OverflowRead, ExecTypes, PcType, PCs
  <2>4. BatchAgrees'
    BY <1>x, <1>p, <1>b, <1>34 DEF OverflowRead, ExecTypes, PcType, BatchAgrees,
       Scanning, Publishing
  <2>5. ScanAgrees'
    BY <1>h, <1>x, <1>p, <1>b, <1>s, <1>r, <1>34 DEF OverflowRead, HeapTypes,
       ExecTypes, PcType, BatchAgrees, RingTypes, ScanAgrees, Scanning
  <2>6. LockAgrees'
    BY <1>r, <1>p, <1>l, <1>34 DEF OverflowRead, RingTypes, PcType, LockAgrees, Checking
  <2>7. FlightExact'
    BY <1>x, <1>p, <1>b, <1>f, <1>34, FlightSame DEF OverflowRead, ExecTypes, PcType,
       Hand, Counted
  <2>8. OneOwner'
    BY <1>h, <1>x, <1>p, <1>b, <1>s, <1>o, <1>34 DEF OverflowRead, HeapTypes,
       ExecTypes, PcType, BatchAgrees, ScanAgrees, OneOwner, OneOwner, Claimed
  <2> QED
    BY <2>1, <2>2, <2>3, <2>4, <2>5, <2>6, <2>7, <2>8 DEF IInv
<1>35. ASSUME NEW e \in Executors, ResetWipe(e)
      PROVE  IInv'
  <2>1. /\ BitTypes' /\ HeapTypes' /\ ExecTypes' /\ MpcType' /\ MutTypes'
        /\ WriterAgrees'
    BY <1>t, <1>h, <1>x, <1>mp, <1>m, <1>w, <1>35 DEF ResetWipe, BitTypes, HeapTypes,
       ExecTypes, MpcType, MutTypes, WriterAgrees, Bits
  <2>2. RingTypes'
    BY <1>r, <1>x, <1>m, <1>mp, <1>w, <1>35 DEF ResetWipe, ExecTypes, MutTypes,
       MpcType, WriterAgrees, RingTypes
  <2>3. PcType'
    BY <1>p, <1>x, <1>35 DEF ResetWipe, ExecTypes, PcType, PCs
  <2>4. BatchAgrees'
    BY <1>x, <1>p, <1>b, <1>35 DEF ResetWipe, ExecTypes, PcType, BatchAgrees,
       Scanning, Publishing
  <2>5. ScanAgrees'
    BY <1>h, <1>x, <1>p, <1>b, <1>s, <1>r, <1>35 DEF ResetWipe, HeapTypes, ExecTypes,
       PcType, BatchAgrees, RingTypes, ScanAgrees, Scanning
  <2>6. LockAgrees'
    BY <1>r, <1>p, <1>l, <1>35 DEF ResetWipe, RingTypes, PcType, LockAgrees, Checking
  <2>7. FlightExact'
    BY <1>x, <1>p, <1>b, <1>f, <1>35, FlightSame DEF ResetWipe, ExecTypes, PcType,
       Hand, Counted
  <2>8. OneOwner'
    BY <1>h, <1>x, <1>p, <1>b, <1>s, <1>o, <1>35 DEF ResetWipe, HeapTypes, ExecTypes,
       PcType, BatchAgrees, ScanAgrees, OneOwner, OneOwner, Claimed
  <2> QED
    BY <2>1, <2>2, <2>3, <2>4, <2>5, <2>6, <2>7, <2>8 DEF IInv
<1>36. ASSUME NEW e \in Executors, ResetTail(e)
      PROVE  IInv'
  <2>1. /\ BitTypes' /\ HeapTypes' /\ ExecTypes' /\ MpcType' /\ MutTypes'
        /\ WriterAgrees'
    BY <1>t, <1>h, <1>x, <1>mp, <1>m, <1>w, <1>36 DEF ResetTail, BitTypes, HeapTypes,
       ExecTypes, MpcType, MutTypes, WriterAgrees, Bits
  <2>2. RingTypes'
    BY <1>r, <1>x, <1>m, <1>mp, <1>w, <1>36 DEF ResetTail, ExecTypes, MutTypes,
       MpcType, WriterAgrees, RingTypes
  <2>3. PcType'
    BY <1>p, <1>x, <1>36 DEF ResetTail, ExecTypes, PcType, PCs
  <2>4. BatchAgrees'
    BY <1>x, <1>p, <1>b, <1>36 DEF ResetTail, ExecTypes, PcType, BatchAgrees,
       Scanning, Publishing
  <2>5. ScanAgrees'
    BY <1>h, <1>x, <1>p, <1>b, <1>s, <1>r, <1>36 DEF ResetTail, HeapTypes, ExecTypes,
       PcType, BatchAgrees, RingTypes, ScanAgrees, Scanning
  <2>6. LockAgrees'
    BY <1>r, <1>p, <1>l, <1>36 DEF ResetTail, RingTypes, PcType, LockAgrees, Checking
  <2>7. FlightExact'
    BY <1>x, <1>p, <1>b, <1>f, <1>36, FlightSame DEF ResetTail, ExecTypes, PcType,
       Hand, Counted
  <2>8. OneOwner'
    BY <1>h, <1>x, <1>p, <1>b, <1>s, <1>o, <1>36 DEF ResetTail, HeapTypes, ExecTypes,
       PcType, BatchAgrees, ScanAgrees, OneOwner, OneOwner, Claimed
  <2> QED
    BY <2>1, <2>2, <2>3, <2>4, <2>5, <2>6, <2>7, <2>8 DEF IInv
<1>37. ASSUME NEW e \in Executors, ResetHead(e)
      PROVE  IInv'
  <2>1. /\ BitTypes' /\ HeapTypes' /\ ExecTypes' /\ MpcType' /\ MutTypes'
        /\ WriterAgrees'
    BY <1>t, <1>h, <1>x, <1>mp, <1>m, <1>w, <1>37 DEF ResetHead, BitTypes, HeapTypes,
       ExecTypes, MpcType, MutTypes, WriterAgrees, Bits
  <2>2. RingTypes'
    BY <1>r, <1>x, <1>m, <1>mp, <1>w, <1>37 DEF ResetHead, ExecTypes, MutTypes,
       MpcType, WriterAgrees, RingTypes
  <2>3. PcType'
    BY <1>p, <1>x, <1>37 DEF ResetHead, ExecTypes, PcType, PCs
  <2>4. BatchAgrees'
    BY <1>x, <1>p, <1>b, <1>37 DEF ResetHead, ExecTypes, PcType, BatchAgrees,
       Scanning, Publishing
  <2>5. ScanAgrees'
    BY <1>h, <1>x, <1>p, <1>b, <1>s, <1>r, <1>37 DEF ResetHead, HeapTypes, ExecTypes,
       PcType, BatchAgrees, RingTypes, ScanAgrees, Scanning
  <2>6. LockAgrees'
    BY <1>r, <1>p, <1>l, <1>37 DEF ResetHead, RingTypes, PcType, LockAgrees, Checking
  <2>7. FlightExact'
    BY <1>x, <1>p, <1>b, <1>f, <1>37, FlightSame DEF ResetHead, ExecTypes, PcType,
       Hand, Counted
  <2>8. OneOwner'
    BY <1>h, <1>x, <1>p, <1>b, <1>s, <1>o, <1>37 DEF ResetHead, HeapTypes, ExecTypes,
       PcType, BatchAgrees, ScanAgrees, OneOwner, OneOwner, Claimed
  <2> QED
    BY <2>1, <2>2, <2>3, <2>4, <2>5, <2>6, <2>7, <2>8 DEF IInv
<1>38. ASSUME NEW e \in Executors, Rescan(e)
      PROVE  IInv'
  <2>1. /\ BitTypes' /\ RingTypes' /\ ExecTypes' /\ MpcType' /\ MutTypes'
        /\ WriterAgrees'
    BY <1>t, <1>r, <1>x, <1>mp, <1>m, <1>w, <1>38 DEF Rescan, BitTypes, RingTypes,
       ExecTypes, MpcType, MutTypes, WriterAgrees, Bits
  <2>2. HeapTypes'
    BY <1>h, <1>x, <1>m, <1>b, <1>s, <1>w, <1>mp, <1>38 DEF Rescan, ExecTypes,
       MutTypes, BatchAgrees, ScanAgrees, WriterAgrees, MpcType, HeapTypes, Pushing,
       Scanning
  <2>3. PcType'
    BY <1>p, <1>x, <1>38 DEF Rescan, ExecTypes, PcType, PCs
  <2>4. BatchAgrees'
    BY <1>x, <1>p, <1>b, <1>38 DEF Rescan, ExecTypes, PcType, BatchAgrees, Scanning,
       Publishing
  <2>5. ScanAgrees'
    BY <1>h, <1>x, <1>p, <1>b, <1>s, <1>r, <1>38 DEF Rescan, HeapTypes, ExecTypes,
       PcType, BatchAgrees, RingTypes, ScanAgrees, Scanning
  <2>6. LockAgrees'
    BY <1>r, <1>p, <1>l, <1>38 DEF Rescan, RingTypes, PcType, LockAgrees, Checking
  <2>7. FlightExact'
    BY <1>x, <1>p, <1>b, <1>f, <1>38, FlightSame DEF Rescan, ExecTypes, PcType, Hand,
       Counted
  <2>8. OneOwner'
    BY <1>h, <1>x, <1>p, <1>b, <1>s, <1>o, <1>38 DEF Rescan, HeapTypes, ExecTypes,
       PcType, BatchAgrees, ScanAgrees, OneOwner, OneOwner, Claimed
  <2> QED
    BY <2>1, <2>2, <2>3, <2>4, <2>5, <2>6, <2>7, <2>8 DEF IInv
<1>39. ASSUME NEW e \in Executors, Retire(e)
      PROVE  IInv'
  <2>1. /\ BitTypes' /\ HeapTypes' /\ ExecTypes' /\ MpcType' /\ MutTypes'
        /\ WriterAgrees'
    BY <1>t, <1>h, <1>x, <1>mp, <1>m, <1>w, <1>39 DEF Retire, BitTypes, HeapTypes,
       ExecTypes, MpcType, MutTypes, WriterAgrees, Bits
  <2>2. RingTypes'
    BY <1>r, <1>x, <1>m, <1>mp, <1>w, <1>39 DEF Retire, ExecTypes, MutTypes, MpcType,
       WriterAgrees, RingTypes
  <2>3. PcType'
    BY <1>p, <1>x, <1>39 DEF Retire, ExecTypes, PcType, PCs
  <2>4. BatchAgrees'
    BY <1>x, <1>p, <1>b, <1>39 DEF Retire, ExecTypes, PcType, BatchAgrees, Scanning,
       Publishing
  <2>5. ScanAgrees'
    BY <1>h, <1>x, <1>p, <1>b, <1>s, <1>r, <1>39 DEF Retire, HeapTypes, ExecTypes,
       PcType, BatchAgrees, RingTypes, ScanAgrees, Scanning
  <2>6. LockAgrees'
    BY <1>r, <1>p, <1>l, <1>39 DEF Retire, RingTypes, PcType, LockAgrees, Checking
  <2>7. FlightExact'
    BY <1>x, <1>p, <1>b, <1>f, <1>39, FlightSame DEF Retire, ExecTypes, PcType, Hand,
       Counted
  <2>8. OneOwner'
    BY <1>h, <1>x, <1>p, <1>b, <1>s, <1>o, <1>39 DEF Retire, HeapTypes, ExecTypes,
       PcType, BatchAgrees, ScanAgrees, OneOwner, OneOwner, Claimed
  <2> QED
    BY <2>1, <2>2, <2>3, <2>4, <2>5, <2>6, <2>7, <2>8 DEF IInv
<1>40. ASSUME NEW e \in Executors, FsaUnlock(e)
      PROVE  IInv'
  <2>1. /\ BitTypes' /\ HeapTypes' /\ MpcType' /\ MutTypes' /\ WriterAgrees'
    BY <1>t, <1>h, <1>mp, <1>m, <1>w, <1>40 DEF FsaUnlock, BitTypes, HeapTypes,
       MpcType, MutTypes, WriterAgrees, Bits
  <2>2. RingTypes'
    BY <1>r, <1>x, <1>m, <1>mp, <1>w, <1>40 DEF FsaUnlock, ExecTypes, MutTypes,
       MpcType, WriterAgrees, RingTypes
  <2>3. PcType'
    BY <1>p, <1>x, <1>40 DEF FsaUnlock, ExecTypes, PcType, PCs
  <2>4. ExecTypes'
    BY <1>h, <1>t, <1>r, <1>x, <1>p, <1>b, <1>s, <1>40 DEF FsaUnlock, HeapTypes,
       BitTypes, RingTypes, PcType, BatchAgrees, ScanAgrees, ExecTypes, Scanning
  <2>5. BatchAgrees'
    BY <1>x, <1>p, <1>b, <1>40 DEF FsaUnlock, ExecTypes, PcType, BatchAgrees,
       Scanning, Publishing
  <2>6. ScanAgrees'
    BY <1>h, <1>x, <1>p, <1>b, <1>s, <1>r, <1>40 DEF FsaUnlock, HeapTypes, ExecTypes,
       PcType, BatchAgrees, RingTypes, ScanAgrees, Scanning
  <2>7. LockAgrees'
    BY <1>r, <1>p, <1>l, <1>40 DEF FsaUnlock, RingTypes, PcType, LockAgrees, Checking
  <2>8. FlightExact'
    BY <1>x, <1>p, <1>b, <1>f, <1>40, FlightSame DEF FsaUnlock, ExecTypes, PcType,
       Hand, Counted
  <2>9. OneOwner'
    BY <1>h, <1>x, <1>p, <1>b, <1>s, <1>o, <1>40 DEF FsaUnlock, HeapTypes, ExecTypes,
       PcType, BatchAgrees, ScanAgrees, OneOwner, OneOwner, Claimed
  <2> QED
    BY <2>1, <2>2, <2>3, <2>4, <2>5, <2>6, <2>7, <2>8, <2>9 DEF IInv
<1>41. CASE UNCHANGED vars
  BY <1>41 DEF IInv, vars, BitTypes, HeapTypes, RingTypes, PcType, ExecTypes,
     MpcType, MutTypes, BatchAgrees, ScanAgrees, LockAgrees, WriterAgrees,
     FlightExact, OneOwner, Bits, Claimed, Hand, InHand, Pumping
<1> QED
  BY <1>1, <1>2, <1>3, <1>4, <1>5, <1>6, <1>7, <1>8, <1>9, <1>10, <1>11, <1>12,
     <1>13, <1>14, <1>15, <1>16, <1>17, <1>18, <1>19, <1>20, <1>21, <1>22, <1>23,
     <1>24, <1>25, <1>26, <1>27, <1>28, <1>29, <1>30, <1>31, <1>32, <1>33, <1>34,
     <1>35, <1>36, <1>37, <1>38, <1>39, <1>40, <1>41 DEF Next, Push, Body, Pump,
     MarkTail, Execute

-----------------------------------------------------------------------------
LEMMA SnapshotClosed ==
  /\ Roots \subseteq Snapshot
  /\ \A o \in Snapshot : Field0[o] \in Snapshot \cup {Null}
BY HeapAssumption DEF Snapshot, HeapClosed

(* What the snapshot does not reach is never read, marked or stored.       *)
LEMMA InitSnapshotOnly == Init => SnapshotOnly
BY HeapAssumption, SnapshotClosed, SnapshotIn
DEF Init, SnapshotOnly, FieldsOnly, BitsOnly, ScansOnly, TargetsOnly

LEMMA NextSnapshotOnly == IInv /\ SnapshotOnly /\ [Next]_vars => SnapshotOnly'
<1> SUFFICES ASSUME IInv, SnapshotOnly, [Next]_vars PROVE SnapshotOnly'
  OBVIOUS
<1> USE HeapAssumption, SnapshotIn
<1>t. BitTypes
  BY DEF IInv
<1>p. PcType
  BY DEF IInv
<1>mp. MpcType
  BY DEF IInv
<1>h. HeapTypes
  BY DEF IInv
<1>r. RingTypes
  BY DEF IInv
<1>x. ExecTypes
  BY DEF IInv
<1>m. MutTypes
  BY DEF IInv
<1>b. BatchAgrees
  BY DEF IInv
<1>s. ScanAgrees
  BY DEF IInv
<1>l. LockAgrees
  BY DEF IInv
<1>w. WriterAgrees
  BY DEF IInv
<1>f. FlightExact
  BY DEF IInv
<1>o. OneOwner
  BY DEF IInv
<1>fo. FieldsOnly
  BY DEF SnapshotOnly
<1>bo. BitsOnly
  BY DEF SnapshotOnly
<1>so. ScansOnly
  BY DEF SnapshotOnly
<1>to. TargetsOnly
  BY DEF SnapshotOnly
<1> USE DEF Goto, MGoto, pageVars, listVars, ringVars, scanVars, batchVars, pumpVars,
            mutVars, heapVars, ctlVars, sharedVars, execVars
<1>1. ASSUME NEW m \in Mutators, NEW o \in Mutable \cap Snapshot,
              NEW v \in NewValues \cap (Snapshot \cup {Null}), Barrier(m, o, v)
      PROVE  SnapshotOnly'
  <2>1. /\ FieldsOnly' /\ BitsOnly' /\ ScansOnly'
    BY <1>fo, <1>bo, <1>so, <1>1 DEF Barrier, FieldsOnly, BitsOnly, ScansOnly
  <2>2. TargetsOnly'
    BY <1>m, <1>mp, <1>to, <1>fo, <1>h, <1>1 DEF Barrier, MutTypes, MpcType,
       FieldsOnly, HeapTypes, TargetsOnly
  <2> QED
    BY <2>1, <2>2 DEF SnapshotOnly
<1>2. ASSUME NEW m \in Mutators, PushSet(m)
      PROVE  SnapshotOnly'
  <2>1. /\ FieldsOnly' /\ ScansOnly'
    BY <1>fo, <1>so, <1>2 DEF PushSet, TargetPage, FieldsOnly, ScansOnly
  <2>2. BitsOnly'
    BY <1>t, <1>x, <1>b, <1>s, <1>w, <1>mp, <1>bo, <1>so, <1>to, <1>2 DEF PushSet,
       TargetPage, BitTypes, ExecTypes, BatchAgrees, ScanAgrees, WriterAgrees,
       MpcType, ScansOnly, TargetsOnly, BitsOnly, Bits, Scanning, Pushing
  <2>3. TargetsOnly'
    BY <1>m, <1>mp, <1>to, <1>fo, <1>h, <1>2 DEF PushSet, TargetPage, MutTypes,
       MpcType, FieldsOnly, HeapTypes, TargetsOnly
  <2> QED
    BY <2>1, <2>2, <2>3 DEF SnapshotOnly
<1>3. ASSUME NEW m \in Mutators, PushEpoch(m)
      PROVE  SnapshotOnly'
  <2>1. /\ FieldsOnly' /\ BitsOnly' /\ ScansOnly'
    BY <1>fo, <1>bo, <1>so, <1>3 DEF PushEpoch, TargetPage, FieldsOnly, BitsOnly,
       ScansOnly
  <2>2. TargetsOnly'
    BY <1>m, <1>mp, <1>to, <1>fo, <1>h, <1>3 DEF PushEpoch, TargetPage, MutTypes,
       MpcType, FieldsOnly, HeapTypes, TargetsOnly
  <2> QED
    BY <2>1, <2>2 DEF SnapshotOnly
<1>4. ASSUME NEW m \in Mutators, PushDedupe(m)
      PROVE  SnapshotOnly'
  <2>1. /\ FieldsOnly' /\ BitsOnly' /\ ScansOnly'
    BY <1>fo, <1>bo, <1>so, <1>4 DEF PushDedupe, TargetPage, FieldsOnly, BitsOnly,
       ScansOnly
  <2>2. TargetsOnly'
    BY <1>m, <1>mp, <1>to, <1>fo, <1>h, <1>4 DEF PushDedupe, TargetPage, MutTypes,
       MpcType, FieldsOnly, HeapTypes, TargetsOnly
  <2> QED
    BY <2>1, <2>2 DEF SnapshotOnly
<1>5. ASSUME NEW m \in Mutators, PushFull(m)
      PROVE  SnapshotOnly'
  <2>1. /\ FieldsOnly' /\ BitsOnly' /\ ScansOnly'
    BY <1>fo, <1>bo, <1>so, <1>5 DEF PushFull, FieldsOnly, BitsOnly, ScansOnly
  <2>2. TargetsOnly'
    BY <1>m, <1>mp, <1>to, <1>fo, <1>h, <1>5 DEF PushFull, MutTypes, MpcType,
       FieldsOnly, HeapTypes, TargetsOnly
  <2> QED
    BY <2>1, <2>2 DEF SnapshotOnly
<1>6. ASSUME NEW m \in Mutators, PushCas(m)
      PROVE  SnapshotOnly'
  <2>1. /\ FieldsOnly' /\ BitsOnly' /\ ScansOnly'
    BY <1>fo, <1>bo, <1>so, <1>6 DEF PushCas, FieldsOnly, BitsOnly, ScansOnly
  <2>2. TargetsOnly'
    BY <1>m, <1>mp, <1>to, <1>fo, <1>h, <1>6 DEF PushCas, MutTypes, MpcType,
       FieldsOnly, HeapTypes, TargetsOnly
  <2> QED
    BY <2>1, <2>2 DEF SnapshotOnly
<1>7. ASSUME NEW m \in Mutators, PushEntry(m)
      PROVE  SnapshotOnly'
  <2>1. /\ FieldsOnly' /\ BitsOnly' /\ ScansOnly'
    BY <1>fo, <1>bo, <1>so, <1>7 DEF PushEntry, TargetPage, FieldsOnly, BitsOnly,
       ScansOnly
  <2>2. TargetsOnly'
    BY <1>m, <1>mp, <1>to, <1>fo, <1>h, <1>7 DEF PushEntry, TargetPage, MutTypes,
       MpcType, FieldsOnly, HeapTypes, TargetsOnly
  <2> QED
    BY <2>1, <2>2 DEF SnapshotOnly
<1>8. ASSUME NEW m \in Mutators, PushLeave(m)
      PROVE  SnapshotOnly'
  <2>1. /\ FieldsOnly' /\ BitsOnly' /\ ScansOnly'
    BY <1>fo, <1>bo, <1>so, <1>8 DEF PushLeave, FieldsOnly, BitsOnly, ScansOnly
  <2>2. TargetsOnly'
    BY <1>m, <1>mp, <1>to, <1>fo, <1>h, <1>8 DEF PushLeave, MutTypes, MpcType,
       FieldsOnly, HeapTypes, TargetsOnly
  <2> QED
    BY <2>1, <2>2 DEF SnapshotOnly
<1>9. ASSUME NEW m \in Mutators, Store(m)
      PROVE  SnapshotOnly'
  <2>1. /\ BitsOnly' /\ ScansOnly'
    BY <1>bo, <1>so, <1>9 DEF Store, BitsOnly, ScansOnly
  <2>2. FieldsOnly'
    BY <1>h, <1>m, <1>mp, <1>fo, <1>to, <1>9 DEF Store, HeapTypes, MutTypes, MpcType,
       TargetsOnly, FieldsOnly
  <2>3. TargetsOnly'
    BY <1>m, <1>mp, <1>to, <1>fo, <1>h, <1>9 DEF Store, MutTypes, MpcType,
       FieldsOnly, HeapTypes, TargetsOnly
  <2> QED
    BY <2>1, <2>2, <2>3 DEF SnapshotOnly
<1>10. ASSUME NEW e \in Executors, Enter(e)
      PROVE  SnapshotOnly'
  BY <1>10, <1>fo, <1>bo, <1>so, <1>to
  DEF Enter, SnapshotOnly, FieldsOnly, BitsOnly, ScansOnly, TargetsOnly
<1>11. ASSUME NEW e \in Executors, Claim(e)
      PROVE  SnapshotOnly'
  BY <1>11, <1>fo, <1>bo, <1>so, <1>to
  DEF Claim, SnapshotOnly, FieldsOnly, BitsOnly, ScansOnly, TargetsOnly
<1>12. ASSUME NEW e \in Executors, MergeFirst(e)
      PROVE  SnapshotOnly'
  <2>1. /\ FieldsOnly' /\ ScansOnly' /\ TargetsOnly'
    BY <1>fo, <1>so, <1>to, <1>12 DEF MergeFirst, FieldsOnly, ScansOnly, TargetsOnly
  <2>2. BitsOnly'
    BY <1>t, <1>x, <1>b, <1>s, <1>w, <1>mp, <1>bo, <1>so, <1>to,
       <1>12 DEF MergeFirst, BitTypes, ExecTypes, BatchAgrees, ScanAgrees,
       WriterAgrees, MpcType, ScansOnly, TargetsOnly, BitsOnly, Bits, Scanning, Pushing
  <2> QED
    BY <2>1, <2>2 DEF SnapshotOnly
<1>13. ASSUME NEW e \in Executors, ScanPage(e)
      PROVE  SnapshotOnly'
  <2>1. /\ FieldsOnly' /\ TargetsOnly'
    BY <1>fo, <1>to, <1>13 DEF ScanPage, FieldsOnly, TargetsOnly
  <2>2. BitsOnly'
    BY <1>t, <1>x, <1>b, <1>s, <1>w, <1>mp, <1>bo, <1>so, <1>to, <1>13 DEF ScanPage,
       BitTypes, ExecTypes, BatchAgrees, ScanAgrees, WriterAgrees, MpcType,
       ScansOnly, TargetsOnly, BitsOnly, Bits, Scanning, Pushing
  <2>3. ScansOnly'
    BY <1>x, <1>p, <1>b, <1>s, <1>so, <1>fo, <1>bo, <1>13 DEF ScanPage, ExecTypes,
       PcType, BatchAgrees, ScanAgrees, FieldsOnly, BitsOnly, ScansOnly, Scanning
  <2> QED
    BY <2>1, <2>2, <2>3 DEF SnapshotOnly
<1>14. ASSUME NEW e \in Executors, ScanObject(e)
      PROVE  SnapshotOnly'
  <2>1. /\ FieldsOnly' /\ BitsOnly' /\ TargetsOnly'
    BY <1>fo, <1>bo, <1>to, <1>14 DEF ScanObject, ScanRead, FieldsOnly, BitsOnly,
       TargetsOnly
  <2>2. ScansOnly'
    BY <1>x, <1>p, <1>b, <1>s, <1>so, <1>fo, <1>bo, <1>14 DEF ScanObject, ScanRead,
       ExecTypes, PcType, BatchAgrees, ScanAgrees, FieldsOnly, BitsOnly, ScansOnly,
       Scanning
  <2> QED
    BY <2>1, <2>2 DEF SnapshotOnly
<1>15. ASSUME NEW e \in Executors, MarkSet(e)
      PROVE  SnapshotOnly'
  <2>1. /\ FieldsOnly' /\ TargetsOnly'
    BY <1>fo, <1>to, <1>15 DEF MarkSet, FieldsOnly, TargetsOnly
  <2>2. BitsOnly'
    BY <1>t, <1>x, <1>b, <1>s, <1>w, <1>mp, <1>bo, <1>so, <1>to, <1>15 DEF MarkSet,
       BitTypes, ExecTypes, BatchAgrees, ScanAgrees, WriterAgrees, MpcType,
       ScansOnly, TargetsOnly, BitsOnly, Bits, Scanning, Pushing
  <2>3. ScansOnly'
    BY <1>x, <1>p, <1>b, <1>s, <1>so, <1>fo, <1>bo, <1>15 DEF MarkSet, ExecTypes,
       PcType, BatchAgrees, ScanAgrees, FieldsOnly, BitsOnly, ScansOnly, Scanning
  <2> QED
    BY <2>1, <2>2, <2>3 DEF SnapshotOnly
<1>16. ASSUME NEW e \in Executors, MarkCheck(e)
      PROVE  SnapshotOnly'
  <2>1. /\ FieldsOnly' /\ BitsOnly' /\ TargetsOnly'
    BY <1>fo, <1>bo, <1>to, <1>16 DEF MarkCheck, FieldsOnly, BitsOnly, TargetsOnly
  <2>2. ScansOnly'
    BY <1>x, <1>p, <1>b, <1>s, <1>so, <1>fo, <1>bo, <1>16 DEF MarkCheck, ExecTypes,
       PcType, BatchAgrees, ScanAgrees, FieldsOnly, BitsOnly, ScansOnly, Scanning
  <2> QED
    BY <2>1, <2>2 DEF SnapshotOnly
<1>17. ASSUME NEW e \in Executors, MergeAgain(e)
      PROVE  SnapshotOnly'
  <2>1. /\ FieldsOnly' /\ ScansOnly' /\ TargetsOnly'
    BY <1>fo, <1>so, <1>to, <1>17 DEF MergeAgain, FieldsOnly, ScansOnly, TargetsOnly
  <2>2. BitsOnly'
    BY <1>t, <1>x, <1>b, <1>s, <1>w, <1>mp, <1>bo, <1>so, <1>to,
       <1>17 DEF MergeAgain, BitTypes, ExecTypes, BatchAgrees, ScanAgrees,
       WriterAgrees, MpcType, ScansOnly, TargetsOnly, BitsOnly, Bits, Scanning, Pushing
  <2> QED
    BY <2>1, <2>2 DEF SnapshotOnly
<1>18. ASSUME NEW e \in Executors, SetProcessed(e)
      PROVE  SnapshotOnly'
  BY <1>18, <1>fo, <1>bo, <1>so, <1>to
  DEF SetProcessed, SnapshotOnly, FieldsOnly, BitsOnly, ScansOnly, TargetsOnly
<1>19. ASSUME NEW e \in Executors, Drain(e)
      PROVE  SnapshotOnly'
  <2>1. /\ FieldsOnly' /\ BitsOnly' /\ TargetsOnly'
    BY <1>fo, <1>bo, <1>to, <1>19 DEF Drain, ScanRead, FieldsOnly, BitsOnly, TargetsOnly
  <2>2. ScansOnly'
    BY <1>x, <1>p, <1>b, <1>s, <1>so, <1>fo, <1>bo, <1>19 DEF Drain, ScanRead,
       ExecTypes, PcType, BatchAgrees, ScanAgrees, FieldsOnly, BitsOnly, ScansOnly,
       Scanning
  <2> QED
    BY <2>1, <2>2 DEF SnapshotOnly
<1>20. ASSUME NEW e \in Executors, LateMerge(e)
      PROVE  SnapshotOnly'
  <2>1. /\ FieldsOnly' /\ ScansOnly' /\ TargetsOnly'
    BY <1>fo, <1>so, <1>to, <1>20 DEF LateMerge, FieldsOnly, ScansOnly, TargetsOnly
  <2>2. BitsOnly'
    BY <1>t, <1>x, <1>b, <1>s, <1>w, <1>mp, <1>bo, <1>so, <1>to, <1>20 DEF LateMerge,
       BitTypes, ExecTypes, BatchAgrees, ScanAgrees, WriterAgrees, MpcType,
       ScansOnly, TargetsOnly, BitsOnly, Bits, Scanning, Pushing
  <2> QED
    BY <2>1, <2>2 DEF SnapshotOnly
<1>21. ASSUME NEW e \in Executors, Publish(e)
      PROVE  SnapshotOnly'
  BY <1>21, <1>fo, <1>bo, <1>so, <1>to
  DEF Publish, SnapshotOnly, FieldsOnly, BitsOnly, ScansOnly, TargetsOnly
<1>22. ASSUME NEW e \in Executors, Release(e)
      PROVE  SnapshotOnly'
  BY <1>22, <1>fo, <1>bo, <1>so, <1>to
  DEF Release, SnapshotOnly, FieldsOnly, BitsOnly, ScansOnly, TargetsOnly
<1>23. ASSUME NEW e \in Executors, PumpRead(e)
      PROVE  SnapshotOnly'
  BY <1>23, <1>fo, <1>bo, <1>so, <1>to
  DEF PumpRead, SnapshotOnly, FieldsOnly, BitsOnly, ScansOnly, TargetsOnly
<1>24. ASSUME NEW e \in Executors, PumpCas(e)
      PROVE  SnapshotOnly'
  BY <1>24, <1>fo, <1>bo, <1>so, <1>to
  DEF PumpCas, SnapshotOnly, FieldsOnly, BitsOnly, ScansOnly, TargetsOnly
<1>25. ASSUME NEW e \in Executors, PumpTake(e)
      PROVE  SnapshotOnly'
  BY <1>25, <1>fo, <1>bo, <1>so, <1>to
  DEF PumpTake, SnapshotOnly, FieldsOnly, BitsOnly, ScansOnly, TargetsOnly
<1>26. ASSUME NEW e \in Executors, PageNeedsScan(e)
      PROVE  SnapshotOnly'
  BY <1>26, <1>fo, <1>bo, <1>so, <1>to
  DEF PageNeedsScan, SnapshotOnly, FieldsOnly, BitsOnly, ScansOnly, TargetsOnly
<1>27. ASSUME NEW e \in Executors, PumpLanded(e)
      PROVE  SnapshotOnly'
  BY <1>27, <1>fo, <1>bo, <1>so, <1>to
  DEF PumpLanded, SnapshotOnly, FieldsOnly, BitsOnly, ScansOnly, TargetsOnly
<1>28. ASSUME NEW e \in Executors, MaybeDone(e)
      PROVE  SnapshotOnly'
  BY <1>28, <1>fo, <1>bo, <1>so, <1>to
  DEF MaybeDone, SnapshotOnly, FieldsOnly, BitsOnly, ScansOnly, TargetsOnly
<1>29. ASSUME NEW e \in Executors, TryTransition(e)
      PROVE  SnapshotOnly'
  BY <1>29, <1>fo, <1>bo, <1>so, <1>to
  DEF TryTransition, SnapshotOnly, FieldsOnly, BitsOnly, ScansOnly, TargetsOnly
<1>30. ASSUME NEW e \in Executors, OutstandingLock(e)
      PROVE  SnapshotOnly'
  BY <1>30, <1>fo, <1>bo, <1>so, <1>to
  DEF OutstandingLock, SnapshotOnly, FieldsOnly, BitsOnly, ScansOnly, TargetsOnly
<1>31. ASSUME NEW e \in Executors, OutstandingWriters(e)
      PROVE  SnapshotOnly'
  BY <1>31, <1>fo, <1>bo, <1>so, <1>to
  DEF OutstandingWriters, Busy, SnapshotOnly, FieldsOnly, BitsOnly, ScansOnly, TargetsOnly
<1>32. ASSUME NEW e \in Executors, OutstandingRing(e)
      PROVE  SnapshotOnly'
  BY <1>32, <1>fo, <1>bo, <1>so, <1>to
  DEF OutstandingRing, Busy, SnapshotOnly, FieldsOnly, BitsOnly, ScansOnly, TargetsOnly
<1>33. ASSUME NEW e \in Executors, OutstandingFlight(e)
      PROVE  SnapshotOnly'
  BY <1>33, <1>fo, <1>bo, <1>so, <1>to
  DEF OutstandingFlight, Busy, SnapshotOnly, FieldsOnly, BitsOnly, ScansOnly, TargetsOnly
<1>34. ASSUME NEW e \in Executors, OverflowRead(e)
      PROVE  SnapshotOnly'
  BY <1>34, <1>fo, <1>bo, <1>so, <1>to
  DEF OverflowRead, SnapshotOnly, FieldsOnly, BitsOnly, ScansOnly, TargetsOnly
<1>35. ASSUME NEW e \in Executors, ResetWipe(e)
      PROVE  SnapshotOnly'
  BY <1>35, <1>fo, <1>bo, <1>so, <1>to
  DEF ResetWipe, SnapshotOnly, FieldsOnly, BitsOnly, ScansOnly, TargetsOnly
<1>36. ASSUME NEW e \in Executors, ResetTail(e)
      PROVE  SnapshotOnly'
  BY <1>36, <1>fo, <1>bo, <1>so, <1>to
  DEF ResetTail, SnapshotOnly, FieldsOnly, BitsOnly, ScansOnly, TargetsOnly
<1>37. ASSUME NEW e \in Executors, ResetHead(e)
      PROVE  SnapshotOnly'
  BY <1>37, <1>fo, <1>bo, <1>so, <1>to
  DEF ResetHead, SnapshotOnly, FieldsOnly, BitsOnly, ScansOnly, TargetsOnly
<1>38. ASSUME NEW e \in Executors, Rescan(e)
      PROVE  SnapshotOnly'
  BY <1>38, <1>fo, <1>bo, <1>so, <1>to
  DEF Rescan, SnapshotOnly, FieldsOnly, BitsOnly, ScansOnly, TargetsOnly
<1>39. ASSUME NEW e \in Executors, Retire(e)
      PROVE  SnapshotOnly'
  BY <1>39, <1>fo, <1>bo, <1>so, <1>to
  DEF Retire, SnapshotOnly, FieldsOnly, BitsOnly, ScansOnly, TargetsOnly
<1>40. ASSUME NEW e \in Executors, FsaUnlock(e)
      PROVE  SnapshotOnly'
  BY <1>40, <1>fo, <1>bo, <1>so, <1>to
  DEF FsaUnlock, SnapshotOnly, FieldsOnly, BitsOnly, ScansOnly, TargetsOnly
<1>41. CASE UNCHANGED vars
  BY <1>41 DEF SnapshotOnly, vars, FieldsOnly, BitsOnly, ScansOnly, TargetsOnly
<1> QED
  BY <1>1, <1>2, <1>3, <1>4, <1>5, <1>6, <1>7, <1>8, <1>9, <1>10, <1>11, <1>12,
     <1>13, <1>14, <1>15, <1>16, <1>17, <1>18, <1>19, <1>20, <1>21, <1>22, <1>23,
     <1>24, <1>25, <1>26, <1>27, <1>28, <1>29, <1>30, <1>31, <1>32, <1>33, <1>34,
     <1>35, <1>36, <1>37, <1>38, <1>39, <1>40, <1>41 DEF Next, Push, Body, Pump,
     MarkTail, Execute

-----------------------------------------------------------------------------
(* The invariants hold in every reachable state.                           *)
THEOREM Invariance == Spec => [](IInv /\ SnapshotOnly)
<1>1. Init => IInv /\ SnapshotOnly
  BY InitIInv, InitSnapshotOnly
<1>2. IInv /\ SnapshotOnly /\ [Next]_vars => (IInv /\ SnapshotOnly)'
  BY NextIInv, NextSnapshotOnly
<1> QED
  BY <1>1, <1>2, PTL DEF Spec

LEMMA TypesOK == IInv => TypeOK
<1> SUFFICES ASSUME IInv PROVE TypeOK
  OBVIOUS
<1>1. inFlight \in Nat
  BY CountedFinite DEF IInv, FlightExact
<1>2. writing \in [Mutators -> 0 .. 1]
  BY DEF IInv, MutTypes, WriterAgrees
<1>3. processed \in [Pages -> 0 .. epoch]
  BY DEF IInv, HeapTypes
<1>4. \A b \in {seen, atomicSeen, scanned} :
        b \in [Pages -> SUBSET Objects] /\ \A p \in Pages : \A o \in b[p] : PageOf[o] = p
  BY DEF IInv, BitTypes, Bits
<1> QED
  BY <1>1, <1>2, <1>3, <1>4 DEF IInv, TypeOK, HeapTypes, RingTypes, ExecTypes

(* Every variable keeps its type.  Among the types: the in-flight count,   *)
(* which executors raise and lower without the lock, never goes below      *)
(* zero, no page carries an epoch that has not come, and a mark lies on    *)
(* its object's page.                                                      *)
THEOREM TypeCorrect == Spec => []TypeOK
BY Invariance, TypesOK, PTL

(* A page is on one list or claimed by one executor, and never nowhere,    *)
(* whatever batches, requeues, pumps and re-scans do with it.              *)
THEOREM PagesHaveOneOwner == Spec => []OneOwner
<1>1. IInv => OneOwner
  BY DEF IInv
<1> QED
  BY <1>1, Invariance, PTL

(* The in-flight count that ends the stage is exact: the pages in the      *)
(* executors' hands and the pumps under way, and nothing else.             *)
THEOREM InFlightIsExact == Spec => []FlightExact
<1>1. IInv => FlightExact
  BY DEF IInv
<1> QED
  BY <1>1, Invariance, PTL

-----------------------------------------------------------------------------
(* Marks page by page.                                                     *)
MarksOf(p) == seen[p] \cup atomicSeen[p]

LEMMA MarksSame ==
  ASSUME \A p \in Pages : MarksOf(p)' = MarksOf(p)
  PROVE  Marked' = Marked
BY DEF Marked, MarksOf

LEMMA MarksGain ==
  ASSUME NEW q \in Pages, NEW c, MarksOf(q)' = MarksOf(q) \cup {c},
         \A p \in Pages \ {q} : MarksOf(p)' = MarksOf(p)
  PROVE  Marked' = Marked \cup {c}
BY DEF Marked, MarksOf

(* A step of the stage marks one object of the snapshot, or none.          *)
LEMMA MarksStep ==
  ASSUME IInv, SnapshotOnly, [Next]_vars
  PROVE  Marked' = Marked \/ \E o \in Snapshot : Marked' = Marked \cup {o}
<1> USE HeapAssumption, SnapshotIn
<1> USE DEF Goto, MGoto, pageVars, listVars, ringVars, scanVars, batchVars, pumpVars,
            mutVars, heapVars, ctlVars, sharedVars, execVars
<1>a. BitTypes /\ ExecTypes /\ BatchAgrees /\ ScanAgrees /\ WriterAgrees
  BY DEF IInv
<1>b. ScansOnly /\ TargetsOnly
  BY DEF SnapshotOnly
<1>0. ASSUME NEW q \in Pages, NEW c, UNCHANGED seen,
             atomicSeen' = [atomicSeen EXCEPT ![q] = @ \cup {c}]
      PROVE  Marked' = Marked \cup {c}
  <2>1. MarksOf(q)' = MarksOf(q) \cup {c} /\ \A p \in Pages \ {q} : MarksOf(p)' = MarksOf(p)
    BY <1>a, <1>0 DEF MarksOf, BitTypes, Bits
  <2> QED
    BY <2>1, MarksGain
<1>1. ASSUME NEW m \in Mutators, PushSet(m)
      PROVE  \E o \in Snapshot : Marked' = Marked \cup {o}
  <2>1. target[m][2] \in Snapshot /\ TargetPage(m) \in Pages
    BY <1>a, <1>b, <1>1 DEF PushSet, TargetPage, WriterAgrees, Pushing, TargetsOnly
  <2>2. /\ UNCHANGED seen
        /\ atomicSeen' = [atomicSeen EXCEPT ![TargetPage(m)] = @ \cup {target[m][2]}]
    BY <1>1 DEF PushSet
  <2> QED
    BY <1>0, <2>1, <2>2
<1>2. ASSUME NEW e \in Executors, MarkSet(e)
      PROVE  \E o \in Snapshot : Marked' = Marked \cup {o}
  <2>1. child[e] \in Snapshot /\ PageOf[child[e]] \in Pages
    BY <1>a, <1>b, <1>2 DEF MarkSet, ScanAgrees, ScansOnly
  <2>2. /\ UNCHANGED seen
        /\ atomicSeen' = [atomicSeen EXCEPT ![PageOf[child[e]]] = @ \cup {child[e]}]
    BY <1>2 DEF MarkSet
  <2> QED
    BY <1>0, <2>1, <2>2
<1>3. ASSUME NEW p \in Pages, seen' = [seen EXCEPT ![p] = @ \cup atomicSeen[p]],
             atomicSeen' = [atomicSeen EXCEPT ![p] = {}]
      PROVE  Marked' = Marked
  BY <1>a, <1>3, MarksSame DEF MarksOf, BitTypes, Bits
<1>4. ASSUME NEW e \in Executors, MergeFirst(e) \/ MergeAgain(e) \/ LateMerge(e)
      PROVE  Marked' = Marked
  <2>1. CASE MergeFirst(e)
    BY <1>a, <1>3, <2>1 DEF MergeFirst, ExecTypes
  <2>2. CASE MergeAgain(e) \/ LateMerge(e)
    <3>1. cur[e] \in Pages
      BY <1>a, <2>2 DEF MergeAgain, LateMerge, BatchAgrees, Scanning, ExecTypes
    <3> QED
      BY <1>3, <2>2, <3>1 DEF MergeAgain, LateMerge
  <2> QED
    BY <1>4, <2>1, <2>2
<1>5. ASSUME UNCHANGED <<seen, atomicSeen>>
      PROVE  Marked' = Marked
  BY <1>5, MarksSame DEF MarksOf
<1>6. ASSUME NEW m \in Mutators,
             (\E o \in Mutable \cap Snapshot, v \in NewValues \cap (Snapshot \cup {Null}) :
                Barrier(m, o, v))
             \/ PushEpoch(m) \/ PushDedupe(m) \/ PushFull(m)
             \/ PushCas(m) \/ PushEntry(m) \/ PushLeave(m) \/ Store(m)
      PROVE  Marked' = Marked
  BY <1>5, <1>6
  DEF Barrier, PushEpoch, PushDedupe, PushFull, PushCas, PushEntry, PushLeave, Store
<1>7. ASSUME NEW e \in Executors,
             \/ Enter(e) \/ Claim(e) \/ ScanPage(e) \/ ScanObject(e) \/ MarkCheck(e)
             \/ SetProcessed(e) \/ Drain(e) \/ Publish(e) \/ Release(e)
      PROVE  Marked' = Marked
  BY <1>5, <1>7
  DEF Enter, Claim, ScanPage, ScanObject, MarkCheck, SetProcessed, Drain, Publish, Release
<1>8. ASSUME NEW e \in Executors, Pump(e) PROVE Marked' = Marked
  BY <1>5, <1>8 DEF Pump, PumpRead, PumpCas, PumpTake, PageNeedsScan, PumpLanded
<1>9. ASSUME NEW e \in Executors, MarkTail(e) PROVE Marked' = Marked
  BY <1>5, <1>9
  DEF MarkTail, MaybeDone, TryTransition, OutstandingLock, OutstandingWriters, Busy,
      OutstandingRing, OutstandingFlight, OverflowRead, ResetWipe, ResetTail, ResetHead,
      Rescan, Retire, FsaUnlock
<1>10. CASE UNCHANGED vars
  BY <1>5, <1>10 DEF vars
<1> QED
  BY <1>1, <1>2, <1>4, <1>6, <1>7, <1>8, <1>9, <1>10 DEF Next, Push, Execute, Body

(* The stage only goes from MARK_SWEEP to PRUNE.                           *)
LEMMA StageStep ==
  ASSUME IInv, [Next]_vars
  PROVE  stage' = stage \/ (stage = "MARK_SWEEP" /\ stage' = "PRUNE" /\ Marked' = Marked
                            /\ \E e \in Executors : Retire(e))
<1> USE DEF listVars, ringVars, mutVars, heapVars, ctlVars, sharedVars, execVars, pageVars
<1>1. ASSUME NEW m \in Mutators,
             (\E o \in Mutable \cap Snapshot, v \in NewValues \cap (Snapshot \cup {Null}) :
                Barrier(m, o, v))
             \/ Push(m)
      PROVE  stage' = stage
  BY <1>1
  DEF Barrier, Push, PushSet, PushEpoch, PushDedupe, PushFull, PushCas, PushEntry, PushLeave, Store
<1>2. ASSUME NEW e \in Executors, Body(e) PROVE stage' = stage
  BY <1>2
  DEF Body, Enter, Claim, MergeFirst, ScanPage, ScanObject, MarkSet, MarkCheck, MergeAgain,
      SetProcessed, Drain, LateMerge, Publish, Release
<1>3. ASSUME NEW e \in Executors, Pump(e) PROVE stage' = stage
  BY <1>3 DEF Pump, PumpRead, PumpCas, PumpTake, PageNeedsScan, PumpLanded
<1>4. ASSUME NEW e \in Executors, MarkTail(e), ~Retire(e) PROVE stage' = stage
  BY <1>4
  DEF MarkTail, MaybeDone, TryTransition, OutstandingLock, OutstandingWriters, Busy,
      OutstandingRing, OutstandingFlight, OverflowRead, ResetWipe, ResetTail, ResetHead,
      Rescan, FsaUnlock
<1>5. ASSUME NEW e \in Executors, Retire(e)
      PROVE  stage' = stage \/ (stage = "MARK_SWEEP" /\ stage' = "PRUNE" /\ Marked' = Marked)
  BY <1>5 DEF Retire, IInv, RingTypes, Marked
<1>6. CASE UNCHANGED vars
  BY <1>6 DEF vars
<1> QED
  BY <1>1, <1>2, <1>3, <1>4, <1>5, <1>6 DEF Next, Execute

LEMMA SoundStep ==
  ASSUME IInv, SnapshotOnly, [Next]_vars
  PROVE  [Satb!Mark \/ Satb!Stop]_<<Marked, stage = "PRUNE">>
<1>1. CASE stage' = stage
  <2>1. CASE Marked' = Marked
    BY <1>1, <2>1
  <2>2. CASE Marked' # Marked
    <3>1. PICK o \in Snapshot : Marked' = Marked \cup {o}
      BY <2>2, MarksStep
    <3> QED
      BY <1>1, <2>2, <3>1 DEF Satb!Mark
  <2> QED
    BY <2>1, <2>2
<1>2. CASE stage' # stage
  BY <1>2, StageStep DEF Satb!Stop
<1> QED
  BY <1>1, <1>2

(* Refinement, the part that holds of every run: the stage marks objects   *)
(* of the snapshot only, and never loses a mark, however the executors'    *)
(* merges, the fetch_ors and the barriers interleave.                      *)
THEOREM SoundMarking == Spec => Satb!SoundSpec
<1>1. Init => Satb!Init
  <2> SUFFICES ASSUME Init PROVE Satb!Init
    OBVIOUS
  <2>1. Marked = Roots
    BY HeapAssumption DEF Init, Marked
  <2> QED
    BY <2>1 DEF Init, Satb!Init
<1>2. IInv /\ SnapshotOnly /\ [Next]_vars => [Satb!Mark \/ Satb!Stop]_<<Marked, stage = "PRUNE">>
  BY SoundStep
<1> QED
  BY <1>1, <1>2, Invariance, PTL DEF Spec, Satb!SoundSpec
=============================================================================
