------------------------ MODULE GcCycleMarker_proofs ------------------------
(***************************************************************************)
(* The second half of the proof about GcCycle: the marker's view (Marker)  *)
(* and what is not reclaimed (Heap), and from the inductive invariant      *)
(* IInv the theorems.                                                      *)
(***************************************************************************)
EXTENDS GcCycle_proofs

(* The set the marker will get to holds what leads into it.                *)
WillMarkIn(C) ==
  /\ marked \subseteq C
  /\ \A t \in Threads : White(t) => held[t] \in C \cup {Null}
  /\ \A t \in Threads : grey[t] \in Slots \ Stale => mem[grey[t]] \in C \cup {Null}
  /\ \A t \in Threads : White(t) /\ pc[t] = "publish" /\ op[t].slot \in ReadStatics
       => mem[op[t].slot] \in C \cup {Null}
  /\ \A o \in C \ (Young \cup scanned \cup Stale) : mem[o] \in C \cup {Null}

LEMMA KeptFacts == Types => Kept \subseteq Objects /\ WillMarkIn(Kept)
<1> SUFFICES ASSUME Types PROVE Kept \subseteq Objects /\ WillMarkIn(Kept)
  OBVIOUS
<1> USE HeapAssumption
<1>1. /\ marked \subseteq WillMark
      /\ \A t \in Threads : White(t) => held[t] \in WillMark \cup {Null}
      /\ \A t \in Threads : grey[t] \in Slots \ Stale => mem[grey[t]] \in WillMark \cup {Null}
      /\ \A t \in Threads : White(t) /\ pc[t] = "publish" /\ op[t].slot \in ReadStatics
           => mem[op[t].slot] \in WillMark \cup {Null}
  BY DEF WillMark
<1>2. WillMark \subseteq Objects
  <2> SUFFICES ASSUME NEW x \in WillMark, x \notin marked PROVE x \in Objects
    BY DEF Types
  <2>1. /\ x # Null
        /\ \/ \E t \in Threads : x = held[t]
           \/ \E t \in Threads : grey[t] \in Slots /\ x = mem[grey[t]]
           \/ \E t \in Threads : op[t].slot \in ReadStatics /\ x = mem[op[t].slot]
    BY DEF WillMark
  <2>2. ReadStatics \subseteq Slots
    BY DEF ReadStatics, Slots
  <2> QED
    BY <2>1, <2>2 DEF Types
<1>3. WillMark \subseteq Kept /\ Kept \subseteq Objects
  BY <1>2 DEF Kept
<1>4. \A o \in Kept \ (Young \cup scanned \cup Stale) : mem[o] \in Kept \cup {Null}
  <2> SUFFICES ASSUME NEW o \in Kept \ (Young \cup scanned \cup Stale), mem[o] # Null
               PROVE  mem[o] \in Kept
    OBVIOUS
  <2>1. mem[o] \in Objects
    BY <1>3 DEF Types, Slots
  <2>2. ASSUME NEW C \in SUBSET Objects, WillMark \subseteq C, KeptEdges(C) PROVE mem[o] \in C
    <3>1. o \in C
      BY <2>2 DEF Kept
    <3> QED
      BY <2>2, <3>1 DEF KeptEdges
  <2> QED
    BY <2>1, <2>2 DEF Kept
<1> QED
  BY <1>1, <1>3, <1>4 DEF WillMarkIn

LEMMA KeptFactsNext == Types' => Kept' \subseteq Objects /\ WillMarkIn(Kept)'
<1>1. Types' => (Kept \subseteq Objects /\ WillMarkIn(Kept))'
  BY KeptFacts, PTL
<1> QED
  BY <1>1

LEMMA KeptLeast ==
  ASSUME NEW C \in SUBSET Objects, WillMarkIn(C)
  PROVE  Kept \subseteq C
<1> USE DEF WillMarkIn
<1>1. WillMark \subseteq C
  <2> SUFFICES ASSUME NEW x \in WillMark, x \notin marked PROVE x \in C
    OBVIOUS
  <2>1. /\ x # Null
        /\ \/ \E t \in Threads : White(t) /\ x = held[t]
           \/ \E t \in Threads : grey[t] \in Slots \ Stale /\ x = mem[grey[t]]
           \/ \E t \in Threads : White(t) /\ pc[t] = "publish" /\ op[t].slot \in ReadStatics
                                 /\ x = mem[op[t].slot]
    BY DEF WillMark
  <2> QED
    BY <2>1
<1>2. KeptEdges(C)
  BY DEF KeptEdges
<1> QED
  BY <1>1, <1>2 DEF Kept

(* What the marker will get to grows in a step that writes no slot and     *)
(* shades what it gives up.                                                *)
LEMMA KeptGrows ==
  ASSUME Types, Types', mem' = mem, marked \subseteq marked',
         \A x \in Stale' \ Stale : mem[x] \in marked' \cup {Null},
         \A x \in scanned' \ scanned : mem[x] \in marked' \cup {Null},
         \A x \in Young' \ Young : mem[x] = Null,
         \A t \in Threads : White(t) => \/ held[t] \in marked' \cup {Null}
                                        \/ White(t)' /\ held'[t] = held[t],
         \A t \in Threads : grey[t] \in Slots => \/ mem[grey[t]] \in marked' \cup {Null}
                                                 \/ grey'[t] = grey[t],
         \A t \in Threads : White(t) /\ pc[t] = "publish" /\ op[t].slot \in ReadStatics =>
           White(t)' /\ \/ held'[t] = mem[op[t].slot]
                        \/ pc'[t] = "publish" /\ op'[t].slot = op[t].slot /\ op[t].slot \in ReadStatics'
  PROVE  Kept \subseteq Kept'
<1>1. Kept' \subseteq Objects /\ WillMarkIn(Kept)'
  BY KeptFactsNext
<1> USE DEF WillMarkIn
<1>2. marked \subseteq Kept'
  BY <1>1
<1>3. \A t \in Threads : White(t) => held[t] \in Kept' \cup {Null}
  BY <1>1
<1>4. \A t \in Threads : grey[t] \in Slots \ Stale => mem[grey[t]] \in Kept' \cup {Null}
  BY <1>1
<1>5. \A t \in Threads : White(t) /\ pc[t] = "publish" /\ op[t].slot \in ReadStatics
        => mem[op[t].slot] \in Kept' \cup {Null}
  BY <1>1
<1>6. \A o \in Kept' \ (Young \cup scanned \cup Stale) : mem[o] \in Kept' \cup {Null}
  BY <1>1
<1> QED
  BY <1>1, <1>2, <1>3, <1>4, <1>5, <1>6, KeptLeast

-----------------------------------------------------------------------------
(* What a step that writes no slot owes to each part of Marker.            *)
MarkerOwed ==
  /\ Kept \subseteq Kept' /\ Young \subseteq Young' /\ marked \subseteq marked'
  /\ \A u \in Threads : Black(u)' =>
       \/ Black(u) /\ locals'[u] \subseteq locals[u] /\ held'[u] \in {held[u], Null}
       \/ locals'[u] \cup {held'[u]} \subseteq Safe'
  /\ \A s \in ReadStatics' : s \in ReadStatics \/ mem[s] \in marked' \cup {Null}
  /\ \A o \in Young' : o \in Young \/ mem[o] = Null
  /\ stage' = "MARK" => \A o \in scanned' :
       (stage = "MARK" /\ o \in scanned) \/ mem[o] \in marked' \cup {Null}
  /\ \A u \in Threads : barrier' /\ Plain(u)' /\ pc'[u] \in {"grey", "write"} =>
       \/ mem[op'[u].slot] \in marked' \cup {Null}
       \/ /\ barrier /\ pc[u] \in {"grey", "write"} /\ op'[u] = op[u]
          /\ White(u) => White(u)'
          /\ op[u].slot \in ReadStatics' \cup Young' => op[u].slot \in ReadStatics \cup Young
  /\ \A u \in Threads : ~Plain(u)' /\ pc'[u] = "write" =>
       \/ op'[u].expected \in marked' \cup {Null}
       \/ /\ pc[u] = "write" /\ op'[u] = op[u]
          /\ op[u].slot \in ReadStatics' => op[u].slot \in ReadStatics \/ mem[op[u].slot] \in marked' \cup {Null}
  /\ \A u \in Threads : White(u)' /\ pc'[u] = "write" /\ op'[u].slot \in Young' =>
       \/ grey'[u] = op'[u].slot
       \/ White(u) /\ pc[u] = "write" /\ op'[u] = op[u] /\ op[u].slot \in Young /\ grey'[u] = grey[u]

LEMMA MarkerStep ==
  ASSUME Types, Types', Marker, mem' = mem, MarkerOwed
  PROVE  Marker'
<1> USE DEF MarkerOwed
<1>1. Safe \subseteq Safe' /\ marked' \cup {Null} \subseteq Safe'
  <2>1. marked' \subseteq Kept'
    BY KeptFactsNext DEF WillMarkIn
  <2> QED
    BY <2>1 DEF Safe
<1>2. BlackKept'
  <2>1. \A u \in Threads : Black(u) => locals[u] \cup {held[u]} \subseteq Safe
    BY DEF Marker, BlackKept
  <2>2. \A u \in Threads : Black(u)' => locals'[u] \cup {held'[u]} \subseteq Safe'
    <3> SUFFICES ASSUME NEW u \in Threads, Black(u)' PROVE locals'[u] \cup {held'[u]} \subseteq Safe'
      OBVIOUS
    <3>1. CASE locals'[u] \cup {held'[u]} \subseteq Safe'
      BY <3>1
    <3>2. CASE Black(u) /\ locals'[u] \subseteq locals[u] /\ held'[u] \in {held[u], Null}
      BY <1>1, <2>1, <3>2
    <3> QED
      BY <3>1, <3>2
  <2> QED
    BY <2>2 DEF BlackKept
<1>3. StaticsKept'
  <2>1. \A s \in ReadStatics' : mem'[s] \in Safe'
    BY <1>1 DEF Marker, StaticsKept
  <2> QED
    BY <2>1 DEF StaticsKept
<1>4. YoungKept'
  <2>1. \A o \in Young' : mem'[o] \in Safe'
    BY <1>1 DEF Marker, YoungKept
  <2> QED
    BY <2>1 DEF YoungKept
<1>5. ScannedKept'
  <2>1. stage' = "MARK" => \A o \in scanned' : mem'[o] \in Safe'
    BY <1>1 DEF Marker, ScannedKept
  <2> QED
    BY <2>1 DEF ScannedKept
<1>6. WriteShaded'
  <2>1. \A u \in Threads : barrier' /\ Plain(u)' /\ pc'[u] \in {"grey", "write"} =>
          \/ mem'[op'[u].slot] \in marked' \cup {Null}
          \/ White(u)' /\ op'[u].slot \notin ReadStatics' \cup Young'
    <3> SUFFICES ASSUME NEW u \in Threads, barrier', Plain(u)', pc'[u] \in {"grey", "write"},
                        mem[op'[u].slot] \notin marked' \cup {Null}
                 PROVE  White(u)' /\ op'[u].slot \notin ReadStatics' \cup Young'
      OBVIOUS
    <3>1. /\ barrier /\ pc[u] \in {"grey", "write"} /\ op'[u] = op[u]
          /\ White(u) => White(u)'
          /\ op[u].slot \in ReadStatics' \cup Young' => op[u].slot \in ReadStatics \cup Young
      OBVIOUS
    <3>2. Plain(u)
      BY <3>1 DEF Plain
    <3>3. White(u) /\ op[u].slot \notin ReadStatics \cup Young
      BY <3>1, <3>2 DEF Marker, WriteShaded, Shaded
    <3> QED
      BY <3>1, <3>3
  <2> QED
    BY <2>1 DEF WriteShaded, Shaded
<1>7. CasShaded'
  <2>1. \A u \in Threads : ~Plain(u)' /\ pc'[u] = "write" /\ op'[u].slot \in ReadStatics'
                           /\ mem'[op'[u].slot] = op'[u].expected =>
          op'[u].expected \in marked' \cup {Null}
    <3> SUFFICES ASSUME NEW u \in Threads, ~Plain(u)', pc'[u] = "write", op'[u].slot \in ReadStatics',
                        mem[op'[u].slot] = op'[u].expected
                 PROVE  op'[u].expected \in marked' \cup {Null}
      OBVIOUS
    <3>1. CASE /\ pc[u] = "write" /\ op'[u] = op[u]
               /\ op[u].slot \in ReadStatics' => op[u].slot \in ReadStatics \/ mem[op[u].slot] \in marked' \cup {Null}
      BY <3>1 DEF Marker, CasShaded, Shaded, Plain
    <3> QED
      BY <3>1
  <2> QED
    BY <2>1 DEF CasShaded, Shaded
<1>8. InsertKept'
  <2>1. \A u \in Threads : White(u)' /\ pc'[u] = "write" /\ op'[u].slot \in Young'
                           => grey'[u] = op'[u].slot
    BY DEF Marker, InsertKept, Storing
  <2> QED
    BY <2>1 DEF InsertKept
<1> QED
  BY <1>2, <1>3, <1>4, <1>5, <1>6, <1>7, <1>8 DEF Marker

(* When the barrier is down, nothing is owed.                              *)
LEMMA MarkerDown ==
  ASSUME StageAgrees, ~barrier
  PROVE  Marker
<1>1. \A t \in Threads : ~Black(t) /\ ~White(t)
  BY DEF StageAgrees, Black, White
<1>2. Young = {} /\ ReadStatics = {} /\ stage # "MARK"
  BY <1>1 DEF Young, ReadStatics, StageAgrees
<1>3. BlackKept /\ StaticsKept /\ YoungKept /\ ScannedKept
  BY <1>1, <1>2 DEF BlackKept, StaticsKept, YoungKept, ScannedKept
<1>4. WriteShaded /\ CasShaded /\ InsertKept
  BY <1>1, <1>2 DEF WriteShaded, CasShaded, InsertKept
<1> QED
  BY <1>3, <1>4 DEF Marker
LEMMA MarkerDownNext == StageAgrees' /\ ~barrier' => Marker'
<1>1. StageAgrees /\ ~barrier => Marker
  BY MarkerDown
<1>2. (StageAgrees /\ ~barrier)' => Marker'
  BY <1>1, PTL
<1> QED
  BY <1>2

(* What a step leaves of the colours.                                      *)
LEMMA ViewQuiet ==
  ASSUME UNCHANGED <<barrier, stage, rootsScanned, where, owner, todo>>,
         \A u \in Threads : pc[u] = "statics" <=> pc'[u] = "statics"
  PROVE  /\ \A u \in Threads : (Black(u)' <=> Black(u)) /\ (White(u)' <=> White(u))
         /\ Young' = Young /\ ReadStatics' = ReadStatics
<1>1. \A u \in Threads : (Black(u)' <=> Black(u)) /\ (White(u)' <=> White(u))
  BY DEF Black, White
<1>2. Young' = Young
  BY <1>1 DEF Young
<1>3. ReadStatics' = ReadStatics
  BY DEF ReadStatics
<1> QED
  BY <1>1, <1>2, <1>3

LEMMA ColourFacts ==
  ASSUME Types, Control
  PROVE  /\ \A t \in Threads : Black(t) => barrier /\ ReadStatics = Statics /\ ~request[t] /\ ~White(t)
         /\ \A t \in Threads : barrier => White(t) \/ Black(t)
         /\ \A t \in Threads : request[t] => ReadStatics = Statics
         /\ Young # {} => ReadStatics = Statics /\ \A t \in Threads : White(t) => request[t]
         /\ Young \subseteq Objects /\ Young \cap Statics = {}
         /\ barrier => stage # "PRUNE" /\ stage # "IDLE"
<1> USE DEF Control
<1>1. \A t \in Threads : pc[t] = "statics" => stage = "START" /\ fsaLock = t
  BY DEF StageAgrees, LockAgrees, Opening, Exclusively
<1>2. \A t \in Threads : pc[t] = "ask" => stage = "START" /\ fsaLock = t /\ barrier
  BY DEF StageAgrees, LockAgrees, Opening, Exclusively
<1>3. stage \in {"SCAN_ROOTS", "MARK"} => barrier /\ ReadStatics = Statics
  BY <1>1 DEF StageAgrees, ReadStatics
<1>4. \A t \in Threads : Black(t) => barrier /\ ReadStatics = Statics /\ ~request[t] /\ ~White(t)
  BY <1>3 DEF Black, White, RequestAgrees
<1>5. \A t \in Threads : barrier => White(t) \/ Black(t)
  BY DEF White
<1>6. \A t \in Threads : request[t] => ReadStatics = Statics
  <2> SUFFICES ASSUME NEW t \in Threads, request[t] PROVE ReadStatics = Statics
    OBVIOUS
  <2>1. CASE stage = "SCAN_ROOTS"
    BY <1>3, <2>1
  <2>2. CASE \E w \in Threads : pc[w] = "ask"
    <3>1. PICK w \in Threads : pc[w] = "ask"
      BY <2>2
    <3>2. \A u \in Threads : pc[u] # "statics"
      BY <1>1, <1>2, <3>1
    <3> QED
      BY <1>2, <3>1, <3>2 DEF ReadStatics
  <2> QED
    BY <2>1, <2>2 DEF RequestAgrees
<1>7. Young # {} => ReadStatics = Statics /\ \A t \in Threads : White(t) => request[t]
  <2> SUFFICES ASSUME Young # {} PROVE ReadStatics = Statics /\ \A t \in Threads : White(t) => request[t]
    OBVIOUS
  <2>1. stage \in {"SCAN_ROOTS", "MARK"}
    BY DEF Young, Black
  <2> QED
    BY <1>3, <2>1 DEF White, Black, RequestAgrees
<1>8. Young \subseteq Objects /\ Young \cap Statics = {}
  BY HeapAssumption DEF Young
<1>9. barrier => stage # "PRUNE" /\ stage # "IDLE"
  BY DEF StageAgrees, Opening
<1> QED
  BY <1>4, <1>5, <1>6, <1>7, <1>8, <1>9

(* A slot whose reference is not about to be overwritten unseen leads from *)
(* what is kept to what is kept.                                           *)
LEMMA ValueSafe ==
  ASSUME Types, Control, Marker, barrier
  PROVE  \A s \in (Kept \cup Young) \ Stale : mem[s] \in Safe
<1> SUFFICES ASSUME NEW s \in (Kept \cup Young) \ Stale PROVE mem[s] \in Safe
  OBVIOUS
<1>1. CASE s \in Young
  BY <1>1 DEF Marker, YoungKept
<1>2. CASE s \in scanned
  <2>1. stage = "MARK"
    BY <1>2, ColourFacts DEF Control, SetsAgree
  <2> QED
    BY <1>2, <2>1 DEF Marker, ScannedKept
<1>3. CASE s \notin Young \cup scanned
  BY <1>3, KeptFacts DEF WillMarkIn, Safe
<1> QED
  BY <1>1, <1>2, <1>3

LEMMA BlackLoads ==
  ASSUME Types, Control, Marker
  PROVE  \A t \in Threads : Black(t) => \A s \in Statics \cup (locals[t] \ Stale) : mem[s] \in Safe
<1> SUFFICES ASSUME NEW t \in Threads, Black(t), NEW s \in Statics \cup (locals[t] \ Stale)
             PROVE  mem[s] \in Safe
  OBVIOUS
<1>1. barrier /\ ReadStatics = Statics
  BY ColourFacts
<1>2. CASE s \in Statics
  BY <1>1, <1>2 DEF Marker, StaticsKept
<1>3. CASE s \in locals[t] \ Stale
  <2>1. s \in Kept \cup Young
    BY <1>3, HeapAssumption DEF Marker, BlackKept, Safe, Types, Slots
  <2> QED
    BY <1>1, <1>3, <2>1, ValueSafe
<1> QED
  BY <1>2, <1>3

(* Nobody else stores plainly where one does.                              *)
LEMMA StaleIsOne ==
  ASSUME Exclusive, NEW t \in Threads, pc[t] \in Storing, ~White(t) \/ ~Plain(t) \/ pc[t] \notin {"grey", "write"}
  PROVE  op[t].slot \notin Stale
<1> SUFFICES ASSUME NEW u \in Threads, White(u), pc[u] \in {"grey", "write"}, Plain(u),
                    op[u].slot = op[t].slot
             PROVE  FALSE
  BY DEF Stale
<1>1. pc[u] \in Storing
  BY DEF Storing
<1>2. u = t
  BY <1>1 DEF Exclusive
<1> QED
  BY <1>2

-----------------------------------------------------------------------------
(* A step of a store before the store itself.                              *)
LEMMA StoreOwes ==
  ASSUME Types, Types', Control, Stores, Marker, barrier,
         NEW t \in Threads, NEW from \in Barring, NEW to \in Barring, Step(t, from, to),
         marked \subseteq marked', from # "write",
         \A u \in Threads \ {t} : held'[u] = held[u] /\ grey'[u] = grey[u],
         held[t] \in marked' \cup {Null} \/ held'[t] = held[t],
         held'[t] \in {held[t], Null} \/ (Black(t) => held'[t] \in Safe),
         grey[t] \in Slots => mem[grey[t]] \in marked' \cup {Null} \/ grey'[t] = grey[t],
         from = "grey" \/ to \notin {"grey", "write"} \/ ~Plain(t)
           \/ mem[op[t].slot] \in marked' \cup {Null},
         to = "write" => Plain(t) \/ op[t].expected \in marked' \cup {Null},
         to = "write" /\ White(t) /\ op[t].slot \in Young => grey'[t] = op[t].slot
  PROVE  Marker'
<1>1. \A u \in Threads : pc'[u] = IF u = t THEN to ELSE pc[u]
  BY DEF Types, Step, Goto
<1>2. /\ UNCHANGED <<mem, locals, where, owner, scanned, barrier, stage, rootsScanned, todo, op>>
      /\ pc[t] = from
  BY DEF Step, progVars, gcVars
<1>3. /\ \A u \in Threads : (Black(u)' <=> Black(u)) /\ (White(u)' <=> White(u))
      /\ Young' = Young /\ ReadStatics' = ReadStatics
  <2>1. \A u \in Threads : pc[u] = "statics" <=> pc'[u] = "statics"
    BY <1>1, <1>2 DEF Barring, Storing
  <2> QED
    BY <1>2, <2>1, ViewQuiet
<1>4. \A u \in Threads : Plain(u)' <=> Plain(u)
  BY <1>2 DEF Plain
<1>5. \A x \in Stale' \ Stale : mem[x] \in marked' \cup {Null}
  <2> SUFFICES ASSUME NEW u \in Threads, White(u)', pc'[u] \in {"grey", "write"}, Plain(u)',
                      op'[u].slot \in Slots, op'[u].slot \notin Stale
               PROVE  mem[op'[u].slot] \in marked' \cup {Null}
    BY <1>2 DEF Stale
  <2>1. White(u) /\ Plain(u) /\ op'[u] = op[u]
    BY <1>2, <1>3, <1>4
  <2>2. pc[u] \notin {"grey", "write"}
    BY <1>2, <2>1 DEF Stale
  <2>3. u = t /\ from \notin {"grey", "write"}
    BY <1>1, <1>2, <2>2
  <2> QED
    BY <1>1, <2>1, <2>3
<1>6. Kept \subseteq Kept'
  <2>1. \A u \in Threads : White(u) => held[u] \in marked' \cup {Null} \/ (White(u)' /\ held'[u] = held[u])
    BY <1>3
  <2>2. \A u \in Threads : grey[u] \in Slots => mem[grey[u]] \in marked' \cup {Null} \/ grey'[u] = grey[u]
    OBVIOUS
  <2>3. \A u \in Threads : White(u) /\ pc[u] = "publish" /\ op[u].slot \in ReadStatics =>
          White(u)' /\ pc'[u] = "publish" /\ op'[u].slot = op[u].slot /\ op[u].slot \in ReadStatics'
    BY <1>1, <1>2, <1>3 DEF Barring
  <2> QED
    BY <1>2, <1>3, <1>5, <2>1, <2>2, <2>3, KeptGrows
<1>7. \A u \in Threads : Black(u)' =>
        \/ Black(u) /\ locals'[u] \subseteq locals[u] /\ held'[u] \in {held[u], Null}
        \/ locals'[u] \cup {held'[u]} \subseteq Safe'
  <2> SUFFICES ASSUME Black(t), held'[t] \in Safe PROVE locals'[t] \cup {held'[t]} \subseteq Safe'
    BY <1>2, <1>3
  <2>1. Safe \subseteq Safe'
    BY <1>3, <1>6 DEF Safe
  <2>2. locals[t] \subseteq Safe
    BY DEF Marker, BlackKept
  <2> QED
    BY <1>2, <2>1, <2>2
<1>8. \A u \in Threads : barrier' /\ Plain(u)' /\ pc'[u] \in {"grey", "write"} =>
        \/ mem[op'[u].slot] \in marked' \cup {Null}
        \/ barrier /\ pc[u] \in {"grey", "write"} /\ op'[u] = op[u]
  BY <1>1, <1>2, <1>4
<1>9. \A u \in Threads : ~Plain(u)' /\ pc'[u] = "write" =>
        op'[u].expected \in marked' \cup {Null} \/ (pc[u] = "write" /\ op'[u] = op[u])
  BY <1>1, <1>2, <1>4
<1>10. \A u \in Threads : White(u)' /\ pc'[u] = "write" /\ op'[u].slot \in Young' =>
         \/ grey'[u] = op'[u].slot
         \/ White(u) /\ pc[u] = "write" /\ op'[u] = op[u] /\ op[u].slot \in Young /\ grey'[u] = grey[u]
  BY <1>1, <1>2, <1>3
<1>11. MarkerOwed
  BY <1>2, <1>3, <1>6, <1>7, <1>8, <1>9, <1>10 DEF MarkerOwed
<1> QED
  BY <1>2, <1>11, MarkerStep

(* Inline, Once, Before, Overwrite: no shade, so no store is due under the *)
(* barrier, save a write-once one of a thread whose scan is done.          *)
LEMMA MarkerChecks ==
  ASSUME Types, Types', Control, Stores, Marker, barrier, NEW t \in Threads,
         Inline(t) \/ Once(t) \/ Before(t) \/ Overwrite(t)
  PROVE  Marker'
<1>1. PICK from \in {"inline", "once", "before", "overwrite"},
           to \in {"once", "before", "flush", "old", "write"} :
        /\ Step(t, from, to) /\ UNCHANGED <<marked, held, grey>>
        /\ to = "write" => from = "once" /\ mem[op[t].slot] = Null /\ ~request[t]
  <2>1. CASE Inline(t)
    BY <2>1 DEF Inline
  <2>2. CASE Once(t)
    BY <2>2 DEF Once
  <2>3. CASE Before(t)
    BY <2>3 DEF Before
  <2>4. CASE Overwrite(t)
    BY <2>4 DEF Overwrite
  <2> QED
    BY <2>1, <2>2, <2>3, <2>4
<1>2. pc[t] = from
  BY <1>1 DEF Step
<1>3. to = "write" => Plain(t)
  BY <1>1, <1>2 DEF Stores, OpAgrees, Plain
<1>4. to = "write" => ~(White(t) /\ op[t].slot \in Young)
  BY <1>1, ColourFacts
<1> QED
  <2>1. from \in Barring /\ to \in Barring
    BY DEF Barring, Storing
  <2> QED
    BY <1>1, <1>3, <1>4, <2>1, StoreOwes

(* Flush and Expected: a shade.                                            *)
LEMMA MarkerShadesOnce ==
  ASSUME Types, Types', Control, Stores, Marker, barrier, NEW t \in Threads,
         Flush(t) \/ Expected(t)
  PROVE  Marker'
<1>1. CASE Flush(t)
  <2>1. /\ Step(t, "flush", "old") /\ UNCHANGED held
        /\ grey' = [grey EXCEPT ![t] = Null] /\ marked' = marked \cup GreyTarget(t)
    BY <1>1 DEF Flush, GreyFlush
  <2>2. \A u \in Threads \ {t} : grey'[u] = grey[u]
    BY <2>1 DEF Types
  <2>3. grey[t] \in Slots => mem[grey[t]] \in marked' \cup {Null}
    BY <2>1, HeapAssumption DEF GreyTarget
  <2> QED
    <3>1. "flush" \in Barring /\ "old" \in Barring
      BY DEF Barring, Storing
    <3> QED
      BY <2>1, <2>2, <2>3, <3>1, StoreOwes
<1>2. CASE Expected(t)
  <2>1. Step(t, "expected", "write") /\ UNCHANGED <<held, grey>>
        /\ marked' = marked \cup ({op[t].expected} \ {Null}) /\ pc[t] = "expected"
    BY <1>2 DEF Expected, Mark, Step
  <2>2. ~Plain(t) /\ op[t].slot \in Statics
    BY <2>1 DEF Stores, OpAgrees, Plain, Storing
  <2>3. op[t].slot \notin Young
    BY <2>2, ColourFacts
  <2> QED
    <3>1. "expected" \in Barring /\ "write" \in Barring
      BY DEF Barring, Storing
    <3> QED
      BY <2>1, <2>2, <2>3, <3>1, StoreOwes
<1> QED
  BY <1>1, <1>2

(* Old: what the slot holds is kept.                                       *)
LEMMA MarkerOld ==
  ASSUME Types, Types', Control, Stores, Marker, barrier, NEW t \in Threads, Old(t)
  PROVE  Marker'
<1>1. /\ Step(t, "old", "shade") /\ UNCHANGED <<marked, grey>> /\ pc[t] = "old"
      /\ held' = [held EXCEPT ![t] = mem[op[t].slot]]
  BY DEF Old, Step
<1>2. held'[t] = mem[op[t].slot] /\ \A u \in Threads \ {t} : held'[u] = held[u]
  BY <1>1 DEF Types
<1>3. held[t] = Null
  BY <1>1 DEF Stores, HeldAgrees
<1>4. op[t].slot \in locals[t] \cup Statics /\ op[t].slot \notin Stale
  <2>1. pc[t] \in Storing
    BY <1>1 DEF Storing
  <2> QED
    BY <1>1, <2>1, StaleIsOne DEF Stores, OpAgrees
<1>5. Black(t) => held'[t] \in Safe
  BY <1>2, <1>4, BlackLoads
<1> QED
  <2>1. "old" \in Barring /\ "shade" \in Barring
    BY DEF Barring, Storing
  <2> QED
    BY <1>1, <1>2, <1>3, <1>5, <2>1, StoreOwes

(* Shade: what the store will overwrite is marked.                         *)
LEMMA MarkerShade ==
  ASSUME Types, Types', Control, Stores, Marker, barrier, NEW t \in Threads, Shade(t)
  PROVE  Marker'
<1>1. PICK to \in {"write", "grey"} :
        /\ Step(t, "shade", to) /\ UNCHANGED grey /\ pc[t] = "shade"
        /\ to = "write" => op[t].kind = "root"
        /\ held' = [held EXCEPT ![t] = Null]
        /\ marked' = marked \cup ({held[t]} \ {Null})
  BY DEF Shade, Step, Mark
<1>2. held'[t] = Null /\ \A u \in Threads \ {t} : held'[u] = held[u]
  BY <1>1 DEF Types
<1>3. Plain(t) => mem[op[t].slot] \in marked' \cup {Null}
  BY <1>1 DEF Stores, HeldAgrees
<1>4. to = "write" => Plain(t) /\ op[t].slot \notin Young
  <2>1. to = "write" => Plain(t) /\ op[t].slot \in Statics
    BY <1>1 DEF Stores, OpAgrees, Plain, Storing
  <2> QED
    BY <2>1, ColourFacts
<1> QED
  <2>1. "shade" \in Barring /\ to \in Barring
    BY DEF Barring, Storing
  <2> QED
    BY <1>1, <1>2, <1>3, <1>4, <2>1, StoreOwes

(* Grey: a thread whose scan is pending remembers the slot.                *)
LEMMA MarkerGrey ==
  ASSUME Types, Types', Control, Stores, Marker, barrier, NEW t \in Threads, Grey(t)
  PROVE  Marker'
<1>1. PICK to \in {"write", "expected"} :
        /\ Step(t, "grey", to) /\ UNCHANGED <<marked, held>> /\ pc[t] = "grey"
        /\ to = "write" => op[t].kind # "cas"
        /\ grey' = IF request[t] THEN [grey EXCEPT ![t] = op[t].slot] ELSE grey
  BY DEF Grey, Step, AfterBefore
<1>2. /\ \A u \in Threads \ {t} : grey'[u] = grey[u]
      /\ grey'[t] = IF request[t] THEN op[t].slot ELSE grey[t]
  BY <1>1 DEF Types
<1>3. grey[t] = Null
  BY <1>1 DEF Stores, GreyAgrees, OpAgrees
<1>4. White(t) /\ op[t].slot \in Young => grey'[t] = op[t].slot
  BY <1>2, ColourFacts
<1> QED
  <2>1. "grey" \in Barring /\ to \in Barring
    BY DEF Barring, Storing
  <2>2. Null \notin Slots
    BY HeapAssumption
  <2> QED
    BY <1>1, <1>2, <1>3, <1>4, <2>1, <2>2, StoreOwes DEF Plain

(* The store.  What it overwrites is shaded, or the thread is white and    *)
(* its slot is nobody else's; what it brings is kept.                      *)
LEMMA MarkerWrite ==
  ASSUME Types, Types', Control, Stores, Marker, barrier, NEW t \in Threads, Write(t),
         mem' = [mem EXCEPT ![op[t].slot] = op[t].value],
         op[t].kind # "cas" \/ mem[op[t].slot] = op[t].expected,
         locals' = locals
  PROVE  Marker'
<1> DEFINE s == op[t].slot
           v == op[t].value
<1>1. /\ UNCHANGED <<marked, where, owner, scanned, barrier, stage, rootsScanned, todo, held, grey, request>>
      /\ pc[t] = "write"
  BY DEF Write, objVars, gcVars, thrVars
<1>2. PICK l \in {"run", "publish"} : pc' = [pc EXCEPT ![t] = l] /\ op' = IF l = "run" THEN [op EXCEPT ![t] = Idle] ELSE op
  BY DEF Write, Goto
<1>3. /\ pc'[t] = l /\ \A u \in Threads \ {t} : pc'[u] = pc[u] /\ op'[u] = op[u]
      /\ l = "publish" => op' = op
  BY <1>2 DEF Types
<1>4. /\ s \in locals[t] \cup Statics /\ v \in locals[t] \cup {Null} /\ s \in Slots
      /\ op[t].expected \in locals[t] \cup {Null}
      /\ ~Plain(t) => s \in Statics
  BY <1>1 DEF Stores, OpAgrees, Storing, Types, Slots, Plain
<1>5. mem'[s] = v /\ \A x \in Slots : x # s => mem'[x] = mem[x]
  <2>1. mem \in [Slots -> Objects \cup {Null}]
    BY DEF Types
  <2> QED
    BY <1>4, <2>1
<1>6. /\ \A u \in Threads : (Black(u)' <=> Black(u)) /\ (White(u)' <=> White(u))
      /\ Young' = Young /\ ReadStatics' = ReadStatics
  <2>1. \A u \in Threads : pc[u] = "statics" <=> pc'[u] = "statics"
    BY <1>1, <1>3
  <2> QED
    BY <1>1, <2>1, ViewQuiet
<1>7. \A u \in Threads \ {t} : pc[u] \in Storing /\ op[u].slot = s => ~Plain(t) /\ ~Plain(u)
  BY <1>1 DEF Stores, Exclusive, Storing
<1>8. Stale' \subseteq Stale /\ s \notin Stale'
  <2>1. \A u \in Threads : White(u)' /\ pc'[u] \in {"grey", "write"} /\ Plain(u)' =>
          u # t /\ White(u) /\ pc[u] \in {"grey", "write"} /\ Plain(u) /\ op'[u] = op[u]
    BY <1>3, <1>6 DEF Plain
  <2>2. \A u \in Threads : u # t /\ pc[u] \in {"grey", "write"} /\ Plain(u) => op[u].slot # s
    BY <1>7 DEF Storing
  <2> QED
    BY <2>1, <2>2 DEF Stale
<1>9. s \notin Stale => \A x \in {mem[s]} \ {Null} : s \in ReadStatics \/ s \in Objects => x \in marked
  <2> SUFFICES ASSUME s \notin Stale, s \in ReadStatics \cup Objects PROVE Shaded(mem[s])
    BY DEF Shaded
  <2>1. CASE Plain(t)
    <3>1. ~White(t)
      BY <1>1, <1>4, <2>1 DEF Stale
    <3> QED
      BY <1>1, <2>1, <3>1 DEF Marker, WriteShaded
  <2>2. CASE ~Plain(t)
    <3>1. s \in ReadStatics /\ mem[s] = op[t].expected
      BY <1>4, <2>2, HeapAssumption DEF Plain
    <3> QED
      BY <1>1, <2>2, <3>1 DEF Marker, CasShaded
  <2> QED
    BY <2>1, <2>2
<1>10. Kept \subseteq Kept'
  <2>0. Kept' \subseteq Objects /\ WillMarkIn(Kept)'
    BY KeptFactsNext
  <2>1. marked \subseteq Kept' /\ \A u \in Threads : White(u) => held[u] \in Kept' \cup {Null}
    BY <1>1, <1>6, <2>0 DEF WillMarkIn
  <2>2. ASSUME NEW u \in Threads, grey[u] \in Slots \ Stale PROVE mem[grey[u]] \in Kept' \cup {Null}
    <3>1. CASE grey[u] = s
      <4>1. request[u] /\ ReadStatics = Statics
        BY <2>2, ColourFacts, HeapAssumption DEF Stores, GreyAgrees
      <4>2. mem[s] \in marked \cup {Null}
        BY <1>4, <1>9, <2>2, <3>1, <4>1 DEF Slots
      <4> QED
        BY <2>1, <3>1, <4>2
    <3>2. CASE grey[u] # s
      <4>1. grey'[u] \in Slots \ Stale'
        BY <1>1, <1>8, <2>2
      <4>2. mem'[grey'[u]] \in Kept' \cup {Null}
        BY <2>0, <4>1 DEF WillMarkIn
      <4> QED
        BY <1>1, <1>5, <2>2, <3>2, <4>2
    <3> QED
      BY <3>1, <3>2
  <2>3. ASSUME NEW u \in Threads, White(u), pc[u] = "publish", op[u].slot \in ReadStatics
        PROVE  mem[op[u].slot] \in Kept' \cup {Null}
    <3>1. u # t /\ pc[u] \in Storing
      BY <1>1, <2>3 DEF Storing
    <3>2. CASE op[u].slot = s
      <4>1. s \notin Stale
        BY <1>1, <1>7, <3>1, <3>2, StaleIsOne DEF Stores, Storing
      <4>2. mem[s] \in marked \cup {Null}
        BY <1>9, <2>3, <3>2, <4>1
      <4> QED
        BY <2>1, <3>2, <4>2
    <3>3. CASE op[u].slot # s
      <4>1. mem'[op'[u].slot] \in Kept' \cup {Null}
        BY <1>3, <1>6, <2>0, <2>3, <3>1 DEF WillMarkIn
      <4>2. op[u].slot \in Slots
        BY <2>3 DEF ReadStatics, Slots
      <4> QED
        BY <1>3, <1>5, <3>1, <3>3, <4>1, <4>2
    <3> QED
      BY <3>2, <3>3
  <2>4. ASSUME NEW o \in Kept' \ (Young \cup scanned \cup Stale) PROVE mem[o] \in Kept' \cup {Null}
    <3>1. o \in Objects /\ o \in Slots
      BY <2>0 DEF Slots
    <3>2. CASE o = s
      BY <1>9, <2>1, <2>4, <3>1, <3>2
    <3>3. CASE o # s
      <4>1. o \in Kept' \ (Young' \cup scanned' \cup Stale')
        BY <1>1, <1>6, <1>8, <2>4
      <4>2. mem'[o] \in Kept' \cup {Null}
        BY <2>0, <4>1 DEF WillMarkIn
      <4> QED
        BY <1>5, <3>1, <3>3, <4>2
    <3> QED
      BY <3>2, <3>3
  <2> QED
    <3>1. WillMarkIn(Kept')
      BY <2>1, <2>2, <2>3, <2>4 DEF WillMarkIn
    <3> QED
      BY <2>0, <3>1, KeptLeast
<1>11. Safe \subseteq Safe' /\ Null \in Safe' /\ Kept' \subseteq Safe'
  BY <1>6, <1>10 DEF Safe
<1>12. Black(t) => v \in Safe'
  BY <1>4, <1>11 DEF Marker, BlackKept
<1>13. BlackKept'
  <2>1. \A u \in Threads : Black(u)' => locals'[u] \cup {held'[u]} \subseteq Safe'
    BY <1>1, <1>6, <1>11 DEF Marker, BlackKept
  <2> QED
    BY <2>1 DEF BlackKept
<1>14. StaticsKept'
  <2>1. ASSUME NEW x \in ReadStatics' PROVE mem'[x] \in Safe'
    <3>1. x \in Slots /\ x \in ReadStatics /\ x \in Statics
      BY <1>6, <2>1 DEF ReadStatics, Slots
    <3>2. CASE x # s
      BY <1>5, <1>11, <3>1, <3>2 DEF Marker, StaticsKept
    <3>3. CASE x = s /\ ~Black(t)
      <4>1. White(t)
        BY <3>3, ColourFacts
      <4>2. l = "publish"
        <5>1. Publishes(t)
          BY <3>1, <3>3 DEF Publishes
        <5> QED
          BY <1>1, <1>3, <5>1 DEF Write, Goto, Types
      <4>3. mem'[op'[t].slot] \in Kept' \cup {Null}
        BY <1>3, <1>6, <2>1, <3>3, <4>1, <4>2, KeptFactsNext DEF WillMarkIn
      <4> QED
        BY <1>3, <1>11, <3>3, <4>2, <4>3
    <3> QED
      BY <1>5, <1>12, <3>2, <3>3
  <2> QED
    BY <2>1 DEF StaticsKept
<1>15. YoungKept'
  <2>1. ASSUME NEW x \in Young' PROVE mem'[x] \in Safe'
    <3>1. x \in Slots /\ x \in Young
      BY <1>6, <2>1, ColourFacts DEF Slots
    <3>2. CASE x # s
      BY <1>5, <1>11, <3>1, <3>2 DEF Marker, YoungKept
    <3>3. CASE x = s /\ ~Black(t)
      <4>1. White(t)
        BY <3>3, ColourFacts
      <4>2. grey[t] = s
        BY <1>1, <3>1, <3>3, <4>1 DEF Marker, InsertKept, Storing
      <4>3. mem'[grey'[t]] \in Kept' \cup {Null}
        BY <1>1, <1>4, <1>8, <4>2, KeptFactsNext DEF WillMarkIn
      <4> QED
        BY <1>1, <1>11, <3>3, <4>2, <4>3
    <3> QED
      BY <1>5, <1>12, <3>2, <3>3
  <2> QED
    BY <2>1 DEF YoungKept
<1>16. ScannedKept'
  <2>1. ASSUME stage' = "MARK", NEW x \in scanned' PROVE mem'[x] \in Safe'
    <3>1. x \in Slots /\ x \in scanned /\ stage = "MARK"
      BY <1>1, <2>1 DEF Types, Slots
    <3>2. CASE x # s
      BY <1>5, <1>11, <3>1, <3>2 DEF Marker, ScannedKept
    <3>3. Black(t)
      BY <3>1 DEF Black, Control, RequestAgrees
    <3> QED
      BY <1>5, <1>12, <3>2, <3>3
  <2> QED
    BY <2>1 DEF ScannedKept
<1>17. WriteShaded'
  <2>1. ASSUME NEW u \in Threads, barrier', Plain(u)', pc'[u] \in {"grey", "write"}
        PROVE  \/ mem'[op'[u].slot] \in marked' \cup {Null}
               \/ White(u)' /\ op'[u].slot \notin ReadStatics' \cup Young'
    <3>1. u # t /\ Plain(u) /\ pc[u] \in {"grey", "write"} /\ op'[u] = op[u]
      BY <1>3, <2>1 DEF Plain
    <3>2. op[u].slot # s /\ op[u].slot \in Slots
      BY <1>7, <3>1 DEF Storing, Stores, OpAgrees, Types, Slots
    <3>3. mem'[op[u].slot] = mem[op[u].slot]
      BY <1>5, <3>2
    <3>4. Shaded(mem[op[u].slot]) \/ (White(u) /\ op[u].slot \notin ReadStatics \cup Young)
      BY <3>1 DEF Marker, WriteShaded
    <3> QED
      BY <1>1, <1>6, <3>1, <3>3, <3>4 DEF Shaded
  <2> QED
    BY <2>1 DEF WriteShaded, Shaded
<1>18. CasShaded'
  <2>1. ASSUME NEW u \in Threads, ~Plain(u)', pc'[u] = "write", op'[u].slot \in ReadStatics',
               mem'[op'[u].slot] = op'[u].expected
        PROVE  op'[u].expected \in marked' \cup {Null}
    <3>1. u # t /\ ~Plain(u) /\ pc[u] = "write" /\ op'[u] = op[u] /\ op[u].slot \in ReadStatics
      BY <1>3, <1>6, <2>1 DEF Plain
    <3>2. CASE op[u].slot # s
      <4>1. mem[op[u].slot] = op[u].expected
        BY <1>5, <2>1, <3>1, <3>2 DEF ReadStatics, Slots
      <4> QED
        BY <1>1, <3>1, <4>1 DEF Marker, CasShaded, Shaded
    <3>3. CASE op[u].slot = s
      <4>1. ~Plain(t) /\ op[u].expected = v
        BY <1>5, <1>7, <2>1, <3>1, <3>3 DEF Storing
      <4>2. op[u].expected \in locals[u] \cup {Null}
        BY <3>1 DEF Stores, OpAgrees, Storing
      <4>3. v = Null \/ Private(t, v)
        BY <1>1, <4>1 DEF Stores, FreshValue, Busy, Storing
      <4>4. v = Null
        BY <3>1, <4>1, <4>2, <4>3 DEF Private
      <4> QED
        BY <3>1, <4>1, <4>4
    <3> QED
      BY <3>2, <3>3
  <2> QED
    BY <2>1 DEF CasShaded, Shaded
<1>19. InsertKept'
  <2>1. \A u \in Threads : White(u)' /\ pc'[u] = "write" /\ op'[u].slot \in Young'
                           => grey'[u] = op'[u].slot
    BY <1>1, <1>3, <1>6 DEF Marker, InsertKept, Storing
  <2> QED
    BY <2>1 DEF InsertKept
<1> QED
  BY <1>13, <1>14, <1>15, <1>16, <1>17, <1>18, <1>19 DEF Marker

-----------------------------------------------------------------------------
(* A step that leaves the stores, the marks and the colours alone, and     *)
(* gives a thread only what is kept.                                       *)
LEMMA MarkerQuiet ==
  ASSUME Types, Types', Marker,
         UNCHANGED <<mem, marked, scanned, where, owner, barrier, rootsScanned, todo, held, grey>>,
         \A u \in Threads : (Black(u)' <=> Black(u)) /\ (White(u)' <=> White(u)),
         stage' = "MARK" => stage = "MARK" \/ scanned = {},
         \A u \in Threads : \/ pc'[u] = pc[u] /\ op'[u] = op[u]
                            \/ /\ pc[u] \notin {"statics", "grey", "write", "publish"} \/ (pc[u] = "write" /\ ~Plain(u))
                               /\ pc'[u] \notin {"statics", "grey", "write", "publish"},
         \A u \in Threads : Black(u) => locals'[u] \subseteq locals[u] \cup Safe
  PROVE  Marker'
<1>1. Young' = Young
  BY DEF Young
<1>2. ReadStatics' = ReadStatics
  <2>1. \A u \in Threads : pc[u] = "statics" <=> pc'[u] = "statics"
    OBVIOUS
  <2> QED
    BY <2>1 DEF ReadStatics
<1>3. Stale' \subseteq Stale
  <2>1. \A u \in Threads : pc'[u] \in {"grey", "write"} => pc'[u] = pc[u] /\ op'[u] = op[u]
    OBVIOUS
  <2> QED
    BY <2>1 DEF Stale, Plain
<1>4. Kept \subseteq Kept'
  <2>1. \A u \in Threads : White(u) /\ pc[u] = "publish" /\ op[u].slot \in ReadStatics =>
          White(u)' /\ pc'[u] = "publish" /\ op'[u].slot = op[u].slot /\ op[u].slot \in ReadStatics'
    BY <1>2
  <2>2. \A u \in Threads : White(u) => White(u)' /\ held'[u] = held[u]
    OBVIOUS
  <2>3. \A u \in Threads : grey[u] \in Slots => grey'[u] = grey[u]
    OBVIOUS
  <2> QED
    BY <1>1, <1>3, <2>1, <2>2, <2>3, KeptGrows
<1>5. \A u \in Threads : Black(u)' =>
        \/ Black(u) /\ locals'[u] \subseteq locals[u] /\ held'[u] \in {held[u], Null}
        \/ locals'[u] \cup {held'[u]} \subseteq Safe'
  <2> SUFFICES ASSUME NEW u \in Threads, Black(u) PROVE locals'[u] \cup {held'[u]} \subseteq Safe'
    OBVIOUS
  <2>1. Safe \subseteq Safe'
    BY <1>1, <1>4 DEF Safe
  <2>2. locals[u] \cup {held[u]} \subseteq Safe
    BY DEF Marker, BlackKept
  <2> QED
    BY <2>1, <2>2
<1>6. \A u \in Threads : pc'[u] \in {"grey", "write"} =>
        pc[u] \in {"grey", "write"} /\ pc'[u] = pc[u] /\ op'[u] = op[u]
  OBVIOUS
<1>7. MarkerOwed
  BY <1>1, <1>2, <1>4, <1>5, <1>6 DEF MarkerOwed
<1> QED
  BY <1>7, MarkerStep

LEMMA MarkerFails ==
  ASSUME Types, Types', Control, Stores, Marker, barrier, NEW t \in Threads, Write(t),
         op[t].kind = "cas", mem[op[t].slot] # op[t].expected
  PROVE  Marker'
<1>1. /\ UNCHANGED <<mem, marked, where, owner, scanned, barrier, stage, rootsScanned, todo, held, grey>>
      /\ pc[t] = "write" /\ pc' = [pc EXCEPT ![t] = "run"] /\ op' = [op EXCEPT ![t] = Idle]
      /\ locals' = [locals EXCEPT ![t] = @ \cup ({mem[op[t].slot]} \ {Null})]
  BY DEF Write, objVars, gcVars, thrVars, Goto
<1>2. \A u \in Threads : IF u = t THEN pc'[u] = "run" ELSE pc'[u] = pc[u] /\ op'[u] = op[u]
  BY <1>1 DEF Types
<1>3. \A u \in Threads : (Black(u)' <=> Black(u)) /\ (White(u)' <=> White(u))
  <2>1. \A u \in Threads : pc[u] = "statics" <=> pc'[u] = "statics"
    BY <1>1, <1>2
  <2> QED
    BY <1>1, <2>1, ViewQuiet
<1>4. Black(t) => mem[op[t].slot] \in Safe
  <2>1. op[t].slot \in Statics
    BY <1>1 DEF Stores, OpAgrees, Storing
  <2>2. op[t].slot \notin Stale
    BY <1>1, StaleIsOne DEF Stores, Storing, Plain
  <2> QED
    BY <2>1, <2>2, BlackLoads
<1>5. \A u \in Threads : Black(u) => locals'[u] \subseteq locals[u] \cup Safe
  BY <1>1, <1>4 DEF Types
<1> QED
  BY <1>1, <1>2, <1>3, <1>5, MarkerQuiet DEF Plain

LEMMA MarkerLoad ==
  ASSUME Types, Types', Control, Stores, Marker, barrier, NEW t \in Threads, Load(t)
  PROVE  Marker'
<1>1. /\ UNCHANGED <<mem, marked, where, owner, scanned, barrier, stage, rootsScanned, todo, held, grey, pc, op>>
      /\ pc[t] = "run"
  BY DEF Load, objVars, gcVars, thrVars, opVars, Running
<1>2. PICK s \in Readable(t) : mem[s] # Null /\ locals' = [locals EXCEPT ![t] = @ \cup {mem[s]}]
  BY DEF Load
<1>3. s \in Statics \cup (locals[t] \ Stale)
  <2> SUFFICES ASSUME s \notin Statics, NEW u \in Threads, Plain(u), pc[u] \in {"grey", "write"}, op[u].slot = s
               PROVE  FALSE
    BY <1>2 DEF Stale, Readable
  <2>1. u # t /\ Busy(u)
    BY <1>1 DEF Busy, Storing
  <2>2. ~op[u].over
    BY <1>2, <2>1 DEF Readable
  <2> QED
    BY <1>2, <2>1, <2>2 DEF Stores, FirstStore
<1>4. \A u \in Threads : Black(u) => locals'[u] \subseteq locals[u] \cup Safe
  BY <1>2, <1>3, BlackLoads DEF Types
<1>5. \A u \in Threads : (Black(u)' <=> Black(u)) /\ (White(u)' <=> White(u))
  BY <1>1, ViewQuiet
<1> QED
  BY <1>1, <1>4, <1>5, MarkerQuiet

LEMMA MarkerAside ==   \* steps outside the stores and the opening
  ASSUME Types, Types', Control, Marker, barrier, NEW t \in Threads,
         Drop(t) \/ IoBegin(t) \/ IoEnd(t) \/ Enter(t) \/ ScanPick(t) \/ ScanResume(t) \/ ScanDecide(t)
  PROVE  Marker'
<1>1. /\ UNCHANGED <<mem, marked, where, owner, scanned, barrier, rootsScanned, todo, held, grey, op>>
      /\ pc[t] \in {"run", "io", "pick", "resume", "decide"}
      /\ locals' = locals \/ \E o \in locals[t] : locals' = [locals EXCEPT ![t] = @ \ {o}]
  BY DEF Drop, IoBegin, IoEnd, Enter, ScanPick, ScanResume, ScanDecide, heapVars, progVars, objVars,
         gcVars, thrVars, opVars, Running
<1>2. PICK l \in {"run", "io", "open", "pick", "scan", "decide"} : pc' = pc \/ pc' = [pc EXCEPT ![t] = l]
  BY DEF Drop, IoBegin, IoEnd, Enter, ScanPick, ScanResume, ScanDecide, Goto
<1>3. \A u \in Threads : \/ pc'[u] = pc[u]
                         \/ /\ pc[u] \notin {"statics", "grey", "write", "publish"}
                            /\ pc'[u] \notin {"statics", "grey", "write", "publish"}
  BY <1>1, <1>2 DEF Types
<1>4. stage' = stage \/ (stage = "SCAN_ROOTS" /\ stage' = "MARK")
  <2>1. barrier => stage # "IDLE"
    BY ColourFacts
  <2>2. pc[t] = "decide" => stage = "SCAN_ROOTS"
    BY DEF Control, StageAgrees, Scanning
  <2> QED
    BY <2>1, <2>2 DEF Drop, IoBegin, IoEnd, Enter, ScanPick, ScanResume, ScanDecide, gcVars
<1>5. \A u \in Threads : (Black(u)' <=> Black(u)) /\ (White(u)' <=> White(u))
  BY <1>1, <1>4 DEF Black, White
<1>6. stage' = "MARK" => stage = "MARK" \/ scanned = {}
  BY <1>4 DEF Control, SetsAgree
<1>7. \A u \in Threads : locals'[u] \subseteq locals[u]
  BY <1>1 DEF Types
<1> QED
  BY <1>1, <1>3, <1>5, <1>6, <1>7, MarkerQuiet

LEMMA MarkerAlloc ==
  ASSUME Types, Types', Control, Stores, Marker, Heap, barrier, NEW t \in Threads, Alloc(t)
  PROVE  Marker'
<1>1. PICK o \in Objects : /\ where[o] = "none"
                           /\ where' = [where EXCEPT ![o] = "new"]
                           /\ owner' = [owner EXCEPT ![o] = t]
                           /\ locals' = [locals EXCEPT ![t] = @ \cup {o}]
                           /\ marked' = IF request[t] THEN marked \cup {o} ELSE marked
  BY DEF Alloc
<1>2. UNCHANGED <<mem, scanned, barrier, stage, rootsScanned, todo, held, grey, pc, op>>
  BY DEF Alloc, gcVars, thrVars, opVars
<1>3. mem[o] = Null
  BY <1>1 DEF Stores, BirthAgrees
<1>4. \A u \in Threads : (Black(u)' <=> Black(u)) /\ (White(u)' <=> White(u))
  BY <1>2 DEF Black, White
<1>5. \A p \in Objects \ {o} : where'[p] = where[p] /\ owner'[p] = owner[p]
  BY <1>1 DEF Types
<1>6. where'[o] = "new" /\ owner'[o] = t
  BY <1>1 DEF Types
<1>7. Young \subseteq Young' /\ Young' \subseteq Young \cup {o} /\ (Black(t) => o \in Young')
  <2>1. o \notin Young
    BY <1>1 DEF Young
  <2> QED
    BY <1>4, <1>5, <1>6, <2>1 DEF Young
<1>8. ReadStatics' = ReadStatics /\ Stale' = Stale
  BY <1>2, <1>4 DEF ReadStatics, Stale, Plain
<1>9. Kept \subseteq Kept'
  <2>1. marked \subseteq marked'
    BY <1>1
  <2>2. \A u \in Threads : White(u) => White(u)' /\ held'[u] = held[u]
    BY <1>2, <1>4
  <2>3. \A u \in Threads : grey[u] \in Slots => grey'[u] = grey[u]
    BY <1>2
  <2>4. \A u \in Threads : White(u) /\ pc[u] = "publish" /\ op[u].slot \in ReadStatics =>
          White(u)' /\ pc'[u] = "publish" /\ op'[u].slot = op[u].slot /\ op[u].slot \in ReadStatics'
    BY <1>2, <1>4, <1>8
  <2> QED
    BY <1>2, <1>3, <1>7, <1>8, <2>1, <2>2, <2>3, <2>4, KeptGrows
<1>10. \A u \in Threads : Black(u)' =>
        \/ Black(u) /\ locals'[u] \subseteq locals[u] /\ held'[u] \in {held[u], Null}
        \/ locals'[u] \cup {held'[u]} \subseteq Safe'
  <2> SUFFICES ASSUME Black(t) PROVE locals'[t] \cup {held'[t]} \subseteq Safe'
    BY <1>1, <1>2, <1>4 DEF Types
  <2>1. Safe \cup {o} \subseteq Safe'
    BY <1>7, <1>9 DEF Safe
  <2>2. locals[t] \cup {held[t]} \subseteq Safe
    BY DEF Marker, BlackKept
  <2> QED
    BY <1>1, <1>2, <2>1, <2>2 DEF Types
<1>11. \A u \in Threads : pc[u] \in {"grey", "write"} => op[u].slot # o
  <2> SUFFICES ASSUME NEW u \in Threads, pc[u] \in {"grey", "write"} PROVE op[u].slot # o
    OBVIOUS
  <2>1. op[u].slot \in locals[u] \cup Statics
    BY DEF Stores, OpAgrees, Storing
  <2>2. o \notin locals[u] /\ o \notin Statics
    BY <1>1, LocalsBorn, HeapAssumption
  <2> QED
    BY <2>1, <2>2
<1>12. MarkerOwed
  BY <1>1, <1>2, <1>3, <1>4, <1>7, <1>8, <1>9, <1>10, <1>11 DEF MarkerOwed, Plain
<1> QED
  BY <1>2, <1>12, MarkerStep

LEMMA MarkerBegin ==
  ASSUME Types, Types', Control, Stores, Stores', Marker, barrier, NEW t \in Threads, Begin(t)
  PROVE  Marker'
<1>1. PICK k \in Kinds, s \in Slots, v \in locals[t] \cup {Null} :
      LET e == IF k = "cas" THEN mem[s] ELSE Null IN
      /\ k \in {"root", "cas"} => s \in Statics
      /\ k = "fill" => s \notin Statics /\ Private(t, s) /\ mem[s] = Null
      /\ op' = [op EXCEPT ![t] = [kind |-> k, slot |-> s, value |-> v,
                                  expected |-> e, over |-> mem[s] # Null]]
      /\ locals' = [locals EXCEPT ![t] = @ \cup ({e} \ {Null})]
      /\ pc' = [pc EXCEPT ![t] = Entry[k]]
  BY DEF Begin, Goto
<1>2. /\ UNCHANGED <<mem, marked, where, owner, scanned, barrier, stage, rootsScanned, todo, held, grey>>
      /\ pc[t] = "run"
  BY DEF Begin, objVars, thrVars, Running
<1>3. /\ op'[t].kind = k /\ op'[t].slot = s /\ pc'[t] = Entry[k]
      /\ \A u \in Threads \ {t} : op'[u] = op[u] /\ pc'[u] = pc[u] /\ locals'[u] = locals[u]
  BY <1>1 DEF Types
<1>4. /\ pc'[t] \in {"inline", "before", "overwrite", "write"}
      /\ pc'[t] = "write" => k = "fill"
  BY <1>3, HeapAssumption DEF Entry, AllKinds
<1>5. /\ \A u \in Threads : (Black(u)' <=> Black(u)) /\ (White(u)' <=> White(u))
      /\ Young' = Young /\ ReadStatics' = ReadStatics
  <2>1. \A u \in Threads : pc[u] = "statics" <=> pc'[u] = "statics"
    BY <1>2, <1>3, <1>4
  <2> QED
    BY <1>2, <2>1, ViewQuiet
<1>6. pc'[t] = "write" => Plain(t)' /\ mem[s] = Null /\ ~(White(t) /\ s \in Young)
  BY <1>1, <1>3, <1>4, ColourFacts DEF Plain, Private, Young
<1>7. \A x \in Stale' \ Stale : mem[x] = Null
  BY <1>3, <1>4, <1>5, <1>6 DEF Stale, Plain
<1>8. Kept \subseteq Kept'
  <2>1. \A u \in Threads : White(u) => White(u)' /\ held'[u] = held[u]
    BY <1>2, <1>5
  <2>2. \A u \in Threads : grey[u] \in Slots => grey'[u] = grey[u]
    BY <1>2
  <2>3. \A u \in Threads : White(u) /\ pc[u] = "publish" /\ op[u].slot \in ReadStatics =>
          White(u)' /\ pc'[u] = "publish" /\ op'[u].slot = op[u].slot /\ op[u].slot \in ReadStatics'
    BY <1>2, <1>3, <1>5
  <2> QED
    BY <1>2, <1>5, <1>7, <2>1, <2>2, <2>3, KeptGrows
<1>9. \A u \in Threads : Black(u)' =>
        \/ Black(u) /\ locals'[u] \subseteq locals[u] /\ held'[u] \in {held[u], Null}
        \/ locals'[u] \cup {held'[u]} \subseteq Safe'
  <2> SUFFICES ASSUME Black(t) PROVE locals'[t] \cup {held'[t]} \subseteq Safe'
    BY <1>2, <1>3, <1>5
  <2>1. Safe \subseteq Safe'
    BY <1>5, <1>8 DEF Safe
  <2>2. locals[t] \cup {held[t]} \subseteq Safe
    BY DEF Marker, BlackKept
  <2>3. locals'[t] \subseteq locals[t] \cup Safe
    <3>1. s \in Statics => mem[s] \in Safe
      BY BlackLoads
    <3> QED
      BY <1>1, <3>1 DEF Types, Safe
  <2> QED
    BY <1>2, <2>1, <2>2, <2>3
<1>10. \A u \in Threads : pc'[u] \in {"grey", "write"} =>
         \/ pc[u] = pc'[u] /\ op'[u] = op[u]
         \/ u = t /\ mem[op'[u].slot] = Null /\ Plain(u)' /\ ~(White(u) /\ op'[u].slot \in Young)
  BY <1>3, <1>4, <1>6
<1>11. MarkerOwed
  <2>1. \A u \in Threads : Plain(u)' /\ op'[u] = op[u] => Plain(u)
    BY DEF Plain
  <2> QED
    BY <1>2, <1>5, <1>8, <1>9, <1>10, <2>1 DEF MarkerOwed
<1> QED
  BY <1>2, <1>11, MarkerStep

LEMMA MarkerPublish ==
  ASSUME Types, Types', Control, Stores, Marker, barrier, NEW t \in Threads, Publish(t)
  PROVE  Marker'
<1>1. /\ UNCHANGED <<mem, locals, marked, where, owner, scanned, barrier, stage, rootsScanned, todo, grey, op>>
      /\ pc[t] = "publish" /\ pc' = [pc EXCEPT ![t] = "seen"]
      /\ held' = [held EXCEPT ![t] = mem[op[t].slot]]
  BY DEF Publish, heapVars, progVars, objVars, thrVars, Goto
<1>2. /\ pc'[t] = "seen" /\ held'[t] = mem[op[t].slot]
      /\ \A u \in Threads \ {t} : pc'[u] = pc[u] /\ held'[u] = held[u]
  BY <1>1 DEF Types
<1>3. /\ \A u \in Threads : (Black(u)' <=> Black(u)) /\ (White(u)' <=> White(u))
      /\ Young' = Young /\ ReadStatics' = ReadStatics
  <2>1. \A u \in Threads : pc[u] = "statics" <=> pc'[u] = "statics"
    BY <1>1, <1>2
  <2> QED
    BY <1>1, <2>1, ViewQuiet
<1>4. Stale' = Stale
  BY <1>1, <1>2, <1>3 DEF Stale, Plain
<1>5. held[t] = Null
  BY <1>1 DEF Stores, HeldAgrees
<1>6. Kept \subseteq Kept'
  <2>1. \A u \in Threads : White(u) => held[u] \in marked' \cup {Null} \/ (White(u)' /\ held'[u] = held[u])
    BY <1>2, <1>3, <1>5
  <2>2. \A u \in Threads : grey[u] \in Slots => grey'[u] = grey[u]
    BY <1>1
  <2>3. \A u \in Threads : White(u) /\ pc[u] = "publish" /\ op[u].slot \in ReadStatics =>
          White(u)' /\ \/ held'[u] = mem[op[u].slot]
                       \/ pc'[u] = "publish" /\ op'[u].slot = op[u].slot /\ op[u].slot \in ReadStatics'
    BY <1>1, <1>2, <1>3
  <2> QED
    BY <1>1, <1>3, <1>4, <2>1, <2>2, <2>3, KeptGrows
<1>7. Safe \subseteq Safe'
  BY <1>3, <1>6 DEF Safe
<1>8. \A u \in Threads : Black(u)' =>
        \/ Black(u) /\ locals'[u] \subseteq locals[u] /\ held'[u] \in {held[u], Null}
        \/ locals'[u] \cup {held'[u]} \subseteq Safe'
  <2> SUFFICES ASSUME Black(t) PROVE locals[t] \cup {held'[t]} \subseteq Safe'
    BY <1>1, <1>2, <1>3
  <2>1. op[t].slot \in Statics \cup (locals[t] \ Stale)
    BY <1>1, StaleIsOne DEF Stores, OpAgrees, Storing
  <2>2. mem[op[t].slot] \in Safe
    BY <2>1, BlackLoads
  <2> QED
    BY <1>2, <1>7, <2>2 DEF Marker, BlackKept
<1>9. MarkerOwed
  <2>1. \A u \in Threads : pc'[u] \in {"grey", "write"} => pc'[u] = pc[u]
    BY <1>2
  <2>2. \A u \in Threads : Plain(u)' <=> Plain(u)
    BY <1>1 DEF Plain
  <2> QED
    BY <1>1, <1>3, <1>6, <1>8, <2>1, <2>2 DEF MarkerOwed
<1> QED
  BY <1>1, <1>9, MarkerStep

LEMMA MarkerSeen ==
  ASSUME Types, Types', Control, Stores, Marker, barrier, NEW t \in Threads, Seen(t)
  PROVE  Marker'
<1>1. /\ UNCHANGED <<mem, locals, where, owner, scanned, barrier, stage, rootsScanned, todo, grey>>
      /\ pc[t] = "seen" /\ pc' = [pc EXCEPT ![t] = "run"] /\ op' = [op EXCEPT ![t] = Idle]
      /\ held' = [held EXCEPT ![t] = Null] /\ marked' = marked \cup ({held[t]} \ {Null})
  BY DEF Seen, progVars, gcVars, thrVars, Goto, Finish, Mark
<1>2. /\ pc'[t] = "run" /\ held'[t] = Null
      /\ \A u \in Threads \ {t} : pc'[u] = pc[u] /\ held'[u] = held[u] /\ op'[u] = op[u]
  BY <1>1 DEF Types
<1>3. /\ \A u \in Threads : (Black(u)' <=> Black(u)) /\ (White(u)' <=> White(u))
      /\ Young' = Young /\ ReadStatics' = ReadStatics
  <2>1. \A u \in Threads : pc[u] = "statics" <=> pc'[u] = "statics"
    BY <1>1, <1>2
  <2> QED
    BY <1>1, <2>1, ViewQuiet
<1>4. Stale' \subseteq Stale
  BY <1>1, <1>2, <1>3 DEF Stale, Plain
<1>5. Kept \subseteq Kept'
  <2>1. \A u \in Threads : White(u) => held[u] \in marked' \cup {Null} \/ (White(u)' /\ held'[u] = held[u])
    BY <1>1, <1>2, <1>3
  <2>2. \A u \in Threads : grey[u] \in Slots => grey'[u] = grey[u]
    BY <1>1
  <2>3. \A u \in Threads : White(u) /\ pc[u] = "publish" /\ op[u].slot \in ReadStatics =>
          White(u)' /\ pc'[u] = "publish" /\ op'[u].slot = op[u].slot /\ op[u].slot \in ReadStatics'
    BY <1>1, <1>2, <1>3
  <2> QED
    BY <1>1, <1>3, <1>4, <2>1, <2>2, <2>3, KeptGrows
<1>6. \A u \in Threads : pc'[u] \in {"grey", "write"} => pc'[u] = pc[u] /\ op'[u] = op[u]
  BY <1>2
<1>7. \A u \in Threads : held'[u] \in {held[u], Null}
  BY <1>2
<1>8. MarkerOwed
  BY <1>1, <1>3, <1>5, <1>6, <1>7 DEF MarkerOwed
<1> QED
  BY <1>1, <1>8, MarkerStep

-----------------------------------------------------------------------------
(* The opening: the declared roots are read one by one behind the barrier. *)
LEMMA OpeningAlone ==
  ASSUME Control, NEW t \in Threads, pc[t] \in Opening
  PROVE  /\ stage = "START" /\ \A u \in Threads \ {t} : pc[u] \notin Exclusively
         /\ Young = {} /\ scanned = {} /\ \A u \in Threads : ~Black(u)
         /\ \A u \in Threads : White(u) <=> barrier
<1>1. stage = "START" /\ fsaLock = t
  BY DEF Control, StageAgrees, LockAgrees, Exclusively
<1>2. \A u \in Threads \ {t} : pc[u] \notin Exclusively
  BY <1>1 DEF Control, LockAgrees
<1>3. \A u \in Threads : ~Black(u) /\ (White(u) <=> barrier)
  BY <1>1 DEF Black, White
<1>4. Young = {} /\ scanned = {}
  BY <1>1, <1>3 DEF Young, Control, SetsAgree
<1> QED
  BY <1>1, <1>2, <1>3, <1>4

LEMMA MarkerOpenBarrier ==
  ASSUME Types, Control, NEW t \in Threads, OpenBarrier(t)
  PROVE  Marker'
<1>1. /\ pc[t] = "open" /\ barrier' = TRUE /\ todo' = Statics /\ pc' = [pc EXCEPT ![t] = "statics"]
      /\ UNCHANGED <<stage, scanned, where, owner>>
  BY DEF OpenBarrier, heapVars, objVars, Goto
<1>2. stage = "START"
  BY <1>1, OpeningAlone DEF Opening
<1>3. \A u \in Threads : ~Black(u)' /\ White(u)'
  BY <1>1, <1>2 DEF Black, White
<1>4. Young' = {} /\ ReadStatics' = {}
  <2>1. pc'[t] = "statics"
    BY <1>1 DEF Types
  <2> QED
    BY <1>1, <1>3, <2>1 DEF Young, ReadStatics
<1>5. BlackKept' /\ StaticsKept' /\ YoungKept' /\ ScannedKept'
  <2>1. BlackKept'
    BY <1>3 DEF BlackKept
  <2>2. StaticsKept' /\ YoungKept'
    BY <1>4 DEF StaticsKept, YoungKept
  <2>3. ScannedKept'
    BY <1>1, <1>2 DEF ScannedKept
  <2> QED
    BY <2>1, <2>2, <2>3
<1>6. WriteShaded'
  BY <1>3, <1>4 DEF WriteShaded
<1>7. CasShaded' /\ InsertKept'
  BY <1>4 DEF CasShaded, InsertKept
<1> QED
  BY <1>5, <1>6, <1>7 DEF Marker

LEMMA MarkerOpen ==
  ASSUME Types, Types', Control, Control', Stores, Marker, barrier, NEW t \in Threads,
         OpenStatics(t) \/ OpenAsk(t)
  PROVE  Marker'
<1>1. /\ UNCHANGED <<mem, locals, where, owner, scanned, barrier, held, grey, op>>
      /\ pc[t] \in {"statics", "ask"}
  BY DEF OpenStatics, OpenAsk, heapVars, progVars, objVars, thrVars, opVars
<1>2. PICK l \in {"statics", "ask", "run"} : pc' = [pc EXCEPT ![t] = l] /\ (pc[t] = "ask" => l # "statics")
  <2>1. pc = [pc EXCEPT ![t] = pc[t]] /\ pc[t] \in {"statics", "ask"}
    BY <1>1 DEF Types
  <2>2. CASE OpenStatics(t)
    BY <2>1, <2>2 DEF OpenStatics, Goto
  <2>3. CASE OpenAsk(t)
    BY <2>1, <2>3 DEF OpenAsk, Goto
  <2> QED
    BY <2>2, <2>3
<1>3. pc'[t] = l /\ \A u \in Threads \ {t} : pc'[u] = pc[u]
  BY <1>2 DEF Types
<1>4. /\ stage = "START" /\ \A u \in Threads \ {t} : pc[u] \notin Exclusively
      /\ Young = {} /\ scanned = {} /\ \A u \in Threads : ~Black(u) /\ White(u)
  BY <1>1, OpeningAlone DEF Opening
<1>5. \A u \in Threads : ~Black(u)' /\ White(u)'
  <2>1. CASE stage' = "SCAN_ROOTS"
    <3>1. OpenAsk(t) /\ todo = {} /\ UNCHANGED rootsScanned
      BY <1>4, <2>1 DEF OpenStatics, OpenAsk
    <3>2. \A u \in Threads : ~rootsScanned[u]
      BY <3>1 DEF OpenAsk, Control, RequestAgrees
    <3> QED
      BY <1>1, <3>1, <3>2 DEF Black, White
  <2>2. CASE stage' = "START"
    BY <1>1, <2>2 DEF Black, White
  <2> QED
    BY <1>4, <2>1, <2>2 DEF OpenStatics, OpenAsk
<1>6. Young' = {}
  BY <1>5 DEF Young
<1>7. marked \subseteq marked' /\ \A s \in ReadStatics' : s \in ReadStatics \/ mem[s] \in marked' \cup {Null}
  <2>1. \A u \in Threads \ {t} : pc[u] # "statics" /\ pc'[u] # "statics"
    BY <1>3, <1>4 DEF Exclusively, Opening
  <2>2. CASE OpenStatics(t) /\ todo # {}
    <3>1. /\ todo' = todo \ {First(todo)} /\ marked' = marked \cup ({mem[First(todo)]} \ {Null})
          /\ pc[t] = "statics" /\ pc'[t] = "statics"
      BY <2>2 DEF OpenStatics, Mark
    <3>2. \A s \in ReadStatics' : s \in ReadStatics \/ s = First(todo)
      BY <1>1, <2>1, <3>1 DEF ReadStatics
    <3> QED
      BY <3>1, <3>2
  <2>3. CASE OpenStatics(t) /\ todo = {}
    <3>1. pc[t] = "statics" /\ marked' = marked
      BY <2>3 DEF OpenStatics
    <3>2. ReadStatics = Statics
      BY <2>1, <2>3 DEF ReadStatics
    <3> QED
      BY <3>1, <3>2 DEF ReadStatics
  <2>4. CASE OpenAsk(t)
    <3>1. pc[t] = "ask" /\ marked' = marked
      BY <2>4 DEF OpenAsk, heapVars, objVars
    <3>2. ReadStatics = Statics
      BY <2>1, <3>1 DEF ReadStatics
    <3> QED
      BY <3>1, <3>2 DEF ReadStatics
  <2> QED
    BY <2>2, <2>3, <2>4
<1>8. ReadStatics \subseteq ReadStatics'
  <2>1. \A u \in Threads \ {t} : pc[u] # "statics" /\ pc'[u] # "statics"
    BY <1>3, <1>4 DEF Exclusively, Opening
  <2>2. CASE OpenStatics(t) /\ todo # {}
    BY <1>1, <2>1, <2>2 DEF OpenStatics, ReadStatics
  <2>3. CASE ~(OpenStatics(t) /\ todo # {})
    <3>1. pc'[t] # "statics"
      BY <1>2, <1>3, <2>3 DEF OpenStatics, OpenAsk, Goto, Types
    <3>2. ReadStatics' = Statics
      BY <1>1, <2>1, <3>1 DEF ReadStatics
    <3> QED
      BY <3>2 DEF ReadStatics
  <2> QED
    BY <2>2, <2>3
<1>9. Stale' \subseteq Stale
  BY <1>1, <1>3, <1>4 DEF Stale, Plain
<1>10. Kept \subseteq Kept'
  <2>1. \A u \in Threads : White(u) => White(u)' /\ held'[u] = held[u]
    BY <1>1, <1>5
  <2>2. \A u \in Threads : grey[u] \in Slots => grey'[u] = grey[u]
    BY <1>1
  <2>3. \A u \in Threads : White(u) /\ pc[u] = "publish" /\ op[u].slot \in ReadStatics =>
          White(u)' /\ pc'[u] = "publish" /\ op'[u].slot = op[u].slot /\ op[u].slot \in ReadStatics'
    BY <1>1, <1>3, <1>5, <1>8
  <2> QED
    BY <1>1, <1>6, <1>7, <1>9, <2>1, <2>2, <2>3, KeptGrows
<1>11. \A u \in Threads : pc'[u] \in {"grey", "write"} => pc'[u] = pc[u]
  BY <1>3
<1>12. \A u \in Threads : Plain(u)' => Plain(u)
  BY <1>1 DEF Plain
<1>13. \A u \in Threads : barrier' /\ Plain(u)' /\ pc'[u] \in {"grey", "write"} =>
         \/ mem[op'[u].slot] \in marked' \cup {Null}
         \/ /\ barrier /\ pc[u] \in {"grey", "write"} /\ op'[u] = op[u]
            /\ White(u) => White(u)'
            /\ op[u].slot \in ReadStatics' \cup Young' => op[u].slot \in ReadStatics \cup Young
  BY <1>1, <1>5, <1>6, <1>7, <1>11
<1>14. \A u \in Threads : ~Plain(u)' /\ pc'[u] = "write" =>
         /\ pc[u] = "write" /\ op'[u] = op[u]
         /\ op[u].slot \in ReadStatics' => op[u].slot \in ReadStatics \/ mem[op[u].slot] \in marked' \cup {Null}
  BY <1>1, <1>7, <1>11
<1>15. MarkerOwed
  BY <1>1, <1>4, <1>5, <1>6, <1>7, <1>10, <1>13, <1>14 DEF MarkerOwed
<1> QED
  BY <1>1, <1>15, MarkerStep

(* A thread turns black: what it holds is marked.                          *)
LEMMA MarkerScanThread ==
  ASSUME Types, Types', Control, Stores, Marker, barrier, NEW t \in Threads, ScanThread(t)
  PROVE  Marker'
<1>0. pc[t] = "scan"
  BY DEF ScanThread
<1>2. PICK u \in Threads : u = scanning /\ (u = t \/ pc[u] = "io") /\ ~rootsScanned[u]
  BY <1>0 DEF Control, ScanAgrees
<1>1. /\ UNCHANGED <<mem, locals, owner, scanned, barrier, stage, todo, held, op>>
      /\ pc[t] = "scan" /\ pc' = [pc EXCEPT ![t] = "resume"]
      /\ rootsScanned' = [rootsScanned EXCEPT ![u] = TRUE]
      /\ where' = Taken(u)
      /\ marked' = marked \cup locals[u] \cup GreyTarget(u)
      /\ grey' = [grey EXCEPT ![u] = Null]
  BY <1>2 DEF ScanThread, progVars, gcVars, opVars, Goto
<1>3. pc[u] \in {"scan", "io"} /\ held[u] = Null
  BY <1>1, <1>2 DEF Stores, HeldAgrees
<1>4. \A w \in Threads : /\ pc'[w] = pc[w] \/ (w = t /\ pc[w] = "scan" /\ pc'[w] = "resume")
                         /\ w # u => rootsScanned'[w] = rootsScanned[w] /\ grey'[w] = grey[w]
                         /\ w = u => rootsScanned'[w] /\ grey'[w] = Null
  BY <1>1, <1>2 DEF Types
<1>5. stage = "SCAN_ROOTS"
  BY <1>1 DEF Control, StageAgrees, Scanning
<1>6. \A w \in Threads \ {u} : (Black(w)' <=> Black(w)) /\ (White(w)' <=> White(w))
  BY <1>1, <1>4 DEF Black, White
<1>7. ~Black(u) /\ Black(u)' /\ ~White(u)'
  BY <1>1, <1>2, <1>4, <1>5 DEF Black, White
<1>8. Young' = Young
  <2>1. \A o \in Objects : where'[o] = IF where[o] = "new" /\ owner[o] = u THEN "pool" ELSE where[o]
    BY <1>1 DEF Taken
  <2>2. ASSUME NEW o \in Objects, NEW w \in Threads, owner[o] = w
        PROVE  (where'[o] = "new" /\ Black(w)') <=> (where[o] = "new" /\ Black(w))
    BY <1>6, <1>7, <2>1, <2>2
  <2>3. \A o \in Objects : o \in Young' <=> where'[o] = "new" /\ \E w \in Threads : owner[o] = w /\ Black(w)'
    BY <1>1 DEF Young
  <2>4. \A o \in Objects : o \in Young <=> where[o] = "new" /\ \E w \in Threads : owner[o] = w /\ Black(w)
    BY DEF Young
  <2>5. Young \subseteq Objects /\ Young' \subseteq Objects
    BY DEF Young
  <2> QED
    BY <2>2, <2>3, <2>4, <2>5
<1>9. ReadStatics' = ReadStatics
  BY <1>1, <1>4 DEF ReadStatics
<1>10. Stale' = Stale
  BY <1>1, <1>3, <1>4, <1>6 DEF Stale, Plain
<1>11. grey[u] \in Slots => mem[grey[u]] \in marked' \cup {Null}
  BY <1>1, HeapAssumption DEF GreyTarget
<1>12. Kept \subseteq Kept'
  <2>1. \A w \in Threads : White(w) => held[w] \in marked' \cup {Null} \/ (White(w)' /\ held'[w] = held[w])
    BY <1>1, <1>3, <1>6
  <2>2. \A w \in Threads : grey[w] \in Slots => mem[grey[w]] \in marked' \cup {Null} \/ grey'[w] = grey[w]
    BY <1>4, <1>11
  <2>3. \A w \in Threads : White(w) /\ pc[w] = "publish" /\ op[w].slot \in ReadStatics =>
          White(w)' /\ pc'[w] = "publish" /\ op'[w].slot = op[w].slot /\ op[w].slot \in ReadStatics'
    BY <1>1, <1>3, <1>4, <1>6, <1>9
  <2> QED
    BY <1>1, <1>8, <1>10, <2>1, <2>2, <2>3, KeptGrows
<1>13. locals'[u] \cup {held'[u]} \subseteq Safe'
  <2>1. marked' \subseteq Kept'
    BY KeptFactsNext DEF WillMarkIn
  <2> QED
    BY <1>1, <1>3, <2>1 DEF Safe
<1>14. \A w \in Threads : Black(w)' =>
         \/ Black(w) /\ locals'[w] \subseteq locals[w] /\ held'[w] \in {held[w], Null}
         \/ locals'[w] \cup {held'[w]} \subseteq Safe'
  BY <1>1, <1>6, <1>13
<1>15. \A w \in Threads : pc'[w] \in {"grey", "write"} =>
         /\ w # u /\ pc'[w] = pc[w] /\ op'[w] = op[w] /\ grey'[w] = grey[w]
         /\ White(w)' <=> White(w)
  BY <1>1, <1>3, <1>4, <1>6
<1>16. MarkerOwed
  BY <1>1, <1>8, <1>9, <1>12, <1>14, <1>15 DEF MarkerOwed
<1> QED
  BY <1>1, <1>16, MarkerStep

LEMMA MarkerMarkObject ==
  ASSUME Types, Types', Control, Stores, Marker, NEW t \in Threads, MarkObject(t)
  PROVE  Marker'
<1>1. /\ UNCHANGED <<mem, locals, where, owner, barrier, stage, rootsScanned, todo, held, grey, pc, op>>
      /\ stage = "MARK"
  BY DEF MarkObject, progVars, gcVars, thrVars, opVars
<1>2. PICK o \in marked \ scanned : /\ marked' = marked \cup ({mem[o]} \ {Null})
                                    /\ scanned' = scanned \cup {o}
  BY DEF MarkObject, Mark
<1>3. /\ \A u \in Threads : (Black(u)' <=> Black(u)) /\ (White(u)' <=> White(u))
      /\ Young' = Young /\ ReadStatics' = ReadStatics
  BY <1>1, ViewQuiet
<1>4. Stale' = Stale
  BY <1>1, <1>3 DEF Stale, Plain
<1>5. Kept \subseteq Kept'
  <2>1. \A x \in scanned' \ scanned : mem[x] \in marked' \cup {Null}
    BY <1>2
  <2>2. \A u \in Threads : White(u) => White(u)' /\ held'[u] = held[u]
    BY <1>1, <1>3
  <2>3. \A u \in Threads : grey[u] \in Slots => grey'[u] = grey[u]
    BY <1>1
  <2>4. \A u \in Threads : White(u) /\ pc[u] = "publish" /\ op[u].slot \in ReadStatics =>
          White(u)' /\ pc'[u] = "publish" /\ op'[u].slot = op[u].slot /\ op[u].slot \in ReadStatics'
    BY <1>1, <1>3
  <2> QED
    BY <1>1, <1>2, <1>3, <1>4, <2>1, <2>2, <2>3, <2>4, KeptGrows
<1>6. MarkerOwed
  <2>1. \A x \in scanned' : x \in scanned \/ mem[x] \in marked' \cup {Null}
    BY <1>2
  <2> QED
    BY <1>1, <1>2, <1>3, <1>5, <2>1 DEF MarkerOwed
<1> QED
  BY <1>1, <1>6, MarkerStep

LEMMA NextMarker ==
  ASSUME Types, Types', Control, Control', Stores, Stores', Marker, Heap, [Next]_vars
  PROVE  Marker'
<1>1. CASE ~barrier'
  BY <1>1, MarkerDownNext DEF Control
<1>2. CASE barrier' /\ ~barrier
  <2>1. PICK t \in Threads : Program(t) \/ StoreStep(t) \/ Enter(t) \/ Collect(t)
    BY <1>2 DEF Next, vars, gcVars
  <2>2. OpenBarrier(t)
    <3>1. Program(t) \/ StoreStep(t) \/ Enter(t) => UNCHANGED barrier
      BY DEF Program, StoreStep, Alloc, Load, Drop, Begin, IoBegin, IoEnd, Enter, Inline, Once, Before,
             Overwrite, Flush, Old, Shade, Grey, Expected, Write, Publish, Seen, Step, gcVars
    <3>2. Collect(t) /\ ~OpenBarrier(t) => UNCHANGED barrier \/ barrier' = FALSE
      BY DEF Collect, OpenStatics, OpenAsk, ScanPick, ScanThread, ScanResume, ScanDecide, MarkObject,
             Retire, PruneObject, PruneEnd, gcVars
    <3> QED
      BY <1>2, <2>1, <3>1, <3>2
  <2> QED
    BY <2>2, MarkerOpenBarrier
<1>3. CASE barrier' /\ barrier
  <2>1. CASE UNCHANGED vars
    <3>1. UNCHANGED <<mem, locals, marked, scanned, where, owner, barrier, stage, rootsScanned, todo, held, grey, pc, op>>
      BY <2>1 DEF vars, progVars, objVars, gcVars, thrVars, opVars
    <3>2. \A u \in Threads : (Black(u)' <=> Black(u)) /\ (White(u)' <=> White(u))
      BY <3>1, ViewQuiet
    <3> QED
      BY <3>1, <3>2, MarkerQuiet
  <2>2. ASSUME NEW t \in Threads, Program(t) PROVE Marker'
    BY <1>3, <2>2, MarkerAlloc, MarkerLoad, MarkerAside, MarkerBegin DEF Program
  <2>3. ASSUME NEW t \in Threads, StoreStep(t) PROVE Marker'
    <3>1. CASE Write(t)
      <4>1. CASE op[t].kind = "cas" /\ mem[op[t].slot] # op[t].expected
        BY <1>3, <3>1, <4>1, MarkerFails
      <4>2. CASE ~(op[t].kind = "cas" /\ mem[op[t].slot] # op[t].expected)
        <5>1. mem' = [mem EXCEPT ![op[t].slot] = op[t].value] /\ locals' = locals
          BY <3>1, <4>2 DEF Write
        <5> QED
          BY <1>3, <3>1, <4>2, <5>1, MarkerWrite
      <4> QED
        BY <4>1, <4>2
    <3>2. CASE Inline(t) \/ Once(t) \/ Before(t) \/ Overwrite(t)
      BY <1>3, <3>2, MarkerChecks
    <3>3. CASE Flush(t) \/ Expected(t)
      BY <1>3, <3>3, MarkerShadesOnce
    <3>4. CASE Old(t)
      BY <1>3, <3>4, MarkerOld
    <3>5. CASE Shade(t)
      BY <1>3, <3>5, MarkerShade
    <3>6. CASE Grey(t)
      BY <1>3, <3>6, MarkerGrey
    <3>7. CASE Publish(t)
      BY <1>3, <3>7, MarkerPublish
    <3>8. CASE Seen(t)
      BY <1>3, <3>8, MarkerSeen
    <3> QED
      BY <2>3, <3>1, <3>2, <3>3, <3>4, <3>5, <3>6, <3>7, <3>8 DEF StoreStep
  <2>4. ASSUME NEW t \in Threads, Collect(t) PROVE Marker'
    <3>1. ~Retire(t) /\ ~PruneObject(t) /\ ~PruneEnd(t)
      BY <1>3, ColourFacts DEF Retire, PruneObject, PruneEnd
    <3>2. CASE OpenBarrier(t)
      BY <3>2, MarkerOpenBarrier
    <3>3. CASE OpenStatics(t) \/ OpenAsk(t)
      BY <1>3, <3>3, MarkerOpen
    <3>4. CASE ScanThread(t)
      BY <1>3, <3>4, MarkerScanThread
    <3>5. CASE ScanPick(t) \/ ScanResume(t) \/ ScanDecide(t)
      BY <1>3, <3>5, MarkerAside
    <3>6. CASE MarkObject(t)
      BY <3>6, MarkerMarkObject
    <3> QED
      BY <2>4, <3>1, <3>2, <3>3, <3>4, <3>5, <3>6 DEF Collect
  <2>5. ASSUME NEW t \in Threads, Enter(t) PROVE Marker'
    BY <1>3, <2>5, MarkerAside
  <2> QED
    BY <2>1, <2>2, <2>3, <2>4, <2>5 DEF Next
<1> QED
  BY <1>1, <1>2, <1>3 DEF Types

-----------------------------------------------------------------------------
(* What is not reclaimed: it only shrinks, save for the newborn.           *)
LiveIn(C) ==
  /\ marked \subseteq C
  /\ \A t \in Threads : locals[t] \subseteq C /\ held[t] \in C \cup {Null}
                        /\ grey[t] \in C \cup Statics \cup {Null}
  /\ \A s \in Statics : mem[s] \in C \cup {Null}
  /\ \A o \in C : mem[o] \in C \cup {Null}

LEMMA LiveFactsIn == Types => Live \subseteq Objects /\ LiveIn(Live)
<1> SUFFICES ASSUME Types PROVE Live \subseteq Objects /\ LiveIn(Live)
  OBVIOUS
<1>1. LiveRoots \subseteq Live /\ LiveClosed(Live) /\ Live \subseteq Objects
  BY LiveFacts
<1>2. marked \subseteq LiveRoots /\ \A s \in Statics : mem[s] \in LiveRoots \cup {Null}
  BY DEF LiveRoots
<1>3. \A t \in Threads : /\ locals[t] \ {Null} \subseteq LiveRoots
                         /\ held[t] \in LiveRoots \cup {Null}
                         /\ grey[t] \in LiveRoots \cup Statics \cup {Null}
  BY DEF LiveRoots
<1>4. \A t \in Threads : Null \notin locals[t]
  BY HeapAssumption DEF Types, Slots
<1> QED
  BY <1>1, <1>2, <1>3, <1>4 DEF LiveIn, LiveClosed

LEMMA LiveFactsNext == Types' => Live' \subseteq Objects /\ LiveIn(Live)'
<1>1. Types' => (Live \subseteq Objects /\ LiveIn(Live))'
  BY LiveFactsIn, PTL
<1> QED
  BY <1>1

LEMMA LiveLeast ==
  ASSUME NEW C \in SUBSET Objects, LiveIn(C)
  PROVE  Live \subseteq C
<1>1. LiveRoots \subseteq C
  <2> SUFFICES ASSUME NEW x \in LiveRoots, x \notin marked PROVE x \in C
    BY DEF LiveIn
  <2>1. /\ x # Null
        /\ \/ \E t \in Threads : x \in locals[t]
           \/ \E s \in Statics : x = mem[s]
           \/ \E t \in Threads : x = held[t]
           \/ \E t \in Threads : x = grey[t] /\ x \notin Statics
    BY DEF LiveRoots
  <2> QED
    BY <2>1 DEF LiveIn
<1>2. LiveClosed(C)
  BY DEF LiveIn, LiveClosed
<1> QED
  BY <1>1, <1>2 DEF Live

LEMMA LiveLeastNext ==
  ASSUME NEW C \in SUBSET Objects,
         marked' \subseteq C,
         \A t \in Threads : locals'[t] \subseteq C /\ held'[t] \in C \cup {Null}
                            /\ grey'[t] \in C \cup Statics \cup {Null},
         \A s \in Statics : mem'[s] \in C \cup {Null},
         \A o \in C : mem'[o] \in C \cup {Null}
  PROVE  Live' \subseteq C
<1>1. LiveRoots' \subseteq C
  <2> SUFFICES ASSUME NEW x \in LiveRoots', x \notin marked' PROVE x \in C
    OBVIOUS
  <2>1. /\ x # Null
        /\ \/ \E t \in Threads : x \in locals'[t]
           \/ \E s \in Statics : x = mem'[s]
           \/ \E t \in Threads : x = held'[t]
           \/ \E t \in Threads : x = grey'[t] /\ x \notin Statics
    BY DEF LiveRoots
  <2> QED
    BY <2>1
<1>2. \A o \in C : mem'[o] # Null => mem'[o] \in C
  OBVIOUS
<1> QED
  BY <1>1, <1>2 DEF Live, LiveClosed

(* All steps but allocation.                                               *)
LEMMA LiveShrinks ==
  ASSUME Types, Types', Control, Stores, NEW t \in Threads,
         (Program(t) /\ ~Alloc(t)) \/ StoreStep(t) \/ Enter(t) \/ Collect(t)
  PROVE  Live' \subseteq Live
<1>0. Live \subseteq Objects /\ LiveIn(Live)
  BY LiveFactsIn
<1>a. /\ marked \subseteq Live
      /\ \A u \in Threads : locals[u] \subseteq Live /\ held[u] \in Live \cup {Null}
                            /\ grey[u] \in Live \cup Statics \cup {Null}
      /\ \A s \in Statics : mem[s] \in Live \cup {Null}
      /\ \A o \in Live : mem[o] \in Live \cup {Null}
  BY <1>0 DEF LiveIn
<1>b. pc[t] \in Storing =>
        /\ op[t].slot \in Live \cup Statics /\ op[t].value \in Live \cup {Null}
        /\ op[t].expected \in Live \cup {Null} /\ mem[op[t].slot] \in Live \cup {Null}
  BY <1>a DEF Stores, OpAgrees
<1>c. \A u \in Threads : GreyTarget(u) \subseteq Live
  BY <1>a DEF GreyTarget
<1>1. marked' \subseteq Live
  <2>1. (Program(t) /\ ~Alloc(t)) \/ Enter(t) => marked' = marked
    BY DEF Program, Load, Drop, Begin, IoBegin, IoEnd, Enter, heapVars, objVars
  <2>2. StoreStep(t) => marked' \subseteq Live
    <3>1. Inline(t) \/ Once(t) \/ Before(t) \/ Overwrite(t) \/ Old(t) \/ Grey(t) \/ Write(t) \/ Publish(t)
            => marked' = marked
      BY DEF Inline, Once, Before, Overwrite, Old, Grey, Write, Publish, heapVars, objVars
    <3>2. Flush(t) \/ Shade(t) \/ Seen(t) => marked' \subseteq Live
      BY <1>a, <1>c DEF Flush, GreyFlush, Shade, Seen, Mark
    <3>3. Expected(t) => marked' \subseteq Live
      BY <1>a, <1>b DEF Expected, Step, Mark, Storing
    <3> QED
      BY <1>a, <3>1, <3>2, <3>3 DEF StoreStep
  <2>3. Collect(t) => marked' \subseteq Live
    <3>1. OpenBarrier(t) \/ OpenAsk(t) \/ ScanPick(t) \/ ScanResume(t) \/ ScanDecide(t) \/ Retire(t)
            \/ PruneEnd(t) => marked' = marked
      BY DEF OpenBarrier, OpenAsk, ScanPick, ScanResume, ScanDecide, Retire, PruneEnd, heapVars, objVars
    <3>2. OpenStatics(t) => marked' \subseteq Live
      <4>1. SUFFICES ASSUME OpenStatics(t), todo # {} PROVE marked' \subseteq Live
        BY <1>a DEF OpenStatics
      <4>2. marked' = marked \cup ({mem[First(todo)]} \ {Null}) /\ pc[t] = "statics"
        BY <4>1 DEF OpenStatics, Mark
      <4>3. First(todo) \in Statics
        BY <4>1, <4>2 DEF First, Control, StageAgrees
      <4> QED
        BY <1>a, <4>2, <4>3
    <3>3. ScanThread(t) => marked' \subseteq Live
      <4>1. SUFFICES ASSUME ScanThread(t) PROVE marked' \subseteq Live
        OBVIOUS
      <4>2. scanning \in Threads
        BY <4>1 DEF ScanThread, Control, ScanAgrees
      <4> QED
        BY <1>a, <1>c, <4>1, <4>2 DEF ScanThread
    <3>4. MarkObject(t) \/ PruneObject(t) => marked' \subseteq Live
      BY <1>a DEF MarkObject, PruneObject, Mark
    <3> QED
      BY <1>a, <3>1, <3>2, <3>3, <3>4 DEF Collect
  <2> QED
    BY <1>a, <2>1, <2>2, <2>3
<1>2. \A u \in Threads : locals'[u] \subseteq Live
  <2>1. CASE Load(t)
    <3>1. PICK s \in Statics \cup locals[t] : mem[s] # Null /\ locals' = [locals EXCEPT ![t] = @ \cup {mem[s]}]
      BY <2>1 DEF Load, Readable
    <3>2. mem[s] \in Live
      BY <1>a, <3>1
    <3> QED
      BY <1>a, <3>1, <3>2 DEF Types
  <2>2. CASE Begin(t)
    <3>1. PICK k \in Kinds, s \in Slots :
            /\ k \in {"root", "cas"} => s \in Statics
            /\ locals' = [locals EXCEPT ![t] = @ \cup ({IF k = "cas" THEN mem[s] ELSE Null} \ {Null})]
      BY <2>2 DEF Begin
    <3> QED
      BY <1>a, <3>1 DEF Types
  <2>3. CASE Write(t)
    <3>1. pc[t] \in Storing /\ (locals' = locals \/ locals' = [locals EXCEPT ![t] = @ \cup ({mem[op[t].slot]} \ {Null})])
      BY <2>3 DEF Write, Storing
    <3> QED
      BY <1>a, <1>b, <3>1 DEF Types
  <2>4. CASE Drop(t)
    BY <1>a, <2>4 DEF Drop, Types
  <2>5. CASE ~(Load(t) \/ Begin(t) \/ Write(t) \/ Drop(t))
    <3>1. IoBegin(t) \/ IoEnd(t) \/ Enter(t) => locals' = locals
      BY DEF IoBegin, IoEnd, Enter, heapVars, progVars
    <3>2. StoreStep(t) /\ ~Write(t) => locals' = locals
      BY DEF StoreStep, Inline, Once, Before, Overwrite, Flush, Old, Shade, Grey, Expected, Publish, Seen,
             Step, heapVars, progVars
    <3>3. Collect(t) => locals' = locals
      BY DEF Collect, OpenBarrier, OpenStatics, OpenAsk, ScanPick, ScanThread, ScanResume, ScanDecide,
             MarkObject, Retire, PruneObject, PruneEnd, heapVars, progVars
    <3> QED
      BY <1>a, <2>5, <3>1, <3>2, <3>3 DEF Program
  <2> QED
    BY <2>1, <2>2, <2>3, <2>4, <2>5
<1>3. \A u \in Threads : held'[u] \in Live \cup {Null}
  <2>1. CASE Old(t) \/ Publish(t)
    <3>1. pc[t] \in Storing /\ (held' = held \/ held' = [held EXCEPT ![t] = mem[op[t].slot]])
      BY <2>1 DEF Old, Publish, Step, Storing
    <3> QED
      BY <1>a, <1>b, <3>1 DEF Types
  <2>2. CASE Shade(t) \/ Seen(t)
    <3>1. held' = [held EXCEPT ![t] = Null]
      BY <2>2 DEF Shade, Seen
    <3> QED
      BY <1>a, <3>1 DEF Types
  <2>3. CASE ~(Old(t) \/ Publish(t) \/ Shade(t) \/ Seen(t))
    <3>1. Program(t) \/ Enter(t) => held' = held
      BY DEF Program, Alloc, Load, Drop, Begin, IoBegin, IoEnd, Enter, opVars
    <3>2. StoreStep(t) /\ ~(Old(t) \/ Publish(t) \/ Shade(t) \/ Seen(t)) => held' = held
      BY DEF StoreStep, Inline, Once, Before, Overwrite, Flush, Grey, Expected, Write
    <3>3. Collect(t) => held' = held
      BY DEF Collect, OpenBarrier, OpenStatics, OpenAsk, ScanPick, ScanThread, ScanResume, ScanDecide,
             MarkObject, Retire, PruneObject, PruneEnd, opVars
    <3> QED
      BY <1>a, <2>3, <3>1, <3>2, <3>3
  <2> QED
    BY <2>1, <2>2, <2>3
<1>4. \A u \in Threads : grey'[u] \in Live \cup Statics \cup {Null}
  <2>1. CASE Flush(t)
    BY <1>a, <2>1 DEF Flush, GreyFlush, Types
  <2>2. CASE Grey(t)
    <3>1. pc[t] \in Storing /\ (grey' = grey \/ grey' = [grey EXCEPT ![t] = op[t].slot])
      BY <2>2 DEF Grey, Step, Storing
    <3> QED
      BY <1>a, <1>b, <3>1 DEF Types
  <2>3. CASE ScanThread(t)
    BY <1>a, <2>3 DEF ScanThread, Types
  <2>4. CASE ~(Flush(t) \/ Grey(t) \/ ScanThread(t))
    <3>1. Program(t) \/ Enter(t) => grey' = grey
      BY DEF Program, Alloc, Load, Drop, Begin, IoBegin, IoEnd, Enter, thrVars
    <3>2. StoreStep(t) /\ ~(Flush(t) \/ Grey(t)) => grey' = grey
      BY DEF StoreStep, Inline, Once, Before, Overwrite, Old, Shade, Expected, Write, Publish, Seen, thrVars
    <3>3. Collect(t) /\ ~ScanThread(t) => grey' = grey
      BY DEF Collect, OpenBarrier, OpenStatics, OpenAsk, ScanPick, ScanResume, ScanDecide,
             MarkObject, Retire, PruneObject, PruneEnd, thrVars
    <3> QED
      BY <1>a, <2>4, <3>1, <3>2, <3>3
  <2> QED
    BY <2>1, <2>2, <2>3, <2>4
<1>5. \A s \in Statics \cup Live : mem'[s] \in Live \cup {Null}
  <2>1. CASE Write(t)
    <3>1. pc[t] \in Storing /\ (mem' = mem \/ mem' = [mem EXCEPT ![op[t].slot] = op[t].value])
      BY <2>1 DEF Write, Storing
    <3> QED
      BY <1>0, <1>a, <1>b, <3>1 DEF Types, Slots
  <2>2. CASE ~Write(t)
    <3>1. Program(t) \/ Enter(t) => mem' = mem
      BY DEF Program, Alloc, Load, Drop, Begin, IoBegin, IoEnd, Enter, heapVars, progVars
    <3>2. StoreStep(t) /\ ~Write(t) => mem' = mem
      BY DEF StoreStep, Inline, Once, Before, Overwrite, Flush, Old, Shade, Grey, Expected, Publish, Seen,
             Step, heapVars, progVars
    <3>3. Collect(t) => mem' = mem
      BY DEF Collect, OpenBarrier, OpenStatics, OpenAsk, ScanPick, ScanThread, ScanResume, ScanDecide,
             MarkObject, Retire, PruneObject, PruneEnd, heapVars, progVars
    <3> QED
      BY <1>a, <2>2, <3>1, <3>2, <3>3
  <2> QED
    BY <2>1, <2>2
<1> QED
  BY <1>0, <1>1, <1>2, <1>3, <1>4, <1>5, LiveLeastNext

-----------------------------------------------------------------------------
(* While marking runs every thread is black, so what is not reclaimed is   *)
(* what marked objects lead to, and the young.                             *)
LEMMA MarkStage ==
  ASSUME Types, Control, Stores, Marker, stage = "MARK"
  PROVE  /\ \A t \in Threads : Black(t) /\ ~White(t) /\ grey[t] = Null
         /\ Stale = {} /\ Live \subseteq Kept \cup Young
         /\ \A C \in SUBSET Objects :
              marked \subseteq C /\ (\A o \in C \ (Young \cup scanned) : mem[o] \in C \cup {Null})
                => Kept \subseteq C
<1>1. \A t \in Threads : Black(t) /\ ~White(t)
  BY DEF Black, White, Control, RequestAgrees
<1>2. \A t \in Threads : grey[t] = Null
  BY <1>1 DEF Black, Control, RequestAgrees, Stores, GreyAgrees
<1>3. Stale = {}
  BY <1>1 DEF Stale
<1>4. ASSUME NEW C \in SUBSET Objects, marked \subseteq C,
             \A o \in C \ (Young \cup scanned) : mem[o] \in C \cup {Null}
      PROVE  Kept \subseteq C
  <2>1. WillMarkIn(C)
    BY <1>1, <1>2, <1>3, <1>4, HeapAssumption DEF WillMarkIn
  <2> QED
    BY <2>1, KeptLeast
<1>5. Live \subseteq Kept \cup Young
  <2>1. barrier
    BY DEF Control, StageAgrees
  <2>2. Kept \cup Young \subseteq Objects /\ marked \subseteq Kept
    BY KeptFacts, ColourFacts DEF WillMarkIn
  <2>3. \A t \in Threads : locals[t] \cup {held[t]} \subseteq Kept \cup Young \cup {Null}
    BY <1>1 DEF Marker, BlackKept, Safe
  <2>4. \A t \in Threads : Null \notin locals[t]
    BY HeapAssumption DEF Types, Slots
  <2>5. \A s \in Statics : mem[s] \in Kept \cup Young \cup {Null}
    <3> SUFFICES ASSUME NEW s \in Statics PROVE mem[s] \in Kept \cup Young \cup {Null}
      OBVIOUS
    <3>1. \A t \in Threads : pc[t] # "statics"
      BY DEF Control, StageAgrees, Opening
    <3>2. s \in ReadStatics
      BY <2>1, <3>1 DEF ReadStatics
    <3> QED
      BY <3>2 DEF Marker, StaticsKept, Safe
  <2>6. \A o \in Kept \cup Young : mem[o] \in Kept \cup Young \cup {Null}
    BY <1>3, <2>1, ValueSafe DEF Safe
  <2>7. LiveIn(Kept \cup Young)
    BY <1>2, <2>2, <2>3, <2>4, <2>5, <2>6 DEF LiveIn
  <2> QED
    BY <2>2, <2>7, LiveLeast
<1> QED
  BY <1>1, <1>2, <1>3, <1>4, <1>5

LEMMA YoungMark ==
  ASSUME Types, Control, Stores, stage = "MARK"
  PROVE  \A o \in Objects : where[o] = "new" => o \in Young
BY DEF Black, Control, RequestAgrees, Stores, BirthAgrees, Young

LEMMA NextHeap ==
  ASSUME Types, Types', Control, Stores, Marker, Heap, [Next]_vars
  PROVE  Heap'
<1>0. /\ \A o \in Live : where[o] \in {"new", "pool"}
      /\ stage = "PRUNE" => Live \cap toPrune \subseteq marked
  BY DEF Heap, LivePresent, LivePruned
<1>a. marked \subseteq Live /\ Live \subseteq Objects
  BY LiveFactsIn DEF LiveIn
<1>1. ASSUME NEW t \in Threads, Alloc(t) PROVE Heap'
  <2>1. PICK o \in Objects : /\ where[o] = "none"
                             /\ where' = [where EXCEPT ![o] = "new"]
                             /\ locals' = [locals EXCEPT ![t] = @ \cup {o}]
                             /\ marked' = IF request[t] THEN marked \cup {o} ELSE marked
    BY <1>1 DEF Alloc
  <2>2. UNCHANGED <<mem, toPrune, stage, held, grey>>
    BY <1>1 DEF Alloc, gcVars, thrVars, opVars
  <2>3. Live' \subseteq Live \cup {o}
    <3>1. LiveIn(Live)
      BY LiveFactsIn
    <3>2. mem[o] = Null
      BY <2>1 DEF Stores, BirthAgrees
    <3>3. \A u \in Threads : locals'[u] \subseteq Live \cup {o}
      BY <2>1, <3>1 DEF LiveIn, Types
    <3>4. \A x \in Live \cup {o} : mem'[x] \in Live \cup {o} \cup {Null}
      BY <2>2, <3>1, <3>2 DEF LiveIn
    <3>5. marked' \subseteq Live \cup {o} /\ Live \cup {o} \in SUBSET Objects
      BY <1>a, <2>1
    <3>6. \A u \in Threads : /\ held'[u] \in (Live \cup {o}) \cup {Null}
                             /\ grey'[u] \in (Live \cup {o}) \cup Statics \cup {Null}
      BY <2>2, <3>1 DEF LiveIn
    <3>7. \A s \in Statics : mem'[s] \in (Live \cup {o}) \cup {Null}
      BY <2>2, <3>1 DEF LiveIn
    <3> QED
      BY <3>3, <3>4, <3>5, <3>6, <3>7, LiveLeastNext
  <2>4. \A x \in Live' : where'[x] \in {"new", "pool"}
    BY <1>0, <1>a, <2>1, <2>3 DEF Types
  <2>5. o \notin toPrune
    BY <2>1 DEF Types
  <2>6. stage' = "PRUNE" => Live' \cap toPrune' \subseteq marked'
    BY <1>0, <2>1, <2>2, <2>3, <2>5
  <2> QED
    BY <2>4, <2>6 DEF Heap, LivePresent, LivePruned
<1>2. ASSUME NEW t \in Threads, Retire(t) PROVE Heap'
  <2>1. /\ stage = "MARK" /\ toPrune' = {o \in Objects : where[o] = "pool"}
        /\ \A o \in marked \ scanned : where[o] # "pool"
        /\ UNCHANGED <<where, marked>>
    BY <1>2 DEF Retire, objVars
  <2>2. Live' \subseteq Live
    BY <1>2, LiveShrinks DEF Collect
  <2>3. Kept \subseteq marked
    <3>1. \A o \in marked \ (Young \cup scanned) : FALSE
      BY <1>0, <1>a, <2>1, YoungMark
    <3>2. marked \in SUBSET Objects
      BY <1>a
    <3> QED
      BY <2>1, <3>1, <3>2, MarkStage
  <2>4. \A o \in Live : where[o] = "pool" => o \in marked
    BY <2>1, <2>3, MarkStage DEF Young
  <2>5. \A o \in Live' : where'[o] \in {"new", "pool"}
    BY <1>0, <2>1, <2>2
  <2>6. Live' \cap toPrune' \subseteq marked'
    BY <2>1, <2>2, <2>4
  <2> QED
    BY <2>5, <2>6 DEF Heap, LivePresent, LivePruned
<1>3. ASSUME NEW t \in Threads, PruneObject(t) PROVE Heap'
  <2>1. stage = "PRUNE"
    BY <1>3 DEF PruneObject
  <2>2. PICK o \in toPrune : /\ toPrune' = toPrune \ {o}
                             /\ where' = IF o \in marked THEN where ELSE [where EXCEPT ![o] = "freed"]
                             /\ marked' = marked \ {o}
    BY <1>3 DEF PruneObject
  <2>3. Live' \subseteq Live
    BY <1>3, LiveShrinks DEF Collect
  <2>4. o \in Live => o \in marked
    BY <1>0, <2>1, <2>2
  <2>5. \A x \in Live' : where'[x] \in {"new", "pool"}
    BY <1>0, <1>a, <2>2, <2>3, <2>4 DEF Types
  <2>6. Live' \cap toPrune' \subseteq marked'
    BY <1>0, <2>1, <2>2, <2>3
  <2> QED
    BY <2>5, <2>6 DEF Heap, LivePresent, LivePruned
<1>4. ASSUME NEW t \in Threads,
             (Program(t) /\ ~Alloc(t)) \/ StoreStep(t) \/ Enter(t) \/ Collect(t),
             ~Retire(t), ~PruneObject(t)
      PROVE  Heap'
  <2>1. Live' \subseteq Live
    BY <1>4, LiveShrinks
  <2>2. \A o \in Objects : where[o] \in {"new", "pool"} => where'[o] \in {"new", "pool"}
    <3>1. CASE ScanThread(t)
      BY <3>1 DEF ScanThread, Taken
    <3>2. CASE ~ScanThread(t)
      <4>1. (Program(t) /\ ~Alloc(t)) \/ Enter(t) => where' = where
        BY DEF Program, Load, Drop, Begin, IoBegin, IoEnd, Enter, heapVars, objVars
      <4>2. StoreStep(t) => where' = where
        BY DEF StoreStep, Inline, Once, Before, Overwrite, Flush, Old, Shade, Grey, Expected, Write,
               Publish, Seen, Step, heapVars, objVars
      <4>3. Collect(t) => where' = where
        BY <1>4, <3>2 DEF Collect, OpenBarrier, OpenStatics, OpenAsk, ScanPick, ScanResume, ScanDecide,
               MarkObject, PruneEnd, heapVars, objVars
      <4> QED
        BY <1>4, <4>1, <4>2, <4>3
    <3> QED
      BY <3>1, <3>2
  <2>3. stage' = "PRUNE" => stage = "PRUNE" /\ toPrune' = toPrune /\ marked \subseteq marked'
    <3>1. stage' = "PRUNE" => stage = "PRUNE"
      <4>1. Program(t) => stage' = stage
        BY DEF Program, Alloc, Load, Drop, Begin, IoBegin, IoEnd, gcVars
      <4>2. StoreStep(t) => stage' = stage
        BY DEF StoreStep, Inline, Once, Before, Overwrite, Flush, Old, Shade, Grey, Expected, Write,
               Publish, Seen, Step, gcVars
      <4>3. Enter(t) => stage' = stage \/ stage' # "PRUNE"
        BY DEF Enter
      <4>4. Collect(t) => stage' = stage \/ stage' # "PRUNE"
        BY <1>4 DEF Collect, OpenBarrier, OpenStatics, OpenAsk, ScanPick, ScanThread, ScanResume,
               ScanDecide, MarkObject, PruneEnd, gcVars
      <4> QED
        BY <1>4, <4>1, <4>2, <4>3, <4>4
    <3>2. UNCHANGED toPrune
      <4>1. Program(t) \/ Enter(t) => toPrune' = toPrune
        BY DEF Program, Alloc, Load, Drop, Begin, IoBegin, IoEnd, Enter, gcVars, heapVars
      <4>2. StoreStep(t) => toPrune' = toPrune
        BY DEF StoreStep, Inline, Once, Before, Overwrite, Flush, Old, Shade, Grey, Expected, Write,
               Publish, Seen, Step, gcVars, heapVars
      <4>3. Collect(t) => toPrune' = toPrune
        BY <1>4 DEF Collect, OpenBarrier, OpenStatics, OpenAsk, ScanPick, ScanThread, ScanResume,
               ScanDecide, MarkObject, PruneEnd, gcVars, heapVars
      <4> QED
        BY <1>4, <4>1, <4>2, <4>3
    <3>3. marked \subseteq marked'
      <4>1. Program(t) \/ Enter(t) => marked \subseteq marked'
        BY DEF Program, Alloc, Load, Drop, Begin, IoBegin, IoEnd, Enter, objVars, heapVars
      <4>2. StoreStep(t) => marked \subseteq marked'
        BY DEF StoreStep, Inline, Once, Before, Overwrite, Flush, GreyFlush, Old, Shade, Grey, Expected, Write,
               Publish, Seen, Mark, objVars, heapVars
      <4>3. Collect(t) => marked \subseteq marked'
        BY <1>4 DEF Collect, OpenBarrier, OpenStatics, OpenAsk, ScanPick, ScanThread, ScanResume,
               ScanDecide, MarkObject, PruneEnd, Mark, objVars, heapVars
      <4> QED
        BY <1>4, <4>1, <4>2, <4>3
    <3> QED
      BY <3>1, <3>2, <3>3
  <2>4. \A o \in Live' : where'[o] \in {"new", "pool"}
    BY <1>0, <1>a, <2>1, <2>2
  <2>5. stage' = "PRUNE" => Live' \cap toPrune' \subseteq marked'
    BY <1>0, <2>1, <2>3
  <2> QED
    BY <2>4, <2>5 DEF Heap, LivePresent, LivePruned
<1>5. ASSUME UNCHANGED vars PROVE Heap'
  <2>1. UNCHANGED <<mem, locals, marked, held, grey, where, stage, toPrune>>
    BY <1>5 DEF vars, progVars, objVars, gcVars, thrVars, opVars
  <2>2. Live' \subseteq Live
    <3>1. LiveIn(Live)
      BY LiveFactsIn
    <3> QED
      BY <1>a, <2>1, <3>1, LiveLeastNext DEF LiveIn
  <2> QED
    BY <1>0, <2>1, <2>2 DEF Heap, LivePresent, LivePruned
<1> QED
  BY <1>1, <1>2, <1>3, <1>4, <1>5 DEF Next

LEMMA InitHeap == Init => Marker /\ Heap
<1> SUFFICES ASSUME Init PROVE Marker /\ Heap
  OBVIOUS
<1>1. ~barrier /\ stage = "IDLE" /\ StageAgrees
  <2>1. ~barrier /\ stage = "IDLE" /\ \A t \in Threads : pc[t] = "run"
    BY DEF Init
  <2> QED
    BY <2>1 DEF StageAgrees, Opening, Scanning
<1>2. Marker
  BY <1>1, MarkerDown
<1>3. LiveIn(Born0 \ {Null})
  <2>1. marked = {} /\ mem = Mem0 /\ locals = Locals0
        /\ \A t \in Threads : held[t] = Null /\ grey[t] = Null
    BY DEF Init
  <2>2. \A s \in Slots : Mem0[s] \in Born0
    BY DEF Born0
  <2>3. \A t \in Threads : Locals0[t] \subseteq Born0 \ {Null}
    BY HeapAssumption DEF Born0, Slots
  <2>4. Born0 \ {Null} \subseteq Slots
    BY HeapAssumption DEF Born0, Slots
  <2>5. \A s \in Statics : mem[s] \in (Born0 \ {Null}) \cup {Null}
    BY <2>1, <2>2 DEF Slots
  <2>6. \A o \in Born0 \ {Null} : mem[o] \in (Born0 \ {Null}) \cup {Null}
    BY <2>1, <2>2, <2>4
  <2> QED
    BY <2>1, <2>3, <2>5, <2>6 DEF LiveIn
<1>4. Live \subseteq Born0
  <2>1. Born0 \ {Null} \subseteq Objects
    BY HeapAssumption DEF Born0, Slots
  <2> QED
    BY <1>3, <2>1, LiveLeast
<1>5. Heap
  <2>1. \A o \in Objects : o \in Born0 => where[o] = "pool"
    BY DEF Init
  <2> QED
    BY <1>1, <1>4, <2>1 DEF Heap, LivePresent, LivePruned, Live
<1> QED
  BY <1>2, <1>5

-----------------------------------------------------------------------------
(* The invariant is inductive.                                             *)
LEMMA Invariance == SafeSpec => []IInv
<1>1. Init => IInv
  BY InitTypes, InitControl, InitStores, InitHeap DEF IInv
<1>2. IInv /\ [Next]_vars => IInv'
  <2> SUFFICES ASSUME IInv, [Next]_vars PROVE IInv'
    OBVIOUS
  <2>1. Types /\ Control /\ Stores /\ Marker /\ Heap
    BY DEF IInv
  <2>2. Types'
    BY <2>1, NextTypes DEF Control, Stores
  <2>3. Control'
    BY <2>1, <2>2, NextControl
  <2>4. Stores'
    BY <2>1, NextStores
  <2>5. Marker'
    BY <2>1, <2>2, <2>3, <2>4, NextMarker
  <2>6. Heap'
    BY <2>1, <2>2, NextHeap
  <2> QED
    BY <2>2, <2>3, <2>4, <2>5, <2>6 DEF IInv
<1> QED
  BY <1>1, <1>2, PTL DEF SafeSpec

LEMMA SpecIsSafe == Spec => SafeSpec
BY DEF Spec

(* Every reachable state has its types: no mark is on an object that is    *)
(* not born or is gone (gc_fsa_prune_body resets what it keeps).           *)
THEOREM TypeCorrect == Spec => []TypeOK
<1>1. IInv => TypeOK
  <2> SUFFICES ASSUME IInv PROVE TypeOK
    OBVIOUS
  <2>1. Types
    BY DEF IInv
  <2>2. marked \subseteq {o \in Objects : where[o] \in {"new", "pool"}}
    BY LiveFactsIn DEF IInv, LiveIn, Heap, LivePresent
  <2> QED
    BY <2>1, <2>2 DEF Types, TypeOK, Stored
<1> QED
  BY <1>1, Invariance, SpecIsSafe, PTL

(* No thread's stack is scanned while it runs: gc_io_end waits for the     *)
(* scanner, which takes only suspended threads and itself.                 *)
THEOREM NoScanOfRunning == Spec => []ScannedThreadHeld
<1>1. IInv => ScannedThreadHeld
  BY DEF IInv, Control
<1> QED
  BY <1>1, Invariance, SpecIsSafe, PTL

(* While the lock is free in the root scan, somebody is still asked for    *)
(* its roots: who decides last finds all of them scanned and goes on.      *)
AskedLeft == stage = "SCAN_ROOTS" /\ fsaLock = Null => \E u \in Threads : request[u]

LEMMA NextAsked == Types /\ Control /\ AskedLeft /\ [Next]_vars => AskedLeft'
<1> SUFFICES ASSUME Types, Control, AskedLeft, [Next]_vars PROVE AskedLeft'
  OBVIOUS
<1> USE HeapAssumption
<1>0. LockAgrees /\ StageAgrees /\ RequestAgrees
  BY DEF Control
<1>a. ASSUME UNCHANGED <<stage, fsaLock, request>> PROVE AskedLeft'
  BY <1>a DEF AskedLeft
<1>b. ASSUME NEW t \in Threads, pc[t] \in Exclusively, fsaLock' = fsaLock PROVE AskedLeft'
  BY <1>0, <1>b DEF AskedLeft, LockAgrees
<1>1. ASSUME NEW t \in Threads, Program(t) PROVE AskedLeft'
  BY <1>a, <1>1 DEF Program, Alloc, Load, Drop, Begin, IoBegin, IoEnd, gcVars, thrVars
<1>2. ASSUME NEW t \in Threads, StoreStep(t) PROVE AskedLeft'
  <2>1. UNCHANGED <<stage, fsaLock, request>>
    BY <1>2 DEF StoreStep, Inline, Once, Before, Overwrite, Flush, Old, Shade, Grey, Expected, Write,
       Publish, Seen, Step, gcVars, thrVars
  <2> QED
    BY <1>a, <2>1
<1>3. ASSUME NEW t \in Threads, Enter(t) PROVE AskedLeft'
  BY <1>3 DEF Enter, AskedLeft
<1>4. ASSUME NEW t \in Threads, OpenBarrier(t) \/ OpenStatics(t) PROVE AskedLeft'
  BY <1>a, <1>4 DEF OpenBarrier, OpenStatics, thrVars
(* The opening asks every thread before it gives the lock back.            *)
<1>5. ASSUME NEW t \in Threads, OpenAsk(t) PROVE AskedLeft'
  <2>1. pc[t] = "ask" /\ fsaLock = t
    BY <1>0, <1>5 DEF OpenAsk, LockAgrees, Exclusively, Opening
  <2>2. CASE todo # {}
    BY <1>b, <1>5, <2>1, <2>2 DEF OpenAsk, Exclusively, Opening
  <2>3. CASE todo = {}
    <3>1. request[t] /\ request' = request
      BY <1>0, <1>5, <2>1, <2>3 DEF OpenAsk, RequestAgrees
    <3> QED
      BY <3>1 DEF AskedLeft
  <2> QED
    BY <2>2, <2>3
<1>6. ASSUME NEW t \in Threads, ScanPick(t) \/ ScanThread(t) \/ ScanResume(t) PROVE AskedLeft'
  BY <1>b, <1>6 DEF ScanPick, ScanThread, ScanResume, gcVars, Exclusively, Scanning
(* Whoever is not scanned is asked.                                        *)
<1>7. ASSUME NEW t \in Threads, ScanDecide(t) PROVE AskedLeft'
  <2>1. stage = "SCAN_ROOTS" /\ request' = request
    BY <1>0, <1>7 DEF ScanDecide, StageAgrees, Scanning, thrVars
  <2>2. stage' = "SCAN_ROOTS" => \E u \in Threads : ~rootsScanned[u]
    BY <1>7 DEF ScanDecide
  <2> QED
    BY <1>0, <2>1, <2>2 DEF RequestAgrees, AskedLeft
<1>8. ASSUME NEW t \in Threads, MarkObject(t) \/ Retire(t) \/ PruneObject(t) \/ PruneEnd(t)
      PROVE  AskedLeft'
  BY <1>a, <1>8 DEF MarkObject, Retire, PruneObject, PruneEnd, gcVars, thrVars, AskedLeft
<1>9. CASE UNCHANGED vars
  BY <1>a, <1>9 DEF vars, gcVars, thrVars
<1> QED
  BY <1>1, <1>2, <1>3, <1>4, <1>5, <1>6, <1>7, <1>8, <1>9 DEF Next, Collect

(* The root scan never waits for nobody.  Either a thread is in it, with   *)
(* the lock, or some thread is still asked for its roots and not held: it  *)
(* answers at its next safe point, or others scan it while it blocks.  And *)
(* a thread that gc_io_end keeps waiting is held by that scanner, which is *)
(* not in a blocking call itself.                                          *)
THEOREM RootScanGoesOn ==
  Spec => []( /\ stage = "SCAN_ROOTS" =>
                   \/ \E t \in Threads : fsaLock = t /\ pc[t] \in Scanning
                   \/ \E u \in Threads : request[u] /\ tstate[u] # "SUSPENDED_SCAN"
              /\ \A u \in Threads : pc[u] = "io" /\ tstate[u] = "SUSPENDED_SCAN" =>
                   \E t \in Threads : /\ fsaLock = t /\ pc[t] \in {"scan", "resume"}
                                      /\ scanning = u )
<1>1. ASSUME Types, Control, AskedLeft
      PROVE  /\ stage = "SCAN_ROOTS" =>
                   \/ \E t \in Threads : fsaLock = t /\ pc[t] \in Scanning
                   \/ \E u \in Threads : request[u] /\ tstate[u] # "SUSPENDED_SCAN"
             /\ \A u \in Threads : pc[u] = "io" /\ tstate[u] = "SUSPENDED_SCAN" =>
                   \E t \in Threads : /\ fsaLock = t /\ pc[t] \in {"scan", "resume"}
                                      /\ scanning = u
  <2> USE HeapAssumption
  <2>0. LockAgrees /\ StageAgrees /\ ScanAgrees /\ ScannedThreadHeld
    BY <1>1 DEF Control
  <2>1. ASSUME NEW u \in Threads, tstate[u] = "SUSPENDED_SCAN"
        PROVE  \E t \in Threads : fsaLock = t /\ pc[t] \in {"scan", "resume"} /\ scanning = u
    <3>1. scanning = u
      BY <2>0, <2>1 DEF ScannedThreadHeld
    <3>2. PICK t \in Threads : pc[t] \in {"scan", "resume"}
      BY <2>0, <3>1 DEF ScanAgrees
    <3> QED
      BY <2>0, <3>1, <3>2 DEF LockAgrees, Exclusively, Scanning
  <2>2. ASSUME stage = "SCAN_ROOTS", fsaLock # Null
        PROVE  \E t \in Threads : fsaLock = t /\ pc[t] \in Scanning
    <3>1. fsaLock \in Threads
      BY <1>1, <2>2 DEF Types
    <3> QED
      BY <2>0, <2>2, <3>1 DEF LockAgrees, StageAgrees, Exclusively
  <2>3. ASSUME stage = "SCAN_ROOTS", fsaLock = Null
        PROVE  \E u \in Threads : request[u] /\ tstate[u] # "SUSPENDED_SCAN"
    BY <1>1, <2>1, <2>3 DEF AskedLeft
  <2> QED
    BY <2>1, <2>2, <2>3
<1>2. Init => AskedLeft
  BY DEF Init, AskedLeft
<1>3. IInv => Types /\ Control
  BY DEF IInv
<1> QED
  BY <1>1, <1>2, <1>3, NextAsked, Invariance, SpecIsSafe, PTL DEF SafeSpec

(* Marking starts from all of the roots: every thread has been scanned in  *)
(* this cycle, none is asked or held any more, no grey slot is left to     *)
(* flush, and the barrier is up for whoever stores meanwhile.              *)
THEOREM MarkingHasEveryRoot ==
  Spec => []( stage = "MARK" =>
                /\ barrier
                /\ fsaLock = Null
                /\ \A u \in Threads : /\ rootsScanned[u] /\ ~request[u] /\ grey[u] = Null
                                      /\ tstate[u] # "SUSPENDED_SCAN" )
<1>1. ASSUME Types, Control, GreyAgrees, stage = "MARK"
      PROVE  /\ barrier
             /\ fsaLock = Null
             /\ \A u \in Threads : /\ rootsScanned[u] /\ ~request[u] /\ grey[u] = Null
                                   /\ tstate[u] # "SUSPENDED_SCAN"
  <2> USE HeapAssumption
  <2>0. /\ LockAgrees /\ StageAgrees /\ RequestAgrees /\ ScanAgrees /\ ScannedThreadHeld
        /\ fsaLock \in Threads \cup {Null}
    BY <1>1 DEF Control, Types
  <2>1. barrier /\ fsaLock = Null
    BY <1>1, <2>0 DEF StageAgrees, LockAgrees, Exclusively
  <2>2. ASSUME NEW u \in Threads PROVE rootsScanned[u] /\ ~request[u] /\ grey[u] = Null
    BY <1>1, <2>0 DEF RequestAgrees, GreyAgrees
  <2>3. \A t \in Threads : pc[t] \notin {"scan", "resume"}
    BY <1>1, <2>0 DEF StageAgrees, Scanning
  <2>4. ASSUME NEW u \in Threads PROVE tstate[u] # "SUSPENDED_SCAN"
    BY <2>0, <2>3 DEF ScanAgrees, ScannedThreadHeld
  <2> QED
    BY <2>1, <2>2, <2>4
<1>2. IInv => Types /\ Control /\ GreyAgrees
  BY DEF IInv, Stores
<1> QED
  BY <1>1, <1>2, Invariance, SpecIsSafe, PTL

LEMMA ReachableLive ==
  ASSUME Types
  PROVE  H!Reachable \subseteq Live
<1>1. Live \in SUBSET Objects /\ LiveIn(Live)
  BY LiveFactsIn
<1>2. H!HeapRoots \subseteq Live
  BY <1>1 DEF H!HeapRoots, LiveIn
<1>3. H!HeapClosed(Live)
  BY <1>1 DEF H!HeapClosed, LiveIn
<1> QED
  BY <1>1, <1>2, <1>3 DEF H!Reachable

(* Nothing the program can reach is ever freed: whatever a root or a chain *)
(* of references leads to is newly allocated or in the pool the collector  *)
(* keeps, at every step of every cycle, whatever the threads store, park,  *)
(* load or allocate meanwhile (object_gc_fsa and the write barrier).       *)
THEOREM NothingReachableFreed ==
  Spec => [](\A o \in H!Reachable : where[o] \in {"new", "pool"})
<1>1. IInv => \A o \in H!Reachable : where[o] \in {"new", "pool"}
  BY ReachableLive DEF IInv, Heap, LivePresent
<1> QED
  BY <1>1, Invariance, SpecIsSafe, PTL

(* While marking runs, what the program can reach on this cycle's pages is *)
(* marked or marked objects lead to it, however the stores of the threads  *)
(* interleaved with the scans of their roots (gc_write_barrier's two       *)
(* halves, black allocation, the publication of shared slots).             *)
THEOREM NoStoreHides == Spec => []NothingHidden
<1>1. IInv => NothingHidden
  <2> SUFFICES ASSUME IInv, stage = "MARK", NEW x \in H!Reachable, where[x] = "pool"
               PROVE  x \in marked \cup GreyReach
    BY DEF NothingHidden
  <2>1. Types /\ Control /\ Stores /\ Marker /\ Heap
    BY DEF IInv
  <2>2. x \in Live /\ x \in Kept \cup Young
    BY <2>1, ReachableLive, MarkStage
  <2>3. x \in Kept
    BY <2>2 DEF Young
  <2> DEFINE C == {o \in Live : where[o] = "pool" => o \in marked \cup GreyReach}
  <2>4. /\ Live \subseteq Objects /\ marked \subseteq Live
        /\ \A o \in Live : mem[o] \in Live \cup {Null}
    BY <2>1, LiveFactsIn DEF LiveIn
  <2>5. marked \ scanned \subseteq GreyReach /\ GreyClosed(GreyReach)
    <3>1. marked \ scanned \subseteq GreyReach
      BY <2>4 DEF GreyReach
    <3>2. ASSUME NEW o \in GreyReach, where[o] = "pool", mem[o] # Null, where[mem[o]] = "pool"
          PROVE  mem[o] \in GreyReach
      <4>1. mem[o] \in Objects
        BY <2>1, <3>2 DEF GreyReach, Types, Slots
      <4> QED
        BY <3>2, <4>1 DEF GreyReach, GreyClosed
    <3> QED
      BY <3>1, <3>2 DEF GreyClosed
  <2>6. \A o \in C \ (Young \cup scanned) : mem[o] \in C \cup {Null}
    <3> SUFFICES ASSUME NEW o \in C \ (Young \cup scanned), mem[o] # Null, where[mem[o]] = "pool"
                 PROVE  mem[o] \in GreyReach
      BY <2>4
    <3>1. where[o] = "pool"
      BY <2>1, <2>4, YoungMark DEF Heap, LivePresent
    <3>2. o \in GreyReach
      BY <2>5, <3>1
    <3> QED
      BY <2>5, <3>1, <3>2 DEF GreyClosed
  <2>7. Kept \subseteq C
    <3>1. C \in SUBSET Objects /\ marked \subseteq C
      BY <2>4
    <3> QED
      BY <2>1, <2>6, <3>1, MarkStage
  <2> QED
    BY <2>3, <2>7
<1> QED
  BY <1>1, Invariance, SpecIsSafe, PTL

(* What a barrier has read from a slot, or remembers the slot of, is not   *)
(* taken back under it, however long the thread is preempted there.        *)
THEOREM BarrierReadsLive == Spec => []HeldNotFreed
<1>1. IInv => HeldNotFreed
  <2> SUFFICES ASSUME IInv PROVE HeldNotFreed
    OBVIOUS
  <2>1. Types /\ \A o \in Live : where[o] \in {"new", "pool"}
    BY DEF IInv, Heap, LivePresent
  <2>2. \A t \in Threads : held[t] \in Live \cup {Null} /\ grey[t] \in Live \cup Statics \cup {Null}
    BY <2>1, LiveFactsIn DEF LiveIn
  <2>3. Null \notin Objects /\ Objects \cap Statics = {}
    BY HeapAssumption DEF Slots
  <2> QED
    BY <2>1, <2>2, <2>3 DEF HeldNotFreed
<1> QED
  BY <1>1, Invariance, SpecIsSafe, PTL

-----------------------------------------------------------------------------
(* The collector is a ManagedHeap: allocation, the load, the store, the    *)
(* drop and the reclaim of an object are its steps, and all else is no     *)
(* step of it; an object is only taken back when nobody can reach it.      *)
LEMMA StepRefines ==
  ASSUME IInv, IInv', [Next]_vars
  PROVE  [H!HNext]_(H!hvars)
<1> USE HeapAssumption
<1> DEFINE Born == {o \in Objects : where[o] # "none"}
           Freed == {o \in Objects : where[o] = "freed"}
<1>0. Types /\ Control /\ Stores /\ Marker /\ Heap
  BY DEF IInv
<1>1. ASSUME UNCHANGED <<mem, locals>>,
             \A o \in Objects : /\ where'[o] = "none" <=> where[o] = "none"
                                /\ where'[o] = "freed" <=> where[o] = "freed"
      PROVE  UNCHANGED H!hvars
  <2>1. Born' = Born /\ Freed' = Freed
    BY <1>1
  <2> QED
    BY <1>1, <2>1 DEF H!hvars
<1>2. ASSUME NEW t \in Threads, Alloc(t) PROVE H!HNext
  <2>1. PICK o \in Objects : /\ where[o] = "none"
                             /\ where' = [where EXCEPT ![o] = "new"]
                             /\ locals' = [locals EXCEPT ![t] = @ \cup {o}]
    BY <1>2 DEF Alloc
  <2>2. UNCHANGED mem
    BY <1>2 DEF Alloc
  <2>3. Born' = Born \cup {o} /\ Freed' = Freed /\ o \in Objects \ Born
    BY <1>0, <2>1 DEF Types
  <2>4. H!HAlloc(t)
    BY <2>1, <2>2, <2>3 DEF H!HAlloc
  <2> QED
    BY <2>4 DEF H!HNext
<1>3. ASSUME NEW t \in Threads, NEW s \in Statics \cup locals[t], mem[s] # Null,
             locals' = [locals EXCEPT ![t] = @ \cup {mem[s]}], UNCHANGED <<mem, where>>
      PROVE  H!HNext
  <2>1. H!HLoad(t)
    BY <1>3 DEF H!HLoad
  <2> QED
    BY <2>1 DEF H!HNext
<1>4. ASSUME NEW t \in Threads, Load(t) PROVE H!HNext
  <2>1. PICK s \in Statics \cup locals[t] : mem[s] # Null /\ locals' = [locals EXCEPT ![t] = @ \cup {mem[s]}]
    BY <1>4 DEF Load, Readable
  <2>2. UNCHANGED <<mem, where>>
    BY <1>4 DEF Load, objVars
  <2> QED
    BY <1>3, <2>1, <2>2
<1>5. ASSUME NEW t \in Threads, Drop(t) PROVE H!HNext
  <2>1. UNCHANGED <<mem, where>>
    BY <1>5 DEF Drop, objVars
  <2>2. H!HDrop(t)
    BY <1>5, <2>1 DEF Drop, H!HDrop
  <2> QED
    BY <2>2 DEF H!HNext
<1>6. ASSUME NEW t \in Threads, Begin(t) PROVE [H!HNext]_(H!hvars)
  <2>1. UNCHANGED <<mem, where>>
    BY <1>6 DEF Begin, objVars
  <2>2. PICK k \in Kinds, s \in Slots :
          /\ k \in {"root", "cas"} => s \in Statics
          /\ locals' = [locals EXCEPT ![t] = @ \cup ({IF k = "cas" THEN mem[s] ELSE Null} \ {Null})]
    BY <1>6 DEF Begin
  <2>3. CASE k = "cas" /\ mem[s] # Null
    <3>1. locals' = [locals EXCEPT ![t] = @ \cup {mem[s]}]
      BY <2>2, <2>3
    <3> QED
      BY <1>3, <2>1, <2>2, <2>3, <3>1
  <2>4. CASE ~(k = "cas" /\ mem[s] # Null)
    <3>1. locals' = locals
      BY <1>0, <2>2, <2>4 DEF Types
    <3> QED
      BY <1>1, <2>1, <3>1
  <2> QED
    BY <2>3, <2>4
<1>7. ASSUME NEW t \in Threads, Write(t) PROVE [H!HNext]_(H!hvars)
  <2>1. UNCHANGED where /\ pc[t] = "write"
    BY <1>7 DEF Write, objVars
  <2>2. op[t].slot \in Statics \cup locals[t] /\ op[t].value \in locals[t] \cup {Null}
        /\ (op[t].kind = "cas" => op[t].slot \in Statics)
    BY <1>0, <2>1 DEF Stores, OpAgrees, Storing
  <2>3. CASE mem' = [mem EXCEPT ![op[t].slot] = op[t].value] /\ UNCHANGED locals
    <3>1. H!HStore(t)
      BY <2>1, <2>2, <2>3 DEF H!HStore
    <3> QED
      BY <3>1 DEF H!HNext
  <2>4. CASE /\ op[t].kind = "cas" /\ UNCHANGED mem
             /\ locals' = [locals EXCEPT ![t] = @ \cup ({mem[op[t].slot]} \ {Null})]
    <3>1. CASE mem[op[t].slot] # Null
      <4>1. locals' = [locals EXCEPT ![t] = @ \cup {mem[op[t].slot]}]
        BY <2>4, <3>1
      <4> QED
        BY <1>3, <2>1, <2>2, <2>4, <3>1, <4>1
    <3>2. CASE mem[op[t].slot] = Null
      <4>1. locals' = locals
        BY <1>0, <2>4, <3>2 DEF Types
      <4> QED
        BY <1>1, <2>1, <2>4, <4>1
    <3> QED
      BY <3>1, <3>2
  <2> QED
    BY <1>7, <2>3, <2>4 DEF Write
<1>8. ASSUME NEW t \in Threads, PruneObject(t) PROVE [H!HNext]_(H!hvars)
  <2>1. UNCHANGED <<mem, locals>> /\ stage = "PRUNE"
    BY <1>8 DEF PruneObject, progVars
  <2>2. PICK o \in toPrune : where' = IF o \in marked THEN where ELSE [where EXCEPT ![o] = "freed"]
    BY <1>8 DEF PruneObject
  <2>3. CASE o \in marked
    BY <1>1, <2>1, <2>2, <2>3
  <2>4. CASE o \notin marked
    <3>1. o \in Objects /\ where[o] = "pool"
      BY <1>0 DEF Types
    <3>2. o \notin H!Reachable
      BY <1>0, <2>1, <2>4, ReachableLive DEF Heap, LivePruned
    <3>3. Freed' = Freed \cup {o} /\ Born' = Born /\ o \in Born \ (H!Reachable \cup Freed)
      BY <1>0, <2>2, <2>4, <3>1, <3>2 DEF Types
    <3>4. H!Reclaim
      BY <2>1, <3>3 DEF H!Reclaim
    <3> QED
      BY <3>4 DEF H!HNext
  <2> QED
    BY <2>3, <2>4
<1>9. ASSUME NEW t \in Threads, ScanThread(t) PROVE UNCHANGED H!hvars
  <2>1. UNCHANGED <<mem, locals>> /\ where' = Taken(scanning)
    BY <1>9 DEF ScanThread, progVars
  <2>2. \A o \in Objects : /\ where'[o] = "none" <=> where[o] = "none"
                           /\ where'[o] = "freed" <=> where[o] = "freed"
    BY <2>1 DEF Taken
  <2> QED
    BY <1>1, <2>1, <2>2
<1>10. ASSUME NEW t \in Threads,
              IoBegin(t) \/ IoEnd(t) \/ Enter(t) \/ (StoreStep(t) /\ ~Write(t))
                \/ (Collect(t) /\ ~PruneObject(t) /\ ~ScanThread(t))
       PROVE  UNCHANGED H!hvars
  <2>1. IoBegin(t) \/ IoEnd(t) \/ Enter(t) => UNCHANGED <<mem, locals, where>>
    BY DEF IoBegin, IoEnd, Enter, heapVars, progVars, objVars
  <2>2. StoreStep(t) /\ ~Write(t) => UNCHANGED <<mem, locals, where>>
    BY DEF StoreStep, Inline, Once, Before, Overwrite, Flush, Old, Shade, Grey, Expected, Publish, Seen,
           Step, heapVars, progVars, objVars
  <2>3. Collect(t) /\ ~PruneObject(t) /\ ~ScanThread(t) => UNCHANGED <<mem, locals, where>>
    BY DEF Collect, OpenBarrier, OpenStatics, OpenAsk, ScanPick, ScanResume, ScanDecide, MarkObject,
           Retire, PruneEnd, heapVars, progVars, objVars
  <2> QED
    BY <1>1, <1>10, <2>1, <2>2, <2>3
<1>11. ASSUME UNCHANGED vars PROVE UNCHANGED H!hvars
  BY <1>11 DEF vars, progVars, objVars, H!hvars
<1>12. ASSUME NEW t \in Threads, Program(t) \/ StoreStep(t) \/ Enter(t) \/ Collect(t)
       PROVE  [H!HNext]_(H!hvars)
  <2>1. Program(t) => [H!HNext]_(H!hvars)
    BY <1>2, <1>4, <1>5, <1>6, <1>10 DEF Program
  <2>2. StoreStep(t) \/ Enter(t) \/ Collect(t) => [H!HNext]_(H!hvars)
    BY <1>7, <1>8, <1>9, <1>10
  <2> QED
    BY <1>12, <2>1, <2>2
<1> QED
  BY <1>11, <1>12 DEF Next

(* The collector is a ManagedHeap to the program: an object that prune      *)
(* takes back is one that no thread and no static slot could reach then;    *)
(* every other step is the program's own or shows nothing of the heap.      *)
THEOREM CollectorImplementsHeap == Spec => ImplementsHeap
<1>1. Init => H!HInit
  <2> SUFFICES ASSUME Init PROVE H!HInit
    OBVIOUS
  <2>1. {o \in Objects : where[o] = "freed"} = {}
    BY DEF Init
  <2> QED
    BY <2>1 DEF H!HInit
<1>2. IInv /\ IInv' /\ [Next]_vars => [H!HNext]_(H!hvars)
  BY StepRefines
<1> QED
  BY <1>1, <1>2, Invariance, SpecIsSafe, PTL DEF SafeSpec, ImplementsHeap, H!HSpec
=============================================================================
