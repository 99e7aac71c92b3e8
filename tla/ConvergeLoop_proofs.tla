------------------------ MODULE ConvergeLoop_proofs ------------------------
(***************************************************************************)
(* Proofs about the loop that types a program: what it says when it stops  *)
(* is true of the passes, and a program whose passes come round again is   *)
(* found out before the passes run out, for every period the limits leave  *)
(* room for.  Nothing is assumed of a pass but that it is a function of    *)
(* the declarations and of the names that are late.                        *)
(***************************************************************************)
EXTENDS ConvergeLoop, WellFoundedInduction, TLAPS

(* The declarations after 0, 1, 2, ... passes, for a program all of whose  *)
(* names can be looked up from the start.                                  *)
IsOrbit(f, x) ==
  /\ f[0] = x
  /\ \A n \in Nat : f[n + 1] = PassOver(f[n], {})
Orbit(x) == CHOOSE f : IsOrbit(f, x)

(* The same, of the first n passes only.                                   *)
Begins(h, n, x) ==
  /\ h[0] = x
  /\ \A i \in 0 .. n - 1 : h[i + 1] = PassOver(h[i], {})

LEMMA LeastNumber ==
  ASSUME NEW S \in SUBSET Nat, S # {}
  PROVE  \E n \in S : \A m \in S : n <= m
<1>1. IsWellFoundedOn({ss \in Nat \X Nat : ss[1] < ss[2]}, Nat)
  BY NatLessThanWellFounded, Zenon DEF OpToRel
<1> DEFINE Less == {ss \in Nat \X Nat : ss[1] < ss[2]}
<1> HIDE DEF Less
<1>2. PICK n \in S : \A m \in S : ~(<<m, n>> \in Less)
  BY <1>1, WFMin DEF Less
<1>3. ASSUME NEW m \in S PROVE n <= m
  <2>1. m < n => <<m, n>> \in Less
    BY DEF Less
  <2> QED
    BY <1>2, <2>1
<1> QED
  BY <1>3

LEMMA BeginningExists ==
  ASSUME NEW x, NEW n \in Nat
  PROVE  \E h : Begins(h, n, x)
<1> DEFINE S == {m \in Nat : ~\E h : Begins(h, m, x)}
<1>1. SUFFICES ASSUME S # {} PROVE FALSE
  OBVIOUS
<1> HIDE DEF S
<1>2. PICK m \in S : \A k \in S : m <= k
  BY <1>1, LeastNumber DEF S
<1>3. m \in Nat /\ ~\E h : Begins(h, m, x)
  BY DEF S
<1>4. CASE m = 0
  <2>1. Begins([i \in {0} |-> x], m, x)
    BY <1>4 DEF Begins
  <2> QED
    BY <1>3, <2>1
<1>5. CASE m # 0
  <2>1. m - 1 \in Nat /\ m - 1 \notin S
    BY <1>2, <1>3, <1>5
  <2>2. PICK h : Begins(h, m - 1, x)
    BY <2>1 DEF S
  <2> DEFINE g == [i \in 0 .. m |-> IF i = m THEN PassOver(h[m - 1], {}) ELSE h[i]]
  <2>3. g[0] = x
    BY <1>3, <1>5, <2>2 DEF Begins
  <2>4. ASSUME NEW i \in 0 .. m - 1 PROVE g[i + 1] = PassOver(g[i], {})
    <3>1. g[i] = h[i]
      BY <1>3
    <3>2. CASE i = m - 1
      BY <1>3, <3>1, <3>2
    <3>3. CASE i # m - 1
      <4>1. i \in 0 .. (m - 1) - 1 /\ g[i + 1] = h[i + 1]
        BY <1>3, <3>3
      <4> QED
        BY <2>2, <3>1, <4>1 DEF Begins
    <3> QED
      BY <3>2, <3>3
  <2> QED
    BY <1>3, <2>3, <2>4 DEF Begins
<1> QED
  BY <1>4, <1>5

LEMMA BeginningsAgree ==
  ASSUME NEW x, NEW h, NEW g, NEW n \in Nat, Begins(h, n, x), Begins(g, n + 1, x)
  PROVE  h[n] = g[n]
<1> DEFINE S == {m \in Nat : m <= n /\ h[m] # g[m]}
<1>1. SUFFICES ASSUME S # {} PROVE FALSE
  OBVIOUS
<1> HIDE DEF S
<1>2. PICK m \in S : \A k \in S : m <= k
  BY <1>1, LeastNumber DEF S
<1>3. m \in Nat /\ m <= n /\ h[m] # g[m]
  BY DEF S
<1>4. m # 0
  BY <1>3 DEF Begins
<1>5. m - 1 \in Nat /\ m - 1 \notin S
  BY <1>2, <1>3, <1>4
<1>6. h[m - 1] = g[m - 1]
  BY <1>3, <1>5 DEF S
<1>7. m - 1 \in 0 .. n - 1 /\ m - 1 \in 0 .. (n + 1) - 1 /\ (m - 1) + 1 = m
  BY <1>3, <1>5
<1>8. h[m] = PassOver(h[m - 1], {}) /\ g[m] = PassOver(g[m - 1], {})
  BY <1>7 DEF Begins
<1> QED
  BY <1>3, <1>6, <1>8

LEMMA OrbitExists ==
  ASSUME NEW x
  PROVE  IsOrbit(Orbit(x), x)
<1> DEFINE B(n) == CHOOSE h : Begins(h, n, x)
           f == [n \in Nat |-> B(n)[n]]
<1>1. ASSUME NEW n \in Nat PROVE Begins(B(n), n, x)
  BY BeginningExists
<1> HIDE DEF B
<1>2. f[0] = x
  BY <1>1 DEF Begins
<1>3. ASSUME NEW n \in Nat PROVE f[n + 1] = PassOver(f[n], {})
  <2>1. n + 1 \in Nat /\ n \in 0 .. (n + 1) - 1
    OBVIOUS
  <2>2. B(n)[n] = B(n + 1)[n]
    BY <1>1, <2>1, BeginningsAgree
  <2>3. B(n + 1)[n + 1] = PassOver(B(n + 1)[n], {})
    BY <1>1, <2>1 DEF Begins
  <2> QED
    BY <2>1, <2>2, <2>3
<1>4. IsOrbit(f, x)
  BY <1>2, <1>3 DEF IsOrbit
<1> QED
  BY <1>4 DEF Orbit

-----------------------------------------------------------------------------
(* What the loop says is true.                                             *)

(* k passes, each of which changes something, lead from one to another.    *)
Path(h, k, from, to, names) ==
  /\ h[0] = from /\ h[k] = to
  /\ \A i \in 0 .. k - 1 : h[i + 1] = PassOver(h[i], names) /\ h[i + 1] # h[i]
PathExists(k, from, to, names) == \E h : Path(h, k, from, to, names)

(* The declarations come back to themselves, through others.               *)
GoesRound == \E k \in Nat \ {0, 1} : PathExists(k, decls, decls, late)

LEMMA PathNone ==
  ASSUME NEW x, NEW names
  PROVE  PathExists(0, x, x, names)
<1>1. Path([i \in {0} |-> x], 0, x, x, names)
  BY DEF Path
<1> QED
  BY <1>1 DEF PathExists

LEMMA PathExtends ==
  ASSUME NEW k \in Nat, NEW x, NEW y, NEW names, PathExists(k, x, y, names),
         PassOver(y, names) # y
  PROVE  PathExists(k + 1, x, PassOver(y, names), names)
<1>1. PICK h : Path(h, k, x, y, names)
  BY DEF PathExists
<1> DEFINE g == [i \in 0 .. k + 1 |-> IF i = k + 1 THEN PassOver(y, names) ELSE h[i]]
<1>2. g[0] = x /\ g[k] = y /\ g[k + 1] = PassOver(y, names)
  BY <1>1 DEF Path
<1>3. ASSUME NEW i \in 0 .. (k + 1) - 1
      PROVE g[i + 1] = PassOver(g[i], names) /\ g[i + 1] # g[i]
  <2>1. CASE i = k
    BY <1>2, <2>1
  <2>2. CASE i # k
    <3>1. i \in 0 .. k - 1 /\ g[i] = h[i] /\ g[i + 1] = h[i + 1]
      BY <2>2
    <3> QED
      BY <1>1, <3>1 DEF Path
  <2> QED
    BY <2>1, <2>2
<1>4. Path(g, k + 1, x, PassOver(y, names), names)
  BY <1>2, <1>3 DEF Path
<1> QED
  BY <1>4 DEF PathExists

Outcomes == {"running", "settled", "cycles", "exhausted"}
Counts ==
  /\ passes \in Nat /\ window \in Nat \ {0} /\ distance \in Nat
  /\ distance < window
  /\ outcome \in Outcomes
(* The tortoise: how many passes it is behind, and what lies between.      *)
Trails ==
  /\ snapshot = <<snapshot[1], snapshot[2]>>
  /\ late \subseteq snapshot[2]
  /\ snapshot[2] = late => PathExists(distance, snapshot[1], decls, late)
Said ==
  /\ outcome = "settled" => PassOver(decls, late) = decls
  /\ outcome = "cycles" => GoesRound
IInv == Counts /\ (outcome = "running" => Trails) /\ Said

(* A pass, with the statements it leads to.                                *)
LEMMA PassFacts ==
  ASSUME NEW ready \in SUBSET late, Pass(ready)
  PROVE  /\ outcome = "running"
         /\ decls' = PassOver(decls, late') /\ late' = late \ ready
         /\ passes' = passes + 1 /\ program' = program
         /\ \/ Settle(Statements')
            \/ /\ Statements' # Statements
               /\ Trail(Statements') \/ Repeat(Statements') \/ Watch(Statements')
<1>1. /\ outcome = "running" /\ passes' = passes + 1 /\ program' = program
      /\ late' = late \ ready /\ decls' = PassOver(decls, late \ ready)
  BY DEF Pass
<1>2. Statements' = <<PassOver(decls, late \ ready), late \ ready>>
  BY <1>1 DEF Statements
<1>3. PICK next \in {PassOver(decls, late \ ready)} :
        \/ Settle(<<next, late \ ready>>)
        \/ /\ <<next, late \ ready>> # Statements
           /\ \/ Trail(<<next, late \ ready>>)
              \/ Repeat(<<next, late \ ready>>)
              \/ Watch(<<next, late \ ready>>)
  BY DEF Pass
<1>4. <<next, late \ ready>> = Statements'
  BY <1>2, <1>3
<1>5. \/ Settle(Statements')
      \/ /\ Statements' # Statements
         /\ Trail(Statements') \/ Repeat(Statements') \/ Watch(Statements')
  BY <1>3, <1>4
<1> QED
  BY <1>1, <1>5

LEMMA InitTrue == Init => IInv
<1> SUFFICES ASSUME Init PROVE IInv
  OBVIOUS
<1>1. Counts /\ Said
  BY DEF Init, Counts, Said, Outcomes
<1>2. Trails
  BY PathNone DEF Init, Trails, Statements
<1> QED
  BY <1>1, <1>2 DEF IInv

LEMMA NextTrue == IInv /\ [Next]_vars => IInv'
<1> SUFFICES ASSUME IInv, [Next]_vars PROVE IInv'
  OBVIOUS
<1>1. CASE UNCHANGED vars
  BY <1>1 DEF vars, IInv, Counts, Trails, Said, GoesRound
<1>2. CASE Next
  <2>1. PICK ready \in SUBSET late : Pass(ready)
    BY <1>2 DEF Next
  <2>2. /\ outcome = "running"
        /\ decls' = PassOver(decls, late') /\ late' = late \ ready
        /\ passes' = passes + 1
        /\ \/ Settle(Statements')
           \/ /\ Statements' # Statements
              /\ Trail(Statements') \/ Repeat(Statements') \/ Watch(Statements')
    BY <2>1, PassFacts
  <2>3. Counts /\ Trails
    BY <2>2 DEF IInv
  <2>4. Statements = <<decls, late>> /\ Statements' = <<decls', late'>>
    BY DEF Statements
  <2>5. CASE Settle(Statements')
    <3>1. decls' = decls /\ late' = late /\ outcome' = "settled" /\ window' = window /\ distance' = distance
      BY <2>4, <2>5 DEF Settle
    <3>2. PassOver(decls', late') = decls' /\ passes' = passes + 1
      BY <2>2, <3>1
    <3>3. Counts'
      BY <2>3, <3>1, <3>2 DEF Counts, Outcomes
    <3>4. Said'
      BY <3>1, <3>2 DEF Said
    <3> QED
      BY <3>1, <3>3, <3>4 DEF IInv
  <2>6. CASE Trail(Statements')
    <3>1. Counts' /\ Said'
      BY <2>2, <2>3, <2>6 DEF Counts, Said, Outcomes, Trail
    <3>2. snapshot' = <<decls', late'>> /\ distance' = 0
      BY <2>4, <2>6 DEF Trail
    <3>3. Trails'
      BY <3>2, PathNone DEF Trails
    <3> QED
      BY <3>1, <3>3 DEF IInv
  <2>7. CASE Statements' # Statements /\ Repeat(Statements')
    <3>1. /\ snapshot = <<decls', late'>> /\ outcome' = "cycles"
          /\ window' = window /\ distance' = distance
      BY <2>4, <2>7 DEF Repeat
    <3>2. late' = late /\ snapshot[1] = decls' /\ snapshot[2] = late
      BY <2>2, <2>3, <3>1 DEF Trails
    <3>3. decls' # decls
      BY <2>4, <2>7, <3>2
    <3>4. PathExists(distance, decls', decls, late)
      BY <2>3, <3>2 DEF Trails
    <3>5. distance \in Nat
      BY <2>3 DEF Counts
    <3>6. PathExists(distance + 1, decls', decls', late)
      BY <2>2, <3>2, <3>3, <3>4, <3>5, PathExtends
    <3>7. distance # 0
      BY <3>3, <3>4 DEF PathExists, Path
    <3>8. GoesRound'
      BY <3>2, <3>5, <3>6, <3>7 DEF GoesRound
    <3>9. Counts' /\ Said'
      BY <2>2, <2>3, <3>1, <3>8 DEF Counts, Said, Outcomes
    <3> QED
      BY <3>1, <3>9 DEF IInv
  <2>8. CASE Statements' # Statements /\ Watch(Statements')
    <3>1. Counts' /\ Said'
      BY <2>2, <2>3, <2>8 DEF Counts, Said, Outcomes, Watch
    <3>2. CASE distance + 1 = window
      <4>1. snapshot' = <<decls', late'>> /\ distance' = 0
        BY <2>4, <2>8, <3>2 DEF Watch
      <4>2. Trails'
        BY <4>1, PathNone DEF Trails
      <4> QED
        BY <3>1, <4>2 DEF IInv
    <3>3. CASE distance + 1 # window
      <4>1. snapshot' = snapshot /\ distance' = distance + 1
        BY <2>8, <3>3 DEF Watch
      <4>2. late' \subseteq snapshot'[2]
        BY <2>2, <2>3, <4>1 DEF Trails
      <4>3. ASSUME snapshot'[2] = late'
            PROVE  PathExists(distance', snapshot'[1], decls', late')
        <5>1. late' = late /\ snapshot[2] = late
          BY <2>2, <2>3, <4>1, <4>3 DEF Trails
        <5>2. decls' # decls
          BY <2>4, <2>8, <5>1
        <5>3. PathExists(distance, snapshot[1], decls, late) /\ distance \in Nat
          BY <2>3, <5>1 DEF Trails, Counts
        <5> QED
          BY <2>2, <4>1, <5>1, <5>2, <5>3, PathExtends
      <4>4. Trails'
        BY <2>3, <4>1, <4>2, <4>3 DEF Trails
      <4> QED
        BY <3>1, <4>4 DEF IInv
    <3> QED
      BY <3>2, <3>3
  <2> QED
    BY <2>2, <2>5, <2>6, <2>7, <2>8
<1> QED
  BY <1>1, <1>2 DEF Next

LEMMA Invariance == Spec => []IInv
<1>1. Init => IInv
  BY InitTrue
<1>2. IInv /\ [Next]_vars => IInv'
  BY NextTrue
<1> QED
  BY <1>1, <1>2, PTL DEF Spec

(* __converge reports what is so: declarations it returns are a fixpoint   *)
(* of the pass, and when it says that the loop cycles, two passes or more  *)
(* lead from the declarations back to them, each of which changes          *)
(* something: no number of passes more, with the same names late, settles. *)
THEOREM OutcomesTrue ==
  Spec => []( /\ outcome = "settled" => PassOver(decls, late) = decls
              /\ outcome = "cycles" => GoesRound )
<1>1. IInv => /\ outcome = "settled" => PassOver(decls, late) = decls
              /\ outcome = "cycles" => GoesRound
  BY DEF IInv, Said
<1> QED
  BY <1>1, Invariance, PTL

-----------------------------------------------------------------------------
(* What the loop finds.  Before the watch begins the tortoise is where the *)
(* hare is; from then on it is as far as the windows so far have taken it. *)
OnOrbit ==
  /\ late = {}
  /\ decls = Orbit(program.decls)[passes]
  /\ snapshot = <<Orbit(program.decls)[passes - distance], {}>>
  /\ passes < WatchFrom - 1 => window = 1 /\ distance = 0
  /\ passes >= WatchFrom - 1 => passes - distance = WatchFrom - 2 + window
OInv ==
  /\ Counts
  /\ outcome = "running" /\ program.late = {} => OnOrbit

LEMMA InitOrbit == PassLimits /\ Init => OInv
<1> SUFFICES ASSUME PassLimits, Init PROVE OInv
  OBVIOUS
<1>1. Counts
  BY DEF Init, Counts, Outcomes
<1>2. ASSUME program.late = {} PROVE OnOrbit
  <2>1. Orbit(program.decls)[0] = program.decls
    BY OrbitExists DEF IsOrbit
  <2>2. passes = 0 /\ distance = 0 /\ window = 1 /\ WatchFrom \in Nat \ {0}
    BY DEF Init, PassLimits
  <2>3. late = {} /\ decls = program.decls /\ snapshot = <<decls, late>>
    BY <1>2 DEF Init, Statements
  <2> QED
    BY <2>1, <2>2, <2>3 DEF OnOrbit
<1> QED
  BY <1>1, <1>2 DEF OInv

(* One pass, along the orbit.                                              *)
LEMMA OrbitPass ==
  ASSUME PassLimits, OInv, NEW ready \in SUBSET late, Pass(ready), program.late = {}
  PROVE  /\ outcome = "running" /\ OnOrbit
         /\ passes - distance \in Nat /\ passes - distance <= passes
         /\ program' = program /\ passes' = passes + 1 /\ late' = {}
         /\ decls' = Orbit(program.decls)[passes + 1]
         /\ \/ Settle(Statements')
            \/ /\ Statements' # Statements
               /\ Trail(Statements') \/ Repeat(Statements') \/ Watch(Statements')
<1>1. /\ outcome = "running" /\ program' = program /\ passes' = passes + 1
      /\ late' = late \ ready /\ decls' = PassOver(decls, late')
  BY PassFacts
<1>2. OnOrbit /\ Counts
  BY <1>1 DEF OInv
<1>3. late' = {}
  BY <1>1, <1>2 DEF OnOrbit
<1>4. Orbit(program.decls)[passes + 1] = PassOver(Orbit(program.decls)[passes], {})
  BY <1>2, OrbitExists DEF IsOrbit, Counts
<1>5. decls' = Orbit(program.decls)[passes + 1]
  BY <1>1, <1>2, <1>3, <1>4 DEF OnOrbit
<1>6. passes - distance \in Nat /\ passes - distance <= passes
  BY <1>2 DEF OnOrbit, Counts, PassLimits
<1>7. \/ Settle(Statements')
      \/ /\ Statements' # Statements
         /\ Trail(Statements') \/ Repeat(Statements') \/ Watch(Statements')
  BY PassFacts
<1> QED
  BY <1>1, <1>2, <1>3, <1>5, <1>6, <1>7

LEMMA NextOrbit == PassLimits /\ OInv /\ [Next]_vars => OInv'
<1> SUFFICES ASSUME PassLimits, OInv, [Next]_vars PROVE OInv'
  OBVIOUS
<1>1. CASE UNCHANGED vars
  BY <1>1 DEF vars, OInv, Counts, OnOrbit
<1>2. CASE Next
  <2>1. PICK ready \in SUBSET late : Pass(ready)
    BY <1>2 DEF Next
  <2>2. /\ outcome = "running" /\ passes' = passes + 1 /\ program' = program
        /\ \/ Settle(Statements')
           \/ /\ Statements' # Statements
              /\ Trail(Statements') \/ Repeat(Statements') \/ Watch(Statements')
    BY <2>1, PassFacts
  <2>3. Counts
    BY DEF OInv
  <2>4. Counts'
    <3>1. CASE Settle(Statements')
      BY <2>2, <2>3, <3>1 DEF Settle, Counts, Outcomes
    <3>2. CASE Trail(Statements')
      BY <2>2, <2>3, <3>2 DEF Trail, Counts, Outcomes
    <3>3. CASE Repeat(Statements')
      BY <2>2, <2>3, <3>3 DEF Repeat, Counts, Outcomes
    <3>4. CASE Watch(Statements')
      BY <2>2, <2>3, <3>4 DEF Watch, Counts, Outcomes
    <3> QED
      BY <2>2, <3>1, <3>2, <3>3, <3>4
  <2>5. ASSUME outcome' = "running", program'.late = {} PROVE OnOrbit'
    <3>1. program.late = {}
      BY <2>2, <2>5
    <3>2. /\ OnOrbit /\ late' = {} /\ passes - distance \in Nat
          /\ decls' = Orbit(program.decls)[passes + 1]
      BY <2>1, <3>1, OrbitPass
    <3>3. Statements' = <<decls', late'>>
      BY DEF Statements
    <3> DEFINE f == Orbit(program.decls)
    <3>4. f = Orbit(program'.decls)
      BY <2>2
    <3> HIDE DEF f
    <3>5. ~Settle(Statements') /\ ~Repeat(Statements')
      BY <2>5 DEF Settle, Repeat
    <3>6. SUFFICES
            /\ snapshot' = <<f[passes' - distance'], {}>>
            /\ passes' < WatchFrom - 1 => window' = 1 /\ distance' = 0
            /\ passes' >= WatchFrom - 1 => passes' - distance' = WatchFrom - 2 + window'
      BY <2>2, <3>2, <3>4 DEF OnOrbit, f
    <3>7. CASE Trail(Statements')
      <4>1. /\ passes + 1 < WatchFrom /\ snapshot' = <<decls', {}>>
            /\ window' = 1 /\ distance' = 0
        BY <3>2, <3>3, <3>7 DEF Trail
      <4>2. passes' - distance' = passes + 1
        BY <2>2, <2>3, <4>1 DEF Counts
      <4> QED
        BY <2>2, <2>3, <3>2, <4>1, <4>2 DEF Counts, PassLimits, f
    <3>8. CASE Watch(Statements') /\ distance + 1 = window
      <4>1. /\ passes + 1 >= WatchFrom /\ snapshot' = <<decls', {}>>
            /\ window' = 2 * window /\ distance' = 0
        BY <3>2, <3>3, <3>8 DEF Watch
      <4>2. passes' - distance' = passes + 1
        BY <2>2, <2>3, <4>1 DEF Counts
      <4>3. passes - distance = WatchFrom - 2 + window
        BY <2>3, <3>2, <4>1 DEF OnOrbit, Counts, PassLimits
      <4>4. passes + 1 = WatchFrom - 2 + 2 * window
        BY <2>3, <3>8, <4>3 DEF Counts, PassLimits
      <4> QED
        BY <2>2, <2>3, <3>2, <4>1, <4>2, <4>4 DEF Counts, PassLimits, f
    <3>9. CASE Watch(Statements') /\ distance + 1 # window
      <4>1. /\ passes + 1 >= WatchFrom /\ snapshot' = snapshot
            /\ window' = window /\ distance' = distance + 1
        BY <3>9 DEF Watch
      <4>2. passes' - distance' = passes - distance
        BY <2>2, <2>3, <4>1 DEF Counts
      <4>3. passes - distance = WatchFrom - 2 + window
        BY <2>3, <3>2, <4>1 DEF OnOrbit, Counts, PassLimits
      <4>4. snapshot = <<f[passes - distance], {}>>
        BY <3>2 DEF OnOrbit, f
      <4> QED
        BY <2>2, <2>3, <4>1, <4>2, <4>3, <4>4 DEF Counts, PassLimits
    <3> QED
      BY <2>2, <3>5, <3>7, <3>8, <3>9
  <2> QED
    BY <2>4, <2>5 DEF OInv
<1> QED
  BY <1>1, <1>2

(* The declarations after `from` passes come again every `period`, and b   *)
(* is a window that is long enough, with passes left to use it.            *)
Periodic(x, from, period) ==
  \A n \in Nat : n >= from => Orbit(x)[n + period] = Orbit(x)[n]
Room(from, period, b) ==
  /\ period <= b /\ from + 2 <= WatchFrom + b
  /\ WatchFrom + 2 * b + period <= MaxPasses + 3
ComesRound(x) == \E from \in Nat, period \in Nat \ {0}, b \in Nat :
  Periodic(x, from, period) /\ Room(from, period, b)

(* A window that is long enough, opened late enough, is the last: the hare *)
(* meets the tortoise in it.                                               *)
Catches ==
  \A from \in Nat, period \in Nat \ {0}, b \in Nat :
    Periodic(program.decls, from, period) /\ Room(from, period, b) =>
      /\ passes - distance >= from /\ window >= period => distance < period
      /\ window < 2 * b
PInv ==
  program.late = {} =>
    /\ outcome = "running" => Catches
    /\ ComesRound(program.decls) => outcome # "exhausted"

LEMMA InitPeriod == PassLimits /\ Init => PInv
<1> SUFFICES ASSUME PassLimits, Init PROVE PInv
  OBVIOUS
<1>1. passes = 0 /\ distance = 0 /\ window = 1 /\ outcome = "running"
  BY DEF Init
<1>2. Catches
  BY <1>1 DEF Catches, Room
<1> QED
  BY <1>1, <1>2 DEF PInv

(* A pass in which the hare walks on has not met the tortoise.             *)
LEMMA WatchMisses ==
  ASSUME PassLimits, OInv, PInv, NEW ready \in SUBSET late, Pass(ready), program.late = {},
         Watch(Statements'),
         NEW from \in Nat, NEW period \in Nat \ {0}, NEW b \in Nat,
         Periodic(program.decls, from, period), Room(from, period, b)
  PROVE  /\ passes - distance = WatchFrom - 2 + window
         /\ window < 2 * b
         /\ passes - distance >= from /\ window >= period => distance + 1 < period
         /\ window >= b => distance + 1 < period
<1>1. /\ outcome = "running" /\ OnOrbit /\ passes - distance \in Nat /\ late' = {}
      /\ decls' = Orbit(program.decls)[passes + 1]
  BY OrbitPass
<1>2. Counts /\ Catches
  BY <1>1 DEF OInv, PInv
<1>3. passes - distance = WatchFrom - 2 + window
  BY <1>1, <1>2 DEF OnOrbit, Watch, Counts, PassLimits
<1>4. window < 2 * b /\ (passes - distance >= from /\ window >= period => distance < period)
  BY <1>2 DEF Catches
<1>5. Orbit(program.decls)[passes + 1] # Orbit(program.decls)[passes - distance]
  <2>1. Statements' = <<decls', {}>>
    BY <1>1 DEF Statements
  <2> QED
    BY <1>1, <2>1 DEF Watch, OnOrbit
<1>6. ASSUME passes - distance >= from, window >= period PROVE distance + 1 < period
  <2>1. Orbit(program.decls)[(passes - distance) + period] = Orbit(program.decls)[passes - distance]
    BY <1>1, <1>6 DEF Periodic
  <2>2. distance + 1 = period => (passes - distance) + period = passes + 1
    BY <1>2 DEF Counts
  <2>3. distance + 1 # period
    BY <1>5, <2>1, <2>2
  <2> QED
    BY <1>2, <1>4, <1>6, <2>3 DEF Counts
<1>7. ASSUME window >= b PROVE window >= period /\ passes - distance >= from
  BY <1>2, <1>3, <1>7 DEF Room, Counts, PassLimits
<1> QED
  BY <1>3, <1>4, <1>6, <1>7

LEMMA NextPeriod == PassLimits /\ OInv /\ PInv /\ [Next]_vars => PInv'
<1> SUFFICES ASSUME PassLimits, OInv, PInv, [Next]_vars, (program.late = {})'
             PROVE  /\ (outcome = "running")' => Catches'
                    /\ ComesRound(program.decls)' => (outcome # "exhausted")'
  BY DEF PInv
<1>1. CASE UNCHANGED vars
  BY <1>1 DEF vars, PInv, Catches
<1>2. CASE Next
  <2>1. PICK ready \in SUBSET late : Pass(ready)
    BY <1>2 DEF Next
  <2>2. program' = program /\ program.late = {}
    BY <2>1, PassFacts
  <2>3. /\ outcome = "running" /\ passes' = passes + 1
        /\ \/ Settle(Statements')
           \/ /\ Statements' # Statements
              /\ Trail(Statements') \/ Repeat(Statements') \/ Watch(Statements')
    BY <2>1, <2>2, OrbitPass
  <2>4. Counts
    BY DEF OInv
  <2>5. CASE Settle(Statements') \/ Repeat(Statements')
    BY <2>5 DEF Settle, Repeat
  <2>6. CASE Trail(Statements')
    <3>1. outcome' = "running" /\ distance' = 0 /\ window' = 1
      BY <2>6 DEF Trail
    <3>2. Catches'
      BY <3>1 DEF Catches, Room
    <3> QED
      BY <3>1, <3>2
  <2>7. CASE Watch(Statements')
    <3>1. /\ passes + 1 = MaxPasses => outcome' = "exhausted"
          /\ passes + 1 # MaxPasses => outcome' = "running"
      BY <2>7 DEF Watch
    <3>2. ASSUME NEW from \in Nat, NEW period \in Nat \ {0}, NEW b \in Nat,
                 Periodic(program.decls, from, period), Room(from, period, b)
          PROVE  /\ passes' - distance' >= from /\ window' >= period => distance' < period
                 /\ window' < 2 * b
                 /\ passes + 1 # MaxPasses
      <4>1. /\ passes - distance = WatchFrom - 2 + window
            /\ window < 2 * b
            /\ passes - distance >= from /\ window >= period => distance + 1 < period
            /\ window >= b => distance + 1 < period
        BY <2>1, <2>2, <2>7, <3>2, WatchMisses
      <4>2. passes + 1 # MaxPasses
        <5>1. CASE window >= b
          BY <2>4, <4>1, <5>1, <3>2 DEF Counts, Room, PassLimits
        <5>2. CASE window < b
          BY <2>4, <4>1, <5>2, <3>2 DEF Counts, Room, PassLimits
        <5> QED
          BY <2>4, <5>1, <5>2 DEF Counts
      <4>3. CASE distance + 1 = window
        <5>1. window' = 2 * window /\ distance' = 0
          BY <2>7, <4>3 DEF Watch
        <5>2. window < b
          BY <2>4, <3>2, <4>1, <4>3 DEF Counts, Room
        <5> QED
          BY <2>4, <4>2, <5>1, <5>2 DEF Counts
      <4>4. CASE distance + 1 # window
        <5>1. window' = window /\ distance' = distance + 1
          BY <2>7, <4>4 DEF Watch
        <5>2. passes' - distance' = passes - distance
          BY <2>3, <2>4, <5>1 DEF Counts
        <5> QED
          BY <4>1, <4>2, <5>1, <5>2
      <4> QED
        BY <4>3, <4>4
    <3>3. Catches'
      BY <2>2, <3>2 DEF Catches, Room
    <3>4. ComesRound(program.decls) => passes + 1 # MaxPasses
      BY <3>2 DEF ComesRound
    <3> QED
      BY <2>2, <3>1, <3>3, <3>4
  <2> QED
    BY <2>3, <2>5, <2>6, <2>7
<1> QED
  BY <1>1, <1>2

(* Brent's algorithm as __converge runs it: a program whose declarations   *)
(* come round again is not reported as one that failed to converge.  From  *)
(* pass 20 to pass 100 that holds of every period up to 27 that has begun  *)
(* by pass 45 (b = 27).                                                    *)
THEOREM PeriodFound ==
  ASSUME PassLimits
  PROVE  Spec => [](program.late = {} /\ ComesRound(program.decls) => outcome # "exhausted")
<1>1. Init => OInv /\ PInv
  BY InitOrbit, InitPeriod
<1>2. OInv /\ PInv /\ [Next]_vars => (OInv /\ PInv)'
  BY NextOrbit, NextPeriod
<1>3. OInv /\ PInv => (program.late = {} /\ ComesRound(program.decls) => outcome # "exhausted")
  BY DEF PInv
<1> QED
  BY <1>1, <1>2, <1>3, PTL DEF Spec

-----------------------------------------------------------------------------
(* Declarations that come again while the watch runs never settle: passes  *)
(* that settle once have settled for good, all round the circle.           *)
LEMMA NoSettlingInACircle ==
  ASSUME NEW x, NEW m \in Nat, NEW from \in Nat, NEW period \in Nat \ {0},
         Orbit(x)[m + 1] = Orbit(x)[m],
         Orbit(x)[from + period] = Orbit(x)[from]
  PROVE  \A n \in Nat : n >= from => Orbit(x)[n] = Orbit(x)[m]
<1> DEFINE f == Orbit(x)
<1>1. \A n \in Nat : f[n + 1] = PassOver(f[n], {})
  BY OrbitExists DEF IsOrbit
<1>2. f[m + 1] = f[m] /\ f[from + period] = f[from]
  OBVIOUS
<1> HIDE DEF f
<1>3. ASSUME NEW n \in Nat, n >= m PROVE f[n] = f[m]
  <2> DEFINE S == {k \in Nat : k >= m /\ f[k] # f[m]}
  <2>1. SUFFICES ASSUME S # {} PROVE FALSE
    BY <1>3
  <2> HIDE DEF S
  <2>2. PICK k \in S : \A j \in S : k <= j
    BY <2>1, LeastNumber DEF S
  <2>3. k \in Nat /\ k >= m /\ f[k] # f[m]
    BY DEF S
  <2>4. k # m /\ k - 1 \in Nat /\ k - 1 >= m /\ k - 1 \notin S
    BY <2>2, <2>3
  <2>5. f[k - 1] = f[m]
    BY <2>4 DEF S
  <2>6. f[(k - 1) + 1] = PassOver(f[k - 1], {}) /\ f[m + 1] = PassOver(f[m], {})
    BY <1>1, <2>4
  <2>7. (k - 1) + 1 = k
    BY <2>3
  <2> QED
    BY <1>2, <2>3, <2>5, <2>6, <2>7
<1>4. ASSUME NEW n \in Nat, n >= from PROVE f[n + period] = f[n]
  <2> DEFINE S == {k \in Nat : k >= from /\ f[k + period] # f[k]}
  <2>1. SUFFICES ASSUME S # {} PROVE FALSE
    BY <1>4
  <2> HIDE DEF S
  <2>2. PICK k \in S : \A j \in S : k <= j
    BY <2>1, LeastNumber DEF S
  <2>3. k \in Nat /\ k >= from /\ f[k + period] # f[k]
    BY DEF S
  <2>4. k # from /\ k - 1 \in Nat /\ k - 1 >= from /\ k - 1 \notin S
    BY <1>2, <2>2, <2>3
  <2>5. f[(k - 1) + period] = f[k - 1] /\ (k - 1) + period \in Nat
    BY <2>4 DEF S
  <2>6. /\ f[(k - 1) + 1] = PassOver(f[k - 1], {})
        /\ f[((k - 1) + period) + 1] = PassOver(f[(k - 1) + period], {})
    BY <1>1, <2>4, <2>5
  <2>7. (k - 1) + 1 = k /\ ((k - 1) + period) + 1 = k + period
    BY <2>3
  <2> QED
    BY <2>3, <2>5, <2>6, <2>7
(* Downwards from m, in steps of a period.                                 *)
<1>5. ASSUME NEW n \in Nat, n >= from PROVE f[n] = f[m]
  <2> DEFINE S == {d \in Nat : m - d \in Nat /\ m - d >= from /\ f[m - d] # f[m]}
  <2>1. CASE n >= m
    BY <1>3, <2>1
  <2>2. CASE n < m
    <3>1. SUFFICES ASSUME S # {} PROVE FALSE
      <4>1. m - n \in Nat /\ m - (m - n) = n
        BY <2>2
      <4> QED
        BY <1>5, <4>1
    <3> HIDE DEF S
    <3>2. PICK d \in S : \A j \in S : d <= j
      BY <3>1, LeastNumber DEF S
    <3>3. d \in Nat /\ m - d \in Nat /\ m - d >= from /\ f[m - d] # f[m]
      BY DEF S
    <3>4. f[(m - d) + period] = f[m - d]
      BY <1>4, <3>3
    <3>5. (m - d) + period < m
      BY <1>3, <3>3, <3>4
    <3>6. /\ d - period \in Nat /\ m - (d - period) = (m - d) + period
          /\ d - period < d
      BY <3>3, <3>5
    <3>7. d - period \notin S
      BY <3>2, <3>3, <3>6
    <3> QED
      BY <3>3, <3>4, <3>6, <3>7 DEF S
  <2> QED
    BY <2>1, <2>2
<1> QED
  BY <1>5 DEF f

(* A pass within the limit changes nothing: then no earlier pass was the   *)
(* last, and none repeats an older one.                                    *)
Settles(x) == \E m \in Nat : m < MaxPasses /\ Orbit(x)[m + 1] = Orbit(x)[m]
SInv ==
  program.late = {} =>
    \A m \in Nat : m < MaxPasses /\ Orbit(program.decls)[m + 1] = Orbit(program.decls)[m] =>
      /\ outcome = "running" => passes <= m
      /\ outcome \in {"running", "settled"}

LEMMA NextSettles == PassLimits /\ OInv /\ SInv /\ [Next]_vars => SInv'
<1> SUFFICES ASSUME PassLimits, OInv, SInv, [Next]_vars, program'.late = {},
                    NEW m \in Nat, m < MaxPasses,
                    Orbit(program'.decls)[m + 1] = Orbit(program'.decls)[m]
             PROVE  /\ outcome' = "running" => passes' <= m
                    /\ outcome' \in {"running", "settled"}
  BY DEF SInv
<1>1. CASE UNCHANGED vars
  BY <1>1 DEF vars, SInv
<1>2. CASE Next
  <2>1. PICK ready \in SUBSET late : Pass(ready)
    BY <1>2 DEF Next
  <2>2. program' = program /\ program.late = {}
    BY <2>1, PassFacts
  <2> DEFINE f == Orbit(program.decls)
  <2>3. /\ outcome = "running" /\ OnOrbit /\ passes' = passes + 1 /\ late' = {}
        /\ passes - distance \in Nat /\ passes - distance <= passes
        /\ decls' = f[passes + 1]
        /\ \/ Settle(Statements')
           \/ /\ Statements' # Statements
              /\ Trail(Statements') \/ Repeat(Statements') \/ Watch(Statements')
    BY <2>1, <2>2, OrbitPass
  <2>4. Counts /\ f[m + 1] = f[m] /\ passes <= m
    BY <2>2, <2>3 DEF OInv, SInv
  <2>5. decls = f[passes] /\ late = {} /\ snapshot = <<f[passes - distance], {}>>
    BY <2>3 DEF OnOrbit
  <2> HIDE DEF f
  <2>6. Statements = <<f[passes], {}>> /\ Statements' = <<f[passes + 1], {}>>
    BY <2>3, <2>5 DEF Statements
  <2>7. CASE Settle(Statements')
    BY <2>7 DEF Settle
  <2>8. CASE Statements' # Statements
    <3>1. f[passes + 1] # f[passes]
      BY <2>6, <2>8
    <3>2. passes + 1 <= m
      BY <2>4, <3>1 DEF Counts
    <3>3. ~Repeat(Statements')
      <4>1. SUFFICES ASSUME f[passes + 1] = f[passes - distance] PROVE FALSE
        BY <2>5, <2>6 DEF Repeat
      <4> DEFINE from == passes - distance
                 period == distance + 1
      <4>2. from \in Nat /\ period \in Nat \ {0} /\ from + period = passes + 1
        BY <2>3, <2>4 DEF Counts
      <4>3. f[from + period] = f[from]
        BY <4>1, <4>2
      <4> HIDE DEF from, period
      <4>4. \A n \in Nat : n >= from => f[n] = f[m]
        BY <2>4, <4>2, <4>3, NoSettlingInACircle DEF f
      <4>5. f[passes] = f[m] /\ f[passes + 1] = f[m]
        BY <2>3, <2>4, <4>4 DEF Counts, from
      <4> QED
        BY <3>1, <4>5
    <3>4. CASE Trail(Statements')
      BY <2>3, <3>2, <3>4 DEF Trail
    <3>5. CASE Watch(Statements')
      <4>1. passes + 1 # MaxPasses
        BY <2>4, <3>2 DEF Counts, PassLimits
      <4> QED
        BY <2>3, <3>2, <3>5, <4>1 DEF Watch
    <3> QED
      BY <2>3, <3>3, <3>4, <3>5, <2>7
  <2> QED
    BY <2>3, <2>7, <2>8
<1> QED
  BY <1>1, <1>2

(* The watch costs no program anything that would have settled: when some  *)
(* pass up to the last changes nothing, __converge neither takes the       *)
(* passes for a cycle nor runs out of them.                                *)
THEOREM SettlesIfItCan ==
  ASSUME PassLimits
  PROVE  Spec => [](program.late = {} /\ Settles(program.decls) =>
                      outcome \in {"running", "settled"})
<1>1. Init => OInv /\ SInv
  <2>1. Init => SInv
    BY DEF Init, SInv
  <2> QED
    BY <2>1, InitOrbit
<1>2. OInv /\ SInv /\ [Next]_vars => (OInv /\ SInv)'
  BY NextOrbit, NextSettles
<1>3. OInv /\ SInv => (program.late = {} /\ Settles(program.decls) =>
                         outcome \in {"running", "settled"})
  BY DEF SInv, Settles
<1> QED
  BY <1>1, <1>2, <1>3, PTL DEF Spec
=============================================================================
