---- MODULE ConvergeLoop ----
(* The loop in which the compiler types a program (compiler.py __converge): every pass compiles every
   declaration against the declarations the pass before left, until a pass changes nothing.  A name may
   be one that cannot be looked up completely before something else of the program has changed.  Passes
   that never settle are caught by Brent's algorithm: a tortoise stays where it is while the hare runs a
   window, then jumps to the hare, and the window doubles. *)
EXTENDS Integers

CONSTANTS
  Programs,    \* [decls, late]: declarations by name, and names whose lookup is not complete at first.
  WatchFrom,   \* The pass from which cycles are watched for,
  MaxPasses,   \* and the last one.
  PassOver(_, _)   \* What a pass makes of declarations while names are late.

VARIABLES
  program,     \* The case being compiled.
  decls, late, \* The declarations the last pass left, and the names that cannot be looked up yet.
  earlier,     \* The declarations one pass before.
  passes,
  snapshot,    \* Where the tortoise is: declarations, with the names that were late.
  window, distance,
  outcome      \* "running", "settled", "cycles" or "exhausted".

vars == <<program, decls, late, earlier, passes, snapshot, window, distance, outcome>>

\* There is a first pass, and the watch begins before the last.
PassLimits == WatchFrom \in Nat \ {0} /\ MaxPasses \in Nat /\ WatchFrom <= MaxPasses

\* The program as a whole: what is not in decls has changed when a name is no longer late.
Statements == <<decls, late>>

Init ==
    /\ program \in Programs
    /\ decls = program.decls /\ late = program.late /\ earlier = decls
    /\ passes = 0 /\ snapshot = Statements /\ window = 1 /\ distance = 0
    /\ outcome = "running"

Settle(new) ==
    /\ new = Statements
    /\ outcome' = "settled" /\ UNCHANGED <<snapshot, window, distance>>
\* The tortoise trails the newest declarations, then stays while the hare runs a window that doubles.
Trail(new) ==
    /\ passes + 1 < WatchFrom
    /\ snapshot' = new /\ window' = 1 /\ distance' = 0
    /\ outcome' = "running"
Repeat(new) ==
    /\ passes + 1 >= WatchFrom /\ new = snapshot
    /\ outcome' = "cycles" /\ UNCHANGED <<snapshot, window, distance>>
Watch_FixedWindow(new) ==
    /\ passes + 1 >= WatchFrom /\ new # snapshot
    /\ snapshot' = new /\ UNCHANGED <<window, distance>>
    /\ outcome' = IF passes + 1 = MaxPasses THEN "exhausted" ELSE "running"
Watch(new) ==
    /\ passes + 1 >= WatchFrom /\ new # snapshot
    /\ IF distance + 1 = window
       THEN snapshot' = new /\ window' = 2 * window /\ distance' = 0
       ELSE distance' = distance + 1 /\ UNCHANGED <<snapshot, window>>
    /\ outcome' = IF passes + 1 = MaxPasses THEN "exhausted" ELSE "running"
\* ready: the names that can be looked up from this pass on.
Pass(ready) ==
    /\ outcome = "running"
    /\ \E next \in {PassOver(decls, late \ ready)} :
          /\ decls' = next /\ late' = late \ ready
          /\ \/ Settle(<<next, late \ ready>>)
             \/ /\ <<next, late \ ready>> # Statements
                /\ \/ Trail(<<next, late \ ready>>)
                   \/ Repeat(<<next, late \ ready>>)
                   \/ Watch(<<next, late \ ready>>)
    /\ passes' = passes + 1 /\ earlier' = decls
    /\ UNCHANGED program

Next == \E ready \in SUBSET late : Pass(ready)
Spec == Init /\ [][Next]_vars
====
