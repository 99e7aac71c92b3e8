----------------------------- MODULE OnceCell -----------------------------
(***************************************************************************)
(* What a lazy stub promises: its initialiser runs once, and every fetch   *)
(* comes back, with the value that run stored.                             *)
(***************************************************************************)
EXTENDS Naturals

CONSTANTS Stubs, Acts, Target

VARIABLES
  filled,    (* stubs whose value is stored                                *)
  asked,     (* fetches under way or over                                  *)
  got        (* fetches that have returned                                 *)

ovars == <<filled, asked, got>>

OInit == filled = {} /\ asked = {} /\ got = {}

Ask(a) ==
  /\ a \notin asked
  /\ asked' = asked \cup {a}
  /\ UNCHANGED <<filled, got>>

(* Somebody who asked fills the stub; it is never filled again.            *)
Fill(s) ==
  /\ s \notin filled
  /\ \E a \in asked : Target[a] = s
  /\ filled' = filled \cup {s}
  /\ UNCHANGED <<asked, got>>

Get(a) ==
  /\ a \in asked \ got
  /\ Target[a] \in filled
  /\ got' = got \cup {a}
  /\ UNCHANGED <<filled, asked>>

ONext == (\E a \in Acts : Ask(a) \/ Get(a)) \/ \E s \in Stubs : Fill(s)

OSafeSpec == OInit /\ [][ONext]_ovars
OSpec ==
  /\ OSafeSpec
  /\ \A s \in Stubs : WF_ovars(Fill(s))
  /\ \A a \in Acts : WF_ovars(Get(a))
=============================================================================
