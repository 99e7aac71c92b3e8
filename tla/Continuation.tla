--------------------------- MODULE Continuation ---------------------------
(***************************************************************************)
(* What the task runtime promises its callers (yafl.h, the task API): a    *)
(* task carries one completion and one continuation, they arrive in either *)
(* order and from any thread, and the continuation then runs exactly once. *)
(* Nothing here says which worker runs it, or when.                        *)
(***************************************************************************)
EXTENDS Naturals

CONSTANT Tasks

VARIABLES
  registered,   (* tasks whose continuation has been handed over            *)
  completed,    (* tasks that have been completed at least once             *)
  fires         (* how many times each task's continuation has been invoked *)

cvars == <<registered, completed, fires>>

CInit ==
  /\ registered = {}
  /\ completed = {}
  /\ fires = [t \in Tasks |-> 0]

(* task_on_complete: one continuation per task.                            *)
Register(t) ==
  /\ t \notin registered
  /\ registered' = registered \cup {t}
  /\ UNCHANGED <<completed, fires>>

(* task_complete: idempotent, so the abstract step may repeat (a stutter). *)
Complete(t) ==
  /\ completed' = completed \cup {t}
  /\ UNCHANGED <<registered, fires>>

(* thread_dispatch, future_post: a task born runnable.                     *)
Spawn(t) ==
  /\ t \notin registered
  /\ registered' = registered \cup {t}
  /\ completed' = completed \cup {t}
  /\ UNCHANGED fires

Fire(t) ==
  /\ t \in registered
  /\ t \in completed
  /\ fires[t] = 0
  /\ fires' = [fires EXCEPT ![t] = 1]
  /\ UNCHANGED <<registered, completed>>

CNext == \E t \in Tasks : Register(t) \/ Complete(t) \/ Spawn(t) \/ Fire(t)

CSafeSpec == CInit /\ [][CNext]_cvars
CSpec == CSafeSpec /\ \A t \in Tasks : WF_cvars(Fire(t))
=============================================================================
