----------------------------- MODULE LazyGate -----------------------------
(***************************************************************************)
(* The gate in front of a lazy stub's initialiser: lazy.c (lazy_acquire,   *)
(* lazy_enqueue_waiter, lazy_release) driven by the fetch function the     *)
(* compiler emits (lazy_thunks.py, make_fetch_function), with the task     *)
(* state word of task.c for the waiters.                                   *)
(*                                                                         *)
(* An activation is one call of lazy_fetch.  It owns at most one waiter    *)
(* task, so the waiter is named by the activation.  An initialiser may     *)
(* fetch other stubs: Parent[a] is the activation whose initialiser makes  *)
(* call a.  Every access to a shared word is a step of its own.  The pool  *)
(* that runs posted continuations is TaskPool; here it is the set posted.  *)
(***************************************************************************)
EXTENDS Naturals, FiniteSets

CONSTANTS
  Stubs,    (* lazy stubs                                                  *)
  Acts,     (* fetch activations                                           *)
  Target,   (* Acts -> Stubs: the stub each one fetches                    *)
  Parent,   (* Acts -> Acts \cup {Null}: whose initialiser makes the call  *)
  Rank,     (* Stubs -> Nat: a measure that dependencies decrease          *)
  Null, Held, Done    (* the flag's values other than a waiter             *)

ASSUME TargetAssumption == Target \in [Acts -> Stubs]
ASSUME ParentAssumption == Parent \in [Acts -> Acts \cup {Null}]
ASSUME FlagAssumption ==
  /\ Null \notin Acts /\ Held \notin Acts /\ Done \notin Acts
  /\ Null # Held /\ Null # Done /\ Held # Done
(* The dependencies between initialisers have no cycle.  A cycle waits for *)
(* itself; the runtime does not detect it.                                 *)
ASSUME RankAssumption ==
  /\ Rank \in [Stubs -> Nat]
  /\ \A a \in Acts :
       Parent[a] # Null => Rank[Target[a]] < Rank[Target[Parent[a]]]

FlagValues == {Null, Held, Done} \cup Acts
TaskStates == {"none", "PENDING", "CALLBACK", "COMPLETE"}
PCs == {"idle", "test1", "acquire", "take", "load", "enqueue", "store",
        "cas", "parked", "test2", "init", "value", "closure", "release",
        "walk", "wake", "read", "done"}

VARIABLES
  flag,      (* lazy_thunk_t.flag of each stub                             *)
  value,     (* the stub's value has been stored                           *)
  closure,   (* the stub's closure is still there                          *)
  link,      (* waiter->next                                               *)
  tstate,    (* the waiter's task state, "none" before task_create         *)
  callback,  (* the waiter's callback is stored                            *)
  posted,    (* waiters in a worker's queue                                *)
  pc,
  expected,  (* lazy_enqueue_waiter's local                                *)
  cursor,    (* lazy_release's local w                                     *)
  after,     (* lazy_release's local next                                  *)
  got,       (* what the fetch returned: TRUE if the stored value          *)
  inits,     (* history: calls of the stub's initialiser                   *)
  resumes    (* history: times the activation was resumed                  *)

stubVars == <<flag, value, closure>>
taskVars == <<link, tstate, callback, posted>>
localVars == <<expected, cursor, after>>
vars == <<stubVars, taskVars, localVars, pc, got, inits, resumes>>

Goto(a, l) == pc' = [pc EXCEPT ![a] = l]
Children(a) == {b \in Acts : Parent[b] = a}
Flag(a) == flag[Target[a]]

Init ==
  /\ flag = [s \in Stubs |-> Null]
  /\ value = [s \in Stubs |-> FALSE]
  /\ closure = [s \in Stubs |-> TRUE]
  /\ link = [a \in Acts |-> Null]
  /\ tstate = [a \in Acts |-> "none"]
  /\ callback = [a \in Acts |-> FALSE]
  /\ posted = {}
  /\ pc = [a \in Acts |-> "idle"]
  /\ expected = [a \in Acts |-> Null]
  /\ cursor = [a \in Acts |-> Null]
  /\ after = [a \in Acts |-> Null]
  /\ got = [a \in Acts |-> FALSE]
  /\ inits = [s \in Stubs |-> 0]
  /\ resumes = [a \in Acts |-> 0]

-----------------------------------------------------------------------------
(* The call: by the program, or by the parent's initialiser, which makes   *)
(* one call at a time.                                                     *)
Call(a) ==
  /\ pc[a] = "idle"
  /\ Parent[a] # Null =>
       /\ pc[Parent[a]] = "init"
       /\ \A b \in Children(Parent[a]) : pc[b] \in {"idle", "done"}
  /\ Goto(a, "test1")
  /\ UNCHANGED <<stubVars, taskVars, localVars, got, inits, resumes>>

(* lazy_global_init_complete, before the gate.                             *)
Test1(a) ==
  /\ pc[a] = "test1"
  /\ Goto(a, IF Flag(a) = Done THEN "read" ELSE "acquire")
  /\ UNCHANGED <<stubVars, taskVars, localVars, got, inits, resumes>>

(* lazy_acquire: one pass of its loop up to the CAS or the enqueue.  The   *)
(* waiter is created on the first pass that needs it.                      *)
Acquire(a) ==
  /\ pc[a] = "acquire"
  /\ \/ Flag(a) = Done /\ Goto(a, "test2") /\ UNCHANGED tstate
     \/ Flag(a) = Null /\ Goto(a, "take") /\ UNCHANGED tstate
     \/ /\ Flag(a) \notin {Null, Done}
        /\ tstate' = [tstate EXCEPT ![a] = IF @ = "none" THEN "PENDING" ELSE @]
        /\ Goto(a, "load")
  /\ UNCHANGED <<stubVars, link, callback, posted, localVars, got, inits,
                 resumes>>

(* Broken variant: a store where the code has a CAS.                       *)
Take_Store(a) ==
  /\ pc[a] = "take"
  /\ flag' = [flag EXCEPT ![Target[a]] = Held]
  /\ Goto(a, "test2")
  /\ UNCHANGED <<value, closure, taskVars, localVars, got, inits, resumes>>

(* The CAS that takes the gate is weak: it may fail on an equal value.     *)
Take(a) ==
  /\ pc[a] = "take"
  /\ \/ /\ Flag(a) = Null
        /\ flag' = [flag EXCEPT ![Target[a]] = Held]
        /\ Goto(a, "test2")
     \/ Goto(a, "acquire") /\ UNCHANGED flag
  /\ UNCHANGED <<value, closure, taskVars, localVars, got, inits, resumes>>

(* Broken variant: the waiter does not link the head it displaces.         *)
LinkTo_Dropped(a, v) ==
  /\ expected' = [expected EXCEPT ![a] = v]
  /\ IF v \in {Null, Done}
       THEN Goto(a, "acquire") /\ UNCHANGED link
       ELSE link' = [link EXCEPT ![a] = Null] /\ Goto(a, "enqueue")

(* lazy_enqueue_waiter: from a loaded flag to a linked waiter or a return. *)
LinkTo(a, v) ==
  /\ expected' = [expected EXCEPT ![a] = v]
  /\ IF v \in {Null, Done}
       THEN Goto(a, "acquire") /\ UNCHANGED link
       ELSE /\ link' = [link EXCEPT ![a] = IF v = Held THEN Null ELSE v]
            /\ Goto(a, "enqueue")

Load(a) ==
  /\ pc[a] = "load"
  /\ LinkTo(a, Flag(a))
  /\ UNCHANGED <<stubVars, tstate, callback, posted, cursor, after, got,
                 inits, resumes>>

Enqueue(a) ==
  /\ pc[a] = "enqueue"
  /\ \/ /\ Flag(a) = expected[a]
        /\ flag' = [flag EXCEPT ![Target[a]] = a]
        /\ Goto(a, "store")
        /\ UNCHANGED <<expected, link>>
     \/ /\ Flag(a) # expected[a]
        /\ LinkTo(a, Flag(a))
        /\ UNCHANGED flag
  /\ UNCHANGED <<value, closure, tstate, callback, posted, cursor, after,
                 got, inits, resumes>>

(* The suspension: task_on_complete stores the continuation ...            *)
StoreCallback(a) ==
  /\ pc[a] = "store"
  /\ callback' = [callback EXCEPT ![a] = TRUE]
  /\ Goto(a, "cas")
  /\ UNCHANGED <<stubVars, link, tstate, posted, localVars, got, inits,
                 resumes>>

(* A post puts the waiter in a worker queue, which reuses its link.        *)
Post(a) ==
  /\ posted' = posted \cup {a}
  /\ link' = [link EXCEPT ![a] = Null]

(* Broken variant: the waiter is posted even when it was registered.       *)
RegisterCas_AlwaysPosts(a) ==
  /\ pc[a] = "cas"
  /\ Goto(a, "parked")
  /\ tstate' = [tstate EXCEPT ![a] = IF @ = "PENDING" THEN "CALLBACK" ELSE @]
  /\ Post(a)
  /\ UNCHANGED <<stubVars, callback, localVars, got, inits, resumes>>

(* ... and registers it, or posts the task when the release came first.    *)
RegisterCas(a) ==
  /\ pc[a] = "cas"
  /\ Goto(a, "parked")
  /\ \/ /\ tstate[a] = "PENDING"
        /\ tstate' = [tstate EXCEPT ![a] = "CALLBACK"]
        /\ UNCHANGED <<link, posted>>
     \/ /\ tstate[a] # "PENDING"
        /\ Post(a)
        /\ UNCHANGED tstate
  /\ UNCHANGED <<stubVars, callback, localVars, got, inits, resumes>>

(* A worker pops the waiter and fires its continuation.                    *)
Resume(a) ==
  /\ a \in posted
  /\ posted' = posted \ {a}
  /\ tstate' = [tstate EXCEPT ![a] = "COMPLETE"]
  /\ callback' = [callback EXCEPT ![a] = FALSE]
  /\ resumes' = [resumes EXCEPT ![a] = @ + 1]
  /\ Goto(a, "test2")
  /\ UNCHANGED <<stubVars, link, localVars, got, inits>>

(* Broken variant: a caller back from the gate assumes that it holds it.   *)
Test2_Assumed(a) ==
  /\ pc[a] = "test2"
  /\ Goto(a, "init")
  /\ inits' = [inits EXCEPT ![Target[a]] = @ + 1]
  /\ UNCHANGED <<stubVars, taskVars, localVars, got, resumes>>

(* lazy_global_init_complete again: complete, or this caller holds it.     *)
Test2(a) ==
  /\ pc[a] = "test2"
  /\ IF Flag(a) = Done
       THEN Goto(a, "read") /\ UNCHANGED inits
       ELSE /\ Goto(a, "init")
            /\ inits' = [inits EXCEPT ![Target[a]] = @ + 1]
  /\ UNCHANGED <<stubVars, taskVars, localVars, got, resumes>>

(* The initialiser returns once the fetches it makes have returned.        *)
InitReturn(a) ==
  /\ pc[a] = "init"
  /\ \A b \in Children(a) : pc[b] = "done"
  /\ Goto(a, "value")
  /\ UNCHANGED <<stubVars, taskVars, localVars, got, inits, resumes>>

StoreValue(a) ==
  /\ pc[a] = "value"
  /\ value' = [value EXCEPT ![Target[a]] = TRUE]
  /\ Goto(a, "closure")
  /\ UNCHANGED <<flag, closure, taskVars, localVars, got, inits, resumes>>

ClearClosure(a) ==
  /\ pc[a] = "closure"
  /\ closure' = [closure EXCEPT ![Target[a]] = FALSE]
  /\ Goto(a, "release")
  /\ UNCHANGED <<flag, value, taskVars, localVars, got, inits, resumes>>

(* Broken variants: the marker of a held gate is walked as a waiter; the   *)
(* gate is left free instead of complete.                                  *)
Release_WalksMarker(a) ==
  /\ pc[a] = "release"
  /\ flag' = [flag EXCEPT ![Target[a]] = Done]
  /\ cursor' = [cursor EXCEPT ![a] = Flag(a)]
  /\ Goto(a, "walk")
  /\ UNCHANGED <<value, closure, taskVars, expected, after, got, inits,
                 resumes>>

Release_Reopens(a) ==
  /\ pc[a] = "release"
  /\ flag' = [flag EXCEPT ![Target[a]] = Null]
  /\ cursor' = [cursor EXCEPT ![a] = IF Flag(a) = Held THEN Null ELSE Flag(a)]
  /\ Goto(a, "walk")
  /\ UNCHANGED <<value, closure, taskVars, expected, after, got, inits,
                 resumes>>

(* lazy_release: the exchange that publishes the value and takes the chain *)
Release(a) ==
  /\ pc[a] = "release"
  /\ flag' = [flag EXCEPT ![Target[a]] = Done]
  /\ cursor' = [cursor EXCEPT ![a] = IF Flag(a) = Held THEN Null ELSE Flag(a)]
  /\ Goto(a, "walk")
  /\ UNCHANGED <<value, closure, taskVars, expected, after, got, inits,
                 resumes>>

(* ... then the successor is read, and the link cleared, before the waiter *)
(* is completed: completing it hands its link to a worker queue.           *)
Walk(a) ==
  /\ pc[a] = "walk"
  /\ IF cursor[a] = Null
       THEN Goto(a, "read") /\ UNCHANGED <<link, after>>
       ELSE /\ after' = [after EXCEPT ![a] = link[cursor[a]]]
            /\ link' = [link EXCEPT ![cursor[a]] = Null]
            /\ Goto(a, "wake")
  /\ UNCHANGED <<stubVars, tstate, callback, posted, expected, cursor, got,
                 inits, resumes>>

(* Broken variant: the waiter is completed, and never posted.              *)
Wake_NotPosted(a) ==
  /\ pc[a] = "wake"
  /\ tstate' = [tstate EXCEPT ![cursor[a]] = "COMPLETE"]
  /\ cursor' = [cursor EXCEPT ![a] = after[a]]
  /\ Goto(a, "walk")
  /\ UNCHANGED <<stubVars, link, callback, posted, expected, after, got,
                 inits, resumes>>

(* task_complete_deferred of the waiter.                                   *)
Wake(a) ==
  LET w == cursor[a] IN
  /\ pc[a] = "wake"
  /\ tstate' = [tstate EXCEPT ![w] = "COMPLETE"]
  /\ IF tstate[w] = "CALLBACK" THEN Post(w) ELSE UNCHANGED <<posted, link>>
  /\ cursor' = [cursor EXCEPT ![a] = after[a]]
  /\ Goto(a, "walk")
  /\ UNCHANGED <<stubVars, callback, expected, after, got, inits, resumes>>

ReadValue(a) ==
  /\ pc[a] = "read"
  /\ got' = [got EXCEPT ![a] = value[Target[a]]]
  /\ Goto(a, "done")
  /\ UNCHANGED <<stubVars, taskVars, localVars, inits, resumes>>

-----------------------------------------------------------------------------
Run(a) ==
  \/ Test1(a) \/ Acquire(a) \/ Load(a) \/ Enqueue(a)
  \/ StoreCallback(a) \/ RegisterCas(a) \/ Resume(a)
  \/ Test2(a) \/ InitReturn(a) \/ StoreValue(a) \/ ClearClosure(a)
  \/ Release(a) \/ Walk(a) \/ Wake(a) \/ ReadValue(a)

Next == \E a \in Acts : Call(a) \/ Take(a) \/ Run(a)

(* Workers keep running what can run; a weak CAS does not fail for ever on *)
(* an equal value, hence the strong fairness of a Take that succeeds.      *)
Fairness ==
  \A a \in Acts :
    /\ WF_vars(Run(a))
    /\ WF_vars(Take(a))
    /\ SF_vars(Take(a) /\ pc'[a] = "test2")
    /\ Parent[a] # Null => WF_vars(Call(a))

Spec == Init /\ [][Next]_vars /\ Fairness

-----------------------------------------------------------------------------
(* Types: among them, that a walk only ever meets waiters (cursor, after   *)
(* and link never hold a marker of the flag).                              *)
TypeOK ==
  /\ flag \in [Stubs -> FlagValues]
  /\ value \in [Stubs -> BOOLEAN]
  /\ closure \in [Stubs -> BOOLEAN]
  /\ link \in [Acts -> Acts \cup {Null}]
  /\ tstate \in [Acts -> TaskStates]
  /\ callback \in [Acts -> BOOLEAN]
  /\ posted \in SUBSET Acts
  /\ pc \in [Acts -> PCs]
  /\ expected \in [Acts -> FlagValues]
  /\ cursor \in [Acts -> Acts \cup {Null}]
  /\ after \in [Acts -> Acts \cup {Null}]
  /\ got \in [Acts -> BOOLEAN]
  /\ inits \in [Stubs -> Nat]
  /\ resumes \in [Acts -> Nat]

Holding == {"init", "value", "closure", "release"}

(* An activation that holds its stub's gate: it will run the initialiser,  *)
(* is running it, or has yet to release.                                   *)
Holds(a) == pc[a] \in Holding \/ (pc[a] = "test2" /\ Flag(a) # Done)

(* The gate admits one holder at a time per stub.                          *)
OneHolder == \A a, b \in Acts :
  Holds(a) /\ Holds(b) /\ Target[a] = Target[b] => a = b

(* An initialiser runs at most once, whoever waits, retries or is resumed. *)
InitOnce == \A s \in Stubs : inits[s] <= 1

(* The initialiser is called through a closure nobody has cleared yet: the *)
(* fetch function drops it after the run.                                  *)
ClosureThere == \A a \in Acts : pc[a] \in {"init", "value"} => closure[Target[a]]

(* Publication: whoever sees the gate complete finds the value stored.     *)
DoneHasValue == \A s \in Stubs : flag[s] = Done => value[s]

(* Every fetch that returns, at once or after a suspension, returns the    *)
(* value the initialiser's run stored.                                     *)
ReadsValue == \A a \in Acts : pc[a] = "done" => got[a]

(* The waiters reachable from x along the links lk: those that belong to   *)
(* every set that holds x and is closed under the links.                   *)
Closed(lk, S) == \A x \in S : lk[x] # Null => lk[x] \in S
ChainIn(lk, x) ==
  {a \in Acts : x \in Acts /\ \A S \in SUBSET Acts : x \in S /\ Closed(lk, S) => a \in S}
Chained(x) == ChainIn(link, x)

(* Where a suspended activation can be found: from its stub's flag, by the *)
(* releaser that is walking its chain, or in a worker's queue; or else it  *)
(* has been released already, and will see that when it registers.         *)
Found(a) ==
  \/ a \in posted
  \/ a \in Chained(Flag(a))
  \/ \E b \in Acts :
       /\ Target[b] = Target[a]
       /\ \/ pc[b] \in {"walk", "wake"} /\ a \in Chained(cursor[b])
          \/ pc[b] = "wake" /\ a \in Chained(after[b])
  \/ tstate[a] = "COMPLETE" /\ pc[a] # "parked"

(* No lost wake-up: a suspended activation can always be found.            *)
WaiterReachable == \A a \in Acts :
  pc[a] \in {"store", "cas", "parked"} => Found(a)

(* A waiter is resumed once for its one suspension, and only by a release. *)
ResumedOnce == \A a \in Acts :
  resumes[a] <= 1 /\ (resumes[a] = 1 => Flag(a) = Done)

(* An activation that can take a step: its code is running (an acquire, a  *)
(* release or a walk never blocks), its waiter is in a queue, or the       *)
(* initialiser it called is itself running, with no fetch under way: it    *)
(* makes its next one, or returns.                                         *)
CanStep(a) ==
  \/ pc[a] \notin {"idle", "parked", "init", "done"}
  \/ a \in posted
  \/ pc[a] = "init" /\ \A b \in Children(a) : pc[b] \in {"idle", "done"}

(* No deadlock, and no waiting upwards: whatever an activation waits for,  *)
(* a gate or a fetch of its initialiser, somebody at its own stub or at    *)
(* one below it can take a step.                                           *)
NeverStuck == \A a \in Acts : pc[a] \notin {"idle", "done"} =>
  \E b \in Acts : Rank[Target[b]] <= Rank[Target[a]] /\ CanStep(b)

Cell == INSTANCE OnceCell WITH
  filled <- {s \in Stubs : value[s]},
  asked <- {a \in Acts : pc[a] # "idle"},
  got <- {a \in Acts : pc[a] = "done" /\ got[a]}

(* Refinement: the gate implements OnceCell.  Each stub is filled once, by *)
(* somebody who asked, and every fetch comes back with the value.          *)
ImplementsOnceCell == Cell!OSpec
=============================================================================
