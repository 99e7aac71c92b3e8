-------------------------- MODULE LazyGate_proofs --------------------------
(***************************************************************************)
(* Proofs about LazyGate, for any number of stubs and fetches.  A first    *)
(* invariant, IInv, gives the gate: one holder, one run of the initialiser *)
(* with its closure there, and the stored value for every fetch.  A second *)
(* one over it, WInv, gives the waiters: none is lost, none is resumed     *)
(* twice, and every step is a step of OnceCell.  With a holder for every   *)
(* gate that is not free they give that somebody can always take a step.   *)
(***************************************************************************)
EXTENDS LazyGate, WellFoundedInduction, TLAPS

(* Everything that can become the next waiter of a chain belongs to the    *)
(* same stub as the chain: links never cross stubs.                        *)
SameStub ==
  /\ \A s \in Stubs : flag[s] \in Acts => Target[flag[s]] = s
  /\ \A a \in Acts :
       /\ link[a] # Null => Target[link[a]] = Target[a]
       /\ cursor[a] # Null => Target[cursor[a]] = Target[a]
       /\ after[a] # Null => Target[after[a]] = Target[a]
       /\ expected[a] \in Acts => Target[expected[a]] = Target[a]

(* The flag agrees with the program counters and the waiters' states.      *)
FlagAgrees == \A a \in Acts :
  /\ Holds(a) => Flag(a) \notin {Null, Done}
  /\ pc[a] \in {"walk", "wake", "read", "done"} => Flag(a) = Done
  /\ pc[a] = "enqueue" => expected[a] \notin {Null, Done}
  /\ pc[a] = "wake" => cursor[a] # Null
  /\ a \in posted => Flag(a) = Done
  /\ tstate[a] = "COMPLETE" => Flag(a) = Done
  /\ tstate[a] = "CALLBACK" => pc[a] = "parked"
  /\ pc[a] \in {"load", "enqueue", "store", "cas"} => tstate[a] # "none"

(* What the one run of the initialiser has done so far.                    *)
RunAgrees ==
  /\ \A s \in Stubs :
       /\ inits[s] <= 1
       /\ flag[s] # Done /\ (\A a \in Acts : Target[a] = s => pc[a] \notin Holding)
            => inits[s] = 0
       /\ flag[s] # Done /\ (\A a \in Acts : Target[a] = s => pc[a] # "release")
            => closure[s]
  /\ \A a \in Acts : pc[a] \in {"closure", "release"} => value[Target[a]]

IInv ==
  /\ TypeOK /\ SameStub /\ FlagAgrees /\ OneHolder /\ RunAgrees
  /\ DoneHasValue /\ ReadsValue

-----------------------------------------------------------------------------
(* The inductive invariant holds when no fetch has been made.              *)
LEMMA InitIInv == Init => IInv
BY TargetAssumption, ParentAssumption, FlagAssumption
DEF Init, IInv, TypeOK, SameStub, FlagAgrees, OneHolder, RunAgrees,
    DoneHasValue, ReadsValue, Holds, Holding, Flag, FlagValues, TaskStates, PCs

(* Every step keeps it: a case per action of a fetch, and in it a step per *)
(* conjunct the action can disturb.                                        *)
LEMMA NextIInv == IInv /\ [Next]_vars => IInv'
<1> SUFFICES ASSUME IInv, [Next]_vars PROVE IInv'
  OBVIOUS
<1> USE TargetAssumption, ParentAssumption, FlagAssumption
<1> USE DEF IInv, TypeOK, FlagValues, TaskStates, PCs, Goto, Flag,
            stubVars, taskVars, localVars
<1>1. ASSUME NEW a \in Acts, Call(a) PROVE IInv'
  <2>1. TypeOK'
    BY <1>1 DEF Call
  <2>2. SameStub'
    BY <1>1 DEF Call, SameStub
  <2>3. FlagAgrees'
    BY <1>1 DEF Call, SameStub, FlagAgrees, OneHolder, Holds, Holding
  <2>4. OneHolder'
    BY <1>1 DEF Call, FlagAgrees, OneHolder, Holds, Holding
  <2>5. RunAgrees'
    BY <1>1 DEF Call, RunAgrees, FlagAgrees, OneHolder, Holds, Holding
  <2>6. DoneHasValue'
    BY <1>1 DEF Call, DoneHasValue, RunAgrees
  <2>7. ReadsValue'
    BY <1>1 DEF Call, ReadsValue, DoneHasValue, FlagAgrees
  <2> QED
    BY <2>1, <2>2, <2>3, <2>4, <2>5, <2>6, <2>7
<1>2. ASSUME NEW a \in Acts, Take(a) PROVE IInv'
  <2>1. TypeOK'
    BY <1>2 DEF Take
  <2>2. SameStub'
    BY <1>2 DEF Take, SameStub
  <2>3. FlagAgrees'
    BY <1>2 DEF Take, SameStub, FlagAgrees, OneHolder, Holds, Holding
  <2>4. OneHolder'
    BY <1>2 DEF Take, FlagAgrees, OneHolder, Holds, Holding
  <2>5. RunAgrees'
    BY <1>2 DEF Take, RunAgrees, FlagAgrees, OneHolder, Holds, Holding
  <2>6. DoneHasValue'
    BY <1>2 DEF Take, DoneHasValue, RunAgrees
  <2>7. ReadsValue'
    BY <1>2 DEF Take, ReadsValue, DoneHasValue, FlagAgrees
  <2> QED
    BY <2>1, <2>2, <2>3, <2>4, <2>5, <2>6, <2>7
<1>3. ASSUME NEW a \in Acts, Test1(a) PROVE IInv'
  <2>1. TypeOK'
    BY <1>3 DEF Test1
  <2>2. SameStub'
    BY <1>3 DEF Test1, SameStub
  <2>3. FlagAgrees'
    BY <1>3 DEF Test1, SameStub, FlagAgrees, OneHolder, Holds, Holding
  <2>4. OneHolder'
    BY <1>3 DEF Test1, FlagAgrees, OneHolder, Holds, Holding
  <2>5. RunAgrees'
    BY <1>3 DEF Test1, RunAgrees, FlagAgrees, OneHolder, Holds, Holding
  <2>6. DoneHasValue'
    BY <1>3 DEF Test1, DoneHasValue, RunAgrees
  <2>7. ReadsValue'
    BY <1>3 DEF Test1, ReadsValue, DoneHasValue, FlagAgrees
  <2> QED
    BY <2>1, <2>2, <2>3, <2>4, <2>5, <2>6, <2>7
<1>4. ASSUME NEW a \in Acts, Acquire(a) PROVE IInv'
  <2>1. TypeOK'
    BY <1>4 DEF Acquire
  <2>2. SameStub'
    BY <1>4 DEF Acquire, SameStub
  <2>3. FlagAgrees'
    BY <1>4 DEF Acquire, SameStub, FlagAgrees, OneHolder, Holds, Holding
  <2>4. OneHolder'
    BY <1>4 DEF Acquire, FlagAgrees, OneHolder, Holds, Holding
  <2>5. RunAgrees'
    <3>1. PICK l \in {"test2", "take", "load"} : pc' = [pc EXCEPT ![a] = l]
      BY <1>4 DEF Acquire
    <3>2. pc[a] = "acquire" /\ UNCHANGED <<stubVars, inits>>
      BY <1>4 DEF Acquire
    <3>3. ASSUME NEW b \in Acts PROVE /\ pc'[b] \in Holding <=> pc[b] \in Holding
                                      /\ (pc'[b] = "release") <=> (pc[b] = "release")
                                      /\ (pc'[b] = "closure") <=> (pc[b] = "closure")
      BY <3>1, <3>2 DEF Holding
    <3> QED
      BY <3>2, <3>3 DEF RunAgrees
  <2>6. DoneHasValue'
    BY <1>4 DEF Acquire, DoneHasValue, RunAgrees
  <2>7. ReadsValue'
    BY <1>4 DEF Acquire, ReadsValue, DoneHasValue, FlagAgrees
  <2> QED
    BY <2>1, <2>2, <2>3, <2>4, <2>5, <2>6, <2>7
<1>5. ASSUME NEW a \in Acts, Load(a) PROVE IInv'
  <2>1. TypeOK'
    BY <1>5 DEF Load, LinkTo
  <2>2. SameStub'
    BY <1>5 DEF Load, LinkTo, SameStub
  <2>3. FlagAgrees'
    BY <1>5 DEF Load, LinkTo, SameStub, FlagAgrees, OneHolder, Holds, Holding
  <2>4. OneHolder'
    BY <1>5 DEF Load, LinkTo, FlagAgrees, OneHolder, Holds, Holding
  <2>5. RunAgrees'
    BY <1>5 DEF Load, LinkTo, RunAgrees, FlagAgrees, OneHolder, Holds, Holding
  <2>6. DoneHasValue'
    BY <1>5 DEF Load, LinkTo, DoneHasValue, RunAgrees
  <2>7. ReadsValue'
    BY <1>5 DEF Load, LinkTo, ReadsValue, DoneHasValue, FlagAgrees
  <2> QED
    BY <2>1, <2>2, <2>3, <2>4, <2>5, <2>6, <2>7
<1>6. ASSUME NEW a \in Acts, Enqueue(a) PROVE IInv'
  <2>1. TypeOK'
    BY <1>6 DEF Enqueue, LinkTo
  <2>2. SameStub'
    BY <1>6 DEF Enqueue, LinkTo, SameStub
  <2>3. FlagAgrees'
    BY <1>6 DEF Enqueue, LinkTo, SameStub, FlagAgrees, OneHolder, Holds, Holding
  <2>4. OneHolder'
    BY <1>6 DEF Enqueue, LinkTo, FlagAgrees, OneHolder, Holds, Holding
  <2>5. RunAgrees'
    BY <1>6 DEF Enqueue, LinkTo, RunAgrees, FlagAgrees, OneHolder, Holds, Holding
  <2>6. DoneHasValue'
    BY <1>6 DEF Enqueue, LinkTo, DoneHasValue, RunAgrees
  <2>7. ReadsValue'
    BY <1>6 DEF Enqueue, LinkTo, ReadsValue, DoneHasValue, FlagAgrees
  <2> QED
    BY <2>1, <2>2, <2>3, <2>4, <2>5, <2>6, <2>7
<1>7. ASSUME NEW a \in Acts, StoreCallback(a) PROVE IInv'
  <2>1. TypeOK'
    BY <1>7 DEF StoreCallback
  <2>2. SameStub'
    BY <1>7 DEF StoreCallback, SameStub
  <2>3. FlagAgrees'
    BY <1>7 DEF StoreCallback, SameStub, FlagAgrees, OneHolder, Holds, Holding
  <2>4. OneHolder'
    BY <1>7 DEF StoreCallback, FlagAgrees, OneHolder, Holds, Holding
  <2>5. RunAgrees'
    BY <1>7 DEF StoreCallback, RunAgrees, FlagAgrees, OneHolder, Holds, Holding
  <2>6. DoneHasValue'
    BY <1>7 DEF StoreCallback, DoneHasValue, RunAgrees
  <2>7. ReadsValue'
    BY <1>7 DEF StoreCallback, ReadsValue, DoneHasValue, FlagAgrees
  <2> QED
    BY <2>1, <2>2, <2>3, <2>4, <2>5, <2>6, <2>7
<1>8. ASSUME NEW a \in Acts, RegisterCas(a) PROVE IInv'
  <2>1. TypeOK'
    BY <1>8 DEF RegisterCas, Post
  <2>2. SameStub'
    BY <1>8 DEF RegisterCas, Post, SameStub
  <2>3. FlagAgrees'
    BY <1>8 DEF RegisterCas, Post, SameStub, FlagAgrees, OneHolder, Holds, Holding
  <2>4. OneHolder'
    BY <1>8 DEF RegisterCas, Post, FlagAgrees, OneHolder, Holds, Holding
  <2>5. RunAgrees'
    BY <1>8 DEF RegisterCas, Post, RunAgrees, FlagAgrees, OneHolder, Holds, Holding
  <2>6. DoneHasValue'
    BY <1>8 DEF RegisterCas, Post, DoneHasValue, RunAgrees
  <2>7. ReadsValue'
    BY <1>8 DEF RegisterCas, Post, ReadsValue, DoneHasValue, FlagAgrees
  <2> QED
    BY <2>1, <2>2, <2>3, <2>4, <2>5, <2>6, <2>7
<1>9. ASSUME NEW a \in Acts, Resume(a) PROVE IInv'
  <2>1. TypeOK'
    BY <1>9 DEF Resume
  <2>2. SameStub'
    BY <1>9 DEF Resume, SameStub
  <2>3. FlagAgrees'
    BY <1>9 DEF Resume, SameStub, FlagAgrees, OneHolder, Holds, Holding
  <2>4. OneHolder'
    BY <1>9 DEF Resume, FlagAgrees, OneHolder, Holds, Holding
  <2>5. RunAgrees'
    BY <1>9 DEF Resume, RunAgrees, FlagAgrees, OneHolder, Holds, Holding
  <2>6. DoneHasValue'
    BY <1>9 DEF Resume, DoneHasValue, RunAgrees
  <2>7. ReadsValue'
    BY <1>9 DEF Resume, ReadsValue, DoneHasValue, FlagAgrees
  <2> QED
    BY <2>1, <2>2, <2>3, <2>4, <2>5, <2>6, <2>7
<1>10. ASSUME NEW a \in Acts, Test2(a) PROVE IInv'
  <2>1. TypeOK'
    BY <1>10 DEF Test2
  <2>2. SameStub'
    BY <1>10 DEF Test2, SameStub
  <2>3. FlagAgrees'
    BY <1>10 DEF Test2, SameStub, FlagAgrees, OneHolder, Holds, Holding
  <2>4. OneHolder'
    BY <1>10 DEF Test2, FlagAgrees, OneHolder, Holds, Holding
  <2>5. RunAgrees'
    BY <1>10 DEF Test2, RunAgrees, FlagAgrees, OneHolder, Holds, Holding
  <2>6. DoneHasValue'
    BY <1>10 DEF Test2, DoneHasValue, RunAgrees
  <2>7. ReadsValue'
    BY <1>10 DEF Test2, ReadsValue, DoneHasValue, FlagAgrees
  <2> QED
    BY <2>1, <2>2, <2>3, <2>4, <2>5, <2>6, <2>7
<1>11. ASSUME NEW a \in Acts, InitReturn(a) PROVE IInv'
  <2>1. TypeOK'
    BY <1>11 DEF InitReturn
  <2>2. SameStub'
    BY <1>11 DEF InitReturn, SameStub
  <2>3. FlagAgrees'
    BY <1>11 DEF InitReturn, SameStub, FlagAgrees, OneHolder, Holds, Holding
  <2>4. OneHolder'
    BY <1>11 DEF InitReturn, FlagAgrees, OneHolder, Holds, Holding
  <2>5. RunAgrees'
    BY <1>11 DEF InitReturn, RunAgrees, FlagAgrees, OneHolder, Holds, Holding
  <2>6. DoneHasValue'
    BY <1>11 DEF InitReturn, DoneHasValue, RunAgrees
  <2>7. ReadsValue'
    BY <1>11 DEF InitReturn, ReadsValue, DoneHasValue, FlagAgrees
  <2> QED
    BY <2>1, <2>2, <2>3, <2>4, <2>5, <2>6, <2>7
<1>12. ASSUME NEW a \in Acts, StoreValue(a) PROVE IInv'
  <2>1. TypeOK'
    BY <1>12 DEF StoreValue
  <2>2. SameStub'
    BY <1>12 DEF StoreValue, SameStub
  <2>3. FlagAgrees'
    BY <1>12 DEF StoreValue, SameStub, FlagAgrees, OneHolder, Holds, Holding
  <2>4. OneHolder'
    BY <1>12 DEF StoreValue, FlagAgrees, OneHolder, Holds, Holding
  <2>5. RunAgrees'
    BY <1>12 DEF StoreValue, RunAgrees, FlagAgrees, OneHolder, Holds, Holding
  <2>6. DoneHasValue'
    BY <1>12 DEF StoreValue, DoneHasValue, RunAgrees
  <2>7. ReadsValue'
    BY <1>12 DEF StoreValue, ReadsValue, DoneHasValue, FlagAgrees
  <2> QED
    BY <2>1, <2>2, <2>3, <2>4, <2>5, <2>6, <2>7
<1>13. ASSUME NEW a \in Acts, ClearClosure(a) PROVE IInv'
  <2>1. TypeOK'
    BY <1>13 DEF ClearClosure
  <2>2. SameStub'
    BY <1>13 DEF ClearClosure, SameStub
  <2>3. FlagAgrees'
    BY <1>13 DEF ClearClosure, SameStub, FlagAgrees, OneHolder, Holds, Holding
  <2>4. OneHolder'
    BY <1>13 DEF ClearClosure, FlagAgrees, OneHolder, Holds, Holding
  <2>5. RunAgrees'
    BY <1>13 DEF ClearClosure, RunAgrees, FlagAgrees, OneHolder, Holds, Holding
  <2>6. DoneHasValue'
    BY <1>13 DEF ClearClosure, DoneHasValue, RunAgrees
  <2>7. ReadsValue'
    BY <1>13 DEF ClearClosure, ReadsValue, DoneHasValue, FlagAgrees
  <2> QED
    BY <2>1, <2>2, <2>3, <2>4, <2>5, <2>6, <2>7
<1>14. ASSUME NEW a \in Acts, Release(a) PROVE IInv'
  <2>1. TypeOK'
    BY <1>14 DEF Release, FlagAgrees, Holds, Holding
  <2>2. SameStub'
    BY <1>14 DEF Release, SameStub, FlagAgrees, Holds, Holding
  <2>3. FlagAgrees'
    BY <1>14 DEF Release, SameStub, FlagAgrees, OneHolder, Holds, Holding
  <2>4. OneHolder'
    BY <1>14 DEF Release, FlagAgrees, OneHolder, Holds, Holding
  <2>5. RunAgrees'
    BY <1>14 DEF Release, RunAgrees, FlagAgrees, OneHolder, Holds, Holding
  <2>6. DoneHasValue'
    BY <1>14 DEF Release, DoneHasValue, RunAgrees
  <2>7. ReadsValue'
    BY <1>14 DEF Release, ReadsValue, DoneHasValue, FlagAgrees
  <2> QED
    BY <2>1, <2>2, <2>3, <2>4, <2>5, <2>6, <2>7
<1>15. ASSUME NEW a \in Acts, Walk(a) PROVE IInv'
  <2>1. TypeOK'
    BY <1>15 DEF Walk
  <2>2. SameStub'
    BY <1>15 DEF Walk, SameStub
  <2>3. FlagAgrees'
    BY <1>15 DEF Walk, SameStub, FlagAgrees, OneHolder, Holds, Holding
  <2>4. OneHolder'
    BY <1>15 DEF Walk, FlagAgrees, OneHolder, Holds, Holding
  <2>5. RunAgrees'
    BY <1>15 DEF Walk, RunAgrees, FlagAgrees, OneHolder, Holds, Holding
  <2>6. DoneHasValue'
    BY <1>15 DEF Walk, DoneHasValue, RunAgrees
  <2>7. ReadsValue'
    BY <1>15 DEF Walk, ReadsValue, DoneHasValue, FlagAgrees
  <2> QED
    BY <2>1, <2>2, <2>3, <2>4, <2>5, <2>6, <2>7
<1>16. ASSUME NEW a \in Acts, Wake(a) PROVE IInv'
  <2>1. TypeOK'
    BY <1>16 DEF Wake, Post, FlagAgrees, Holds, Holding
  <2>2. SameStub'
    BY <1>16 DEF Wake, Post, SameStub
  <2>3. FlagAgrees'
    BY <1>16 DEF Wake, Post, SameStub, FlagAgrees, OneHolder, Holds, Holding
  <2>4. OneHolder'
    BY <1>16 DEF Wake, Post, FlagAgrees, OneHolder, Holds, Holding
  <2>5. RunAgrees'
    BY <1>16 DEF Wake, Post, RunAgrees, FlagAgrees, OneHolder, Holds, Holding
  <2>6. DoneHasValue'
    BY <1>16 DEF Wake, Post, DoneHasValue, RunAgrees
  <2>7. ReadsValue'
    BY <1>16 DEF Wake, Post, ReadsValue, DoneHasValue, FlagAgrees
  <2> QED
    BY <2>1, <2>2, <2>3, <2>4, <2>5, <2>6, <2>7
<1>17. ASSUME NEW a \in Acts, ReadValue(a) PROVE IInv'
  <2>1. TypeOK'
    BY <1>17 DEF ReadValue
  <2>2. SameStub'
    BY <1>17 DEF ReadValue, SameStub
  <2>3. FlagAgrees'
    BY <1>17 DEF ReadValue, SameStub, FlagAgrees, OneHolder, Holds, Holding
  <2>4. OneHolder'
    BY <1>17 DEF ReadValue, FlagAgrees, OneHolder, Holds, Holding
  <2>5. RunAgrees'
    BY <1>17 DEF ReadValue, RunAgrees, FlagAgrees, OneHolder, Holds, Holding
  <2>6. DoneHasValue'
    BY <1>17 DEF ReadValue, DoneHasValue, RunAgrees
  <2>7. ReadsValue'
    BY <1>17 DEF ReadValue, ReadsValue, DoneHasValue, FlagAgrees
  <2> QED
    BY <2>1, <2>2, <2>3, <2>4, <2>5, <2>6, <2>7
<1>18. CASE UNCHANGED vars
  BY <1>18 DEF vars, SameStub, FlagAgrees, OneHolder, RunAgrees, DoneHasValue,
     ReadsValue, Holds, Holding
<1> QED
  BY <1>1, <1>2, <1>3, <1>4, <1>5, <1>6, <1>7, <1>8, <1>9, <1>10, <1>11, <1>12,
     <1>13, <1>14, <1>15, <1>16, <1>17, <1>18 DEF Next, Run

-----------------------------------------------------------------------------
(* The inductive invariant holds throughout.                               *)
THEOREM Invariance == Spec => []IInv
BY InitIInv, NextIInv, PTL DEF Spec

(* Every variable keeps its type: in particular lazy_release only ever     *)
(* walks waiters, never the flag's marker values.                          *)
THEOREM TypeCorrect == Spec => []TypeOK
<1>1. IInv => TypeOK
  BY DEF IInv
<1> QED
  BY <1>1, Invariance, PTL

(* Mutual exclusion: of all the activations that find the gate not yet     *)
(* complete after lazy_acquire, one per stub runs the initialiser.         *)
THEOREM MutualExclusion == Spec => []OneHolder
<1>1. IInv => OneHolder
  BY DEF IInv
<1> QED
  BY <1>1, Invariance, PTL

(* The initialiser of a stub is called at most once, whoever waits,        *)
(* retries or is resumed in the meantime ...                               *)
THEOREM InitialisedAtMostOnce == Spec => []InitOnce
<1>1. IInv => InitOnce
  BY DEF IInv, RunAgrees, InitOnce
<1> QED
  BY <1>1, Invariance, PTL

(* ... and always through a closure the fetch function has not cleared.    *)
THEOREM ClosureAtCall == Spec => []ClosureThere
<1>1. IInv => ClosureThere
  <2> SUFFICES ASSUME IInv, NEW a \in Acts, pc[a] \in {"init", "value"}
               PROVE  closure[Target[a]]
    BY DEF ClosureThere
  <2>1. Holds(a) /\ Flag(a) # Done
    BY DEF IInv, FlagAgrees, Holds, Holding
  <2>2. ASSUME NEW b \in Acts, Target[b] = Target[a] PROVE pc[b] # "release"
    BY <2>1, <2>2 DEF IInv, OneHolder, Holds, Holding
  <2> QED
    BY <2>1, <2>2, TargetAssumption DEF IInv, RunAgrees, Flag
<1> QED
  BY <1>1, Invariance, PTL

(* Publication: a fetch returns the value the initialiser's run stored.    *)
THEOREM FetchReturnsValue == Spec => [](DoneHasValue /\ ReadsValue)
<1>1. IInv => DoneHasValue /\ ReadsValue
  BY DEF IInv
<1> QED
  BY <1>1, Invariance, PTL

-----------------------------------------------------------------------------
(* A second layer, about the waiters: the strengthening of WaiterReachable,*)
(* of ResumedOnce and of the refinement of OnceCell.                       *)

(* An activation whose waiter is not in a chain yet ...                    *)
Fresh(a) == pc[a] \in {"idle", "test1", "acquire", "take", "load", "enqueue"}

(* ... is pointed to by nothing.                                           *)
Unpointed == \A a \in Acts : Fresh(a) =>
  /\ \A s \in Stubs : flag[s] # a
  /\ \A b \in Acts : link[b] # a /\ cursor[b] # a /\ after[b] # a /\ expected[b] # a

(* A waiter about to be enqueued has its link; one that has been walked    *)
(* has lost it.                                                            *)
LinksAgree == \A a \in Acts :
  /\ pc[a] = "enqueue" => link[a] = IF expected[a] = Held THEN Null ELSE expected[a]
  /\ tstate[a] = "COMPLETE" => link[a] = Null
  /\ pc[a] = "wake" => link[cursor[a]] = Null

(* The waiter's task, from its creation to its one resumption.             *)
TasksAgree == \A a \in Acts :
  /\ Fresh(a) => tstate[a] \in {"none", "PENDING"}
  /\ a \in posted => pc[a] = "parked" /\ tstate[a] = "COMPLETE"
  /\ pc[a] = "parked" => tstate[a] = "CALLBACK" \/ a \in posted
  /\ resumes[a] <= 1
  /\ resumes[a] = 1 => Flag(a) = Done /\ pc[a] \in {"test2", "read", "done"}

(* One releaser walks the chain of a stub.                                 *)
Walks(a) == pc[a] \in {"walk", "wake"}
OneWalker == \A a, b \in Acts :
  Walks(a) /\ Walks(b) /\ Target[a] = Target[b] => a = b

(* The value is stored between the run and the release, and nowhere else.  *)
ValueAgrees == \A s \in Stubs : value[s] /\ flag[s] # Done =>
  \E a \in Acts : Target[a] = s /\ pc[a] \in {"closure", "release"}

WInv ==
  /\ Unpointed /\ LinksAgree /\ TasksAgree /\ OneWalker /\ ValueAgrees
  /\ WaiterReachable

-----------------------------------------------------------------------------
(* Chains.  A chain holds its first waiter, ...                            *)
Links == [Acts -> Acts \cup {Null}]

LEMMA ChainHead ==
  ASSUME NEW lk, NEW x \in Acts
  PROVE  x \in ChainIn(lk, x)
BY DEF ChainIn

(* ... ends where a link is null, ...                                      *)
LEMMA ChainStop ==
  ASSUME NEW lk, NEW x \in Acts, lk[x] = Null, NEW a \in ChainIn(lk, x)
  PROVE  a = x
<1>1. {x} \in SUBSET Acts /\ Closed(lk, {x})
  BY DEF Closed
<1> QED
  BY <1>1 DEF ChainIn

(* ... grows at its head, ...                                              *)
LEMMA ChainPush ==
  ASSUME NEW lk, NEW h \in Acts, NEW a \in ChainIn(lk, lk[h])
  PROVE  a \in ChainIn(lk, h)
<1>1. lk[h] \in Acts /\ lk[h] # Null /\ a \in Acts
  BY FlagAssumption DEF ChainIn
<1>2. ASSUME NEW S \in SUBSET Acts, h \in S, Closed(lk, S) PROVE a \in S
  <2>1. lk[h] \in S
    BY <1>1, <1>2 DEF Closed
  <2> QED
    BY <2>1, <1>2 DEF ChainIn
<1> QED
  BY <1>1, <1>2 DEF ChainIn

(* ... and shrinks there;                                                  *)
LEMMA ChainPop ==
  ASSUME NEW lk \in Links, NEW c \in Acts, NEW a \in ChainIn(lk, c), a # c
  PROVE  a \in ChainIn([lk EXCEPT ![c] = Null], lk[c])
<1> DEFINE mk == [lk EXCEPT ![c] = Null]
<1>1. lk[c] \in Acts /\ a \in Acts
  BY ChainStop DEF Links, ChainIn
<1>2. ASSUME NEW S \in SUBSET Acts, lk[c] \in S, Closed(mk, S) PROVE a \in S
  <2>1. Closed(lk, S \cup {c})
    <3> SUFFICES ASSUME NEW x \in S \cup {c}, lk[x] # Null PROVE lk[x] \in S \cup {c}
      BY DEF Closed
    <3>1. CASE x = c
      BY <3>1, <1>2
    <3>2. CASE x # c
      <4>1. mk[x] = lk[x] /\ x \in S
        BY <3>2 DEF Links
      <4> QED
        BY <4>1, <1>2 DEF Closed
    <3> QED
      BY <3>1, <3>2
  <2>2. S \cup {c} \in SUBSET Acts
    OBVIOUS
  <2>3. a \in S \cup {c}
    BY <2>1, <2>2 DEF ChainIn
  <2> QED
    BY <2>3
<1> QED
  BY <1>1, <1>2 DEF ChainIn

(* a chain keeps its waiters when the link that changes is of one that     *)
(* nothing points to, ...                                                  *)
LEMMA ChainBeside ==
  ASSUME NEW lk \in Links, NEW c \in Acts, NEW v, NEW x, NEW a \in ChainIn(lk, x),
         x # c, \A y \in Acts : lk[y] # c
  PROVE  a \in ChainIn([lk EXCEPT ![c] = v], x)
<1> DEFINE mk == [lk EXCEPT ![c] = v]
<1>1. x \in Acts /\ a \in Acts
  BY DEF ChainIn
<1>2. ASSUME NEW S \in SUBSET Acts, x \in S, Closed(mk, S) PROVE a \in S
  <2>1. Closed(lk, S \ {c})
    <3> SUFFICES ASSUME NEW y \in S \ {c}, lk[y] # Null PROVE lk[y] \in S \ {c}
      BY DEF Closed
    <3>1. mk[y] = lk[y] /\ y \in Acts
      BY DEF Links
    <3> QED
      BY <3>1, <1>2 DEF Closed
  <2>2. S \ {c} \in SUBSET Acts /\ x \in S \ {c}
    BY <1>2
  <2> QED
    BY <2>1, <2>2 DEF ChainIn
<1> QED
  BY <1>1, <1>2 DEF ChainIn

(* ... or of another stub.                                                 *)
LEMMA ChainElsewhere ==
  ASSUME NEW lk \in Links, \A y \in Acts : lk[y] # Null => Target[lk[y]] = Target[y],
         NEW c \in Acts, NEW v, NEW x, NEW a \in ChainIn(lk, x), Target[x] # Target[c]
  PROVE  a \in ChainIn([lk EXCEPT ![c] = v], x)
<1> DEFINE mk == [lk EXCEPT ![c] = v]
<1>1. x \in Acts /\ a \in Acts
  BY DEF ChainIn
<1>2. ASSUME NEW S \in SUBSET Acts, x \in S, Closed(mk, S) PROVE a \in S
  <2> DEFINE T == {y \in S : Target[y] = Target[x]}
  <2>1. Closed(lk, T)
    <3> SUFFICES ASSUME NEW y \in T, lk[y] # Null PROVE lk[y] \in T
      BY DEF Closed
    <3>1. mk[y] = lk[y] /\ y \in S /\ y \in Acts
      BY DEF Links
    <3>2. lk[y] \in S
      BY <3>1, <1>2 DEF Closed
    <3> QED
      BY <3>1, <3>2
  <2>2. T \in SUBSET Acts /\ x \in T
    BY <1>2
  <2>3. a \in T
    BY <2>1, <2>2 DEF ChainIn
  <2> QED
    BY <2>3
<1> QED
  BY <1>1, <1>2 DEF ChainIn

(* The waiters of a chain are of its stub.                                 *)
LEMMA ChainStub ==
  ASSUME NEW lk \in Links, \A y \in Acts : lk[y] # Null => Target[lk[y]] = Target[y],
         NEW x, NEW a \in ChainIn(lk, x)
  PROVE  x \in Acts /\ a \in Acts /\ Target[a] = Target[x]
<1>1. x \in Acts /\ a \in Acts
  BY DEF ChainIn
<1> DEFINE T == {y \in Acts : Target[y] = Target[x]}
<1>2. Closed(lk, T)
  BY DEF Closed, Links
<1>3. a \in T
  BY <1>1, <1>2 DEF ChainIn
<1> QED
  BY <1>1, <1>3

(* A step that leaves the chains, their heads and their walkers loses      *)
(* nobody, if the waiters it takes out of a queue are resumed and those it *)
(* parks can be found.                                                     *)
Waits(a) == pc[a] \in {"store", "cas", "parked"}
WalkedBy(a, b) ==
  /\ Target[b] = Target[a]
  /\ \/ pc[b] \in {"walk", "wake"} /\ a \in Chained(cursor[b])
     \/ pc[b] = "wake" /\ a \in Chained(after[b])

LEMMA QuietKeeps ==
  ASSUME WaiterReachable, UNCHANGED <<link, cursor, after>>,
         \A s \in Stubs : flag[s] \in Acts => flag'[s] = flag[s],
         \A a \in Acts : Waits(a)' =>
           /\ Waits(a)
           /\ a \in posted => a \in posted'
           /\ tstate[a] = "COMPLETE" /\ pc[a] # "parked"
                => a \in posted' \/ (tstate'[a] = "COMPLETE" /\ pc'[a] # "parked"),
         \A b \in Acts : pc[b] = "wake" \/ (pc[b] = "walk" /\ cursor[b] # Null)
           => pc'[b] = pc[b]
  PROVE  WaiterReachable'
<1> SUFFICES ASSUME NEW a \in Acts, Waits(a)' PROVE Found(a)'
  BY DEF WaiterReachable, Waits
<1>1. Found(a) /\ Waits(a)
  BY DEF WaiterReachable, Waits
<1>2. CASE a \in posted \/ (tstate[a] = "COMPLETE" /\ pc[a] # "parked")
  BY <1>2 DEF Found
<1>3. CASE a \in Chained(Flag(a))
  <2>1. Flag(a) \in Acts /\ Flag(a)' = Flag(a)
    BY <1>3, TargetAssumption DEF Chained, ChainIn, Flag
  <2> QED
    BY <1>3, <2>1 DEF Found, Chained
<1>4. CASE \E b \in Acts : WalkedBy(a, b)
  <2>1. PICK b \in Acts : WalkedBy(a, b)
    BY <1>4
  <2>2. pc'[b] = pc[b]
    BY <2>1, FlagAssumption DEF WalkedBy, Chained, ChainIn
  <2> QED
    BY <2>1, <2>2 DEF Found, WalkedBy, Chained
<1> QED
  BY <1>1, <1>2, <1>3, <1>4 DEF Found, WalkedBy

(* A step that changes one link, and nothing else of the chains, loses     *)
(* nobody when nothing points to the waiter whose link it is.              *)
LEMMA BesideKeeps ==
  ASSUME WaiterReachable, Unpointed, link \in Links, NEW c \in Acts, Fresh(c), NEW v,
         link' = [link EXCEPT ![c] = v], UNCHANGED <<flag, posted, cursor, after, tstate>>,
         \A a \in Acts \ {c} : pc'[a] = pc[a], pc'[c] \notin {"store", "cas", "parked"}
  PROVE  WaiterReachable'
<1> SUFFICES ASSUME NEW a \in Acts \ {c}, pc'[a] \in {"store", "cas", "parked"} PROVE Found(a)'
  BY DEF WaiterReachable
<1>1. Found(a) /\ pc'[a] = pc[a]
  BY DEF WaiterReachable
<1>2. ASSUME NEW x, x # c, a \in ChainIn(link, x) PROVE a \in ChainIn(link', x)
  BY <1>2, ChainBeside DEF Unpointed
<1>3. Flag(a) # c /\ \A b \in Acts : cursor[b] # c /\ after[b] # c
  BY TargetAssumption DEF Unpointed, Flag
<1>4. CASE a \in Chained(Flag(a))
  BY <1>2, <1>3, <1>4 DEF Found, Chained, Flag
<1>5. CASE \E b \in Acts : WalkedBy(a, b)
  <2>1. PICK b \in Acts : WalkedBy(a, b)
    BY <1>5
  <2>2. pc'[b] = pc[b]
    BY <2>1 DEF Fresh, WalkedBy
  <2> QED
    BY <1>2, <1>3, <2>1, <2>2 DEF Found, WalkedBy, Chained
<1> QED
  BY <1>1, <1>4, <1>5 DEF Found, WalkedBy

(* A waiter that links itself to the flag it has read keeps WInv.          *)
LEMMA LinkToKeeps ==
  ASSUME IInv, WInv, NEW a \in Acts, pc[a] \in {"load", "enqueue"}, LinkTo(a, Flag(a)),
         UNCHANGED <<stubVars, tstate, callback, posted, cursor, after, got, inits, resumes>>
  PROVE  WInv'
<1>0. /\ TypeOK /\ FlagAgrees /\ OneHolder /\ link \in Links
      /\ Unpointed /\ LinksAgree /\ TasksAgree /\ OneWalker /\ ValueAgrees /\ WaiterReachable
  BY DEF IInv, WInv, TypeOK, Links
<1> DEFINE v == Flag(a)
<1>1. v \in FlagValues /\ v # a
  BY <1>0, TargetAssumption, FlagAssumption DEF TypeOK, Flag, Unpointed, Fresh
<1>2. /\ expected' = [expected EXCEPT ![a] = v]
      /\ \/ v \in {Null, Done} /\ pc' = [pc EXCEPT ![a] = "acquire"] /\ link' = link
         \/ /\ v \notin {Null, Done} /\ pc' = [pc EXCEPT ![a] = "enqueue"]
            /\ link' = [link EXCEPT ![a] = IF v = Held THEN Null ELSE v]
      /\ UNCHANGED <<flag, value, tstate, callback, posted, cursor, after, resumes>>
  BY DEF LinkTo, Goto, stubVars
<1>3. /\ pc'[a] \in {"acquire", "enqueue"} /\ Fresh(a) /\ Fresh(a)'
      /\ \A b \in Acts \ {a} : pc'[b] = pc[b] /\ link'[b] = link[b] /\ expected'[b] = expected[b]
  BY <1>0, <1>2 DEF TypeOK, Fresh
<1>4. \A b \in Acts : \A s \in Stubs : flag[s] = b => ~Fresh(b)
  BY <1>0 DEF Unpointed
<1> HIDE DEF v
<1>5. Unpointed'
  <2> SUFFICES ASSUME NEW b \in Acts, Fresh(b)'
               PROVE  /\ \A s \in Stubs : flag[s] # b
                      /\ \A c \in Acts : link'[c] # b /\ cursor[c] # b /\ after[c] # b /\ expected'[c] # b
    BY <1>2 DEF Unpointed
  <2>1. Fresh(b)
    BY <1>3 DEF Fresh
  <2>2. v # b
    BY <1>4, <2>1, TargetAssumption DEF v, Flag
  <2>3. link'[a] # b /\ expected'[a] # b
    BY <1>0, <1>2, <2>1, <2>2, FlagAssumption DEF TypeOK, Unpointed
  <2> QED
    BY <1>0, <1>3, <2>1, <2>3 DEF Unpointed
<1>6. LinksAgree'
  <2> SUFFICES ASSUME NEW b \in Acts
               PROVE  /\ pc'[b] = "enqueue" => link'[b] = IF expected'[b] = Held THEN Null ELSE expected'[b]
                      /\ tstate[b] = "COMPLETE" => link'[b] = Null
                      /\ pc'[b] = "wake" => link'[cursor[b]] = Null
    BY <1>2 DEF LinksAgree
  <2>1. CASE b = a
    BY <1>0, <1>1, <1>2, <1>3, <2>1 DEF TypeOK, TasksAgree
  <2>2. CASE b # a
    <3>1. cursor[b] # a /\ (pc[b] = "wake" => cursor[b] \in Acts)
      BY <1>0, <1>3 DEF Unpointed, TypeOK, FlagAgrees
    <3> QED
      BY <1>0, <1>3, <2>2, <3>1 DEF LinksAgree
  <2> QED
    BY <2>1, <2>2
<1>7. TasksAgree'
  BY <1>0, <1>2, <1>3 DEF TasksAgree, Fresh, Flag
<1>8. OneWalker' /\ ValueAgrees'
  BY <1>0, <1>2, <1>3 DEF OneWalker, Walks, ValueAgrees
<1>9. WaiterReachable'
  <2>1. PICK w : link' = [link EXCEPT ![a] = w]
    <3>1. link' = link => link' = [link EXCEPT ![a] = link[a]]
      BY <1>0 DEF Links
    <3> QED
      BY <1>2, <3>1
  <2> QED
    BY <1>0, <1>2, <1>3, <2>1, BesideKeeps
<1> QED
  BY <1>5, <1>6, <1>7, <1>8, <1>9 DEF WInv

-----------------------------------------------------------------------------
LEMMA InitWInv == Init => WInv
BY TargetAssumption, FlagAssumption
DEF Init, WInv, Unpointed, LinksAgree, TasksAgree, OneWalker, ValueAgrees, WaiterReachable,
    Fresh, Walks

(* Every step of a program that satisfies IInv keeps it.                   *)
LEMMA NextWInv == IInv /\ WInv /\ [Next]_vars => WInv'
<1> SUFFICES ASSUME IInv, WInv, [Next]_vars PROVE WInv'
  OBVIOUS
<1> USE TargetAssumption, FlagAssumption
<1>0. TypeOK /\ SameStub /\ FlagAgrees /\ OneHolder /\ RunAgrees
  BY DEF IInv
<1>a. Unpointed /\ LinksAgree /\ TasksAgree /\ OneWalker /\ ValueAgrees /\ WaiterReachable
  BY DEF WInv
<1> USE DEF TypeOK, FlagValues, TaskStates, PCs, Goto, Flag,
            stubVars, taskVars, localVars
<1>1. ASSUME NEW a \in Acts, Call(a) PROVE WInv'
  <2>1. Unpointed'
    BY <1>0, <1>a, <1>1 DEF Call, Unpointed, Fresh
  <2>2. LinksAgree'
    BY <1>0, <1>a, <1>1 DEF Call, LinksAgree, TasksAgree, Unpointed, Fresh
  <2>3. TasksAgree'
    BY <1>0, <1>a, <1>1 DEF Call, TasksAgree, Fresh, Unpointed, FlagAgrees
  <2>4. OneWalker'
    BY <1>0, <1>a, <1>1 DEF Call, OneWalker, Walks, FlagAgrees, Holds, Holding
  <2>5. ValueAgrees'
    BY <1>0, <1>a, <1>1 DEF Call, ValueAgrees, FlagAgrees, OneHolder, Holds, Holding
  <2>6. WaiterReachable'
    BY <1>0, <1>a, <1>1, QuietKeeps DEF Call, Waits
  <2> QED
    BY <2>1, <2>2, <2>3, <2>4, <2>5, <2>6 DEF WInv
<1>2. ASSUME NEW a \in Acts, Take(a) PROVE WInv'
  <2>1. Unpointed'
    BY <1>0, <1>a, <1>2 DEF Take, Unpointed, Fresh
  <2>2. LinksAgree'
    BY <1>0, <1>a, <1>2 DEF Take, LinksAgree, TasksAgree, Unpointed, Fresh
  <2>3. TasksAgree'
    BY <1>0, <1>a, <1>2 DEF Take, TasksAgree, Fresh, Unpointed, FlagAgrees
  <2>4. OneWalker'
    BY <1>0, <1>a, <1>2 DEF Take, OneWalker, Walks, FlagAgrees, Holds, Holding
  <2>5. ValueAgrees'
    BY <1>0, <1>a, <1>2 DEF Take, ValueAgrees, FlagAgrees, OneHolder, Holds, Holding
  <2>6. WaiterReachable'
    BY <1>0, <1>a, <1>2, QuietKeeps DEF Take, Waits
  <2> QED
    BY <2>1, <2>2, <2>3, <2>4, <2>5, <2>6 DEF WInv
<1>3. ASSUME NEW a \in Acts, Test1(a) PROVE WInv'
  <2>1. Unpointed'
    BY <1>0, <1>a, <1>3 DEF Test1, Unpointed, Fresh
  <2>2. LinksAgree'
    BY <1>0, <1>a, <1>3 DEF Test1, LinksAgree, TasksAgree, Unpointed, Fresh
  <2>3. TasksAgree'
    BY <1>0, <1>a, <1>3 DEF Test1, TasksAgree, Fresh, Unpointed, FlagAgrees
  <2>4. OneWalker'
    BY <1>0, <1>a, <1>3 DEF Test1, OneWalker, Walks, FlagAgrees, Holds, Holding
  <2>5. ValueAgrees'
    BY <1>0, <1>a, <1>3 DEF Test1, ValueAgrees, FlagAgrees, OneHolder, Holds, Holding
  <2>6. WaiterReachable'
    BY <1>0, <1>a, <1>3, QuietKeeps DEF Test1, Waits
  <2> QED
    BY <2>1, <2>2, <2>3, <2>4, <2>5, <2>6 DEF WInv
<1>4. ASSUME NEW a \in Acts, Acquire(a) PROVE WInv'
  <2>1. Unpointed'
    BY <1>0, <1>a, <1>4 DEF Acquire, Unpointed, Fresh
  <2>2. LinksAgree'
    BY <1>0, <1>a, <1>4 DEF Acquire, LinksAgree, TasksAgree, Unpointed, Fresh
  <2>3. TasksAgree'
    BY <1>0, <1>a, <1>4 DEF Acquire, TasksAgree, Fresh, Unpointed, FlagAgrees
  <2>4. OneWalker'
    BY <1>0, <1>a, <1>4 DEF Acquire, OneWalker, Walks, FlagAgrees, Holds, Holding
  <2>5. ValueAgrees'
    BY <1>0, <1>a, <1>4 DEF Acquire, ValueAgrees, FlagAgrees, OneHolder, Holds, Holding
  <2>6. WaiterReachable'
    BY <1>0, <1>a, <1>4, QuietKeeps DEF Acquire, Waits
  <2> QED
    BY <2>1, <2>2, <2>3, <2>4, <2>5, <2>6 DEF WInv
<1>5. ASSUME NEW a \in Acts, Load(a) PROVE WInv'
  <2> HIDE DEF TypeOK, FlagValues, TaskStates, PCs, Goto, Flag, stubVars, taskVars, localVars
  <2> QED
    BY <1>5, LinkToKeeps DEF Load
<1>6. ASSUME NEW a \in Acts, Enqueue(a) PROVE WInv'
  <2>1. CASE Flag(a) # expected[a]
    <3> HIDE DEF TypeOK, FlagValues, TaskStates, PCs, Goto, Flag, stubVars, taskVars, localVars
    <3> QED
      BY <1>6, <2>1, LinkToKeeps DEF Enqueue, stubVars
  <2>2. CASE Flag(a) = expected[a]
    <3>0. /\ flag' = [flag EXCEPT ![Target[a]] = a] /\ pc[a] = "enqueue" /\ pc' = [pc EXCEPT ![a] = "store"]
          /\ UNCHANGED <<expected, link, value, tstate, posted, cursor, after, resumes>>
      BY <1>6, <2>2 DEF Enqueue
    <3>1. Unpointed'
      BY <1>0, <1>a, <3>0 DEF Unpointed, Fresh
    <3>2. LinksAgree'
      BY <1>0, <1>a, <3>0 DEF LinksAgree
    <3>7. Flag(a) # Done
      BY <1>0, <2>2, <3>0 DEF FlagAgrees
    <3>3. TasksAgree'
      <4>1. \A b \in Acts : Flag(b) = Done => Target[b] # Target[a] /\ Flag(b)' = Done
        BY <1>0, <3>0, <3>7
      <4>2. \A b \in Acts \ {a} : pc'[b] = pc[b]
        BY <1>0, <3>0
      <4>3. Fresh(a) /\ pc'[a] = "store"
        BY <1>0, <3>0 DEF Fresh
      <4>4. resumes[a] = 0
        <5>1. resumes[a] \in Nat /\ resumes[a] <= 1
          BY <1>0, <1>a, <3>0 DEF TasksAgree
        <5>2. resumes[a] # 1
          BY <1>a, <3>7 DEF TasksAgree
        <5> QED
          BY <5>1, <5>2
      <4>5. a \notin posted
        BY <1>0, <1>a, <3>0 DEF TasksAgree
      <4> QED
        BY <1>0, <1>a, <3>0, <4>1, <4>2, <4>3, <4>4, <4>5 DEF TasksAgree, Fresh
    <3>4. OneWalker'
      BY <1>0, <1>a, <3>0 DEF OneWalker, Walks
    <3>5. ValueAgrees'
      <4> SUFFICES ASSUME NEW s \in Stubs, value[s], flag'[s] # Done
                   PROVE  \E b \in Acts : Target[b] = s /\ pc'[b] \in {"closure", "release"}
        BY <3>0 DEF ValueAgrees
      <4>1. flag[s] # Done
        BY <1>0, <3>0, <3>7
      <4>2. PICK b \in Acts : Target[b] = s /\ pc[b] \in {"closure", "release"}
        BY <1>a, <4>1 DEF ValueAgrees
      <4> QED
        BY <1>0, <3>0, <4>2
    <3>6. WaiterReachable'
      <4> SUFFICES ASSUME NEW b \in Acts, Waits(b)' PROVE Found(b)'
        BY DEF WaiterReachable, Waits
      <4>1. CASE b = a
        <5>1. a \in ChainIn(link', flag'[Target[a]])
          BY <1>0, <3>0, ChainHead
        <5> QED
          BY <4>1, <5>1 DEF Found, Chained
      <4>2. CASE b # a
        <5>1. Found(b) /\ pc'[b] = pc[b]
          BY <1>a, <3>0, <4>2 DEF WaiterReachable, Waits
        <5>2. CASE b \in Chained(Flag(b)) /\ Target[b] = Target[a]
          <6>1. link[a] = Flag(b)
            <7>1. Flag(b) \in Acts
              BY <5>2 DEF Chained, ChainIn
            <7> QED
              BY <1>a, <2>2, <3>0, <5>2, <7>1 DEF LinksAgree
          <6>2. b \in ChainIn(link, a)
            BY <5>2, <6>1, ChainPush DEF Chained
          <6> QED
            BY <1>0, <3>0, <5>2, <6>2 DEF Found, Chained
        <5>3. CASE b \in Chained(Flag(b)) /\ Target[b] # Target[a]
          BY <1>0, <3>0, <5>3 DEF Found, Chained
        <5>4. CASE \E c \in Acts : WalkedBy(b, c)
          BY <1>0, <3>0, <5>4 DEF Found, WalkedBy, Chained
        <5> QED
          BY <3>0, <5>1, <5>2, <5>3, <5>4 DEF Found, WalkedBy
      <4> QED
        BY <4>1, <4>2
    <3> QED
      BY <3>1, <3>2, <3>3, <3>4, <3>5, <3>6 DEF WInv
  <2> QED
    BY <2>1, <2>2
<1>7. ASSUME NEW a \in Acts, StoreCallback(a) PROVE WInv'
  <2>1. Unpointed'
    BY <1>0, <1>a, <1>7 DEF StoreCallback, Unpointed, Fresh
  <2>2. LinksAgree'
    BY <1>0, <1>a, <1>7 DEF StoreCallback, LinksAgree, TasksAgree, Unpointed, Fresh
  <2>3. TasksAgree'
    BY <1>0, <1>a, <1>7 DEF StoreCallback, TasksAgree, Fresh, Unpointed, FlagAgrees
  <2>4. OneWalker'
    BY <1>0, <1>a, <1>7 DEF StoreCallback, OneWalker, Walks, FlagAgrees, Holds, Holding
  <2>5. ValueAgrees'
    BY <1>0, <1>a, <1>7 DEF StoreCallback, ValueAgrees, FlagAgrees, OneHolder, Holds,
       Holding
  <2>6. WaiterReachable'
    BY <1>0, <1>a, <1>7, QuietKeeps DEF StoreCallback, Waits
  <2> QED
    BY <2>1, <2>2, <2>3, <2>4, <2>5, <2>6 DEF WInv
<1>8. ASSUME NEW a \in Acts, RegisterCas(a) PROVE WInv'
  <2>0. /\ link' = link
        /\ tstate[a] # "PENDING" => tstate[a] = "COMPLETE" /\ posted' = posted \cup {a}
    <3>1. tstate[a] # "PENDING" => tstate[a] = "COMPLETE" /\ link[a] = Null
      BY <1>0, <1>a, <1>8 DEF RegisterCas, LinksAgree, FlagAgrees
    <3> QED
      BY <1>0, <1>8, <3>1 DEF RegisterCas, Post
  <2>1. Unpointed'
    BY <1>0, <1>a, <1>8 DEF RegisterCas, Post, Unpointed, Fresh
  <2>2. LinksAgree'
    BY <1>0, <1>a, <1>8, <2>0 DEF RegisterCas, LinksAgree
  <2>3. TasksAgree'
    BY <1>0, <1>a, <1>8 DEF RegisterCas, Post, TasksAgree, Fresh, Unpointed, FlagAgrees
  <2>4. OneWalker'
    BY <1>0, <1>a, <1>8 DEF RegisterCas, Post, OneWalker, Walks, FlagAgrees, Holds,
       Holding
  <2>5. ValueAgrees'
    BY <1>0, <1>a, <1>8 DEF RegisterCas, Post, ValueAgrees, FlagAgrees, OneHolder,
       Holds, Holding
  <2>6. WaiterReachable'
    BY <1>0, <1>a, <1>8, <2>0, QuietKeeps DEF RegisterCas, Post, Waits
  <2> QED
    BY <2>1, <2>2, <2>3, <2>4, <2>5, <2>6 DEF WInv
<1>9. ASSUME NEW a \in Acts, Resume(a) PROVE WInv'
  <2>1. Unpointed'
    BY <1>0, <1>a, <1>9 DEF Resume, Unpointed, Fresh
  <2>2. LinksAgree'
    BY <1>0, <1>a, <1>9 DEF Resume, LinksAgree, TasksAgree, Unpointed, Fresh
  <2>3. TasksAgree'
    <3>0. a \in posted
      BY <1>9 DEF Resume
    <3>1. resumes[a] = 0 /\ Flag(a) = Done
      <4>1. pc[a] = "parked" /\ resumes[a] \in Nat /\ Flag(a) = Done
        BY <1>0, <1>a, <3>0 DEF TasksAgree, FlagAgrees
      <4>2. resumes[a] <= 1 /\ resumes[a] # 1
        BY <1>a, <4>1 DEF TasksAgree
      <4> QED
        BY <4>1, <4>2
    <3> QED
      BY <1>0, <1>a, <1>9, <3>1 DEF Resume, TasksAgree, Fresh
  <2>4. OneWalker'
    BY <1>0, <1>a, <1>9 DEF Resume, OneWalker, Walks, FlagAgrees, Holds, Holding
  <2>5. ValueAgrees'
    BY <1>0, <1>a, <1>9 DEF Resume, ValueAgrees, FlagAgrees, OneHolder, Holds, Holding
  <2>6. WaiterReachable'
    <3>0. /\ posted' = posted \ {a} /\ pc' = [pc EXCEPT ![a] = "test2"] /\ pc[a] = "parked"
          /\ tstate' = [tstate EXCEPT ![a] = "COMPLETE"] /\ UNCHANGED <<flag, link, cursor, after>>
      BY <1>a, <1>9 DEF Resume, TasksAgree
    <3>1. /\ pc'[a] = "test2"
          /\ \A b \in Acts \ {a} : pc'[b] = pc[b] /\ tstate'[b] = tstate[b]
      BY <1>0, <3>0
    <3>2. \A b \in Acts : Waits(b)' => Waits(b) /\ b # a
      BY <3>1 DEF Waits
    <3> QED
      BY <1>a, <3>0, <3>1, <3>2, QuietKeeps
  <2> QED
    BY <2>1, <2>2, <2>3, <2>4, <2>5, <2>6 DEF WInv
<1>10. ASSUME NEW a \in Acts, Test2(a) PROVE WInv'
  <2>1. Unpointed'
    BY <1>0, <1>a, <1>10 DEF Test2, Unpointed, Fresh
  <2>2. LinksAgree'
    BY <1>0, <1>a, <1>10 DEF Test2, LinksAgree, TasksAgree, Unpointed, Fresh
  <2>3. TasksAgree'
    BY <1>0, <1>a, <1>10 DEF Test2, TasksAgree, Fresh, Unpointed, FlagAgrees
  <2>4. OneWalker'
    BY <1>0, <1>a, <1>10 DEF Test2, OneWalker, Walks, FlagAgrees, Holds, Holding
  <2>5. ValueAgrees'
    BY <1>0, <1>a, <1>10 DEF Test2, ValueAgrees, FlagAgrees, OneHolder, Holds, Holding
  <2>6. WaiterReachable'
    BY <1>0, <1>a, <1>10, QuietKeeps DEF Test2, Waits
  <2> QED
    BY <2>1, <2>2, <2>3, <2>4, <2>5, <2>6 DEF WInv
<1>11. ASSUME NEW a \in Acts, InitReturn(a) PROVE WInv'
  <2>1. Unpointed'
    BY <1>0, <1>a, <1>11 DEF InitReturn, Unpointed, Fresh
  <2>2. LinksAgree'
    BY <1>0, <1>a, <1>11 DEF InitReturn, LinksAgree, TasksAgree, Unpointed, Fresh
  <2>3. TasksAgree'
    BY <1>0, <1>a, <1>11 DEF InitReturn, TasksAgree, Fresh, Unpointed, FlagAgrees
  <2>4. OneWalker'
    BY <1>0, <1>a, <1>11 DEF InitReturn, OneWalker, Walks, FlagAgrees, Holds, Holding
  <2>5. ValueAgrees'
    BY <1>0, <1>a, <1>11 DEF InitReturn, ValueAgrees, FlagAgrees, OneHolder, Holds,
       Holding
  <2>6. WaiterReachable'
    BY <1>0, <1>a, <1>11, QuietKeeps DEF InitReturn, Waits
  <2> QED
    BY <2>1, <2>2, <2>3, <2>4, <2>5, <2>6 DEF WInv
<1>12. ASSUME NEW a \in Acts, StoreValue(a) PROVE WInv'
  <2>1. Unpointed'
    BY <1>0, <1>a, <1>12 DEF StoreValue, Unpointed, Fresh
  <2>2. LinksAgree'
    BY <1>0, <1>a, <1>12 DEF StoreValue, LinksAgree, TasksAgree, Unpointed, Fresh
  <2>3. TasksAgree'
    BY <1>0, <1>a, <1>12 DEF StoreValue, TasksAgree, Fresh, Unpointed, FlagAgrees
  <2>4. OneWalker'
    BY <1>0, <1>a, <1>12 DEF StoreValue, OneWalker, Walks, FlagAgrees, Holds, Holding
  <2>5. ValueAgrees'
    BY <1>0, <1>a, <1>12 DEF StoreValue, ValueAgrees, FlagAgrees, OneHolder, Holds,
       Holding
  <2>6. WaiterReachable'
    BY <1>0, <1>a, <1>12, QuietKeeps DEF StoreValue, Waits
  <2> QED
    BY <2>1, <2>2, <2>3, <2>4, <2>5, <2>6 DEF WInv
<1>13. ASSUME NEW a \in Acts, ClearClosure(a) PROVE WInv'
  <2>1. Unpointed'
    BY <1>0, <1>a, <1>13 DEF ClearClosure, Unpointed, Fresh
  <2>2. LinksAgree'
    BY <1>0, <1>a, <1>13 DEF ClearClosure, LinksAgree, TasksAgree, Unpointed, Fresh
  <2>3. TasksAgree'
    BY <1>0, <1>a, <1>13 DEF ClearClosure, TasksAgree, Fresh, Unpointed, FlagAgrees
  <2>4. OneWalker'
    BY <1>0, <1>a, <1>13 DEF ClearClosure, OneWalker, Walks, FlagAgrees, Holds, Holding
  <2>5. ValueAgrees'
    BY <1>0, <1>a, <1>13 DEF ClearClosure, ValueAgrees, FlagAgrees, OneHolder, Holds,
       Holding
  <2>6. WaiterReachable'
    BY <1>0, <1>a, <1>13, QuietKeeps DEF ClearClosure, Waits
  <2> QED
    BY <2>1, <2>2, <2>3, <2>4, <2>5, <2>6 DEF WInv
<1>14. ASSUME NEW a \in Acts, Release(a) PROVE WInv'
  <2>1. Unpointed'
    BY <1>0, <1>a, <1>14 DEF Release, Unpointed, Fresh
  <2>2. LinksAgree'
    BY <1>0, <1>a, <1>14 DEF Release, LinksAgree, TasksAgree, Unpointed, Fresh
  <2>3. TasksAgree'
    BY <1>0, <1>a, <1>14 DEF Release, TasksAgree, Fresh, Unpointed, FlagAgrees
  <2>4. OneWalker'
    BY <1>0, <1>a, <1>14 DEF Release, OneWalker, Walks, FlagAgrees, Holds, Holding
  <2>5. ValueAgrees'
    BY <1>0, <1>a, <1>14 DEF Release, ValueAgrees, FlagAgrees, OneHolder, Holds, Holding
  <2>6. WaiterReachable'
    <3> SUFFICES ASSUME NEW b \in Acts, Waits(b)' PROVE Found(b)'
      BY DEF WaiterReachable, Waits
    <3>0. /\ pc[a] = "release" /\ pc' = [pc EXCEPT ![a] = "walk"] /\ UNCHANGED <<link, tstate, posted, after>>
          /\ cursor' = [cursor EXCEPT ![a] = IF Flag(a) = Held THEN Null ELSE Flag(a)]
          /\ flag' = [flag EXCEPT ![Target[a]] = Done]
      BY <1>14 DEF Release
    <3>1. Found(b) /\ pc'[b] = pc[b]
      BY <1>0, <1>a, <3>0 DEF WaiterReachable, Waits
    <3>2. CASE b \in Chained(Flag(b)) /\ Target[b] = Target[a]
      <4>1. cursor'[a] = Flag(b) /\ pc'[a] = "walk"
        BY <1>0, <3>0, <3>2 DEF Chained, ChainIn
      <4> QED
        BY <3>0, <3>2, <4>1 DEF Found, Chained
    <3>3. CASE b \in Chained(Flag(b)) /\ Target[b] # Target[a]
      BY <1>0, <3>0, <3>3 DEF Found, Chained
    <3>4. CASE \E c \in Acts : WalkedBy(b, c)
      <4>1. PICK c \in Acts : WalkedBy(b, c)
        BY <3>4
      <4>2. c # a
        BY <3>0, <4>1 DEF WalkedBy
      <4> QED
        BY <1>0, <3>0, <4>1, <4>2 DEF Found, WalkedBy, Chained
    <3> QED
      BY <3>0, <3>1, <3>2, <3>3, <3>4 DEF Found, WalkedBy
  <2> QED
    BY <2>1, <2>2, <2>3, <2>4, <2>5, <2>6 DEF WInv
<1>15. ASSUME NEW a \in Acts, Walk(a) PROVE WInv'
  <2>1. CASE cursor[a] = Null
    <3>0. pc[a] = "walk" /\ pc' = [pc EXCEPT ![a] = "read"]
          /\ UNCHANGED <<flag, value, link, tstate, posted, expected, cursor, after, resumes>>
      BY <1>15, <2>1 DEF Walk
    <3>1. Unpointed' /\ LinksAgree'
      BY <1>0, <1>a, <3>0 DEF Unpointed, Fresh, LinksAgree
    <3>2. TasksAgree'
      BY <1>0, <1>a, <3>0 DEF TasksAgree, Fresh
    <3>3. OneWalker' /\ ValueAgrees'
      BY <1>0, <1>a, <3>0 DEF OneWalker, Walks, ValueAgrees
    <3>4. WaiterReachable'
      BY <1>0, <1>a, <2>1, <3>0, QuietKeeps DEF Waits
    <3> QED
      BY <3>1, <3>2, <3>3, <3>4 DEF WInv
  <2>2. CASE cursor[a] # Null
    <3> DEFINE c == cursor[a]
    <3>0. /\ pc[a] = "walk" /\ pc' = [pc EXCEPT ![a] = "wake"]
          /\ after' = [after EXCEPT ![a] = link[c]] /\ link' = [link EXCEPT ![c] = Null]
          /\ UNCHANGED <<flag, value, tstate, posted, expected, cursor, resumes>>
          /\ c \in Acts
      BY <1>0, <1>15, <2>2 DEF Walk
    <3>1. ~Fresh(c) /\ Target[c] = Target[a] /\ Flag(a) = Done
      BY <1>0, <1>a, <3>0 DEF Unpointed, SameStub, FlagAgrees
    <3>2. Unpointed'
      BY <1>0, <1>a, <3>0 DEF Unpointed, Fresh
    <3>3. LinksAgree'
      <4> SUFFICES ASSUME NEW b \in Acts
                   PROVE  /\ pc'[b] = "enqueue" => link'[b] = IF expected[b] = Held THEN Null ELSE expected[b]
                          /\ tstate[b] = "COMPLETE" => link'[b] = Null
                          /\ pc'[b] = "wake" => link'[cursor[b]] = Null
        BY <3>0 DEF LinksAgree
      <4>1. pc'[b] = "enqueue" => pc[b] = "enqueue" /\ b # c
        BY <1>0, <3>0, <3>1 DEF Fresh
      <4>2. pc'[b] = "wake" => cursor[b] = c \/ pc[b] = "wake"
        BY <1>0, <3>0
      <4>3. \A x : link[x] = Null => link'[x] = Null
        BY <1>0, <3>0
      <4> QED
        BY <1>0, <1>a, <3>0, <4>1, <4>2, <4>3 DEF LinksAgree
    <3>4. TasksAgree'
      BY <1>0, <1>a, <3>0 DEF TasksAgree, Fresh
    <3>5. OneWalker' /\ ValueAgrees'
      BY <1>0, <1>a, <3>0 DEF OneWalker, Walks, ValueAgrees
    <3>6. WaiterReachable'
      <4> SUFFICES ASSUME NEW b \in Acts, Waits(b)' PROVE Found(b)'
        BY DEF WaiterReachable, Waits
      <4>1. Found(b) /\ pc'[b] = pc[b]
        BY <1>0, <1>a, <3>0 DEF WaiterReachable, Waits
      <4>2. /\ link \in Links /\ \A y \in Acts : link[y] # Null => Target[link[y]] = Target[y]
        BY <1>0 DEF SameStub, Links
      <4>3. ASSUME NEW x \in Acts, Target[x] # Target[a], b \in ChainIn(link, x)
            PROVE  b \in ChainIn(link', x)
        BY <3>0, <3>1, <4>2, <4>3, ChainElsewhere
      <4>4. CASE b \in Chained(Flag(b))
        <5>1. Flag(b) \in Acts /\ Target[Flag(b)] = Target[b] /\ Target[b] # Target[a]
          BY <1>0, <3>1, <4>4 DEF Chained, ChainIn, SameStub
        <5> QED
          BY <3>0, <4>3, <4>4, <5>1 DEF Found, Chained
      <4>5. CASE \E d \in Acts \ {a} : WalkedBy(b, d)
        <5>1. PICK d \in Acts \ {a} : WalkedBy(b, d)
          BY <4>5
        <5>2. Walks(d) /\ Walks(a) /\ Target[d] # Target[a] /\ pc'[d] = pc[d] /\ after'[d] = after[d]
          BY <1>0, <1>a, <3>0, <5>1 DEF WalkedBy, Walks, OneWalker
        <5>3. ASSUME NEW x \in {cursor[d], after[d]}, b \in ChainIn(link, x) PROVE b \in ChainIn(link', x)
          <6>1. x \in Acts
            BY <5>3 DEF ChainIn
          <6>2. Target[x] = Target[d]
            BY <1>0, <5>3, <6>1 DEF SameStub
          <6> QED
            BY <4>3, <5>2, <5>3, <6>1, <6>2
        <5> QED
          BY <3>0, <5>1, <5>2, <5>3 DEF Found, WalkedBy, Chained
      <4>6. CASE WalkedBy(b, a)
        <5>1. b \in ChainIn(link, c) /\ Target[a] = Target[b]
          BY <3>0, <4>6 DEF WalkedBy, Chained
        <5>2. b = c => b \in ChainIn(link', cursor'[a])
          BY <3>0, ChainHead
        <5>3. b # c => b \in ChainIn(link', after'[a])
          <6>1. after'[a] = link[c]
            BY <1>0, <3>0
          <6> QED
            BY <3>0, <4>2, <5>1, <6>1, ChainPop
        <5>4. pc'[a] = "wake"
          BY <1>0, <3>0
        <5> QED
          BY <5>1, <5>2, <5>3, <5>4 DEF Found, Chained
      <4> QED
        BY <3>0, <4>1, <4>4, <4>5, <4>6 DEF Found, WalkedBy
    <3> QED
      BY <3>2, <3>3, <3>4, <3>5, <3>6 DEF WInv
  <2> QED
    BY <2>1, <2>2
<1>16. ASSUME NEW a \in Acts, Wake(a) PROVE WInv'
  <2> DEFINE w == cursor[a]
  <2>0. w \in Acts /\ link[w] = Null /\ link' = link /\ ~Fresh(w)
    <3>1. w \in Acts /\ link[w] = Null /\ ~Fresh(w)
      BY <1>0, <1>a, <1>16 DEF Wake, FlagAgrees, LinksAgree, Unpointed
    <3> QED
      BY <1>0, <1>16, <3>1 DEF Wake, Post
  <2>1. Unpointed'
    BY <1>0, <1>a, <1>16 DEF Wake, Post, Unpointed, Fresh
  <2>2. LinksAgree'
    BY <1>0, <1>a, <1>16 DEF Wake, Post, LinksAgree, TasksAgree, Unpointed, Fresh
  <2>3. TasksAgree'
    BY <1>0, <1>a, <1>16 DEF Wake, Post, TasksAgree, Fresh, Unpointed, FlagAgrees
  <2>4. OneWalker'
    BY <1>0, <1>a, <1>16 DEF Wake, Post, OneWalker, Walks, FlagAgrees, Holds, Holding
  <2>5. ValueAgrees'
    BY <1>0, <1>a, <1>16 DEF Wake, Post, ValueAgrees, FlagAgrees, OneHolder, Holds,
       Holding
  <2>6. WaiterReachable'
    <3> SUFFICES ASSUME NEW b \in Acts, Waits(b)' PROVE Found(b)'
      BY DEF WaiterReachable, Waits
    <3>0. /\ pc[a] = "wake" /\ pc' = [pc EXCEPT ![a] = "walk"] /\ flag' = flag /\ after' = after
          /\ tstate' = [tstate EXCEPT ![w] = "COMPLETE"]
          /\ tstate[w] = "CALLBACK" => w \in posted'
          /\ posted \subseteq posted'
          /\ cursor' = [cursor EXCEPT ![a] = after[a]]
      BY <1>16 DEF Wake, Post
    <3>1. Found(b) /\ pc'[b] = pc[b] /\ b # a
      BY <1>0, <1>a, <3>0 DEF WaiterReachable, Waits
    <3>2. CASE b \in posted \/ (tstate[b] = "COMPLETE" /\ pc[b] # "parked")
      BY <1>0, <3>0, <3>1, <3>2 DEF Found
    <3>3. CASE b \in Chained(Flag(b))
      BY <2>0, <3>0, <3>3 DEF Found, Chained
    <3>4. CASE \E d \in Acts \ {a} : WalkedBy(b, d)
      <4>1. PICK d \in Acts \ {a} : WalkedBy(b, d)
        BY <3>4
      <4> QED
        BY <1>0, <2>0, <3>0, <4>1 DEF Found, WalkedBy, Chained
    <3>5. CASE WalkedBy(b, a) /\ b \in ChainIn(link, w)
      <4>1. b = w
        BY <2>0, <3>5, ChainStop
      <4>2. pc[w] = "parked" => tstate[w] = "CALLBACK" \/ w \in posted
        BY <1>a, <2>0 DEF TasksAgree
      <4>3. tstate'[w] = "COMPLETE"
        BY <1>0, <2>0, <3>0
      <4> QED
        BY <3>0, <3>1, <4>1, <4>2, <4>3 DEF Found
    <3>6. CASE WalkedBy(b, a) /\ b \in ChainIn(link, after[a])
      <4>1. cursor'[a] = after[a] /\ pc'[a] = "walk"
        BY <1>0, <3>0
      <4> QED
        BY <2>0, <3>6, <4>1 DEF Found, WalkedBy, Chained
    <3> QED
      BY <3>1, <3>2, <3>3, <3>4, <3>5, <3>6 DEF Found, WalkedBy, Chained
  <2> QED
    BY <2>1, <2>2, <2>3, <2>4, <2>5, <2>6 DEF WInv
<1>17. ASSUME NEW a \in Acts, ReadValue(a) PROVE WInv'
  <2>1. Unpointed'
    BY <1>0, <1>a, <1>17 DEF ReadValue, Unpointed, Fresh
  <2>2. LinksAgree'
    BY <1>0, <1>a, <1>17 DEF ReadValue, LinksAgree, TasksAgree, Unpointed, Fresh
  <2>3. TasksAgree'
    BY <1>0, <1>a, <1>17 DEF ReadValue, TasksAgree, Fresh, Unpointed, FlagAgrees
  <2>4. OneWalker'
    BY <1>0, <1>a, <1>17 DEF ReadValue, OneWalker, Walks, FlagAgrees, Holds, Holding
  <2>5. ValueAgrees'
    BY <1>0, <1>a, <1>17 DEF ReadValue, ValueAgrees, FlagAgrees, OneHolder, Holds,
       Holding
  <2>6. WaiterReachable'
    BY <1>0, <1>a, <1>17, QuietKeeps DEF ReadValue, Waits
  <2> QED
    BY <2>1, <2>2, <2>3, <2>4, <2>5, <2>6 DEF WInv
<1>18. CASE UNCHANGED vars
  BY <1>18, <1>a DEF vars, WInv, Unpointed, LinksAgree, TasksAgree, OneWalker,
     ValueAgrees, WaiterReachable,
     Fresh, Walks, Found, Chained
<1> QED
  BY <1>1, <1>2, <1>3, <1>4, <1>5, <1>6, <1>7, <1>8, <1>9, <1>10, <1>11, <1>12,
     <1>13, <1>14, <1>15, <1>16, <1>17, <1>18 DEF Next, Run

-----------------------------------------------------------------------------
(* The second layer holds throughout, ...                                  *)
THEOREM WaiterInvariance == Spec => [](IInv /\ WInv)
<1>1. IInv /\ WInv /\ [Next]_vars => (IInv /\ WInv)'
  BY NextIInv, NextWInv
<1> QED
  BY <1>1, InitIInv, InitWInv, PTL DEF Spec

(* ... and so no wake-up is lost: a suspended activation is on its stub's  *)
(* chain, under its releaser, in a worker's queue, or released already.    *)
THEOREM NoWaiterLost == Spec => []WaiterReachable
<1>1. WInv => WaiterReachable
  BY DEF WInv
<1> QED
  BY <1>1, WaiterInvariance, PTL

(* A suspended activation resumes once, when its stub is complete.         *)
THEOREM ResumedAtMostOnce == Spec => []ResumedOnce
<1>1. WInv => ResumedOnce
  BY DEF WInv, TasksAgree, ResumedOnce
<1> QED
  BY <1>1, WaiterInvariance, PTL

-----------------------------------------------------------------------------
(* Somebody holds every gate that is neither free nor complete: a waiter   *)
(* never waits for a gate that nobody will release.                        *)
Taken(s) == flag[s] \notin {Null, Done}
HeldHasHolder == \A s \in Stubs : Taken(s) => \E b \in Acts : Target[b] = s /\ Holds(b)

(* A step that takes no gate keeps it, when whoever holds a gate that is   *)
(* not complete afterwards still holds it.                                 *)
LEMMA HoldersStay ==
  ASSUME HeldHasHolder, \A s \in Stubs : Taken(s)' => Taken(s),
         \A b \in Acts : Holds(b) /\ flag'[Target[b]] # Done => Holds(b)'
  PROVE  HeldHasHolder'
BY DEF HeldHasHolder, Taken

LEMMA InitHolder == Init => HeldHasHolder
BY DEF Init, HeldHasHolder, Taken

LEMMA NextHolder == IInv /\ WInv /\ HeldHasHolder /\ [Next]_vars => HeldHasHolder'
<1> SUFFICES ASSUME IInv, WInv, HeldHasHolder, [Next]_vars PROVE HeldHasHolder'
  OBVIOUS
<1> USE TargetAssumption, FlagAssumption
<1>0. TypeOK /\ FlagAgrees /\ OneHolder /\ TasksAgree
  BY DEF IInv, WInv
<1> USE DEF TypeOK, Goto, Flag, stubVars, taskVars, localVars
(* Most steps leave the flags alone, and are no holder's or keep it one.   *)
<1>1. ASSUME NEW a \in Acts, NEW l, flag' = flag, Goto(a, l), Holds(a) => l \in Holding
      PROVE  HeldHasHolder'
  <2>1. \A b \in Acts : Holds(b) => Holds(b)'
    BY <1>0, <1>1 DEF Holds
  <2> QED
    BY <1>1, <2>1, HoldersStay DEF Taken
<1>2. ASSUME NEW a \in Acts, Call(a) \/ Test1(a) PROVE HeldHasHolder'
  <2>1. PICK l : Goto(a, l)
    BY <1>2 DEF Call, Test1
  <2> QED
    BY <1>1, <1>2, <2>1 DEF Call, Test1, Holds, Holding
<1>3. ASSUME NEW a \in Acts, Take(a) PROVE HeldHasHolder'
  <2>1. CASE flag' = flag
    BY <1>1, <1>3, <2>1 DEF Take, Holds, Holding
  <2>2. CASE flag' # flag
    <3>1. /\ flag[Target[a]] = Null /\ flag' = [flag EXCEPT ![Target[a]] = Held]
          /\ pc[a] = "take" /\ pc' = [pc EXCEPT ![a] = "test2"]
      BY <1>3, <2>2 DEF Take
    <3>2. Holds(a)' /\ \A b \in Acts : Holds(b) => Holds(b)'
      BY <1>0, <3>1 DEF Holds, Holding
    <3>3. \A s \in Stubs : Taken(s)' => Taken(s) \/ s = Target[a]
      BY <1>0, <3>1 DEF Taken
    <3> QED
      BY <3>2, <3>3 DEF HeldHasHolder
  <2> QED
    BY <2>1, <2>2
<1>4. ASSUME NEW a \in Acts, Acquire(a) \/ Load(a) PROVE HeldHasHolder'
  <2>1. PICK l : Goto(a, l)
    BY <1>4 DEF Acquire, Load, LinkTo
  <2> QED
    BY <1>1, <1>4, <2>1 DEF Acquire, Load, Holds, Holding
<1>5. ASSUME NEW a \in Acts, Enqueue(a) PROVE HeldHasHolder'
  <2>1. pc[a] = "enqueue" /\ \E l : Goto(a, l)
    BY <1>5 DEF Enqueue, LinkTo
  <2>2. CASE flag' = flag
    BY <1>1, <2>1, <2>2 DEF Holds, Holding
  <2>3. CASE flag' # flag
    <3>1. /\ flag[Target[a]] = expected[a] /\ flag' = [flag EXCEPT ![Target[a]] = a]
          /\ expected[a] \notin {Null, Done}
      BY <1>0, <1>5, <2>3 DEF Enqueue, FlagAgrees
    <3>2. \A s \in Stubs : Taken(s)' => Taken(s)
      BY <1>0, <3>1 DEF Taken
    <3>3. \A b \in Acts : Holds(b) => Holds(b)'
      BY <1>0, <2>1, <3>1 DEF Holds, Holding
    <3> QED
      BY <3>2, <3>3, HoldersStay
  <2> QED
    BY <2>2, <2>3
<1>6. ASSUME NEW a \in Acts, StoreCallback(a) \/ RegisterCas(a) PROVE HeldHasHolder'
  <2>1. PICK l : Goto(a, l)
    BY <1>6 DEF StoreCallback, RegisterCas
  <2> QED
    BY <1>1, <1>6, <2>1 DEF StoreCallback, RegisterCas, Holds, Holding
<1>7. ASSUME NEW a \in Acts, Resume(a) PROVE HeldHasHolder'
  <2>1. pc[a] = "parked" /\ Goto(a, "test2") /\ flag' = flag
    BY <1>0, <1>7 DEF Resume, TasksAgree
  <2> QED
    BY <1>1, <2>1 DEF Holds, Holding
<1>8. ASSUME NEW a \in Acts, Test2(a) PROVE HeldHasHolder'
  <2>1. PICK l : Goto(a, l) /\ (Holds(a) => l \in Holding)
    BY <1>8 DEF Test2, Holds, Holding
  <2> QED
    BY <1>1, <1>8, <2>1 DEF Test2
<1>9. ASSUME NEW a \in Acts, InitReturn(a) \/ StoreValue(a) \/ ClearClosure(a) PROVE HeldHasHolder'
  <2>1. PICK l \in Holding : Goto(a, l)
    BY <1>9 DEF InitReturn, StoreValue, ClearClosure, Holding
  <2> QED
    BY <1>1, <1>9, <2>1 DEF InitReturn, StoreValue, ClearClosure
<1>10. ASSUME NEW a \in Acts, Release(a) PROVE HeldHasHolder'
  <2>1. /\ pc[a] = "release" /\ flag' = [flag EXCEPT ![Target[a]] = Done]
        /\ pc' = [pc EXCEPT ![a] = "walk"]
    BY <1>10 DEF Release
  <2>2. \A s \in Stubs : Taken(s)' => Taken(s)
    BY <1>0, <2>1 DEF Taken
  <2>3. \A b \in Acts : Holds(b) /\ flag'[Target[b]] # Done => Holds(b)'
    BY <1>0, <2>1 DEF Holds, Holding
  <2> QED
    BY <2>2, <2>3, HoldersStay
<1>11. ASSUME NEW a \in Acts, Walk(a) \/ Wake(a) \/ ReadValue(a) PROVE HeldHasHolder'
  <2>1. PICK l : Goto(a, l)
    BY <1>11 DEF Walk, Wake, ReadValue
  <2> QED
    BY <1>1, <1>11, <2>1 DEF Walk, Wake, ReadValue, Holds, Holding
<1>12. CASE UNCHANGED vars
  BY <1>12 DEF vars, HeldHasHolder, Taken, Holds
<1> QED
  BY <1>2, <1>3, <1>4, <1>5, <1>6, <1>7, <1>8, <1>9, <1>10, <1>11, <1>12 DEF Next, Run

(* Of the stuck, one whose stub is lowest has no fetch under way that is   *)
(* stuck and no holder that is, so that what it waits for can move.        *)
LEMMA LeastRank ==
  ASSUME NEW S \in SUBSET Acts, S # {}
  PROVE  \E a \in S : \A b \in S : Rank[Target[a]] <= Rank[Target[b]]
<1> DEFINE R == {Rank[Target[a]] : a \in S}
<1>1. R \subseteq Nat /\ R # {}
  BY TargetAssumption, RankAssumption
<1>2. IsWellFoundedOn({ss \in Nat \X Nat : ss[1] < ss[2]}, Nat)
  BY NatLessThanWellFounded, Zenon DEF OpToRel
<1> DEFINE Less == {ss \in Nat \X Nat : ss[1] < ss[2]}
<1> HIDE DEF R, Less
<1>3. PICK n \in R : \A m \in R : ~(<<m, n>> \in Less)
  BY <1>1, <1>2, WFMin DEF Less
<1>4. ASSUME NEW m \in R PROVE n <= m
  <2>1. m \in Nat /\ n \in Nat
    BY <1>1, <1>3, <1>4
  <2>2. m < n => <<m, n>> \in Less
    BY <2>1 DEF Less
  <2> QED
    BY <1>3, <1>4, <2>1, <2>2
<1> QED
  BY <1>4 DEF R

LEMMA SomebodyCanStep == IInv /\ WInv /\ HeldHasHolder => NeverStuck
<1> SUFFICES ASSUME IInv, WInv, HeldHasHolder PROVE NeverStuck
  OBVIOUS
<1> USE TargetAssumption, ParentAssumption, FlagAssumption, RankAssumption
<1>0. TypeOK /\ TasksAgree /\ WaiterReachable
  BY DEF IInv, WInv
<1> DEFINE Below(b, a) == Rank[Target[b]] <= Rank[Target[a]]
           S == {a \in Acts : /\ pc[a] \notin {"idle", "done"}
                              /\ \A b \in Acts : Below(b, a) => ~CanStep(b)}
<1>1. SUFFICES ASSUME S # {} PROVE FALSE
  BY DEF NeverStuck
<1>2. PICK a \in S : \A b \in S : Below(a, b)
  BY <1>1, LeastRank
<1>3. \A b \in Acts : Rank[Target[b]] \in Nat
  OBVIOUS
<1>4. ASSUME NEW b \in Acts, Below(b, a), pc[b] \notin {"idle", "done"} PROVE b \in S
  BY <1>2, <1>3, <1>4
(* Not one that waits for a fetch its initialiser made.                    *)
<1>5. ASSUME NEW b \in S, Below(b, a), pc[b] = "init" PROVE FALSE
  <2>1. ~CanStep(b)
    BY <1>2, <1>5
  <2>2. PICK c \in Acts : Parent[c] = b /\ pc[c] \notin {"idle", "done"}
    BY <1>5, <2>1 DEF CanStep, Children
  <2>3. Rank[Target[c]] < Rank[Target[b]]
    BY <2>2
  <2>4. Below(c, a) /\ ~Below(a, c)
    BY <1>2, <1>3, <1>5, <2>3
  <2> QED
    BY <1>2, <1>4, <2>2, <2>4
(* Not one that is suspended at a gate.                                    *)
<1>6. CASE pc[a] = "parked"
  <2>1. a \notin posted
    BY <1>2, <1>3 DEF CanStep
  <2>2. CASE a \in Chained(Flag(a))
    <3>1. Taken(Target[a])
      BY <2>2 DEF Chained, ChainIn, Flag, Taken
    <3>2. PICK b \in Acts : Target[b] = Target[a] /\ Holds(b)
      BY <1>2, <3>1 DEF HeldHasHolder
    <3>3. Below(b, a) /\ pc[b] \notin {"idle", "done", "parked"}
      BY <1>3, <3>2 DEF Holds, Holding
    <3>4. pc[b] = "init"
      BY <1>2, <3>3 DEF CanStep
    <3> QED
      BY <1>4, <1>5, <3>3, <3>4
  <2>3. CASE \E b \in Acts : WalkedBy(a, b)
    <3>1. PICK b \in Acts : WalkedBy(a, b)
      BY <2>3
    <3>2. Below(b, a) /\ CanStep(b)
      BY <1>3, <3>1 DEF WalkedBy, CanStep
    <3> QED
      BY <1>2, <3>2
  <2> QED
    BY <1>0, <1>2, <1>6, <2>1, <2>2, <2>3 DEF WaiterReachable, Found, WalkedBy
<1>7. CASE pc[a] \notin {"init", "parked"}
  BY <1>2, <1>3, <1>7 DEF CanStep
<1> QED
  BY <1>2, <1>3, <1>5, <1>6, <1>7

(* No deadlock: for any stubs, any callers and any initialisers whose      *)
(* needs have no circle, a fetch that has not returned waits for somebody  *)
(* who can take a step, at its own stub or at one below it.                *)
THEOREM NobodyStuck == Spec => []NeverStuck
<1>1. IInv /\ WInv /\ HeldHasHolder /\ [Next]_vars => (IInv /\ WInv /\ HeldHasHolder)'
  BY NextIInv, NextWInv, NextHolder
<1>2. Spec => [](IInv /\ WInv /\ HeldHasHolder)
  BY <1>1, InitIInv, InitWInv, InitHolder, PTL DEF Spec
<1> QED
  BY <1>2, SomebodyCanStep, PTL

-----------------------------------------------------------------------------
(* The refinement of OnceCell: what is filled, asked for and returned.     *)
Filled == {s \in Stubs : value[s]}
Asked == {a \in Acts : pc[a] # "idle"}
Returned == {a \in Acts : pc[a] = "done" /\ got[a]}

LEMMA CellInit == Init => Cell!OInit
BY DEF Init, Cell!OInit

LEMMA CellStep == IInv /\ WInv /\ [Next]_vars => [Cell!ONext]_(Cell!ovars)
<1> SUFFICES ASSUME IInv, WInv, [Next]_vars PROVE [Cell!ONext]_(Cell!ovars)
  OBVIOUS
<1> USE TargetAssumption, FlagAssumption
<1>0. TypeOK /\ FlagAgrees /\ OneHolder /\ DoneHasValue /\ TasksAgree /\ ValueAgrees
  BY DEF IInv, WInv
<1> DEFINE Silent == UNCHANGED <<Filled, Asked, Returned>>
<1>1. \/ Silent
      \/ \E a \in Acts : Cell!Ask(a) \/ Cell!Get(a)
      \/ \E s \in Stubs : Cell!Fill(s)
      => [Cell!ONext]_(Cell!ovars)
  BY DEF Cell!ONext, Cell!ovars, Filled, Asked, Returned
<1>2. ASSUME NEW a \in Acts, UNCHANGED <<value, got>>, pc[a] \notin {"idle", "done"},
             NEW l \in PCs \ {"idle", "done"}, Goto(a, l)
      PROVE  Silent
  BY <1>0, <1>2 DEF TypeOK, Goto, Filled, Asked, Returned
<1>3. ASSUME NEW a \in Acts, Call(a) PROVE Cell!Ask(a)
  <2>1. pc[a] = "idle" /\ pc' = [pc EXCEPT ![a] = "test1"] /\ UNCHANGED <<value, got>>
    BY <1>3 DEF Call, Goto, stubVars
  <2>2. a \notin Asked /\ Asked' = Asked \cup {a} /\ Filled' = Filled /\ Returned' = Returned
    BY <1>0, <2>1 DEF TypeOK, Asked, Filled, Returned
  <2> QED
    BY <2>2 DEF Cell!Ask, Asked, Filled, Returned
<1>4. ASSUME NEW a \in Acts, Take(a) \/ Test1(a) \/ Acquire(a) PROVE Silent
  <2>1. PICK l \in PCs \ {"idle", "done"} : Goto(a, l)
    BY <1>4 DEF Take, Test1, Acquire, PCs
  <2> QED
    BY <1>2, <1>4, <2>1 DEF Take, Test1, Acquire, stubVars
<1>5. ASSUME NEW a \in Acts, Load(a) \/ Enqueue(a) \/ StoreCallback(a) \/ RegisterCas(a) PROVE Silent
  <2>1. PICK l \in PCs \ {"idle", "done"} : Goto(a, l)
    BY <1>5 DEF Load, Enqueue, LinkTo, StoreCallback, RegisterCas, PCs
  <2> QED
    BY <1>2, <1>5, <2>1 DEF Load, Enqueue, StoreCallback, RegisterCas, stubVars
<1>6. ASSUME NEW a \in Acts, Resume(a) PROVE Silent
  <2>1. pc[a] = "parked" /\ Goto(a, "test2")
    BY <1>0, <1>6 DEF Resume, TasksAgree
  <2> QED
    BY <1>2, <1>6, <2>1 DEF Resume, stubVars, PCs
<1>7. ASSUME NEW a \in Acts, Test2(a) \/ InitReturn(a) \/ ClearClosure(a) PROVE Silent
  <2>1. PICK l \in PCs \ {"idle", "done"} : Goto(a, l)
    BY <1>7 DEF Test2, InitReturn, ClearClosure, PCs
  <2> QED
    BY <1>2, <1>7, <2>1 DEF Test2, InitReturn, ClearClosure, stubVars
<1>8. ASSUME NEW a \in Acts, Release(a) \/ Walk(a) \/ Wake(a) PROVE Silent
  <2>1. PICK l \in PCs \ {"idle", "done"} : Goto(a, l)
    BY <1>8 DEF Release, Walk, Wake, PCs
  <2> QED
    BY <1>2, <1>8, <2>1 DEF Release, Walk, Wake, stubVars
<1>9. ASSUME NEW a \in Acts, StoreValue(a) PROVE Cell!Fill(Target[a])
  <2>1. /\ pc[a] = "value" /\ pc' = [pc EXCEPT ![a] = "closure"]
        /\ value' = [value EXCEPT ![Target[a]] = TRUE] /\ got' = got
    BY <1>9 DEF StoreValue, Goto
  <2>2. Target[a] \notin Filled
    <3> SUFFICES ASSUME value[Target[a]] PROVE FALSE
      BY DEF Filled
    <3>1. Holds(a) /\ flag[Target[a]] # Done
      BY <1>0, <2>1 DEF Holds, Holding, FlagAgrees, Flag
    <3>2. PICK b \in Acts : Target[b] = Target[a] /\ pc[b] \in {"closure", "release"}
      BY <1>0, <3>1 DEF ValueAgrees
    <3>3. Holds(b)
      BY <3>2 DEF Holds, Holding
    <3> QED
      BY <1>0, <2>1, <3>1, <3>2, <3>3 DEF OneHolder
  <2>3. Filled' = Filled \cup {Target[a]} /\ Asked' = Asked /\ Returned' = Returned /\ a \in Asked
    BY <1>0, <2>1 DEF TypeOK, Filled, Asked, Returned
  <2> QED
    BY <2>2, <2>3 DEF Cell!Fill, Filled, Asked, Returned
<1>10. ASSUME NEW a \in Acts, ReadValue(a) PROVE Cell!Get(a)
  <2>1. /\ pc[a] = "read" /\ pc' = [pc EXCEPT ![a] = "done"]
        /\ got' = [got EXCEPT ![a] = value[Target[a]]] /\ value' = value
    BY <1>10 DEF ReadValue, Goto, stubVars
  <2>2. value[Target[a]] = TRUE
    BY <1>0, <2>1 DEF FlagAgrees, DoneHasValue, Flag, TypeOK
  <2>3. /\ a \in Asked \ Returned /\ Target[a] \in Filled
        /\ Returned' = Returned \cup {a} /\ Filled' = Filled /\ Asked' = Asked
    BY <1>0, <2>1, <2>2 DEF TypeOK, Filled, Asked, Returned
  <2> QED
    BY <2>3 DEF Cell!Get, Filled, Asked, Returned
<1>11. ASSUME UNCHANGED vars PROVE Silent
  BY <1>11 DEF vars, stubVars, Filled, Asked, Returned
<1> QED
  BY <1>1, <1>3, <1>4, <1>5, <1>6, <1>7, <1>8, <1>9, <1>10, <1>11 DEF Next, Run

(* The gate is safe in the sense of OnceCell: a stub is filled once, for   *)
(* somebody who asked, and no fetch returns before it is.                  *)
THEOREM SafeOnceCell == Spec => Cell!OSafeSpec
BY CellInit, CellStep, WaiterInvariance, PTL DEF Spec, Cell!OSafeSpec
=============================================================================
