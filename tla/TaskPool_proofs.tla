-------------------------- MODULE TaskPool_proofs --------------------------
(***************************************************************************)
(* Proofs about TaskPool, for any number of threads and tasks: a runnable  *)
(* task is in one place, no registered continuation is lost, no worker     *)
(* sleeps on work, the backlog count is exact, and the pool's safety is    *)
(* that of Continuation.  Workers and I/O threads both push.               *)
(***************************************************************************)
EXTENDS TaskPool, FiniteSetTheorems, TLAPS

(* A task some worker will come to run: its continuation is registered,    *)
(* stored and not yet invoked, and nothing else can hand it over again.    *)
Runnable(t) ==
  /\ t \in registered
  /\ fires[t] = 0
  /\ callback[t]
  /\ kind[t] \in {"spawn", "io"} \/ state[t] = "COMPLETE"

(* A task between the two halves of task_on_complete.                      *)
Registering(t) ==
  /\ t \notin registered
  /\ awaiting[t]
  /\ callback[t]
  /\ kind[t] \in {"await", "yield"}

(* Whatever is queued, in a thread's hands or a job is runnable ...        *)
PlacesAgree ==
  /\ \A w \in Workers : \A i \in DOMAIN queue[w] : Runnable(queue[w][i])
  /\ \A t \in jobs : Runnable(t)
  /\ \A w \in Threads :
       /\ Carries(w) => task[w] \in Tasks /\ Runnable(task[w])
       /\ pc[w] = "cas" => task[w] \in Tasks /\ Registering(task[w])

(* ... and there once.                                                     *)
OnlyOnce ==
  /\ \A u, v \in Workers : \A i \in DOMAIN queue[u], j \in DOMAIN queue[v] :
       queue[u][i] = queue[v][j] => u = v /\ i = j
  /\ \A u \in Threads, v \in Workers : \A i \in DOMAIN queue[v] :
       Carries(u) => task[u] # queue[v][i]
  /\ \A t \in jobs :
       /\ \A v \in Workers : \A i \in DOMAIN queue[v] : queue[v][i] # t
       /\ \A u \in Threads : Carries(u) => task[u] # t
  /\ \A u, v \in Threads : Carries(u) /\ Carries(v) /\ task[u] = task[v] => u = v
OneRegistrar == \A u, v \in Threads :
       pc[u] = "cas" /\ pc[v] = "cas" /\ task[u] = task[v] => u = v

(* The state word tells what has become of a task.                         *)
StateAgrees == \A t \in Tasks :
  /\ kind[t] = "none" => state[t] = "none" /\ ~awaiting[t]
  /\ state[t] = "none" => kind[t] = "none"
  /\ kind[t] \in {"spawn", "io"} => t \in registered /\ state[t] \in {"CALLBACK", "COMPLETE"}
  /\ kind[t] = "yield" => state[t] = IF t \in registered THEN "COMPLETE" ELSE "YIELDED"
  /\ kind[t] = "await" =>
       /\ state[t] \in {"PENDING", "CALLBACK", "COMPLETE"}
       /\ state[t] = "COMPLETE" <=> completes[t] > 0
       /\ state[t] = "CALLBACK" => t \in registered /\ callback[t] /\ fires[t] = 0
       /\ state[t] = "PENDING" => t \notin registered
  /\ completes[t] > 0 => kind[t] = "await"
  /\ t \in registered => awaiting[t] \/ kind[t] \in {"spawn", "io"}
  /\ fires[t] <= 1
  /\ t \notin registered => fires[t] = 0

(* A registered continuation waits for its completion, has run, or is      *)
(* somewhere.                                                              *)
Queued(t) == \E w \in Workers : \E i \in DOMAIN queue[w] : queue[w][i] = t
Somewhere(t) ==
  \/ \E w \in Threads : Carries(w) /\ task[w] = t
  \/ Queued(t)
  \/ t \in jobs
Kept == \A t \in registered :
  \/ kind[t] = "await" /\ state[t] = "CALLBACK"
  \/ fires[t] = 1
  \/ Somewhere(t)

Counted == IsFiniteSet(Places) /\ CountExact

IInv ==
  /\ TypeOK /\ PlacesAgree /\ OnlyOnce /\ OneRegistrar /\ StateAgrees /\ Kept /\ Counted
  /\ NoSleepOnWork

-----------------------------------------------------------------------------
(* What a push and a pop do to the queue they touch.                       *)
LEMMA AppendFacts ==
  ASSUME NEW q \in Seq(Tasks), NEW t \in Tasks
  PROVE  /\ Append(q, t) \in Seq(Tasks)
         /\ Len(q) \in Nat
         /\ DOMAIN q = 1 .. Len(q)
         /\ DOMAIN Append(q, t) = 1 .. Len(q) + 1
         /\ \A i \in 1 .. Len(q) : Append(q, t)[i] = q[i]
         /\ Append(q, t)[Len(q) + 1] = t
OBVIOUS

LEMMA TailFacts ==
  ASSUME NEW q \in Seq(Tasks), q # <<>>
  PROVE  /\ Tail(q) \in Seq(Tasks)
         /\ Len(q) \in Nat \ {0}
         /\ DOMAIN q = 1 .. Len(q)
         /\ DOMAIN Tail(q) = 1 .. Len(q) - 1
         /\ \A i \in 1 .. Len(q) - 1 : Tail(q)[i] = q[i + 1]
         /\ Head(q) = q[1] /\ Head(q) \in Tasks
OBVIOUS

LEMMA PlacesAppend ==
  ASSUME TypeOK, NEW v \in Workers, NEW t \in Tasks,
         queue' = [queue EXCEPT ![v] = Append(@, t)]
  PROVE  LET p == <<v, Len(queue[v]) + 1>> IN
         p \notin Places /\ Places' = Places \cup {p}
<1>1. queue[v] \in Seq(Tasks)
  BY DEF TypeOK
<1>2. queue'[v] = Append(queue[v], t) /\ \A w \in Workers \ {v} : queue'[w] = queue[w]
  BY DEF TypeOK
<1>3. DOMAIN queue'[v] = DOMAIN queue[v] \cup {Len(queue[v]) + 1}
  BY <1>1, <1>2, AppendFacts
<1>4. Len(queue[v]) + 1 \notin DOMAIN queue[v]
  BY <1>1, AppendFacts
<1> QED
  BY <1>2, <1>3, <1>4 DEF Places

LEMMA PlacesTail ==
  ASSUME TypeOK, NEW v \in Workers, queue[v] # <<>>,
         queue' = [queue EXCEPT ![v] = Tail(@)]
  PROVE  LET p == <<v, Len(queue[v])>> IN
         p \in Places /\ Places' = Places \ {p}
<1>1. queue[v] \in Seq(Tasks)
  BY DEF TypeOK
<1>2. queue'[v] = Tail(queue[v]) /\ \A w \in Workers \ {v} : queue'[w] = queue[w]
  BY DEF TypeOK
<1>3. DOMAIN queue'[v] = DOMAIN queue[v] \ {Len(queue[v])}
  <2> DEFINE q == queue[v]
  <2>1. DOMAIN Tail(q) = 1 .. Len(q) - 1 /\ DOMAIN q = 1 .. Len(q) /\ Len(q) \in Nat \ {0}
    BY <1>1, TailFacts
  <2>2. 1 .. Len(q) - 1 = (1 .. Len(q)) \ {Len(q)}
    BY <2>1
  <2> QED
    BY <2>1, <2>2, <1>2
<1>4. Len(queue[v]) \in DOMAIN queue[v]
  BY <1>1, TailFacts
<1> QED
  BY <1>2, <1>3, <1>4 DEF Places

-----------------------------------------------------------------------------
(* Where the tasks are, when a step leaves them where they were, ...       *)
SamePlaces ==
  /\ queue' = queue /\ jobs' = jobs
  /\ \A v \in Threads : (Carries(v)' <=> Carries(v)) /\ (Carries(v) => task'[v] = task[v])

LEMMA SameOnce ==
  ASSUME OnlyOnce, queue' = queue,
         jobs' = jobs, \A v \in Threads : Carries(v)' => Carries(v) /\ task'[v] = task[v]
  PROVE  OnlyOnce'
BY DEF OnlyOnce, Carries

LEMMA SameSomewhere ==
  ASSUME SamePlaces, NEW u, Somewhere(u)
  PROVE  Somewhere(u)'
BY DEF SamePlaces, Somewhere, Queued, Carries

(* ... when a worker takes one that was nowhere, ...                       *)
Takes(w, t) ==
  /\ queue' = queue /\ jobs' = jobs
  /\ ~Carries(w) /\ Carries(w)' /\ task'[w] = t
  /\ \A v \in Threads \ {w} : (Carries(v)' <=> Carries(v)) /\ task'[v] = task[v]

LEMMA RunnableSomewhere ==
  ASSUME PlacesAgree, NEW u, Somewhere(u)
  PROVE  Runnable(u)
BY DEF PlacesAgree, Somewhere, Queued

LEMMA TakesOnce ==
  ASSUME NEW w \in Threads, NEW t, OnlyOnce, ~Somewhere(t), Takes(w, t)
  PROVE  OnlyOnce' /\ \A u : Somewhere(u) \/ u = t => Somewhere(u)'
<1>1. ASSUME NEW u, Somewhere(u) \/ u = t PROVE Somewhere(u)'
  BY <1>1 DEF Takes, Somewhere, Queued, Carries
<1>2. OnlyOnce'
  BY DEF OnlyOnce, Takes, Somewhere, Queued, Carries
<1> QED
  BY <1>1, <1>2

(* ... when a worker takes the first of a queue, ...                       *)
LEMMA PopOnce ==
  ASSUME TypeOK, OnlyOnce, NEW w \in Workers, NEW v \in Workers, ~Carries(w), PopFrom(w, v),
         jobs' = jobs
  PROVE  OnlyOnce' /\ \A u : Somewhere(u) => Somewhere(u)'
<1>0. Workers \subseteq Threads
  BY DEF Threads
<1> USE <1>0
<1> DEFINE q == queue[v]
<1>1. q \in Seq(Tasks) /\ q # <<>>
  BY DEF TypeOK, PopFrom
<1>2. /\ Len(q) \in Nat \ {0} /\ DOMAIN q = 1 .. Len(q)
      /\ DOMAIN Tail(q) = 1 .. Len(q) - 1
      /\ \A i \in 1 .. Len(q) - 1 : Tail(q)[i] = q[i + 1]
      /\ Head(q) = q[1]
  BY <1>1, TailFacts
<1>3. queue'[v] = Tail(q) /\ \A x \in Workers \ {v} : queue'[x] = queue[x]
  BY DEF PopFrom, TypeOK
<1>4. /\ Carries(w)' /\ task'[w] = q[1]
      /\ \A x \in Threads \ {w} : (Carries(x)' <=> Carries(x)) /\ task'[x] = task[x]
  BY <1>2 DEF PopFrom, TypeOK, Carries, Goto
<1> HIDE DEF q
<1>5. ASSUME NEW u, Somewhere(u) PROVE Somewhere(u)'
  <2>1. CASE \E x \in Threads : Carries(x) /\ task[x] = u
    BY <2>1, <1>4 DEF Somewhere
  <2>2. CASE Queued(u)
    <3>0. PICK x \in Workers : \E i \in DOMAIN queue[x] : queue[x][i] = u
      BY <2>2 DEF Queued
    <3>1. PICK i \in DOMAIN queue[x] : queue[x][i] = u
      BY <3>0
    <3>2. CASE x # v
      BY <3>1, <3>2, <1>3 DEF Somewhere, Queued
    <3>3. CASE x = v /\ i = 1
      BY <3>1, <3>3, <1>4 DEF Somewhere, q
    <3>4. CASE x = v /\ i # 1
      <4>1. i \in 2 .. Len(q) /\ q[i] = u
        BY <3>1, <3>4, <1>2 DEF q
      <4>2. i - 1 \in DOMAIN queue'[v] /\ queue'[v][i - 1] = u
        BY <4>1, <1>2, <1>3
      <4> QED
        BY <4>2 DEF Somewhere, Queued
    <3> QED
      BY <3>2, <3>3, <3>4
  <2>3. CASE u \in jobs
    BY <2>3 DEF Somewhere
  <2> QED
    BY <1>5, <2>1, <2>2, <2>3 DEF Somewhere
<1> DEFINE from(x, i) == IF x = v THEN i + 1 ELSE i
<1>6. ASSUME NEW x \in Workers, NEW i \in DOMAIN queue'[x]
      PROVE  from(x, i) \in DOMAIN queue[x] /\ queue'[x][i] = queue[x][from(x, i)]
                /\ (x = v => from(x, i) # 1)
  <2>1. CASE x = v
    BY <2>1, <1>2, <1>3, <1>6 DEF q
  <2>2. CASE x # v
    BY <2>2, <1>3, <1>6
  <2> QED
    BY <2>1, <2>2
<1>7. ASSUME NEW x \in Workers, NEW y \in Workers, NEW i \in DOMAIN queue'[x], NEW j \in DOMAIN queue'[y],
             queue'[x][i] = queue'[y][j]
      PROVE  x = y /\ i = j
  <2>1. x = y /\ from(x, i) = from(y, j)
    BY <1>6, <1>7 DEF OnlyOnce
  <2>2. DOMAIN queue'[x] \subseteq Nat
    <3>1. x # v => queue'[x] \in Seq(Tasks)
      BY <1>3 DEF TypeOK
    <3>2. x # v => DOMAIN queue'[x] = 1 .. Len(queue'[x])
      BY <3>1
    <3> QED
      BY <3>2, <1>2, <1>3
  <2> QED
    BY <2>1, <2>2
<1>8. ASSUME NEW x \in Threads, NEW y \in Workers, NEW i \in DOMAIN queue'[y], Carries(x)'
      PROVE  task'[x] # queue'[y][i]
  <2>1. CASE x # w
    BY <2>1, <1>4, <1>6, <1>8 DEF OnlyOnce
  <2>2. CASE x = w
    <3>1. 1 \in DOMAIN queue[v] /\ queue[v][1] = task'[x]
      BY <2>2, <1>2, <1>4 DEF q
    <3> QED
      BY <3>1, <1>6 DEF OnlyOnce
  <2> QED
    BY <2>1, <2>2
<1>9. ASSUME NEW x \in Threads, NEW y \in Threads, Carries(x)', Carries(y)', task'[x] = task'[y]
      PROVE  x = y
  <2>1. 1 \in DOMAIN queue[v] /\ queue[v][1] = task'[w]
    BY <1>2, <1>4 DEF q
  <2> QED
    BY <2>1, <1>4, <1>9 DEF OnlyOnce
<1>10. ASSUME NEW t \in jobs'
       PROVE  /\ \A x \in Workers : \A i \in DOMAIN queue'[x] : queue'[x][i] # t
              /\ \A x \in Threads : Carries(x)' => task'[x] # t
  <2>1. \A x \in Workers : \A i \in DOMAIN queue'[x] : queue'[x][i] # t
    BY <1>6, <1>10 DEF OnlyOnce
  <2>2. 1 \in DOMAIN queue[v] /\ queue[v][1] = task'[w]
    BY <1>2, <1>4 DEF q
  <2> QED
    BY <2>1, <2>2, <1>4, <1>10 DEF OnlyOnce
<1> HIDE DEF from
<1>11. OnlyOnce'
  BY <1>7, <1>8, <1>9, <1>10 DEF OnlyOnce, Carries
<1> QED
  BY <1>5, <1>11

(* ... and when a worker puts the one it holds at the end of a queue.      *)
LEMMA PushOnce ==
  ASSUME TypeOK, OnlyOnce, NEW w \in Threads, PushLink(w), task[w] \in Tasks
  PROVE  OnlyOnce' /\ \A u : Somewhere(u) => Somewhere(u)'
<1>0. Workers \subseteq Threads
  BY DEF Threads
<1> USE <1>0
<1> DEFINE v == dest[w]
           q == queue[v]
           t == task[w]
<1>1. v \in Workers /\ q \in Seq(Tasks)
  BY DEF TypeOK
<1>2. /\ Len(q) \in Nat /\ DOMAIN q = 1 .. Len(q)
      /\ DOMAIN Append(q, t) = 1 .. Len(q) + 1
      /\ \A i \in 1 .. Len(q) : Append(q, t)[i] = q[i]
      /\ Append(q, t)[Len(q) + 1] = t
  BY <1>1, AppendFacts
<1>3. queue'[v] = Append(q, t) /\ \A x \in Workers \ {v} : queue'[x] = queue[x]
  BY <1>1 DEF PushLink, TypeOK
<1>4. /\ Carries(w) /\ ~Carries(w)'
      /\ \A x \in Threads \ {w} : (Carries(x)' <=> Carries(x)) /\ task'[x] = task[x]
  BY DEF PushLink, TypeOK, Carries
<1> HIDE DEF q, v, t
<1>5. ASSUME NEW u, Somewhere(u) PROVE Somewhere(u)'
  <2>1. CASE u = t
    <3>1. Len(q) + 1 \in DOMAIN queue'[v] /\ queue'[v][Len(q) + 1] = u
      BY <1>2, <1>3, <2>1
    <3> QED
      BY <3>1, <1>1 DEF Somewhere, Queued
  <2>2. CASE Queued(u)
    <3>0. PICK x \in Workers : \E i \in DOMAIN queue[x] : queue[x][i] = u
      BY <2>2 DEF Queued
    <3>1. PICK i \in DOMAIN queue[x] : queue[x][i] = u
      BY <3>0
    <3>2. i \in DOMAIN queue'[x] /\ queue'[x][i] = u
      BY <3>1, <1>2, <1>3 DEF q
    <3> QED
      BY <3>2 DEF Somewhere, Queued
  <2>3. CASE \E x \in Threads \ {w} : Carries(x) /\ task[x] = u
    BY <2>3, <1>4 DEF Somewhere
  <2>4. CASE u \in jobs
    BY <2>4 DEF PushLink, Somewhere
  <2> QED
    BY <1>5, <2>1, <2>2, <2>3, <2>4 DEF Somewhere, t
<1>6. ASSUME NEW x \in Workers, NEW i \in DOMAIN queue'[x]
      PROVE  \/ i \in DOMAIN queue[x] /\ queue'[x][i] = queue[x][i]
             \/ x = v /\ i = Len(q) + 1 /\ queue'[x][i] = t
  BY <1>2, <1>3, <1>6 DEF q
<1>7. ASSUME NEW x \in Workers, NEW y \in Workers, NEW i \in DOMAIN queue'[x], NEW j \in DOMAIN queue'[y],
             queue'[x][i] = queue'[y][j]
      PROVE  x = y /\ i = j
  BY <1>4, <1>6, <1>7 DEF OnlyOnce, t
<1>8. ASSUME NEW x \in Threads, NEW y \in Workers, NEW i \in DOMAIN queue'[y], Carries(x)'
      PROVE  task'[x] # queue'[y][i]
  BY <1>4, <1>6, <1>8 DEF OnlyOnce, t
<1>9. ASSUME NEW x \in Threads, NEW y \in Threads, Carries(x)', Carries(y)', task'[x] = task'[y]
      PROVE  x = y
  BY <1>4, <1>9 DEF OnlyOnce
<1>10. ASSUME NEW r \in jobs'
       PROVE  /\ \A x \in Workers : \A i \in DOMAIN queue'[x] : queue'[x][i] # r
              /\ \A x \in Threads : Carries(x)' => task'[x] # r
  <2>1. r \in jobs
    BY <1>10 DEF PushLink
  <2> QED
    BY <1>4, <1>6, <2>1 DEF OnlyOnce, t
<1>11. OnlyOnce'
  BY <1>7, <1>8, <1>9, <1>10 DEF OnlyOnce, Carries
<1> QED
  BY <1>5, <1>11

(* The count, when a step touches neither it nor a queue nor a push.       *)
LEMMA LinkingFinite == IsFiniteSet(Linking)
<1>1. IsFiniteSet(Workers) /\ IsFiniteSet(IoThreads)
  BY NWorkersAssumption, IoThreadsAssumption, FS_Interval DEF Workers
<1>2. IsFiniteSet(Threads)
  BY <1>1, FS_Union DEF Threads
<1> QED
  BY <1>2, FS_Subset DEF Linking

LEMMA SameCount ==
  Counted /\ queue' = queue /\ queuedCount' = queuedCount /\ Linking' = Linking => Counted'
BY DEF Counted, CountExact, Places

-----------------------------------------------------------------------------
(* A remainder is in range.                                                *)
LEMMA ModRange ==
  ASSUME NEW a \in Nat, NEW n \in Nat \ {0}
  PROVE  a % n \in 0 .. n - 1
OBVIOUS

(* What a step of the worker loop leaves alone.                            *)
LoopSteps(w) ==
  /\ pc[w] \in {"pop", "steal"}
  /\ offset' \in [Workers -> Nat]
  /\ UNCHANGED <<jobs, taskVars, postCounter, dest, history>>

(* A worker that takes the first task of a queue keeps the invariant: ...  *)
LEMMA PopKeeps ==
  ASSUME IInv, NEW w \in Workers, NEW v \in Workers, PopFrom(w, v), LoopSteps(w)
  PROVE  IInv'
<1>0. Workers \subseteq Threads
  BY DEF Threads
<1> USE <1>0
<1> DEFINE q == queue[v]
<1>1. TypeOK /\ OnlyOnce /\ q \in Seq(Tasks) /\ q # <<>>
  BY DEF IInv, TypeOK, PopFrom
<1>2. /\ Head(q) = q[1] /\ Head(q) \in Tasks /\ 1 \in DOMAIN q
      /\ Tail(q) \in Seq(Tasks)
      /\ \A i \in DOMAIN Tail(q) : i + 1 \in DOMAIN q /\ Tail(q)[i] = q[i + 1]
  BY <1>1, TailFacts
<1>3. /\ queue'[v] = Tail(q) /\ \A x \in Workers \ {v} : queue'[x] = queue[x]
      /\ queue' \in [Workers -> Seq(Tasks)]
  BY <1>1, <1>2 DEF PopFrom, TypeOK
<1>4. /\ pc'[w] = "fire" /\ task'[w] = q[1]
      /\ \A x \in Threads \ {w} : pc'[x] = pc[x] /\ task'[x] = task[x]
      /\ pc' \in [Threads -> PCs]
      /\ task' \in [Threads -> Tasks \cup {None}]
  BY <1>1, <1>2 DEF PopFrom, TypeOK, Goto, PCs
<1>5. pc[w] \in {"pop", "steal"} /\ ~Carries(w)
  BY DEF LoopSteps, Carries
<1>6. /\ IsFiniteSet(Places') /\ Cardinality(Places') = Cardinality(Places) - 1
      /\ Cardinality(Places') \in Nat
  <2>1. <<v, Len(q)>> \in Places /\ Places' = Places \ {<<v, Len(q)>>}
    BY <1>1, PlacesTail DEF PopFrom
  <2>2. IsFiniteSet(Places)
    BY DEF IInv, Counted
  <2> QED
    BY <2>1, <2>2, FS_RemoveElement, FS_CardinalityType
<1> HIDE DEF q
<1>7. Counted' /\ queuedCount' \in Nat
  <2>1. Linking' = Linking
    BY <1>4, <1>5 DEF Linking
  <2>2. Cardinality(Linking) \in Nat /\ Cardinality(Places) \in Nat
    BY LinkingFinite, FS_CardinalityType DEF IInv, Counted
  <2>3. queuedCount' = queuedCount - 1 /\ queuedCount = Cardinality(Places) + Cardinality(Linking)
    BY DEF PopFrom, IInv, Counted, CountExact
  <2>4. queuedCount' = Cardinality(Places') + Cardinality(Linking)
    BY <1>6, <2>2, <2>3
  <2> QED
    BY <1>6, <2>1, <2>2, <2>4 DEF Counted, CountExact
<1>8. TypeOK'
  BY <1>1, <1>3, <1>4, <1>7 DEF TypeOK, LoopSteps, taskVars, history
<1>9. PlacesAgree'
  <2>1. ASSUME NEW x \in Workers, NEW i \in DOMAIN queue'[x]
        PROVE  \E j \in DOMAIN queue[x] : queue'[x][i] = queue[x][j]
    <3>1. CASE x = v
      BY <3>1, <2>1, <1>2, <1>3 DEF q
    <3>2. CASE x # v
      BY <3>2, <2>1, <1>3
    <3> QED
      BY <3>1, <3>2
  <2>2. ASSUME NEW x \in Workers, NEW i \in DOMAIN queue'[x]
        PROVE  Runnable(queue[x][i])'
    <3>1. PICK j \in DOMAIN queue[x] : queue'[x][i] = queue[x][j]
      BY <2>1, <2>2
    <3>2. Runnable(queue[x][j])
      BY <3>1 DEF IInv, PlacesAgree
    <3> QED
      BY <3>1, <3>2 DEF Runnable, LoopSteps, taskVars, history
  <2>3. task'[w] \in Tasks /\ Runnable(task[w])'
    <3>1. Runnable(q[1]) /\ q[1] \in Tasks
      BY <1>2 DEF IInv, PlacesAgree, q
    <3> QED
      BY <3>1, <1>4 DEF Runnable, LoopSteps, taskVars, history
  <2>4. ASSUME NEW x \in Threads \ {w}
        PROVE  /\ Carries(x)' => task'[x] \in Tasks /\ Runnable(task[x])'
               /\ pc'[x] = "cas" => task'[x] \in Tasks /\ Registering(task[x])'
    <3>1. /\ Carries(x) => task[x] \in Tasks /\ Runnable(task[x])
          /\ pc[x] = "cas" => task[x] \in Tasks /\ Registering(task[x])
      BY DEF IInv, PlacesAgree
    <3>2. pc'[x] = pc[x] /\ task'[x] = task[x]
      BY <1>4
    <3> QED
      BY <3>1, <3>2 DEF Carries, Runnable, Registering, LoopSteps, taskVars, history
  <2>5. ASSUME NEW u \in jobs' PROVE Runnable(u)'
    <3>1. Runnable(u)
      BY <2>5 DEF IInv, PlacesAgree, LoopSteps
    <3> QED
      BY <3>1 DEF Runnable, LoopSteps, taskVars, history
  <2> QED
    BY <1>4, <2>2, <2>3, <2>4, <2>5 DEF PlacesAgree
<1>11. OnlyOnce' /\ \A u : Somewhere(u) => Somewhere(u)'
  BY <1>1, <1>5, PopOnce DEF LoopSteps
<1>12. OneRegistrar'
  BY <1>4 DEF IInv, OneRegistrar
<1>13. StateAgrees' /\ Kept'
  BY <1>11 DEF IInv, StateAgrees, Kept, LoopSteps, taskVars, history
<1>14. NoSleepOnWork'
  <2> SUFFICES ASSUME NEW x \in Workers, pc'[x] = "asleep" PROVE queue'[x] = <<>>
    BY DEF NoSleepOnWork
  <2>1. x # w /\ pc[x] = "asleep"
    BY <1>4
  <2>2. queue[x] = <<>> /\ x # v
    BY <2>1, <1>1 DEF IInv, NoSleepOnWork, q
  <2> QED
    BY <2>2, <1>3
<1> QED
  BY <1>7, <1>8, <1>9, <1>11, <1>12, <1>13, <1>14 DEF IInv

(* ... and so does one that finds a queue empty.                           *)
LEMMA LookKeeps ==
  ASSUME IInv, NEW w \in Workers, LoopSteps(w), NEW l \in {"steal", "wait"}, Goto(w, l),
         UNCHANGED <<queue, queuedCount, task>>
  PROVE  IInv'
<1>0. Workers \subseteq Threads
  BY DEF Threads
<1> USE <1>0
<1>1. pc' = [pc EXCEPT ![w] = l] /\ pc \in [Threads -> PCs] /\ pc[w] \in {"pop", "steal"}
  BY DEF Goto, LoopSteps, IInv, TypeOK
<1>2. TypeOK'
  BY <1>1 DEF IInv, TypeOK, PCs, LoopSteps, taskVars, history
<1>3. SamePlaces
  BY <1>1 DEF SamePlaces, Carries, LoopSteps
<1>4. OnlyOnce' /\ \A u : Somewhere(u) => Somewhere(u)'
  BY <1>3, SameOnce, SameSomewhere DEF IInv, SamePlaces
<1>5. OneRegistrar' /\ NoSleepOnWork'
  BY <1>1 DEF IInv, OneRegistrar, NoSleepOnWork
<1>6. \A u : (Runnable(u) => Runnable(u)') /\ (Registering(u) => Registering(u)')
  BY DEF LoopSteps, Runnable, Registering, taskVars, history
<1>7. PlacesAgree'
  BY <1>1, <1>6 DEF IInv, PlacesAgree, Carries, LoopSteps
<1>8. StateAgrees' /\ Kept'
  BY <1>4 DEF IInv, StateAgrees, Kept, LoopSteps, taskVars, history
<1>9. Linking' = Linking
  BY <1>1 DEF Linking
<1>10. Counted'
  BY <1>9, SameCount DEF IInv
<1> QED
  BY <1>2, <1>4, <1>5, <1>7, <1>8, <1>10 DEF IInv

(* What is queued or carried stays runnable when a step touches one thread *)
(* and takes nothing from a task that is runnable or being registered.     *)
LEMMA PlacesStay ==
  ASSUME PlacesAgree, registered \subseteq Tasks, NEW w \in Threads,
         queue' = queue, jobs' \subseteq jobs,
         \A u \in Tasks : (Runnable(u) => Runnable(u)') /\ (Registering(u) => Registering(u)'),
         \A v \in Threads \ {w} : pc'[v] = pc[v] /\ task'[v] = task[v],
         Carries(w)' => task'[w] \in Tasks /\ Runnable(task[w])',
         pc'[w] = "cas" => task'[w] \in Tasks /\ Registering(task[w])'
  PROVE  PlacesAgree'
<1>1. \A u : Runnable(u) => u \in Tasks /\ Runnable(u)'
  BY DEF Runnable
<1>2. ASSUME NEW v \in Workers, NEW i \in DOMAIN queue'[v] PROVE Runnable(queue[v][i])'
  <2>1. PICK u : u = queue[v][i]
    OBVIOUS
  <2>2. Runnable(u)'
    BY <1>1, <1>2, <2>1 DEF PlacesAgree
  <2> QED
    BY <2>1, <2>2
<1>3. ASSUME NEW v \in Threads
      PROVE  /\ Carries(v)' => task'[v] \in Tasks /\ Runnable(task[v])'
             /\ pc'[v] = "cas" => task'[v] \in Tasks /\ Registering(task[v])'
  <2>1. CASE v = w
    BY <2>1
  <2>2. CASE v # w
    <3>1. PICK u : u = task[v] /\ task'[v] = u /\ pc'[v] = pc[v]
      BY <2>2
    <3>2. /\ Carries(v)' => u \in Tasks /\ Runnable(u)'
          /\ pc'[v] = "cas" => u \in Tasks /\ Registering(u)'
      BY <1>1, <3>1 DEF PlacesAgree, Carries
    <3> QED
      BY <3>1, <3>2
  <2> QED
    BY <2>1, <2>2
<1>4. \A u \in jobs' : Runnable(u)'
  BY <1>1 DEF PlacesAgree
<1> QED
  BY <1>2, <1>3, <1>4 DEF PlacesAgree

(* A new continuation in the hands of the worker that made it.             *)
LEMMA SpawnPlaces ==
  ASSUME NEW w \in Workers, NEW t \in Tasks, PlacesAgree, registered \subseteq Tasks,
         UNCHANGED <<fires, awaiting, queue, jobs>>, registered' = registered \cup {t},
         \A u \in Tasks \ {t} : kind'[u] = kind[u] /\ state'[u] = state[u] /\ callback'[u] = callback[u],
         ~Runnable(t), ~Registering(t), Runnable(t)',
         pc'[w] = "post", task'[w] = t,
         \A v \in Threads \ {w} : pc'[v] = pc[v] /\ task'[v] = task[v]
  PROVE  PlacesAgree'
<1>1. \A u : Runnable(u) => u \in Tasks /\ Runnable(u)'
  BY DEF Runnable
<1>2. \A u \in Tasks : Registering(u) => Registering(u)'
  BY DEF Registering
<1>3. queue' = queue
  OBVIOUS
<1>4. ASSUME NEW v \in Workers, NEW i \in DOMAIN queue'[v] PROVE Runnable(queue[v][i])'
  <2>1. PICK u : u = queue[v][i]
    OBVIOUS
  <2>2. Runnable(u)'
    BY <1>1, <1>3, <1>4, <2>1 DEF PlacesAgree
  <2> QED
    BY <1>3, <2>1, <2>2
<1>5. \A v \in Threads : /\ Carries(v)' => task'[v] \in Tasks /\ Runnable(task[v])'
                         /\ pc'[v] = "cas" => task'[v] \in Tasks /\ Registering(task[v])'
  <2>1. ASSUME NEW v \in Threads \ {w}
        PROVE  /\ Carries(v)' => task'[v] \in Tasks /\ Runnable(task[v])'
               /\ pc'[v] = "cas" => task'[v] \in Tasks /\ Registering(task[v])'
    <3>1. PICK u : u = task[v] /\ task'[v] = u /\ pc'[v] = pc[v]
      OBVIOUS
    <3>2. /\ Carries(v)' => u \in Tasks /\ Runnable(u)'
          /\ pc'[v] = "cas" => u \in Tasks /\ Registering(u)'
      BY <1>1, <1>2, <3>1 DEF PlacesAgree, Carries
    <3> QED
      BY <3>1, <3>2
  <2> QED
    BY <2>1
<1>6. \A u \in jobs' : Runnable(u)'
  BY <1>1 DEF PlacesAgree
<1> QED
  BY <1>4, <1>5, <1>6 DEF PlacesAgree

-----------------------------------------------------------------------------
(* The inductive invariant holds before the program has made a task.       *)
LEMMA InitIInv == Init => IInv
<1> SUFFICES ASSUME Init PROVE IInv
  OBVIOUS
<1> USE NWorkersAssumption, PostModulusAssumption, MaxCompletesAssumption, NoneAssumption
<1>1. TypeOK
  BY DEF Init, TypeOK, Workers, States, Kinds, PCs
<1>2. PlacesAgree /\ OnlyOnce /\ OneRegistrar /\ NoSleepOnWork
  BY DEF Init, PlacesAgree, OnlyOnce, OneRegistrar, NoSleepOnWork, Carries
<1>3. StateAgrees /\ Kept
  BY DEF Init, StateAgrees, Kept
<1>4. Counted
  <2>1. Places = {} /\ Linking = {}
    BY DEF Init, Places, Linking
  <2> QED
    BY <2>1, FS_EmptySet DEF Counted, CountExact, Init
<1> QED
  BY <1>1, <1>2, <1>3, <1>4 DEF IInv

(* Every step keeps it: a case per action, and in it a step per conjunct   *)
(* the action can disturb.                                                 *)
LEMMA NextIInv == IInv /\ [Next]_vars => IInv'
<1> SUFFICES ASSUME IInv, [Next]_vars PROVE IInv'
  OBVIOUS
<1> USE NWorkersAssumption, PostModulusAssumption, MaxCompletesAssumption, NoneAssumption
<1> USE DEF IInv, TypeOK, States, Kinds, PCs, Goto,
            taskVars, poolVars, threadVars, history
<1>0. Workers \subseteq Threads
  BY DEF Threads
<1> USE <1>0
<1>1. ASSUME NEW w \in Threads, PushCount(w) PROVE IInv'
  <2>0. SamePlaces
    BY <1>1 DEF PushCount, SamePlaces, Carries
  <2>1. TypeOK'
    BY <1>1 DEF PushCount, TypeOK
  <2>2. PlacesAgree'
    BY <1>1 DEF PushCount, PlacesAgree, Carries, Runnable, Registering, StateAgrees,
       OneRegistrar
  <2>3. OnlyOnce'
    BY <2>0, SameOnce DEF SamePlaces
  <2>4. OneRegistrar'
    BY <1>1 DEF PushCount, OneRegistrar, PlacesAgree, Registering
  <2>5. StateAgrees'
    BY <1>1 DEF PushCount, StateAgrees, PlacesAgree, Carries, Runnable, Registering
  <2>6. Kept'
    <3>1. \A u : Somewhere(u) => Somewhere(u)'
      BY <2>0, SameSomewhere
    <3> QED
      BY <1>1, <3>1 DEF PushCount, Kept, StateAgrees
  <2>7. Counted'
    <3>1. Linking' = Linking \cup {w} /\ w \notin Linking /\ Places' = Places
      BY <1>1 DEF PushCount, Linking, Places
    <3>2. Cardinality(Linking') = Cardinality(Linking) + 1
      BY <3>1, LinkingFinite, FS_AddElement
    <3>3. Cardinality(Places) \in Nat /\ Cardinality(Linking) \in Nat
      BY LinkingFinite, FS_CardinalityType DEF Counted
    <3> QED
      BY <1>1, <3>1, <3>2, <3>3 DEF PushCount, Counted, CountExact
  <2>8. NoSleepOnWork'
    BY <1>1 DEF PushCount, NoSleepOnWork
  <2> QED
    BY <2>1, <2>2, <2>3, <2>4, <2>5, <2>6, <2>7, <2>8
<1>2. ASSUME NEW w \in Threads, PushLink(w) PROVE IInv'
  <2>0. /\ task[w] \in Tasks /\ Runnable(task[w])
        /\ queue' = [queue EXCEPT ![dest[w]] = Append(@, task[w])] /\ dest[w] \in Workers
        /\ queue[dest[w]] \in Seq(Tasks)
    BY <1>2 DEF PushLink, PlacesAgree, Carries
  <2>1. TypeOK'
    <3>1. queue' \in [Workers -> Seq(Tasks)]
      BY <2>0
    <3>2. pc' \in [Threads -> PCs]
      BY <1>2 DEF PushLink
    <3> QED
      BY <1>2, <3>1, <3>2 DEF PushLink
  <2>2. PlacesAgree'
    <3>1. ASSUME NEW v \in Workers, NEW i \in DOMAIN queue'[v]
          PROVE  Runnable(queue[v][i])'
      <4>1. (i \in DOMAIN queue[v] /\ queue'[v][i] = queue[v][i]) \/ queue'[v][i] = task[w]
        <5>1. CASE v = dest[w]
          <6> DEFINE q == queue[v]
          <6>1. q \in Seq(Tasks) /\ queue'[v] = Append(q, task[w]) /\ i \in DOMAIN Append(q, task[w])
            BY <2>0, <3>1, <5>1
          <6> HIDE DEF q
          <6>2. \/ i \in DOMAIN q /\ Append(q, task[w])[i] = q[i]
                \/ Append(q, task[w])[i] = task[w]
            <7> DEFINE n == Len(q)
            <7>1. /\ n \in Nat /\ DOMAIN q = 1 .. n /\ i \in 1 .. n + 1
                  /\ \A j \in 1 .. n : Append(q, task[w])[j] = q[j]
                  /\ Append(q, task[w])[n + 1] = task[w]
              BY <2>0, <6>1, AppendFacts
            <7> HIDE DEF n
            <7> QED
              BY <7>1
          <6> QED
            BY <6>1, <6>2 DEF q
        <5>2. CASE v # dest[w]
          BY <2>0, <3>1, <5>2
        <5> QED
          BY <5>1, <5>2
      <4>2. Runnable(queue'[v][i])
        BY <2>0, <4>1 DEF PlacesAgree
      <4> QED
        BY <1>2, <4>2 DEF PushLink, Runnable
    <3>2. ASSUME NEW v \in Threads
          PROVE  /\ Carries(v)' => task'[v] \in Tasks /\ Runnable(task[v])'
                 /\ pc'[v] = "cas" => task'[v] \in Tasks /\ Registering(task[v])'
      <4>1. CASE v = w
        BY <1>2, <4>1 DEF PushLink, Carries
      <4>2. CASE v # w
        <5>1. (Carries(v)' => Carries(v)) /\ (pc'[v] = "cas" => pc[v] = "cas") /\ task'[v] = task[v]
          BY <1>2, <4>2 DEF PushLink, Carries
        <5>2. /\ Carries(v) => task[v] \in Tasks /\ Runnable(task[v])
              /\ pc[v] = "cas" => task[v] \in Tasks /\ Registering(task[v])
          BY DEF PlacesAgree
        <5> QED
          BY <1>2, <5>1, <5>2 DEF PushLink, Runnable, Registering
      <4> QED
        BY <4>1, <4>2
    <3>3. ASSUME NEW u \in jobs' PROVE Runnable(u)'
      <4>1. Runnable(u)
        BY <1>2, <3>3 DEF PushLink, PlacesAgree
      <4> QED
        BY <1>2, <4>1 DEF PushLink, Runnable
    <3> QED
      BY <3>1, <3>2, <3>3 DEF PlacesAgree
  <2>3. OnlyOnce'
    BY <1>2, <2>0, PushOnce
  <2>4. OneRegistrar'
    BY <1>2 DEF PushLink, OneRegistrar, PlacesAgree, Registering
  <2>5. StateAgrees'
    BY <1>2 DEF PushLink, StateAgrees, PlacesAgree, Carries, Runnable, Registering
  <2>6. Kept'
    <3>1. \A u : Somewhere(u) => Somewhere(u)'
      BY <1>2, <2>0, PushOnce
    <3> QED
      BY <1>2, <3>1 DEF PushLink, Kept
  <2>7. Counted'
    <3> DEFINE p == <<dest[w], Len(queue[dest[w]]) + 1>>
    <3>1. p \notin Places /\ Places' = Places \cup {p}
      BY <2>0, PlacesAppend
    <3>2. w \in Linking /\ Linking' = Linking \ {w}
      BY <1>2 DEF PushLink, Linking
    <3> HIDE DEF p
    <3>3. IsFiniteSet(Places') /\ Cardinality(Places') = Cardinality(Places) + 1
      BY <3>1, FS_AddElement DEF Counted
    <3>4. Cardinality(Linking') = Cardinality(Linking) - 1
      BY <3>2, LinkingFinite, FS_RemoveElement
    <3>5. Cardinality(Places) \in Nat /\ Cardinality(Linking) \in Nat
      BY LinkingFinite, FS_CardinalityType DEF Counted
    <3> QED
      BY <1>2, <3>3, <3>4, <3>5 DEF PushLink, Counted, CountExact
  <2>8. NoSleepOnWork'
    BY <1>2 DEF PushLink, NoSleepOnWork
  <2> QED
    BY <2>1, <2>2, <2>3, <2>4, <2>5, <2>6, <2>7, <2>8
<1>3. ASSUME NEW w \in Workers, PostParallel(w) PROVE IInv'
  <2>0. SamePlaces
    BY <1>3 DEF PostParallel, SamePlaces, Carries
  <2>1. TypeOK'
    <3>1. (postCounter + 1) % PostModulus \in 0 .. PostModulus - 1
      BY ModRange
    <3>2. (1 + postCounter) % PostModulus \in Nat
      BY ModRange
    <3>3. ((1 + postCounter) % PostModulus) % NWorkers \in Workers
      BY <3>2, ModRange DEF Workers
    <3> QED
      BY <1>3, <3>1, <3>3 DEF PostParallel
  <2>2. PlacesAgree'
    BY <1>3 DEF PostParallel, PlacesAgree, Carries, Runnable, Registering,
       StateAgrees, OneRegistrar
  <2>3. OnlyOnce'
    BY <2>0, SameOnce DEF SamePlaces
  <2>4. OneRegistrar'
    BY <1>3 DEF PostParallel, OneRegistrar, PlacesAgree, Registering
  <2>5. StateAgrees'
    BY <1>3 DEF PostParallel, StateAgrees, PlacesAgree, Carries, Runnable, Registering
  <2>6. Kept'
    <3>1. \A u : Somewhere(u) => Somewhere(u)'
      BY <2>0, SameSomewhere
    <3> QED
      BY <1>3, <3>1 DEF PostParallel, Kept, StateAgrees
  <2>7. Counted'
    <3>1. Linking' = Linking
      BY <1>3 DEF PostParallel, Linking
    <3> QED
      BY <1>3, <3>1, SameCount DEF PostParallel
  <2>8. NoSleepOnWork'
    BY <1>3 DEF PostParallel, NoSleepOnWork
  <2> QED
    BY <2>1, <2>2, <2>3, <2>4, <2>5, <2>6, <2>7, <2>8
<1>4. ASSUME NEW w \in Workers, PopOwn(w) PROVE IInv'
  <2> HIDE DEF IInv, TypeOK
  <2>1. CASE PopFrom(w, w)
    <3>1. LoopSteps(w)
      BY <1>4, <2>1 DEF PopOwn, LoopSteps, PopFrom, IInv, TypeOK
    <3> QED
      BY <2>1, <3>1, PopKeeps
  <2>2. CASE ~PopFrom(w, w)
    <3> DEFINE l == IF NWorkers > 1 THEN "steal" ELSE "wait"
    <3>1. LoopSteps(w) /\ Goto(w, l) /\ UNCHANGED <<queue, queuedCount, task>>
      BY <1>4, <2>2 DEF PopOwn, LoopSteps, IInv, TypeOK
    <3>2. l \in {"steal", "wait"}
      OBVIOUS
    <3> HIDE DEF l
    <3> QED
      BY <3>1, <3>2, LookKeeps
  <2> QED
    BY <2>1, <2>2
<1>5. ASSUME NEW w \in Workers, Steal(w) PROVE IInv'
  <2> HIDE DEF IInv, TypeOK
  <2> DEFINE i == w + offset[w]
             victim == i % NWorkers
  <2>0. victim \in Workers
    <3>1. i \in Nat
      <4>1. offset[w] \in Nat
        BY DEF IInv, TypeOK
      <4> QED
        BY <4>1 DEF Workers
    <3> HIDE DEF i
    <3> QED
      BY <3>1, ModRange DEF Workers
  <2>1. CASE PopFrom(w, victim)
    <3>1. LoopSteps(w)
      <4>1. offset' = [offset EXCEPT ![w] = 1] /\ offset \in [Workers -> Nat]
        BY <1>5, <2>1 DEF Steal, PopFrom, IInv, TypeOK
      <4>2. offset' \in [Workers -> Nat]
        BY <4>1
      <4> QED
        BY <1>5, <4>2 DEF Steal, LoopSteps
    <3> HIDE DEF victim
    <3> QED
      BY <2>0, <2>1, <3>1, PopKeeps
  <2>2. CASE ~PopFrom(w, victim)
    <3>1. PICK l \in {"steal", "wait"} : LoopSteps(w) /\ Goto(w, l) /\ UNCHANGED <<queue, queuedCount, task>>
      <4>1. queue[victim] = <<>>
        BY <1>5, <2>2 DEF Steal, PopFrom
      <4>2. offset \in [Workers -> Nat]
        BY DEF IInv, TypeOK
      <4>3. pc[w] = "steal" /\ UNCHANGED <<queue, queuedCount, task, taskVars, postCounter, dest, history>>
        BY <1>5, <4>1 DEF Steal, PopFrom
      <4>4. CASE offset[w] + 1 < NWorkers
        BY <1>5, <4>1, <4>2, <4>3, <4>4 DEF Steal, PopFrom, LoopSteps
      <4>5. CASE ~(offset[w] + 1 < NWorkers)
        BY <1>5, <4>1, <4>2, <4>3, <4>5 DEF Steal, PopFrom, LoopSteps
      <4> QED
        BY <4>4, <4>5
    <3> QED
      BY <3>1, LookKeeps
  <2> QED
    BY <2>1, <2>2
<1>6. ASSUME NEW w \in Workers, WaitForWork(w) PROVE IInv'
  <2>0. SamePlaces
    BY <1>6 DEF WaitForWork, SamePlaces, Carries
  <2>1. TypeOK'
    BY <1>6 DEF WaitForWork, TypeOK
  <2>2. PlacesAgree'
    BY <1>6 DEF WaitForWork, PlacesAgree, Carries, Runnable, Registering,
       StateAgrees, OneRegistrar
  <2>3. OnlyOnce'
    BY <2>0, SameOnce DEF SamePlaces
  <2>4. OneRegistrar'
    BY <1>6 DEF WaitForWork, OneRegistrar, PlacesAgree, Registering
  <2>5. StateAgrees'
    BY <1>6 DEF WaitForWork, StateAgrees, PlacesAgree, Carries, Runnable, Registering
  <2>6. Kept'
    <3>1. \A u : Somewhere(u) => Somewhere(u)'
      BY <2>0, SameSomewhere
    <3> QED
      BY <1>6, <3>1 DEF WaitForWork, Kept, StateAgrees
  <2>7. Counted'
    <3>1. Linking' = Linking
      BY <1>6 DEF WaitForWork, Linking
    <3> QED
      BY <1>6, <3>1, SameCount DEF WaitForWork
  <2>8. NoSleepOnWork'
    BY <1>6 DEF WaitForWork, NoSleepOnWork
  <2> QED
    BY <2>1, <2>2, <2>3, <2>4, <2>5, <2>6, <2>7, <2>8
<1>7. ASSUME NEW w \in Workers, FireState(w) PROVE IInv'
  <2>0. SamePlaces
    BY <1>7 DEF FireState, SamePlaces, Carries
  <2>1. TypeOK'
    BY <1>7 DEF FireState, TypeOK
  <2>2. PlacesAgree'
    <3>1. \A u \in Tasks : (Runnable(u) => Runnable(u)') /\ (Registering(u) => Registering(u)')
      BY <1>7 DEF FireState, Runnable, Registering
    <3>2. /\ UNCHANGED <<queue, jobs>> /\ pc'[w] # "cas"
          /\ \A v \in Threads \ {w} : pc'[v] = pc[v] /\ task'[v] = task[v]
      BY <1>7 DEF FireState
    <3>3. Carries(w)' => task'[w] \in Tasks /\ Runnable(task[w])'
      BY <1>7, <3>1 DEF FireState, PlacesAgree, Carries
    <3> QED
      BY <3>1, <3>2, <3>3, PlacesStay
  <2>3. OnlyOnce'
    BY <2>0, SameOnce DEF SamePlaces
  <2>4. OneRegistrar'
    BY <1>7 DEF FireState, OneRegistrar, PlacesAgree, Registering
  <2>5. StateAgrees'
    <3>1. task[w] \in Tasks /\ Runnable(task[w])
      BY <1>7 DEF FireState, PlacesAgree, Carries
    <3>2. /\ state'[task[w]] = "COMPLETE"
          /\ \A u \in Tasks \ {task[w]} : state'[u] = state[u]
          /\ UNCHANGED <<kind, awaiting, registered, completes, callback, fires>>
      BY <1>7, <3>1 DEF FireState
    <3>3. kind[task[w]] # "none" /\ (kind[task[w]] = "await" => state[task[w]] = "COMPLETE")
      BY <3>1 DEF StateAgrees, Runnable
    <3> HIDE DEF IInv, TypeOK
    <3> QED
      BY <3>1, <3>2, <3>3 DEF StateAgrees, Runnable, IInv
  <2>6. Kept'
    <3>1. \A u : Somewhere(u) => Somewhere(u)'
      BY <2>0, SameSomewhere
    <3>2. Somewhere(task[w])
      BY <1>7 DEF FireState, Somewhere, Carries
    <3> QED
      BY <1>7, <3>1, <3>2 DEF FireState, Kept
  <2>7. Counted'
    <3>1. Linking' = Linking
      BY <1>7 DEF FireState, Linking
    <3> QED
      BY <1>7, <3>1, SameCount DEF FireState
  <2>8. NoSleepOnWork'
    BY <1>7 DEF FireState, NoSleepOnWork
  <2> QED
    BY <2>1, <2>2, <2>3, <2>4, <2>5, <2>6, <2>7, <2>8
<1>8. ASSUME NEW w \in Workers, FireRead(w) PROVE IInv'
  <2>0. SamePlaces /\ callback[task[w]]
    <3>1. callback[task[w]]
      BY <1>8 DEF FireRead, PlacesAgree, Carries, Runnable
    <3> QED
      BY <1>8, <3>1 DEF FireRead, SamePlaces, Carries
  <2>1. TypeOK'
    BY <1>8 DEF FireRead, TypeOK
  <2>2. PlacesAgree'
    <3>1. \A u \in Tasks : (Runnable(u) => Runnable(u)') /\ (Registering(u) => Registering(u)')
      BY <1>8 DEF FireRead, Runnable, Registering
    <3>2. /\ UNCHANGED <<queue, jobs>> /\ pc'[w] # "cas"
          /\ \A v \in Threads \ {w} : pc'[v] = pc[v] /\ task'[v] = task[v]
      BY <1>8 DEF FireRead
    <3>3. Carries(w)' => task'[w] \in Tasks /\ Runnable(task[w])'
      BY <1>8, <3>1 DEF FireRead, PlacesAgree, Carries
    <3> QED
      BY <3>1, <3>2, <3>3, PlacesStay
  <2>3. OnlyOnce'
    BY <2>0, SameOnce DEF SamePlaces
  <2>4. OneRegistrar'
    <3>1. pc'[w] # "cas" /\ \A v \in Threads \ {w} : pc'[v] = pc[v] /\ task'[v] = task[v]
      BY <1>8 DEF FireRead
    <3> QED
      BY <3>1 DEF OneRegistrar
  <2>5. StateAgrees'
    BY <1>8 DEF FireRead, StateAgrees, PlacesAgree, Carries, Runnable, Registering
  <2>6. Kept'
    <3>1. \A u : Somewhere(u) => Somewhere(u)'
      BY <2>0, SameSomewhere
    <3> QED
      BY <1>8, <3>1 DEF FireRead, Kept, StateAgrees
  <2>7. Counted'
    <3>1. Linking' = Linking
      BY <1>8 DEF FireRead, Linking
    <3> QED
      BY <1>8, <3>1, SameCount DEF FireRead
  <2>8. NoSleepOnWork'
    BY <1>8 DEF FireRead, NoSleepOnWork
  <2> QED
    BY <2>1, <2>2, <2>3, <2>4, <2>5, <2>6, <2>7, <2>8
<1>9. ASSUME NEW w \in Workers, FireInvoke(w) PROVE IInv'
  <2>0. /\ task[w] \in Tasks /\ Runnable(task[w])
        /\ fires'[task[w]] = 1
    <3>1. task[w] \in Tasks /\ Runnable(task[w])
      BY <1>9 DEF FireInvoke, PlacesAgree, Carries
    <3> QED
      BY <1>9, <3>1 DEF FireInvoke, Runnable
  <2>1. TypeOK'
    BY <1>9, <2>0 DEF FireInvoke
  <2>2. PlacesAgree'
    <3>1. \A u : /\ u # task[w] /\ Runnable(u) => Runnable(u)'
                /\ Registering(u) => Registering(u)'
      BY <1>9, <2>0 DEF FireInvoke, Runnable, Registering
    <3>2. /\ queue' = queue /\ Carries(w) /\ ~Carries(w)' /\ pc'[w] # "cas"
          /\ \A v \in Threads \ {w} : pc'[v] = pc[v] /\ task'[v] = task[v]
      BY <1>9 DEF FireInvoke, Carries
    <3>3. \A v \in Workers : \A i \in DOMAIN queue[v] : queue[v][i] # task[w]
      BY <3>2 DEF OnlyOnce
    <3>4. \A v \in Threads \ {w} : Carries(v) => task[v] # task[w]
      BY <3>2 DEF OnlyOnce
    <3>5. ASSUME NEW v \in Workers, NEW i \in DOMAIN queue'[v] PROVE Runnable(queue[v][i])'
      <4>1. Runnable(queue[v][i]) /\ queue[v][i] # task[w]
        BY <3>2, <3>3, <3>5 DEF PlacesAgree
      <4> QED
        BY <1>9, <2>0, <4>1 DEF FireInvoke, Runnable
    <3>6. ASSUME NEW v \in Threads
          PROVE  /\ Carries(v)' => task'[v] \in Tasks /\ Runnable(task[v])'
                 /\ pc'[v] = "cas" => task'[v] \in Tasks /\ Registering(task[v])'
      <4>1. CASE v = w
        BY <3>2, <4>1
      <4>2. CASE v # w
        <5>1. /\ Carries(v) => task[v] \in Tasks /\ Runnable(task[v]) /\ task[v] # task[w]
              /\ pc[v] = "cas" => task[v] \in Tasks /\ Registering(task[v])
          BY <3>4, <4>2 DEF PlacesAgree
        <5>2. pc'[v] = pc[v] /\ task'[v] = task[v]
          BY <3>2, <4>2
        <5> QED
          BY <1>9, <2>0, <5>1, <5>2 DEF FireInvoke, Runnable, Registering, Carries
      <4> QED
        BY <4>1, <4>2
    <3>7. ASSUME NEW u \in jobs' PROVE Runnable(u)'
      <4>1. Runnable(u) /\ u # task[w]
        BY <1>9, <3>2, <3>7 DEF FireInvoke, PlacesAgree, OnlyOnce
      <4> QED
        BY <1>9, <2>0, <4>1 DEF FireInvoke, Runnable
    <3> QED
      BY <3>5, <3>6, <3>7 DEF PlacesAgree
  <2>3. OnlyOnce'
    <3>1. queue' = queue /\ jobs' = jobs /\ \A v \in Threads : Carries(v)' => Carries(v) /\ task'[v] = task[v]
      BY <1>9 DEF FireInvoke, Carries
    <3> QED
      BY <3>1, SameOnce
  <2>4. OneRegistrar'
    BY <1>9 DEF FireInvoke, OneRegistrar, PlacesAgree, Registering
  <2>5. StateAgrees'
    <3>1. /\ UNCHANGED <<state, kind, completes, awaiting, registered>>
          /\ callback'[task[w]] = FALSE /\ fires'[task[w]] = 1
          /\ \A u \in Tasks \ {task[w]} : callback'[u] = callback[u] /\ fires'[u] = fires[u]
      BY <1>9, <2>0 DEF FireInvoke
    <3>2. task[w] \in registered /\ (kind[task[w]] = "await" => state[task[w]] = "COMPLETE")
      BY <2>0 DEF Runnable
    <3>3. StateAgrees
      OBVIOUS
    <3> HIDE DEF IInv, TypeOK
    <3> QED
      BY <2>0, <3>1, <3>2, <3>3 DEF StateAgrees
  <2>6. Kept'
    <3>1. ASSUME NEW u, Somewhere(u), u # task[w] PROVE Somewhere(u)'
      BY <1>9, <3>1 DEF FireInvoke, Somewhere, Queued, Carries
    <3> QED
      BY <1>9, <2>0, <3>1 DEF FireInvoke, Kept, StateAgrees
  <2>7. Counted'
    <3>1. Linking' = Linking
      BY <1>9 DEF FireInvoke, Linking
    <3> QED
      BY <1>9, <3>1, SameCount DEF FireInvoke
  <2>8. NoSleepOnWork'
    BY <1>9 DEF FireInvoke, NoSleepOnWork
  <2> QED
    BY <2>1, <2>2, <2>3, <2>4, <2>5, <2>6, <2>7, <2>8
<1>10. ASSUME NEW w \in Workers, RegisterCas(w) PROVE IInv'
  <2> DEFINE t == task[w]
  <2>a. t \in Tasks /\ Registering(t) /\ ~Somewhere(t)
    BY <1>10, RunnableSomewhere DEF RegisterCas, PlacesAgree, Runnable, Registering
  <2>0. IF state[t] = "PENDING" THEN SamePlaces ELSE Takes(w, t) /\ Runnable(t)'
    <3>1. CASE state[t] = "PENDING"
      BY <1>10, <3>1 DEF RegisterCas, SamePlaces, Carries
    <3>2. CASE state[t] # "PENDING"
      <4>1. Takes(w, t)
        BY <1>10, <3>2 DEF RegisterCas, Takes, Carries
      <4>2. state'[t] = "COMPLETE" /\ fires[t] = 0
        BY <1>10, <2>a, <3>2 DEF RegisterCas, StateAgrees, Registering
      <4>3. Runnable(t)'
        BY <1>10, <2>a, <4>2 DEF RegisterCas, Runnable, Registering
      <4> QED
        BY <3>2, <4>1, <4>3
    <3> QED
      BY <3>1, <3>2
  <2>1. TypeOK'
    <3>1. home[t] \in Workers
      BY <2>a
    <3>2. state' \in [Tasks -> States]
      <4>1. \E s \in {state[t], "CALLBACK", "COMPLETE"} : state' = [state EXCEPT ![t] = s]
        BY <1>10, <2>a DEF RegisterCas
      <4> QED
        BY <2>a, <4>1
    <3>3. dest' \in [Threads -> Workers]
      BY <1>10, <3>1 DEF RegisterCas
    <3>4. pc' \in [Threads -> PCs]
      <4>1. \E l \in {"body", "post", "push"} : pc' = [pc EXCEPT ![w] = l]
        BY <1>10 DEF RegisterCas
      <4> QED
        BY <4>1
    <3>5. task' \in [Threads -> Tasks \cup {None}] /\ registered' \in SUBSET Tasks
      BY <1>10, <2>a DEF RegisterCas
    <3> QED
      BY <1>10, <3>2, <3>3, <3>4, <3>5 DEF RegisterCas
  <2>2. PlacesAgree'
    <3>1. /\ \A u : Runnable(u) => Runnable(u)'
          /\ \A u : Registering(u) /\ u # t => Registering(u)'
      BY <1>10, <2>a DEF RegisterCas, Runnable, Registering
    <3>2. queue' = queue /\ \A v \in Threads \ {w} : pc'[v] = pc[v] /\ task'[v] = task[v]
      BY <1>10 DEF RegisterCas
    <3>3. /\ Carries(w)' => task'[w] = t /\ Runnable(t)'
          /\ pc'[w] # "cas"
      BY <1>10, <2>0 DEF RegisterCas, Takes, SamePlaces, Carries
    <3>4. \A v \in Threads \ {w} : pc[v] = "cas" => task[v] # t
      BY <1>10 DEF RegisterCas, OneRegistrar
    <3>5. ASSUME NEW v \in Workers, NEW i \in DOMAIN queue'[v] PROVE Runnable(queue[v][i])'
      <4>1. Runnable(queue[v][i])
        BY <3>2, <3>5 DEF PlacesAgree
      <4> QED
        <5>1. queue'[v][i] = queue[v][i] /\ queue[v][i] # t /\ queue[v][i] \in Tasks
          BY <2>a, <3>2, <4>1 DEF Runnable, Registering
        <5>2. \A u \in Tasks : u # t => state'[u] = state[u]
          BY <1>10 DEF RegisterCas
        <5> QED
          BY <1>10, <4>1, <5>1, <5>2 DEF RegisterCas, Runnable
    <3>6. ASSUME NEW v \in Threads
          PROVE  /\ Carries(v)' => task'[v] \in Tasks /\ Runnable(task[v])'
                 /\ pc'[v] = "cas" => task'[v] \in Tasks /\ Registering(task[v])'
      <4>1. CASE v = w
        BY <2>a, <3>3, <4>1 DEF Runnable
      <4>2. CASE v # w
        <5>1. /\ Carries(v) => task[v] \in Tasks /\ Runnable(task[v])
              /\ pc[v] = "cas" => task[v] \in Tasks /\ Registering(task[v]) /\ task[v] # t
          BY <3>4, <4>2 DEF PlacesAgree
        <5>2. pc'[v] = pc[v] /\ task'[v] = task[v]
          BY <3>2, <4>2
        <5>3. PICK u : u = task[v] /\ task'[v] = u
          BY <5>2
        <5>4. /\ Carries(v)' => u \in Tasks /\ Runnable(u)'
              /\ pc'[v] = "cas" => u \in Tasks /\ Registering(u)'
          BY <3>1, <5>1, <5>2, <5>3 DEF Carries
        <5> QED
          BY <5>3, <5>4
      <4> QED
        BY <4>1, <4>2
    <3>7. ASSUME NEW u \in jobs' PROVE Runnable(u)'
      BY <1>10, <3>1, <3>7 DEF RegisterCas, PlacesAgree
    <3> QED
      BY <3>5, <3>6, <3>7 DEF PlacesAgree
  <2>3. OnlyOnce'
    BY <2>0, <2>a, TakesOnce, SameOnce DEF SamePlaces
  <2>4. OneRegistrar'
    <3>1. pc'[w] # "cas" /\ \A v \in Threads \ {w} : pc'[v] = pc[v] /\ task'[v] = task[v]
      BY <1>10 DEF RegisterCas
    <3> QED
      BY <3>1 DEF OneRegistrar
  <2>5. StateAgrees'
    <3>1. /\ UNCHANGED <<kind, completes, awaiting, callback, fires>>
          /\ registered' = registered \cup {t}
          /\ \A u \in Tasks \ {t} : state'[u] = state[u]
          /\ state'[t] = CASE state[t] = "PENDING" -> "CALLBACK"
                          [] state[t] = "YIELDED" -> "COMPLETE"
                          [] OTHER -> state[t]
      BY <1>10, <2>a DEF RegisterCas
    <3>2. /\ t \notin registered /\ awaiting[t] /\ callback[t] /\ fires[t] = 0
          /\ kind[t] \in {"await", "yield"}
      BY <2>a DEF Registering, StateAgrees
    <3>3. StateAgrees
      OBVIOUS
    <3> HIDE DEF IInv, TypeOK, t
    <3> QED
      BY <2>a, <3>1, <3>2, <3>3 DEF StateAgrees
  <2>6. Kept'
    <3>1. CASE state[t] # "PENDING"
      <4>1. \A u : Somewhere(u) \/ u = t => Somewhere(u)'
        BY <3>1, <2>0, <2>a, TakesOnce
      <4> QED
        BY <1>10, <4>1, <3>1 DEF RegisterCas, Kept
    <3>2. CASE state[t] = "PENDING"
      <4>1. \A u : Somewhere(u) => Somewhere(u)'
        BY <3>2, <2>0, SameSomewhere
      <4> QED
        BY <1>10, <2>a, <3>2, <4>1 DEF RegisterCas, Kept, StateAgrees, Registering
    <3> QED
      BY <3>1, <3>2
  <2>7. Counted'
    <3>1. Linking' = Linking
      BY <1>10 DEF RegisterCas, Linking
    <3> QED
      BY <1>10, <3>1, SameCount DEF RegisterCas
  <2>8. NoSleepOnWork'
    BY <1>10 DEF RegisterCas, NoSleepOnWork
  <2> QED
    BY <2>1, <2>2, <2>3, <2>4, <2>5, <2>6, <2>7, <2>8
<1>11. ASSUME NEW w \in Workers, BodyReturn(w) PROVE IInv'
  <2>0. SamePlaces
    BY <1>11 DEF BodyReturn, SamePlaces, Carries
  <2>1. TypeOK'
    BY <1>11 DEF BodyReturn, TypeOK
  <2>2. PlacesAgree'
    BY <1>11 DEF BodyReturn, PlacesAgree, Carries, Runnable, Registering,
       StateAgrees, OneRegistrar
  <2>3. OnlyOnce'
    BY <2>0, SameOnce DEF SamePlaces
  <2>4. OneRegistrar'
    BY <1>11 DEF BodyReturn, OneRegistrar, PlacesAgree, Registering
  <2>5. StateAgrees'
    BY <1>11 DEF BodyReturn, StateAgrees, PlacesAgree, Carries, Runnable, Registering
  <2>6. Kept'
    <3>1. \A u : Somewhere(u) => Somewhere(u)'
      BY <2>0, SameSomewhere
    <3> QED
      BY <1>11, <3>1 DEF BodyReturn, Kept, StateAgrees
  <2>7. Counted'
    <3>1. Linking' = Linking
      BY <1>11 DEF BodyReturn, Linking
    <3> QED
      BY <1>11, <3>1, SameCount DEF BodyReturn
  <2>8. NoSleepOnWork'
    BY <1>11 DEF BodyReturn, NoSleepOnWork
  <2> QED
    BY <2>1, <2>2, <2>3, <2>4, <2>5, <2>6, <2>7, <2>8
<1>12. ASSUME NEW w \in Workers, NEW t \in Tasks, TaskCreate(w, t) PROVE IInv'
  <2>0. SamePlaces
    BY <1>12 DEF TaskCreate, Allocate, SamePlaces, Carries
  <2>1. TypeOK'
    BY <1>12 DEF TaskCreate, Allocate, TypeOK
  <2>2. PlacesAgree'
    <3>1. \A u \in Tasks : (Runnable(u) => Runnable(u)') /\ (Registering(u) => Registering(u)')
      BY <1>12 DEF TaskCreate, Allocate, Runnable, Registering, StateAgrees
    <3>2. /\ UNCHANGED <<queue, jobs>> /\ pc'[w] # "cas"
          /\ \A v \in Threads \ {w} : pc'[v] = pc[v] /\ task'[v] = task[v]
      BY <1>12 DEF TaskCreate, Allocate
    <3>3. Carries(w)' => task'[w] \in Tasks /\ Runnable(task[w])'
      BY <1>12, <3>1 DEF TaskCreate, Allocate, PlacesAgree, Carries
    <3> QED
      BY <3>1, <3>2, <3>3, PlacesStay
  <2>3. OnlyOnce'
    BY <2>0, SameOnce DEF SamePlaces
  <2>4. OneRegistrar'
    BY <1>12 DEF TaskCreate, Allocate, OneRegistrar, PlacesAgree, Registering
  <2>5. StateAgrees'
    BY <1>12 DEF TaskCreate, Allocate, StateAgrees
  <2>6. Kept'
    <3>1. \A u : Somewhere(u) => Somewhere(u)'
      BY <2>0, SameSomewhere
    <3> QED
      BY <1>12, <3>1 DEF TaskCreate, Allocate, Kept, StateAgrees
  <2>7. Counted'
    <3>1. Linking' = Linking
      BY <1>12 DEF TaskCreate, Allocate, Linking
    <3> QED
      BY <1>12, <3>1, SameCount DEF TaskCreate, Allocate
  <2>8. NoSleepOnWork'
    BY <1>12 DEF TaskCreate, Allocate, NoSleepOnWork
  <2> QED
    BY <2>1, <2>2, <2>3, <2>4, <2>5, <2>6, <2>7, <2>8
<1>13. ASSUME NEW w \in Workers, NEW t \in Tasks, FutureYield(w, t) PROVE IInv'
  <2>0. SamePlaces
    BY <1>13 DEF FutureYield, Allocate, SamePlaces, Carries
  <2>1. TypeOK'
    BY <1>13 DEF FutureYield, Allocate, TypeOK
  <2>2. PlacesAgree'
    <3>1. \A u \in Tasks : (Runnable(u) => Runnable(u)') /\ (Registering(u) => Registering(u)')
      BY <1>13 DEF FutureYield, Allocate, Runnable, Registering, StateAgrees
    <3>2. /\ UNCHANGED <<queue, jobs>> /\ pc'[w] # "cas"
          /\ \A v \in Threads \ {w} : pc'[v] = pc[v] /\ task'[v] = task[v]
      BY <1>13 DEF FutureYield, Allocate
    <3>3. Carries(w)' => task'[w] \in Tasks /\ Runnable(task[w])'
      BY <1>13, <3>1 DEF FutureYield, Allocate, PlacesAgree, Carries
    <3> QED
      BY <3>1, <3>2, <3>3, PlacesStay
  <2>3. OnlyOnce'
    BY <2>0, SameOnce DEF SamePlaces
  <2>4. OneRegistrar'
    BY <1>13 DEF FutureYield, Allocate, OneRegistrar, PlacesAgree, Registering
  <2>5. StateAgrees'
    BY <1>13 DEF FutureYield, Allocate, StateAgrees
  <2>6. Kept'
    <3>1. \A u : Somewhere(u) => Somewhere(u)'
      BY <2>0, SameSomewhere
    <3> QED
      BY <1>13, <3>1 DEF FutureYield, Allocate, Kept, StateAgrees
  <2>7. Counted'
    <3>1. Linking' = Linking
      BY <1>13 DEF FutureYield, Allocate, Linking
    <3> QED
      BY <1>13, <3>1, SameCount DEF FutureYield, Allocate
  <2>8. NoSleepOnWork'
    BY <1>13 DEF FutureYield, Allocate, NoSleepOnWork
  <2> QED
    BY <2>1, <2>2, <2>3, <2>4, <2>5, <2>6, <2>7, <2>8
<1>14. ASSUME NEW w \in Workers, NEW t \in Tasks, Dispatch(w, t) PROVE IInv'
  <2>0. ~Somewhere(t) /\ Takes(w, t)
    <3>1. ~Somewhere(t)
      BY <1>14, RunnableSomewhere DEF Dispatch, NewSpawn, Allocate, Runnable,
         StateAgrees
    <3> QED
      BY <1>14, <3>1 DEF Dispatch, NewSpawn, Allocate, Takes, Carries
  <2>1. TypeOK'
    BY <1>14 DEF Dispatch, NewSpawn, Allocate, TypeOK
  <2>2. PlacesAgree'
    <3>1. \A u \in Tasks : (Runnable(u) => Runnable(u)') /\ (Registering(u) => Registering(u)')
      BY <1>14 DEF Dispatch, NewSpawn, Allocate, Runnable, Registering, StateAgrees
    <3>2. /\ UNCHANGED <<queue, jobs>> /\ pc'[w] # "cas" /\ task'[w] = t
          /\ \A v \in Threads \ {w} : pc'[v] = pc[v] /\ task'[v] = task[v]
      BY <1>14 DEF Dispatch, NewSpawn, Allocate
    <3>3. Runnable(t)'
      BY <1>14 DEF Dispatch, NewSpawn, Allocate, Runnable, StateAgrees
    <3> QED
      BY <3>1, <3>2, <3>3, PlacesStay
  <2>3. OnlyOnce'
    BY <2>0, TakesOnce
  <2>4. OneRegistrar'
    BY <1>14 DEF Dispatch, NewSpawn, Allocate, OneRegistrar, PlacesAgree, Registering
  <2>5. StateAgrees'
    BY <1>14 DEF Dispatch, NewSpawn, Allocate, StateAgrees
  <2>6. Kept'
    <3>1. \A u : Somewhere(u) \/ u = t => Somewhere(u)'
      BY <2>0, TakesOnce
    <3> QED
      BY <1>14, <3>1 DEF Dispatch, NewSpawn, Allocate, Kept, StateAgrees
  <2>7. Counted'
    <3>1. Linking' = Linking
      BY <1>14 DEF Dispatch, NewSpawn, Allocate, Linking
    <3> QED
      BY <1>14, <3>1, SameCount DEF Dispatch, NewSpawn, Allocate
  <2>8. NoSleepOnWork'
    BY <1>14 DEF Dispatch, NewSpawn, Allocate, NoSleepOnWork
  <2> QED
    BY <2>1, <2>2, <2>3, <2>4, <2>5, <2>6, <2>7, <2>8
<1>15. ASSUME NEW w \in Workers, NEW t \in Tasks, FuturePost(w, t) PROVE IInv'
  <2>0. ~Somewhere(t) /\ Takes(w, t)
    <3>1. ~Somewhere(t)
      BY <1>15, RunnableSomewhere DEF FuturePost, NewSpawn, Allocate, Runnable,
         StateAgrees
    <3> QED
      BY <1>15, <3>1 DEF FuturePost, NewSpawn, Allocate, Takes, Carries
  <2>1. TypeOK'
    BY <1>15 DEF FuturePost, NewSpawn, Allocate, TypeOK
  <2>2. PlacesAgree'
    <3>1. kind[t] = "none" /\ ~awaiting[t]
      BY <1>15 DEF FuturePost, NewSpawn, Allocate, StateAgrees
    <3>2. UNCHANGED <<fires, awaiting, queue, jobs>> /\ registered' = registered \cup {t}
      BY <1>15 DEF FuturePost, NewSpawn
    <3>3. /\ \E k : kind' = [kind EXCEPT ![t] = k]
          /\ \E s : state' = [state EXCEPT ![t] = s]
          /\ \E c : callback' = [callback EXCEPT ![t] = c]
      BY <1>15 DEF FuturePost, NewSpawn, Allocate
    <3>4. \A u \in Tasks \ {t} : kind'[u] = kind[u] /\ state'[u] = state[u] /\ callback'[u] = callback[u]
      BY <3>3
    <3>5. ~Runnable(t) /\ ~Registering(t) /\ Runnable(t)'
      <4>1. state[t] = "none" /\ fires[t] = 0
        BY <1>15, <3>1 DEF FuturePost, NewSpawn, Allocate, StateAgrees
      <4>2. ~Runnable(t) /\ ~Registering(t)
        BY <3>1, <4>1 DEF Runnable, Registering
      <4>3. kind'[t] = "spawn" /\ callback'[t]
        BY <1>15 DEF FuturePost, NewSpawn, Allocate
      <4> QED
        BY <3>2, <4>1, <4>2, <4>3 DEF Runnable
    <3>6. pc'[w] = "post" /\ task'[w] = t /\ \A v \in Threads \ {w} : pc'[v] = pc[v] /\ task'[v] = task[v]
      BY <1>15 DEF FuturePost, NewSpawn, Allocate
    <3> QED
      BY <3>2, <3>4, <3>5, <3>6, SpawnPlaces
  <2>3. OnlyOnce'
    BY <2>0, TakesOnce
  <2>4. OneRegistrar'
    BY <1>15 DEF FuturePost, NewSpawn, Allocate, OneRegistrar, PlacesAgree, Registering
  <2>5. StateAgrees'
    BY <1>15 DEF FuturePost, NewSpawn, Allocate, StateAgrees
  <2>6. Kept'
    <3>1. \A u : Somewhere(u) \/ u = t => Somewhere(u)'
      BY <2>0, TakesOnce
    <3> QED
      BY <1>15, <3>1 DEF FuturePost, NewSpawn, Allocate, Kept, StateAgrees
  <2>7. Counted'
    <3>1. Linking' = Linking
      BY <1>15 DEF FuturePost, NewSpawn, Allocate, Linking
    <3> QED
      BY <1>15, <3>1, SameCount DEF FuturePost, NewSpawn, Allocate
  <2>8. NoSleepOnWork'
    BY <1>15 DEF FuturePost, NewSpawn, Allocate, NoSleepOnWork
  <2> QED
    BY <2>1, <2>2, <2>3, <2>4, <2>5, <2>6, <2>7, <2>8
<1>16. ASSUME NEW w \in Workers, NEW t \in Tasks, TaskComplete(w, t) PROVE IInv'
  <2>0. IF state[t] = "CALLBACK" THEN ~Somewhere(t) /\ Takes(w, t) /\ Runnable(t)' ELSE SamePlaces
    <3>1. CASE state[t] = "CALLBACK"
      <4>1. ~Somewhere(t)
        BY <1>16, <3>1, RunnableSomewhere DEF TaskComplete, Runnable
      <4>2. Takes(w, t)
        BY <1>16, <3>1 DEF TaskComplete, Takes, Carries
      <4>3. fires[t] = 0
        BY <1>16, <3>1 DEF TaskComplete, StateAgrees
      <4>4. Runnable(t)'
        BY <1>16, <3>1, <4>3 DEF TaskComplete, StateAgrees, Runnable
      <4> QED
        BY <3>1, <4>1, <4>2, <4>4
    <3>2. CASE state[t] # "CALLBACK"
      BY <1>16, <3>2 DEF TaskComplete, SamePlaces, Carries
    <3> QED
      BY <3>1, <3>2
  <2>1. TypeOK'
    <3>1. home[t] \in Workers /\ completes[t] + 1 \in 0 .. MaxCompletes
      BY <1>16 DEF TaskComplete
    <3>2. state' \in [Tasks -> States] /\ completes' \in [Tasks -> 0 .. MaxCompletes]
      BY <1>16, <3>1 DEF TaskComplete
    <3>3. CASE state[t] = "CALLBACK"
      <4>0. /\ task' = [task EXCEPT ![w] = t] /\ dest' = [dest EXCEPT ![w] = home[t]]
            /\ pc' = [pc EXCEPT ![w] = "push"]
        <5> HIDE DEF IInv, TypeOK
        <5> QED
          BY <1>16, <3>3 DEF TaskComplete
      <4>1. task' \in [Threads -> Tasks \cup {None}] /\ dest' \in [Threads -> Workers]
        BY <3>1, <4>0
      <4>2. pc' \in [Threads -> PCs]
        BY <4>0
      <4> QED
        BY <1>16, <3>2, <4>1, <4>2 DEF TaskComplete
    <3>4. CASE state[t] # "CALLBACK"
      BY <1>16, <3>2, <3>4 DEF TaskComplete
    <3> QED
      BY <3>3, <3>4
  <2>2. PlacesAgree'
    <3>1. \A u \in Tasks : (Runnable(u) => Runnable(u)') /\ (Registering(u) => Registering(u)')
      BY <1>16 DEF TaskComplete, Runnable, Registering
    <3>2. UNCHANGED <<queue, jobs>> /\ \A v \in Threads \ {w} : pc'[v] = pc[v] /\ task'[v] = task[v]
      BY <1>16 DEF TaskComplete
    <3>3. /\ Carries(w)' => task'[w] = t /\ Runnable(t)'
          /\ pc'[w] # "cas"
      BY <1>16, <2>0 DEF TaskComplete, Takes, SamePlaces, Carries
    <3> QED
      BY <3>1, <3>2, <3>3, PlacesStay
  <2>3. OnlyOnce'
    BY <2>0, TakesOnce, SameOnce DEF SamePlaces
  <2>4. OneRegistrar'
    <3>1. pc'[w] # "cas" /\ \A v \in Threads \ {w} : pc'[v] = pc[v] /\ task'[v] = task[v]
      BY <1>16 DEF TaskComplete
    <3> QED
      BY <3>1 DEF OneRegistrar
  <2>5. StateAgrees'
    <3>1. /\ UNCHANGED <<kind, awaiting, registered, callback, fires>>
          /\ kind[t] = "await" /\ state'[t] = "COMPLETE" /\ completes'[t] > 0
          /\ \A u \in Tasks \ {t} : state'[u] = state[u] /\ completes'[u] = completes[u]
      BY <1>16 DEF TaskComplete
    <3>2. StateAgrees
      OBVIOUS
    <3> HIDE DEF IInv, TypeOK
    <3> QED
      BY <3>1, <3>2 DEF StateAgrees
  <2>6. Kept'
    <3>1. CASE state[t] = "CALLBACK"
      <4>1. \A u : Somewhere(u) \/ u = t => Somewhere(u)'
        BY <3>1, <2>0, TakesOnce
      <4> QED
        BY <1>16, <4>1 DEF TaskComplete, Kept
    <3>2. CASE state[t] # "CALLBACK"
      <4>1. \A u : Somewhere(u) => Somewhere(u)'
        BY <3>2, <2>0, SameSomewhere
      <4> QED
        BY <1>16, <3>2, <4>1 DEF TaskComplete, Kept
    <3> QED
      BY <3>1, <3>2
  <2>7. Counted'
    <3>1. Linking' = Linking
      BY <1>16 DEF TaskComplete, Linking
    <3> QED
      BY <1>16, <3>1, SameCount DEF TaskComplete
  <2>8. NoSleepOnWork'
    BY <1>16 DEF TaskComplete, NoSleepOnWork
  <2> QED
    BY <2>1, <2>2, <2>3, <2>4, <2>5, <2>6, <2>7, <2>8
<1>17. ASSUME NEW w \in Workers, NEW t \in Tasks, StoreCallback(w, t) PROVE IInv'
  <2>0. SamePlaces
    BY <1>17 DEF StoreCallback, SamePlaces, Carries
  <2>1. TypeOK'
    BY <1>17 DEF StoreCallback, TypeOK
  <2>2. PlacesAgree'
    <3>1. \A u \in Tasks : (Runnable(u) => Runnable(u)') /\ (Registering(u) => Registering(u)')
      BY <1>17 DEF StoreCallback, Runnable, Registering
    <3>2. /\ UNCHANGED <<queue, jobs>> /\ ~Carries(w)' /\ task'[w] = t
          /\ \A v \in Threads \ {w} : pc'[v] = pc[v] /\ task'[v] = task[v]
      BY <1>17 DEF StoreCallback, Carries
    <3>3. Registering(t)'
      BY <1>17 DEF StoreCallback, Registering, StateAgrees
    <3> QED
      BY <3>1, <3>2, <3>3, PlacesStay
  <2>3. OnlyOnce'
    BY <2>0, SameOnce DEF SamePlaces
  <2>4. OneRegistrar'
    BY <1>17 DEF StoreCallback, OneRegistrar, PlacesAgree, Registering
  <2>5. StateAgrees'
    BY <1>17 DEF StoreCallback, StateAgrees
  <2>6. Kept'
    <3>1. \A u : Somewhere(u) => Somewhere(u)'
      BY <2>0, SameSomewhere
    <3> QED
      BY <1>17, <3>1 DEF StoreCallback, Kept, StateAgrees
  <2>7. Counted'
    <3>1. Linking' = Linking
      BY <1>17 DEF StoreCallback, Linking
    <3> QED
      BY <1>17, <3>1, SameCount DEF StoreCallback
  <2>8. NoSleepOnWork'
    BY <1>17 DEF StoreCallback, NoSleepOnWork
  <2> QED
    BY <2>1, <2>2, <2>3, <2>4, <2>5, <2>6, <2>7, <2>8
<1>18. ASSUME NEW w \in Workers, NEW t \in Tasks, AwaitInPlace(w, t) PROVE IInv'
  <2>0. SamePlaces
    BY <1>18 DEF AwaitInPlace, SamePlaces, Carries
  <2>1. TypeOK'
    BY <1>18 DEF AwaitInPlace, TypeOK
  <2>2. PlacesAgree'
    BY <1>18 DEF AwaitInPlace, PlacesAgree, Carries, Runnable, Registering,
       StateAgrees, OneRegistrar
  <2>3. OnlyOnce'
    BY <2>0, SameOnce DEF SamePlaces
  <2>4. OneRegistrar'
    BY <1>18 DEF AwaitInPlace, OneRegistrar, PlacesAgree, Registering
  <2>5. StateAgrees'
    BY <1>18 DEF AwaitInPlace, StateAgrees, PlacesAgree, Carries, Runnable, Registering
  <2>6. Kept'
    <3>1. \A u : Somewhere(u) => Somewhere(u)'
      BY <2>0, SameSomewhere
    <3> QED
      BY <1>18, <3>1 DEF AwaitInPlace, Kept, StateAgrees
  <2>7. Counted'
    <3>1. Linking' = Linking
      BY <1>18 DEF AwaitInPlace, Linking
    <3> QED
      BY <1>18, <3>1, SameCount DEF AwaitInPlace
  <2>8. NoSleepOnWork'
    BY <1>18 DEF AwaitInPlace, NoSleepOnWork
  <2> QED
    BY <2>1, <2>2, <2>3, <2>4, <2>5, <2>6, <2>7, <2>8
<1>19. ASSUME NEW w \in Workers, NEW t \in Tasks, IoSubmit(w, t) PROVE IInv'
  <2>0. /\ kind[t] = "none" /\ ~awaiting[t] /\ state[t] = "none"
        /\ t \notin registered /\ fires[t] = 0 /\ completes[t] = 0
        /\ ~Runnable(t) /\ ~Registering(t) /\ ~Somewhere(t)
    <3>1. kind[t] = "none" /\ ~awaiting[t] /\ state[t] = "none"
      BY <1>19 DEF IoSubmit, Allocate, StateAgrees
    <3>2. t \notin registered /\ fires[t] = 0
      BY <3>1 DEF StateAgrees
    <3>4. completes[t] = 0
      <4>1. completes[t] \in Nat /\ ~(completes[t] > 0)
        BY <3>1 DEF StateAgrees
      <4> QED
        BY <4>1
    <3>3. ~Runnable(t) /\ ~Registering(t)
      BY <3>1, <3>2 DEF Runnable, Registering
    <3> QED
      BY <3>1, <3>2, <3>3, <3>4, RunnableSomewhere
  <2>1. TypeOK'
    BY <1>19 DEF IoSubmit, Allocate, TypeOK
  <2>2. PlacesAgree'
    <3>1. Runnable(t)'
      BY <1>19, <2>0 DEF IoSubmit, Allocate, Runnable
    <3>2. \A u \in Tasks \ {t} : (Runnable(u) => Runnable(u)') /\ (Registering(u) => Registering(u)')
      BY <1>19 DEF IoSubmit, Allocate, Runnable, Registering
    <3>3. /\ UNCHANGED <<queue, pc, task>> /\ jobs' = jobs \cup {t}
      BY <1>19 DEF IoSubmit
    <3>4. ASSUME NEW v \in Workers, NEW i \in DOMAIN queue'[v] PROVE Runnable(queue[v][i])'
      <4>1. PICK u : u = queue[v][i]
        OBVIOUS
      <4>2. Runnable(u) /\ u \in Tasks \ {t}
        BY <2>0, <3>3, <3>4, <4>1 DEF PlacesAgree, Runnable
      <4> QED
        BY <3>2, <3>3, <4>1, <4>2
    <3>5. ASSUME NEW u \in jobs' PROVE Runnable(u)'
      BY <2>0, <3>1, <3>2, <3>3, <3>5 DEF PlacesAgree
    <3>6. ASSUME NEW v \in Threads
          PROVE  /\ Carries(v)' => task'[v] \in Tasks /\ Runnable(task[v])'
                 /\ pc'[v] = "cas" => task'[v] \in Tasks /\ Registering(task[v])'
      <4>1. PICK u : u = task[v] /\ task'[v] = u /\ pc'[v] = pc[v]
        BY <3>3
      <4>2. /\ Carries(v) => u \in Tasks \ {t} /\ Runnable(u)
            /\ pc[v] = "cas" => u \in Tasks \ {t} /\ Registering(u)
        BY <2>0, <4>1 DEF PlacesAgree
      <4>3. /\ Carries(v)' => u \in Tasks /\ Runnable(u)'
            /\ pc'[v] = "cas" => u \in Tasks /\ Registering(u)'
        BY <3>2, <4>1, <4>2 DEF Carries
      <4> QED
        BY <4>1, <4>3
    <3> QED
      BY <3>4, <3>5, <3>6 DEF PlacesAgree
  <2>3. OnlyOnce'
    <3>1. /\ UNCHANGED <<queue, pc, task>> /\ jobs' = jobs \cup {t}
      BY <1>19 DEF IoSubmit
    <3>2. /\ \A v \in Workers : \A i \in DOMAIN queue[v] : queue[v][i] # t
          /\ \A u \in Threads : Carries(u) => task[u] # t
      BY <2>0 DEF Somewhere, Queued
    <3> HIDE DEF TypeOK
    <3> QED
      BY <3>1, <3>2 DEF OnlyOnce, Carries
  <2>4. OneRegistrar'
    BY <1>19 DEF IoSubmit, OneRegistrar
  <2>5. StateAgrees'
    BY <1>19, <2>0 DEF IoSubmit, Allocate, StateAgrees
  <2>6. Kept'
    <3>1. \A u : Somewhere(u) \/ u = t => Somewhere(u)'
      BY <1>19 DEF IoSubmit, Somewhere, Queued, Carries
    <3> QED
      BY <1>19, <2>0, <3>1 DEF IoSubmit, Allocate, Kept
  <2>7. Counted'
    <3>1. Linking' = Linking
      BY <1>19 DEF IoSubmit, Linking
    <3> QED
      BY <1>19, <3>1, SameCount DEF IoSubmit
  <2>8. NoSleepOnWork'
    BY <1>19 DEF IoSubmit, NoSleepOnWork
  <2> QED
    BY <2>1, <2>2, <2>3, <2>4, <2>5, <2>6, <2>7, <2>8
<1>20. ASSUME NEW i \in IoThreads, NEW t \in Tasks, IoTake(i, t) PROVE IInv'
  <2>0. i \in Threads /\ ~Carries(i) /\ Carries(i)' /\ Runnable(t)
    BY <1>20 DEF IoTake, Carries, Threads, PlacesAgree
  <2>1. TypeOK'
    BY <1>20, <2>0 DEF IoTake
  <2>a. /\ pc'[i] = "serve" /\ task'[i] = t /\ queue' = queue
        /\ jobs' = jobs \ {t} /\ t \in jobs
        /\ \A v \in Threads \ {i} : pc'[v] = pc[v] /\ task'[v] = task[v]
    BY <1>20, <2>0 DEF IoTake
  <2>2. PlacesAgree'
    <3>1. \A u \in Tasks : (Runnable(u) => Runnable(u)') /\ (Registering(u) => Registering(u)')
      BY <1>20 DEF IoTake, Runnable, Registering
    <3> QED
      BY <2>0, <2>a, <3>1, PlacesStay
  <2>3. OnlyOnce'
    <3>1. /\ \A v \in Workers : \A j \in DOMAIN queue[v] : queue[v][j] # t
          /\ \A u \in Threads : Carries(u) => task[u] # t
      BY <2>a DEF OnlyOnce
    <3>2. \A v \in Threads \ {i} : (Carries(v)' <=> Carries(v)) /\ task'[v] = task[v]
      BY <2>a DEF Carries
    <3>3. OnlyOnce
      OBVIOUS
    <3> HIDE DEF IInv, TypeOK
    <3> QED
      BY <2>0, <2>a, <3>1, <3>2, <3>3 DEF OnlyOnce
  <2>4. OneRegistrar'
    BY <2>a DEF OneRegistrar
  <2>5. StateAgrees'
    BY <1>20 DEF IoTake, StateAgrees
  <2>6. Kept'
    <3>1. \A u : Somewhere(u) => Somewhere(u)'
      BY <2>0, <2>a DEF Somewhere, Queued, Carries
    <3> QED
      BY <1>20, <3>1 DEF IoTake, Kept
  <2>7. Counted'
    <3>1. Linking' = Linking
      BY <1>20, <2>a DEF IoTake, Linking
    <3> QED
      BY <1>20, <3>1, SameCount DEF IoTake
  <2>8. NoSleepOnWork'
    BY <2>a DEF NoSleepOnWork
  <2> QED
    BY <2>1, <2>2, <2>3, <2>4, <2>5, <2>6, <2>7, <2>8
<1>21. ASSUME NEW i \in IoThreads, IoAnswer(i) PROVE IInv'
  <2>0. SamePlaces
    BY <1>21 DEF IoAnswer, SamePlaces, Carries
  <2>1. TypeOK'
    <3>1. i \in Threads /\ task[i] \in Tasks
      BY <1>21 DEF IoAnswer, PlacesAgree, Carries, Threads
    <3> QED
      BY <1>21, <3>1 DEF IoAnswer
  <2>2. PlacesAgree'
    BY <1>21 DEF IoAnswer, PlacesAgree, Carries, Runnable, Registering
  <2>3. OnlyOnce'
    BY <2>0, SameOnce DEF SamePlaces
  <2>4. OneRegistrar'
    BY <1>21 DEF IoAnswer, OneRegistrar
  <2>5. StateAgrees'
    BY <1>21 DEF IoAnswer, StateAgrees
  <2>6. Kept'
    <3>1. \A u : Somewhere(u) => Somewhere(u)'
      BY <2>0, SameSomewhere
    <3> QED
      BY <1>21, <3>1 DEF IoAnswer, Kept
  <2>7. Counted'
    <3>1. Linking' = Linking
      BY <1>21 DEF IoAnswer, Linking
    <3> QED
      BY <1>21, <3>1, SameCount DEF IoAnswer
  <2>8. NoSleepOnWork'
    BY <1>21 DEF IoAnswer, NoSleepOnWork
  <2> QED
    BY <2>1, <2>2, <2>3, <2>4, <2>5, <2>6, <2>7, <2>8
<1>22. CASE UNCHANGED vars
  BY <1>22 DEF vars, PlacesAgree, OnlyOnce, OneRegistrar, StateAgrees, Queued, Kept,
     Counted, NoSleepOnWork,
     Carries, Runnable, Registering, Somewhere, CountExact, Places, Linking
<1> QED
  BY <1>1, <1>2, <1>3, <1>4, <1>5, <1>6, <1>7, <1>8, <1>9, <1>10, <1>11, <1>12,
     <1>13, <1>14, <1>15, <1>16, <1>17, <1>18, <1>19, <1>20, <1>21, <1>22
     DEF Next, Step, IoStep, BodyCall, Threads

-----------------------------------------------------------------------------
(* The inductive invariant holds throughout.                               *)
THEOREM Invariance == Spec => []IInv
BY InitIInv, NextIInv, PTL DEF Spec

(* A thread keeps to its role, and only requests are served: a second      *)
(* inductive invariant, of which the first does not need to know.          *)
Roles ==
  /\ \A w \in Workers : pc[w] \notin {"dequeue", "serve"}
  /\ \A i \in IoThreads : pc[i] \in {"dequeue", "serve", "push", "link"}
  /\ \A t \in jobs : kind[t] = "io"
  /\ \A i \in IoThreads : pc[i] = "serve" => kind[task[i]] = "io"

LEMMA InitRoles == Init => Roles
BY IoThreadsAssumption DEF Init, Roles, Workers, Threads

(* A worker's step leaves the I/O threads and what they serve alone, but   *)
(* for the one that submits a request.                                     *)
OtherCall(w, t) ==
  \/ TaskCreate(w, t) \/ FutureYield(w, t) \/ Dispatch(w, t)
  \/ FuturePost(w, t) \/ TaskComplete(w, t) \/ StoreCallback(w, t)
  \/ AwaitInPlace(w, t)

LEMMA WorkersApart ==
  ASSUME TypeOK, StateAgrees, Roles, NEW w \in Workers,
         Step(w) \/ \E t \in Tasks : OtherCall(w, t)
  PROVE  /\ jobs' = jobs
         /\ \A i \in IoThreads : pc'[i] = pc[i] /\ task'[i] = task[i]
         /\ \A t \in Tasks : kind[t] # "none" => kind'[t] = kind[t]
         /\ \A v \in Workers : pc'[v] \notin {"dequeue", "serve"}
<1> USE DEF Roles, TypeOK, Threads, Goto, taskVars, threadVars, poolVars, history
<1>0. w \notin IoThreads
  BY IoThreadsAssumption DEF Workers
<1>1. CASE PopOwn(w) \/ Steal(w) \/ WaitForWork(w)
  BY <1>0, <1>1 DEF PopOwn, Steal, WaitForWork, PopFrom
<1>2. CASE FireState(w) \/ FireRead(w) \/ FireInvoke(w)
  <2>1. CASE FireState(w)
    BY <1>0, <2>1 DEF FireState
  <2>2. CASE FireRead(w)
    BY <1>0, <2>2 DEF FireRead
  <2>3. CASE FireInvoke(w)
    BY <1>0, <2>3 DEF FireInvoke
  <2> QED
    BY <1>2, <2>1, <2>2, <2>3
<1>3. CASE PushCount(w) \/ PushLink(w) \/ PostParallel(w)
  <2>1. CASE PushCount(w)
    BY <1>0, <2>1 DEF PushCount
  <2>2. CASE PushLink(w)
    <3>1. /\ jobs' = jobs /\ kind' = kind
          /\ \A v \in Threads \ {w} : task'[v] = task[v]
      BY <2>2 DEF PushLink
    <3>2. \A i \in IoThreads : pc'[i] = pc[i]
      <4>1. \A i \in IoThreads : i \notin Workers
        BY IoThreadsAssumption DEF Workers
      <4>2. dest[w] \in Workers /\ w \in Workers
        OBVIOUS
      <4> QED
        BY <2>2, <4>1, <4>2 DEF PushLink
    <3>3. \A v \in Workers : pc'[v] \notin {"dequeue", "serve"}
      BY <1>0, <2>2 DEF PushLink
    <3> QED
      BY <1>0, <3>1, <3>2, <3>3
  <2>3. CASE PostParallel(w)
    BY <1>0, <2>3 DEF PostParallel
  <2> QED
    BY <1>3, <2>1, <2>2, <2>3
<1>4. CASE RegisterCas(w) \/ BodyReturn(w)
  BY <1>0, <1>4 DEF RegisterCas, BodyReturn
<1>5. ASSUME NEW t \in Tasks, OtherCall(w, t)
      PROVE  /\ jobs' = jobs
             /\ \A i \in IoThreads : pc'[i] = pc[i] /\ task'[i] = task[i]
             /\ \A u \in Tasks : kind[u] # "none" => kind'[u] = kind[u]
             /\ \A v \in Workers : pc'[v] \notin {"dequeue", "serve"}
  <2>0. state[t] = "none" => kind[t] = "none"
    BY DEF StateAgrees
  <2>1. CASE TaskCreate(w, t) \/ FutureYield(w, t)
    BY <1>0, <2>0, <2>1 DEF TaskCreate, FutureYield, Allocate
  <2>2. CASE Dispatch(w, t) \/ FuturePost(w, t)
    BY <1>0, <2>0, <2>2 DEF Dispatch, FuturePost, NewSpawn, Allocate
  <2>3. CASE TaskComplete(w, t) \/ StoreCallback(w, t) \/ AwaitInPlace(w, t)
    BY <1>0, <2>3 DEF TaskComplete, StoreCallback, AwaitInPlace
  <2> QED
    BY <1>5, <2>1, <2>2, <2>3 DEF OtherCall
<1> QED
  BY <1>1, <1>2, <1>3, <1>4, <1>5 DEF Step

LEMMA NextRoles == IInv /\ Roles /\ [Next]_vars => Roles'
<1> SUFFICES ASSUME IInv, Roles, [Next]_vars PROVE Roles'
  OBVIOUS
<1>0. /\ TypeOK /\ PlacesAgree /\ StateAgrees /\ Workers \cap IoThreads = {}
  BY IoThreadsAssumption DEF IInv, Workers
<1>1. ASSUME NEW w \in Workers, Step(w) \/ \E t \in Tasks : OtherCall(w, t)
      PROVE  Roles'
  <2>1. \A i \in IoThreads : pc[i] = "serve" => task[i] \in Tasks
    BY <1>0 DEF PlacesAgree, Carries, Threads
  <2>2. jobs \subseteq Tasks
    BY <1>0 DEF TypeOK
  <2> QED
    BY <1>0, <1>1, <2>1, <2>2, WorkersApart DEF Roles
<1>2. ASSUME NEW w \in Workers, NEW t \in Tasks, IoSubmit(w, t) PROVE Roles'
  BY <1>0, <1>2 DEF IoSubmit, Allocate, Roles, threadVars, TypeOK, StateAgrees
<1>3. ASSUME NEW i \in IoThreads, IoStep(i) \/ IoAnswer(i) PROVE Roles'
  <2> USE DEF TypeOK, Threads, Goto, history
  <2>1. CASE PushCount(i)
    BY <1>0, <2>1 DEF PushCount, Roles
  <2>2. CASE PushLink(i)
    BY <1>0, <2>2 DEF PushLink, Roles
  <2>3. CASE IoAnswer(i)
    BY <1>0, <2>3 DEF IoAnswer, Roles
  <2>4. ASSUME NEW t \in Tasks, IoTake(i, t) PROVE Roles'
    BY <1>0, <2>4 DEF IoTake, Roles
  <2> QED
    BY <1>3, <2>1, <2>2, <2>3, <2>4 DEF IoStep
<1>4. CASE UNCHANGED vars
  BY <1>4 DEF vars, threadVars, history, Roles
<1> QED
  BY <1>1, <1>2, <1>3, <1>4 DEF Next, BodyCall, OtherCall

LEMMA RolesInvariance == Spec => [](IInv /\ Roles)
BY InitIInv, NextIInv, InitRoles, NextRoles, PTL DEF Spec

(* Every variable keeps its type: a thread fires, stores and pushes only   *)
(* tasks that exist, and _queued_count never goes below zero.              *)
THEOREM TypeCorrect == Spec => []TypeOK
<1>1. IInv => TypeOK
  BY DEF IInv
<1> QED
  BY <1>1, Invariance, PTL

(* A set without two elements has at most one.                             *)
LEMMA AtMostOne ==
  ASSUME NEW S, \A a, b \in S : a = b
  PROVE  Cardinality(S) = IF S = {} THEN 0 ELSE 1
<1>1. CASE S = {}
  BY <1>1, FS_EmptySet
<1>2. CASE S # {}
  <2>1. PICK x : S = {x}
    BY <1>2
  <2> QED
    BY <2>1, FS_Singleton
<1> QED
  BY <1>1, <1>2

(* A runnable task is in one place: the `next` field of a task links it    *)
(* into one queue, once, and no thread has it in hand meanwhile.           *)
THEOREM OneRunnablePlace == Spec => []OnePlace
<1>1. ASSUME IInv PROVE OnePlace
  <2> SUFFICES ASSUME NEW t \in Tasks
               PROVE  Cardinality(QueuePlaces(t)) + Cardinality(Holders(t))
                        + Cardinality({t} \cap jobs) <= 1
    BY DEF OnePlace
  <2>1. \A p \in QueuePlaces(t) : \E v \in Workers : \E i \in DOMAIN queue[v] :
         p = <<v, i>> /\ queue[v][i] = t
    BY DEF QueuePlaces, Places
  <2>2. \A p, r \in QueuePlaces(t) : p = r
    BY <1>1, <2>1 DEF IInv, OnlyOnce
  <2>3. \A v, w \in Holders(t) : v = w
    BY <1>1 DEF IInv, OnlyOnce, Holders
  <2>4. QueuePlaces(t) = {} \/ Holders(t) = {}
    <3> SUFFICES ASSUME NEW p \in QueuePlaces(t), NEW w \in Holders(t) PROVE FALSE
      OBVIOUS
    <3>0. PICK v \in Workers : \E i \in DOMAIN queue[v] : p = <<v, i>> /\ queue[v][i] = t
      BY <2>1
    <3>1. PICK i \in DOMAIN queue[v] : queue[v][i] = t
      BY <3>0
    <3> QED
      BY <1>1, <3>1 DEF IInv, OnlyOnce, Holders
  <2>5. t \in jobs => QueuePlaces(t) = {} /\ Holders(t) = {}
    BY <1>1, <2>1 DEF IInv, OnlyOnce, Holders
  <2>6. /\ Cardinality(QueuePlaces(t)) = IF QueuePlaces(t) = {} THEN 0 ELSE 1
        /\ Cardinality(Holders(t)) = IF Holders(t) = {} THEN 0 ELSE 1
        /\ Cardinality({t} \cap jobs) = IF t \in jobs THEN 1 ELSE 0
    <3>1. {t} \cap jobs = {} <=> t \notin jobs
      OBVIOUS
    <3> QED
      BY <2>2, <2>3, <3>1, AtMostOne
  <2> QED
    BY <2>4, <2>5, <2>6
<1> QED
  BY <1>1, Invariance, PTL

(* No continuation is lost: when the completion of a task and its          *)
(* registration have both happened, in whatever order and on whatever      *)
(* workers, the task is where a worker will come to run it.                *)
THEOREM NoContinuationLost == Spec => []NoLostContinuation
<1>1. ASSUME IInv PROVE NoLostContinuation
  <2> SUFFICES ASSUME NEW t \in registered, completes[t] > 0 \/ kind[t] # "await", fires[t] = 0
               PROVE  QueuePlaces(t) # {} \/ Holders(t) # {} \/ t \in jobs
    BY DEF NoLostContinuation
  <2>1. t \in Tasks
    BY <1>1 DEF IInv, TypeOK
  <2>2. ~(kind[t] = "await" /\ state[t] = "CALLBACK")
    BY <1>1, <2>1 DEF IInv, StateAgrees
  <2>3. Somewhere(t)
    BY <1>1, <2>2 DEF IInv, Kept
  <2>4. ASSUME Queued(t) PROVE QueuePlaces(t) # {}
    <3>1. PICK v \in Workers : \E i \in DOMAIN queue[v] : queue[v][i] = t
      BY <2>4 DEF Queued
    <3>2. PICK i \in DOMAIN queue[v] : queue[v][i] = t
      BY <3>1
    <3>3. <<v, i>> \in Places
      BY <3>2 DEF Places
    <3> QED
      BY <3>2, <3>3 DEF QueuePlaces
  <2> QED
    BY <2>3, <2>4 DEF Somewhere, Holders
<1> QED
  BY <1>1, Invariance, PTL

(* A worker asleep has an empty queue: the signal of a push is not missed. *)
THEOREM NeverSleepsOnWork == Spec => []NoSleepOnWork
<1>1. IInv => NoSleepOnWork
  BY DEF IInv
<1> QED
  BY <1>1, Invariance, PTL

(* _queued_count, moved outside the locks by every producer, is exact.     *)
THEOREM CountIsExact == Spec => []CountExact
<1>1. IInv => CountExact
  BY DEF IInv, Counted
<1> QED
  BY <1>1, Invariance, PTL

(* What a sleeping pool has left: while every worker sleeps, the queues    *)
(* are empty; the backlog count is the number of I/O threads between the   *)
(* count and the link of _queue_push, so that a pool that once refused     *)
(* futures accepts them again; and a continuation that is due has run, or  *)
(* an I/O thread has it and is about to wake a worker for it (worker loop, *)
(* _queue_wait_for_work, thread_work_accepting, _io_thread_main).          *)
IoLinking == {i \in IoThreads : pc[i] = "link"}
Due(t) == \/ completes[t] > 0
          \/ kind[t] \in {"yield", "spawn"}
          \/ kind[t] = "io" /\ ~InService(t)
THEOREM RestsWhenDone ==
  Spec => []( (\A w \in Workers : pc[w] = "asleep") =>
                /\ queuedCount = Cardinality(IoLinking)
                /\ \A w \in Workers : queue[w] = <<>>
                /\ \A t \in registered : Due(t) =>
                     \/ fires[t] = 1
                     \/ \E i \in IoThreads : pc[i] \in {"push", "link"} /\ task[i] = t )
<1>1. ASSUME IInv, Roles, \A w \in Workers : pc[w] = "asleep"
      PROVE  /\ queuedCount = Cardinality(IoLinking)
             /\ \A w \in Workers : queue[w] = <<>>
             /\ \A t \in registered : Due(t) =>
                  \/ fires[t] = 1
                  \/ \E i \in IoThreads : pc[i] \in {"push", "link"} /\ task[i] = t
  <2>1. \A w \in Workers : queue[w] = <<>>
    BY <1>1 DEF IInv, NoSleepOnWork
  <2>2. Places = {} /\ Linking = IoLinking
    BY <1>1, <2>1 DEF Places, Linking, IoLinking, Threads
  <2>3. queuedCount = Cardinality(IoLinking)
    <3>1. Cardinality(Linking) \in Nat
      BY LinkingFinite, FS_CardinalityType
    <3> QED
      BY <1>1, <2>2, <3>1, FS_EmptySet DEF IInv, Counted, CountExact
  <2>4. ASSUME NEW t \in registered, Due(t), fires[t] # 1
        PROVE  \E i \in IoThreads : pc[i] \in {"push", "link"} /\ task[i] = t
    <3>1. t \in Tasks
      BY <1>1 DEF IInv, TypeOK
    <3>2. ~(kind[t] = "await" /\ state[t] = "CALLBACK")
      BY <1>1, <2>4, <3>1 DEF IInv, StateAgrees, Due
    <3>3. Somewhere(t) /\ ~Queued(t)
      BY <1>1, <2>1, <2>4, <3>2 DEF IInv, Kept, Queued
    <3>4. \A i \in Threads : Carries(i) => i \in IoThreads
      BY <1>1 DEF Carries, Threads
    <3>5. (t \in jobs \/ \E i \in IoThreads : pc[i] = "serve" /\ task[i] = t) => InService(t)
      BY DEF InService
    <3>6. InService(t) => kind[t] = "io"
      BY <1>1 DEF InService, Roles
    <3> QED
      BY <1>1, <2>4, <3>1, <3>3, <3>4, <3>5, <3>6 DEF Somewhere, Due, Carries, Roles, IInv, StateAgrees
  <2> QED
    BY <2>1, <2>3, <2>4
<1> QED
  BY <1>1, RolesInvariance, PTL

-----------------------------------------------------------------------------
(* The refinement: what has been completed, as Continuation sees it.       *)
Completed == {t \in Tasks : completes[t] > 0
                            \/ (kind[t] = "yield" /\ state[t] = "COMPLETE")
                            \/ (kind[t] = "io" /\ ~InService(t))
                            \/ (kind[t] = "spawn")}

LEMMA PromiseInit == Init => Promise!CInit
BY DEF Init, Promise!CInit

(* Of the steps of the pool, five kinds mean something to it.              *)
LEMMA PromiseStep == IInv /\ Roles /\ [Next]_vars => [Promise!CNext]_(Promise!cvars)
<1> SUFFICES ASSUME IInv, Roles, [Next]_vars PROVE [Promise!CNext]_(Promise!cvars)
  OBVIOUS
<1>1. TypeOK /\ PlacesAgree /\ StateAgrees
  BY DEF IInv
<1>2. /\ (\E t \in Tasks : Promise!Register(t) \/ Promise!Complete(t) \/ Promise!Spawn(t) \/ Promise!Fire(t))
         \/ UNCHANGED <<registered, Completed, fires>>
      => [Promise!CNext]_(Promise!cvars)
  BY DEF Promise!CNext, Promise!cvars, Completed
<1> DEFINE Silent == UNCHANGED <<registered, Completed, fires>>
<1>0. Workers \cap IoThreads = {}
  BY IoThreadsAssumption DEF Workers
<1>a. ASSUME NEW w \in Workers, Step(w) \/ \E t \in Tasks : OtherCall(w, t)
      PROVE  \A t \in Tasks : InService(t)' <=> InService(t)
  <2>1. jobs' = jobs /\ \A i \in IoThreads : pc'[i] = pc[i] /\ task'[i] = task[i]
    BY <1>1, <1>a, WorkersApart
  <2> QED
    BY <2>1 DEF InService
<1>b. ASSUME NEW t \in Tasks, kind[t] # "io" PROVE ~InService(t)
  BY <1>b DEF InService, Roles
<1>3. ASSUME UNCHANGED <<kind, completes, state, registered, fires>>,
             \A t \in Tasks : InService(t)' <=> InService(t)
      PROVE  Silent
  <2> HIDE DEF Completed
  <2>1. \A t \in Tasks : t \in Completed' <=> t \in Completed
    BY <1>3 DEF Completed
  <2>2. Completed' = Completed
    BY <2>1 DEF Completed
  <2> QED
    BY <1>3, <2>2
<1>4. ASSUME NEW w \in Workers, PopOwn(w) \/ Steal(w) \/ WaitForWork(w) \/ FireRead(w)
             \/ PushCount(w) \/ PushLink(w) \/ PostParallel(w) \/ BodyReturn(w)
      PROVE  Silent
  <2>1. \A t \in Tasks : InService(t)' <=> InService(t)
    BY <1>a, <1>4 DEF Step
  <2> QED
    BY <1>3, <1>4, <2>1 DEF PopOwn, Steal, WaitForWork, FireRead, PushCount, PushLink,
     PostParallel, BodyReturn,
     taskVars, history
<1>5. ASSUME NEW w \in Workers, NEW t \in Tasks, StoreCallback(w, t) \/ AwaitInPlace(w, t)
      PROVE  Silent
  <2>1. \A u \in Tasks : InService(u)' <=> InService(u)
    BY <1>a, <1>5 DEF OtherCall
  <2> QED
    BY <1>3, <1>5, <2>1 DEF StoreCallback, AwaitInPlace, taskVars
<1> HIDE DEF Silent
<1>c. Silent <=> UNCHANGED <<registered, fires>> /\ \A u \in Tasks : u \in Completed' <=> u \in Completed
  BY DEF Silent, Completed
<1>d1. Completed \subseteq Tasks /\ Completed' \subseteq Tasks
  BY DEF Completed
<1>d2. ASSUME NEW u \in Tasks
       PROVE  u \in Completed <=> \/ completes[u] > 0
                                  \/ (kind[u] = "yield" /\ state[u] = "COMPLETE")
                                  \/ (kind[u] = "io" /\ ~InService(u))
                                  \/ kind[u] = "spawn"
  BY <1>d2 DEF Completed
<1>d3. ASSUME NEW u \in Tasks
       PROVE  u \in Completed' <=> \/ completes'[u] > 0
                                   \/ (kind'[u] = "yield" /\ state'[u] = "COMPLETE")
                                   \/ (kind'[u] = "io" /\ ~InService(u)')
                                   \/ kind'[u] = "spawn"
  BY <1>d3 DEF Completed
<1>d. Completed \subseteq Tasks /\ Completed' \subseteq Tasks
  BY <1>d1
<1> DEFINE Same(u) == u \in Completed' <=> u \in Completed
<1>6. ASSUME NEW w \in Workers, FireState(w) PROVE Silent
  <2>1. Runnable(task[w]) /\ task[w] \in Tasks
    BY <1>1, <1>6 DEF FireState, PlacesAgree, Carries, Threads
  <2>2. ASSUME NEW u \in Tasks PROVE Same(u)
    <3>1. InService(u)' <=> InService(u)
      BY <1>a, <1>6 DEF Step
    <3>2. (kind'[u] = "yield" /\ state'[u] = "COMPLETE") <=> (kind[u] = "yield" /\ state[u] = "COMPLETE")
      BY <1>1, <1>6, <2>1 DEF FireState, history, Runnable, TypeOK
    <3>3. UNCHANGED <<kind, completes>>
      BY <1>6 DEF FireState, history
    <3> QED
      BY <1>d, <1>d2, <1>d3, <3>1, <3>2, <3>3
  <2>3. UNCHANGED <<registered, fires>>
    BY <1>6 DEF FireState, history
  <2> QED
    BY <1>c, <2>2, <2>3
<1>7. ASSUME NEW w \in Workers, FireInvoke(w) PROVE \E t \in Tasks : Promise!Fire(t)
  <2>1. Runnable(task[w]) /\ task[w] \in Tasks
    BY <1>1, <1>7 DEF FireInvoke, PlacesAgree, Carries, Threads
  <2>2. task[w] \in Completed
    <3>1. ~InService(task[w])
      <4>1. w \in Threads /\ Carries(w) /\ task[w] \notin jobs
        BY <1>7 DEF FireInvoke, Carries, Threads, IInv, OnlyOnce
      <4>2. \A i \in IoThreads : pc[i] = "serve" => task[i] # task[w]
        BY <1>0, <4>1 DEF Carries, Threads, IInv, OnlyOnce
      <4> QED
        BY <4>1, <4>2 DEF InService
    <3> QED
      BY <1>1, <1>d, <1>d2, <1>d3, <2>1, <3>1 DEF Runnable, StateAgrees, TypeOK, Kinds
  <2>3. fires' = [fires EXCEPT ![task[w]] = 1]
    BY <1>7, <2>1 DEF FireInvoke, Runnable
  <2>4. Completed' = Completed
    <3>1. \A u \in Tasks : InService(u)' <=> InService(u)
      BY <1>a, <1>7 DEF Step
    <3>2. UNCHANGED <<kind, completes, state>>
      BY <1>7 DEF FireInvoke
    <3> QED
      BY <1>d, <1>d2, <1>d3, <3>1, <3>2
  <2>5. Promise!Fire(task[w])
    BY <1>7, <2>1, <2>2, <2>3, <2>4 DEF Promise!Fire, Completed, FireInvoke, Runnable
  <2> QED
    BY <2>1, <2>5
<1>8. ASSUME NEW w \in Workers, RegisterCas(w)
      PROVE  \E t \in Tasks : Promise!Register(t) \/ Promise!Spawn(t)
  <2> DEFINE t == task[w]
  <2>1. t \in Tasks /\ Registering(t)
    BY <1>1, <1>8 DEF RegisterCas, PlacesAgree, Threads
  <2>2. UNCHANGED <<kind, completes, fires>> /\ registered' = registered \cup {t} /\ t \notin registered
    BY <1>8, <2>1 DEF RegisterCas, Registering
  <2>a. \A u \in Tasks : InService(u)' <=> InService(u)
    BY <1>a, <1>8 DEF Step
  <2>3. CASE state[t] = "YIELDED"
    <3>1. state' = [state EXCEPT ![t] = "COMPLETE"] /\ kind[t] = "yield"
      BY <1>1, <1>8, <2>1, <2>3 DEF RegisterCas, Registering, StateAgrees
    <3>2. Completed' = Completed \cup {t}
      <4>1. state'[t] = "COMPLETE" /\ \A u \in Tasks \ {t} : state'[u] = state[u]
        BY <1>1, <2>1, <3>1 DEF TypeOK
      <4>2. \A u \in Tasks : u \in Completed' <=> u \in Completed \/ u = t
        BY <1>d, <1>d2, <1>d3, <2>a, <2>2, <3>1, <4>1
      <4> QED
        BY <1>d, <1>d2, <1>d3, <2>1, <4>2
    <3> QED
      BY <2>1, <2>2, <3>2 DEF Promise!Spawn, Completed
  <2>4. CASE state[t] # "YIELDED"
    <3>1. kind[t] = "await" /\ \A u \in Tasks \ {t} : state'[u] = state[u]
      BY <1>1, <1>8, <2>1, <2>4 DEF RegisterCas, Registering, StateAgrees, TypeOK
    <3>2. Completed' = Completed
      <4>1. \A u \in Tasks : Same(u)
        BY <1>d, <1>d2, <1>d3, <2>a, <2>2, <3>1
      <4> QED
        BY <1>d, <1>d2, <1>d3, <4>1
    <3> QED
      BY <2>1, <2>2, <3>2 DEF Promise!Register, Completed
  <2> QED
    BY <2>3, <2>4
<1>9. ASSUME NEW w \in Workers, NEW t \in Tasks, TaskCreate(w, t) \/ FutureYield(w, t) PROVE Silent
  <2>1. kind[t] = "none" /\ ~(completes[t] > 0)
    BY <1>1, <1>9 DEF TaskCreate, FutureYield, Allocate, StateAgrees
  <2>2. /\ kind'[t] \in {"await", "yield"} /\ state'[t] # "COMPLETE"
        /\ \A u \in Tasks \ {t} : kind'[u] = kind[u] /\ state'[u] = state[u]
        /\ UNCHANGED <<completes, registered, fires>>
    BY <1>1, <1>9 DEF TaskCreate, FutureYield, Allocate, TypeOK
  <2>3. \A u \in Tasks : InService(u)' <=> InService(u)
    BY <1>a, <1>9 DEF OtherCall
  <2>4. \A u \in Tasks : Same(u)
    BY <1>d, <1>d2, <1>d3, <2>1, <2>2, <2>3
  <2> QED
    BY <1>c, <2>2, <2>4
<1>10. ASSUME NEW w \in Workers, NEW t \in Tasks, Dispatch(w, t) \/ FuturePost(w, t)
       PROVE  Promise!Spawn(t)
  <2>1. kind[t] = "none" /\ ~(completes[t] > 0) /\ t \notin registered
    BY <1>1, <1>10 DEF Dispatch, FuturePost, NewSpawn, Allocate, StateAgrees
  <2>2. /\ kind'[t] = "spawn"
        /\ \A u \in Tasks \ {t} : kind'[u] = kind[u] /\ state'[u] = state[u]
        /\ UNCHANGED <<completes, fires>> /\ registered' = registered \cup {t}
    BY <1>1, <1>10 DEF Dispatch, FuturePost, NewSpawn, Allocate, TypeOK
  <2>3. \A u \in Tasks : InService(u)' <=> InService(u)
    BY <1>a, <1>10 DEF OtherCall
  <2>4. \A u \in Tasks : u \in Completed' <=> u \in Completed \/ u = t
    BY <1>d, <1>d2, <1>d3, <2>1, <2>2, <2>3
  <2>5. Completed' = Completed \cup {t}
    BY <1>d, <1>d2, <1>d3, <2>4
  <2> QED
    BY <2>1, <2>2, <2>5 DEF Promise!Spawn, Completed
<1>11. ASSUME NEW w \in Workers, NEW t \in Tasks, TaskComplete(w, t) PROVE Promise!Complete(t)
  <2>1. /\ kind[t] = "await" /\ completes'[t] > 0
        /\ \A u \in Tasks \ {t} : completes'[u] = completes[u] /\ state'[u] = state[u]
        /\ UNCHANGED <<kind, registered, fires>>
    BY <1>1, <1>11 DEF TaskComplete, TypeOK
  <2>2. \A u \in Tasks : InService(u)' <=> InService(u)
    BY <1>a, <1>11 DEF OtherCall
  <2>3. \A u \in Tasks : u \in Completed' <=> u \in Completed \/ u = t
    BY <1>d, <1>d2, <1>d3, <2>1, <2>2
  <2>4. Completed' = Completed \cup {t}
    BY <1>d, <1>d2, <1>d3, <2>3
  <2> QED
    BY <2>1, <2>4 DEF Promise!Complete, Completed
<1>12. ASSUME NEW w \in Workers, NEW t \in Tasks, IoSubmit(w, t) PROVE Promise!Register(t)
  <2>1. kind[t] = "none" /\ ~(completes[t] > 0) /\ t \notin registered
    BY <1>1, <1>12 DEF IoSubmit, Allocate, StateAgrees
  <2>2. /\ kind'[t] = "io" /\ jobs' = jobs \cup {t} /\ UNCHANGED <<completes, fires, pc, task>>
        /\ \A u \in Tasks \ {t} : kind'[u] = kind[u] /\ state'[u] = state[u]
        /\ registered' = registered \cup {t}
    BY <1>1, <1>12 DEF IoSubmit, Allocate, TypeOK, threadVars
  <2>3. InService(t)' /\ \A u \in Tasks \ {t} : InService(u)' <=> InService(u)
    BY <2>2 DEF InService
  <2>4. \A u \in Tasks : Same(u)
    BY <1>d, <1>d2, <1>d3, <2>1, <2>2, <2>3
  <2>5. Completed' = Completed
    BY <1>d, <1>d2, <1>d3, <2>4
  <2> QED
    BY <2>1, <2>2, <2>5 DEF Promise!Register, Completed
<1>13. ASSUME NEW i \in IoThreads, PushCount(i) \/ PushLink(i) PROVE Silent
  <2>1. jobs' = jobs /\ \A j \in IoThreads : (pc'[j] = "serve" <=> pc[j] = "serve") /\ (pc[j] = "serve" => task'[j] = task[j])
    BY <1>1, <1>13 DEF PushCount, PushLink, TypeOK, Threads, Goto
  <2>2. \A u \in Tasks : InService(u)' <=> InService(u)
    BY <2>1 DEF InService
  <2> QED
    BY <1>3, <1>13, <2>2 DEF PushCount, PushLink, taskVars, history
<1>14. ASSUME NEW i \in IoThreads, NEW t \in Tasks, IoTake(i, t) PROVE Silent
  <2>1. /\ t \in jobs /\ jobs' = jobs \ {t} /\ pc[i] = "dequeue" /\ pc'[i] = "serve" /\ task'[i] = t
        /\ \A j \in IoThreads \ {i} : pc'[j] = pc[j] /\ task'[j] = task[j]
    BY <1>1, <1>14 DEF IoTake, TypeOK, Threads, Goto
  <2>2. \A u \in Tasks : InService(u)' <=> InService(u)
    BY <2>1 DEF InService
  <2> QED
    BY <1>3, <1>14, <2>2 DEF IoTake, taskVars, history
<1>15. ASSUME NEW i \in IoThreads, IoAnswer(i) PROVE \E t \in Tasks : Promise!Complete(t)
  <2>0. task[i] \in Tasks /\ kind[task[i]] = "io"
    BY <1>1, <1>15 DEF IoAnswer, PlacesAgree, Carries, Threads, Roles
  <2> PICK t \in Tasks : t = task[i]
    BY <2>0
  <2>1. t \in Tasks /\ kind[t] = "io"
    BY <2>0
  <2>2. /\ jobs' = jobs /\ UNCHANGED <<task, kind, completes, state, registered, fires>>
        /\ pc[i] = "serve" /\ pc'[i] = "push" /\ \A j \in IoThreads \ {i} : pc'[j] = pc[j]
    BY <1>1, <1>15 DEF IoAnswer, TypeOK, Threads, Goto, taskVars, history
  <2>3. t \notin jobs /\ \A j \in IoThreads \ {i} : pc[j] = "serve" => task[j] # t
    BY <2>2 DEF IInv, OnlyOnce, Carries, Threads
  <2>4. ~InService(t)' /\ \A u \in Tasks \ {t} : InService(u)' <=> InService(u)
    BY <2>2, <2>3 DEF InService
  <2>5. \A u \in Tasks : u \in Completed' <=> u \in Completed \/ u = t
    BY <1>d, <1>d2, <1>d3, <2>1, <2>2, <2>4
  <2>6. Completed' = Completed \cup {t}
    BY <1>d, <1>d2, <1>d3, <2>1, <2>5
  <2> QED
    BY <2>1, <2>2, <2>6 DEF Promise!Complete, Completed
<1>16. ASSUME UNCHANGED vars PROVE Silent
  <2>1. \A u \in Tasks : InService(u)' <=> InService(u)
    BY <1>16 DEF vars, threadVars, InService
  <2> QED
    BY <1>3, <1>16, <2>1 DEF vars, taskVars, history
<1> QED
  <2>1. CASE \E w \in Workers : Step(w) \/ \E t \in Tasks : BodyCall(w, t)
    BY <1>2, <1>4, <1>5, <1>6, <1>7, <1>8, <1>9, <1>10, <1>11, <1>12, <2>1
    DEF Step, BodyCall, Silent
  <2>2. CASE \E i \in IoThreads : IoStep(i) \/ IoAnswer(i)
    BY <1>2, <1>13, <1>14, <1>15, <2>2 DEF IoStep, Silent
  <2> QED
    BY <1>2, <1>16, <2>1, <2>2 DEF Next, Silent

(* The pool is safe in the sense of Continuation: a continuation runs only *)
(* once its task is registered and completed, and at most once.            *)
THEOREM SafeContinuation == Spec => Promise!CSafeSpec
BY PromiseInit, PromiseStep, RolesInvariance, PTL DEF Spec, Promise!CSafeSpec
=============================================================================
