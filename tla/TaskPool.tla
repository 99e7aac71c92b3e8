----------------------------- MODULE TaskPool -----------------------------
(***************************************************************************)
(* The worker pool of yafllib: thread.c (one mutex-protected FIFO per      *)
(* worker, stealing, sleeping on one's own queue) with task.c (the task    *)
(* state word, registration racing completion, firing), and the threads of *)
(* io_thread.c, which take jobs and post each one's completion task back.  *)
(*                                                                         *)
(* Grain: every atomic access that another thread can see is a step.  A    *)
(* critical section of queue->lock is one step; the increment of           *)
(* _queued_count that precedes it is another.  The body a worker runs is   *)
(* the program: any legal sequence of task API calls.  An I/O request is   *)
(* two tasks: the one the program awaits is an ordinary one, which the     *)
(* finisher completes; the completion task, which the I/O thread posts and *)
(* whose callback is the finisher, is the job.  The jobs are a set: the    *)
(* order of the I/O threads' FIFO is left out, any job may be served next. *)
(*                                                                         *)
(* Bounds: the set Tasks, and MaxCompletes calls of task_complete per      *)
(* task.                                                                   *)
(***************************************************************************)
EXTENDS Naturals, Sequences, FiniteSets

CONSTANTS
  NWorkers,       (* _queues->length                                       *)
  IoThreads,      (* the IO_THREAD_COUNT threads of io_thread.c            *)
  Tasks,          (* every task the program can allocate                   *)
  PerWorker,      (* YAFL_TASK_BACKLOG                                     *)
  PostModulus,    (* where _parallel_post_counter wraps (2^32 in the code) *)
  MaxCompletes,   (* bound: calls of task_complete on one task             *)
  None            (* no task: a NULL task_t*                               *)

ASSUME NWorkersAssumption == NWorkers \in Nat \ {0}
ASSUME IoThreadsAssumption ==
  IsFiniteSet(IoThreads) /\ IoThreads \cap (0 .. NWorkers - 1) = {}
ASSUME PerWorkerAssumption == PerWorker \in Nat
ASSUME PostModulusAssumption == PostModulus \in Nat \ {0}
ASSUME MaxCompletesAssumption == MaxCompletes \in Nat
ASSUME NoneAssumption == None \notin Tasks

Workers == 0 .. NWorkers - 1
Threads == Workers \cup IoThreads
BacklogLimit == PerWorker * NWorkers

States == {"none", "PENDING", "CALLBACK", "COMPLETE", "YIELDED"}
Kinds == {"none", "await", "yield", "spawn", "io"}
PCs == {"pop", "steal", "wait", "asleep", "fire", "read", "clear",
        "body", "cas", "post", "push", "link", "dequeue", "serve"}

VARIABLES
  state,        (* task_t.state, "none" before allocation                  *)
  home,         (* task_t.thread_id                                        *)
  callback,     (* task_t.callback.f # NULL                                *)
  queue,        (* worker_queue_t: oldest first                            *)
  queuedCount,  (* _queued_count                                           *)
  postCounter,  (* _parallel_post_counter                                  *)
  jobs,         (* completion tasks of the jobs in _io_queue               *)
  pc,           (* where each thread is                                    *)
  task,         (* the C local `task` of the loop, or the callee's `self`; *)
                (* the completion task of an I/O thread's `job`            *)
  dest,         (* the queue a push goes to                                *)
  offset,       (* the steal loop's index                                  *)
  kind,         (* history: how the task was made                          *)
  completes,    (* history: task_complete calls so far                     *)
  awaiting,     (* history: "no", "yes" once an awaiter took the task      *)
  registered,   (* history: continuations handed over (CAS done)           *)
  fires         (* history: invocations of the task's continuation         *)

taskVars == <<state, home, callback>>
poolVars == <<queue, queuedCount, postCounter>>
threadVars == <<pc, task, dest, offset>>
history == <<kind, completes, awaiting, registered, fires>>
vars == <<taskVars, poolVars, jobs, threadVars, history>>

Accepting == queuedCount < BacklogLimit          \* thread_work_accepting

Goto(w, l) == pc' = [pc EXCEPT ![w] = l]

Init ==
  /\ state = [t \in Tasks |-> "none"]
  /\ home = [t \in Tasks |-> 0]
  /\ callback = [t \in Tasks |-> FALSE]
  /\ queue = [w \in Workers |-> <<>>]
  /\ queuedCount = 0
  /\ postCounter = 0
  /\ jobs = {}
  /\ pc = [w \in Threads |-> IF w \in IoThreads THEN "dequeue"
                            ELSE IF w = 0 THEN "body" ELSE "pop"]
  /\ task = [w \in Threads |-> None]
  /\ dest = [w \in Threads |-> 0]
  /\ offset = [w \in Workers |-> 1]
  /\ kind = [t \in Tasks |-> "none"]
  /\ completes = [t \in Tasks |-> 0]
  /\ awaiting = [t \in Tasks |-> FALSE]
  /\ registered = {}
  /\ fires = [t \in Tasks |-> 0]

-----------------------------------------------------------------------------
(* The queues.                                                             *)

(* Broken variant: the producer forgets the count.                         *)
PushCount_Forgotten(w) ==
  /\ pc[w] = "push"
  /\ Goto(w, "link")
  /\ UNCHANGED <<jobs, taskVars, queue, queuedCount, postCounter, task, dest,
                 offset, history>>

(* _queue_push: the count goes up before the lock is taken.                *)
PushCount(w) ==
  /\ pc[w] = "push"
  /\ queuedCount' = queuedCount + 1
  /\ Goto(w, "link")
  /\ UNCHANGED <<jobs, taskVars, queue, postCounter, task, dest, offset,
                 history>>

(* _queue_push under the lock: link at the tail and signal the owner, who  *)
(* must take the lock again and re-test before it goes on.                 *)
PushLink(w) ==
  /\ pc[w] = "link"
  /\ queue' = [queue EXCEPT ![dest[w]] = Append(@, task[w])]
  /\ pc' = [v \in Threads |->
              IF v = w THEN IF w \in IoThreads THEN "dequeue" ELSE "body"
              ELSE IF v = dest[w] /\ pc[v] = "asleep" THEN "wait"
              ELSE pc[v]]
  /\ task' = [task EXCEPT ![w] = None]
  /\ UNCHANGED <<jobs, taskVars, queuedCount, postCounter, dest, offset,
                 history>>

(* Broken variant: the consumer does not give the count back.              *)
PopFrom_Uncounted(w, v) ==
  /\ queue[v] # <<>>
  /\ task' = [task EXCEPT ![w] = Head(queue[v])]
  /\ queue' = [queue EXCEPT ![v] = Tail(@)]
  /\ Goto(w, "fire")
  /\ UNCHANGED queuedCount

(* _queue_try_pop(v) by worker w, when it finds a task.                    *)
PopFrom(w, v) ==
  /\ queue[v] # <<>>
  /\ task' = [task EXCEPT ![w] = Head(queue[v])]
  /\ queue' = [queue EXCEPT ![v] = Tail(@)]
  /\ queuedCount' = queuedCount - 1
  /\ Goto(w, "fire")

(* thread_work_post_parallel: round robin, the counter wraps.              *)
PostParallel(w) ==
  /\ pc[w] = "post"
  /\ dest' = [dest EXCEPT ![w] = ((1 + postCounter) % PostModulus) % NWorkers]
  /\ postCounter' = (postCounter + 1) % PostModulus
  /\ Goto(w, "push")
  /\ UNCHANGED <<jobs, taskVars, queue, queuedCount, task, offset, history>>

-----------------------------------------------------------------------------
(* The worker loop.                                                        *)

PopOwn(w) ==
  /\ pc[w] = "pop"
  /\ \/ /\ PopFrom(w, w)
        /\ UNCHANGED offset
     \/ /\ queue[w] = <<>>
        /\ offset' = [offset EXCEPT ![w] = 1]
        /\ Goto(w, IF NWorkers > 1 THEN "steal" ELSE "wait")
        /\ UNCHANGED <<queue, queuedCount, task>>
  /\ UNCHANGED <<jobs, taskVars, postCounter, dest, history>>

Steal(w) ==
  LET victim == (w + offset[w]) % NWorkers IN
  /\ pc[w] = "steal"
  /\ \/ /\ PopFrom(w, victim)
        /\ offset' = [offset EXCEPT ![w] = 1]
     \/ /\ queue[victim] = <<>>
        /\ IF offset[w] + 1 < NWorkers
             THEN offset' = [offset EXCEPT ![w] = @ + 1] /\ Goto(w, "steal")
             ELSE offset' = [offset EXCEPT ![w] = 1] /\ Goto(w, "wait")
        /\ UNCHANGED <<queue, queuedCount, task>>
  /\ UNCHANGED <<jobs, taskVars, postCounter, dest, history>>

(* Broken variant: sleeps on the emptiness the loop saw earlier, outside   *)
(* the lock.                                                               *)
WaitForWork_NoRetest(w) ==
  /\ pc[w] = "wait"
  /\ Goto(w, "asleep")
  /\ UNCHANGED <<jobs, taskVars, poolVars, task, dest, offset, history>>

(* _queue_wait_for_work: the empty test and the wait are one critical      *)
(* section of the lock a producer takes to push and signal.                *)
WaitForWork(w) ==
  /\ pc[w] = "wait"
  /\ Goto(w, IF queue[w] = <<>> THEN "asleep" ELSE "pop")
  /\ UNCHANGED <<jobs, taskVars, poolVars, task, dest, offset, history>>

(* _task_fire: state first, then the callback is read, cleared, invoked.   *)
FireState(w) ==
  /\ pc[w] = "fire"
  /\ state' = [state EXCEPT ![task[w]] = "COMPLETE"]
  /\ Goto(w, "read")
  /\ UNCHANGED <<jobs, home, callback, poolVars, task, dest, offset, history>>

FireRead(w) ==
  /\ pc[w] = "read"
  /\ IF callback[task[w]]
       THEN Goto(w, "clear") /\ UNCHANGED task
       ELSE Goto(w, "pop") /\ task' = [task EXCEPT ![w] = None]
  /\ UNCHANGED <<jobs, taskVars, poolVars, dest, offset, history>>

FireInvoke(w) ==
  /\ pc[w] = "clear"
  /\ callback' = [callback EXCEPT ![task[w]] = FALSE]
  /\ fires' = [fires EXCEPT ![task[w]] = @ + 1]
  /\ task' = [task EXCEPT ![w] = None]
  /\ Goto(w, "body")
  /\ UNCHANGED <<jobs, state, home, poolVars, dest, offset, kind, completes,
                 awaiting, registered>>

-----------------------------------------------------------------------------
(* The program, running inside a callback (or the entry point).            *)

Allocate(w, t, s, k) ==
  /\ state[t] = "none"
  /\ state' = [state EXCEPT ![t] = s]
  /\ home' = [home EXCEPT ![t] = w]
  /\ kind' = [kind EXCEPT ![t] = k]

(* task_create, task_obj_create, task_str_create: all through task_init.   *)
TaskCreate(w, t) ==
  /\ pc[w] = "body"
  /\ Allocate(w, t, "PENDING", "await")
  /\ UNCHANGED <<jobs, callback, poolVars, threadVars, completes, awaiting,
                 registered, fires>>

(* future_yield: a task already complete, posted only when awaited; none   *)
(* when the pool does not accept.                                          *)
FutureYield(w, t) ==
  /\ pc[w] = "body"
  /\ Accepting
  /\ Allocate(w, t, "YIELDED", "yield")
  /\ UNCHANGED <<jobs, callback, poolVars, threadVars, completes, awaiting,
                 registered, fires>>

(* A task nobody else has seen yet: create it, store its callback,         *)
(* PENDING -> CALLBACK.                                                    *)
NewSpawn(w, t) ==
  /\ pc[w] = "body"
  /\ Allocate(w, t, "CALLBACK", "spawn")
  /\ callback' = [callback EXCEPT ![t] = TRUE]
  /\ registered' = registered \cup {t}
  /\ task' = [task EXCEPT ![w] = t]
  /\ UNCHANGED <<jobs, poolVars, offset, completes, awaiting, fires>>

(* thread_dispatch: to the caller's own queue.                             *)
Dispatch(w, t) ==
  /\ NewSpawn(w, t)
  /\ dest' = [dest EXCEPT ![w] = w]
  /\ Goto(w, "push")

(* future_post: round robin, and only when the pool accepts.               *)
FuturePost(w, t) ==
  /\ Accepting
  /\ NewSpawn(w, t)
  /\ Goto(w, "post")
  /\ UNCHANGED dest

(* Broken variant: posts whenever a callback is stored, whatever the state *)
(* word said.                                                              *)
TaskComplete_ByCallback(w, t) ==
  /\ pc[w] = "body"
  /\ kind[t] = "await"
  /\ completes[t] < MaxCompletes
  /\ completes' = [completes EXCEPT ![t] = @ + 1]
  /\ state' = [state EXCEPT ![t] = "COMPLETE"]
  /\ IF callback[t]
       THEN /\ task' = [task EXCEPT ![w] = t]
            /\ dest' = [dest EXCEPT ![w] = home[t]]
            /\ Goto(w, "push")
       ELSE UNCHANGED <<task, dest, pc>>
  /\ UNCHANGED <<jobs, home, callback, poolVars, offset, kind, awaiting,
                 registered, fires>>

(* task_complete (and task_complete_deferred): one exchange decides        *)
(* whether this completer posts the task to its home queue.                *)
TaskComplete(w, t) ==
  /\ pc[w] = "body"
  /\ kind[t] = "await"
  /\ completes[t] < MaxCompletes
  /\ completes' = [completes EXCEPT ![t] = @ + 1]
  /\ state' = [state EXCEPT ![t] = "COMPLETE"]
  /\ IF state[t] = "CALLBACK"
       THEN /\ task' = [task EXCEPT ![w] = t]
            /\ dest' = [dest EXCEPT ![w] = home[t]]
            /\ Goto(w, "push")
       ELSE UNCHANGED <<task, dest, pc>>
  /\ UNCHANGED <<jobs, home, callback, poolVars, offset, kind, awaiting,
                 registered, fires>>

(* task_on_complete: the continuation is stored first.                     *)
StoreCallback(w, t) ==
  /\ pc[w] = "body"
  /\ kind[t] \in {"await", "yield"}
  /\ ~awaiting[t]
  /\ awaiting' = [awaiting EXCEPT ![t] = TRUE]
  /\ callback' = [callback EXCEPT ![t] = TRUE]
  /\ task' = [task EXCEPT ![w] = t]
  /\ Goto(w, "cas")
  /\ UNCHANGED <<jobs, state, home, poolVars, dest, offset, kind, completes,
                 registered, fires>>

(* A deferred await that finds the task complete (TASK_RUNNING false)      *)
(* reads the result in place: it registers nothing.                        *)
AwaitInPlace(w, t) ==
  /\ pc[w] = "body"
  /\ kind[t] \in {"await", "yield"}
  /\ ~awaiting[t]
  /\ state[t] = "COMPLETE"
  /\ awaiting' = [awaiting EXCEPT ![t] = TRUE]
  /\ UNCHANGED <<jobs, taskVars, poolVars, threadVars, kind, completes,
                 registered, fires>>

(* Broken variant: a plain store of CALLBACK in place of the CAS.          *)
RegisterCas_Store(w) ==
  /\ pc[w] = "cas"
  /\ registered' = registered \cup {task[w]}
  /\ state' = [state EXCEPT ![task[w]] = "CALLBACK"]
  /\ task' = [task EXCEPT ![w] = None]
  /\ Goto(w, "body")
  /\ UNCHANGED <<jobs, home, callback, poolVars, dest, offset, kind, completes,
                 awaiting, fires>>

(* task_on_complete's CAS and what follows it.                             *)
RegisterCas(w) ==
  LET t == task[w] IN
  /\ pc[w] = "cas"
  /\ registered' = registered \cup {t}
  /\ \/ /\ state[t] = "PENDING"
        /\ state' = [state EXCEPT ![t] = "CALLBACK"]
        /\ task' = [task EXCEPT ![w] = None]
        /\ Goto(w, "body")
        /\ UNCHANGED dest
     \/ /\ state[t] = "YIELDED"
        /\ state' = [state EXCEPT ![t] = "COMPLETE"]
        /\ Goto(w, "post")
        /\ UNCHANGED <<task, dest>>
     \/ /\ state[t] \in {"CALLBACK", "COMPLETE"}
        /\ dest' = [dest EXCEPT ![w] = home[t]]
        /\ Goto(w, "push")
        /\ UNCHANGED <<state, task>>
  /\ UNCHANGED <<jobs, home, callback, poolVars, offset, kind, completes,
                 awaiting, fires>>

(* The callback returns to the worker loop.                                *)
BodyReturn(w) ==
  /\ pc[w] = "body"
  /\ Goto(w, "pop")
  /\ UNCHANGED <<jobs, taskVars, poolVars, task, dest, offset, history>>

-----------------------------------------------------------------------------
(* I/O.                                                                    *)

(* _io_job_alloc and _io_enqueue, on a worker: a completion task bound to  *)
(* its finisher, seen by nobody until the job is in the queue.             *)
IoSubmit(w, t) ==
  /\ pc[w] = "body"
  /\ Allocate(w, t, "CALLBACK", "io")
  /\ callback' = [callback EXCEPT ![t] = TRUE]
  /\ registered' = registered \cup {t}
  /\ jobs' = jobs \cup {t}
  /\ UNCHANGED <<poolVars, threadVars, completes, awaiting, fires>>

(* _io_dequeue: waits while there is no job.                               *)
IoTake(i, t) ==
  /\ pc[i] = "dequeue"
  /\ t \in jobs
  /\ jobs' = jobs \ {t}
  /\ task' = [task EXCEPT ![i] = t]
  /\ Goto(i, "serve")
  /\ UNCHANGED <<taskVars, poolVars, dest, offset, history>>

(* The system call returns; the completion task goes to the worker that    *)
(* submitted the job (thread_work_post), whose state word is not touched.  *)
IoAnswer(i) ==
  /\ pc[i] = "serve"
  /\ dest' = [dest EXCEPT ![i] = home[task[i]]]
  /\ Goto(i, "push")
  /\ UNCHANGED <<taskVars, poolVars, jobs, task, offset, history>>

-----------------------------------------------------------------------------
BodyCall(w, t) ==
  \/ TaskCreate(w, t) \/ FutureYield(w, t) \/ Dispatch(w, t)
  \/ FuturePost(w, t) \/ TaskComplete(w, t) \/ StoreCallback(w, t)
  \/ AwaitInPlace(w, t) \/ IoSubmit(w, t)

Step(w) ==
  \/ PopOwn(w) \/ Steal(w) \/ WaitForWork(w)
  \/ FireState(w) \/ FireRead(w) \/ FireInvoke(w)
  \/ PushCount(w) \/ PushLink(w) \/ PostParallel(w)
  \/ RegisterCas(w) \/ BodyReturn(w)

IoStep(i) == (\E t \in Tasks : IoTake(i, t)) \/ PushCount(i) \/ PushLink(i)

Next ==
  \/ \E w \in Workers : Step(w) \/ \E t \in Tasks : BodyCall(w, t)
  \/ \E i \in IoThreads : IoStep(i) \/ IoAnswer(i)

(* A thread that can run does run (the OS schedules every thread), and a   *)
(* callback ends: Step carries fairness, BodyReturn among its steps, and   *)
(* IoStep.  A system call may never return: IoAnswer carries none.         *)
Spec ==
  /\ Init /\ [][Next]_vars
  /\ \A w \in Workers : WF_vars(Step(w))
  /\ \A i \in IoThreads : WF_vars(IoStep(i))

-----------------------------------------------------------------------------
(* Types: among them, that a thread only ever holds, stores or fires a     *)
(* task that was allocated, and that the backlog count never wraps below 0.*)
TypeOK ==
  /\ state \in [Tasks -> States]
  /\ home \in [Tasks -> Workers]
  /\ callback \in [Tasks -> BOOLEAN]
  /\ queue \in [Workers -> Seq(Tasks)]
  /\ queuedCount \in Nat
  /\ postCounter \in 0 .. PostModulus - 1
  /\ jobs \in SUBSET Tasks
  /\ pc \in [Threads -> PCs]
  /\ task \in [Threads -> Tasks \cup {None}]
  /\ dest \in [Threads -> Workers]
  /\ offset \in [Workers -> Nat]
  /\ kind \in [Tasks -> Kinds]
  /\ completes \in [Tasks -> 0 .. MaxCompletes]
  /\ awaiting \in [Tasks -> BOOLEAN]
  /\ registered \in SUBSET Tasks
  /\ fires \in [Tasks -> Nat]

(* Where a runnable task can be: in a queue, among the jobs, or in the     *)
(* hands of a thread that will push it or invoke its callback.             *)
Places == UNION {{w} \X DOMAIN queue[w] : w \in Workers}
QueuePlaces(t) == {p \in Places : queue[p[1]][p[2]] = t}
Carries(w) ==
  pc[w] \in {"post", "push", "link", "fire", "read", "clear", "serve"}
Holders(t) == {w \in Threads : Carries(w) /\ task[w] = t}

(* The intrusive `next` link serves one queue at a time: a task is never   *)
(* twice in the queues, nor queued while a thread holds it, nor while its  *)
(* job waits for an I/O thread.                                            *)
OnePlace == \A t \in Tasks :
  Cardinality(QueuePlaces(t)) + Cardinality(Holders(t))
    + Cardinality({t} \cap jobs) <= 1

(* Lost wake-up freedom: a registered continuation of a complete task that *)
(* has not run is always somewhere a worker will find it, and the          *)
(* completion task of a request is there or with the I/O threads.          *)
NoLostContinuation == \A t \in registered :
  (completes[t] > 0 \/ kind[t] # "await") /\ fires[t] = 0
    => QueuePlaces(t) # {} \/ Holders(t) # {} \/ t \in jobs

(* A worker never sleeps on a queue that has work (the sideload race of    *)
(* thread_review.md B1).                                                   *)
NoSleepOnWork == \A w \in Workers : pc[w] = "asleep" => queue[w] = <<>>

(* The backlog counter, touched outside the lock by every producer, never  *)
(* drifts: it counts exactly the queued tasks and the pushes under way.    *)
Linking == {w \in Threads : pc[w] = "link"}
CountExact == queuedCount = Cardinality(Places) + Cardinality(Linking)

(* A request is answered once its system call has returned.                *)
InService(t) ==
  t \in jobs \/ \E i \in IoThreads : pc[i] = "serve" /\ task[i] = t

Promise == INSTANCE Continuation WITH
  completed <- {t \in Tasks : completes[t] > 0
                              \/ (kind[t] = "yield" /\ state[t] = "COMPLETE")
                              \/ (kind[t] = "io" /\ ~InService(t))
                              \/ (kind[t] = "spawn")}

(* Refinement: the pool implements Continuation.  A completion and a       *)
(* registration, in either order and from any worker, make the             *)
(* continuation run, and once.                                             *)
ImplementsContinuation == Promise!CSpec
=============================================================================
