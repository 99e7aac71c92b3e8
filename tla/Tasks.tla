---- MODULE Tasks ----
(* Tasks as the emitted code meets them: what the runtime's task operations do, with the code run
   by one thread and the outside answering when a schedule says.  TaskPool models their races.

   A task is an object of the heap with a state, a continuation and, once complete, a result.  A
   tagged pointer to it is what a function returns in place of its result. *)
EXTENDS Ir, Meaning

(* A schedule: which calls of the outside are answered later (none, every second one, all), in
   which order their answers come, and whether they come before the next call is made or only once
   no code can run.  Before functions return tasks nothing is scheduled.  The collector is another
   part: once stores are marked for it, it runs at every safe point. *)
InOrderOfCode == [pending |-> "plain", lifo |-> FALSE, early |-> FALSE, gc |-> FALSE]
Prompt == [pending |-> "none", lifo |-> FALSE, early |-> FALSE, gc |-> FALSE]
Schedule(pending, lifo, early) == [pending |-> pending, lifo |-> lifo, early |-> early, gc |-> FALSE]
Collecting(when) == [when EXCEPT !.gc = TRUE]

Tagged(task) == [v |-> "task", id |-> task.id]
IsTagged(val) == val.v = "task"
Untag(val) == IF IsTagged(val) THEN VObj(val.id) ELSE val
TaskState(w, task) == Get(w, task, <<"state">>)
IsComplete(w, task) == TaskState(w, task) = VInt(1)
\* A task that is complete once its continuation is registered.
Yielded == VInt(3)

\* Results in the shape a function returns them in.
RECURSIVE ZeroValue(_), TaggedIn(_, _)
ZeroValue(ty) ==
    CASE ty.t = "int" -> VInt(0)
      [] ty.t = "struct" -> VStruct(ty.names, [i \in DOMAIN ty.names |-> ZeroValue(ty.types[i])])
      [] ty.t = "wrap" -> VStruct(<<"value", "task">>, <<ZeroValue(ty.inner), VNull>>)
      [] OTHER -> VNull
InShape(val, wrapped) ==
    CASE wrapped.t = "wrap" -> VStruct(<<"value", "task">>, <<val, VNull>>)
      [] wrapped.t # "wrap" /\ val = VStruct(<<>>, <<>>) -> VNull
      [] OTHER -> val
TaggedIn(task, wrapped) ==
    CASE wrapped.t = "wrap" -> VStruct(<<"value", "task">>, <<ZeroValue(wrapped.inner), task>>)
      [] wrapped.t = "fun" -> VFun(<<>>, Tagged(task))
      [] wrapped.t = "struct" ->
           VStruct(wrapped.names, [i \in DOMAIN wrapped.names |->
                                     IF wrapped.names[i] = FirstPointerField(wrapped) THEN Tagged(task)
                                     ELSE ZeroValue(wrapped.types[i])])
      [] OTHER -> Tagged(task)

\* What the tests of a task compute.
TaskTest(fn, val, w) ==
    CASE fn = "PTR_IS_TASK" -> Bool(IsTagged(val))
      [] fn = "TASK_UNTAG" -> Untag(val)
      [] fn = "TASK_PENDING_OF" -> IF IsTagged(val) THEN Untag(val) ELSE VNull
      [] fn = "TASK_RUNNING" -> Bool(val.v = "obj" /\ ~IsComplete(w, val))
      [] fn = "UNLIKELY" -> Bool(Truth(val))
TaskTests == {"PTR_IS_TASK", "TASK_UNTAG", "TASK_PENDING_OF", "TASK_RUNNING", "UNLIKELY"}

(* The task operations, over a machine with the world w, the continuations that are ready and the
   answers of the outside that are still to come. *)
WithWorld(m, w) == [m EXCEPT !.w = w]
Post(m, task) == [m EXCEPT !.ready = Append(@, [run |-> Get(m.w, task, <<"callback">>), task |-> task])]
OnComplete(m, task, callback) ==
    LET set == WithWorld(m, Put(m.w, task, <<"callback">>, callback))
    IN CASE IsComplete(m.w, task) -> Post(set, task)
         [] TaskState(m.w, task) = Yielded -> Post(WithWorld(set, Put(set.w, task, <<"state">>, VInt(1))), task)
         [] OTHER -> set
Complete(m, task) ==
    LET set == WithWorld(m, Put(m.w, task, <<"state">>, VInt(1)))
    IN IF Get(m.w, task, <<"callback">>) = VUndef THEN set ELSE Post(set, task)
AllocTask(w, cls) == Put(Alloc(w, cls), NewId(w), <<"state">>, VInt(0))
TaskMakers == {"task_create", "task_obj_create"}
TaskEffects == TaskMakers \cup {"task_init", "task_complete", "task_on_complete"}
TaskEffect(m, fn, args) ==
    CASE fn = "task_create" -> WithWorld(m, AllocTask(m.w, BaseTask))
      [] fn = "task_obj_create" -> WithWorld(m, AllocTask(m.w, <<"task_obj">>))
      [] fn = "task_init" -> WithWorld(m, Put(m.w, args[1], <<"state">>, VInt(0)))
      [] fn = "task_complete" -> Complete(m, args[1])
      [] fn = "task_on_complete" -> OnComplete(m, args[1], args[2])

\* An answer of the outside that comes: its task gets the result.
Answered(m, i) ==
    LET a == m.out[i]
    IN Complete([m EXCEPT !.w = Put(@, a.task, <<"result">>, a.answer), !.out = RemoveAt(@, i)], a.task)
RECURSIVE AllAnswered(_)
AllAnswered(m) == IF m.out = <<>> THEN m ELSE AllAnswered(Answered(m, 1))
\* The next answer, once no code can run.
NextAnswer(m) == Answered(m, IF m.when.lifo THEN Len(m.out) ELSE 1)
\* Whether the outside answers a call later.
AnswersLater(m) ==
    CASE m.when.pending = "all" -> TRUE
      [] m.when.pending = "odd" -> Len(m.w.trace) % 2 = 0
      [] OTHER -> FALSE
Asking(m) == IF m.when.early THEN AllAnswered(m) ELSE m

\* The result of a call that returned in its wrapped shape: VUndef if its task never completed.
Settled(w, val, wrapped) ==
    LET task == IF wrapped.t = "wrap" THEN FieldOf(val, "task") ELSE Untag(val)
    IN IF wrapped.t = "wrap" /\ task = VNull THEN FieldOf(val, "value")
       ELSE IF wrapped.t # "wrap" /\ ~IsTagged(val) THEN val
       ELSE IF IsComplete(w, task) THEN Get(w, task, <<"result">>) ELSE VUndef
====
