# YAFL: TLA+ models of the runtime and the compiler, TLC runs, TLAPS proofs

YAFL is a functional language. A Python compiler (`compiler/`) translates it to
C, and the C is linked against a runtime, `yafllib/`: an M:N task scheduler, a
concurrent and moving garbage collector, lazily initialised globals and
asynchronous I/O. Two kinds of thing can go wrong, and the project has a kind of
model for each. The runtime is where threads meet: its modules are protocols,
a step of a thread at a time, and the theorems are about them. The compiler is
a sequential batch program whose steps are passes: its modules are the passes
as operators, and the runs judge every pass by what the program means.

Contents: [inventory](#1-inventory), [plan](#2-plan),
[modules](#3-the-modules), [runs](#4-the-runs), [proofs](#5-the-proofs),
[findings](#6-findings), [what is not modelled](#7-not-modelled).
`PROJECT.json` holds the same in data form: the components, the runs, a mutated
definition for every property, the map from each definition to the source lines
it translates, the theorems and the hazards.

## 1. Inventory

Line numbers are those of `src/`.

**Task scheduler** (`yafllib/thread.c`, `yafllib/task.c`). One FIFO per worker
under a mutex with a condition variable, linked through `task->next`;
`_queued_count`, the backlog, touched outside the lock; `_parallel_post_counter`.
A task has a state word PENDING / CALLBACK / COMPLETE / YIELDED, a home thread
and a callback. Operations: `task_create`, `task_complete`, `task_on_complete`,
`future_yield`, `future_post`, `thread_dispatch`, `thread_work_post[_parallel]`,
and the worker loop (pop, steal, wait, fire). Hard: registration racing
completion; a sleep racing a push; stealing; who posts a yielded task; producers
that are no workers (the I/O threads). Correct
when a continuation of a completed task runs, exactly once, and a task is never
on two lists.

**Lazy globals** (`yafllib/lazy.c`, `compiler/lowering/lazy_thunks.py`). A stub
holds a flag word (NULL, HELD, DONE or the head of a chain of waiter tasks), a
closure and a value. The emitted `lazy_fetch` tests the flag, acquires, tests
again, initialises, stores the value, drops the closure, releases. Hard: an
enqueue racing the release's walk; the waiter's `next` is reused by the queues
as soon as it is completed; initialisers fetch other stubs. Correct when an
initialiser runs at most once, every reader gets its value and no waiter is lost.

**Collector** (`yafllib/object.c`, 3766 lines; `gc_internal.h`). A state
machine that allocating threads drive in small steps: idle, scan roots, mark,
prune, and back. Shared state: the page lists, per-page bitmaps (seen, atomic
seen, scanned, cards), per-thread states and safe-point requests, the reprocess
ring. Its parts:
- *start and root scan*: threads are moved between RUNNING, SUSPENDED and
  SUSPENDED_SCAN, their stacks scanned by themselves or by others while they
  block; during the window a store owes a hybrid barrier;
- *mark*: executors claim batches of pages and scan them; a deletion barrier
  marks overwritten references; a ring brings back pages that were finished;
- *prune, compaction, pins, cards*: objects move while mutators pin or resolve
  them; minor cycles use a card table;
- *pacing, statistics*: how much work an allocation owes.

Correct when no object that is reachable is freed, a reference never yields a
stale copy, and a cycle ends.

**Page allocator** (`yafllib/mmap.c`). Markers per page, claims of runs by CAS
with rollback, per-thread pools, stealing, scavenging.

**I/O** (`yafllib/io.c`, `io_thread.c`). Four threads serve a FIFO of jobs. A
job has two tasks: its own, which the program awaits, and a completion task, made
with its callback when the job is, which the I/O thread posts to the worker that
submitted the job and whose callback, the finisher, completes the first. Buffered
handles; close with flush. Hard: the answer arrives when every worker may be
asleep. Correct when an answered request wakes a worker and its finisher runs once.

**Values** (`integer.c`, `str.c`, `float.c`, `hash.c`): pure algorithms.
**Shell** (`main.c`, `log.c`, `stackguard.c`, `tempdir.c`).
**Compiler: type inference** (`compiler/compiler.py` `__converge`,
`pyast/typespec/`, `pyast/inference.py`). Every pass compiles every declaration
against the declarations the pass before left; the loop ends when a pass changes
nothing, when a cycle of states is seen (Brent's algorithm) or at a last pass.
State: the types stored so far, the hints of untyped parameters, the watched
state. Hard: what is concluded from a part of the information and kept; the order
in which declarations become known. Correct when every flow of an accepted
program is well typed, the order makes no difference, and a loop that does not
settle names what cycles.

**Compiler: linear values and drops** (`lowering/drops.py`,
`lowering/linearity.py`). A linear value is used exactly once on every path;
calls of `drop` are put where a path leaves one over; then the uses are counted.
Hard: paths that end early, branches, loops of `[tail]` functions, lambdas and
deferred bindings. Correct when no accepted program uses a value twice or leaves
one over, and a drop takes only what would be left.

**Compiler: rewrites of the tree** (`lowering/lambda_lift.py`, `ast_inline.py`,
`tail_loop.py`, `block_exits.py`, `lower_lazy_lets.py`, `lambdas.py`), **of the
intermediate code** (`codegen/`, `lowering/` from `trim.py` to `cleanup.py`) and
**of suspending functions** (`sync_inference.py`, `defer_awaits.py`,
`async_lower.py`). About forty passes, each correct when the program still asks
the outside the same and returns the same, whenever the answers come; when no
local is read before it is written; when nothing suspends between the allocation
of an object and the stores that fill it in; and when a `[future]` body runs on
a worker. Hard: each pass relies on forms the earlier ones promise.

**Compiler: the rest.** Parsing, name resolution, generics and unions, layout,
text generation, libraries and builds; and the bootstrap compiler, the compiler
again in YAFL. Not modelled.

How they meet: emitted code calls the scheduler and the lazy gate; the gate
completes tasks; I/O posts tasks; every allocation is a step of the collector;
every store into a mutable object goes through its barrier; the scheduler's
queues and the gate's flags are roots of the collector and follow its barrier
contract; the collector takes pages from and gives pages to the page allocator.
The compiler's passes meet in the driver, one after the other.

The hazards found in the survey are listed in `PROJECT.json`, each at its line,
with the properties that cover it or the reason that none does yet.

## 2. Plan

Most important first. A protocol stands by itself, with an abstract
specification where the component makes a promise to others.

| # | Modules | Model | State |
|---|---------|-------|-------|
| 1 | `TaskPool`, implements `Continuation`; `TaskPool_proofs` | scheduler, tasks, the I/O threads as producers | written, checked, safety proved |
| 2 | `LazyGate`, implements `OnceCell`; `LazyGate_proofs` | lazy globals | written, checked, safety proved |
| 3 | `GcMark`, implements `SatbMark`; `GcMark_proofs`, `GcMarkSnapshot_proofs` | mark stage | written, checked, safety proved |
| 4 | `GcCycle`, implements `ManagedHeap`; `GcCycle_proofs`, `GcCycleMarker_proofs` | a whole cycle: opening, root scan, hybrid barrier, I/O enclosures, prune | written, checked, safety proved |
| 5 | `Ir`, `Lang`, `Meaning`, `IrExec`, one module per group of passes, `Compiler` | the passes from the typed tree to the emitted code | written, checked |
| 6 | `Linearity`, `Drops`, `FrontEnd` | linear values | written, checked |
| 7 | `TypeSpecs`, `TypeAlgebra`, `UseSites`, `Inference`; `ConvergeLoop`, `ConvergeLoop_proofs` | type inference; its loop | written, checked; the loop proved |
| 8 | `LatePin`, `Cards` | a pin against compaction; the card table's clear-and-recheck | planned |
| 9 | `PageAlloc` | run claims with rollback, pools, stealing | planned |
| 10 | `IoHandle` | buffered handle and close (the job queue is in `TaskPool`) | planned |

Compositions planned: `TaskPool` under `LazyGate` (the set `posted` of the gate
is the pool's queues); `GcMark` in the place of the mark stage of `GcCycle`;
`LazyGate` on the heap of `GcCycle` (a waiter displaced from a stub's flag while
another caller holds it in a local).

## 3. The modules

### TaskPool

State: `state`, `home`, `callback` are the fields of `task_t`; `queue`,
`queuedCount`, `postCounter` the pool; `pc`, `task`, `dest`, `offset` the
control point and locals of each thread; `jobs` the requests no I/O thread has
taken yet, named by their completion tasks. `kind`, `completes`, `awaiting`,
`registered`, `fires` are history. Grain: each access to a word that another
thread can see is a step, a critical section of `queue->lock` is one step.
The count is raised before the lock is taken (`PushCount`, then `PushLink`).

The body that a worker runs is the program: while its control point is
`"body"` it may make any legal call (`BodyCall`), and it returns (`BodyReturn`).
Legal means what emitted code does: a task is awaited by at most one party, and
only tasks made by `task_create` are completed by the program. `AwaitInPlace` is
the await of a finished task, which registers nothing.

An I/O thread is a producer of its own: `IoTake` waits for a job, `IoAnswer` is
the return of the system call, and then it pushes the completion task to the
queue of the worker that submitted it, by the same `PushCount` and `PushLink` as
a worker. `IoSubmit` makes the completion task and hands over the job in one step,
as nobody sees the task before; the task that the program awaits is an ordinary
one, and the finisher's `task_complete` an ordinary call of the body the
completion task runs. `jobs` is a set where the source has a FIFO, so that more
orders are allowed than can occur.

`Continuation` is the promise: registered, completed and fired tasks; a fire
happens only when both happened, and does happen. `ImplementsContinuation` is
the refinement, safety and liveness.

### LazyGate

State: `flag`, `value`, `closure` of each stub; `link`, `tstate`, `callback` of
each activation's waiter (an activation allocates at most one, so the waiter is
named by it); `posted`, the waiters that a worker will run; `pc` and the locals
`expected`, `cursor`, `after`. Each access to the flag, a link, a task's state
word, the value or the closure is a step. `Take` is a weak CAS and may fail.
`Parent` gives the nested calls: a child is called while its parent's
initialiser runs, one at a time.

The worker pool is abstracted to the set `posted` and the action `Resume`; that
a posted task is run, and once, is what `TaskPool` shows. The runner of a
`[future]` stub is a fetch whose result nobody reads; when it finds the gate
held it leaves a waiter without a continuation, which the release completes with
no further effect, and that activation ends at its enqueue. It is not modelled.

`OnceCell` is the promise: a cell is filled once, by somebody who asked for it
or whose initialiser did, and everyone who asks gets the value.

### GcMark

State: the heap (`field`), the per-page bitmaps, `processed_by_epoch`,
`requeue_pending`, the two page lists, the in-flight counter, the ring with its
two indexes and its overflow flag, the stage, the pool lock and the lock of the
state machine; and the locals of executors (threads inside
`gc_fsa_mark_sweep_body`) and mutators (threads inside the write barrier).

The order of the accesses is kept where somebody else could come in between:
the bit, then the epoch test, then the push; the head's CAS, then the take of
the entry; claim, merge, scan, processed, drain, late merge, publish; lock,
writers, ring, in-flight, overflow flag, wipe, tail, head, re-scan. Abstracted:
an object has one reference; a page's bitmap is one word, so the bits of a page
move together; lists are sets; the step budget is a nondeterministic end of a
batch; objects do not move in this stage; the old generation (which is
never marked) and the objects born in the cycle (which are not scanned by it)
are absent. The late merge and the deferred exchange that follows it are one
step, and the retire test reads the writers' counters in one step. Merged as well,
and interleavings inside them not explored: the barrier's read of the stage, of the
old value and of its mark (`Barrier`); the look at the ring for the same page
(`PushDedupe`); and the pump's read of head and tail with the rise of the in-flight
count (`PumpRead`).

`SatbMark` is the promise of snapshot-at-the-beginning: `marked` grows from the
roots along the snapshot's references, and marking is over only when the
snapshot is marked; and it does get over. `ImplementsSatb` is the refinement.

### GcCycle

State: `mem` the heap and the static slots; `locals` what a thread's stack and
registers hold; `where` the page an object is on (a thread's new pages, the
collection pool, given back); `marked` (`seen` or `atomic_seen`); `stage`,
`fsaLock`, `barrier` (`gc_write_barrier_requested`); per thread `tstate`,
`rootsScanned`, `request`, `grey` (`grey_slot`); and the control point and locals
of each store (`op`, `held`) and of the collector (`todo`, `scanning`).

A store macro is its steps: test the flag, test for a write-once store, flush the
grey slot, read the old value, shade it, remember the new one, store, test again,
read back, shade. Opening is the flag, then the static roots one at a time, then
each thread's request. A scan is three steps (claim the thread, scan, give it
back), so that a thread may wake up in between. Abstracted: the mark stage marks
an object a step and retires when it is complete, which is what `GcMark` shows
of the executors; a page is one object; an object holds one reference and does
not move; the dwell and the pacing that decide when a cycle opens are left open;
every cycle is a major one.

The program does what the sharing contract allows
(`yafllib/tests/test_gc_mesh.c:3-12`). `Readable`: a field that is overwritten is
accessed under its object's pin, so nobody loads it while such a store is under
way; a field whose store is its first, and a static slot, are read at any time.
`Writable`: one thread at a time stores into a slot (under the pin, under the lock
of the structure a root belongs to, or as the holder of a stub), and only a CAS
competes, with other CASes. A CAS is what the lazy gate does with a stub's flag: it
expects what it has just read, and brings an object nobody else has seen
(`lazy_enqueue_waiter`) or no reference (`lazy_release`). The contract is needed:
without it TLC shows in 25 steps a store that read the flag down, lost the
processor while the cycle opened and a second thread was scanned and loaded the
old value, and then overwrote it unshaded. `gc_cas` is limited to static slots for
the same reason; `PROJECT.json` names what that leaves open.

`ManagedHeap` is the promise to the program: only an object that no thread and
no static slot can reach is taken back, and in the end it is. `ImplementsHeap`
is the refinement; its liveness is `GarbageComesBack`.

### The trees and the code: Lang, Meaning, Ir, Tasks, IrExec

`Lang` is the source tree after typing, a node with its class and its parts in
the order in which the compiler visits them; `Ir` the intermediate
representation: parameters, operations, functions. Each has a meaning that is a
reference and not code of the compiler: `Ev` and `Run` for the tree, `IrExec` for
the C text that an operation is printed as. `Meaning` holds what they share,
values, heap, and the outside world, an *oracle* that answers an external call
with one of a few integers and sees the name and arguments of every call.
`Tasks` is the runtime as one thread of emitted code meets it, under a
*schedule*: which calls of the outside are answered later, in which order, and
when. How a result says "not yet" (`task_abi.py`) is part of `Ir`.

### The passes: Hoist, Inline, Closures, Gen, SsaPasses, WholeProgram, SyncInference, DeferAwaits, HeapPasses, AsyncLower, Dedup

One operator per pass, named for the Python function it translates, from a
function (or a program) to a function. Sequences of operations are kept as they
are, since orders and labels are what passes get wrong; names are paths; texts,
positions and messages are left out. `AsyncLower` also holds definite assignment,
which gives a state its locals and is the compiler's own last check.

### Compiler

State: the program chosen, the level, what it means (`meant`), the tree or the
operations it has become, the stage. One action per pass, in the order of
`__iterate_and_compile` and `__create_c_code`, with the level's conditions on
whether it runs; the fixpoint is `OneRound` repeated. Whole runs of the emitted
code are evaluated inside a state, so a pass is judged on every input, oracle
and schedule as soon as it has run.

### Linearity, Drops, FrontEnd

The counting checker and the insertion of drops over the trees of `Lang`.
`FrontEnd` is the driver (write, insert, check) and the reference: `Runs`, the
uses of the bindings on every path the program may take, which is what "used
exactly once" means.

### TypeSpecs, TypeAlgebra, UseSites, ConvergeLoop, Inference

Types, their identity and assignability; merge, branch types, refinement of a
stored type, solving of where-constraints; type arguments at a use and the
conversion a use owes; the loop; and what a pass makes of a declaration. State of
`ConvergeLoop`: the program, the types stored, the names that cannot be looked up
completely yet, the pass, the watched state (`snapshot`, `window`, `distance`) and
the verdict; an action `Pass` compiles every declaration, and its four
alternatives are what `__converge` does with the outcome: `Settle`, `Trail`,
`Repeat`, `Watch`. The program that the loop compares is the declarations
together with what is late (`Statements`): in the source everything a lookup
depends on is in the statements, so a state in which a name has just become
visible is not one that was seen before.

`PassOver` is a constant operator. `Inference` gives it its definition
(`CompileAll`), a configuration names that definition by a function over the
enumerated programs, and the proofs hold for any: they need nothing of a pass but
that it is a function of the declarations and of the names that are late, which
the source's passes are.

`MCFrontEnd` runs both machines of the front end, which share no state, as one
specification (`BothSpec`).

## 4. The runs

Bounds are named in each module's header comment. Each property of a passing
run has a mutant in `PROJECT.json`: the definition with a plausible bug, kept
beside it in the module, under which TLC finds the property violated in the same
configuration.

| Run | Instance | Shows |
|-----|----------|-------|
| `task_pool` | 3 workers, 2 I/O threads, 2 tasks, up to 2 completions each, counter modulo 4 | one place, no lost continuation, no sleep on work, exact count, and the refinement with liveness; an answer arrives while workers fall asleep, two thieves compete, and the counter's modulus is no multiple of the workers |
| `lazy_nested` | 2 stubs, the initialiser of one fetching the other, which two more callers want | one holder, once, closure, resumption, every suspended fetch reachable, nobody stuck, refinement with liveness |
| `gc_mark` | 1 executor, 1 mutator, 2 stores, ring of 2 | the whole snapshot is marked and marking ends; a late mark is answered |
| `gc_mark_pair` | 2 executors, batches of 2, 1 store | a page has one owner, and every claimed ring entry comes |
| `gc_mark_overflow` | ring of 1 | after an overflow the re-scan finds what was dropped |
| `gc_cycle` | 2 threads, one holding an object nobody else has, one birth, 2 stores by any macro | the hybrid barrier and the declared root that is read once: nothing reachable is hidden from the marker or taken back; no stale reference is marked; nobody scans a running thread |
| `gc_cycle_chain` | 2 threads, one may block for ever, a static slot and a chain of two, one store of any kind | overwritten values are shaded; garbage comes back |
| `compiler` | enumerated programs at levels 0, 1 and 2, every oracle, every schedule | after every pass the program means the same, whenever answers come; SSA form, definite assignment, atomic construction, futures on workers |
| `front_end` | enumerated linear programs; enumerated inference programs, in order and with one declaration late | the linearity check and the drops against the paths; flows are well typed, order makes no difference, cycles are named, stored types only widen |
| `gc_ring_entry`, `gc_ring_reset`, `compiler_capture` | expected violations | the findings of section 6 |

Why the bounds are enough. *Scheduler*: the races are between one completer, one
registrant and one worker for a task; a second task makes the queues longer than
one and lets the workers hold different tasks; a third worker is the first for
whom "home, thief, other thief" differ; two I/O threads may push at once, and to
the queue of one worker. *Gate*: a holder, a chain of two waiters
and a late reader of the inner stub, while the outer one is in progress. *Mark*:
two pages are needed for a back-edge and chains that cross them back and forth for
a page to be requeued; three pages and a ring of one for an overflow; two stores
let one push overtake what the other left behind. *Cycle*: two threads are a
scanned and an unscanned one; two stores are what it takes to hide an object
(publish a new container, then move the last reference into it); two objects are
the container and what it hides. Cycles repeat without bound. The sizes 8 and 16 of
the source (batch, ring) are parameters, because the small values reach their
edges. For everything the proofs of section 5 state, the bounds no longer matter.
*Compiler*: a finite suite of programs, each built around one shape the passes
treat (early returns, `[tail]` loops that swap, inlined and nested functions,
captures, deferred bindings, branches that park, objects, enums), each with a few
inputs; the stub threshold is lowered to 12 operations so that loops on both
sides of it occur. *Linear values*: a function of one linear parameter whose body
is any two statements and a value out of the kinds the checker treats, each with
the linear types that differ for it (with and without a Drop instance, with two
leaves, generic, an enum). *Inference*: families of one to three declarations
with open types: mutual recursion, matched unions, generic calls, hints,
where-constraints. Cycles are watched from pass 20, as in the source.

The families avoid, and the findings record, what the code gets wrong there: a
generic call with an undeclared function's result as a branch arm, a view of an
enum in a union with an unrelated type, and generic classes among the ancestors
of a class. Class headers and trait instances are complete before the first
pass. All 2074 programs of the first version of the family were put through the
real compiler: twelve results differ, all in the spelling of one type
(`Animal` or `Cat|Dog`), because class headers are resolved during the passes.

TLC's own test for deadlock is switched off in every configuration, because
every system here may stop: in the scheduler every worker sleeps once the program
has ended, the gate stops when each fetch has returned, the mark model ends with
its stage, in `GcCycle` a thread may block for ever, and a compilation ends. That
the protocols stop in the right place only is said by the liveness half of the
refinements and, for the gate, by `NeverStuck`: whatever a fetch that has not
returned waits for, somebody at its own stub or at one that ranks below it can
take a step, or is in a worker's queue. Nested initialisers wait for one another
there, and a lost wakeup would stop all of them.

Fairness. *Scheduler*: weak fairness of each worker's own steps, which the
operating system's scheduling gives, `BodyReturn` included: a callback ends; and
of an I/O thread's taking of a job and its pushes. No fairness for the program's
calls, nor for `IoAnswer`: a system call may never return. *Gate*: weak fairness of an activation's steps,
as they are run by workers; strong fairness of the weak CAS's success, since a
spurious failure is not for ever; weak fairness of nested calls, as an
initialiser goes on to make its calls. *Mark*: weak fairness of executors, since
allocation keeps calling the collector, and of mutators inside the barrier,
which is bounded code; none for starting a store. *Cycle*: weak fairness of the
steps inside a store; strong fairness of entering the collector and of its steps,
since safe points are compiled into loops and allocations drive it; a running
thread is not for ever without the processor whenever the lock is free
(`RunsOften`); none for the program, and none for the return of a blocking call
outside `Returning`. *Compiler
and front end*: none; their properties are about states and steps.


## 5. The proofs

A run says what holds of a small instance. The theorems say it for every number
of workers, tasks, stubs, pages, objects and threads, from the assumptions on
constants that the modules name and TLC evaluates (a worker exists; the ring and
the batch hold something; `Null` is none of the other values; the dependencies of
initialisers have no cycle; where a collector's model starts, an object that is
not born yet holds nothing; the watch for cycles begins at a first pass or later
and before the last, which is a hypothesis, `PassLimits`, of the theorems that
need it). None of the properties is inductive as it stands, so
each module begins with the invariant that is, stated as a conjunction of named
parts: `Init => IInv`, `IInv /\ [Next]_vars => IInv'`, one step per action and one
below it per part the action can disturb. `Spec => []P` then follows from
`IInv => P`.

### LazyGate_proofs

`IInv` is about the gate. `OneHolder` needs to know that a holder's flag is
neither free nor done (`FlagAgrees`), which an enqueue keeps only because the
value it expects is neither, and the resumption of a waiter only because a
posted or completed waiter's stub is done; that needs the chain a release walks
to consist of waiters of its own stub (`SameStub`). `InitOnce` needs that a stub
which is not done and has no holder was never initialised (`RunAgrees`). From it:
`TypeCorrect`, `MutualExclusion`, `InitialisedAtMostOnce`, `ClosureAtCall`, and
`FetchReturnsValue`: what a fetch returns is the value of its initialiser.

`WInv` is about the waiters, on top of `IInv`. A chain is a set here, the
smallest that holds its head and each member's link; what it has to say is that
every suspended activation is in the chain of its stub's flag, of the releaser's
cursor or of what the releaser has read of it, or is posted, or its task is
complete; that no two chains meet; and that nobody is both in a chain and behind
the cursor. The lemmas `ChainPush`, `ChainPop` and `ChainBeside` say what a push, a
step of the walk and somebody else's write of a link do to it. From it:
`NoWaiterLost`, `ResumedAtMostOnce`, and `SafeOnceCell`, the safety half of the
refinement.

`NobodyStuck` is the absence of deadlock, `Spec => []NeverStuck`, for any number of
stubs and callers and any nesting of initialisers without a circle. It needs one
thing more, that a held flag has a holder under way (`HeldHasHolder`), and takes a
counterexample whose stub is of least rank (`LeastRank`). It is not inside its
initialiser, or the fetch that one made would rank lower still; and it is not
suspended, since it is then in the chain of a flag, whose holder can move by the same
argument, behind a releaser's cursor, who can move, or posted.

### TaskPool_proofs

`IInv`: whatever is queued, in a thread's hands or among the jobs is runnable
(`PlacesAgree`), and in one place only (`OnlyOnce`); a task has one registrant
(`OneRegistrar`); the state word tells how far completion and registration got
(`StateAgrees`); a task that is both completed and registered and has not fired is
somewhere (`Kept`); the backlog count is the queued tasks and the pushes between
the count and the link, of workers and of I/O threads (`Counted`); and whoever
sleeps on a queue with a task in it has a signal on the way. From it:
`TypeCorrect`, `OneRunnablePlace`, `NoContinuationLost`, `NeverSleepsOnWork`,
`CountIsExact`. A second invariant, `Roles`, says who may be where: workers are
never at the I/O threads' control points nor the reverse, and what is among the
jobs or served is a completion task. With it `SafeContinuation`, the safety half of
the refinement of `Continuation`, in which a request counts as completed once its
system call has returned.

`RestsWhenDone` puts them together, and is about the pool at rest with the outside
still at work: while every worker sleeps, no queue holds a task; the count is
exactly the number of I/O threads between the count and the link, so zero when none
is (a backlog that drifted would make the pool refuse futures for good); and every
registered continuation that is due has run, or an I/O thread has it in a push that
will wake a worker.

### GcMark_proofs, GcMarkSnapshot_proofs

The first holds of every run. `IInv`: a page is on a list or in one executor's
hands (`OneOwner`), the in-flight count is the number of pages in hands and pumps
between claim and landing (`FlightExact`, by the lemmas on what a set's size gains
and loses), the lock and the writers' counts agree with the control points.
`SnapshotOnly`: whatever is in a bitmap, a field or a local is of the snapshot.
From them: `TypeCorrect`, `PagesHaveOneOwner`, `InFlightIsExact`, and
`SoundMarking`: marks are never lost and never invented.

The second is completeness, and it is conditional. `Unwrapped` says that the
ring has neither overflowed nor gone round; a run that leaves that state does not
come back (`UnwrappedStays`). Without the condition `SnapshotKept`, `MarkNotForgotten`
and `ClaimedEntryComes` are false, which the runs `gc_ring_entry` and
`gc_ring_reset` show, so a proof of the unconditional statements cannot exist; the
condition is what excludes exactly the two windows. `MarkInv` then has: the ring
agrees with its indexes, its pushers and its pumps; a mark was followed, or is in
a scan, or somebody will come to its page (`Awaits`); an overwritten reference was
marked before; and, what makes the retire test right, the tail reads the four words in
the order in which work moves on, so that what it has not seen cannot have passed
behind it (`TailAgrees`). From it: `SnapshotMarked`, `NoMarkForgotten`,
`ClaimedEntryArrives`, and `SafeMarking`, the safety of `SatbMark` under `[]Unwrapped`.

### GcCycle_proofs, GcCycleMarker_proofs

The safety of a cycle, for any threads, heap and stores. `IInv` has five parts:
`Types`; `Control` (who has the lock in which stage, who is still asked for its
roots, whom a scan holds); `Stores` (what the locals of a store under way say of
its slot, one storer to a slot, what a CAS brings is private); `Marker`; `Heap`.
The first module proves the first three inductive and the second the rest.

`Marker` is the hybrid barrier's argument. A thread is *black* once its roots are
scanned in this cycle, *white* from the rise of the flag until then; *young*
objects are those a black thread has allocated, which the cycle keeps without
following them. `WillMark` is what the marker is bound to get: the marks, what a
white thread's barrier holds, what the grey slots hold, and what is about to be
published. `Kept` is the smallest set that holds it and follows the references of
objects that are not followed yet. The claims are that what a black thread holds,
what a static slot holds once it has been read, and what young and scanned objects
hold is kept or young (`BlackKept`, `StaticsKept`, `YoungKept`, `ScannedKept`), so
a black thread can load nothing that the marker misses. They are inductive
because of what each half of a barrier owes at each of its steps: a store that
overwrites has shaded the old value, or its thread is white and the slot is
neither young nor a root that has been read (`WriteShaded`; `Stale` names the slots
of such stores, and by the lemma `StaleIsOne` no other store is under way there);
a CAS that will succeed has shaded
what it expects (`CasShaded`); and a white thread that stores into a young object
remembers the slot, so that its scan looks again (`InsertKept`). The proof has a
lemma per obligation (`ColourFacts`, `BlackLoads`, `ValueSafe`, `StoreOwes`,
`MarkerWrite`) and lemmas on the smallest sets (`KeptLeast`, `KeptGrows`,
`LiveShrinks`), so that a step of Next only says which of them applies.

`Heap` carries the result through prune: `Live`, what marks, threads, static slots
and barriers lead to, is still there (`LivePresent`), and what of it awaits the
verdict of prune is marked (`LivePruned`). At the retire, `Marker` gives the
second (`MarkStage`). From `IInv`: `TypeCorrect`, `NoScanOfRunning`,
`NoStoreHides`, `BarrierReadsLive`, and `CollectorImplementsHeap`, the whole of
`HSpec`, by `StepRefines`, with a case for each action; and `NothingReachableFreed`,
the same in the terms of the abstract specification: in every state, not only at
the step that frees, whatever `ManagedHeap` calls reachable is on a page that was
not given back. Two more are about the control: `RootScanGoesOn`, that the root
scan never waits for nobody and that a thread held in `gc_io_end` waits for a
scanner that runs (its invariant is `AskedLeft`: whoever gives the lock back leaves
somebody asked, or every thread scanned); and `MarkingHasEveryRoot`, that no
request, no held thread and no grey slot survives into the mark stage.

### ConvergeLoop_proofs

About the loop that types a program, for any programs, any pass and any limits.
`OutcomesTrue`: what `__converge` reports is so. Declarations it returns as settled
are a fixpoint of the pass; when it reports a cycle, two passes or more lead from
the declarations back to them, each of which changes something, so that no further
pass would have settled. The invariant `Trails` says that the hare got from the
tortoise to where it is by `distance` passes that each changed something, provided
no name has become visible in between; it fails if the tortoise remembers the
declarations without the late names, which is how the model came to hold both.

The other two are about programs whose names are all known from the start, where
the passes are one sequence: `Orbit(x)`, the iterates of `PassOver` on x. (That it
exists is `OrbitExists`, by least counterexamples: `LeastNumber`.) `OInv` places both
animals on it: the hare at `passes`, the tortoise `distance` behind it, at
`WatchFrom - 2 + window`.

- `PeriodFound`: a program whose declarations come round again is reported as
  settled or cycling, never as one that ran out of passes, as long as there is
  `Room`: a window b that is no shorter than the period, opened after the period
  has begun, and enough passes left to use it (`WatchFrom + 2b + period <=
  MaxPasses + 3`). The argument is Brent's: no window doubles past such a b
  (`window < 2b`), because in the first window that is long enough the hare meets
  the tortoise before it ends. With the source's limits, watching from pass 20 to
  pass 100, that covers every period up to 27 that begins by pass 45. The docstring
  (compiler.py:578) says that a cycle of any period is found; that is so of the
  algorithm and not of a hundred passes of it.
- `SettlesIfItCan`: the watch costs no program anything. When some pass up to the
  last changes nothing, the loop neither takes the passes for a cycle nor runs out
  of them: passes that come round never settle (`NoSettlingInACircle`).

Late names are left out of these two because the order in which they become
visible is a choice of the environment, and the passes then have no orbit until
the last of them is visible.

### Only model-checked

- Liveness: `ImplementsContinuation`, `ImplementsOnceCell`, `ImplementsSatb` in
  full, `GarbageComesBack`. The prover treats neither fairness (ENABLED) nor
  well-founded progress arguments. The safety half of each refinement is proved.
- The compiler's passes (`SameMeaning`, `SuspensionInvisible`, `StaysSsa`,
  `DefinitelyAssigned`, `ConstructionAtomic`, `FuturesOnWorkers`), linear values
  (`UsedOnce`, `DropsOnlyRelease`, `DropsSuffice`, `NothingUntraced`) and the types
  themselves (`FlowsHold`, `OrderMakesNoDifference`, `OnlyWidens`): what a pass
  computes is a recursion over programs, and induction over data is out of the
  prover's reach, as are modules with RECURSIVE operators.
- `CyclesNamed`: that no program of the families runs out of passes, and that what
  repeats differs in a type somebody could write. `OutcomesTrue` and `PeriodFound`
  state what of it holds of every program and pass.
- What the ring does after it has gone round.

## 6. Findings

Runs that expect a violation:

1. `gc_ring_entry` (object.c:2520). `pump_ring` moves the head before it takes
   the entry, and a push tests only the distance of the indexes. A push may thus
   store over the entry that was claimed and not yet taken; a later pump then
   spins on a place that stays empty. TLC needs three pushes with a ring of two;
   with the source's sixteen, it needs sixteen pushes by other threads within
   the window between two instructions. The comment at object.c:2493 argues that
   a CAS on the head excludes a pump spinning on an empty slot.
2. `gc_ring_reset` (object.c:2747). The answer to an overflow wipes the ring and
   resets its indexes after it has released the pool lock, without looking at
   the writers again. A push that had claimed its place stores after the wipe;
   its stale entry makes a later push of that page look like a duplicate, and
   the mark is dropped. TLC ends with an object of the snapshot unmarked. The
   comment at object.c:2739 calls the re-scan "expensive but safe".
3. `compiler_capture` (lowering/lambdas.py:232). A lambda that captures another
   function of its own type calls itself instead: the capture that stands for
   the lambda's own binding is recognised by its type, and types are compared by
   structure.

Because of the first, `ClaimedEntryComes` is checked where one store, so one
push, happens, and the overflow run, whose ring of one the first finding would
block, states safety only.

A comment out of date: object.c:2981 says that a handshake, `gc_barrier_enter`,
drains the barriers that straddle the retire, so that no mark lands after it.
The code has neither: a store that read the flag up marks whenever it goes on.
`HeldNotFreed` and `GarbageComesBack` show that the late mark does no harm: it
never touches an object that was taken back, and delays the end of a dead one by
a cycle at most.

Two more comments no longer describe their code. async_lower.py:1107-1111 calls
the stubs "DISABLED pending a sync-entry bug"; line 1112 enables them, and the runs
treat them as enabled. io_thread.c:384-386 says that the I/O thread does "no GC
writes here"; the push it makes there links the task by a store with the
collector's barrier (thread.c:97-101).

Met while the compiler's passes were translated, each tried on the real compiler
and outside the enumerated programs (the models do what the code does; the
families leave these shapes out):

- *Types.* `specs.py:741`: the dedupe of a union by class ignores which leaves of
  an enum each view covers, so a conversion loses a leaf (a function may widen
  `Square|None` to `Shape|None`, and a `Circle` be read as a `Square`).
  `specs.py:465`: a class is assignable to an ancestor of the same name whatever
  the type arguments. Inference depends on the order of passes where a stored
  partial return is fed back to a generic call, which then latches its type
  argument (function.py's comment says a widening union is not pinned).
- *Linear values.* A branch that returns early on one inner path only hides the
  other (`linearity.py:533`, against the docstring's "It is sound"); the guards of
  a match are not counted; a wildcard arm drops a linear value silently; a field
  taken of a call's result is accepted. Two `$drop_keep` names may collide; a
  droppable binding that is never mentioned is still rejected when the function
  returns early.
- *Passes.* `ast_inline.py` renames the lets of an inlined body at the top level
  only; hoisting moves a capturing function before a sibling it captures.

## 7. Not modelled

The planned modules of section 2 first: pins against compaction, the card table,
the page allocator, I/O handles. Beyond them: pacing, statistics, debugging and heap
profiles (no safety depends on them); values (pure algorithms, unit tested); the
process shell; of the compiler, parsing, name resolution, generics, unions'
layout, the text of the C code, libraries and builds; the standard library and
the bootstrap compiler (programs in YAFL); editor support, benchmarks and
examples. Circular initialisers are excluded by `RankAssumption`: they wait for
themselves, and the runtime promises nothing about them. Weak memory is not
modelled: steps are sequentially consistent, so a missing fence could not be
seen. The old generation is absent from the collector's modules: every cycle is a
major one. The I/O threads, which the collector does not know and which store only
when they push, are in `TaskPool` and not in `GcCycle`.

Inside the modules that are written: the merged grains of `GcMark` (section 3);
`AsyncLower` has no functions marked `bypass_async` and no `__entrypoint__`, which
the source passes through unchanged (async_lower.py:1486-1493, defer_awaits.py:43);
`Dedup` leaves out the sets of classes that an instance test keeps apart (`among`,
representation_dedup.py:195, 326-330), as the intermediate code of the suite has no
instance tests. A suite with such programs would need them first.
