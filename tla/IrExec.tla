---- MODULE IrExec ----
(* What the emitted code does: the meaning of the C text that to_c gives to a parameter and to an
   operation.  The reference a pass is judged by, not code of the compiler.

   A machine is a stack of frames -- the function, the next operation, the block it lies in and the
   values of the locals -- with the world, the result of the call it was started with, the schedule
   and what that leaves to be run.  A local that nothing wrote is undefined, and so is all that is
   computed from it. *)
EXTENDS Tasks

CONSTANT Discriminators   \* class name -> its discriminator

RECURSIVE EvalParam(_, _, _, _)
EvalParam(p, env, w, globals) ==
    LET Sub(i) == EvalParam(p.a[i], env, w, globals)
    IN CASE p.k = "var" -> IF p.n \in DOMAIN env THEN env[p.n] ELSE VUndef
         [] p.k = "global" -> IF p.n \in DOMAIN globals THEN globals[p.n] ELSE VUndef
         [] p.k = "int" -> VInt(p.v)
         [] p.k = "null" -> VNull
         [] p.k = "none" -> VUndef
         [] p.k = "zero" -> ZeroValue(p.ty)
         [] p.k = "wrap" -> InShape(Sub(1), p.ty)
         [] p.k = "tag" -> TaggedIn(Sub(1), p.ty)
         [] p.k = "struct" -> VStruct(p.names, [i \in DOMAIN p.a |-> Sub(i)])
         [] p.k = "tstruct" -> VStruct(p.ty.names, [i \in DOMAIN p.a |-> Sub(i)])
         [] p.k = "sfield" -> FieldOf(Sub(1), p.f)
         [] p.k = "ofield" -> Get(w, Sub(1), p.f)
         [] p.k = "eq" -> IF Sub(1).v # "int" THEN VUndef ELSE Bool(Sub(1).i = p.c)
         [] p.k = "nulls" -> IF \E i \in DOMAIN p.a : Sub(i).v = "undef" THEN VUndef
                             ELSE Bool(\A i \in DOMAIN p.a : (Sub(i) = VNull) = p.nulls[i])
         [] p.k = "disc" -> IF Sub(1).v = "obj" THEN VInt(Discriminators[w.heap[Sub(1).id].cls]) ELSE VUndef
         [] p.k = "addr" -> [v |-> "addr", o |-> EvalParam(p.a[1].a[1], env, w, globals), f |-> p.a[1].f]
         [] p.k = "offset" -> [v |-> "offset", f |-> p.f]
         [] p.k = "fn" -> VFun(p.fn, IF p.a = <<>> THEN VNull ELSE Sub(1))
         [] p.k = "invoke" /\ p.rt \in TaskTests -> TaskTest(p.rt, Sub(1), w)
         [] p.k = "invoke" /\ p.rt = "object_resolve" -> Live(w, Sub(1))
         [] p.k = "invoke" /\ p.rt \notin TaskTests \cup {"object_resolve"} -> Pure(p.rt, [i \in DOMAIN p.a |-> Sub(i)])
         [] OTHER -> VUndef

\* Writing to a place.  A store without a barrier hides what it stores from the collector, unless the
\* object is young: then the collector has not looked at it, and will find what it holds.
Hidden(val) == IF val.v \in {"obj", "fun"} THEN VUndef ELSE val
Kept(t, val, o, young) == IF t.fresh /\ o.id \notin young THEN Hidden(val) ELSE val
StoreInto(t, val, env, w, o, m) ==
    [env |-> env, w |-> Put(w, o, t.f, IF m.when.gc /\ o.v = "obj" THEN Kept(t, val, o, m.young) ELSE val)]
Store(t, val, env, w, m) ==
    CASE IsVar(t) -> [env |-> (t.n :> val) @@ env, w |-> w]
      [] t.k = "ofield" -> StoreInto(t, val, env, w, EvalParam(t.a[1], env, w, <<>>), m)
      [] OTHER -> [env |-> env, w |-> w]

\* A machine that has not begun.
Frame(fn, env) == [fn |-> fn, pc |-> 1, block |-> Entry, env |-> env]
Top(m) == Last(m.stack)
Running == [v |-> "running"]
Plain(m) == m.when = InOrderOfCode
Idle(app, when) ==
    [app |-> app, stack |-> <<>>, w |-> World0, v |-> Running, when |-> when, ready |-> <<>>, out |-> <<>>,
     young |-> {}]

\* A machine with a value for the operation that waits for one, or with none.
Nothing == [v |-> "nothing"]
With(m, val) == [m |-> m, val |-> val]
StoredTo(m, f, s) == [m EXCEPT !.w = s.w, !.stack = Append(Front(@), [f EXCEPT !.env = s.env, !.pc = @ + 1])]
\* A call that is deferred, while functions still return their results as they are, gives a value in
\* the shape that its await takes apart.
DeliverTo(m, f, op, val) ==
    StoredTo(m, f, IF op.t = None THEN [env |-> f.env, w |-> m.w]
                   ELSE Store(op.t, IF Is(op, "call") /\ op.deferred /\ Plain(m) THEN InShape(val, op.t.ty) ELSE val,
                              f.env, m.w, m))
Deliver(r) ==
    CASE r.val = Nothing -> r.m
      [] r.val # Nothing /\ r.m.stack = <<>> -> [r.m EXCEPT !.v = IF @ = Running THEN r.val ELSE @]
      [] OTHER -> DeliverTo(r.m, Top(r.m), r.m.app[Top(r.m).fn].ops[Top(r.m).pc], r.val)

\* The gate of a deferred binding, run by one thread: its flag says who waits for the value.
Unit == VStruct(<<>>, <<>>)
Held(waiters) == [v |-> "held", waiters |-> waiters]
Acquire(m, flag, o, f) ==
    LET task == NewId(m.w)
    IN CASE flag.v = "held" ->
              With(WithWorld(m, Put(AllocTask(m.w, BaseTask), o, f, Held(Append(flag.waiters, task)))), Tagged(task))
         [] flag = VNull -> With(WithWorld(m, Put(m.w, o, f, Held(<<>>))), VNull)
         [] OTHER -> With(m, VNull)
Release(m, flag, o, f) ==
    LET woken == FoldLeft(LAMBDA n, task : Complete(n, task), m, flag.waiters)
    IN With(WithWorld(woken, Put(woken.w, o, f, FlagComplete)), VNull)

\* What a [future] function asks first: to go on once its continuation is registered, or at once when
\* the pool takes no work.
FutureYield(m) ==
    IF Plain(m) \/ ~AnswersLater(m) THEN With(m, VNull)
    ELSE With(WithWorld(m, Put(AllocTask(m.w, BaseTask), NewId(m.w), <<"state">>, Yielded)), Tagged(NewId(m.w)))

\* The outside: it answers at once, or with a task that is complete when the answer comes.
Later(m, asked, answer) ==
    With([m EXCEPT !.out = Append(@, [task |-> NewId(asked), answer |-> answer]),
                   !.w = AllocTask(asked, TaskSubtype(TInt))],
         TaggedIn(NewId(asked), TWrap(TInt)))
AskOutside(m, asked, answer) ==
    IF Plain(m) THEN With(WithWorld(m, asked), answer)
    ELSE IF AnswersLater(m) THEN Later(m, asked, answer)
    ELSE With(WithWorld(m, asked), InShape(answer, TWrap(TInt)))

\* Call a function value: a function of this program, or the outside.
Enters(m, f, ps, args) ==
    LET Arg(i) == IF i = 1 THEN f.self ELSE IF i - 1 \in DOMAIN args THEN args[i - 1] ELSE VUndef
    IN [m EXCEPT !.stack = Append(@, Frame(f.fn, [n \in {ps[i].n : i \in DOMAIN ps} |->
                                                    Arg(CHOOSE i \in DOMAIN ps : ps[i].n = n)]))]
Invoke(m, f, args, oracle) ==
    CASE f.v # "fun" -> With(m, VUndef)
      [] f.v = "fun" /\ f.fn = <<"ext", "lazy_acquire">> ->
           Acquire(m, Get(m.w, args[1].o, args[1].f), args[1].o, args[1].f)
      [] f.v = "fun" /\ f.fn = <<"ext", "lazy_release">> ->
           Release(m, Get(m.w, args[1].o, args[1].f), args[1].o, args[1].f)
      [] f.v = "fun" /\ f.fn = <<"ext", "future_yield">> -> FutureYield(m)
      [] f.v = "fun" /\ f.fn \in DOMAIN m.app -> With(Enters(m, f, m.app[f.fn].params, args), Nothing)
      [] OTHER -> AskOutside(Asking(m), Asked(Asking(m).w, f.fn, args), AnswerOf(args, oracle))

(* One operation of the code, in the frame f, over what its operands are worth. *)
Writing == TaskEffects \cup {"object_pin_set"}
Operands(op) ==
    CASE Is(op, "move") /\ op.s.k = "invoke" /\ op.s.rt \in Writing -> op.s.a
      [] Is(op, "await") -> <<UnwrapValue(op.s, op.t.ty)>>
      [] OTHER -> Sources(op)
\* Into the block whose label is at i: its phis at once, then what follows them.
PhisFrom(ops, i) == {j \in i + 1 .. Len(ops) : \A h \in i + 1 .. j : Is(ops[h], "phi")}
AtLabel(f, ops, i, phis, w) ==
    LET From(n) == SourceFor(ops[CHOOSE j \in phis : ops[j].t.n = n], f.block)
        now == [n \in {ops[j].t.n : j \in phis} |-> EvalParam(From(n), f.env, w, <<>>)]
    IN [f EXCEPT !.env = now @@ @, !.block = ops[i].n, !.pc = i + 1 + Cardinality(phis)]
\* The label control goes to; none when it does not jump.
GoesTo(op, vals) ==
    CASE op.o \in {"label", "jump"} -> op.n
      [] Is(op, "jumpif") -> IF Truth(vals[1]) # op.invert THEN op.n ELSE Entry
      [] Is(op, "iftask") -> IF Truth(vals[1]) THEN op.n ELSE Entry
      [] Is(op, "switch") ->
           LET i == SelectInSeq(op.cases, LAMBDA c : vals[1] = VInt(c[1])) IN IF i = 0 THEN Entry ELSE op.cases[i][2]
      [] OTHER -> Entry
Replaced(m, f) == [m EXCEPT !.stack = Append(Front(@), f)]
Popped(m) == [m EXCEPT !.stack = Front(@)]
Guarded(f, op, vals) ==
    IF Is(op, "iftask") THEN [f EXCEPT !.env = (op.t.n :> Untag(vals[2])) @@ (op.idt.n :> VInt(op.id)) @@ @] ELSE f
Jumped(m, f, ops, i) == With(Replaced(m, AtLabel(f, ops, i, PhisFrom(ops, i), m.w)), Nothing)
\* A late pin writes to the live copy; the collector moves what is about to be pinned, so that there
\* is an old one.
PinSetIn(m, w, o, args) ==
    IF Get(w, o, args[2].f) = VNull THEN With(WithWorld(m, Put(w, o, args[2].f, args[3])), VNull)
    ELSE With(WithWorld(m, w), Get(w, o, args[2].f))
PinSetInto(m, args) ==
    IF m.when.gc /\ args[1].v = "obj"
    THEN PinSetIn(m, Relocated(m.w, Live(m.w, args[1])), NewId(m.w), args)
    ELSE PinSetIn(m, m.w, args[1], args)
Moved(m, op, vals) ==
    CASE op.s.k = "invoke" /\ op.s.rt = "object_pin_set" -> PinSetInto(m, vals)
      [] op.s.k = "invoke" /\ op.s.rt \in TaskEffects ->
           With(TaskEffect(m, op.s.rt, vals), IF op.s.rt \in TaskMakers THEN NewId(m.w) ELSE VNull)
      [] OTHER -> With(m, vals[1])
Lost(m) == With(Popped(m), VUndef)
\* The objects allocated since the last safe point, and published nowhere.
RECURSIVE Within(_)
Within(val) ==
    CASE val.v = "obj" -> {val.id}
      [] val.v = "struct" -> UNION {Within(val.vals[i]) : i \in DOMAIN val.vals}
      [] val.v = "fun" -> Within(val.self)
      [] OTHER -> {}
Calls(op) == \/ op.o \in {"call", "await", "ret"}
             \/ \E i \in DOMAIN AllParams(op) : AllParams(op)[i].k = "invoke"
YoungAfter(m, op, vals) ==
    CASE Is(op, "new") -> {NewId(m.w).id}
      [] ~Is(op, "new") /\ Calls(op) -> {}
      [] Is(op, "move") /\ ~Calls(op) /\ ~IsVar(op.t) -> m.young \ Within(vals[1])
      [] OTHER -> m.young
Aged(m, op, vals) == IF m.when.gc THEN [m EXCEPT !.young = YoungAfter(m, op, vals)] ELSE m
Perform(m, f, op, vals, oracle) ==
    CASE Is(op, "move") -> Moved(m, op, vals)
      [] Is(op, "await") -> With(m, vals[1])
      [] Is(op, "new") -> With(WithWorld(m, Alloc(m.w, op.cls)), NewId(m.w))
      [] Is(op, "call") -> Invoke(IF op.musttail THEN Popped(m) ELSE m, vals[1],
                                  IF vals[2].v = "struct" THEN vals[2].vals ELSE <<>>, oracle)
      [] Is(op, "ret") -> With(Popped(m), vals[1])
      [] Is(op, "assert") /\ ~Truth(vals[1]) -> With(Replaced(m, [f EXCEPT !.pc = @ + 1]), Nothing)
      [] op.o \in {"jumpif", "iftask"} -> With(Replaced(m, [f EXCEPT !.pc = @ + 1]), Nothing)
      [] OTHER -> Lost(m)
StepTo(m, f, op, vals, to, oracle) ==
    IF to = Entry THEN Perform(m, f, op, vals, oracle)
    ELSE Jumped(m, Guarded(f, op, vals), m.app[f.fn].ops, LabelAt(m.app[f.fn].ops, to))
StepOn(m, f, op, vals, oracle) == StepTo(Aged(m, op, vals), f, op, vals, GoesTo(op, vals), oracle)
StepCode(m, f, op, oracle) ==
    StepOn(m, f, op, [i \in DOMAIN Operands(op) |-> EvalParam(Operands(op)[i], f.env, m.w, <<>>)], oracle)
StepIn(m, f, oracle) ==
    IF f.pc > Len(m.app[f.fn].ops) THEN Lost(m) ELSE StepCode(m, f, m.app[f.fn].ops[f.pc], oracle)

\* Once no code runs: a continuation that is ready, or else the next answer of the outside.
Continue(m, next, oracle) == Invoke([m EXCEPT !.ready = Tail(@)], next.run, <<next.task>>, oracle)
Step(m, oracle) ==
    IF m.stack # <<>> THEN Deliver(StepIn(m, Top(m), oracle))
    ELSE IF m.ready # <<>> THEN Deliver(Continue(m, Head(m.ready), oracle)) ELSE NextAnswer(m)
Over(m) == m.stack = <<>> /\ m.ready = <<>> /\ m.out = <<>>

\* At most 2^k operations, by halves.
RECURSIVE Steps(_, _, _)
Steps(m, oracle, k) ==
    IF Over(m) THEN m
    ELSE IF k = 0 THEN Step(m, oracle) ELSE Steps(Steps(m, oracle, k - 1), oracle, k - 1)
StepsLog2 == 12

Finished(m) == Observed(m.w, IF Plain(m) THEN m.v ELSE Settled(m.w, m.v, WrapReturnType(TInt)))
Outcome(app, main, args, oracle, when) ==
    Finished(Steps(Deliver(Invoke(Idle(app, when), VFun(main, VNull), args, oracle)), oracle, StepsLog2))
====
