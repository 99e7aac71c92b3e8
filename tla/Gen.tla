---- MODULE Gen ----
(* Code generation: the generate methods of the expressions and statements of pyast, from the tree
   of a function to its operations.

   A bundle holds the locals it declares, its operations, the parameter its value is read from
   (None when it has none), and the exits on their way up: the back edges of the loop around it
   and the returns of the block around it, each the label it leaves from and what it carries. *)
EXTENDS Lang

CONSTANT Order     \* the order in which -O0 runs the entries of a tuple: length -> permutation

Bundle(vars, ops, res) == [vars |-> vars, ops |-> ops, res |-> res, recurs |-> <<>>, exits |-> <<>>]
NoCode == Bundle(<<>>, <<>>, None)
Value(p) == Bundle(<<>>, <<>>, p)
Code(ops) == Bundle(<<>>, ops, None)

\* A name with an '@' and "this" are left alone by prefixes.
Qualified(n) == n[1] = "@" \/ n = This
Prefix(b, part) ==
    LET names == Names(ToSet(b.vars)) \cup {op.n : op \in {o \in ToSet(b.ops) : Is(o, "label")}}
        ren == [n \in {m \in names : ~Qualified(m)} |-> <<part>> \o n]
    IN [b EXCEPT !.vars = [i \in DOMAIN @ |-> RenameVars(@[i], ren)],
                 !.ops = [i \in DOMAIN @ |-> RenameOp(@[i], ren)],
                 !.res = RenameVars(@, ren)]
Then(a, b) == [vars |-> a.vars \o b.vars, ops |-> a.ops \o b.ops, res |-> b.res,
               recurs |-> a.recurs \o b.recurs, exits |-> a.exits \o b.exits]
RECURSIVE InOrder(_)
InOrder(bs) ==
    LET n == Len(bs)
    IN IF n = 0 THEN NoCode ELSE IF n = 1 THEN bs[1]
       ELSE Then(InOrder(SubSeq(bs, 1, n \div 2)), InOrder(SubSeq(bs, n \div 2 + 1, n)))
\* Control does not come out of the end of a bundle.
Bottom(b) == b.ops # <<>> /\ ~FallsThrough(Last(b.ops))

Local(n, ty) == Var(<<n>>, ty)
At(part, i) == part \o ToString(i - 1)
\* A name made from a tag that holds an '@'.
From(kind, tag) == <<"@", kind>> \o Tail(tag)
FromNth(kind, tag, k) == Append(From(kind, tag), ToString(k))

RECURSIVE Generate(_, _), GenerateStatement(_, _), GenerateStatements(_, _, _)

(* Expressions.  rc is what the resolver carries down: the functions of the program, the frame of
   the loop and of the block around the expression, and the optimisation level. *)
InTuple(parts, rc) ==
    LET order == IF rc.level = 0 THEN Order[Len(parts)] ELSE [i \in DOMAIN parts |-> i]
    IN Then(InOrder([i \in DOMAIN parts |-> parts[order[i]]]),
            Value(NewStruct([i \in DOMAIN parts |-> At("_", i)], [i \in DOMAIN parts |-> parts[i].res])))
Tuple(xs, rc) == InTuple([i \in DOMAIN xs |-> Prefix(Generate(xs[i], rc), At("e", i))], rc)

TernaryCode_Direct(x, cond, true, false) ==
    LET result == Local("result", x.ty)
    IN InOrder(<<cond, Code(<<Label(<<"C_exit">>), JumpIf(<<"join">>, cond.res), Label(<<"F_branch">>)>>), false,
                 Bundle(<<result>>,
                        <<Label(<<"F_exit">>), Label(<<"join">>),
                          Phi(result, <<<<<<"C_exit">>, true.res>>, <<<<"F_exit">>, false.res>>>>)>>,
                        result)>>)
TernaryCode(x, cond, true, false) ==
    LET head == Then(cond, Code(<<JumpIf(<<"T_branch">>, cond.res), Label(<<"F_branch">>)>>))
        result == Local("result", x.ty)
    IN CASE Bottom(false) ->
              InOrder(<<head, false, Code(<<Label(<<"T_branch">>)>>), true>>)
         [] ~Bottom(false) /\ Bottom(true) ->
              InOrder(<<head, false, Code(<<Jump(<<"join">>), Label(<<"T_branch">>)>>), true,
                        Bundle(<<>>, <<Label(<<"join">>)>>, false.res)>>)
         [] OTHER ->
              InOrder(<<head, false,
                        Code(<<Label(<<"F_exit">>), Jump(<<"join">>), Label(<<"T_branch">>)>>), true,
                        Bundle(<<result>>,
                               <<Label(<<"T_exit">>), Label(<<"join">>),
                                 Phi(result, <<<<<<"F_exit">>, false.res>>, <<<<"T_exit">>, true.res>>>>)>>,
                               result)>>)

CallCode(x, fn, args) ==
    LET result == Local("result", x.ty)
    IN InOrder(<<fn, args, Bundle(<<result>>, <<Call(fn.res, args.res, result, x.ty)>>, result)>>)

NewCode(x, args) ==
    LET params == Local("params", TypeOf(args.res))
        result == Local("result", TPtr)
        Set(i) == Move(FreshField(result, x.cls, x.fs[i], params.ty.types[i]),
                       StructField(params, At("_", i)))
    IN Then(args, Bundle(<<params, result>>,
                         <<Move(params, args.res), NewObject(x.cls, result)>>
                           \o [i \in DOMAIN x.fs |-> Set(i)],
                         result))

\* The answer is kept when it goes unread: the call is the store.
PinSetCode(x, obj, val) ==
    LET old == Local("psold", x.ty)
        set == RuntimeInvoke("object_pin_set", <<obj.res, FieldOffset(x.cls, x.f), val.res>>, x.ty)
    IN InOrder(<<obj, val, Bundle(<<old>>, <<KeptMove(old, set)>>, old)>>)

\* A back edge: the arguments are evaluated into fresh variables, then control leaves for the head.
RecurCode(x, args, rc) ==
    LET tag == rc.loop.tag
        Input(i) == Var(Append(FromNth("phiin", tag, x.k), ToString(i - 1)), rc.loop.types[i])
        Arg(i) == Then(args[i], Bundle(<<Input(i)>>, <<Move(Input(i), args[i].res)>>, None))
        exit == FromNth("recurexit", tag, x.k)
    IN [Then(InOrder([i \in DOMAIN args |-> Arg(i)]), Code(<<Label(exit), Jump(From("loophead", tag))>>))
          EXCEPT !.recurs = Append(@, <<exit, [i \in DOMAIN args |-> Input(i)]>>), !.exits = <<>>]

\* The parameters become variables the head of the loop defines, by a phi over its entry and its
\* back edges.
LoopTag(x) == IF Len(x.a) = 1 THEN <<"@", "loop">> ELSE x.a[1].n
LoopCode(x, param, body) ==
    LET ps == Front(x.a)
        tag == LoopTag(x)
        ren == [n \in {ps[i].n : i \in DOMAIN ps} |-> From("loopvar", n)]
        var(i) == RenameVars(param[i], ren)
        entry == From("loopentry", tag)
        phi(i) == Phi(var(i), <<<<entry, param[i]>>>>
                                \o [j \in DOMAIN body.recurs |-> <<body.recurs[j][1], body.recurs[j][2][i]>>])
    IN Bundle([i \in DOMAIN ps |-> var(i)] \o [i \in DOMAIN body.vars |-> RenameVars(body.vars[i], ren)],
              <<Label(entry), Label(From("loophead", tag))>> \o [i \in DOMAIN ps |-> phi(i)]
                \o [i \in DOMAIN body.ops |-> RenameOp(body.ops[i], ren)],
              RenameVars(body.res, ren))

(* Deferred bindings: the stub, what fills it, and the read that forces it (lowering/lazy_thunks). *)
Mangle(ty) == IF ty.t = "nonnull" THEN "ptr" ELSE ty.t
StubClass(ty) == <<"Lazy$", Mangle(ty)>>
FetchName(ty) == <<"lazy_fetch", Mangle(ty)>>
LazyAlloc(s) ==
    LET stub == Var(s.n, TPtr)
    IN Bundle(<<stub>>,
              <<NewObject(StubClass(s.ty), stub),
                Move(FreshField(stub, StubClass(s.ty), <<"flag">>, TPtr), NullPointer),
                Move(FreshField(stub, StubClass(s.ty), <<"closure">>, TFun(FALSE)), ZeroOf(TFun(FALSE)))>>,
              None)
LazyPopulate(s, closure) ==
    Then(closure, Code(<<Move(ObjectField(Var(s.n, TPtr), StubClass(s.ty), <<"closure">>, TFun(FALSE)),
                              closure.res)>>))
\* Inside a lifted lambda the stub is a field of the closure; a capture takes the stub itself.
LazyRead(x) ==
    LET stub == IF x.cls = <<>> THEN Var(x.n, TPtr) ELSE ObjectField(Var(This, TPtr), x.cls, x.n, TPtr)
        result == Local("$force_result", x.ty)
    IN IF x.stub THEN Value(stub)
       ELSE Bundle(<<result>>, <<Call(GlobalFunction(FetchName(x.ty), stub, FALSE), NewStruct(<<>>, <<>>), result, x.ty)>>,
                   result)
FetchFunction(ty) ==
    LET this == Var(This, TPtr)
        closure == Local("closure", TFun(FALSE))
        value == Local("value", ty)
        field(f, t) == ObjectField(this, StubClass(ty), f, t)
        complete == RuntimeInvoke("lazy_global_init_complete", <<field(<<"flag">>, TPtr)>>, TInt)
        gate(fn, r) == Call(GlobalFunction(<<"ext", fn>>, None, fn = "lazy_release"),
                            NewStruct(<<"flag">>, <<PointerTo(field(<<"flag">>, TPtr))>>), Local(r, TUnit), TUnit)
    IN Function(FetchName(ty), <<this>>, ty,
                {closure, value, Local("acquired", TUnit), Local("released", TUnit)},
                <<JumpIf(<<"$done">>, complete), gate("lazy_acquire", "acquired"),
                  JumpIf(<<"$done">>, complete), Move(closure, field(<<"closure">>, TFun(FALSE))),
                  Call(closure, NewStruct(<<>>, <<>>), value, ty), Move(field(<<"value">>, ty), value),
                  Move(field(<<"closure">>, TFun(FALSE)), ZeroOf(TFun(FALSE))),
                  gate("lazy_release", "released"), Label(<<"$done">>), Return(field(<<"value">>, ty))>>)

(* Blocks.  A block with returns joins its value and theirs at its end label. *)
RECURSIVE Diverges(_)
Diverges(s) ==
    \/ s.e = "return"
    \/ /\ s.e = "if"
       /\ \A branch \in {2, 3} : \E i \in DOMAIN s.a[branch].a : Diverges(s.a[branch].a[i])
FallsOff(ss) == \A i \in DOMAIN ss : ~Diverges(ss[i])

WithReturns(x, stmts, value) ==
    LET falls == FallsOff(Statements(x))
        val == IF falls THEN value ELSE Code(<<Abort>>)
        reaches == falls /\ ~Bottom(val)
        all == Then(stmts, val)
        ftExit == From("blockftexit", x.tag)
        result == Var(From("blockresult", x.tag), x.ty)
        sources == all.exits \o (IF reaches THEN <<<<ftExit, val.res>>>> ELSE <<>>)
        end == (IF reaches THEN <<Label(ftExit)>> ELSE <<>>)
                 \o <<Label(From("blockend", x.tag)), Phi(result, sources)>>
    IN [Bundle(Append(all.vars, result), all.ops \o end, result) EXCEPT !.recurs = all.recurs]
\* The stubs of the deferred bindings are allocated on entry, so that code before the binding can
\* hold them; the binding itself only fills in the closure.
BlockCode(x, stmts, value) ==
    LET ss == Statements(x)
        alloc(i) == IF ss[i].e = "let" /\ ss[i].lazy THEN Prefix(LazyAlloc(ss[i]), At("alloc_s", i)) ELSE NoCode
        stubs == InOrder([i \in DOMAIN ss |-> alloc(i)])
    IN IF stmts.exits = <<>> THEN InOrder(<<stubs, stmts, value>>)
       ELSE WithReturns(x, Then(stubs, stmts), value)

GenerateLoop(x, param, rc) ==
    LET frame == [tag |-> LoopTag(x), types |-> [i \in DOMAIN param |-> TypeOf(param[i])]]
    IN LoopCode(x, param, Generate(Last(x.a), [rc EXCEPT !.loop = frame]))
GenerateBlock(x, rc) == BlockCode(x, GenerateStatements(Statements(x), "s", rc), Generate(ValueOf(x), rc))
OfBase(x, base) ==
    Then(base, Value(CASE x.e = "item" -> StructField(base.res, At("_", x.i + 1))
                       [] x.e = "dot" -> ObjectField(base.res, x.cls, x.f, x.ty)
                       [] x.e = "leaf" -> IntEqConst(VtableDiscriminator(base.res), x.id)
                       [] x.e = "method" -> GlobalFunction(x.fn, base.res, FALSE)))
Operate(x, args) == Then(args, Value(RuntimeInvoke(x.op, args.res.a, x.ty)))

\* The kinds of expression whose code holds the code of the expressions in them, each under a name.
GenerateOver(x, sub, args, rc) ==
    CASE x.e = "ternary" -> TernaryCode(x, Prefix(sub[1], "cond"), Prefix(sub[2], "T"), Prefix(sub[3], "F"))
      [] x.e = "call" -> CallCode(x, Prefix(sub[1], "fn"), Prefix(args, "args"))
      [] x.e = "new" -> NewCode(x, Prefix(args, "args"))
      [] x.e = "pinset" -> PinSetCode(x, Prefix(sub[1], "psobj"), Prefix(sub[2], "psval"))
      [] x.e = "recur" -> RecurCode(x, [i \in DOMAIN sub |-> Prefix(sub[i], At("recur", i))], rc)
      [] x.e = "tuple" -> args
      [] x.e = "op" -> Operate(x, args)
      [] x.e \in {"item", "dot", "leaf", "method"} -> OfBase(x, sub[1])
Generate(x, rc) ==
    CASE x.e = "lit" -> Value(Integer(x.i))
      [] x.e = "named" -> Value(IF x.n \in rc.functions \/ IsExternal(x.n)
                                THEN GlobalFunction(x.n, None, FALSE) ELSE Var(x.n, x.ty))
      [] x.e = "lazy" -> LazyRead(x)
      [] x.e = "loop" -> GenerateLoop(x, [i \in 1 .. Len(x.a) - 1 |-> Generate(x.a[i], rc).res], rc)
      [] x.e = "block" -> GenerateBlock(x, [rc EXCEPT !.block = x.tag])
      [] OTHER -> GenerateOver(x, [i \in DOMAIN x.a |-> Generate(x.a[i], rc)],
                               Tuple(IF x.e = "call" THEN Tail(x.a) ELSE x.a, rc), rc)

(* Statements. *)
GenerateStatements(ss, part, rc) ==
    InOrder([i \in DOMAIN ss |-> Prefix(GenerateStatement(ss[i], rc), At(part, i))])

ReturnCode(s, val, rc) ==
    LET exit == FromNth("blockexit", rc.block, s.k)
        carried == Var(FromNth("blockval", rc.block, s.k), TypeOf(val.res))
    IN IF Bottom(val) THEN [val EXCEPT !.res = None]
       ELSE [Then(val, Bundle(<<carried>>, <<Move(carried, val.res), Label(exit),
                                             Jump(From("blockend", rc.block))>>, None))
               EXCEPT !.exits = Append(@, <<exit, carried>>)]

IfCode(cond, then, else) ==
    InOrder(<<cond, Code(<<JumpIf(<<"T_branch">>, cond.res), Label(<<"F_branch">>)>>), else,
              Code(<<Jump(<<"if_end">>), Label(<<"T_branch">>)>>), then,
              Code(<<Label(<<"if_end">>)>>)>>)

\* A destructuring binding: the slot, then a variable for each of its fields.
DestructureCode(s, val) ==
    LET slot == Var(s.n, TTuple([i \in DOMAIN s.targets |-> s.targets[i].ty]))
        target(i) == Var(s.targets[i].n, s.targets[i].ty)
    IN Then(val, Bundle(<<slot>> \o [i \in DOMAIN s.targets |-> target(i)],
                        <<Move(slot, val.res)>>
                          \o [i \in DOMAIN s.targets |-> Move(target(i), StructField(slot, At("_", i)))],
                        None))

LetCode(s, val) == Then(val, Bundle(<<Var(s.n, s.ty)>>, <<Move(Var(s.n, s.ty), val.res)>>, None))
AssignCode(s, obj, val) ==
    InOrder(<<obj, val, Code(<<Move(ObjectField(obj.res, s.cls, s.f, s.ty), val.res)>>)>>)
StatementOver(s, sub, rc) ==
    CASE s.e = "let" /\ ~s.lazy -> LetCode(s, Prefix(sub[1], "expr"))
      [] s.e = "let" /\ s.lazy -> LazyPopulate(s, Prefix(sub[1], "closure"))
      [] s.e = "destructure" -> DestructureCode(s, Prefix(sub[1], "expr"))
      [] s.e = "action" -> sub[1]
      [] s.e = "return" -> ReturnCode(s, sub[1], rc)
      [] s.e = "assign" -> AssignCode(s, sub[1], Prefix(sub[2], "fas"))
GenerateStatement(s, rc) ==
    IF s.e = "if"
    THEN IfCode(Prefix(Generate(s.a[1], rc), "cond"), GenerateStatements(s.a[2].a, "Ts", rc),
                GenerateStatements(s.a[3].a, "Fs", rc))
    ELSE StatementOver(s, [i \in DOMAIN s.a |-> Generate(s.a[i], rc)], rc)

\* A function: its own tail is the only one to return.
Returning(body) == Then(body, Code(<<Return(body.res)>>))
AsFunction(fn, b) ==
    [Function(fn.n, <<Var(This, TPtr)>> \o [i \in DOMAIN fn.ps |-> Var(fn.ps[i].n, fn.ps[i].ty)],
              fn.rty, ToSet(b.vars), b.ops)
       EXCEPT !.future = "future" \in fn.attrs, !.inline = IF "never" \in fn.attrs THEN "never" ELSE "auto"]
GlobalCodegen(fn, functions, level) ==
    LET rc == [functions |-> functions, loop |-> [tag |-> <<>>, types |-> <<>>], block |-> <<>>, level |-> level]
    IN AsFunction(fn, Prefix(Returning(Generate(BodyOf(fn), rc)), "body"))

\* The application: the functions of the program, and the fetch of every type a stub is made for.
GenerateProgram(prog, level) ==
    LET lazies == {x.ty : x \in {y \in UNION {NodeSet(prog[n]) : n \in DOMAIN prog} : y.e = "lazy"}}
    IN [n \in DOMAIN prog \cup {FetchName(ty) : ty \in lazies} |->
          IF n \in DOMAIN prog THEN GlobalCodegen(prog[n], DOMAIN prog, level)
          ELSE FetchFunction(CHOOSE ty \in lazies : FetchName(ty) = n)]
====
