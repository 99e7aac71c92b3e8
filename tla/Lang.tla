---- MODULE Lang ----
(* The source language once its types are known: the expressions of pyast/expression and the
   statements of pyast/statement that reach code generation, as trees, and what they mean.

   A node has its class in "e" and the nodes it is built from in "a", in the order
   search_and_replace visits them.  Names are paths, as in Ir: a converged name holds an '@'.
   Ev and Run are the reference the compiled code is compared with; they are the meaning the
   language gives, not code of the compiler. *)
EXTENDS Ir, Meaning

TUnit == TStruct(<<>>, <<>>)
TTuple(types) == TStruct([i \in DOMAIN types |-> "_" \o ToString(i - 1)], types)
TCallable(types, result) == [t |-> "fun", sync |-> FALSE, ps |-> types, r |-> result]

(* Expressions. *)
Lit(i) == [e |-> "lit", a |-> <<>>, i |-> i]
Named(n, ty) == [e |-> "named", a |-> <<>>, n |-> n, ty |-> ty, linear |-> FALSE]
TupleExpr(xs) == [e |-> "tuple", a |-> xs]
Item(x, i) == [e |-> "item", a |-> <<x>>, i |-> i]
\* A field of an object, and a method of one as a value.
Dot(x, cls, f, ty) == [e |-> "dot", a |-> <<x>>, cls |-> cls, f |-> f, ty |-> ty]
Method(x, fn) == [e |-> "method", a |-> <<x>>, fn |-> fn]
\* Whether a value of an enum is of one variant, whose number is id.
LeafTest(x, cls, id) == [e |-> "leaf", a |-> <<x>>, cls |-> cls, id |-> id]
New(cls, fs, xs) == [e |-> "new", a |-> xs, cls |-> cls, fs |-> fs]
Ternary(c, t, f, ty) == [e |-> "ternary", a |-> <<c, t, f>>, ty |-> ty]
CallOf(fn, xs, ty) == [e |-> "call", a |-> <<fn>> \o xs, ty |-> ty]
BuiltinOp(op, xs, ty) == [e |-> "op", a |-> xs, op |-> op, ty |-> ty]
PinSet(x, v, cls, f, ty) == [e |-> "pinset", a |-> <<x, v>>, cls |-> cls, f |-> f, ty |-> ty]
\* "id" is the place in the source, which copies of a lambda share.
Lambda(ps, x, ty, id) == [e |-> "lambda", a |-> <<x>>, ps |-> ps, ty |-> ty, id |-> id]
Block(ss, x, ty) == [e |-> "block", a |-> Append(ss, x), ty |-> ty, tag |-> <<>>]
\* Only lowering makes these: a loop over its parameters, the jump back to its head, and a read of a
\* deferred binding through its stub, or of the stub itself.
Loop(x, ps) == [e |-> "loop", a |-> ps \o <<x>>]
Recur(xs, k) == [e |-> "recur", a |-> xs, k |-> k]
Lazy(n, ty) == [e |-> "lazy", a |-> <<>>, n |-> n, ty |-> ty, cls |-> <<>>, stub |-> FALSE]

(* Statements. *)
\* A [lazy] binding holds its expression and, once lowered, the closure that computes it.
Let(n, ty, x) == [e |-> "let", a |-> <<x>>, n |-> n, ty |-> ty, lazy |-> FALSE, thunk |-> FALSE]
LazyLet(n, ty, x) == [Let(n, ty, x) EXCEPT !.lazy = TRUE]
\* let (n1, n2, ..) = x: the slot and the names with their types.
Destructure(n, targets, x) == [e |-> "destructure", a |-> <<x>>, n |-> n, targets |-> targets]
Action(x) == [e |-> "action", a |-> <<x>>]
Ret(x) == [e |-> "return", a |-> <<x>>, k |-> <<>>]
Seq0(ss) == [e |-> "seq", a |-> ss]
IfThen(c, ts, fs) == [e |-> "if", a |-> <<c, Seq0(ts), Seq0(fs)>>]
FieldAssign(x, v, cls, f, ty) == [e |-> "assign", a |-> <<x, v>>, cls |-> cls, f |-> f, ty |-> ty]
\* A function: its parameters (as references), its body and its attributes ("member" for a method).
\* Nested functions are statements; a program maps names to its functions.
Fun(n, ps, x, rty, attrs) ==
    [e |-> "fun", a |-> <<x>>, n |-> n, ps |-> ps, rty |-> rty, attrs |-> attrs]

This == <<"this">>
Statements(block) == Front(block.a)
ValueOf(block) == Last(block.a)
IsBlock(x) == x.e = "block"
NamesOf(ps) == [i \in DOMAIN ps |-> ps[i].n]
TypeOfFun(f) == TCallable([i \in DOMAIN f.ps |-> f.ps[i].ty], f.rty)
BodyOf(f) == f.a[1]
\* Every node of a tree, in the order a bottom-up walk meets them.
RECURSIVE Nodes(_)
Nodes(x) == Concat([i \in DOMAIN x.a |-> Nodes(x.a[i])]) \o <<x>>
NodeSet(x) == ToSet(Nodes(x))
\* The external functions: names no program defines.
IsExternal(n) == n[1] = "ext"

(* Meaning.  A result is a value, the world after, and how evaluation left: "go" with the value,
   "return" to the end of the nearest block, or "recur" to the head of the nearest loop.  A function
   value is a function of the program with its receiver, or a closure: code with its variables.
   A deferred binding is a thunk on the heap, which holds the closure and, once forced, the value. *)
R(v, w, out) == [v |-> v, w |-> w, out |-> out]
Bind(env, names, vals) == [n \in ToSet(names) |->
                             vals[CHOOSE i \in DOMAIN names : names[i] = n]] @@ env
\* A closure that a binding names can call itself by that name.
Closure(ps, body, env) == [v |-> "closure", ps |-> NamesOf(ps), body |-> body, env |-> env, rec |-> {}]

RECURSIVE Ev(_, _, _, _, _), EvAll(_, _, _, _, _), Run(_, _, _, _, _), Apply(_, _, _, _, _),
          LoopFrom(_, _, _, _, _, _), Force(_, _, _, _)
\* Expressions left to right; "v" of the result is the sequence of their values.
EvAll(xs, env, w, prog, oracle) ==
    IF xs = <<>> THEN R(<<>>, w, "go")
    ELSE LET first == Ev(Head(xs), env, w, prog, oracle)
         IN IF first.out # "go" THEN first
            ELSE LET rest == EvAll(Tail(xs), env, first.w, prog, oracle)
                 IN IF rest.out # "go" THEN rest ELSE R(<<first.v>> \o rest.v, rest.w, "go")

Apply(f, args, w, prog, oracle) ==
    IF f.v = "closure" THEN Ev(f.body, Bind([n \in f.rec |-> f] @@ f.env, f.ps, args), w, prog, oracle)
    ELSE IF f.v # "fun" THEN R(VUndef, w, "go")
    ELSE IF f.fn \in DOMAIN prog
    THEN LET fn == prog[f.fn]
         IN Ev(BodyOf(fn), Bind(This :> f.self, NamesOf(fn.ps), args), w, prog, oracle)
    ELSE R(AnswerOf(args, oracle), Asked(w, f.fn, args), "go")

Force(thunk, w, prog, oracle) ==
    LET done == Get(w, thunk, <<"value">>)
        r == Apply(Get(w, thunk, <<"closure">>), <<>>, w, prog, oracle)
    IN IF done # VUndef THEN R(done, w, "go")
       ELSE R(r.v, Put(r.w, thunk, <<"value">>, r.v), "go")

\* An iteration of a loop, and the ones after it.
LoopFrom(x, names, env, w, prog, oracle) ==
    LET r == Ev(x, env, w, prog, oracle)
    IN IF r.out = "recur" THEN LoopFrom(x, names, Bind(env, names, r.v), r.w, prog, oracle) ELSE r

\* A name: a variable, a nested function with the variables around it, or a function of the program.
Lookup(n, env) ==
    IF n \notin DOMAIN env THEN VFun(n, VNull)
    ELSE IF env[n].v = "nested" THEN Closure(env[n].fn.ps, BodyOf(env[n].fn), env) ELSE env[n]
\* On entry, a block binds its nested functions and allocates its deferred bindings.
Enter(x, env, w) ==
    LET funs == {s \in ToSet(Statements(x)) : s.e = "fun"}
        lazies == SelectSeq(Statements(x), LAMBDA s : s.e = "let" /\ s.lazy)
        made == [n \in {s.n : s \in funs} |-> [v |-> "nested", fn |-> CHOOSE s \in funs : s.n = n]]
        stubs == [i \in DOMAIN lazies |-> [v |-> "thunk", id |-> Len(w.heap) + i]]
    IN [env |-> Bind(made @@ env, NamesOf(lazies), stubs),
        w |-> FoldLeft(LAMBDA acc, s : Alloc(acc, "$Lazy"), w, lazies)]
Stub(x, env, w) == IF x.cls = <<>> THEN env[x.n] ELSE Get(w, env[This], x.n)

Ev(x, env, w, prog, oracle) ==
    CASE x.e = "lit" -> R(VInt(x.i), w, "go")
      [] x.e = "named" ->
           LET val == Lookup(x.n, env)
           IN IF val.v = "thunk" THEN Force(VObj(val.id), w, prog, oracle) ELSE R(val, w, "go")
      [] x.e = "lazy" ->
           IF x.stub THEN R(Stub(x, env, w), w, "go")
           ELSE IF Stub(x, env, w).v # "thunk" THEN R(VUndef, w, "go")
           ELSE Force(VObj(Stub(x, env, w).id), w, prog, oracle)
      [] x.e = "lambda" -> R(Closure(x.ps, x.a[1], env), w, "go")
      [] x.e = "ternary" ->
           LET c == Ev(x.a[1], env, w, prog, oracle)
           IN IF c.out # "go" THEN c
              ELSE Ev(IF Truth(c.v) THEN x.a[2] ELSE x.a[3], env, c.w, prog, oracle)
      [] x.e = "block" ->
           LET start == Enter(x, env, w)
               ran == Run(Statements(x), start.env, start.w, prog, oracle)
           IN IF ran.out = "return" THEN R(ran.v, ran.w, "go")
              ELSE IF ran.out = "recur" THEN ran ELSE Ev(ValueOf(x), ran.v, ran.w, prog, oracle)
      [] x.e = "loop" -> LoopFrom(Last(x.a), NamesOf(Front(x.a)), env, w, prog, oracle)
      [] OTHER ->
           LET r == EvAll(x.a, env, w, prog, oracle)
           IN IF r.out # "go" THEN r
              ELSE CASE x.e = "tuple" -> R(VTuple(r.v), r.w, "go")
                     [] x.e = "recur" -> R(r.v, r.w, "recur")
                     [] x.e = "item" -> R(FieldOf(r.v[1], "_" \o ToString(x.i)), r.w, "go")
                     [] x.e = "dot" -> R(Get(r.w, r.v[1], x.f), r.w, "go")
                     [] x.e = "leaf" -> R(Bool(r.v[1].v = "obj" /\ r.w.heap[r.v[1].id].cls = x.cls), r.w, "go")
                     [] x.e = "method" -> R(VFun(x.fn, r.v[1]), r.w, "go")
                     [] x.e = "op" -> R(Pure(x.op, r.v), r.w, "go")
                     [] x.e = "call" -> Apply(r.v[1], Tail(r.v), r.w, prog, oracle)
                     [] x.e = "new" ->
                          LET fields == [f \in ToSet(x.fs) |-> r.v[CHOOSE i \in DOMAIN x.fs : x.fs[i] = f]]
                          IN R(NewId(r.w), [r.w EXCEPT !.heap = Append(@, [cls |-> x.cls, f |-> fields, moved |-> 0])], "go")
                     [] x.e = "pinset" ->
                          LET old == Get(r.w, r.v[1], x.f)
                          IN IF old = VNull THEN R(VNull, Put(r.w, r.v[1], x.f, r.v[2]), "go")
                             ELSE R(old, r.w, "go")

\* Statements in order; "v" of the result is the environment after them when they fall through.
Run(ss, env, w, prog, oracle) ==
    IF ss = <<>> THEN R(env, w, "go")
    ELSE LET s == Head(ss)
             lazy == s.e = "let" /\ s.lazy
             r == CASE s.e = "fun" -> R(<<>>, w, "go")
                    [] s.e = "if" -> EvAll(<<s.a[1]>>, env, w, prog, oracle)
                    [] lazy /\ ~s.thunk -> R(<<Closure(<<>>, s.a[1], env)>>, w, "go")
                    [] s.e = "let" /\ ~lazy /\ s.a[1].e = "lambda" ->
                         R(<<[Closure(s.a[1].ps, s.a[1].a[1], env) EXCEPT !.rec = {s.n}]>>, w, "go")
                    [] OTHER -> EvAll(s.a, env, w, prog, oracle)
         IN IF r.out # "go" THEN r
            ELSE CASE s.e = "let" /\ lazy ->
                        Run(Tail(ss), env, Put(r.w, VObj(env[s.n].id), <<"closure">>, r.v[1]), prog, oracle)
                   [] s.e = "let" /\ ~lazy -> Run(Tail(ss), Bind(env, <<s.n>>, r.v), r.w, prog, oracle)
                   [] s.e = "destructure" ->
                        Run(Tail(ss), Bind(env, NamesOf(s.targets), r.v[1].vals), r.w, prog, oracle)
                   [] s.e \in {"action", "fun"} -> Run(Tail(ss), env, r.w, prog, oracle)
                   [] s.e = "return" -> R(r.v[1], r.w, "return")
                   [] s.e = "assign" -> Run(Tail(ss), env, Put(r.w, r.v[1], s.f, r.v[2]), prog, oracle)
                   [] s.e = "if" ->
                        LET b == Run((IF Truth(r.v[1]) THEN s.a[2] ELSE s.a[3]).a, env, r.w, prog, oracle)
                        IN IF b.out # "go" THEN b ELSE Run(Tail(ss), env, b.w, prog, oracle)

Meant(prog, main, args, oracle) ==
    LET r == Apply(VFun(main, VNull), args, World0, prog, oracle) IN Observed(r.w, r.v)
====
