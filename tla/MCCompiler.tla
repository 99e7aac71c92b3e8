---- MODULE MCCompiler ----
EXTENDS Compiler

N(n) == <<"@", n>>
I(n) == Named(N(n), TInt)
P(n) == Named(N(n), TPtr)
F(n) == Named(N(n), TCallable(<<TInt>>, TInt))
Ask(x) == CallOf(Named(<<"ext", "ask">>, TCallable(<<TInt>>, TInt)), <<x>>, TInt)
Add(x, y) == BuiltinOp("add", <<x, y>>, TInt)
Sub(x, y) == BuiltinOp("sub", <<x, y>>, TInt)
Lt(x, y) == BuiltinOp("lt", <<x, y>>, TInt)
Call1(f, x) == CallOf(F(f), <<x>>, TInt)
LetI(n, x) == Let(N(n), TInt, x)
C == <<"C">>
D == <<"D">>
E == <<"E">>
Some == <<"Some">>
Other == <<"Other">>
Left == <<"Left">>
Right == <<"Right">>
Body(ss, x) == Block(ss, x, TInt)
FunI(n, ps, ss, x, attrs) == Fun(N(n), [i \in DOMAIN ps |-> I(ps[i])], Body(ss, x), TInt, attrs)
Prog(fs) == [n \in {fs[i].n : i \in DOMAIN fs} |-> fs[CHOOSE i \in DOMAIN fs : fs[i].n = n]]
Suite(fs, inputs, levels) == [funs |-> Prog(fs), main |-> N("main"), inputs |-> inputs, levels |-> levels]
Ints == {<<VInt(0)>>, <<VInt(1)>>, <<VInt(2)>>}
All == {0, 1}
Most == {0, 2}

\* Branches, early returns, effects in order.
Branches ==
    FunI("main", <<"x">>,
         <<LetI("a", Ternary(Lt(I("x"), Lit(1)), Ask(Lit(7)),
                             Ternary(Lt(I("x"), Lit(2)), Ask(I("x")), Lit(5), TInt), TInt)),
           IfThen(Lt(Lit(4), I("a")), <<Action(Ask(I("a"))), Ret(Add(I("a"), I("x")))>>,
                  <<IfThen(I("x"), <<Ret(Ask(Lit(9)))>>, <<Action(Ask(Lit(8)))>>)>>)>>,
         Add(I("a"), Ask(I("a"))), {})
\* A [tail] function that swaps its parameters on the way round.
Looping ==
    <<FunI("main", <<"x">>, <<>>, CallOf(Named(N("go"), TCallable(<<TInt, TInt, TInt>>, TInt)),
                                         <<I("x"), Lit(3), Lit(4)>>, TInt), {}),
      FunI("go", <<"n", "p", "q">>, <<Action(Ask(I("p")))>>,
           Ternary(I("n"), CallOf(Named(N("go"), TCallable(<<TInt, TInt, TInt>>, TInt)),
                                  <<Sub(I("n"), Lit(1)), I("q"), I("p")>>, TInt),
                   CallOf(Named(N("carry"), TCallable(<<TInt, TInt>>, TInt)), <<I("p"), Lit(2)>>, TInt), TInt), {"tail"}),
      FunI("carry", <<"c", "m">>, <<LetI("k", Ask(I("m")))>>,
           Ternary(Lt(I("m"), Lit(1)), I("c"),
                   CallOf(Named(N("carry"), TCallable(<<TInt, TInt>>, TInt)), <<I("k"), Sub(I("m"), Lit(1))>>, TInt), TInt),
           {"tail"})>>

\* Small functions: bound, returned, called twice in one expression, and passed by a lambda.
Inlining ==
    <<FunI("main", <<"x">>,
           <<LetI("a", Call1("twice", I("x"))), LetI("b", Call1("twice", I("a"))),
             Let(N("f"), TCallable(<<TInt>>, TInt), Lambda(<<I("y")>>, Add(I("y"), I("b")), TCallable(<<TInt>>, TInt), N("l1"))),
             Action(Call1("noisy", I("a")))>>,
           Add(Call1("f", I("b")), Add(Call1("twice", Call1("noisy", I("b"))),
               CallOf(Lambda(<<I("z")>>, Add(I("z"), I("x")), TCallable(<<TInt>>, TInt), N("l2")), <<I("a")>>, TInt))), {}),
      FunI("twice", <<"t">>, <<LetI("u", Add(I("t"), I("t")))>>, Add(I("u"), Lit(1)), {}),
      FunI("noisy", <<"v">>, <<LetI("w", Ask(I("v"))),
                               IfThen(Lt(I("w"), Lit(1)), <<Ret(Ask(Lit(6)))>>, <<>>),
                               Action(Ask(I("w")))>>, Add(I("w"), I("v")), {"inline"})>>
\* Lambdas that capture parameters, bindings and each other's captures, and one that calls itself.
Closing ==
    <<FunI("main", <<"x">>,
           <<LetI("k", Ask(I("x"))),
             Let(N("add"), TCallable(<<TInt>>, TInt),
                 Lambda(<<I("y")>>, Body(<<Let(N("in"), TCallable(<<>>, TInt),
                                                 Lambda(<<>>, Add(I("k"), I("y")), TCallable(<<>>, TInt), N("inner")))>>,
                                          Add(CallOf(Named(N("in"), TCallable(<<>>, TInt)), <<>>, TInt),
                                              CallOf(Named(N("in"), TCallable(<<>>, TInt)), <<>>, TInt))),
                        TCallable(<<TInt>>, TInt), N("outer"))),
             Let(N("down"), TCallable(<<TInt, TInt>>, TInt),
                 Lambda(<<I("n"), I("s")>>,
                        Ternary(I("n"), CallOf(Named(N("down"), TCallable(<<TInt, TInt>>, TInt)),
                                               <<Sub(I("n"), Lit(1)), Add(I("s"), I("k"))>>, TInt), I("s"), TInt),
                        TCallable(<<TInt, TInt>>, TInt), N("rec")))>>,
           Add(Call1("apply", Lit(2)),
               Add(CallOf(Named(N("both"), TCallable(<<TCallable(<<TInt>>, TInt)>>, TInt)), <<F("add")>>, TInt),
                   CallOf(Named(N("down"), TCallable(<<TInt, TInt>>, TInt)), <<I("x"), Lit(0)>>, TInt))), {}),
      FunI("apply", <<"q">>, <<>>, Add(I("q"), I("q")), {}),
      Fun(N("both"), <<F("h")>>, Body(<<LetI("r", Call1("h", Lit(1)))>>, Add(I("r"), Call1("h", I("r")))), TInt, {})>>
\* Functions in functions: one only called, one that escapes, and two that call each other.
Nesting ==
    <<FunI("main", <<"x">>,
           <<LetI("k", Add(I("x"), Lit(1))),
             FunI("plain", <<"p">>, <<>>, Add(I("p"), I("x")), {}),
             FunI("keeps", <<"q">>, <<>>, Add(Ask(I("q")), I("k")), {}),
             FunI("even", <<"m">>, <<>>, Ternary(I("m"), Call1("odd", Sub(I("m"), Lit(1))), I("k"), TInt), {}),
             FunI("odd", <<"o">>, <<>>, Ternary(I("o"), Call1("even", Sub(I("o"), Lit(1))), Add(I("k"), I("k")), TInt), {})>>,
           Add(Call1("plain", Lit(5)), Add(Call1("keeps", I("k")), Call1("even", I("x")))), {})>>
\* Deferred bindings that need each other, forced twice and captured.
Deferring ==
    <<FunI("main", <<"x">>,
           <<LazyLet(N("a"), TInt, Add(I("b"), I("b"))),
             LazyLet(N("b"), TInt, Ask(I("x"))),
             LazyLet(N("c"), TInt, Ask(Lit(9))),
             Let(N("f"), TCallable(<<>>, TInt), Lambda(<<>>, Add(I("a"), I("x")), TCallable(<<>>, TInt), N("fl")))>>,
           Ternary(I("x"), Add(I("a"), CallOf(Named(N("keep"), TCallable(<<TCallable(<<>>, TInt)>>, TInt)),
                                              <<Named(N("f"), TCallable(<<>>, TInt))>>, TInt)), I("c"), TInt), {}),
      Fun(N("keep"), <<Named(N("g"), TCallable(<<>>, TInt))>>,
          Body(<<LetI("one", CallOf(Named(N("g"), TCallable(<<>>, TInt)), <<>>, TInt))>>,
               Add(I("one"), CallOf(Named(N("g"), TCallable(<<>>, TInt)), <<>>, TInt))), TInt, {})>>
\* Objects: made, read, written, and a field set once.
Objects ==
    <<Fun(N("main"), <<I("x"), P("nothing")>>, Body(
           <<Let(N("o"), TPtr, New(C, <<<<"v">>, <<"next">>>>, <<Ask(I("x")), Named(N("nothing"), TPtr)>>)),
             FieldAssign(P("o"), Add(Dot(P("o"), C, <<"v">>, TInt), Lit(1)), C, <<"v">>, TInt),
             Let(N("p"), TPtr, New(C, <<<<"v">>, <<"next">>>>, <<Lit(3), P("o")>>)),
             Action(PinSet(P("o"), P("p"), C, <<"next">>, TPtr)),
             Action(PinSet(P("o"), P("o"), C, <<"next">>, TPtr)),
             LetI("n", Dot(Dot(P("o"), C, <<"next">>, TPtr), C, <<"v">>, TInt))>>,
           Add(I("n"), Add(CallOf(Method(P("p"), N("sum")), <<I("x")>>, TInt), Dot(P("o"), C, <<"v">>, TInt)))), TInt, {}),
      FunI("sum", <<"y">>,
           <<FunI("helper", <<"z">>, <<>>, Add(I("z"), Dot(Named(This, TPtr), C, <<"v">>, TInt)), {})>>,
           Add(Call1("helper", I("y")), Dot(Dot(Named(This, TPtr), C, <<"next">>, TPtr), C, <<"v">>, TInt)), {"member"})>>
\* Tuples that are taken apart, whole and field by field.
Pair == TTuple(<<TInt, TInt>>)
Tupling ==
    <<FunI("main", <<"x">>,
           <<Destructure(<<"slot">>, <<I("a"), I("b")>>,
                         CallOf(Named(N("pair"), TCallable(<<TInt>>, Pair)), <<I("x")>>, Pair)),
             Let(N("t"), Pair, Ternary(I("a"), TupleExpr(<<I("b"), I("a")>>),
                                       CallOf(Named(N("pair"), TCallable(<<TInt>>, Pair)), <<I("b")>>, Pair), Pair))>>,
           Add(Item(Named(N("t"), Pair), 0), Item(Named(N("t"), Pair), 1)), {}),
      Fun(N("pair"), <<I("y")>>, Block(<<LetI("c", Ask(I("y")))>>, TupleExpr(<<Add(I("c"), I("y")), I("c")>>), Pair), Pair, {})>>

\* Values that are still to come: in fields of a new object, in a tuple, joined with one another and
\* with values that are there, and carried round a loop.
Suspending ==
    <<Fun(N("main"), <<I("x"), P("nothing")>>, Body(
           <<LetI("v", Ask(Lit(3))),
             Let(N("m"), TPtr, CallOf(Named(N("made"), TCallable(<<TInt>>, TPtr)), <<I("x")>>, TPtr)),
             Let(N("o"), TPtr, New(E, <<<<"v">>, <<"next">>>>, <<I("v"), P("m")>>)),
             Let(N("t"), Pair, CallOf(Named(N("pair"), TCallable(<<TInt>>, Pair)), <<I("x")>>, Pair)),
             LetI("a", Ternary(I("x"), Ask(Lit(1)), Ask(Lit(2)), TInt)),
             LetI("b", Ternary(Lt(I("x"), Lit(1)), Ask(Lit(5)), I("a"), TInt)),
             Let(N("u"), Pair, Ternary(I("b"), Named(N("t"), Pair), CallOf(Named(N("pair"), TCallable(<<TInt>>, Pair)), <<I("a")>>, Pair), Pair)),
             Action(Ask(Lit(4))),
             LetI("s", CallOf(Named(N("round"), TCallable(<<TInt, TInt, TInt>>, TInt)), <<I("x"), Lit(1), I("b")>>, TInt))>>,
           Add(Add(Dot(P("o"), E, <<"v">>, TInt), Dot(Dot(P("o"), E, <<"next">>, TPtr), E, <<"v">>, TInt)),
               Add(Add(Item(Named(N("t"), Pair), 1), I("s")), Add(Item(Named(N("u"), Pair), 0), I("a"))))), TInt, {}),
      Fun(N("pair"), <<I("y")>>, Block(<<LetI("c", Ask(I("y")))>>, TupleExpr(<<Add(I("c"), I("y")), I("c")>>), Pair), Pair, {}),
      Fun(N("made"), <<I("y")>>, Block(<<LetI("c", Ask(I("y")))>>, New(E, <<<<"v">>>>, <<Add(I("c"), Ask(Lit(6)))>>), TPtr), TPtr, {}),
      FunI("round", <<"n", "p", "q">>, <<LetI("k", Ask(I("n"))), LetI("j", Ternary(I("p"), I("k"), Ask(Lit(8)), TInt))>>,
           Ternary(I("n"), CallOf(Named(N("round"), TCallable(<<TInt, TInt, TInt>>, TInt)),
                                  <<Sub(I("n"), Lit(1)), I("q"), Add(I("k"), I("j"))>>, TInt), Add(I("p"), I("j")), TInt), {"tail"})>>

\* Functions as values: chosen between, kept in an object, and passed to a function that is itself a value.
TApply == TCallable(<<TCallable(<<TInt>>, TInt), TInt>>, TInt)
Passing ==
    <<FunI("main", <<"x">>,
           <<Let(N("f"), TCallable(<<TInt>>, TInt), Ternary(I("x"), F("asks"), F("adds"), TCallable(<<TInt>>, TInt))),
             Let(N("o"), TPtr, New(D, <<<<"h">>>>, <<F("f")>>)),
             Let(N("ap"), TApply, Named(N("apply"), TApply)),
             LetI("a", CallOf(Dot(P("o"), D, <<"h">>, TCallable(<<TInt>>, TInt)), <<Lit(2)>>, TInt)),
             LetI("b", CallOf(Named(N("ap"), TApply), <<F("asks"), I("a")>>, TInt)),
             LetI("c", CallOf(Named(N("through"), TApply), <<F("adds"), I("x")>>, TInt))>>,
           Add(I("b"), I("c")), {}),
      FunI("asks", <<"p">>, <<>>, Add(Ask(I("p")), Lit(1)), {}),
      FunI("adds", <<"q">>, <<>>, Add(I("q"), Lit(1)), {}),
      Fun(N("through"), <<F("g"), I("y")>>, Body(<<LetI("d", Call1("g", I("y")))>>, Call1("g", I("d"))), TInt, {}),
      Fun(N("apply"), <<F("k"), I("z")>>, Body(<<LetI("e", Call1("k", I("z")))>>, Add(I("e"), I("z"))), TInt, {})>>

\* Functions that a worker runs, called more than once and with one answer needed before another.
Spawning ==
    <<FunI("main", <<"x">>,
           <<LetI("a", Call1("later", I("x"))), LetI("b", Call1("later", Add(I("x"), Lit(1)))),
             LetI("c", Call1("quiet", I("a"))),
             Let(N("f"), TCallable(<<TInt>>, TInt), Ternary(I("x"), F("later"), F("quiet"), TCallable(<<TInt>>, TInt)))>>,
           Add(Add(I("a"), I("c")), Call1("f", I("b"))), {}),
      FunI("later", <<"p">>, <<>>, Add(Ask(I("p")), Lit(1)), {"future"}),
      FunI("quiet", <<"q">>, <<>>, Add(I("q"), Lit(1)), {"future"})>>
\* Small functions that only the operations show to be called: methods, closures that are kept in a
\* tuple or passed on, one that is never to be inlined, and one that calls itself.
Fusing ==
    <<Fun(N("main"), <<I("x"), P("nothing")>>, Body(
           <<Let(N("o"), TPtr, New(E, <<<<"v">>, <<"next">>>>, <<Ask(I("x")), Named(N("nothing"), TPtr)>>)),
             Let(N("f"), TCallable(<<TInt>>, TInt), Lambda(<<I("y")>>, Add(I("y"), Dot(P("o"), E, <<"v">>, TInt)), TCallable(<<TInt>>, TInt), N("fuse"))),
             Let(N("t"), TTuple(<<TCallable(<<TInt>>, TInt), TInt>>), TupleExpr(<<F("f"), I("x")>>)),
             LetI("a", CallOf(Item(Named(N("t"), TTuple(<<TCallable(<<TInt>>, TInt), TInt>>)), 0), <<Lit(3)>>, TInt)),
             LetI("b", CallOf(Method(P("o"), N("plus")), <<Call1("f", I("a"))>>, TInt)),
             LetI("c", CallOf(Method(P("o"), N("down")), <<I("x")>>, TInt)),
             LetI("d", CallOf(Method(P("o"), N("plus")), <<I("b")>>, TInt))>>,
           Add(Add(Call1("kept", I("c")), I("d")), CallOf(Named(N("through"), TApply), <<F("f"), I("b")>>, TInt))), TInt, {}),
      FunI("plus", <<"p">>, <<>>, Add(Ask(I("p")), Dot(Named(This, TPtr), E, <<"v">>, TInt)), {"member"}),
      FunI("down", <<"q">>, <<>>, Ternary(I("q"), CallOf(Method(Named(This, TPtr), N("down")), <<Sub(I("q"), Lit(1))>>, TInt), Lit(4), TInt), {"member"}),
      FunI("kept", <<"r">>, <<>>, Ask(I("r")), {"never"}),
      Fun(N("through"), <<F("g"), I("z")>>, Body(<<LetI("e", Call1("g", I("z")))>>, Call1("g", I("e"))), TInt, {})>>

\* Two enums whose variants look alike, and functions that tell variants apart.
Made(n, cls, f) == Fun(N(n), <<I("v")>>, Block(<<>>, New(cls, <<<<f>>>>, <<I("v")>>), TPtr), TPtr, {"never"})
Tells(n, cls, f, id) ==
    Fun(N(n), <<P("o")>>, Body(<<>>, Ternary(LeafTest(P("o"), cls, id), Dot(P("o"), cls, <<f>>, TInt), Lit(0), TInt)), TInt, {"never"})
MakeP(f, x) == CallOf(Named(N(f), TCallable(<<TInt>>, TPtr)), <<x>>, TPtr)
TellP(f, x) == CallOf(Named(N(f), TCallable(<<TPtr>>, TInt)), <<x>>, TInt)
Matching ==
    <<FunI("main", <<"x">>,
           <<Let(N("a"), TPtr, Ternary(I("x"), MakeP("mkSome", Lit(5)), MakeP("mkOther", I("x")), TPtr)),
             Let(N("b"), TPtr, Ternary(Lt(I("x"), Lit(2)), MakeP("mkLeft", Ask(I("x"))), MakeP("mkRight", Lit(7)), TPtr)),
             Action(Ask(TellP("some", P("a")))), Action(Ask(TellP("other", P("a")))),
             Action(Ask(TellP("left", P("b"))))>>,
           Add(TellP("right", P("b")), Add(TellP("some", P("a")), Lit(1))), {}),
      Made("mkSome", Some, "some"), Made("mkOther", Other, "other"), Made("mkLeft", Left, "left"), Made("mkRight", Right, "right"),
      Tells("some", Some, "some", 1), Tells("other", Other, "other", 2), Tells("left", Left, "left", 3),
      Tells("right", Right, "right", 4)>>

\* A lambda that captures a function of its own type.
Capturing ==
    <<FunI("main", <<"x">>, <<>>,
           CallOf(Named(N("twice"), TCallable(<<TCallable(<<TInt>>, TInt), TInt>>, TInt)), <<F("ask"), I("x")>>, TInt), {}),
      FunI("ask", <<"a">>, <<>>, Ask(I("a")), {}),
      Fun(N("twice"), <<F("h"), I("n")>>,
          Body(<<Let(N("g"), TCallable(<<TInt>>, TInt),
                     Lambda(<<I("z")>>, Ternary(I("z"), Call1("h", Sub(I("z"), Lit(1))), Lit(5), TInt), TCallable(<<TInt>>, TInt), N("gl")))>>,
               Add(Call1("g", I("n")), Call1("g", Lit(2)))), TInt, {})>>

MCPrograms ==
    [branches |-> Suite(<<Branches>>, Ints, All),
     looping |-> Suite(Looping, Ints, All),
     inlining |-> Suite(Inlining, Ints, All),
     closing |-> Suite(Closing, Ints, {0, 1, 2}),
     nesting |-> Suite(Nesting, Ints, All),
     deferring |-> Suite(Deferring, Ints, All),
     objects |-> Suite(Objects, {<<VInt(0), VNull>>, <<VInt(2), VNull>>}, {0, 1, 2}),
     spawning |-> Suite(Spawning, Ints, {0, 1, 2}),
     fusing |-> Suite(Fusing, {<<VInt(0), VNull>>, <<VInt(2), VNull>>}, Most),
     passing |-> Suite(Passing, Ints, All),
     matching |-> Suite(Matching, Ints, Most),
     tupling |-> Suite(Tupling, Ints, All),
     suspending |-> Suite(Suspending, {<<VInt(0), VNull>>, <<VInt(2), VNull>>}, All)]
CapturePrograms == [capturing |-> Suite(Capturing, Ints, All)]
MCOrder == <<<<1>>, <<2, 1>>, <<3, 1, 2>>, <<1, 3, 2, 4>>>>
MCOracles == {<<0, 1>>, <<1, 0>>, <<5, 2>>}
MCSchedules == {Schedule("all", FALSE, FALSE), Schedule("all", TRUE, FALSE), Schedule("odd", FALSE, FALSE),
                Schedule("all", FALSE, TRUE)}
MCDiscriminators == Some :> 1 @@ Other :> 2 @@ Left :> 3 @@ Right :> 4
MCEnumOf == Some :> "Option" @@ Other :> "Option" @@ Left :> "Either" @@ Right :> "Either"
MCClasses == C :> <<<<"v">>, <<"next">>>> @@ D :> <<<<"h">>>> @@ E :> <<<<"v">>, <<"next">>>> @@ Some :> <<<<"some">>>>
               @@ Other :> <<<<"other">>>> @@ Left :> <<<<"left">>>> @@ Right :> <<<<"right">>>>
MCAttributes == C :> {"pinnable", "mutable"}
====
