---- MODULE MCFrontEnd ----
(* Small programs about linear values for TLC: a function of a linear parameter whose body is up to
   two statements and a value, and some of other shapes. *)
EXTENDS FrontEnd

\* H, with a Drop instance, and K, without: linear handles.  Two is linear with two leaves; Hold<[linear] T>
\* is linear and generic, Box<T> generic and not linear, Some an enum and Bare a class around a T.
Cls(linear, ps, names, types) == [enum |-> FALSE, linear |-> linear, ps |-> ps, names |-> names, types |-> types]
TP(linear) == TParam("T", linear)
MCDecls == [
  H |-> Cls(TRUE, <<>>, <<>>, <<>>),
  K |-> Cls(TRUE, <<>>, <<>>, <<>>),
  Two |-> Cls(TRUE, <<>>, <<"l", "r">>, <<TClass("H", <<>>), TClass("H", <<>>)>>),
  Hold |-> Cls(TRUE, <<[n |-> "T", linear |-> TRUE]>>, <<"v">>, <<TP(TRUE)>>),
  Box |-> Cls(FALSE, <<[n |-> "T", linear |-> FALSE]>>, <<"v">>, <<TP(FALSE)>>),
  Bare |-> Cls(FALSE, <<>>, <<"v">>, <<TClass("H", <<>>)>>),
  Some |-> [Cls(FALSE, <<>>, <<"v">>, <<TClass("H", <<>>)>>) EXCEPT !.enum = TRUE]]
H == TClass("H", <<>>)
K == TClass("K", <<>>)
Two == TClass("Two", <<>>)
HoldH == TClass("Hold", <<H>>)
MCDropInstances == {[params |-> {}, pattern |-> H],
                    [params |-> {"T"}, pattern |-> TClass("Hold", <<TP(TRUE)>>)]}
\* once calls the function it is given once; many may not.
MCSigs == (<<"once">> :> <<Param(<<"fn">>, TCallable(<<>>, TInt), "linear")>>)
             @@ (<<"many">> :> <<Param(<<"fn">>, TCallable(<<>>, TInt), "")>>)

h(ty) == Named(<<"h">>, ty)
g(ty) == Named(<<"g">>, ty)
cond == Named(<<"c">>, TInt)
CallNamed(n, xs, ty) == CallOf(Named(<<n>>, TCallable(<<>>, ty)), xs, ty)
Sink(x) == CallNamed("sink", <<x>>, TInt)
Thread(x, ty) == CallNamed("thread", <<x>>, ty)
Made(ty) == CallNamed("mk", <<>>, ty)
Lam(x) == Lambda(<<>>, x, TCallable(<<>>, TInt), 0)
If1(ss) == IfThen(cond, ss, <<>>)
At(x, place) == [x EXCEPT !.tag = <<place>>]
Code(ps, x, attrs, wheres, self) ==
    [wheres |-> wheres, self |-> self] @@ Fun(<<"f">>, ps, x, TInt, attrs)
Program(ps, x) == [prog |-> <<"f">> :> Code(ps, x, {}, {}, <<>>), globals |-> <<>>, decls |-> {"H", "K"}]

Values(ty) == {
  Lit(0), Sink(h(ty)), Sink(Thread(h(ty), ty)), BuiltinOp("add", <<Sink(h(ty)), Sink(h(ty))>>, TInt),
  Ternary(cond, Sink(h(ty)), Lit(0), TInt), Ternary(cond, Sink(h(ty)), Sink(h(ty)), TInt),
  Ternary(Sink(h(ty)), Lit(1), Lit(0), TInt),
  Match(cond, <<Arm(<<"n">>, TInt, <<>>, Sink(h(ty))), Arm(Nameless, TUnit, <<>>, Lit(0))>>, TInt),
  Match(cond, <<Arm(<<"n">>, TInt, <<cond>>, Lit(0)), Arm(Nameless, TUnit, <<>>, Sink(h(ty)))>>, TInt),
  CallNamed("once", <<Lam(Sink(h(ty)))>>, TInt), CallNamed("many", <<Lam(Sink(h(ty)))>>, TInt),
  Sink(g(ty)), Ternary(cond, Sink(g(ty)), Lit(0), TInt),
  At(Block(<<If1(<<Ret(Sink(h(ty)))>>)>>, Lit(0), TInt), "inner")}
Stmts(ty) == {
  Action(Sink(h(ty))), Action(Made(ty)), Let(<<"n">>, TInt, Sink(h(ty))),
  Let(<<"g">>, ty, Thread(h(ty), ty)), Let(<<"g">>, ty, Made(ty)), Let(<<"g">>, ty, h(ty)),
  If1(<<Ret(Lit(0))>>), If1(<<Ret(Sink(h(ty)))>>), If1(<<Action(Sink(h(ty)))>>),
  IfThen(cond, <<Action(Sink(h(ty)))>>, <<Action(Sink(h(ty)))>>),
  IfThen(cond, <<Ret(Sink(h(ty)))>>, <<Ret(Lit(0))>>),
  IfThen(cond, <<Let(<<"i">>, ty, Thread(h(ty), ty)), Action(Sink(Named(<<"i">>, ty)))>>, <<>>),
  LazyLet(<<"n">>, TInt, Sink(h(ty))), FutureLet(<<"g">>, ty, Thread(h(ty), ty)),
  FutureLet(<<"n">>, TInt, Sink(h(ty)))}
Bound(ss) == {v.n : v \in ToSet(Concat([i \in DOMAIN ss |-> BoundBy(ss[i])]))}
Bodies(ty) ==
    {At(Block(ss, x, TInt), "body") :
       ss \in {<<>>} \cup {<<s>> : s \in Stmts(ty)}
                 \cup {<<s1, s2>> : s1 \in Stmts(ty), s2 \in Stmts(ty)}, x \in Values(ty)}
WellNamed(x) ==
    LET ss == Statements(x)
    IN /\ <<"g">> \in Referenced(ValueOf(x)) => <<"g">> \in Bound(ss)
       /\ Len(ss) = 2 => Bound(<<ss[1]>>) \cap Bound(<<ss[2]>>) = {}
Flows(ty) == {Program(<<Param(<<"h">>, ty, ""), Param(<<"c">>, TInt, "")>>, x)
                : x \in {y \in Bodies(ty) : WellNamed(y)}}

\* A function of the parameters ps with the body x.
P(ps, x) == Program(ps, At(Block(<<>>, x, TInt), "body"))
PS(ps, ss, x) == Program(ps, At(Block(ss, x, TInt), "body"))
OrNone(ty) == TUnion(<<ty, TUnit>>)
u == Named(<<"u">>, OrNone(H))
v(n, ty) == Named(<<n>>, ty)
two == Param(<<"p">>, Two, "")
LorR(f) == Dot(v("p", Two), "Two", f, H)
pair == TTuple(<<H, K>>)
fn(at) == Param(<<"fn">>, TCallable(<<>>, TInt), at)
CallFn == CallOf(v("fn", TCallable(<<>>, TInt)), <<>>, TInt)
\* Matches over a union, a guard that only reads, and a wildcard for what is not linear.
Matches == {
  P(<<Param(<<"u">>, OrNone(H), "")>>,
    Match(u, <<Arm(<<"x">>, H, gd, x), Arm(Nameless, TUnit, <<>>, y)>>, TInt)) :
       gd \in {<<>>, <<cond>>}, x \in {Sink(v("x", H)), Lit(0), Ternary(cond, Sink(v("x", H)), Lit(0), TInt)},
       y \in {Lit(0), Sink(u)}}
\* Leaves of a linear class, of a tuple, and the pieces of a destructured one.
Pieces ==
  {P(<<two>>, x) : x \in {Sink(v("p", Two)), Sink(LorR("l")), Lit(0),
                           BuiltinOp("add", <<Sink(LorR("l")), Sink(LorR("r"))>>, TInt),
                           Ternary(cond, BuiltinOp("add", <<Sink(LorR("l")), Sink(LorR("r"))>>, TInt), Lit(0), TInt)}}
  \cup {PS(<<Param(<<"h">>, H, "")>>, <<Let(<<"t">>, pair, TupleExpr(<<h(H), Made(K)>>)),
            Destructure(<<"d">>, <<v("a", H), v("b", K)>>, v("t", pair))>>, x) :
         x \in {Sink(v("b", K)), BuiltinOp("add", <<Sink(v("a", H)), Sink(v("b", K))>>, TInt)}}
  \cup {PS(<<Param(<<"h">>, H, "")>>, <<Let(<<"t">>, pair, TupleExpr(<<h(H), Made(K)>>))>>, x) :
         x \in {Sink(Item(v("t", pair), 1)),
                 BuiltinOp("add", <<Sink(Item(v("t", pair), 0)), Sink(Item(v("t", pair), 1))>>, TInt)}}
\* [linear] and plain function parameters; [terminal] ones; lambdas with linear parameters; nested functions.
NestedF(x, attrs) == [wheres |-> {}, self |-> <<>>] @@ Fun(<<"nested">>, <<Param(<<"m">>, H, "")>>, x, TInt, attrs)
Callers ==
  {P(<<fn(at), Param(<<"c">>, TInt, "")>>, x) :
     at \in {"linear", ""}, x \in {CallFn, Lit(0), Ternary(cond, CallFn, Lit(0), TInt),
                                   CallNamed("once", <<v("fn", TCallable(<<>>, TInt))>>, TInt),
                                   BuiltinOp("add", <<CallFn, CallFn>>, TInt)}}
  \cup {P(<<Param(<<"h">>, ty, "terminal")>>, Lit(0)) : ty \in {H, K}}
  \cup {P(<<Param(<<"h">>, ty, "terminal")>>, Sink(h(ty))) : ty \in {H, K}}
  \cup {P(<<Param(<<"h">>, H, "")>>,
           CallNamed(n, <<Lambda(<<Param(<<"x">>, ty, "")>>, x, TCallable(<<ty>>, TInt), 1)>>, TInt)) :
         n \in {"once", "many"}, ty \in {H, K},
         x \in {Lit(0), BuiltinOp("add", <<Sink(v("x", H)), Sink(h(H))>>, TInt)}}
  \cup {PS(<<Param(<<"h">>, H, "")>>, <<NestedF(At(Block(<<>>, x, TInt), "nested"), {})>>, Sink(h(H))) :
         x \in {Sink(v("m", H)), Sink(h(H)), Lit(0)}}
\* Methods of a linear class, and type parameters with and without a where clause.
Method1(attrs, x) ==
    [prog |-> <<"f">> :> Code(<<>>, At(Block(<<>>, x, TInt), "body"), attrs, {}, <<v("this", H)>>),
     globals |-> <<>>, decls |-> {"H"}]
Methods ==
  {Method1(attrs, x) : attrs \in {{}, {"terminal"}},
     x \in {Lit(0), Sink(v("this", H)), CallOf(Method(v("this", H), <<"m">>), <<>>, TInt)}}
  \cup {[prog |-> <<"f">> :> Code(<<Param(<<"h">>, ty, "")>>, At(Block(<<>>, Lit(0), TInt), "body"), {}, w, <<>>),
          globals |-> <<>>, decls |-> {"H", "Hold"}] :
         ty \in {TP(TRUE), TP(FALSE), HoldH, TClass("Hold", <<TP(TRUE)>>)}, w \in {{}, {"T"}}}
\* Linear types in the places the counts do not reach.
ClassesIn(ty) == {x.n : x \in {y \in PartsOf(ty) : y.t \in {"class", "enum"}}}
WellTyped(p) == \A q \in ToSet(p.prog[<<"f">>].ps) : ClassesIn(q.ty) \subseteq p.decls
Places == LET all == {
  [prog |-> <<"f">> :> Code(<<Param(<<"h">>, ty, "")>>, At(Block(<<>>, Lit(0), TInt), "body"), attrs, {}, <<>>),
   globals |-> gs, decls |-> decls] :
     ty \in {TInt, TClass("Box", <<TInt>>), TClass("Box", <<H>>), TClass("Box", <<TClass("Box", <<H>>)>>),
             TClass("Bare", <<>>), TEnum("Some", <<>>), OrNone(TClass("Box", <<H>>)),
             TTuple(<<TInt, TClass("Bare", <<>>)>>)},
     attrs \in {{}, {"foreign"}}, gs \in {<<>>, <<H>>, <<TClass("Box", <<H>>)>>, <<OrNone(K)>>},
     decls \in {{"H", "K", "Box", "Bare", "Some"}, {"H", "K", "Box", "Bare"}, {"H", "K", "Box", "Some"}, {"H", "K", "Box"}}}
  IN {p \in all : WellTyped(p)}
Foreign == {[prog |-> <<"f">> :> Code(<<Param(<<"h">>, ty, "")>>, Lit(0), {"foreign"}, {}, <<>>),
             globals |-> <<>>, decls |-> {"H"}] : ty \in {H, TInt, OrNone(H)}}
MCPrograms ==
    Flows(H) \cup Flows(K) \cup Matches \cup Pieces \cup Callers \cup Methods \cup Places \cup Foreign

(* The inference loop, whose programs are those of MCInference.  The two machines type and check
   different programs, and share no state: a case is a program of one of them. *)
CONSTANTS Classes, Enums, InScope, Instances, Untyped, WatchFrom, MaxPasses, PassOver(_, _)
VARIABLES program, decls, late, earlier, passes, snapshot, window, distance, outcome
typingVars == <<program, decls, late, earlier, passes, snapshot, window, distance, outcome>>
Typing == INSTANCE MCInference WITH Programs <- Untyped
TypingPass(ds, names) == LET next == Typing!CompileAll(ds, names) IN next
\* The cases of MCInference, which depend on none of its constants.
NoPass(ds, names) == ds
Cases == INSTANCE MCInference WITH
  Classes <- {}, Enums <- {}, InScope <- {}, Instances <- {}, Programs <- {}, WatchFrom <- 1, MaxPasses <- 1,
  PassOver <- NoPass
TypingClasses == Cases!MCClasses
TypingEnums == Cases!MCEnums
TypingInstances == Cases!MCInstances
TypingPrograms == Cases!MCPrograms

LinearIdle == stage = "idle" /\ case = <<>> /\ prog = <<>> /\ errors = {}
TypingIdle ==
    /\ program = [decls |-> <<>>, late |-> {}] /\ decls = <<>> /\ late = {} /\ earlier = <<>>
    /\ passes = 0 /\ snapshot = <<decls, late>> /\ window = 1 /\ distance = 0 /\ outcome = "idle"
BothInit == (Init /\ TypingIdle) \/ (Typing!Init /\ LinearIdle)
LinearNext == Next /\ UNCHANGED typingVars
TypingNext == Typing!Next /\ UNCHANGED vars
BothSpec == BothInit /\ [][LinearNext \/ TypingNext]_<<vars, typingVars>>

\* Types that alternate are found and named.
CyclesNamed == Typing!CyclesNamed
\* A value that reaches a type nobody wrote, in a program that is accepted, is one of that type.
FlowsHold == Typing!FlowsHold
\* In whatever order names can be looked up, the types inferred admit the same values.
OrderMakesNoDifference == Typing!OrderMakesNoDifference
\* What is stored for a type nobody wrote only widens.
OnlyWidens == Typing!OnlyWidens
====
