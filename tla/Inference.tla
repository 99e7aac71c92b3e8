---- MODULE Inference ----
(* What a pass of the loop of ConvergeLoop makes of the declarations (compiler.py __compile and the compile
   methods it calls): it compiles each of them against those the pass before left, and stores what its
   body's type says of the types nobody wrote.  A use of an untyped parameter leaves a hint of what it
   must be; a name that cannot be looked up yet blocks what would be concluded without it.

   Uses UseSites: a declaration also has open, whether its type was left to inference, and body. *)
EXTENDS UseSites, ConvergeLoop

Load(n) == [e |-> "load", n |-> n, args |-> <<>>]
Call(f, x) == [e |-> "call", f |-> f, x |-> x]
TupleExpr(ns, xs) == [e |-> "tuple", ns |-> ns, xs |-> xs]
Ternary(x, y) == [e |-> "ternary", xs |-> <<x, y>>]
Match(on, arms) == [e |-> "match", on |-> on, arms |-> arms]
Arm(n, ty, x) == [n |-> n, ty |-> ty, x |-> x]
Let(n, init, x) == [e |-> "let", n |-> n, ty |-> Unknown, init |-> init, x |-> x]
Convert(x, to) == [e |-> "convert", x |-> x, to |-> to]
NoBody == [e |-> "none"]

(* What an expression sees: decls, late, and locals, by name their type and whether it is open. *)
Binding(env, n, ty, open) == [env EXCEPT !.locals = (n :> [ty |-> ty, open |-> open]) @@ @]
RECURSIVE TypeOf(_, _)
TypeOf(x, env) ==
    CASE x.e = "load" ->
           IF x.n \in DOMAIN env.locals THEN env.locals[x.n].ty
           ELSE IF x.n \in env.late \/ RawType(env.decls[x.n]) = Unknown THEN Unknown
           ELSE Spelt(env.decls[x.n], x.args)
      [] x.e = "call" -> LET f == TypeOf(x.f, env) IN IF f.s = "fn" THEN f.res ELSE Unknown
      [] x.e = "tuple" -> Tuple([i \in DOMAIN x.xs |-> Entry(x.ns[i], TypeOf(x.xs[i], env), FALSE)])
      [] x.e = "ternary" -> BranchType([i \in DOMAIN x.xs |-> TypeOf(x.xs[i], env)])
      [] x.e = "match" ->
           BranchType([i \in DOMAIN x.arms |->
                         TypeOf(x.arms[i].x, Binding(env, x.arms[i].n, x.arms[i].ty, FALSE))])
      [] x.e = "let" -> TypeOf(x.x, Binding(env, x.n, x.ty, TRUE))
      [] x.e = "convert" -> x.to

(* compile: the expression of the next pass, the hints it leaves, and whether something is blocked. *)
Compiled(x, hints, blocked) == [x |-> x, hints |-> hints, blocked |-> blocked]
Hint(n, ty, lower) == [n |-> n, ty |-> ty, lower |-> lower]
HintsOf(cs) == FlattenSeq([i \in DOMAIN cs |-> cs[i].hints])
AnyBlocked(cs) == \E c \in ToSet(cs) : c.blocked
Converted(x, expected, env) ==
    IF expected # Unknown /\ NeedsConversion(TypeOf(x, env), expected) THEN Convert(x, expected) ELSE x
IsOpenLocal(x, env) == x.e = "load" /\ x.n \in DOMAIN env.locals /\ env.locals[x.n].open
LoadHint(x, expected, env) ==
    IF IsOpenLocal(x, env) /\ expected # Unknown THEN <<Hint(x.n, expected, FALSE)>> ELSE <<>>
CompileLoad(x, expected, env) ==
    LET known == x.n \in DOMAIN env.locals
        used == IF known THEN x ELSE [x EXCEPT !.args = UseSiteTypeParams(env.decls[x.n], @, expected)]
    IN IF ~known /\ x.n \in env.late THEN Compiled(x, <<>>, TRUE)
       ELSE Compiled(Converted(used, expected, env), LoadHint(x, expected, env), FALSE)

RECURSIVE Compile(_, _, _)
PsOf(ty) == IF ty.s = "fn" THEN ty.ps ELSE Unknown
\* The argument first, towards the parameters known so far; again when only the callee settled them.
CompileCall(x, env) == Compile(x.x, PsOf(TypeOf(x.f, env)), env)
FinishCall(x, arg, expected, env) ==
    LET ty == TypeOf(arg.x, env)
        f == Compile(x.f, Callable(ty, expected), env)
        pinned == PsOf(TypeOf(f.x, env))
        again == PsOf(TypeOf(x.f, env)) = Unknown /\ pinned # Unknown /\ ~IsConcrete(ty)
        last == IF again THEN Compile(arg.x, pinned, env) ELSE arg
    IN IF ty.s # "tuple" THEN Compiled([x EXCEPT !.x = arg.x], arg.hints, arg.blocked)
       ELSE Compiled(Converted([x EXCEPT !.f = f.x, !.x = last.x], expected, env),
                     f.hints \o last.hints, f.blocked \/ last.blocked)
\* Each entry towards the field it binds; against a union, of the one tuple in it that fits.
Effective(x, expected, env) ==
    LET ty == TypeOf(x, env)
        fits == TupleVariants(ty, expected)
    IN IF expected.s # "union" THEN expected
       ELSE IF ~IsConcrete(ty) THEN expected ELSE IF fits = {} THEN Unknown ELSE CHOOSE v \in fits : TRUE
Slot(i, x, slots) ==
    LET bind == BindTupleEntries(slots, x.ns)
        named == bind # NoBinding /\ \E j \in DOMAIN slots : bind[j] # 0
        at == IF named THEN {j \in DOMAIN slots : bind[j] = i} ELSE {i} \cap DOMAIN slots
    IN IF at = {} THEN Unknown ELSE slots[CHOOSE j \in at : TRUE].ty
CompileTuple(x, towards, env) ==
    LET slots == IF towards.s = "tuple" THEN towards.entries ELSE <<>>
    IN [i \in DOMAIN x.xs |-> Compile(x.xs[i], Slot(i, x, slots), env)]
\* Without a receiver the arms land in the ternary's own type.
CompileTernary(x, cs, expected, env) ==
    LET own == TypeOf(x, env)
        arm(i) == IF expected = Unknown THEN Converted(cs[i].x, own, env) ELSE cs[i].x
    IN Compiled([x EXCEPT !.xs = [i \in DOMAIN cs |-> arm(i)]], HintsOf(cs), AnyBlocked(cs))
\* An arm that names a variant without arguments takes those of the subject; arms say what an untyped
\* subject must accept, once all of them are spelt.
Completed(arm, subject) ==
    IF /\ arm.ty.s = "enum" /\ subject.s \in {"class", "enum"}
       /\ arm.ty.args = <<>> /\ subject.args # <<>>
       /\ \A ty \in ToSet(subject.args) : ty # Name /\ ~HasFreePlaceholders(ty)
    THEN [arm EXCEPT !.ty.args = subject.args] ELSE arm
ArmHints(x, env) ==
    LET tys == {arm.ty : arm \in ToSet(x.arms)}
        bare(ty) == ty.s = "enum" /\ ty.args = <<>> /\ Enums[ty.n].ps # <<>>
    IN IF ~IsOpenLocal(x.on, env) \/ \E ty \in tys : bare(ty) THEN <<>>
       ELSE [i \in DOMAIN x.arms |-> Hint(x.on.n, x.arms[i].ty, TRUE)]
CompileMatch(x, on, arms, cs, env) ==
    LET y == [x EXCEPT !.on = on.x, !.arms = [i \in DOMAIN arms |-> [arms[i] EXCEPT !.x = cs[i].x]]]
    IN Compiled(y, on.hints \o HintsOf(cs) \o ArmHints(y, env), on.blocked \/ AnyBlocked(cs))
\* What a receiver that wrote no type stores of the type of what it was given.
Stored_Blocked(ty, open, c, env) ==
    IF open THEN RefineWidening(ty, TypeOf(c.x, env)) ELSE Refine(ty, TypeOf(c.x, env))
Stored(ty, open, c, env) ==
    CASE c.blocked -> ty
      [] open -> RefineWidening(ty, TypeOf(c.x, env))
      [] OTHER -> Refine(ty, TypeOf(c.x, env))
CompileLet(x, init, value, env) ==
    Compiled([x EXCEPT !.ty = Stored(x.ty, TRUE, init, env), !.init = init.x, !.x = value.x],
             SelectSeq(init.hints \o value.hints, LAMBDA hint : hint.n # x.n), init.blocked \/ value.blocked)
\* A conversion follows its receiver when that widens, and dissolves when nothing is left to convert.
CompileConvert(x, inner, expected, env) ==
    LET follows == IsConcrete(expected) /\ UniqueId(expected) \notin {NoId, UniqueId(x.to)}
        to == IF follows THEN expected ELSE x.to
    IN Compiled(IF NeedsConversion(TypeOf(inner.x, env), to) THEN Convert(inner.x, to) ELSE inner.x,
                inner.hints \o LoadHint(inner.x, to, env), inner.blocked)
ArmsFor(x, on, env) == [i \in DOMAIN x.arms |-> Completed(x.arms[i], TypeOf(on.x, env))]
CompileArms(arms, expected, env) ==
    [i \in DOMAIN arms |-> Compile(arms[i].x, expected, Binding(env, arms[i].n, arms[i].ty, FALSE))]
Compile(x, expected, env) ==
    CASE x.e = "load" -> CompileLoad(x, expected, env)
      [] x.e = "call" -> FinishCall(x, CompileCall(x, env), expected, env)
      [] x.e = "tuple" ->
           LET cs == CompileTuple(x, Effective(x, expected, env), env)
           IN Compiled(Converted([x EXCEPT !.xs = [i \in DOMAIN cs |-> cs[i].x]], expected, env),
                       HintsOf(cs), AnyBlocked(cs))
      [] x.e = "ternary" -> CompileTernary(x, [i \in DOMAIN x.xs |-> Compile(x.xs[i], expected, env)], expected, env)
      [] x.e = "match" ->
           LET on == Compile(x.on, Unknown, env)
               arms == ArmsFor(x, on, env)
           IN CompileMatch(x, on, arms, CompileArms(arms, expected, env), env)
      [] x.e = "let" ->
           LET inside == Binding(env, x.n, x.ty, TRUE)
           IN CompileLet(x, Compile(x.init, x.ty, inside), Compile(x.x, expected, inside), inside)
      [] x.e = "convert" -> CompileConvert(x, Compile(x.x, Unknown, env), expected, env)

(* The type a parameter's hints give: between what it must fit (uppers) and what it must accept
   (lowers); Unknown while they do not determine it. *)
Usable(ty) == IsConcrete(ty) /\ ~HasFreePlaceholders(ty) /\ ~(ty.s = "fn" /\ ty.res = Unknown)
Narrowest(tys) ==
    LET fits(i) == \A x \in ToSet(tys) : x = tys[i] \/ Receives(x, tys[i])
    IN IF \E i \in DOMAIN tys : fits(i) THEN tys[Min({i \in DOMAIN tys : fits(i)})] ELSE Unknown
ConvergeOrNone(tys) == IF tys = <<>> THEN Unknown ELSE Converge(tys)
Between(upper, lower) ==
    CASE lower = upper -> lower
      [] Receives(upper, lower) -> lower
      [] Merge(upper, lower).ok -> Merge(upper, lower).ty
      [] OTHER -> Converge(<<lower, upper>>)
Verdict(hints) ==
    LET usable == SelectSeq(hints, LAMBDA hint : Usable(hint.ty))
        bounds(low) == LET hs == SelectSeq(usable, LAMBDA hint : hint.lower = low)
                       IN [i \in DOMAIN hs |-> hs[i].ty]
        upper == IF Narrowest(bounds(FALSE)) # Unknown THEN Narrowest(bounds(FALSE)) ELSE ConvergeOrNone(bounds(FALSE))
        lower == ConvergeOrNone(bounds(TRUE))
    IN CASE bounds(TRUE) = <<>> -> upper
         [] bounds(FALSE) = <<>> -> lower
         [] upper = Unknown \/ lower = Unknown -> Unknown
         [] OTHER -> Between(upper, lower)
InferredParam(p, hints) ==
    LET ty == Verdict(SelectSeq(hints, LAMBDA hint : hint.n = p.n))
    IN IF p.open /\ ty # Unknown THEN [p EXCEPT !.ty = ty] ELSE p

CompileBody(d, body, env) ==
    [d EXCEPT !.body = body.x, !.ty = Stored(d.ty, d.open, body, env),
              !.ps = IF body.blocked THEN @ ELSE [i \in DOMAIN @ |-> InferredParam(@[i], body.hints)]]
InsideOf(d, ds, names) ==
    [decls |-> ds, late |-> names,
     locals |-> [n \in {p.n : p \in ToSet(d.ps)} |->
                   LET p == d.ps[CHOOSE i \in DOMAIN d.ps : d.ps[i].n = n] IN [ty |-> p.ty, open |-> p.open]]]
CompileDecl(d, ds, names) ==
    LET env == InsideOf(d, ds, names)
    IN IF d.body = NoBody THEN d ELSE CompileBody(d, Compile(d.body, d.ty, env), env)
CompileAll(ds, names) == [n \in DOMAIN ds |-> CompileDecl(ds[n], ds, names)]

(* What is inferred: the types nobody wrote. *)
Inferred(ds) ==
    [n \in DOMAIN ds |-> <<IF ds[n].open THEN ds[n].ty ELSE Unknown,
                           [i \in {j \in DOMAIN ds[n].ps : ds[n].ps[j].open} |-> ds[n].ps[i].ty]>>]

(* Types that alternate are found and named: the loop never runs out of passes, and what repeats
   differs from the pass before in a type that somebody could write down. *)
CyclesNamed ==
    /\ outcome # "exhausted"
    /\ outcome = "cycles" => Inferred(earlier) # Inferred(decls)

(* What a program computes, whatever its types say: values are objects of one class, variants, and
   tuples of values; a tuple of one is its value.  A parameter may hold any value of its type. *)
RECURSIVE ValuesOf(_), Admits(_, _), Yields(_, _, _, _)
Tuples(sets) ==
    {Tuple([i \in DOMAIN vs |-> Entry("", vs[i], FALSE)]) :
       vs \in {f \in [DOMAIN sets -> UNION Range(sets)] : \A i \in DOMAIN sets : f[i] \in sets[i]}}
ValuesOf(ty) ==
    CASE ty.s = "enum" -> {[ty EXCEPT !.leaves = {leaf}] : leaf \in ty.leaves}
      [] ty.s = "class" ->
           {ty} \cup {Class(m, <<>>) : m \in {k \in DOMAIN Classes : Classes[k].ps = <<>> /\ ty \in ToSet(Classes[k].parents)}}
      [] IsOne(ty) -> ValuesOf(Unwrapped(ty))
      [] ty.s = "tuple" -> Tuples([i \in DOMAIN ty.entries |-> ValuesOf(ty.entries[i].ty)])
      [] ty.s = "union" -> UNION {ValuesOf(x) : x \in ToSet(ty.types)}
      [] OTHER -> {ty}
SameArgs(x, y) == [i \in DOMAIN x.args |-> UniqueId(x.args[i])] = [i \in DOMAIN y.args |-> UniqueId(y.args[i])]
Admits(ty, v) ==
    CASE ty.s = "union" -> \E x \in ToSet(ty.types) : Admits(x, v)
      [] IsOne(ty) -> Admits(Unwrapped(ty), v)
      [] ty.s # v.s -> FALSE
      [] ty.s = "enum" -> ty.n = v.n /\ v.leaves \subseteq ty.leaves /\ SameArgs(ty, v)
      [] ty.s = "class" ->
           \E a \in {v} \cup {Substitute(p, OwnArgs(v)) : p \in ToSet(Classes[v.n].parents)} :
              a.n = ty.n /\ SameArgs(a, ty)
      [] ty.s = "tuple" -> /\ Len(ty.entries) = Len(v.entries)
                           /\ \A i \in DOMAIN v.entries : Admits(ty.entries[i].ty, v.entries[i].ty)
      [] OTHER -> ty = v
ParamsOf(d) == [m \in {p.n : p \in ToSet(d.ps)} |-> ValuesOf(d.ps[CHOOSE i \in DOMAIN d.ps : d.ps[i].n = m].ty)]
\* at: the values of the names bound around x; world: what the names of declarations stand for.  Calls
\* are followed n deep.
Yields(x, at, n, world) ==
    LET called == world.decls[x.f.n]
    IN CASE x.e = "load" ->
              IF x.n \in DOMAIN at THEN at[x.n]
              ELSE IF world.decls[x.n].kind = "fn" \/ world.decls[x.n].body = NoBody THEN ValuesOf(TypeOf(x, world))
              ELSE IF n = 0 THEN {} ELSE Yields(world.decls[x.n].body, <<>>, n - 1, world)
         [] x.e = "call" ->
              IF called.body = NoBody THEN ValuesOf(TypeOf(x.f, world).res)
              ELSE IF n = 0 THEN {} ELSE Yields(called.body, ParamsOf(called), n - 1, world)
         [] x.e = "tuple" -> LET each == [i \in DOMAIN x.xs |-> Yields(x.xs[i], at, n, world)]
                             IN IF Len(each) = 1 THEN each[1] ELSE Tuples(each)
         [] x.e = "ternary" -> UNION {Yields(y, at, n, world) : y \in ToSet(x.xs)}
         [] x.e = "match" ->
              UNION {Yields(arm.x, (arm.n :> {v \in Yields(x.on, at, n, world) : Admits(arm.ty, v)}) @@ at, n, world) : arm \in ToSet(x.arms)}
         [] x.e = "let" -> Yields(x.x, (x.n :> Yields(x.init, at, n, world)) @@ at, n, world)
         [] x.e = "convert" -> Yields(x.x, at, n, world)

(* What settles is right: where nothing of a program is refused, every value the body of a declaration
   can come to is one of the type that was stored for it, or written. *)
RECURSIVE Accepted(_, _)
Accepted(x, env) ==
    CASE x.e = "call" ->
           Accepted(x.f, env) /\ Accepted(x.x, env) /\ Fits(PsOf(TypeOf(x.f, env)), TypeOf(x.x, env)) = "yes"
      [] x.e \in {"tuple", "ternary"} -> \A y \in ToSet(x.xs) : Accepted(y, env)
      [] x.e = "match" -> \A arm \in ToSet(x.arms) : Accepted(arm.x, Binding(env, arm.n, arm.ty, FALSE))
      [] x.e = "let" -> /\ Accepted(x.init, env) /\ Fits(x.ty, TypeOf(x.init, env)) = "yes"
                        /\ Accepted(x.x, Binding(env, x.n, x.ty, TRUE))
      [] x.e = "convert" -> Accepted(x.x, env)
      [] OTHER -> TypeOf(x, env) # Unknown
AcceptedDecl(d, world) ==
    LET env == InsideOf(d, world.decls, world.late)
    IN /\ Complete(RawType(d))
       /\ d.body # NoBody => Accepted(d.body, env) /\ Fits(d.ty, TypeOf(d.body, env)) = "yes"
AcceptedAll(world) == \A n \in DOMAIN world.decls : world.decls[n].tps = <<>> => AcceptedDecl(world.decls[n], world)
World(ds, names) == [decls |-> ds, late |-> names, locals |-> <<>>]
Flowing(d, world) ==
    d.body = NoBody \/ \A v \in Yields(d.body, ParamsOf(d), 3, world) : Admits(d.ty, v)
FlowsHold ==
    [][outcome' = "settled" =>
          \A world \in {World(decls', late')} :
             AcceptedAll(world) => \A n \in DOMAIN world.decls : Flowing(world.decls[n], world)]_vars

(* The order in which names can be looked up makes no difference: a program that settles and is accepted
   when all can be from the start settles and is accepted in any order, on types that admit the same
   values, but that one may name classes where the other names the interface they share. *)
RECURSIVE SettledFrom(_, _)
SettledFrom(ds, n) ==
    LET next == CompileAll(ds, {}) IN IF n = 0 \/ next = ds THEN ds ELSE SettledFrom(next, n - 1)
Top(v) == IF v.s = "class" /\ Classes[v.n].parents # <<>> THEN Last(Classes[v.n].parents) ELSE v
Kinds(ty) == {<<UniqueId(Top(v)), IF v.s = "enum" THEN v.leaves ELSE {}>> : v \in ValuesOf(ty)}
Agree(ds, es, end) ==
    AcceptedAll(World(ds, {})) => /\ end = "settled" /\ AcceptedAll(World(es, {}))
                                  /\ \A n \in DOMAIN ds : Kinds(ds[n].ty) = Kinds(es[n].ty)
OrderMakesNoDifference ==
    [][outcome' # "running" /\ late' = {} /\ program.late # {} =>
          \A es \in {decls'} : Agree(SettledFrom(program.decls, MaxPasses), es, outcome')]_vars

(* A type stored for what nobody wrote only widens: once it is complete it stays so, and what it
   admitted it admits. *)
OnlyWidens ==
    [][\A n \in {m \in DOMAIN decls : decls[m].open} :
          Complete(decls[n].ty) =>
             Complete(decls'[n].ty) /\ \A v \in ValuesOf(decls[n].ty) : Admits(decls'[n].ty, v)]_vars
====
