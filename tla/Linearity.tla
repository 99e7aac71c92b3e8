---- MODULE Linearity ----
(* Linear types (lowering/linearity.py): a value of a [linear] class is used up exactly once on every
   path.  The checker counts, per path, the uses of every linear leaf of every binding, and compares
   the counts where paths meet.

   The trees are those of Lang, with the match the checker still sees.  Names are unique in a
   function, as the compiler makes them before this pass runs. *)
EXTENDS Lang, Bags

CONSTANTS
  Decls,   \* The classes and enums: linear, parameters (name, linear) and field types, an enum's of all its variants.
  Sigs     \* The parameters of the functions the code calls.

(* Types as they are declared: TTuple, TUnit and TInt of Lang, and these. *)
TClass(n, args) == [t |-> "class", n |-> n, args |-> args]
TEnum(n, args) == [t |-> "enum", n |-> n, args |-> args]
TUnion(ts) == [t |-> "union", types |-> ts]
TParam(n, linear) == [t |-> "param", n |-> n, linear |-> linear]
\* What the checker's environment holds for a [linear] function parameter.
LinearFn == [t |-> "linearfn"]

\* A match: the arms in order, each with a name ("" for none), a type, perhaps a guard, and a body.
Arm(n, ty, guard, x) == [e |-> "arm", a |-> Append(guard, x), n |-> n, ty |-> ty]
Match(x, arms, ty) == [e |-> "match", a |-> <<x>> \o arms, ty |-> ty]
\* A parameter with its attributes, and what a function of a class or with a where clause adds.
Param(n, ty, at) ==
    [terminal |-> at = "terminal"] @@ [Named(n, ty) EXCEPT !.linear = at = "linear"]
FutureLet(n, ty, x) == [future |-> TRUE] @@ LazyLet(n, ty, x)
IsFuture(s) == "future" \in DOMAIN s
Nameless == <<"_">>

RECURSIVE Subst(_, _)
Subst(ty, map) ==
    CASE ty.t = "param" -> IF ty.n \in DOMAIN map THEN map[ty.n] ELSE ty
      [] ty.t \in {"class", "enum"} -> [ty EXCEPT !.args = [i \in DOMAIN ty.args |-> Subst(ty.args[i], map)]]
      [] ty.t \in {"union", "struct"} -> [ty EXCEPT !.types = [i \in DOMAIN ty.types |-> Subst(ty.types[i], map)]]
      [] OTHER -> ty
ArgsOf(ty) ==
    LET ps == Decls[ty.n].ps
    IN [n \in {ps[i].n : i \in DOMAIN ps} |-> ty.args[CHOOSE i \in DOMAIN ps : ps[i].n = n]]

\* Where the linear leaves of a value are: paths of fields.  A recursive linear class is a leaf where it comes back.
RECURSIVE LeavesIn(_, _), LeavesOfFields(_, _, _)
LeavesOfFields(names, types, seen) ==
    UNION {{<<names[i]>> \o path : path \in LeavesIn(types[i], seen)} : i \in DOMAIN names}
LeavesIn(ty, seen) ==
    CASE ty.t = "linearfn" -> {<<>>}
      [] ty.t = "param" -> IF ty.linear THEN {<<>>} ELSE {}
      [] ty.t = "class" ->
           LET d == Decls[ty.n]
               out == LeavesOfFields(d.names, [i \in DOMAIN d.types |-> Subst(d.types[i], ArgsOf(ty))],
                                     seen \cup {ty.n})
           IN IF ~d.linear THEN {} ELSE IF ty.n \in seen \/ out = {} THEN {<<>>} ELSE out
      [] ty.t = "struct" -> LeavesOfFields(ty.names, ty.types, seen)
      [] ty.t = "union" -> IF \E i \in DOMAIN ty.types : LeavesIn(ty.types[i], seen) # {} THEN {<<>>} ELSE {}
      [] OTHER -> {}
Leaves(ty) == LeavesIn(ty, {})
CarriesLinearity(ty) == Leaves(ty) # {}
\* The linear ones of some typed names, as an environment.
LinearIn(vs) == [n \in {v.n : v \in {m \in vs : CarriesLinearity(m.ty)}} |-> (CHOOSE v \in vs : v.n = n).ty]
LinearOnes(ns) == LinearIn(ToSet(ns))

(* The places no flow analysis follows: a linear type may not stand there. *)
RECURSIVE PositionErrors(_)
PositionErrors(ty) ==
    CASE ty.t \in {"union", "struct"} -> UNION {PositionErrors(ty.types[i]) : i \in DOMAIN ty.types}
      [] ty.t = "class" ->
           IF Decls[ty.n].linear THEN {}
           ELSE UNION {(IF CarriesLinearity(ty.args[i]) THEN {"type argument"} ELSE {})
                          \cup PositionErrors(ty.args[i]) : i \in DOMAIN ty.args}
      [] ty.t = "fun" -> UNION {PositionErrors(ty.ps[i]) : i \in DOMAIN ty.ps} \cup PositionErrors(ty.r)
      [] OTHER -> {}
\* A type argument that is linear needs a [linear] type parameter.
RECURSIVE InstantiationErrors(_)
InstantiationErrors(ty) ==
    CASE ty.t \in {"union", "struct"} -> UNION {InstantiationErrors(ty.types[i]) : i \in DOMAIN ty.types}
      [] ty.t = "fun" -> UNION {InstantiationErrors(ty.ps[i]) : i \in DOMAIN ty.ps} \cup InstantiationErrors(ty.r)
      [] ty.t \in {"class", "enum"} ->
           UNION {(IF CarriesLinearity(ty.args[i]) /\ ~Decls[ty.n].ps[i].linear
                   THEN {"type parameter"} ELSE {})
                     \cup InstantiationErrors(ty.args[i]) : i \in DOMAIN ty.args}
      [] OTHER -> {}
ClassErrors(n) ==
    LET d == Decls[n]
    IN UNION {(IF ~d.linear /\ CarriesLinearity(d.types[i]) THEN {"linear field"} ELSE {})
                 \cup PositionErrors(d.types[i]) \cup InstantiationErrors(d.types[i]) : i \in DOMAIN d.types}
EnumErrors_Positions(n) == UNION {PositionErrors(Decls[n].types[i]) : i \in DOMAIN Decls[n].types}
EnumErrors(n) ==
    LET d == Decls[n]
    IN UNION {(IF CarriesLinearity(d.types[i]) THEN {"linear variant"} ELSE {})
                 \cup PositionErrors(d.types[i]) \cup InstantiationErrors(d.types[i]) : i \in DOMAIN d.types}
DeclErrors(n) == IF Decls[n].enum THEN EnumErrors(n) ELSE ClassErrors(n)

(* The counts of one piece of code: the uses of every obligation <<binding, leaf>>, and the errors found. *)
Counted(c, errs) == [c |-> c, errs |-> errs]
Uncounted == Counted(EmptyBag, {})
Plus(x, y) == Counted(x.c (+) y.c, x.errs \cup y.errs)
Merge_First(x, y) == Counted(x.c, x.errs \cup y.errs)
\* Where two paths meet they have used the same.
Merge(x, y) ==
    Counted(IF x.c # EmptyBag THEN x.c ELSE y.c,
            x.errs \cup y.errs \cup (IF x.c # y.c THEN {"inconsistent"} ELSE {}))
RECURSIVE MergeAll(_)
MergeAll(xs) == IF Len(xs) = 1 THEN xs[1] ELSE Merge(MergeAll(Front(xs)), Last(xs))
DischargeErrors(n, ty, c) ==
    {IF CopiesIn(<<n, leaf>>, c) = 0 THEN "never used" ELSE "used again"
        : leaf \in {path \in Leaves(ty) : CopiesIn(<<n, path>>, c) # 1}}
\* The end of the scope of some bindings: each leaf used once, and out of the counts.
Discharge(x, env) ==
    Counted([o \in {o \in DOMAIN x.c : o[1] \notin DOMAIN env} |-> x.c[o]],
            x.errs \cup UNION {DischargeErrors(n, env[n], x.c) : n \in DOMAIN env})

\* A chain of fields of a name, as its name and its path.
RECURSIVE PathOf(_)
IsPath(x) == x.e = "named" \/ (x.e \in {"item", "dot"} /\ PathOf(x) # <<>>)
PathOf(x) ==
    CASE x.e = "named" -> <<x.n, <<>>>>
      [] x.e = "item" -> IF PathOf(x.a[1]) = <<>> THEN <<>>
                         ELSE <<PathOf(x.a[1])[1], Append(PathOf(x.a[1])[2], "_" \o ToString(x.i))>>
      [] x.e = "dot" -> IF PathOf(x.a[1]) = <<>> THEN <<>>
                        ELSE <<PathOf(x.a[1])[1], Append(PathOf(x.a[1])[2], x.f)>>
      [] OTHER -> <<>>
\* What a path moves: the leaves it leads to.
Moved(root, path, env) ==
    IF root \in DOMAIN env THEN {<<root, leaf>> : leaf \in {l \in Leaves(env[root]) : IsPrefix(path, l)}} ELSE {}
CountPath(x, env) ==
    IF PathOf(x) = <<>> THEN EmptyBag ELSE SetToBag(Moved(PathOf(x)[1], PathOf(x)[2], env))
IsLinearFn(x, env) == x.e = "named" /\ x.n \in DOMAIN env /\ env[x.n] = LinearFn

Referenced(x) == {y.n : y \in {z \in NodeSet(x) : z.e = "named"}}
Captured(x, env) == Referenced(x) \cap DOMAIN env
CaptureErrors(x, env) == IF Captured(x, env) # {} THEN {"captured"} ELSE {}
\* The [linear] parameters of a function that is called by its name.
LinearPositions(fn) ==
    IF fn.e # "named" \/ fn.n \notin DOMAIN Sigs THEN {}
    ELSE {i \in DOMAIN Sigs[fn.n] : Sigs[fn.n][i].linear}
RECURSIVE TypeIn(_)
TypeIn(x) ==
    CASE x.e = "tuple" -> TTuple([i \in DOMAIN x.a |-> TypeIn(x.a[i])])
      [] x.e = "item" -> TypeIn(x.a[1]).types[x.i + 1]
      [] "ty" \in DOMAIN x -> x.ty
      [] OTHER -> TInt
IsLinearExpr(x) == CarriesLinearity(TypeIn(x))

\* Whether a list of statements always returns.
RECURSIVE Terminates(_)
Terminates(ss) ==
    ss # <<>> /\ (\/ Last(ss).e = "return"
                  \/ Last(ss).e = "if" /\ Terminates(Last(ss).a[2].a) /\ Terminates(Last(ss).a[3].a))

RECURSIVE Count(_, _), CountAll(_, _), CountArgs(_, _, _), CountArm(_, _), CountList(_, _, _),
          CountSuffix(_, _, _), FunErrors(_), ScopeErrors(_, _)
CountAll(xs, env) == IF xs = <<>> THEN Uncounted ELSE Plus(Count(Head(xs), env), CountAll(Tail(xs), env))
\* A lambda given to a [linear] parameter runs once: making it moves what it captures.
LambdaEnv(x) == LinearOnes(SelectSeq(x.ps, LAMBDA p : ~p.terminal))
CountArgs(xs, at, env) ==
    IF xs = <<>> THEN Uncounted
    ELSE LET x == Last(xs)
             held == [n \in Captured(x, env) |-> env[n]]
         IN Plus(CountArgs(Front(xs), at, env),
                 IF Len(xs) \in at /\ x.e = "lambda"
                 THEN Counted(SetToBag(UNION {Moved(n, <<>>, env) : n \in DOMAIN held}),
                              ScopeErrors(x.a[1], held @@ LambdaEnv(x)))
                 ELSE Count(x, env))
CountArm(arm, env) ==
    LET own == IF arm.n = Nameless THEN <<>> ELSE LinearOnes(<<arm>>)
    IN Discharge(Count(Last(arm.a), own @@ env), own)
Count(x, env) ==
    CASE x.e \in {"named", "item", "dot"} ->
           Counted(CountPath(x, env), IF IsLinearFn(x, env) THEN {"only called"} ELSE {})
      [] x.e = "call" ->
           IF x.a[1].e = "method" THEN Plus(Count(x.a[1].a[1], env), CountAll(Tail(x.a), env))
           ELSE IF IsLinearFn(x.a[1], env)
           THEN Plus(Counted(CountPath(x.a[1], env), {}), CountAll(Tail(x.a), env))
           ELSE Plus(Count(x.a[1], env), CountArgs(Tail(x.a), LinearPositions(x.a[1]), env))
      [] x.e \in {"tuple", "new", "op", "pinset"} -> CountAll(x.a, env)
      [] x.e = "ternary" -> Plus(Count(x.a[1], env), Merge(Count(x.a[2], env), Count(x.a[3], env)))
      [] x.e = "match" ->
           Plus(Count(x.a[1], env), MergeAll([i \in 1 .. Len(x.a) - 1 |-> CountArm(x.a[i + 1], env)]))
      [] x.e = "block" -> CountList(Statements(x), <<ValueOf(x)>>, env)
      [] x.e = "lambda" ->
           Counted(EmptyBag, CaptureErrors(x.a[1], env) \cup ScopeErrors(x.a[1], LambdaEnv(x)))
      [] OTHER -> Uncounted

\* A list of statements and perhaps a value.  The scope of a binding of the list ends with the list, or with the
\* statements after the first "if", which are a list of their own: they follow the branches that fall through.
BoundBy(s) == CASE s.e = "let" -> <<s>> [] s.e = "destructure" -> s.targets [] OTHER -> <<>>
UpToIf(ss) == LET stops == {i \in DOMAIN ss : ss[i].e \in {"if", "return"}}
              IN IF stops = {} THEN ss ELSE SubSeq(ss, 1, Min(stops) - 1)
CountList(ss, value, env) ==
    Discharge(CountSuffix(ss, value, env), LinearOnes(Concat([i \in DOMAIN UpToIf(ss) |-> BoundBy(ss[i])])))
DeferredErrors(s, env) ==
    LET payload == CarriesLinearity(s.ty)
    IN (IF payload /\ ~IsFuture(s) THEN {"deferred"} ELSE {})
          \cup (IF IsFuture(s) /\ payload THEN {} ELSE CaptureErrors(s.a[1], env))
CountStatement(s, env) ==
    CASE s.e = "fun" -> Counted(EmptyBag, CaptureErrors(BodyOf(s), env) \cup FunErrors(s))
      [] s.e = "let" -> Plus(Counted(EmptyBag, IF s.lazy THEN DeferredErrors(s, env) ELSE {}),
                             Count(s.a[1], env))
      [] s.e = "action" -> Plus(Counted(EmptyBag, IF IsLinearExpr(s.a[1]) THEN {"discarded"} ELSE {}),
                                Count(s.a[1], env))
      [] OTHER -> CountAll(s.a, env)
CountSuffix(ss, value, env) ==
    IF ss = <<>> THEN CountAll(value, env)
    ELSE IF Head(ss).e = "return" THEN Count(Head(ss).a[1], env)
    ELSE IF Head(ss).e = "if"
    THEN LET branch(i) == Head(ss).a[i].a
             after == CountList(Tail(ss), value, env)
             path(i) == IF Terminates(branch(i)) THEN CountList(branch(i), <<>>, env)
                        ELSE Plus(CountList(branch(i), <<>>, env), after)
         IN Plus(Count(Head(ss).a[1], env), Merge(path(2), path(3)))
    ELSE Plus(CountStatement(Head(ss), env),
              CountSuffix(Tail(ss), value, LinearOnes(BoundBy(Head(ss))) @@ env))

\* A body under the obligations of its parameters: each is met once.
ScopeErrors(x, env) ==
    LET r == Count(x, env) IN r.errs \cup UNION {DischargeErrors(n, env[n], r.c) : n \in DOMAIN env}
\* A method of a linear class owes its "this", unless the method or the parameter is [terminal].
FunErrors(f) ==
    LET linearFns == {p.n : p \in {q \in ToSet(f.ps) : q.linear /\ (q.terminal \/ ~CarriesLinearity(q.ty))}}
        owed == LinearOnes(SelectSeq(f.ps, LAMBDA p : ~p.terminal)) @@ [n \in linearFns |-> LinearFn]
                   @@ (IF "terminal" \in f.attrs THEN <<>> ELSE LinearOnes(f.self))
        types == {f.rty} \cup {p.ty : p \in ToSet(f.ps)}
        named == {y.ty : y \in {z \in NodeSet(BodyOf(f)) : z.e \in {"new", "let"} /\ "ty" \in DOMAIN z}}
    IN UNION {PositionErrors(ty) \cup InstantiationErrors(ty) : ty \in types}
          \cup UNION {InstantiationErrors(ty) : ty \in named}
          \cup (IF "foreign" \in f.attrs
                THEN IF \E ty \in types : CarriesLinearity(ty) THEN {"foreign"} ELSE {}
                ELSE ScopeErrors(BodyOf(f), owed))
\* Every error of a program: of its types, of its global bindings and of its functions.
CheckLinearity(prog, globals, decls) ==
    UNION {DeclErrors(n) : n \in decls} \cup UNION {FunErrors(prog[n]) : n \in DOMAIN prog}
       \cup UNION {(IF CarriesLinearity(ty) THEN {"global"} ELSE {}) \cup InstantiationErrors(ty)
                      : ty \in ToSet(globals)}
====
