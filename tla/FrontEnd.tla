---- MODULE FrontEnd ----
(* The passes between convergence and monomorphisation that decide how linear values are used: a
   program is written, drops are inserted, and it is accepted or rejected (compiler.py,
   __iterate_and_compile).

   Runs is the reference: the uses a program makes of its bindings on every path it may take.  It is
   what "used exactly once" means, and not code of the compiler. *)
EXTENDS Drops

CONSTANT Programs    \* The programs: functions, the types of the global bindings, and the types declared.

VARIABLES
  stage,    \* What was done last.
  case,     \* The program, as it was written.
  prog,     \* Its functions now.
  errors    \* What its check reported.
vars == <<stage, case, prog, errors>>

Init == /\ stage = "converged"
        /\ case \in Programs
        /\ prog = case.prog
        /\ errors = {}
DropsInserted ==
    /\ stage = "converged"
    /\ prog' = InsertDrops(prog)
    /\ errors' = IF Ambiguous(prog') THEN {"ambiguous"} ELSE {}
    /\ stage' = IF errors' = {} THEN "dropped" ELSE "rejected"
    /\ UNCHANGED case
LinearityChecked ==
    /\ stage = "dropped"
    /\ errors' = CheckLinearity(prog, case.globals, case.decls)
    /\ stage' = IF errors' = {} THEN "accepted" ELSE "rejected"
    /\ UNCHANGED <<case, prog>>
Next == DropsInserted \/ LinearityChecked
Spec == Init /\ [][Next]_vars

(* Paths.  A run is what happens on one path, and whether it returned: a binding begins, a path of
   a binding is moved or read, a binding is dropped, or a linear value is lost. *)
Happens(e) == {[ev |-> <<e>>, out |-> "go"]}
Quiet == {[ev |-> <<>>, out |-> "go"]}
Followed(A, B) == {IF a.out = "return" THEN a ELSE [ev |-> a.ev \o b.ev, out |-> b.out] : a \in A, b \in B}
Caught(A) == {[a EXCEPT !.out = "go"] : a \in A}
\* Code that runs never or twice, as a lambda may; and never or once, as a deferred binding may.
AnyTimes(A) == Quiet \cup {[ev |-> a.ev \o a.ev, out |-> "go"] : a \in A}
Perhaps(A) == Quiet \cup A
Begins(vs) == [ev |-> [i \in DOMAIN vs |-> <<"begin", vs[i].n>>], out |-> "go"]
LinearOf(vs) == SelectSeq(vs, LAMBDA v : CarriesLinearity(v.ty))

RECURSIVE Runs(_, _), RunsAll(_, _), RunsArms(_, _), RunsOfList(_, _, _)
RunsAll(xs, types) == IF xs = <<>> THEN Quiet ELSE Followed(Runs(Head(xs), types), RunsAll(Tail(xs), types))
\* A binding whose place is a path of types.
Touched(x, types) ==
    LET root == PathOf(x)[1]
        moves == root \in DOMAIN types /\ Moved(root, PathOf(x)[2], types) # {}
    IN IF root \in DOMAIN types /\ types[root] = LinearFn THEN <<"lost">>
       ELSE <<IF moves THEN "move" ELSE "read", root, PathOf(x)[2]>>
\* The arms in order: one is taken, or its type or its guard fails and the next is tried.
RunsArms(arms, types) ==
    LET arm == Head(arms)
        guard == RunsAll(Front(arm.a), types)
        bound == IF ~CarriesLinearity(arm.ty) THEN Quiet
                 ELSE Happens(IF arm.n = Nameless THEN <<"lost">> ELSE <<"begin", arm.n>>)
        taken == Followed(Followed(guard, bound), Runs(Last(arm.a), types))
    IN IF Len(arms) = 1 THEN taken
       ELSE taken \cup Followed(Perhaps(guard), RunsArms(Tail(arms), types))
RunsOfArg(x, once, types) ==
    IF once /\ x.e = "lambda" THEN Followed({Begins(LinearOf(x.ps))}, Caught(Runs(x.a[1], types))) ELSE Runs(x, types)
RECURSIVE RunsOfArgs(_, _, _)
RunsOfArgs(xs, at, types) ==
    IF xs = <<>> THEN Quiet
    ELSE Followed(RunsOfArgs(Front(xs), at, types), RunsOfArg(Last(xs), Len(xs) \in at, types))
Runs(x, types) ==
    CASE IsPath(x) -> Happens(Touched(x, types))
      [] x.e = "call" /\ x.a[1].e = "named" ->
           IF x.a[1].n = Drop THEN Happens(<<"drop", x.a[2].n>>)
           ELSE Followed(IF x.a[1].n \in DOMAIN types /\ types[x.a[1].n] = LinearFn
                         THEN Happens(<<"move", x.a[1].n, <<>>>>) ELSE Quiet,
                         RunsOfArgs(Tail(x.a), LinearPositions(x.a[1]), types))
      [] x.e = "ternary" -> Followed(Runs(x.a[1], types), Runs(x.a[2], types) \cup Runs(x.a[3], types))
      [] x.e = "match" -> Followed(Runs(x.a[1], types), RunsArms(Tail(x.a), types))
      [] x.e = "block" -> Caught(RunsOfList(Statements(x), <<ValueOf(x)>>, types))
      [] x.e = "lambda" ->
           AnyTimes(Followed({Begins(LinearOf(SelectSeq(x.ps, LAMBDA p : ~p.terminal)))},
                             Caught(Runs(x.a[1], types))))
      [] OTHER -> RunsAll(x.a, types)
RunsOfStatement(s, types) ==
    CASE s.e = "let" ->
           LET made == Runs(s.a[1], types)
               once == ~s.lazy \/ (IsFuture(s) /\ CarriesLinearity(s.ty))
           IN Followed(IF once THEN made ELSE Perhaps(made), {Begins(LinearOf(<<s>>))})
      [] s.e = "destructure" -> Followed(Runs(s.a[1], types), {Begins(LinearOf(s.targets))})
      [] s.e = "action" -> Followed(Runs(s.a[1], types), IF IsLinearExpr(s.a[1]) THEN Happens(<<"lost">>) ELSE Quiet)
      [] s.e = "return" -> {[r EXCEPT !.out = "return"] : r \in Runs(s.a[1], types)}
      [] s.e = "if" -> Followed(Runs(s.a[1], types),
                                RunsOfList(s.a[2].a, <<>>, types) \cup RunsOfList(s.a[3].a, <<>>, types))
      [] s.e = "fun" -> AnyTimes(Followed({Begins(LinearOf(SelectSeq(s.ps, LAMBDA p : ~p.terminal)))},
                                          Caught(Runs(BodyOf(s), types))))
      [] OTHER -> RunsAll(s.a, types)
RunsOfList(ss, value, types) ==
    IF ss = <<>> THEN RunsAll(value, types)
    ELSE Followed(RunsOfStatement(Head(ss), types), RunsOfList(Tail(ss), value, types))
\* The linear bindings of a function, wherever in it they are.
TypesIn(f) ==
    LET nodes == NodeSet(BodyOf(f))
        bindings == {y \in nodes : y.e = "arm" \/ (y.e = "let" /\ y.n # Nameless)}
                       \cup UNION {ToSet(y.targets) : y \in {z \in nodes : z.e = "destructure"}}
                       \cup UNION {ToSet(y.ps) : y \in {z \in nodes : z.e \in {"lambda", "fun"}}}
        fns == {p.n : p \in {q \in ToSet(f.ps) : q.linear}}
    IN [n \in fns |-> LinearFn] @@ LinearIn(ToSet(f.ps \o f.self) \cup bindings)
RunsOfFun(f) ==
    LET types == TypesIn(f)
        owed == LinearOf(SelectSeq(f.ps, LAMBDA p : ~p.terminal)) \o SelectSeq(f.ps, LAMBDA p : p.linear)
                   \o (IF "terminal" \in f.attrs THEN <<>> ELSE f.self)
    IN {r.ev : r \in Followed({Begins(owed)}, Runs(BodyOf(f), types))}

Times(ev, P(_)) == Cardinality({i \in DOMAIN ev : P(ev[i])})
\* On a run, every leaf of every binding is moved or dropped as often as the binding begins.
UsedUp(ev, types) ==
    /\ \A i \in DOMAIN ev : ev[i] # <<"lost">>
    /\ \A n \in {ev[i][2] : i \in {j \in DOMAIN ev : ev[j][1] = "begin"}} : \A leaf \in Leaves(types[n]) :
          Times(ev, LAMBDA e : e = <<"begin", n>>)
            = Times(ev, LAMBDA e : \/ e[1] = "drop" /\ e[2] = n
                                   \/ e[1] = "move" /\ e[2] = n /\ IsPrefix(e[3], leaf))

(* A linear value is used up exactly once: what the checker accepts, after the drops, moves or drops
   every leaf of every linear binding once on every path, those through lambdas, deferred bindings
   and early returns included, and loses none on the way. *)
UsedOnce ==
    stage = "accepted" =>
       \A n \in DOMAIN prog : \A ev \in RunsOfFun(prog[n]) : UsedUp(ev, TypesIn(prog[n]))

(* Inserted drops only release: without them the program does on every path what it did, in the same
   order, and a value is neither read nor moved after its drop. *)
IsKept(e) == e[1] = "drop" \/ (Len(e) > 1 /\ e[2][1] = "$drop_keep")
Plain(evs) == {SelectSeq(ev, LAMBDA e : ~IsKept(e)) : ev \in evs}
DropsOnlyRelease ==
    stage = "dropped" =>
       \A n \in DOMAIN prog :
          /\ Plain(RunsOfFun(prog[n])) = Plain(RunsOfFun(case.prog[n]))
          /\ \A ev \in RunsOfFun(prog[n]) : \A i, j \in DOMAIN ev :
                i < j /\ ev[i][1] = "drop" /\ Len(ev[j]) > 1 /\ ev[j][2] = ev[i][2]
                   => <<"begin", ev[i][2]>> \in {ev[k] : k \in i .. j}

(* Drops are enough: a program whose only fault is that some paths leave a droppable binding alone is
   accepted once the drops are in.  The binding is moved as a whole, at most once on a path, and not by
   code that may never run.  A function that returns early mentions all of them, does so from its own
   statements and holds nothing that is never reached. *)
Droppables(f) ==
    {v \in ToSet(f.ps) \cup NodeSet(BodyOf(f)) :
       v.e \in {"named", "let"} /\ Eligible(v, f.wheres) /\ <<"begin", v.n>> \in UNION {ToSet(ev) : ev \in RunsOfFun(f)}}
ReturnsIn(x) == \E y \in NodeSet(x) : y.e = "return"
Repairable(f) ==
    LET names == {v.n : v \in Droppables(f)}
    IN /\ \A x \in NodeSet(BodyOf(f)) :
             x.e = "lambda" \/ (x.e = "let" /\ x.lazy) => Referenced(x) \cap names = {}
       /\ \A ev \in RunsOfFun(f) : \A i, j \in DOMAIN ev :
             /\ ev[i] # <<"lost">>
             /\ ev[i][1] = "read" <=> ev[i][2] \notin names
             /\ ev[i][1] = "move" => ev[i][3] = <<>>
             /\ i # j /\ ev[i] = ev[j] => ev[i][1] = "read"
       /\ ReturnsIn(BodyOf(f)) =>
             /\ names \subseteq Referenced(BodyOf(f))
             /\ \A x \in NodeSet(BodyOf(f)) \ {BodyOf(f)} : IsBlock(x) => ~ReturnsIn(x)
             /\ \A s \in ToSet(Statements(BodyOf(f))) : ~Terminates(<<s>>)
DropsSuffice ==
    stage = "rejected" /\ errors \subseteq {"never used", "used again", "inconsistent", "captured"} => \E n \in DOMAIN case.prog : ~Repairable(case.prog[n])

(* No linear value lies where the counts do not look: in an accepted program a binding whose type
   holds a linear value, at any depth, is one the checker owes a use of. *)
RECURSIVE HoldsLinear(_)
HoldsLinear(ty) ==
    CASE ty.t = "param" -> ty.linear
      [] ty.t \in {"class", "enum"} ->
           \/ Decls[ty.n].linear
           \/ \E i \in DOMAIN Decls[ty.n].types : HoldsLinear(Subst(Decls[ty.n].types[i], ArgsOf(ty)))
      [] ty.t \in {"struct", "union"} -> \E i \in DOMAIN ty.types : HoldsLinear(ty.types[i])
      [] OTHER -> FALSE
NothingUntraced ==
    stage = "accepted" =>
       /\ \A ty \in ToSet(case.globals) : ~HoldsLinear(ty)
       /\ \A n \in DOMAIN prog : \A v \in ToSet(prog[n].ps) :
             HoldsLinear(v.ty) => CarriesLinearity(v.ty) /\ "foreign" \notin prog[n].attrs
====
