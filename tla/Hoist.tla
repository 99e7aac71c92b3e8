---- MODULE Hoist ----
(* Passes over the tree.  Nested functions leave the body they are declared in: lowering/lambda_lift.py
   passes what they capture as arguments where it can, and the hoist of lowering/ast_inline.py moves them
   to the program, to the class of the member around them, or into a closure.  lowering/tail_loop.py
   turns the self-calls of a [tail] function into jumps back to the head of a loop, and
   lowering/block_exits.py names the end of every block and the exits that lead to it. *)
EXTENDS Lang

IsFun(s) == s.e = "fun"
NestedFuns(f) == IF IsBlock(BodyOf(f)) THEN SelectSeq(Statements(BodyOf(f)), IsFun) ELSE <<>>
ParamNames(f) == ToSet(NamesOf(f.ps))
TopLets(f) ==
    IF IsBlock(BodyOf(f)) THEN SelectSeq(Statements(BodyOf(f)), LAMBDA s : s.e = "let") ELSE <<>>

\* _free_refs: names a function refers to that it does not bind itself.
FreeRefs(f) ==
    {x.n : x \in {y \in NodeSet(BodyOf(f)) : y.e = "named"}}
      \ (ParamNames(f) \cup ToSet(NamesOf(TopLets(f))) \cup ToSet(NamesOf(NestedFuns(f))))
\* The siblings a nested function reaches by calls, itself included, and its strongly connected
\* component; Reaches and Component stand for the order in which Tarjan's algorithm yields them.
RECURSIVE Reaches(_, _)
Reaches(seen, calls) ==
    LET more == seen \cup UNION {calls[n] : n \in seen} IN IF more = seen THEN seen ELSE Reaches(more, calls)
Component(n, calls) == {m \in Reaches({n}, calls) : n \in Reaches({m}, calls)}
SiblingCalls(nested) ==
    LET names == ToSet(NamesOf(nested))
    IN [n \in names |-> FreeRefs(nested[CHOOSE i \in DOMAIN nested : nested[i].n = n]) \cap names]
FunNamed(nested, n) == nested[CHOOSE i \in DOMAIN nested : nested[i].n = n]

(* Lambda lifting. *)
References(x, n) == Len(SelectSeq(Nodes(x), LAMBDA y : y.e = "named" /\ y.n = n))
CallReferences(x, n) ==
    Len(SelectSeq(Nodes(x), LAMBDA y : y.e = "call" /\ y.a[1].e = "named" /\ y.a[1].n = n))
\* Every call of a lifted function passes what it captured; its parameters take it.
RECURSIVE Thread(_, _)
Thread(x, extra) ==
    LET y == [x EXCEPT !.a = [i \in DOMAIN x.a |-> Thread(x.a[i], extra)]]
    IN IF x.e = "call" /\ x.a[1].e = "named" /\ x.a[1].n \in DOMAIN extra
       THEN [y EXCEPT !.a = @ \o extra[x.a[1].n]]
       ELSE IF x.e = "fun" /\ x.n \in DOMAIN extra THEN [y EXCEPT !.ps = @ \o extra[x.n]] ELSE y
RECURSIVE LiftInFunction(_)
LiftInFunction(f) ==
    IF ~IsBlock(BodyOf(f)) THEN f
    ELSE LET g == [f EXCEPT !.a[1].a = [i \in DOMAIN @ |-> IF IsFun(@[i]) THEN LiftInFunction(@[i]) ELSE @[i]]]
             nested == NestedFuns(g)
             calls == SiblingCalls(nested)
             names == DOMAIN calls
             captures(n) == FreeRefs(FunNamed(nested, n)) \cap ParamNames(g)
             \* what a function threads: its own captures and those of all it calls
             threaded(n) == SelectSeq(g.ps, LAMBDA p : \E m \in Reaches({n}, calls) : p.n \in captures(m))
             liftable(n) == /\ \A m \in Reaches({n}, calls) :
                                   References(BodyOf(g), m) = CallReferences(BodyOf(g), m)
                            /\ \A i \in DOMAIN threaded(n) : ~threaded(n)[i].linear
             lifted == {n \in names : liftable(n) /\ threaded(n) # <<>>}
         IN IF lifted = {} THEN g ELSE Thread(g, [n \in lifted |-> threaded(n)])
LiftCapturedCalls(prog) == [n \in DOMAIN prog |-> LiftInFunction(prog[n])]

(* The hoist.  env has the variables of the scopes around a function that became a closure, with
   their types.  A result holds the function and the functions that left it. *)
\* A capture becomes a field of the closure; the receiver is not one by its own name.
CaptureField(n) == IF n = This THEN <<"@", "$this">> ELSE n
\* Inside a method, captures and sibling methods are reached through the receiver.
RECURSIVE ThroughThis(_, _, _, _)
ThroughThis(x, cls, captures, methods) ==
    IF x.e = "named" /\ x.n \in DOMAIN captures
    THEN Dot(Named(This, TPtr), cls, CaptureField(x.n), captures[x.n])
    ELSE IF x.e = "named" /\ x.n \in DOMAIN methods THEN Method(Named(This, TPtr), methods[x.n])
    ELSE [x EXCEPT !.a = [i \in DOMAIN x.a |-> ThroughThis(x.a[i], cls, captures, methods)]]
NoCaptures == [n \in {} |-> TPtr]

\* Captures in the order of their names, as sorted() gives it: any one order will do.
SortedNames(names) == Listed(names)

\* _to_let_lambda.
ToLetLambda(f) == Let(f.n, TypeOfFun(f), Lambda(f.ps, BodyOf(f), TypeOfFun(f), f.n))

\* _coalesce_mutual_scc: one object for functions that call each other, a method for each.
Coalesce(fns, types, siblings) ==
    LET cls == fns[1].n
        captured == SortedNames(UNION {(FreeRefs(fns[i]) \ siblings) \cap DOMAIN types : i \in DOMAIN fns})
        method == [n \in ToSet(NamesOf(fns)) |-> <<"@", "$mut">> \o Tail(n)]
        fields == [n \in ToSet(captured) |-> types[n]]
        shared == <<"@", "$mutual">> \o Tail(cls)
        Member(f) == [f EXCEPT !.n = method[f.n], !.attrs = @ \cup {"member"},
                               !.a[1] = ThroughThis(@, shared, fields, method)]
    IN [made |-> {Member(fns[i]) : i \in DOMAIN fns},
        lets |-> <<Let(shared, TPtr, New(shared, [i \in DOMAIN captured |-> CaptureField(captured[i])],
                                         [i \in DOMAIN captured |-> Named(captured[i], types[captured[i]])]))>>
                   \o [i \in DOMAIN fns |-> Let(fns[i].n, TypeOfFun(fns[i]),
                                                Method(Named(shared, TPtr), method[fns[i].n]))]]

RECURSIVE HoistOne(_, _)
HoistOne(f, env) ==
    LET nested0 == NestedFuns(f)
        names == ToSet(NamesOf(nested0))
        calls == SiblingCalls(nested0)
        member == "member" \in f.attrs
        outer == [n \in ParamNames(f) \cup ToSet(NamesOf(TopLets(f))) |->
                    LET bs == f.ps \o TopLets(f) IN bs[CHOOSE i \in DOMAIN bs : bs[i].n = n].ty] @@ env
        captures(n) == (FreeRefs(FunNamed(nested0, n)) \ names) \cap DOMAIN outer # {}
        closure == {n \in names : \E m \in Reaches({n}, calls) : captures(m)}
        \* a helper of a member that needs no closure becomes a member beside it
        toMember == [n \in IF member THEN names \ closure ELSE {} |-> n]
        body == ThroughThis(BodyOf(f), <<>>, NoCaptures, toMember)
        nested == NestedFuns([f EXCEPT !.a[1] = body])
        types == outer @@ (IF member THEN This :> TPtr ELSE <<>>)
        inner == [n \in closure |-> TypeOfFun(FunNamed(nested, n))] @@ outer
        Inside(n) == HoistOne([FunNamed(nested, n) EXCEPT !.attrs = IF member THEN @ \cup {"member"} ELSE @], inner)
        scc(n) == SelectSeq(NamesOf(nested), LAMBDA m : m \in Component(n, calls))
        mutual(n) == Coalesce([i \in DOMAIN scc(n) |-> Inside(scc(n)[i]).f], types, names)
        At(s) == IF ~IsFun(s) THEN <<s>>
                 ELSE IF s.n \notin closure THEN <<>>
                 ELSE IF Cardinality(Component(s.n, calls)) = 1 THEN <<ToLetLambda(Inside(s.n).f)>>
                 ELSE IF scc(s.n)[1] = s.n THEN mutual(s.n).lets ELSE <<>>
    IN IF nested0 = <<>> THEN [f |-> f, made |-> {}]
       ELSE [f |-> [f EXCEPT !.a[1] = [body EXCEPT !.a = Concat([i \in DOMAIN @ |-> At(@[i])])]],
             made |-> {[FunNamed(nested, n) EXCEPT !.attrs = IF member THEN @ \cup {"member"} ELSE @] :
                          n \in names \ closure}
                      \cup UNION {Inside(n).made : n \in closure}
                      \cup UNION {mutual(n).made : n \in {m \in closure : Cardinality(Component(m, calls)) > 1}}]
\* _hoist_nested_fns_to_lambdas: what left a body is hoisted from in turn.
RECURSIVE HoistAll(_)
HoistAll(fns) ==
    IF fns = {} THEN {}
    ELSE LET results == {HoistOne(f, NoCaptures) : f \in fns}
         IN {r.f : r \in results} \cup HoistAll(UNION {r.made : r \in results})
HoistNested(prog) ==
    LET fns == HoistAll({prog[n] : n \in DOMAIN prog})
    IN [n \in {f.n : f \in fns} |-> CHOOSE f \in fns : f.n = n]

(* Tail loops and block exits. *)
\* A call of the function itself; a member calls itself through its receiver.
IsSelfReference(x, f) ==
    \/ x.e = "named" /\ x.n = f.n
    \/ x.e = "method" /\ x.fn = f.n /\ x.a[1].e = "named" /\ x.a[1].n = This
IsSelfCall(x, f) == x.e = "call" /\ IsSelfReference(x.a[1], f)

\* Where a body calls the function itself, as paths through the tree; a call in a lambda is a call
\* of the finished function.
RECURSIVE SelfCalls(_, _, _)
SelfCalls(x, f, path) ==
    IF x.e = "lambda" THEN {}
    ELSE (IF IsSelfCall(x, f) THEN {path} ELSE {})
           \cup UNION {SelfCalls(x.a[i], f, Append(path, i)) : i \in DOMAIN x.a}

\* The children of a node that are in tail position when the node is: what a block returns is its
\* value, from wherever in it; other statements run before.
TailPositions(x) ==
    CASE x.e \in {"block", "seq"} -> {i \in DOMAIN x.a : x.a[i].e \notin {"let", "destructure", "action", "assign", "fun"}}
      [] x.e = "return" -> {1}
      [] x.e \in {"if", "ternary"} -> {2, 3}
      [] OTHER -> {}
\* The self-calls in tail position; rewrite_tail turns each into a jump, and its place tells the
\* jumps apart.
RECURSIVE TailCalls(_, _, _), RewriteTail(_, _, _)
TailCalls(x, f, path) ==
    IF IsSelfCall(x, f) THEN {path}
    ELSE UNION {TailCalls(x.a[i], f, Append(path, i)) : i \in TailPositions(x)}
RewriteTail(x, f, path) ==
    IF IsSelfCall(x, f) THEN Recur(Tail(x.a), path)
    ELSE [x EXCEPT !.a = [i \in DOMAIN @ |->
            IF i \in TailPositions(x) THEN RewriteTail(@[i], f, Append(path, i)) ELSE @[i]]]

\* _transform.  A [tail] function that does not call itself, or does so elsewhere, is refused: its
\* attribute stays.
RECURSIVE LowerTail(_)
LowerTail(f) ==
    LET Inner(s) == IF s.e = "fun" THEN LowerTail(s) ELSE s
        body == BodyOf(f)
        g == IF IsBlock(body) THEN [f EXCEPT !.a[1].a = [i \in DOMAIN @ |-> Inner(@[i])]] ELSE f
        all == SelfCalls(BodyOf(g), g, <<>>)
    IN IF "tail" \notin g.attrs \/ all = {} \/ TailCalls(BodyOf(g), g, <<>>) # all THEN g
       ELSE [g EXCEPT !.attrs = @ \ {"tail"},
                      !.a[1] = Block(<<>>, Loop(RewriteTail(BodyOf(g), g, <<>>), g.ps), g.rty)]
LowerTailLoops(prog) == [n \in DOMAIN prog |-> LowerTail(prog[n])]
\* What the pass reports: a [tail] attribute it could not honour.
TailErrors(prog) ==
    \E n \in DOMAIN prog : \E x \in NodeSet(prog[n]) : x.e = "fun" /\ "tail" \in x.attrs

\* block_exits: every block and every return a number of its own; here its place, which is as unique.
RECURSIVE Stamp(_, _)
Stamp(x, path) ==
    LET y == [x EXCEPT !.a = [i \in DOMAIN @ |-> Stamp(@[i], Append(path, i))]]
    IN CASE x.e = "block" -> [y EXCEPT !.tag = <<"@", "blk", ToString(path)>>]
         [] x.e = "return" -> [y EXCEPT !.k = path]
         [] OTHER -> y
AssignBlockExits(prog) == [n \in DOMAIN prog |-> Stamp(prog[n], <<>>)]
====
