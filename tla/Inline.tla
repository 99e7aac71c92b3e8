---- MODULE Inline ----
(* lowering/ast_inline.py: calls of small functions are replaced by their bodies, and lambdas that
   are applied where they stand, or bound and called once, are applied.  Every copy of a body gets a
   suffix of its own; where the pass counts, the suffix is here the round and the place of the call. *)
EXTENDS Lang

SizeThreshold == 10
MaxIterations == 10

RECURSIVE SumOf(_)
SumOf(s) == IF s = <<>> THEN 0 ELSE Head(s) + SumOf(Tail(s))
\* _node_count: expressions and statements; a tuple of arguments and each parameter count as one.
RECURSIVE NodeCount(_)
NodeCount(x) ==
    LET own == CASE x.e = "seq" -> 0
                 [] x.e \in {"call", "new", "op", "pinset"} -> 2
                 [] x.e = "lambda" -> 2 + Len(x.ps)
                 [] x.e = "destructure" -> 1 + Len(x.targets)
                 [] OTHER -> 1
    IN own + SumOf([i \in DOMAIN x.a |-> NodeCount(x.a[i])])
NameRefs(x, n) == Len(SelectSeq(Nodes(x), LAMBDA y : y.e = "named" /\ y.n = n))

\* _build_catalog: free functions that are marked or small, and reach no call of themselves.
CalledNames(x) == {y.a[1].n : y \in {z \in NodeSet(x) : z.e = "call" /\ z.a[1].e = "named"}}
IsInlinable(f) ==
    /\ f.attrs \cap {"member", "future", "never"} = {} /\ IsBlock(BodyOf(f))
    /\ "inline" \in f.attrs \/ NodeCount(BodyOf(f)) < SizeThreshold
RECURSIVE CalleesOf(_, _)
CalleesOf(seen, callees) ==
    LET more == seen \cup UNION {callees[n] : n \in seen}
    IN IF more = seen THEN seen ELSE CalleesOf(more, callees)
Catalog(prog) ==
    LET candidates == {n \in DOMAIN prog : IsInlinable(prog[n])}
        callees == [n \in candidates |-> CalledNames(BodyOf(prog[n])) \cap candidates]
    IN {n \in candidates : n \notin CalleesOf(callees[n], callees)}

\* The copy of a name in the expansion of the call at a place.
Copy_Shared(n, at) == Append(n, "$inl")
Copy(n, at) == Append(n, "$inl" \o ToString(at))
CopyParam(p, at) == [p EXCEPT !.n = Copy(@, at)]
\* Every reference to a name of the set, and every binding of one.
RECURSIVE RenameTree(_, _, _)
RenameTree(x, names, at) ==
    LET y == [x EXCEPT !.a = [i \in DOMAIN x.a |-> RenameTree(x.a[i], names, at)]]
        In(ps) == [i \in DOMAIN ps |-> IF ps[i].n \in names THEN CopyParam(ps[i], at) ELSE ps[i]]
    IN CASE x.e \in {"named", "let"} /\ x.n \in names -> CopyParam(y, at)
         [] x.e = "lambda" -> [y EXCEPT !.ps = In(@)]
         [] x.e = "destructure" -> [y EXCEPT !.targets = In(@)]
         [] OTHER -> y
Prologue(ps, args, at) == [i \in DOMAIN ps |-> Let(Copy(ps[i].n, at), ps[i].ty, args[i])]

\* _inline_function_call.  _rename_let_vars looks at the statements of the body itself only.
LetNames(ss) == {ss[i].n : i \in {j \in DOMAIN ss : ss[j].e = "let"}}
\* A block of no statements is its value.
AsValue(x) == IF IsBlock(x) /\ Statements(x) = <<>> THEN ValueOf(x) ELSE x
InlineCall(call, f, at) ==
    LET body == BodyOf(f)
        ss == Statements(body)
        names == LetNames(ss) \cup ToSet(NamesOf(f.ps))
        copied == [i \in DOMAIN ss |-> RenameTree(ss[i], names, at)]
    IN AsValue(Block(Prologue(f.ps, Tail(call.a), at) \o copied, RenameTree(ValueOf(body), names, at), f.rty))

\* _try_inline_call_at_stmt: the call is all of a binding, a return or an action.
CallIn(s) ==
    IF s.e \in {"let", "return", "action"} /\ s.a[1].e = "call" /\ s.a[1].a[1].e = "named"
    THEN s.a[1].a[1].n ELSE <<>>
Deferred(s) == s.e = "let" /\ s.lazy
InlineAt(s, f, prog, catalog, at) ==
    IF CallIn(s) \in catalog \ {f.n} /\ ~Deferred(s)
    THEN [s EXCEPT !.a[1] = InlineCall(s.a[1], prog[CallIn(s)], at)] ELSE s

\* _inline_let_bound: parameters become bindings, and all the body binds, however deep, is renamed.
Bound(x) ==
    UNION {CASE y.e = "let" -> {y.n}
             [] y.e = "lambda" -> ToSet(NamesOf(y.ps))
             [] y.e = "destructure" -> ToSet(NamesOf(y.targets))
             [] OTHER -> {} : y \in NodeSet(x)}
InlineLetBound(body, ps, args, ty, at) ==
    LET renamed == RenameTree(body, Bound(body) \cup ToSet(NamesOf(ps)), at)
    IN AsValue(IF IsBlock(renamed)
               THEN Block(Prologue(ps, args, at) \o Statements(renamed), ValueOf(renamed), ty)
               ELSE Block(Prologue(ps, args, at), renamed, ty))

\* _beta_reduce_lambda: only over plain parameters and trivial arguments, so that it ends.
RECURSIVE IsCheap(_)
IsCheap(x) == x.e \in {"named", "lit"} \/ (x.e \in {"dot", "method"} /\ IsCheap(x.a[1]))
Reducible(lam, args) ==
    /\ Len(lam.ps) = Len(args)
    /\ \A i \in DOMAIN args : IsCheap(args[i]) /\ lam.ps[i].ty.t \notin {"fun", "struct"}

\* _beta_reduce_expressions: bottom-up; a block is reduced again with the lambdas it binds itself.
OnceCalled(ss) ==
    LET refs(i, j) == NameRefs(ss[j], ss[i].n)
        once == {i \in DOMAIN ss :
                   /\ ss[i].e = "let" /\ ss[i].a[1].e = "lambda"
                   /\ \E j \in i + 1 .. Len(ss) :
                        refs(i, j) = 1 /\ \A h \in (i + 1 .. Len(ss)) \ {j} : refs(i, h) = 0}
    IN [n \in {ss[i].n : i \in once} |-> ss[CHOOSE i \in once : ss[i].n = n].a[1]]
Unused(ss, lams) ==
    {i \in DOMAIN ss :
       /\ ss[i].e = "let" /\ ss[i].n \in DOMAIN lams
       /\ \A j \in DOMAIN ss : NameRefs(ss[j], ss[i].n) = 0 \/ (ss[j].e = "let" /\ ss[j].n = ss[i].n)}
WithoutUnused(ss, lams) == Pick(ss, DOMAIN ss \ Unused(ss, lams))
\* A block as its statements and its value, and back.
ListOf(block) == Append(Statements(block), Ret(ValueOf(block)))
OfList(block, ss) == [block EXCEPT !.a = Append(Front(ss), Last(ss).a[1])]

RECURSIVE Reduce(_, _, _, _, _)
ReduceList(ss, lams, prog, catalog, at) ==
    WithoutUnused([i \in DOMAIN ss |-> Reduce(ss[i], lams, prog, catalog, Append(at, i))], lams)
ReduceHere(x, lams, prog, catalog, at) ==
    LET callee == IF x.e = "call" THEN x.a[1] ELSE Lit(0)
        fitting == {n \in DOMAIN lams : Reducible(lams[n], Tail(x.a))}
        target == CASE callee.e = "lambda" /\ Reducible(callee, Tail(x.a)) ->
                         [body |-> callee.a[1], ps |-> callee.ps, ty |-> callee.ty.r]
                    [] callee.e = "named" /\ callee.n \in fitting ->
                         LET lam == lams[callee.n] IN [body |-> lam.a[1], ps |-> lam.ps, ty |-> lam.ty.r]
                    [] callee.e = "named" /\ callee.n \in catalog ->
                         LET f == prog[callee.n] IN [body |-> BodyOf(f), ps |-> f.ps, ty |-> f.rty]
                    [] OTHER -> [ty |-> TUnit]
    IN IF x.e = "block" THEN OfList(x, ReduceList(ListOf(x), OnceCalled(ListOf(x)), prog, catalog, at))
       ELSE IF x.e = "call" /\ DOMAIN target # {"ty"}
            THEN InlineLetBound(target.body, target.ps, Tail(x.a), target.ty, at)
       ELSE x
Reduce(x, lams, prog, catalog, at) ==
    ReduceHere([x EXCEPT !.a = [i \in DOMAIN @ |-> Reduce(@[i], lams, prog, catalog, Append(at, i))]],
               lams, prog, catalog, at)

\* _rewrite_function.
RewriteFunction(f, prog, catalog, at) ==
    LET ss == ListOf(BodyOf(f))
        InlineCalls == [i \in DOMAIN ss |-> InlineAt(ss[i], f, prog, catalog, Append(at, i))]
        Reduced(first) == ReduceList(first, OnceCalled(first), prog, catalog, at)
    IN IF ~IsBlock(BodyOf(f)) THEN f ELSE [f EXCEPT !.a[1] = OfList(@, Reduced(InlineCalls))]

\* inline_ast: rounds until nothing changes; members of classes are not rewritten.  A round takes
\* every callee as it was before the round.
RECURSIVE InlineRounds(_, _)
InlineRound(prog, catalog, round) ==
    [n \in DOMAIN prog |-> IF "member" \in prog[n].attrs THEN prog[n]
                           ELSE RewriteFunction(prog[n], prog, catalog, <<round>>)]
AfterRound(prog, next, round) == IF next = prog THEN prog ELSE InlineRounds(next, round + 1)
InlineRounds(prog, round) ==
    IF round > MaxIterations \/ Catalog(prog) = {} THEN prog
    ELSE AfterRound(prog, InlineRound(prog, Catalog(prog), round), round)

\* _flatten_block_values: a block whose value is a block is one block.
RECURSIVE Flattened(_)
Unnested(x) == IF IsBlock(x) /\ IsBlock(ValueOf(x)) THEN [x EXCEPT !.a = Front(@) \o Last(@).a] ELSE x
Flattened(x) == Unnested([x EXCEPT !.a = [i \in DOMAIN x.a |-> Flattened(x.a[i])]])
FlattenAll(prog) == [n \in DOMAIN prog |-> Flattened(prog[n])]
InlineAst(prog) == FlattenAll(InlineRounds(prog, 1))
====
