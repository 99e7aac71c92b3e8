---- MODULE Closures ----
(* Deferred bindings and lambdas become objects: lowering/lower_lazy_lets.py puts the value of a
   [lazy] binding in a closure that its stub runs once, and lowering/lambdas.py makes every lambda
   a function, or a method of a class that holds what it captured. *)
EXTENDS Lang

(* Deferred bindings. *)
\* check_lazy_forward_refs: a deferred binding may not read a plain one bound after it in its block.
BindsAt(s) == CASE s.e = "let" -> {s.n} [] s.e = "destructure" -> ToSet(NamesOf(s.targets)) [] OTHER -> {}
IsDeferred(s) == s.e = "let" /\ s.lazy
ForwardRefs(block) ==
    LET ss == Statements(block)
    IN {<<ss[i].n, n>> : <<i, n>> \in
          {p \in (DOMAIN ss) \X UNION {BindsAt(ss[j]) : j \in DOMAIN ss} :
             /\ IsDeferred(ss[p[1]])
             /\ \E x \in NodeSet(ss[p[1]].a[1]) : x.e = "named" /\ x.n = p[2]
             /\ \E j \in p[1] + 1 .. Len(ss) : p[2] \in BindsAt(ss[j]) /\ ~IsDeferred(ss[j])}}
LazyErrors(prog) ==
    UNION {UNION {ForwardRefs(x) : x \in {y \in NodeSet(prog[n]) : IsBlock(y)}} : n \in DOMAIN prog}

\* lower_lazy_lets: names are unique, so one map from names to types finds every reference.
RECURSIVE ThroughStubs(_, _)
ThroughStubs(x, lazies) ==
    LET y == [x EXCEPT !.a = [i \in DOMAIN x.a |-> ThroughStubs(x.a[i], lazies)]]
    IN CASE x.e = "named" /\ x.n \in DOMAIN lazies -> Lazy(x.n, lazies[x.n])
         [] IsDeferred(x) -> [y EXCEPT !.thunk = TRUE, !.a[1] = Lambda(<<>>, @, TCallable(<<>>, x.ty), x.n)]
         [] OTHER -> y
LowerLazyLets(prog) ==
    LET lets == {x \in UNION {NodeSet(prog[n]) : n \in DOMAIN prog} : IsDeferred(x)}
        lazies == [n \in {x.n : x \in lets} |-> (CHOOSE x \in lets : x.n = n).ty]
    IN [n \in DOMAIN prog |-> ThroughStubs(prog[n], lazies)]

(* Lambdas.  scope maps the variables around an expression to their types, TStub(ty) for a
   deferred one. *)
TStub(ty) == [t |-> "stub", of |-> ty]
Typed(ps) == [n \in ToSet(NamesOf(ps)) |-> ps[CHOOSE i \in DOMAIN ps : ps[i].n = n].ty]
Variables(x) ==
    CASE x.e \in {"lambda", "fun"} -> Typed(x.ps)
      [] x.e = "block" ->
           LET ss == ToSet(Statements(x))
               lets == {s \in ss : s.e = "let"}
               targets == UNION {ToSet(s.targets) : s \in {s \in ss : s.e = "destructure"}}
               Ty(s) == IF IsDeferred(s) THEN TStub(s.ty) ELSE s.ty
           IN [n \in {s.n : s \in lets} |-> Ty(CHOOSE s \in lets : s.n = n)]
                @@ [n \in {v.n : v \in targets} |-> (CHOOSE v \in targets : v.n = n).ty]
      [] OTHER -> [n \in {} |-> TInt]

\* __create_unique_name: by the function around the lambda and its place in the source; copies that
\* inlining made are numbered in the order of the walk.
RECURSIVE LambdaPaths(_, _, _)
LambdaPaths(x, id, path) ==
    (IF x.e = "lambda" /\ x.id = id THEN {path} ELSE {})
      \cup UNION {LambdaPaths(x.a[i], id, Append(path, i)) : i \in DOMAIN x.a}
\* Children come before what holds them.
Precedes(p, q) ==
    \/ \E k \in DOMAIN p \cap DOMAIN q : p[k] < q[k] /\ SubSeq(p, 1, k - 1) = SubSeq(q, 1, k - 1)
    \/ Len(p) > Len(q) /\ SubSeq(p, 1, Len(q)) = q
LambdaName(host, id, path) ==
    LET earlier == {p \in LambdaPaths(host, id, <<>>) : Precedes(p, path)}
        base == <<"@", "lambda">> \o Tail(host.n) \o Tail(id)
    IN IF earlier = {} THEN base ELSE Append(base, "$dup" \o ToString(Cardinality(earlier) + 1))
ClosureField(n) == IF n = This THEN <<"@", "$this">> ELSE n

\* __discover_captures.
Captures(lam, scope) ==
    {x.n : x \in {y \in NodeSet(lam.a[1]) : y.e \in {"named", "lazy"} /\ y.n \in DOMAIN scope}}
      \ ToSet(NamesOf(lam.ps))
\* A capture that has the type of the lambda is taken for the binding of the lambda itself.
SelfNames(captures, lam, scope) == {n \in captures : scope[n] = lam.ty}

\* __redirect_references_to_class.
RECURSIVE Redirect(_, _, _, _, _)
Redirect(x, captured, self, name, scope) ==
    LET y == [x EXCEPT !.a = [i \in DOMAIN x.a |-> Redirect(x.a[i], captured, self, name, scope)]]
    IN CASE x.e = "named" /\ x.n \in captured ->
              Dot(Named(This, TPtr), name, ClosureField(x.n), scope[x.n])
         [] x.e = "named" /\ x.n \in self -> Method(Named(This, TPtr), name)
         [] x.e = "lazy" /\ x.n \in captured -> [y EXCEPT !.cls = name]
         [] OTHER -> y

\* The lambda as a function, and what stands where it stood.
CaptureRead(n, scope) ==
    IF scope[n].t = "stub" THEN [Lazy(n, scope[n].of) EXCEPT !.stub = TRUE] ELSE Named(n, scope[n])
Exported(lam, name, scope) ==
    LET all == Captures(lam, scope)
        self == SelfNames(all, lam, scope)
        captured == all \ self
        order == Listed(captured)
        body == Redirect(lam.a[1], captured, self, name, scope)
        attrs == IF captured = {} THEN {} ELSE {"member"}
    IN [fun |-> Fun(name, lam.ps, Block(<<>>, body, lam.ty.r), lam.ty.r, attrs),
        value |-> IF captured = {} THEN Named(name, lam.ty)
                  ELSE Method(New(name, [i \in DOMAIN order |-> ClosureField(order[i])],
                                  [i \in DOMAIN order |-> CaptureRead(order[i], scope)]), name)]

\* __scan_function_and_export_lambdas: bottom-up, so a lambda captures what the ones in it captured.
\* The result is the expression and the functions that left it.
RECURSIVE Export(_, _, _, _)
Export(x, scope, host, path) ==
    LET inner == [i \in DOMAIN x.a |-> Export(x.a[i], Variables(x) @@ scope, host, Append(path, i))]
        y == [x EXCEPT !.a = [i \in DOMAIN inner |-> inner[i].x]]
        made == UNION {inner[i].made : i \in DOMAIN inner}
        out == Exported(y, LambdaName(host, x.id, path), scope)
    IN IF x.e = "lambda" THEN [x |-> out.value, made |-> made \cup {out.fun}] ELSE [x |-> y, made |-> made]
ConvertLambdas(prog) ==
    LET Receiver(f) == IF "member" \in f.attrs THEN This :> TPtr ELSE [n \in {} |-> TInt]
        out == [n \in DOMAIN prog |-> Export(prog[n], Receiver(prog[n]), prog[n], <<>>)]
        all == UNION {{out[n].x} \cup out[n].made : n \in DOMAIN prog}
    IN [n \in {f.n : f \in all} |-> CHOOSE f \in all : f.n = n]
====
