---- MODULE SyncInference ----
(* Which functions and function values can never suspend (lowering/sync_inference.py): every node of
   the flow begins sync and falls when one of its sources does.  A node is a function, a function that
   may suspend otherwise than by its own function parameters (mfn), or a place that holds a function:
   a local, a result or a field, with the path to it inside a struct.

   Methods are direct calls here, and no class extends another. *)
EXTENDS WholeProgram

\* Foreign functions that are authored sync.
SyncForeign == {<<"ext", "lazy_release">>}

RECURSIVE FunPaths(_), Retyped(_, _, _)
FunPaths(ty) ==
    CASE ty.t = "fun" -> {<<>>}
      [] ty.t = "struct" ->
           UNION {{<<ty.names[i]>> \o p : p \in FunPaths(ty.types[i])} : i \in DOMAIN ty.names}
      [] OTHER -> {}
\* _retype: the function at each path of a place is sync unless its node fell.
FieldOfNode(node, path) == [node EXCEPT ![Len(node)] = @ \o path]
Retyped(ty, node, fallen) ==
    CASE ty.t = "fun" -> [ty EXCEPT !.sync = node \notin fallen]
      [] ty.t = "struct" ->
           [ty EXCEPT !.types = [i \in DOMAIN @ |-> Retyped(@[i], FieldOfNode(node, <<ty.names[i]>>), fallen)]]
      [] OTHER -> ty

Unknown == <<"unknown">>
FnNode(n) == <<"fn", n>>
MaybeNode(n) == <<"mfn", n>>
VarNode(f, n, path) == <<"var", f, n, path>>
FieldNode(p, path) == <<"field", p.cls, p.f, path>>
ResultNode(f, path) == <<"result", f, path>>

\* What the function at a path of a value comes from; a null function constrains nothing.
RECURSIVE FlowSources(_, _, _)
FlowSources(f, p, path) ==
    CASE p.k = "fn" /\ path = <<>> -> {FnNode(p.fn)}
      [] p.k = "var" -> {VarNode(f, p.n, path)}
      [] p.k = "ofield" -> {FieldNode(p, path)}
      [] p.k = "sfield" -> FlowSources(f, p.a[1], <<p.f>> \o path)
      [] p.k = "struct" /\ path # <<>> ->
           UNION {FlowSources(f, p.a[i], Tail(path)) : i \in {j \in DOMAIN p.names : p.names[j] = path[1]}}
      [] p.k = "tstruct" /\ path # <<>> ->
           UNION {FlowSources(f, p.a[i], Tail(path)) : i \in {j \in DOMAIN p.ty.names : p.ty.names[j] = path[1]}}
      [] p.k \in {"null", "zero"} -> {}
      [] OTHER -> {Unknown}
Location(f, p, path) == IF IsVar(p) THEN VarNode(f, p.n, path) ELSE FieldNode(p, path)
Into(srcs, dst) == srcs \X {dst}
Assigns(f, t, value) ==
    UNION {Into(FlowSources(f, value, path), Location(f, t, path)) : path \in FunPaths(TypeOf(t))}

\* _param_aliases: the function parameters of a function and the locals that only ever hold one.
DefSources(fn, n) ==
    UNION {LET op == fn.ops[i]
           IN CASE Is(op, "move") -> {op.s}
                [] Is(op, "phi") -> {op.srcs[j][2] : j \in DOMAIN op.srcs}
                [] OTHER -> {None}
           : i \in {j \in DOMAIN fn.ops : n \in Names(Writes(fn.ops[j]))}}
RECURSIVE AliasesAmong(_, _)
AliasesAmong(defs, names) ==
    LET kept == {n \in names : n \in DOMAIN defs => \A s \in defs[n] : IsVar(s) /\ s.n \in names}
    IN IF kept = names THEN names ELSE AliasesAmong(defs, kept)
ParamAliases(fn) ==
    LET written == Names(UNION {Writes(fn.ops[i]) : i \in DOMAIN fn.ops})
        funs == Names({p \in ToSet(fn.params) : p.ty.t = "fun"})
    IN AliasesAmong([n \in written |-> DefSources(fn, n)], (funs \ written) \cup written)
OwnParam(fn, p) == IsVar(p) /\ p.n \in ParamAliases(fn)

\* call_sources: groups of sources a call may suspend through, and whether a group counts against
\* the caller when its own function parameters do not.
Group(srcs, counts) == [srcs |-> srcs, counts |-> counts]
FunArguments(callee) == UNION {{i} \X FunPaths(callee.params[i].ty) : i \in 2 .. Len(callee.params)}
Argument(op, i) == IF op.p.k = "struct" /\ i - 1 \in DOMAIN op.p.a THEN op.p.a[i - 1] ELSE None
CallSources(app, fn, op) ==
    LET Handed(callee) ==
            {LET arg == Argument(op, a[1])
             IN Group(FlowSources(fn.name, arg, a[2]), ~(a[2] = <<>> /\ OwnParam(fn, arg))) : a \in FunArguments(callee)}
    IN IF op.fn.k # "fn" THEN {Group(FlowSources(fn.name, op.fn, <<>>), ~OwnParam(fn, op.fn))}
       ELSE {Group({MaybeNode(op.fn.fn)}, TRUE)}
              \cup (IF op.fn.fn \in DOMAIN app THEN Handed(app[op.fn.fn]) ELSE {})
CallIsSync(app, fn, op, fallen) == \A g \in CallSources(app, fn, op) : g.srcs \cap fallen = {}

Foreign(app) == UNION {NamedIn(AllParams(op)) : op \in UNION {ToSet(app[n].ops) : n \in DOMAIN app}} \ DOMAIN app

(* _build_flow: which node falls with which. *)
ParamEdges(callee, op, f) ==
    UNION {Into(FlowSources(f, Argument(op, a[1]), a[2]), VarNode(callee.name, callee.params[a[1]].n, a[2])) :
             a \in FunArguments(callee)}
CallEdges(app, fn, op) ==
    LET gs == CallSources(app, fn, op)
        known == op.fn.k = "fn" /\ op.fn.fn \in DOMAIN app
    IN UNION {Into(g.srcs, FnNode(fn.name)) : g \in gs}
         \cup UNION {Into(g.srcs, MaybeNode(fn.name)) : g \in {x \in gs : x.counts}}
         \cup (IF known THEN ParamEdges(app[op.fn.fn], op, fn.name) ELSE {})
         \cup (IF op.t = None THEN {}
               ELSE UNION {Into({IF known THEN ResultNode(op.fn.fn, path) ELSE Unknown}, Location(fn.name, op.t, path)) :
                             path \in FunPaths(TypeOf(op.t))})
OpEdges(app, fn, op) ==
    CASE Is(op, "call") -> CallEdges(app, fn, op)
      [] Is(op, "move") -> Assigns(fn.name, op.t, op.s)
      [] Is(op, "phi") -> UNION {Assigns(fn.name, op.t, op.srcs[i][2]) : i \in DOMAIN op.srcs}
      [] Is(op, "ret") -> UNION {Into(FlowSources(fn.name, op.v, path), ResultNode(fn.name, path)) :
                                   path \in FunPaths(TypeOf(op.v))}
      [] OTHER -> {}
ParamNodes(fn) ==
    UNION {{VarNode(fn.name, p.n, path) : path \in FunPaths(p.ty)} : p \in ToSet(fn.params)}
UnseenCallers_None(app, taken) == {}
UnseenCallers(app, taken) == {Unknown} \X UNION {ParamNodes(app[n]) : n \in taken}
FlowEdges(app) ==
    UNION {OpEdges(app, app[n], op) : <<n, op>> \in UNION {{n} \X ToSet(app[n].ops) : n \in DOMAIN app}}
      \cup UnseenCallers(app, AddressTaken(app) \cap DOMAIN app)
      \cup {Unknown} \X UNION {{FnNode(n), MaybeNode(n)} : n \in Foreign(app) \ SyncForeign}
Pinned(app) == UNION {{FnNode(n), MaybeNode(n)} : n \in {m \in DOMAIN app : app[m].sync}}
\* solve
RECURSIVE Falling(_, _, _)
Falling(edges, fallen, pinned) ==
    LET next == fallen \cup ({e[2] : e \in {x \in edges : x[1] \in fallen}} \ pinned)
    IN IF next = fallen THEN fallen ELSE Falling(edges, next, pinned)
Fallen(app) == Falling(FlowEdges(app), {Unknown}, Pinned(app))

(* materialise: the answer is written on every reference and every declaration. *)
RECURSIVE WithSync(_, _, _)
WithSync(p, f, fallen) ==
    LET q == [p EXCEPT !.a = [i \in DOMAIN @ |-> WithSync(@[i], f, fallen)]]
    IN CASE p.k = "fn" -> [q EXCEPT !.sync = FnNode(p.fn) \notin fallen]
         [] p.k = "var" -> [q EXCEPT !.ty = Retyped(@, VarNode(f, p.n, <<>>), fallen)]
         [] p.k = "ofield" -> [q EXCEPT !.ty = Retyped(@, FieldNode(p, <<>>), fallen)]
         [] OTHER -> q
Materialise(app, fn, fallen) ==
    LET R(p) == WithSync(p, fn.name, fallen)
        At(op) == IF Is(op, "call") /\ op.fn.k = "fn"
                  THEN [MapParams(op, R, R) EXCEPT !.fn.sync = CallIsSync(app, fn, op, fallen)]
                  ELSE MapParams(op, R, R)
    IN [fn EXCEPT !.sync = FnNode(fn.name) \notin fallen,
                  !.params = [i \in DOMAIN @ |-> R(@[i])], !.locals = {R(v) : v \in @},
                  !.ops = [i \in DOMAIN @ |-> At(@[i])]]
MaterialiseAll(app, fallen) == [n \in DOMAIN app |-> Materialise(app, app[n], fallen)]
InferSync(app) == MaterialiseAll(app, Fallen(app))
====
