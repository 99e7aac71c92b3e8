---- MODULE DeferAwaits ----
(* Deferred awaits (lowering/defer_awaits.py): a call that may suspend is awaited where its result
   is used.  Its register becomes a pending value; copies and field reads of it are virtual, a phi
   over it is a pending join, and every other reader gets an Await of its own in front of it. *)
EXTENDS Ir

\* A call that becomes a tail call: its register is all that the next operation returns.
TailCalled(fn, k) ==
    LET op == fn.ops[k]
        next == fn.ops[k + 1]
    IN /\ k < Len(fn.ops) /\ Is(op, "call") /\ ~op.musttail /\ op.t # None /\ IsVar(op.t)
       /\ Is(next, "ret") /\ IsVar(next.v) /\ next.v.n = op.t.n /\ SameType(TypeOf(op.t), fn.result)
Initialises(op, obj) ==
    Is(op, "move") /\ op.t.k = "ofield" /\ IsVar(op.t.a[1]) /\ op.t.a[1].n = obj.n

\* A chain of field reads: where it starts, the fields it goes through, and the chain again.
RECURSIVE BaseOf(_), PathOf(_), Project(_, _)
BaseOf(p) == IF p.k = "sfield" THEN BaseOf(p.a[1]) ELSE p
PathOf(p) == IF p.k = "sfield" THEN Append(PathOf(p.a[1]), p.f) ELSE <<>>
Project(root, path) == IF path = <<>> THEN root ELSE Project(StructField(root, Head(path)), Tail(path))

(* The marked variables: name -> the variable, the root it is a copy or a field of, and the path. *)
Root(v) == [var |-> v, root |-> v, path |-> <<>>]
PendingRoots(fn) ==
    LET read == Names(UNION {Reads(fn.ops[i]) : i \in DOMAIN fn.ops})
    IN {k \in DOMAIN fn.ops : /\ MaySuspend(fn.ops[k]) /\ fn.ops[k].t # None /\ IsVar(fn.ops[k].t)
                              /\ fn.ops[k].t.n \in read /\ ~TailCalled(fn, k)}
Whole(p, of, marked) ==
    /\ IsVar(p) /\ p.n \in DOMAIN marked
    /\ marked[p.n].path = <<>> /\ SameType(p.ty, marked[p.n].root.ty) /\ SameType(p.ty, TypeOf(of))
Virtual(op, marked) ==
    /\ Is(op, "move") /\ ~op.keep /\ IsVar(op.t)
    /\ IsVar(BaseOf(op.s)) /\ BaseOf(op.s).n \in DOMAIN marked
PendingJoin(op, marked, read) ==
    /\ Is(op, "phi") /\ IsVar(op.t) /\ op.t.n \in read
    /\ \E i \in DOMAIN op.srcs : Whole(op.srcs[i][2], op.t, marked)
MarkOf(op, marked) ==
    LET base == marked[BaseOf(op.s).n]
    IN [var |-> op.t, root |-> base.root, path |-> base.path \o PathOf(op.s)]
\* Repeated because a copy may stand before the definition of its source.
RECURSIVE Marked(_, _, _)
Marked(ops, marked, read) ==
    LET virtual == {k \in DOMAIN ops : Virtual(ops[k], marked) /\ ops[k].t.n \notin DOMAIN marked}
        joins == {k \in DOMAIN ops : PendingJoin(ops[k], marked, read) /\ ops[k].t.n \notin DOMAIN marked}
        Mark(k) == IF k \in virtual THEN MarkOf(ops[k], marked) ELSE Root(ops[k].t)
        At(n) == CHOOSE k \in virtual \cup joins : ops[k].t.n = n
    IN IF virtual \cup joins = {} THEN marked
       ELSE Marked(ops, [n \in DOMAIN marked \cup {ops[k].t.n : k \in virtual \cup joins} |->
                           IF n \in DOMAIN marked THEN marked[n] ELSE Mark(At(n))], read)
RootNames(marked) == {n \in DOMAIN marked : marked[n].root.n = n}
Pending(v) == Var(Append(v.n, "$pending"), WrapReturnType(v.ty))

\* What realises the marked variables among those a place reads: an await of every root, the
\* projections, and the names to read instead.
Awaited(n, site) == n \o <<"$aw">> \o site
Realise(read, marked, site, returned) ==
    LET used == read \cap DOMAIN marked
        root == {marked[n].root : n \in used}
        virtual == {n \in used : marked[n].root.n # n}
        At(v) == Var(Awaited(v.n, site), v.ty)
        rs == Listed(root)
        vs == Listed(virtual)
    IN [pre |-> [i \in DOMAIN rs |-> Await(At(rs[i]), Pending(rs[i]), returned)]
                  \o [i \in DOMAIN vs |-> Move(At(marked[vs[i]].var),
                                               Project(At(marked[vs[i]].root), marked[vs[i]].path))],
        ren |-> [n \in used \cup Names(root) |-> Awaited(n, site)]]

\* An edge into a join: the sources of its phis that have to be there are realised on the edge.
EdgeSite(join, pred, i) == join \o pred \o <<ToString(i)>>
EdgeRealises(phis, i, pred, marked) ==
    LET value == SourceFor(phis[i], pred)
    IN ~(phis[i].t.n \in RootNames(marked) /\ Whole(value, phis[i].t, marked))
EdgePre(phis, join, pred, marked) ==
    Concat([i \in DOMAIN phis |->
              IF ~EdgeRealises(phis, i, pred, marked) THEN <<>>
              ELSE Realise(Names(LiveVars(SourceFor(phis[i], pred))), marked,
                           EdgeSite(join, pred, i), FALSE).pre])
EdgeSource(phis, i, join, pred, marked) ==
    LET value == SourceFor(phis[i], pred)
        there == RenameVars(value, Realise(Names(LiveVars(value)), marked,
                                           EdgeSite(join, pred, i), FALSE).ren)
    IN IF ~EdgeRealises(phis, i, pred, marked) THEN Pending(marked[value.n].root)
       ELSE IF phis[i].t.n \in RootNames(marked)
            THEN WrapValue(there, WrapReturnType(phis[i].t.ty)) ELSE there
DeferPhi(phi, phis, join, marked) ==
    LET i == CHOOSE j \in DOMAIN phis : phis[j] = phi
    IN Phi(IF phi.t.n \in RootNames(marked) THEN Pending(phi.t) ELSE phi.t,
           [j \in DOMAIN phi.srcs |->
              <<phi.srcs[j][1], EdgeSource(phis, i, join, phi.srcs[j][1], marked)>>])

(* The new operations of the function, each with what comes before it.  The stores that follow an
   allocation and initialise its object are its run: what they read is there before it. *)
RunFrom(ops, k) ==
    {j \in k + 1 .. Len(ops) : \A h \in k + 1 .. j : Initialises(ops[h], ops[k].t)}
Runs_None(ops) == [k \in DOMAIN ops |-> {}]
Runs(ops) ==
    [k \in DOMAIN ops |-> IF Is(ops[k], "new") /\ IsVar(ops[k].t) THEN RunFrom(ops, k) ELSE {}]

Realised(ops, k, run, marked, site, returned) ==
    LET r == Realise(Names(UNION {Reads(ops[j]) : j \in {k} \cup run}), marked, site, returned)
        Renamed(op) ==
            LET q == RenameOp(op, r.ren)
            IN IF Is(op, "call") /\ op.t # None /\ IsVar(op.t) /\ op.t.n \in RootNames(marked)
               THEN [q EXCEPT !.t = Pending(op.t), !.deferred = TRUE] ELSE q
    IN [pre |-> r.pre, ops |-> [i \in 1 .. 1 + Cardinality(run) |-> Renamed(ops[k + i - 1])]]
DeferOps(fn, marked, runs, block) ==
    LET ops == fn.ops
        inRun == UNION {runs[k] : k \in DOMAIN ops}
        gone == {k \in DOMAIN ops : Virtual(ops[k], marked)}
        Before(k) == {j \in 1 .. k - 1 : ~Is(ops[j], "phi") /\ j \notin gone}
        Falls(k) == Before(k) # {} /\ FallsThrough(ops[Max(Before(k))])
        Edge(k) == CASE Is(ops[k], "label") /\ k > 1 /\ Falls(k) ->
                            EdgePre(PhisAt(ops, ops[k].n), ops[k].n, block[k - 1], marked)
                     [] Is(ops[k], "jump") -> EdgePre(PhisAt(ops, ops[k].n), ops[k].n, block[k], marked)
                     [] OTHER -> <<>>
        Returned(op) == Is(op, "ret") /\ Whole(op.v, op.v, marked) /\ SameType(op.v.ty, fn.result)
        At(k) == CASE k \in gone \cup inRun -> [pre |-> <<>>, ops |-> <<>>]
                   [] k \notin gone \cup inRun /\ Is(ops[k], "phi") ->
                        [pre |-> <<>>, ops |-> <<DeferPhi(ops[k], PhisAt(ops, block[k]), block[k], marked)>>]
                   [] OTHER -> LET r == Realised(ops, k, runs[k], marked, <<ToString(k)>>, Returned(ops[k]))
                               IN [r EXCEPT !.pre = Edge(k) \o @]
    IN [k \in DOMAIN ops |-> At(k)]
WithDeferred(fn, marked, at) ==
    [fn EXCEPT !.ops = Concat([k \in DOMAIN at |-> at[k].pre \o at[k].ops]),
               !.locals = {v \in @ : v.n \notin DOMAIN marked}
                            \cup {Pending(marked[n].root) : n \in DOMAIN marked}
                            \cup UNION {Writes(op) : op \in UNION {ToSet(at[k].pre) : k \in DOMAIN at}}]
DeferMarked(fn, marked) ==
    WithDeferred(fn, marked, DeferOps(fn, marked, Runs(fn.ops), BlockOf(fn.ops)))
DeferAwaits(fn) ==
    LET roots == PendingRoots(fn)
        first == [n \in {fn.ops[k].t.n : k \in roots} |->
                    Root(fn.ops[CHOOSE k \in roots : fn.ops[k].t.n = n].t)]
    IN IF roots = {} THEN fn
       ELSE DeferMarked(fn, Marked(fn.ops, first, Names(UNION {Reads(fn.ops[i]) : i \in DOMAIN fn.ops})))
====
