---- MODULE SsaPasses ----
(* The passes over the intermediate representation that run while it is in SSA form, and the one
   that leaves it: the queries of lowering/ssa_defs.py and the passes of the fixpoint of
   compiler.py that use them, each as an operator from a function to a function. *)
EXTENDS Ir

CONSTANT Discriminator   \* class name -> its discriminator; 0 for a class nothing dispatches on

FixpointRounds == 16
MaxChase == 8
Duplicable == {"var", "int", "null", "global", "fn"}

\* single_defs: the one source that defines each local, or None.
SingleDefs(fn) ==
    LET Sites(n) == {i \in DOMAIN fn.ops : n \in Names(Writes(fn.ops[i]))}
        Source(n) == LET i == CHOOSE i \in Sites(n) : TRUE
                     IN IF Cardinality(Sites(n)) = 1 /\ Is(fn.ops[i], "move") THEN fn.ops[i].s ELSE None
    IN [n \in Names(UNION {Writes(fn.ops[i]) : i \in DOMAIN fn.ops}) |-> Source(n)]
DefOf(defs, n) == IF n \in DOMAIN defs THEN defs[n] ELSE None

\* resolve_value: chase a parameter through copies and fields of packed structs.
RECURSIVE ResolveValue(_, _, _)
ResolveValue(p, defs, depth) ==
    CASE depth = 0 -> None
      [] depth > 0 /\ IsVar(p) ->
           LET d == DefOf(defs, p.n) IN IF d = None THEN None ELSE ResolveValue(d, defs, depth - 1)
      [] depth > 0 /\ p.k = "sfield" ->
           LET base == ResolveValue(p.a[1], defs, depth - 1)
           IN IF base.k # "struct" \/ ~Contains(base.names, p.f) THEN None
              ELSE LET value == base.a[CHOOSE i \in DOMAIN base.names : base.names[i] = p.f]
                       deep == ResolveValue(value, defs, depth - 1)
                   IN IF deep = None THEN value ELSE deep
      [] depth > 0 /\ p.k \in {"struct", "int", "null", "global", "fn"} -> p
      [] OTHER -> None

\* static_null: "yes", "no" or "unknown".
RECURSIVE StaticNull(_, _, _)
StaticNull(word, defs, depth) ==
    CASE word.k \in {"null", "zero"} -> "yes"
      [] word.k \notin {"null", "zero"} /\ TypeOf(word) = TNonNull -> "no"
      [] word.k \notin {"null", "zero"} /\ TypeOf(word) # TNonNull ->
           LET r == ResolveValue(word, defs, depth)
           IN IF depth = 0 \/ r = None \/ r = word THEN "unknown" ELSE StaticNull(r, defs, depth - 1)

\* static_int: the integer a parameter is known to be, as a set of at most one.
RECURSIVE StaticInt(_, _)
StaticInt(p, defs) ==
    CASE p.k = "eq" -> {IF v = p.c THEN 1 ELSE 0 : v \in StaticInt(p.a[1], defs)}
      [] p.k = "nulls" ->
           LET known == [i \in DOMAIN p.a |-> StaticNull(p.a[i], defs, MaxChase)]
               fits(i) == known[i] = IF p.nulls[i] THEN "yes" ELSE "no"
           IN IF \E i \in DOMAIN p.a : known[i] # "unknown" /\ ~fits(i) THEN {0}
              ELSE IF \A i \in DOMAIN p.a : known[i] # "unknown" THEN {1} ELSE {}
      [] OTHER -> LET r == ResolveValue(p, defs, MaxChase) IN IF r.k = "int" THEN {r.v} ELSE {}

\* branch_threading: a jump to a terminator becomes that terminator.
TerminatorAfter(ops, l) ==
    LET i == LabelAt(ops, l) IN IF i < Len(ops) THEN ops[i + 1] ELSE ops[i]
ThreadOnce(ops) ==
    [i \in DOMAIN ops |->
        IF Is(ops[i], "jump") /\ TerminatorAfter(ops, ops[i].n).o \in {"ret", "retvoid", "jump"}
        THEN TerminatorAfter(ops, ops[i].n) ELSE ops[i]]
RECURSIVE Threaded(_)
Threaded(ops) == LET next == ThreadOnce(ops) IN IF next = ops THEN ops ELSE Threaded(next)
ThreadBranches(fn) ==
    LET ops == Threaded(fn.ops)
    IN IF ops = fn.ops THEN fn ELSE StripUnusedOperations([fn EXCEPT !.ops = ops])

\* copy_propagation: a copy is forwarded into the operation that follows it, and goes when that
\* was its only reader.
ReadCount(ops, n) == Cardinality({i \in DOMAIN ops : n \in Names(Reads(ops[i]))})
Forwards(ops, i) ==
    /\ Is(ops[i], "move") /\ IsVar(ops[i].t) /\ IsVar(ops[i].s)
    /\ i < Len(ops) /\ ~Is(ops[i + 1], "label")
    /\ ops[i].t.n \in Names(Reads(ops[i + 1]))
RECURSIVE PropagateFrom(_, _)
PropagateFrom(ops, i) ==
    IF i > Len(ops) THEN <<>>
    ELSE IF Forwards(ops, i)
         THEN (IF ReadCount(ops, ops[i].t.n) = 1 THEN <<>> ELSE <<ops[i]>>)
                \o <<ReplaceVarOp(ops[i + 1], ops[i].t.n, ops[i].s)>> \o PropagateFrom(ops, i + 2)
         ELSE <<ops[i]>> \o PropagateFrom(ops, i + 1)
RECURSIVE PropagateCopies(_)
PropagateCopies(fn) ==
    IF \E i \in DOMAIN fn.ops : Forwards(fn.ops, i)
    THEN PropagateCopies(KeepMentioned(fn, PropagateFrom(fn.ops, 1))) ELSE fn

\* struct_folding: a field of a struct packed in this function is the value packed there.
RECURSIVE FoldReads(_, _)
FoldReads(p, defs) ==
    LET q == [p EXCEPT !.a = [i \in DOMAIN p.a |-> FoldReads(p.a[i], defs)]]
        base == ResolveValue(q.a[1], defs, MaxChase)
        field == base.a[CHOOSE i \in DOMAIN base.names : base.names[i] = q.f]
    IN IF q.k = "sfield" /\ IsVar(q.a[1])
       THEN IF base.k = "struct" /\ Contains(base.names, q.f) /\ field.k \in Duplicable
            THEN field ELSE q
       ELSE q
FoldStructReads(fn) ==
    LET defs == SingleDefs(fn)
        F(p) == FoldReads(p, defs)
    IN [fn EXCEPT !.ops = [i \in DOMAIN @ |-> MapParams(@[i], F, F)]]

\* discriminator_folding: the discriminator of an object made in this function is its class's.
\* ClassOf is the name of that class, or <<>> when it is not known.
RECURSIVE ClassOf(_, _, _, _)
ClassOf(p, newobjs, defs, depth) ==
    IF depth = 0 \/ ~IsVar(p) THEN <<>>
    ELSE IF p.n \in DOMAIN newobjs THEN newobjs[p.n]
    ELSE LET d == DefOf(defs, p.n) IN IF d = None THEN <<>> ELSE ClassOf(d, newobjs, defs, depth - 1)
RECURSIVE FoldDiscriminator(_, _, _)
FoldDiscriminator(p, newobjs, defs) ==
    LET q == [p EXCEPT !.a = [i \in DOMAIN p.a |-> FoldDiscriminator(p.a[i], newobjs, defs)]]
        cls == ClassOf(q.a[1], newobjs, defs, MaxChase)
    IN IF q.k # "disc" THEN q
       ELSE IF cls \in DOMAIN Discriminator /\ Discriminator[cls] # 0
            THEN Integer(Discriminator[cls]) ELSE q
ResolveKnownDiscriminators(fn) ==
    LET ops == fn.ops
        made == {i \in DOMAIN ops : Is(ops[i], "new") /\ IsVar(ops[i].t)}
        newobjs == [n \in {ops[i].t.n : i \in made} |->
                      ops[CHOOSE i \in made : /\ ops[i].t.n = n
                                              /\ \A j \in made : ops[j].t.n = n => j <= i].cls]
        defs == SingleDefs(fn)
        F(p) == FoldDiscriminator(p, newobjs, defs)
    IN IF made = {} THEN fn ELSE [fn EXCEPT !.ops = [i \in DOMAIN ops |-> MapParams(ops[i], F, F)]]

\* known_tags: a branch on a known value is a jump or nothing.
ResolveKnownTags(fn) ==
    LET defs == SingleDefs(fn)
        Known(op) == IF Is(op, "jumpif") THEN StaticInt(op.c, defs) ELSE {}
        Taken(op) == \E v \in Known(op) : (v # 0) # op.invert
        Hard(op) == IF Known(op) = {} THEN <<op>> ELSE IF Taken(op) THEN <<Jump(op.n)>> ELSE <<>>
        ops == Concat([i \in DOMAIN fn.ops |-> Hard(fn.ops[i])])
    IN IF \A i \in DOMAIN fn.ops : Known(fn.ops[i]) = {} THEN fn
       ELSE StripUnusedOperations([fn EXCEPT !.ops = ops])

\* deadstores: a store no operation reads goes; a call keeps its effect and loses its register.
DeadMove_Kept(op, reads) == Is(op, "move") /\ IsVar(op.t) /\ op.t.n \notin reads
DeadMove(op, reads) == Is(op, "move") /\ IsVar(op.t) /\ op.t.n \notin reads /\ ~op.keep
DeadResult(op, reads) == Is(op, "call") /\ IsVar(op.t) /\ op.t.n \notin reads
RECURSIVE EliminateDeadStores(_)
EliminateDeadStores(fn) ==
    LET reads == Names(UNION {Reads(fn.ops[i]) : i \in DOMAIN fn.ops})
        live == SelectSeq(fn.ops, LAMBDA op : ~DeadMove(op, reads))
        ops == [i \in DOMAIN live |->
                  IF DeadResult(live[i], reads) THEN [live[i] EXCEPT !.t = None] ELSE live[i]]
    IN IF ops = fn.ops THEN fn ELSE EliminateDeadStores(KeepMentioned(fn, ops))

\* The fixpoint of compiler.py from -O1 on: rounds until no function changes its length.
Round(fn) ==
    EliminateDeadStores(ResolveKnownTags(ResolveKnownDiscriminators(
        FoldStructReads(PropagateCopies(ThreadBranches(fn))))))

(* sroa: a struct that is only read field by field becomes one local per field. *)
Occurrences(fn) == Concat([i \in DOMAIN fn.ops |-> AllParams(fn.ops[i])])
WriteSites(fn, n) == {i \in DOMAIN fn.ops : n \in Names(Writes(fn.ops[i]))}
Projects(p, n) == p.k = "sfield" /\ IsVar(p.a[1]) /\ p.a[1].n = n
Splittable(fn, done) ==
    LET seen == Occurrences(fn)
        written == UNION {Writes(fn.ops[i]) : i \in DOMAIN fn.ops}
        ReadWhole(v) == Len(SelectSeq(seen, LAMBDA p : IsVar(p) /\ p.n = v.n))
        ReadField(v) == Len(SelectSeq(seen, LAMBDA p : Projects(p, v.n)))
        Def(v) == fn.ops[CHOOSE i \in WriteSites(fn, v.n) : TRUE]
    IN {v \in written :
          /\ v.n \notin done /\ Cardinality(WriteSites(fn, v.n)) = 1
          /\ v.ty.t = "struct" /\ v.ty.names # <<>>
          /\ ReadWhole(v) > 0 /\ ReadWhole(v) = ReadField(v)
          /\ Is(Def(v), "call") \/ (Is(Def(v), "move") /\ ~Def(v).keep)}
FieldLocal(v, f) == Var(Append(v.n, "$" \o f), FieldType(v.ty, f))
RECURSIVE ToFieldLocals(_, _)
ToFieldLocals(p, split) ==
    LET q == [p EXCEPT !.a = [i \in DOMAIN p.a |-> ToFieldLocals(p.a[i], split)]]
    IN IF q.k = "sfield" /\ \E v \in split : Projects(q, v.n)
       THEN FieldLocal(CHOOSE v \in split : Projects(q, v.n), q.f) ELSE q
SplitOnce(fn, split) ==
    LET used(v) == SelectSeq(v.ty.names, LAMBDA f : \E i \in DOMAIN Occurrences(fn) :
                                Projects(Occurrences(fn)[i], v.n) /\ Occurrences(fn)[i].f = f)
        Seeds(v) == [i \in DOMAIN used(v) |-> Move(FieldLocal(v, used(v)[i]), StructField(v, used(v)[i]))]
        F(p) == ToFieldLocals(p, split)
        Split(i) == {v \in split : i \in WriteSites(fn, v.n)}
        At(i) == <<MapParams(fn.ops[i], F, F)>>
                   \o (IF Split(i) = {} THEN <<>> ELSE Seeds(CHOOSE v \in Split(i) : TRUE))
    IN [fn EXCEPT !.ops = Concat([i \in DOMAIN fn.ops |-> At(i)]),
                  !.locals = @ \cup {FieldLocal(v, f) : <<v, f>> \in
                                        {x \in split \X UNION {ToSet(used(v)) : v \in split} :
                                            Contains(used(x[1]), x[2])}}]
RECURSIVE SplitRounds(_, _, _)
SplitRounds(fn, done, rounds) ==
    LET split == Splittable(fn, done)
    IN IF rounds = 0 \/ split = {} THEN fn
       ELSE SplitRounds(SplitOnce(fn, split), done \cup Names(split), rounds - 1)
SplitProjectedAggregates(fn) == SplitRounds(fn, {}, 8)

(* phi_removal: phis become moves, and a copy of a value nothing else reads is written at its
   definition instead.  DefBefore walks back from a copy to the definition of its source, 0 when a
   block boundary or a use of either local comes first. *)
Coalescible(op) == Is(op, "move") /\ ~op.keep /\ IsVar(op.t) /\ IsVar(op.s)
RECURSIVE DefBefore(_, _, _, _)
DefBefore(ops, j, t, s) ==
    IF j = 0 \/ Is(ops[j], "label") \/ ~FallsThrough(ops[j]) \/ BranchTargets(ops[j]) # {} THEN 0
    ELSE IF s \in Names(Writes(ops[j])) THEN j
    ELSE IF {t, s} \cap Names(Reads(ops[j]) \cup Writes(ops[j])) # {} THEN 0
    ELSE DefBefore(ops, j - 1, t, s)
\* How often the pass has seen a local defined: at first its definitions, then one more for every
\* copy into it that was coalesced.
DefsSeen(fn, merged, n) ==
    Cardinality(WriteSites(fn, n)) + Cardinality({i \in merged : fn.ops[i].t.n = n})
RECURSIVE CoalesceFrom(_, _, _, _, _)
CoalesceFrom(fn, ops, i, removed, merged) ==
    IF i > Len(ops) THEN
        LET dead == {fn.ops[j].s.n : j \in merged}
        IN [fn EXCEPT !.ops = Pick(ops, DOMAIN ops \ removed),
                      !.locals = {v \in @ : v.n \notin dead}]
    ELSE IF ~Coalescible(ops[i]) THEN CoalesceFrom(fn, ops, i + 1, removed, merged)
    ELSE IF ops[i].t.n = ops[i].s.n THEN CoalesceFrom(fn, ops, i + 1, removed \cup {i}, merged)
    ELSE LET t == ops[i].t
             s == ops[i].s.n
             d == DefBefore(ops, i - 1, t.n, s)
         IN IF DefsSeen(fn, merged, s) # 1 \/ ReadCount(fn.ops, s) # 1 \/ d = 0
            THEN CoalesceFrom(fn, ops, i + 1, removed, merged)
            ELSE CoalesceFrom(fn, [ops EXCEPT ![d] = ReplaceVarOp(@, s, t)], i + 1,
                              removed \cup {i}, merged \cup {i})
RemovePhis(fn) == LET low == LowerPhis(fn) IN CoalesceFrom(low, low.ops, 1, {}, {})
====
