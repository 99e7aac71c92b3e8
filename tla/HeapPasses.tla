---- MODULE HeapPasses ----
(* The passes over operations that decide where an object lives and how its fields are reached:
   lowering/escapes.py, stack_promotion.py, pinnable_reads.py and fast_stores.py.

   The fields of a class are the ones the code mentions. *)
EXTENDS Ir

CONSTANT Attributes    \* class of the program -> what it is declared as

HasAttribute(cls, attribute) == cls \in DOMAIN Attributes /\ attribute \in Attributes[cls]
\* Stubs, tasks and the states of suspended functions are written after they are built.
MutableClass(cls) == HasAttribute(cls, "mutable") \/ cls[1] \in {"Lazy$", "task$", "task", "task_obj"} \/ Last(cls) = "$state"
PinnableClass(cls) == HasAttribute(cls, "pinnable")

\* bare_pointer_in, op_publishes: whether the pointer itself goes somewhere, and not only a field.
RECURSIVE BarePointerIn(_, _)
BarePointerIn(p, n) ==
    CASE p.k = "var" -> p.n = n
      [] p.k = "ofield" -> ~IsVar(p.a[1]) /\ BarePointerIn(p.a[1], n)
      [] OTHER -> n \in Names(LiveVars(p))
OpPublishes(op, n) ==
    CASE Is(op, "move") -> BarePointerIn(op.s, n) \/ (op.t.k = "ofield" /\ BarePointerIn(op.t, n))
      [] op.o \in {"jumpif", "switch"} -> BarePointerIn(op.c, n)
      [] Is(op, "new") -> FALSE
      [] OTHER -> n \in Names(Reads(op))

(* promote_to_stack: an object whose pointer stays in the function that makes it becomes a local for
   each of its fields. *)
Promotable(cls) == ~MutableClass(cls) /\ ~PinnableClass(cls)
Candidates(fn) ==
    {n \in Names(UNION {Writes(fn.ops[i]) : i \in DOMAIN fn.ops}) :
       /\ \E i \in DOMAIN fn.ops : Is(fn.ops[i], "new") /\ fn.ops[i].t.n = n /\ Promotable(fn.ops[i].cls)
       /\ Cardinality({i \in DOMAIN fn.ops : n \in Names(Writes(fn.ops[i]))}) = 1
       /\ \A i \in DOMAIN fn.ops : ~OpPublishes(fn.ops[i], n)}
FieldOfLocal(p, promoted) == p.k = "ofield" /\ IsVar(p.a[1]) /\ p.a[1].n \in promoted
PromotedField(p) == Var(p.a[1].n \o <<"$field">> \o p.f, p.ty)
RECURSIVE ToLocals(_, _)
ToLocals(p, promoted) ==
    IF FieldOfLocal(p, promoted) THEN PromotedField(p)
    ELSE [p EXCEPT !.a = [i \in DOMAIN p.a |-> ToLocals(p.a[i], promoted)]]
PayloadLocals(ops, promoted) ==
    {PromotedField(p) : p \in {q \in UNION {ToSet(AllParams(ops[i])) \cup Targets(ops[i]) : i \in DOMAIN ops} :
                                 FieldOfLocal(q, promoted)}}
ZeroOfField(ty) == CASE IsPointer(ty) -> NullPointer [] ty.t = "int" -> Integer(0) [] OTHER -> ZeroOf(ty)
\* An allocation is all zeros, and so are the locals in its place.
Blank(n, locals) ==
    LET own == Listed({v \in locals : IsPrefix(n \o <<"$field">>, v.n)})
    IN [i \in DOMAIN own |-> Move(own[i], ZeroOfField(own[i].ty))]
PromoteIn(fn, promoted, locals) ==
    LET Rewritten(p) == ToLocals(p, promoted)
    IN [fn EXCEPT !.ops = Concat([i \in DOMAIN @ |->
                             IF Is(@[i], "new") /\ @[i].t.n \in promoted THEN Blank(@[i].t.n, locals)
                             ELSE <<MapParams(@[i], Rewritten, Rewritten)>>]),
                  !.locals = {v \in @ : v.n \notin promoted} \cup locals]
PromoteWith(fn, promoted) == PromoteIn(fn, promoted, PayloadLocals(fn.ops, promoted))
PromoteToStack(fn) == PromoteWith(fn, Candidates(fn))

(* resolve_pinnable_reads: a late pin writes to the live copy of an object alone, so the field of a
   [pinnable] object is reached through a pointer that is resolved first. *)
AlreadyResolved(p) == p.k = "invoke" /\ p.rt = "object_resolve"
Resolves(p) == p.k = "ofield" /\ PinnableClass(p.cls) /\ ~p.fresh /\ ~AlreadyResolved(p.a[1])
RECURSIVE Resolved(_)
Resolved(p) ==
    LET q == [p EXCEPT !.a = [i \in DOMAIN p.a |-> Resolved(p.a[i])]]
    IN IF Resolves(q) THEN [q EXCEPT !.a = <<RuntimeInvoke("object_resolve", q.a, TPtr)>>] ELSE q
ResolvePinnableReads(fn) == [fn EXCEPT !.ops = [i \in DOMAIN @ |-> MapParams(@[i], Resolved, Resolved)]]

(* mark_fast_stores: which stores go to an object that is brand new.  A fact is the set of the locals
   that hold an object allocated since the last safe point and published nowhere. *)
Modelled == {"move", "label", "jump", "jumpif", "iftask", "assert", "switch", "ret", "retvoid", "abort", "phi"}
KillsEverything(op) ==
    \/ op.o \notin Modelled
    \/ \E i \in DOMAIN AllParams(op) : AllParams(op)[i].k = "invoke"
\* A guard writes two locals beside those it says it writes.
Overwritten(op) == Names(IF Is(op, "iftask") THEN {t \in {op.t, op.idt} : IsVar(t)} ELSE Writes(op))
SecondName(op, fresh) == Is(op, "move") /\ IsVar(op.t) /\ IsVar(op.s) /\ op.s.n \in fresh
FactAfter_Kept(op, fresh) ==
    CASE Is(op, "new") -> fresh \cup {op.t.n}
      [] ~Is(op, "new") /\ SecondName(op, fresh) -> fresh \cup {op.t.n}
      [] OTHER -> fresh \ Overwritten(op)
FactAfter(op, fresh) ==
    CASE Is(op, "new") -> {op.t.n}
      [] ~Is(op, "new") /\ KillsEverything(op) -> {}
      [] ~KillsEverything(op) /\ SecondName(op, fresh) -> fresh \cup {op.t.n}
      [] OTHER -> {n \in fresh : ~OpPublishes(op, n)} \ Overwritten(op)

\* A sweep from the first operation on: the fact that is carried, what the jumps so far have brought to
\* each label, and what held before each operation.  Nothing falls out of a jump, which says nothing
\* against any fact.
Universe(ops) == {ops[i].t.n : i \in {j \in DOMAIN ops : Is(ops[j], "new")}}
LabelsOf(ops) == {ops[i].n : i \in {j \in DOMAIN ops : Is(ops[j], "label")}}
Swept(s, op, before, after, all) ==
    [fact |-> IF FallsThrough(op) THEN after ELSE all,
     arriving |-> [l \in DOMAIN s.arriving |->
                     IF l \in BranchTargets(op) THEN s.arriving[l] \cap after ELSE s.arriving[l]],
     before |-> Append(s.before, before)]
SweptOver(s, op, before, all) == Swept(s, op, before, FactAfter(op, before), all)
SweepAt(s, op, all) == SweptOver(s, op, IF Is(op, "label") THEN s.fact \cap s.arriving[op.n] ELSE s.fact, all)
RECURSIVE SweepTo(_, _, _, _)
SweepTo(s, ops, all, j) ==
    IF Len(s.before) = j - 1 THEN SweepAt(s, ops[j], all)
    ELSE SweepTo(SweepTo(s, ops, all, (Len(s.before) + 1 + j) \div 2), ops, all, j)
Sweep(ops, arriving) ==
    SweepTo([fact |-> {}, arriving |-> arriving, before |-> <<>>], ops, Universe(ops), Len(ops))
MaxSweeps == 8
RECURSIVE Sweeps(_, _, _, _)
Sweeps(ops, arriving, next, left) ==
    CASE next = arriving -> arriving
      [] next # arriving /\ left = 1 -> [l \in DOMAIN arriving |-> {}]
      [] OTHER -> Sweeps(ops, next, Sweep(ops, next).arriving, left - 1)
SweptFully(ops, first) == Sweeps(ops, first, Sweep(ops, first).arriving, MaxSweeps)
ArrivingAt(ops) == SweptFully(ops, [l \in LabelsOf(ops) |-> Universe(ops)])
\* At -O0 flags are only cleared.
WithFresh(op, fact, add) ==
    LET proven == IsVar(op.t.a[1]) /\ op.t.a[1].n \in fact
    IN [op EXCEPT !.t.fresh = proven /\ (add \/ @)]
FastStoresIn(fn, facts, add) ==
    [fn EXCEPT !.ops = [i \in DOMAIN @ |->
       IF Is(@[i], "move") /\ @[i].t.k = "ofield" THEN WithFresh(@[i], facts[i], add) ELSE @[i]]]
MarkFastStores(fn, add) ==
    IF fn.ops = <<>> THEN fn ELSE FastStoresIn(fn, Sweep(fn.ops, ArrivingAt(fn.ops)).before, add)
====
