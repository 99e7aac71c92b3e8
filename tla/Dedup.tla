---- MODULE Dedup ----
(* What is done to every function once, before code is emitted (lowering/cleanup.py), and how functions
   and classes that cannot be told apart become one: the spelling of fields by position
   (lowering/canonicalise.py), and the coarsest partition into functions and classes that agree on
   their shape and refer to each other alike (lowering/representation_dedup.py).

   A class of the program has its fields in the order it declares them, any other the ones the code
   mentions. *)
EXTENDS Ir

CONSTANTS
    Classes,         \* class of the program -> the names of its fields, in order
    Discriminator,   \* class -> the number a match compares; 0 when it is no variant of an enum
    EnumOf,          \* variant -> its enum
    Attributes       \* class of the program -> what it is declared as

AllOps(app) == UNION {ToSet(app[n].ops) : n \in DOMAIN app}
Everything(app) == UNION {ToSet(AllParams(op)) \cup Targets(op) : op \in AllOps(app)}
OfClass(p) == p.k \in {"ofield", "offset"}
ClassesIn(app, ps) == {p.cls : p \in {q \in ps : OfClass(q)}} \cup {op.cls : op \in {o \in AllOps(app) : Is(o, "new")}}

(* canonicalise.  The runtime reaches the fields of a task by their place. *)
TaskFields == {<<"state">>, <<"callback">>, <<"result">>}
FieldsOf(cls, ps) ==
    IF cls \in DOMAIN Classes THEN Classes[cls] ELSE Listed({p.f : p \in {q \in ps : OfClass(q) /\ q.cls = cls}})
Position(f, fields) == IF f \in TaskFields THEN f ELSE <<"$f", ToString((CHOOSE i \in DOMAIN fields : fields[i] = f) - 1)>>
PlacesOf(cls, fields) == {<<cls, f, Position(f, fields)>> : f \in ToSet(fields)}
RECURSIVE ByPosition(_, _)
ByPosition(p, places) ==
    LET q == [p EXCEPT !.a = [i \in DOMAIN p.a |-> ByPosition(p.a[i], places)]]
    IN IF OfClass(q) THEN [q EXCEPT !.f = (CHOOSE x \in places : x[1] = q.cls /\ x[2] = q.f)[3]] ELSE q
WithPlaces(app, places) ==
    LET F(p) == ByPosition(p, places)
    IN [n \in DOMAIN app |-> [app[n] EXCEPT !.ops = [i \in DOMAIN @ |-> MapParams(@[i], F, F)]]]
CanonicalIn(app, ps) == WithPlaces(app, UNION {PlacesOf(cls, FieldsOf(cls, ps)) : cls \in ClassesIn(app, ps)})
Canonicalise(app) == CanonicalIn(app, Everything(app))

(* A name whose spelling a later stage reads stays as it is; another is the place it is first met at. *)
FixedNames == {<<"this">>, <<"$state">>, <<"$completed_task">>, <<"$continuation">>}
NameKind(n) == IF n \in FixedNames THEN n[1] ELSE IF n[1] \in {"$sv", "$future_yield", "$force_result"} THEN n[1] ELSE ""
InOrderOf(p) == LET vars == SelectSeq(Flatten(p), IsVar) IN [i \in DOMAIN vars |-> vars[i].n]
NamesOfOp(op) ==
    Concat([i \in DOMAIN Sources(op) |-> InOrderOf(Sources(op)[i])])
        \o (IF Is(op, "iftask") THEN InOrderOf(op.t) \o InOrderOf(op.idt)
            ELSE Concat([i \in DOMAIN Listed(Targets(op)) |-> InOrderOf(Listed(Targets(op))[i])]))
Joined(a, b) == a \o SelectSeq(b, LAMBDA n : ~Contains(a, n))
RECURSIVE FirstMet(_)
FirstMet(seqs) ==
    LET n == Len(seqs)
    IN IF n = 0 THEN <<>> ELSE IF n = 1 THEN Joined(<<>>, Joined(seqs[1], <<>>))
       ELSE Joined(FirstMet(SubSeq(seqs, 1, n \div 2)), FirstMet(SubSeq(seqs, n \div 2 + 1, n)))
LabelsInOrder(ops) == LET ls == SelectSeq(ops, LAMBDA op : Is(op, "label")) IN [i \in DOMAIN ls |-> ls[i].n]
Numbered(names, labels) ==
    [n \in ToSet(names) \cup ToSet(labels) |->
       IF Contains(names, n) THEN <<"local", ToString(CHOOSE i \in DOMAIN names : names[i] = n), NameKind(n)>>
       ELSE <<"label", ToString(CHOOSE i \in DOMAIN labels : labels[i] = n)>>]
NumbersOf(fn) ==
    Numbered(FirstMet([i \in DOMAIN fn.params |-> <<fn.params[i].n>>] \o [i \in DOMAIN fn.ops |-> NamesOfOp(fn.ops[i])]),
             LabelsInOrder(fn.ops))

\* What a parameter or an operation refers to, in order, and what is left without it.
LeafOf(p) ==
    IF p.k = "eq" /\ p.a[1].k = "disc" THEN {cls \in DOMAIN Discriminator : Discriminator[cls] # 0 /\ Discriminator[cls] = p.c}
    ELSE {}
RefsOf(p, app) ==
    CASE p.k = "fn" /\ p.fn \in DOMAIN app -> <<<<"fun", p.fn>>>>
      [] OfClass(p) -> <<<<"obj", p.cls>>>>
      [] LeafOf(p) # {} -> <<<<"obj", CHOOSE cls \in LeafOf(p) : TRUE>>>>
      [] OTHER -> <<>>
RefsOfOp(op, app) ==
    (IF Is(op, "new") THEN <<<<"obj", op.cls>>>> ELSE <<>>)
        \o Concat([i \in DOMAIN AllParams(op) |-> RefsOf(AllParams(op)[i], app)])
        \o Concat([i \in DOMAIN Listed(Targets(op)) |-> RefsOf(Listed(Targets(op))[i], app)])
Hole == <<"ref">>
RECURSIVE Blanked(_, _)
Blanked(p, app) ==
    LET q == [p EXCEPT !.a = [i \in DOMAIN p.a |-> Blanked(p.a[i], app)]]
    IN CASE p.k = "fn" /\ p.fn \in DOMAIN app -> [q EXCEPT !.fn = Hole]
         [] OfClass(p) -> [q EXCEPT !.cls = Hole]
         [] LeafOf(p) # {} -> [q EXCEPT !.k = "leaf", !.c = 0]
         [] OTHER -> q
ShapeOfOp(op, app, numbers) ==
    LET F(p) == Alike(Blanked(p, app))
        q == MapParams(RenameOp(op, numbers), F, F)
    IN CASE Is(q, "new") -> [q EXCEPT !.cls = Hole]
         [] Is(q, "call") -> [q EXCEPT !.rty = Erased(@)]
         [] OTHER -> q
LocalShape(v, numbers) == Alike(RenameVars(v, numbers))
ShapeNumbered(fn, app, numbers) ==
    [params |-> [i \in DOMAIN fn.params |-> LocalShape(fn.params[i], numbers)],
     result |-> Erased(fn.result), sync |-> fn.sync, future |-> fn.future, inline |-> fn.inline,
     ops |-> [i \in DOMAIN fn.ops |-> ShapeOfOp(fn.ops[i], app, numbers)],
     locals |-> {LocalShape(v, numbers) : v \in fn.locals}]
FunctionShape(fn, app) == ShapeNumbered(fn, app, NumbersOf(fn))
Layout(cls, ps) == {<<p.f, Erased(p.ty)>> : p \in {q \in ps : q.k = "ofield" /\ q.cls = cls}}
ClassShape(cls, ps) ==
    [layout |-> Layout(cls, ps), fields |-> IF cls \in DOMAIN Classes THEN Len(Classes[cls]) ELSE Cardinality(Layout(cls, ps)),
     attributes |-> IF cls \in DOMAIN Attributes THEN Attributes[cls] ELSE {},
     leaf |-> cls \in DOMAIN Discriminator /\ Discriminator[cls] # 0]

(* _refine: a group is the node that stands for it.  "facts" holds every node with its shape and what
   it refers to; a key is what tells nodes apart. *)
Stand(keyed) ==
    [n \in {x[1] : x \in keyed} |-> (CHOOSE x \in keyed : \E y \in keyed : y[1] = n /\ y[2] = x[2])[1]]
Keyed(facts, groups) == {<<x[1], <<groups[x[1]], [i \in DOMAIN x[3] |-> groups[x[3][i]]]>>>> : x \in facts}
RECURSIVE Split(_, _, _)
Split(facts, groups, next) == IF next = groups THEN groups ELSE Split(facts, next, Stand(Keyed(facts, next)))
Refined(facts, groups) == Split(facts, groups, Stand(Keyed(facts, groups)))
\* _separate_siblings: the variants of one enum stay apart, each in the first sub-group without another.
IsLeaf(n) == n[1] = "obj" /\ n[2] \in DOMAIN Discriminator /\ Discriminator[n[2]] # 0
ElderSiblings_None(groups, n) == {}
ElderSiblings(groups, n) ==
    IF ~IsLeaf(n) THEN {}
    ELSE {m \in DOMAIN groups : /\ IsLeaf(m) /\ groups[m] = groups[n] /\ EnumOf[m[2]] = EnumOf[n[2]]
                                /\ Discriminator[m[2]] < Discriminator[n[2]]}
SubGroups(groups) == {<<n, <<groups[n], Cardinality(ElderSiblings(groups, n))>>>> : n \in DOMAIN groups}
RECURSIVE Partition(_, _, _)
Partition(facts, groups, sub) ==
    IF \A x \in sub : x[2][2] = 0 THEN groups
    ELSE LET next == Refined(facts, Stand(sub)) IN Partition(facts, next, SubGroups(next))
Foreign == {<<"task">>, <<"task_obj">>}
Pinned(n, root) == n = <<"fun", root>> \/ (n[1] = "obj" /\ n[2] \in Foreign)
FirstGroups(facts, root) ==
    Stand({<<x[1], IF Pinned(x[1], root) THEN <<"pinned", x[1]>> ELSE <<"shape", x[2]>>>> : x \in facts})
GroupsFrom(facts, first) == Partition(facts, first, SubGroups(first))
Groups(facts, root) == GroupsFrom(facts, Refined(facts, FirstGroups(facts, root)))

(* _rewrite: what is left of a group is the node that stands for it. *)
RECURSIVE Redirected(_, _)
Redirected(p, groups) ==
    LET q == [p EXCEPT !.a = [i \in DOMAIN p.a |-> Redirected(p.a[i], groups)]]
    IN CASE p.k = "fn" /\ <<"fun", p.fn>> \in DOMAIN groups -> [q EXCEPT !.fn = groups[<<"fun", @>>][2]]
         [] OfClass(p) -> [q EXCEPT !.cls = groups[<<"obj", @>>][2]]
         [] LeafOf(p) # {} -> [q EXCEPT !.c = Discriminator[groups[<<"obj", CHOOSE cls \in LeafOf(p) : TRUE>>][2]]]
         [] OTHER -> q
RedirectedOp(op, groups) ==
    LET F(p) == Redirected(p, groups)
        q == MapParams(op, F, F)
    IN IF Is(q, "new") THEN [q EXCEPT !.cls = groups[<<"obj", @>>][2]] ELSE q
MergedInto(app, groups) ==
    [n \in {m \in DOMAIN app : groups[<<"fun", m>>] = <<"fun", m>>} |->
       [app[n] EXCEPT !.ops = [i \in DOMAIN @ |-> RedirectedOp(@[i], groups)]]]
FunctionFacts(n, app) ==
    <<<<"fun", n>>, FunctionShape(app[n], app), Concat([i \in DOMAIN app[n].ops |-> RefsOfOp(app[n].ops[i], app)])>>
ClassFacts(cls, ps) == <<<<"obj", cls>>, ClassShape(cls, ps), <<>>>>
FactsOf(app, ps, leaves) ==
    {FunctionFacts(n, app) : n \in DOMAIN app} \cup {ClassFacts(cls, ps) : cls \in ClassesIn(app, ps) \cup leaves}
MergeWith(app, ps, root) == MergedInto(app, Groups(FactsOf(app, ps, UNION {LeafOf(p) : p \in ps}), root))
MergeIdentical(app, root) == MergeWith(app, Everything(app), root)

(* The clean-up of a function. *)
\* _fold_struct_fields: a field of a struct that is built on the spot is the value it is built from.
RECURSIVE FoldedField(_)
FoldedField(p) ==
    LET q == [p EXCEPT !.a = [i \in DOMAIN p.a |-> FoldedField(p.a[i])]]
        Fields(s) == IF s.k = "struct" THEN s.names ELSE s.ty.names
    IN IF q.k = "sfield" /\ q.a[1].k \in {"struct", "tstruct"} /\ Contains(Fields(q.a[1]), q.f)
       THEN q.a[1].a[CHOOSE i \in DOMAIN q.a[1].a : Fields(q.a[1])[i] = q.f] ELSE q
FoldStructFields(fn) == [fn EXCEPT !.ops = [i \in DOMAIN @ |-> MapParams(@[i], FoldedField, FoldedField)]]

(* _simplify_control_flow. *)
ToNext(ops, i) == ops[i].o \in {"jump", "jumpif"} /\ i < Len(ops) /\ ops[i + 1] = Label(ops[i].n)
\* if (c) goto L1; goto L2; L1:
OverJump(ops, i) ==
    /\ i \in 1 .. Len(ops) - 2
    /\ Is(ops[i], "jumpif") /\ ~ops[i].invert
    /\ Is(ops[i + 1], "jump") /\ ops[i + 2] = Label(ops[i].n)
Shorter(ops) ==
    LET Left(i) == CASE OverJump(ops, i) -> <<[ops[i] EXCEPT !.n = ops[i + 1].n, !.invert = TRUE]>>
                     [] ~OverJump(ops, i) /\ (OverJump(ops, i - 1) \/ ToNext(ops, i)) -> <<>>
                     [] OTHER -> <<ops[i]>>
    IN Concat([i \in DOMAIN ops |-> Left(i)])
RECURSIVE Shortest(_, _)
Shortest(ops, next) == IF next = ops THEN ops ELSE Shortest(next, Shorter(next))
JumpedTo(ops) == UNION {BranchTargets(ops[i]) : i \in DOMAIN ops}
OnlyUsedLabels(ops, used) == SelectSeq(ops, LAMBDA op : Is(op, "label") => op.n \in used)
WithoutDeadLabels(ops) == OnlyUsedLabels(ops, JumpedTo(ops))
SimplifyControlFlow(fn) == [fn EXCEPT !.ops = WithoutDeadLabels(Shortest(@, Shorter(@)))]

(* _copy_propagate.  A local that starts as zero may be read, as a root, before its one real write. *)
ZeroStart(op) == Is(op, "move") /\ op.s.k = "zero"
RealWrites(ops, n) == Cardinality({i \in DOMAIN ops : ~ZeroStart(ops[i]) /\ n \in Names(Writes(ops[i]))})
ZeroStarted(ops) == UNION {Names(Writes(ops[i])) : i \in {j \in DOMAIN ops : ZeroStart(ops[j])}}
CopiesVar(op) == Is(op, "move") /\ IsVar(op.t) /\ IsVar(op.s)
Aliasable(op, ops, zero, params) ==
    /\ RealWrites(ops, op.t.n) = 1 /\ RealWrites(ops, op.s.n) <= 1
    /\ op.t.n \in zero => op.s.n \in zero \cup params
Aliases(fn, zero) ==
    {<<op.t.n, op.s.n>> : op \in {o \in ToSet(fn.ops) : CopiesVar(o) /\ Aliasable(o, fn.ops, zero, Names(ToSet(fn.params)))}}
\* Chains are followed until a name that is no alias, or one met before; one real write makes one alias.
RECURSIVE Origin(_, _, _)
Origin(n, aliases, seen) ==
    LET next == {a[2] : a \in {b \in aliases : b[1] = n}}
    IN IF next = {} \/ n \in seen THEN n ELSE Origin(CHOOSE m \in next : TRUE, aliases, seen \cup {n})
WithoutAliases(fn, aliases, gone) ==
    LET kept == SelectSeq(fn.ops, LAMBDA op : ~(Is(op, "move") /\ IsVar(op.t) /\ op.t.n \in gone))
        ren == [n \in gone |-> Origin(n, aliases, {})]
    IN [fn EXCEPT !.ops = [i \in DOMAIN kept |-> RenameOp(kept[i], ren)], !.locals = {v \in @ : v.n \notin gone}]
WithAliases(fn, aliases) == WithoutAliases(fn, aliases, {a[1] : a \in aliases})
CopyPropagate(fn) == WithAliases(fn, Aliases(fn, ZeroStarted(fn.ops)))

(* _eliminate_common_subexpressions: a value computed before in the same block is not computed again.
   What is carried from operation to operation: the local that holds each known value, the locals that
   are gone with the ones in their place, and the operations kept. *)
WrittenOften(ops) ==
    {n \in UNION {Names(Writes(ops[i])) : i \in DOMAIN ops} :
        Cardinality({i \in DOMAIN ops : n \in Names(Writes(ops[i]))}) > 1}
Shareable(p, often) == p.k \notin {"var", "global", "fn"} /\ Names(LiveVars(p)) \cap often = {}
ReadsMemory(p) == \E q \in ToSet(Flatten(p)) : q.k \in {"sfield", "ofield"}
MayWriteMemory(op) == op.o \in {"call", "new"} \/ (Is(op, "move") /\ op.t.k = "ofield")
Keep(s, op) == [s EXCEPT !.ops = Append(@, op)]
ForgetMemory(s) == [s EXCEPT !.known = [p \in {q \in DOMAIN @ : ~ReadsMemory(q)} |-> @[p]]]
Seen(s, op, often) ==
    CASE Is(op, "label") -> Keep([s EXCEPT !.known = <<>>], op)
      [] Is(op, "move") /\ IsVar(op.t) ->
           CASE ~Shareable(op.s, often) \/ op.t.n \in often -> Keep(s, op)
             [] Shareable(op.s, often) /\ op.t.n \notin often /\ Alike(op.s) \in DOMAIN s.known ->
                  [s EXCEPT !.ren = (op.t.n :> s.known[Alike(op.s)]) @@ @]
             [] OTHER -> Keep([s EXCEPT !.known = (Alike(op.s) :> op.t.n) @@ @], op)
      [] MayWriteMemory(op) -> Keep(ForgetMemory(s), op)
      [] OTHER -> Keep(s, op)
SeenNext(s, op, often) == [Seen(s, RenameOp(op, s.ren), often) EXCEPT !.seen = @ + 1]
RECURSIVE SeenTo(_, _, _, _)
SeenTo(s, ops, often, j) ==
    IF s.seen = j - 1 THEN SeenNext(s, ops[j], often)
    ELSE SeenTo(SeenTo(s, ops, often, (s.seen + 1 + j) \div 2), ops, often, j)
WithSeen(fn, s) == [fn EXCEPT !.ops = s.ops, !.locals = {v \in @ : v.n \notin DOMAIN s.ren}]
EliminateCommonSubexpressions(fn) ==
    IF fn.ops = <<>> THEN fn
    ELSE WithSeen(fn, SeenTo([known |-> <<>>, ren |-> <<>>, ops |-> <<>>, seen |-> 0], fn.ops, WrittenOften(fn.ops), Len(fn.ops)))

\* _without_unused_locals.
UsedNames(ops) == Names(Mentioned(ops)) \cup Names({t \in UNION {Targets(ops[i]) : i \in DOMAIN ops} : IsVar(t)})
OnlyLocals(fn, used) == [fn EXCEPT !.locals = {v \in @ : v.n \in used}]
WithoutUnusedLocals(fn) == OnlyLocals(fn, UsedNames(fn.ops))

\* _cleaned.
Cleaned(fn) ==
    WithoutUnusedLocals(EliminateCommonSubexpressions(SimplifyControlFlow(CopyPropagate(FoldStructFields(
        SimplifyControlFlow(StripUnusedOperations(LowerPhis(fn))))))))
CleanFunction(fn) == IF fn.ops = <<>> THEN fn ELSE Cleaned(fn)
====
