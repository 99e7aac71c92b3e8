---- MODULE Ir ----
(* The intermediate representation of the compiler: parameters (codegen/param.py),
   operations (codegen/ops.py) and functions (codegen/ir.py).

   A parameter is a tree: "k" is its class, "a" the parameters it is built from -- what its
   flatten, test, rename_vars, replace_params and get_live_vars recurse into -- and the rest its
   own attributes.  A name is a path: a tuple of strings, the last the name a generator chose, the
   others the prefixes put before it.  A path that begins with "@" stands for a name that holds
   an '@'.  The C text of a parameter or an operation is what IrExec gives a meaning to. *)
EXTENDS Naturals, Sequences, FiniteSets, SequencesExt

\* The elements of a set in some one order.
Listed(S) == FoldSet(LAMBDA x, s : Append(s, x), <<>>, S)

\* FlattenSeq by halves, which keeps the evaluation of long sequences shallow.
RECURSIVE Concat(_)
Concat(seqs) ==
    LET n == Len(seqs)
    IN IF n = 0 THEN <<>> ELSE IF n = 1 THEN seqs[1]
       ELSE Concat(SubSeq(seqs, 1, n \div 2)) \o Concat(SubSeq(seqs, n \div 2 + 1, n))

\* Types, as far as a pass distinguishes them.
TInt == [t |-> "int"]
TPtr == [t |-> "ptr"]
TNonNull == [t |-> "nonnull"]
TFun(sync) == [t |-> "fun", sync |-> sync]
TStruct(names, types) == [t |-> "struct", names |-> names, types |-> types]
TWrap(inner) == [t |-> "wrap", inner |-> inner]
FieldType(ty, f) ==
    CASE ty.t = "wrap" -> IF f = "value" THEN ty.inner ELSE TPtr
      [] ty.t = "fun" -> TPtr
      [] OTHER -> ty.types[CHOOSE i \in DOMAIN ty.names : ty.names[i] = f]
\* Whether a function is sync, and a pointer never null, refines a type without changing it.
RECURSIVE Erased(_)
Erased(ty) ==
    CASE ty.t = "fun" -> [t |-> "fun"]
      [] ty.t = "nonnull" -> TPtr
      [] ty.t = "struct" -> TStruct(ty.names, [i \in DOMAIN ty.types |-> Erased(ty.types[i])])
      [] ty.t = "wrap" -> TWrap(Erased(ty.inner))
      [] OTHER -> ty
SameType(a, b) == Erased(a) = Erased(b)
IsPointer(ty) == ty.t \in {"ptr", "nonnull"}

(* Parameters. *)
None == [k |-> "none", a |-> <<>>]
Var(n, ty) == [k |-> "var", a |-> <<>>, n |-> n, ty |-> ty]
GlobalVar(n, ty) == [k |-> "global", a |-> <<>>, n |-> n, ty |-> ty]
ObjectField(p, cls, f, ty) == [k |-> "ofield", a |-> <<p>>, cls |-> cls, f |-> f, ty |-> ty, fresh |-> FALSE]
\* A store into an object that nothing but this code has seen yet: it needs no barrier.
FreshField(p, cls, f, ty) == [ObjectField(p, cls, f, ty) EXCEPT !.fresh = TRUE]
Integer(v) == [k |-> "int", a |-> <<>>, v |-> v]
NullPointer == [k |-> "null", a |-> <<>>]
ZeroOf(ty) == [k |-> "zero", a |-> <<>>, ty |-> ty]
NewStruct(names, ps) == [k |-> "struct", a |-> ps, names |-> names]
NewStructTyped(ty, ps) == [k |-> "tstruct", a |-> ps, ty |-> ty]
StructField(p, f) == [k |-> "sfield", a |-> <<p>>, f |-> f]
IntEqConst(p, c) == [k |-> "eq", a |-> <<p>>, c |-> c]
NullPattern(ps, nulls) == [k |-> "nulls", a |-> ps, nulls |-> nulls]
FieldOffset(cls, f) == [k |-> "offset", a |-> <<>>, cls |-> cls, f |-> f]
PointerTo(p) == [k |-> "addr", a |-> <<p>>]
VtableDiscriminator(p) == [k |-> "disc", a |-> <<p>>]
RuntimeInvoke(fn, ps, ty) == [k |-> "invoke", a |-> ps, rt |-> fn, ty |-> ty]
GlobalFunction(fn, obj, sync) ==
    [k |-> "fn", a |-> IF obj = None THEN <<>> ELSE <<obj>>, fn |-> fn, sync |-> sync]
TagTask(p, ty) == [k |-> "tag", a |-> <<p>>, ty |-> ty]
SyncWrap(p, ty) == [k |-> "wrap", a |-> <<p>>, ty |-> ty]

\* Parameters are equal when they differ only in a refinement of a type, or in whether a store is fresh.
RECURSIVE Alike(_)
Alike(p) ==
    LET q == [p EXCEPT !.a = [i \in DOMAIN p.a |-> Alike(p.a[i])]]
    IN CASE q.k = "ofield" -> [q EXCEPT !.ty = Erased(@), !.fresh = FALSE]
         [] q.k # "ofield" /\ "ty" \in DOMAIN q -> [q EXCEPT !.ty = Erased(@)]
         [] OTHER -> q

IsVar(p) == p.k = "var"
IsLParam(p) == p.k \in {"var", "global", "ofield"}

\* flatten: the parameter and all it is built from.
RECURSIVE Flatten(_)
Flatten(p) == <<p>> \o Concat([i \in DOMAIN p.a |-> Flatten(p.a[i])])
\* flatten(is_reader=False): what writing through a location reads.
FlattenTarget(p) == Concat([i \in DOMAIN p.a |-> Flatten(p.a[i])])

\* get_live_vars: the locals a parameter reads.
LiveVars(p) == {q \in ToSet(Flatten(p)) : IsVar(q)}

\* rename_vars: ren is a function from names to names.
RECURSIVE RenameVars(_, _)
RenameVars(p, ren) ==
    LET q == [p EXCEPT !.a = [i \in DOMAIN p.a |-> RenameVars(p.a[i], ren)]]
    IN IF IsVar(q) /\ q.n \in DOMAIN ren THEN [q EXCEPT !.n = ren[q.n]] ELSE q

\* replace_params with a replacer that turns the local called n into the parameter by.
RECURSIVE ReplaceVar(_, _, _)
ReplaceVar(p, n, by) ==
    IF IsVar(p) THEN IF p.n = n THEN by ELSE p
    ELSE [p EXCEPT !.a = [i \in DOMAIN p.a |-> ReplaceVar(p.a[i], n, by)]]

\* get_type.
RECURSIVE TypeOf(_)
TypeOf(p) ==
    CASE p.k \in {"int", "eq", "nulls", "disc", "offset"} -> TInt
      [] p.k \in {"null", "addr"} -> TPtr
      [] p.k = "fn" -> TFun(p.sync)
      [] p.k = "struct" -> TStruct(p.names, [i \in DOMAIN p.a |-> TypeOf(p.a[i])])
      [] p.k = "sfield" -> FieldType(TypeOf(p.a[1]), p.f)
      [] OTHER -> p.ty

(* Operations. *)
Label(n) == [o |-> "label", n |-> n]
Move(t, s) == [o |-> "move", t |-> t, s |-> s, keep |-> FALSE]
KeptMove(t, s) == [o |-> "move", t |-> t, s |-> s, keep |-> TRUE]
Jump(n) == [o |-> "jump", n |-> n]
JumpIf(n, c) == [o |-> "jumpif", n |-> n, c |-> c, invert |-> FALSE]
IfTask(c, src, taskLhs, idLhs, id, n) ==
    [o |-> "iftask", c |-> c, s |-> src, t |-> taskLhs, idt |-> idLhs, id |-> id, n |-> n]
AssertNotTask(c) == [o |-> "assert", c |-> c]
Await(r, s, returned) == [o |-> "await", t |-> r, s |-> s, returned |-> returned]
SwitchJump(c, cases) == [o |-> "switch", c |-> c, cases |-> cases]
NewObject(cls, r) == [o |-> "new", cls |-> cls, t |-> r]
\* rty is the type of the result, which outlives the register it went to.
Call(fn, ps, r, rty) ==
    [o |-> "call", fn |-> fn, p |-> ps, t |-> r, rty |-> rty, musttail |-> FALSE, deferred |-> FALSE]
Return(v) == [o |-> "ret", v |-> v]
ReturnVoid == [o |-> "retvoid"]
Abort == [o |-> "abort"]
Phi(t, srcs) == [o |-> "phi", t |-> t, srcs |-> srcs]

Is(op, o) == op.o = o
\* is_sync, may_suspend.
IsSync(op) == TypeOf(op.fn).t = "fun" /\ TypeOf(op.fn).sync
MaySuspend(op) == Is(op, "call") /\ ~op.musttail /\ ~op.deferred /\ ~IsSync(op)

FallsThrough(op) ==
    /\ op.o \notin {"jump", "switch", "retvoid", "abort", "ret"}
    /\ ~(Is(op, "call") /\ op.musttail)
BranchTargets(op) ==
    CASE op.o \in {"jump", "jumpif", "iftask"} -> {op.n}
      [] Is(op, "switch") -> {op.cases[i][2] : i \in DOMAIN op.cases}
      [] OTHER -> {}
\* targets: every place an operation writes.
Targets(op) ==
    CASE op.o \in {"move", "new", "phi", "await"} -> {op.t}
      [] Is(op, "call") -> {op.t} \ {None}
      [] Is(op, "iftask") -> {op.t, op.idt}
      [] OTHER -> {}
\* Parameters an operation reads, in the order all_params lists them.
Sources(op) ==
    CASE Is(op, "move") -> <<op.s>>
      [] op.o \in {"jumpif", "assert", "switch"} -> <<op.c>>
      [] Is(op, "iftask") -> <<op.c, op.s>>
      [] Is(op, "await") -> <<op.s>>
      [] Is(op, "call") -> <<op.fn, op.p>>
      [] Is(op, "ret") -> <<op.v>>
      [] Is(op, "phi") -> [i \in DOMAIN op.srcs |-> op.srcs[i][2]]
      [] OTHER -> <<>>
AllParams(op) ==
    Concat([i \in DOMAIN Sources(op) |-> Flatten(Sources(op)[i])])
        \o Concat([i \in DOMAIN Listed(Targets(op)) |-> FlattenTarget(Listed(Targets(op))[i])])

\* get_live_vars: a location on the heap is read through, a local is written.  A guard's task
\* and index slots are not among its writes.
Writes(op) == IF Is(op, "iftask") THEN {} ELSE {t \in Targets(op) : IsVar(t)}
Reads(op) ==
    UNION {LiveVars(Sources(op)[i]) : i \in DOMAIN Sources(op)}
        \cup (IF Is(op, "iftask") THEN {}
              ELSE UNION {LiveVars(t) : t \in {x \in Targets(op) : ~IsVar(x)}})
Names(vars) == {v.n : v \in vars}

\* Every parameter of an operation that replace_params hands to its replacer, as a function of
\* the operation: F is applied to the sources, T to the targets.
MapParams(op, F(_), T(_)) ==
    CASE Is(op, "move") -> [op EXCEPT !.t = T(@), !.s = F(@)]
      [] op.o \in {"jumpif", "assert", "switch"} -> [op EXCEPT !.c = F(@)]
      [] Is(op, "iftask") -> [op EXCEPT !.c = F(@), !.s = F(@), !.t = T(@), !.idt = T(@)]
      [] Is(op, "await") -> [op EXCEPT !.t = T(@), !.s = F(@)]
      [] Is(op, "new") -> [op EXCEPT !.t = T(@)]
      [] Is(op, "call") -> [op EXCEPT !.fn = F(@), !.p = F(@), !.t = IF @ = None THEN @ ELSE T(@)]
      [] Is(op, "ret") -> [op EXCEPT !.v = F(@)]
      [] Is(op, "phi") -> [op EXCEPT !.t = T(@),
                                     !.srcs = [i \in DOMAIN @ |-> <<@[i][1], F(@[i][2])>>]]
      [] OTHER -> op

\* rename_vars: one map renames locals and labels alike.
RenameOp(op, ren) ==
    LET N(n) == IF n \in DOMAIN ren THEN ren[n] ELSE n
        R(p) == RenameVars(p, ren)
        q == MapParams(op, R, R)
    IN CASE op.o \in {"label", "jump", "jumpif", "iftask"} -> [q EXCEPT !.n = N(@)]
         [] Is(op, "switch") -> [q EXCEPT !.cases = [i \in DOMAIN @ |-> <<@[i][1], N(@[i][2])>>]]
         [] Is(op, "phi") -> [q EXCEPT !.srcs = [i \in DOMAIN @ |-> <<N(@[i][1]), @[i][2]>>]]
         [] OTHER -> q
ReplaceVarOp(op, n, by) ==
    LET R(p) == ReplaceVar(p, n, by) IN MapParams(op, R, R)

(* Functions: a name, parameters, the type of the result, declared locals and operations; sync
   when it never suspends, and what [future] and [inline(..)] say of it. *)
Function(name, params, result, locals, ops) ==
    [name |-> name, params |-> params, result |-> result, locals |-> locals, ops |-> ops, sync |-> FALSE,
     future |-> FALSE, inline |-> "auto"]
Mentioned(ops) == UNION {Reads(ops[i]) \cup Writes(ops[i]) : i \in DOMAIN ops}
KeepMentioned(fn, ops) ==
    [fn EXCEPT !.ops = ops, !.locals = {v \in @ : v.n \in Names(Mentioned(ops))}]

LabelAt(ops, n) == CHOOSE i \in DOMAIN ops : Is(ops[i], "label") /\ ops[i].n = n
\* The label of the block each operation lies in; the entry block has none.
Entry == <<>>
BlockOf(ops) ==
    LET labels == {j \in DOMAIN ops : Is(ops[j], "label")}
        Before(i) == {j \in labels : j <= i}
    IN [i \in DOMAIN ops |-> IF Before(i) = {} THEN Entry ELSE ops[Max(Before(i))].n]

\* block_predecessors: the blocks that reach the block of label l.
BlockPredecessors(ops, l) ==
    LET block == BlockOf(ops)
    IN {block[i] : i \in {j \in DOMAIN ops : l \in BranchTargets(ops[j])}}
         \cup {IF i = 2 /\ ~Is(ops[1], "label") THEN Entry ELSE block[i - 1] :
                   i \in {j \in 2 .. Len(ops) : ops[j] = Label(l) /\ FallsThrough(ops[j - 1])}}

\* __without_stale_phi_sources.
WithoutStalePhiSources(fn) ==
    LET block == BlockOf(fn.ops)
        Fresh(i) == LET op == fn.ops[i]
                    IN IF Is(op, "phi")
                       THEN [op EXCEPT !.srcs =
                               SelectSeq(@, LAMBDA s : s[1] \in BlockPredecessors(fn.ops, block[i]))]
                       ELSE op
    IN [fn EXCEPT !.ops = [i \in DOMAIN fn.ops |-> Fresh(i)]]

\* strip_unused_operations: what no path from the first operation reaches is dropped.
RECURSIVE ReachedFrom(_, _)
ReachedFrom(ops, seen) ==
    LET next(i) == {LabelAt(ops, l) : l \in BranchTargets(ops[i])}
                     \cup (IF i < Len(ops) /\ FallsThrough(ops[i]) THEN {i + 1} ELSE {})
        more == seen \cup UNION {next(i) : i \in seen}
    IN IF more = seen THEN seen ELSE ReachedFrom(ops, more)
Pick(s, keep) ==
    LET at == SelectSeq([i \in DOMAIN s |-> i], LAMBDA i : i \in keep) IN [i \in DOMAIN at |-> s[at[i]]]
StripUnusedOperations(fn) ==
    WithoutStalePhiSources([fn EXCEPT !.ops = Pick(@, ReachedFrom(@, {1}))])

\* __lower_phis_for_emission: each phi becomes a move on every edge into its block.  Where the
\* pass asserts that a phi names its predecessor, a phi that does not yields None, which has no
\* meaning.
PhisAt(ops, l) ==
    LET block == BlockOf(ops)
    IN Pick(ops, {i \in DOMAIN ops : Is(ops[i], "phi") /\ block[i] = l})
SourceFor(phi, pred) ==
    LET from == SelectSeq(phi.srcs, LAMBDA s : s[1] = pred)
    IN IF from = <<>> THEN None ELSE from[1][2]
EdgeMoves(ops, l, pred) ==
    LET phis == PhisAt(ops, l)
    IN [i \in DOMAIN phis |-> Move(phis[i].t, SourceFor(phis[i], pred))]
LowerPhis(fn) ==
    LET ops == fn.ops
        block == BlockOf(ops)
        \* an edge falls through if the last operation emitted before the label does
        Before(i) == {j \in 1 .. i - 1 : ~Is(ops[j], "phi")}
        Falls(i) == Before(i) # {} /\ FallsThrough(ops[CHOOSE j \in Before(i) : \A h \in Before(i) : h <= j])
        Lowered(i) ==
            CASE Is(ops[i], "phi") -> <<>>
              [] Is(ops[i], "jump") -> Append(EdgeMoves(ops, ops[i].n, block[i]), ops[i])
              [] Is(ops[i], "label") /\ i > 1 /\ Falls(i) ->
                     Append(EdgeMoves(ops, ops[i].n, block[i - 1]), ops[i])
              [] OTHER -> <<ops[i]>>
    IN [fn EXCEPT !.ops = Concat([i \in DOMAIN ops |-> Lowered(i)])]

(* Static single assignment, as lowering/ssa_validate.py asks for it. *)
IsScratch(n) == n[1] = "$sv"
IsZeroInit(op) ==
    Is(op, "move") /\ (op.s.k \in {"null", "zero"} \/ (op.s.k = "int" /\ op.s = Integer(0)))
Definitions(fn, n) ==
    Cardinality({i \in DOMAIN fn.ops : ~IsZeroInit(fn.ops[i]) /\ n \in Names(Writes(fn.ops[i]))})
      + (IF n \in Names(ToSet(fn.params)) THEN 1 ELSE 0)
SingleDefinition(fn) ==
    \A n \in Names(Mentioned(fn.ops)) : IsScratch(n) \/ Definitions(fn, n) <= 1
AllPathsReturn(fn) == fn.ops = <<>> \/ ~FallsThrough(Last(fn.ops))
PhiWellFormed(fn) ==
    LET block == BlockOf(fn.ops)
    IN \A i \in DOMAIN fn.ops : Is(fn.ops[i], "phi") =>
         /\ i > 1 /\ block[i] # Entry
         /\ \E j \in 1 .. i - 1 : /\ Is(fn.ops[j], "label")
                                  /\ \A h \in j + 1 .. i : Is(fn.ops[h], "phi")
         /\ LET expected == BlockPredecessors(fn.ops, block[i])
                named == {fn.ops[i].srcs[j][1] : j \in DOMAIN fn.ops[i].srcs}
            IN named \subseteq expected /\ expected \ {Entry} \subseteq named
ValidSsa(fn) == SingleDefinition(fn) /\ PhiWellFormed(fn) /\ AllPathsReturn(fn)
\* What LowerPhis asserts: no conditional jump goes to a block with phis.
NoJumpIfToPhi(fn) ==
    \A i \in DOMAIN fn.ops : Is(fn.ops[i], "jumpif") => PhisAt(fn.ops, fn.ops[i].n) = <<>>

(* How a function tells its caller that its result is not there yet (lowering/task_abi.py): the
   shape a result is returned in, the task inside it, and the values of tasks themselves. *)
IsUnit(ty) == ty.t = "struct" /\ ty.names = <<>>
FirstPointerField(ty) ==
    LET at == {i \in DOMAIN ty.names : IsPointer(ty.types[i])}
    IN IF at = {} THEN "" ELSE ty.names[Min(at)]
\* wrap_return_type: where the tag has no word to ride in, the task goes beside the value.
WrapReturnType(ty) ==
    CASE IsPointer(ty) \/ ty.t = "fun" -> ty
      [] IsUnit(ty) -> TPtr
      [] ty.t = "struct" /\ ty.names # <<>> /\ FirstPointerField(ty) # "" -> ty
      [] OTHER -> TWrap(ty)
\* wrap_value: a value that already has the shape passes.
WrapValue(p, wrapped) ==
    CASE SameType(TypeOf(p), wrapped) -> p
      [] ~SameType(TypeOf(p), wrapped) /\ wrapped.t = "wrap" -> SyncWrap(p, wrapped)
      [] ~SameType(TypeOf(p), wrapped) /\ wrapped.t # "wrap" -> IF IsUnit(TypeOf(p)) THEN NullPointer ELSE p
UnwrapValue(p, ty) ==
    CASE WrapReturnType(ty) = ty -> p
      [] WrapReturnType(ty).t = "wrap" -> StructField(p, "value")
      [] OTHER -> ZeroOf(ty)
\* task_subtype_name: the class of a task that carries such a result.
BaseTask == <<"task">>
RuntimeSubtypes == {<<"task_obj">>}
RECURSIVE TaskSubtype(_)
TaskSubtype(ty) ==
    CASE IsUnit(ty) -> BaseTask
      [] IsPointer(ty) -> <<"task_obj">>
      [] ty.t = "wrap" -> TaskSubtype(ty.inner)
      [] ty.t = "struct" /\ ~IsUnit(ty) -> <<"task$">> \o ty.names \o [i \in DOMAIN ty.types |-> ty.types[i].t]
      [] OTHER -> <<"task$", ty.t>>
\* task_ptr_from: the word of a result that a task rides in; is_task_param: whether one does.
TaskWord(p, wrapped) ==
    CASE IsPointer(wrapped) -> p
      [] wrapped.t = "fun" -> StructField(p, "o")
      [] wrapped.t = "wrap" -> StructField(p, "task")
      [] wrapped.t = "struct" -> StructField(p, FirstPointerField(wrapped))
IsTaskParam(p, wrapped) ==
    IF wrapped.t = "wrap" THEN StructField(p, "task")
    ELSE RuntimeInvoke("PTR_IS_TASK", <<TaskWord(p, wrapped)>>, TInt)
\* pending_task_of: the task of a result, untagged, or null when the result is there.
PendingTaskOf(p, wrapped) ==
    IF wrapped.t = "wrap" THEN StructField(p, "task")
    ELSE RuntimeInvoke("TASK_PENDING_OF", <<TaskWord(p, wrapped)>>, TPtr)
\* The result of a completed task.
TaskField(task, cls, f, ty) == ObjectField(task, cls, <<f>>, ty)
ExtractFromTask(task, ty) ==
    IF IsUnit(ty) THEN ZeroOf(ty) ELSE TaskField(task, TaskSubtype(ty), "result", ty)
====
