---- MODULE WholeProgram ----
(* The passes over operations that look at the functions of a program together: what names what
   (codegen/references.py), reachability (lowering/trim.py), calls of known functions
   (lowering/globalfuncs.py), inlining (lowering/inlining.py) and the entry of [future] functions
   (lowering/future_functions.py).

   A function that is called by name only is there: classes hold no table of methods here, and
   objects and globals name no functions.  The root is the function the entry point calls. *)
EXTENDS Ir

\* op_references, function_references: the functions that are named.
NamedIn(ps) == {ps[i].fn : i \in {j \in DOMAIN ps : ps[j].k = "fn"}}
References(fn) == UNION {NamedIn(AllParams(fn.ops[i])) : i \in DOMAIN fn.ops}

\* address_taken_functions: named otherwise than as the callee of a call.
AddressTakenBy(op) ==
    IF Is(op, "call") /\ op.fn.k = "fn"
    THEN NamedIn(Tail(Flatten(op.fn)) \o Flatten(op.p)) ELSE NamedIn(AllParams(op))
AddressTaken(app) == UNION {AddressTakenBy(op) : op \in UNION {ToSet(app[n].ops) : n \in DOMAIN app}}

\* removed_unused_stuff.
RECURSIVE ReachableFrom(_, _)
ReachableFrom(names, edges) ==
    LET more == names \cup UNION {edges[n] : n \in names}
    IN IF more = names THEN names ELSE ReachableFrom(more, edges)
EdgesOf(app) == [n \in DOMAIN app |-> References(app[n]) \cap DOMAIN app]
Trim_Direct(app, root) ==
    [n \in {root} \cup EdgesOf(app)[root] |-> app[n]]
Trim(app, root) ==
    [n \in ReachableFrom({root} \cap DOMAIN app, EdgesOf(app)) |-> app[n]]

\* recursive_functions: those that reach themselves.
RecursiveAmong(edges) == {n \in DOMAIN edges : n \in ReachableFrom(edges[n], edges)}

(* discover_global_function_calls: a function value that a call finds in a local written once, or in
   a field of a struct packed there, is the function it was written from. *)
FunValues(fn) ==
    LET writes(n) == {i \in DOMAIN fn.ops : n \in Names(Writes(fn.ops[i]))}
        moved == {n \in Names(UNION {Writes(fn.ops[i]) : i \in DOMAIN fn.ops}) :
                    \E i \in DOMAIN fn.ops : writes(n) = {i} /\ Is(fn.ops[i], "move")}
    IN [n \in moved |-> fn.ops[CHOOSE i \in writes(n) : TRUE].s]
ResolveDepth == 16
\* The value of a field of a struct that is packed where it is, or in a local written once.
Packed(p, f, values) ==
    LET base == IF IsVar(p) /\ p.n \in DOMAIN values THEN values[p.n] ELSE p
        at == IF base.k = "struct" THEN {i \in DOMAIN base.names : base.names[i] = f} ELSE {}
    IN IF at = {} THEN None ELSE base.a[CHOOSE i \in at : TRUE]
RECURSIVE ResolveFun(_, _, _)
ResolveFun(p, values, depth) ==
    CASE depth = 0 -> None
      [] depth > 0 /\ p.k = "fn" -> p
      [] depth > 0 /\ p.k = "var" /\ p.n \in DOMAIN values -> ResolveFun(values[p.n], values, depth - 1)
      [] depth > 0 /\ p.k = "sfield" -> ResolveFun(Packed(p.a[1], p.f, values), values, depth - 1)
      [] OTHER -> None
OptimizeCall(op, values) ==
    LET known == ResolveFun(op.fn, values, ResolveDepth)
    IN IF op.fn.k \in {"var", "sfield"} /\ known # None THEN [op EXCEPT !.fn = known] ELSE op
OptimizeCallsWith(fn, values) ==
    [fn EXCEPT !.ops = [i \in DOMAIN @ |-> IF Is(@[i], "call") THEN OptimizeCall(@[i], values) ELSE @[i]]]
DiscoverGlobalFunctionCalls(app) == [n \in DOMAIN app |-> OptimizeCallsWith(app[n], FunValues(app[n]))]

(* inline_small_functions below -O3, where [inline(always)] says nothing. *)
CutoffComplexity == 5
InlineRounds == 16
Takes_Future(target) == target.ops # <<>> /\ target.inline # "never" /\ Len(target.ops) < CutoffComplexity
Takes(target) == target.ops # <<>> /\ ~target.future /\ target.inline # "never" /\ Len(target.ops) < CutoffComplexity
IsSite(op, app, recursive) ==
    /\ Is(op, "call") /\ op.fn.k = "fn" /\ op.p.k = "struct" /\ ~op.musttail
    /\ op.fn.fn \in DOMAIN app \ recursive
    /\ Takes(app[op.fn.fn])

\* Every local and label of the callee gets the name of the call's place in front.
Expansion_Shared(epoch, i, n) == <<"$inl", ToString(epoch)>> \o n
Expansion(epoch, i, n) == <<"$inl", ToString(epoch), ToString(i)>> \o n
InlinedNames(target) ==
    Names(ToSet(target.params) \cup target.locals)
      \cup {op.n : op \in {o \in ToSet(target.ops) : Is(o, "label")}}
\* A return moves the result and goes to the end; a tail call does not leave the caller.
InlinedOp(op, ren, t, end) ==
    CASE Is(op, "ret") -> (IF t = None THEN <<>> ELSE <<Move(t, RenameVars(op.v, ren))>>) \o <<Jump(end)>>
      [] Is(op, "call") -> <<RenameOp([op EXCEPT !.musttail = FALSE], ren)>>
      [] OTHER -> <<RenameOp(op, ren)>>
\* The end needs a label unless the only jump there is the last operation.
WithEnd(ops, end) ==
    LET jumps == {i \in DOMAIN ops : ops[i] = Jump(end)}
    IN CASE jumps = {} -> ops
         [] jumps # {} /\ jumps = {Len(ops)} -> Front(ops)
         [] OTHER -> Append(ops, Label(end))
Entering(target, op, ren) ==
    LET given(i) == CASE i = 1 -> op.fn.a
                      [] i > 1 /\ i - 1 \in DOMAIN op.p.a -> <<op.p.a[i - 1]>>
                      [] OTHER -> <<>>
    IN Concat([i \in DOMAIN target.params |->
                 [j \in DOMAIN given(i) |-> Move(RenameVars(target.params[i], ren), given(i)[j])]])
ExpandedWith(target, op, ren, end) ==
    WithEnd(Entering(target, op, ren)
              \o Concat([k \in DOMAIN target.ops |-> InlinedOp(target.ops[k], ren, op.t, end)]), end)
Renaming(target, epoch, i) == [n \in InlinedNames(target) |-> Expansion(epoch, i, n)]
InlineInto(fn, app, sites, epoch) ==
    LET target(i) == app[fn.ops[i].fn.fn]
        Code(i) == IF i \in sites
                   THEN ExpandedWith(target(i), fn.ops[i], Renaming(target(i), epoch, i), Expansion(epoch, i, <<"end">>))
                   ELSE <<fn.ops[i]>>
        Vars(i) == {RenameVars(v, Renaming(target(i), epoch, i)) : v \in ToSet(target(i).params) \cup target(i).locals}
    IN IF sites = {} THEN fn
       ELSE [fn EXCEPT !.ops = Concat([i \in DOMAIN @ |-> Code(i)]), !.locals = @ \cup UNION {Vars(i) : i \in sites}]
InlineWith(app, recursive, epoch) ==
    [n \in DOMAIN app |->
       InlineInto(app[n], app, {i \in DOMAIN app[n].ops : IsSite(app[n].ops[i], app, recursive)}, epoch)]
InlineSmallFunctions(app, epoch) == InlineWith(app, RecursiveAmong(EdgesOf(app)), epoch)
\* Everything a round of -O2 does.
InlineRound(app, root, epoch) == Trim(InlineSmallFunctions(DiscoverGlobalFunctionCalls(app), epoch), root)

\* add_future_entries: a [future] function first asks the runtime to go on elsewhere.
Yield == <<"ext", "future_yield">>
YieldRegister == Var(<<"$future_yield">>, TStruct(<<>>, <<>>))
Yields(op) == Is(op, "call") /\ op.fn.k = "fn" /\ op.fn.fn = Yield
WithEntryYield(fn) ==
    [fn EXCEPT !.ops = <<Call(GlobalFunction(Yield, None, FALSE), NewStruct(<<>>, <<>>), YieldRegister, YieldRegister.ty)>> \o @,
               !.locals = @ \cup {YieldRegister}]
AddFutureEntries(app) == [n \in DOMAIN app |-> IF app[n].future THEN WithEntryYield(app[n]) ELSE app[n]]
====
