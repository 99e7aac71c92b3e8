---- MODULE Compiler ----
(* The back end of compiler.py: a program that is type checked and monomorphic goes through the
   passes of __iterate_and_compile as a tree, and through those of __create_c_code as operations. *)
EXTENDS Gen, IrExec

CONSTANTS
    Programs,      \* name -> [funs: the functions, main: the one called, inputs: its arguments]
    Levels,        \* optimisation levels
    Oracles,       \* answers of the outside world
    Schedules,     \* when they come
    Classes,       \* class of the program -> the names of its fields, in order
    Attributes,    \* class of the program -> what it is declared as
    EnumOf,        \* variant of an enum -> the enum
    StubThreshold  \* operations above which a loop that parks has no hot path

LL == INSTANCE Hoist
IL == INSTANCE Inline
CL == INSTANCE Closures
SP == INSTANCE SsaPasses WITH Discriminator <- Discriminators
WP == INSTANCE WholeProgram
SI == INSTANCE SyncInference
AL == INSTANCE AsyncLower
HP == INSTANCE HeapPasses
DD == INSTANCE Dedup WITH Discriminator <- Discriminators

VARIABLES
    chosen,        \* the program compiled
    level,         \* the optimisation level
    tree,          \* its functions as trees, up to code generation
    app,           \* its functions as operations, from there on
    stage,         \* the next pass
    round,         \* rounds of the fixpoint so far
    meant          \* what the program means: the outcome of each case
vars == <<chosen, level, tree, app, stage, round, meant>>

Source(p) == Programs[p].funs
Cases(p) == Programs[p].inputs \X Oracles

Init == /\ chosen \in DOMAIN Programs
        /\ level \in Programs[chosen].levels \cap Levels
        /\ tree = Source(chosen)
        /\ app = <<>>
        /\ stage = "lambda_lift"
        /\ round = 0
        /\ meant = [c \in Cases(chosen) |-> Meant(Source(chosen), Programs[chosen].main, c[1], c[2])]

(* The passes over trees. *)
TreePass(now, next, after) ==
    /\ stage = now /\ stage' = next
    /\ tree' = after
    /\ UNCHANGED <<chosen, level, app, round, meant>>
LambdaLift == TreePass("lambda_lift", "hoist_nested", LL!LiftCapturedCalls(tree))
HoistNested == TreePass("hoist_nested", "tail_loop", LL!HoistNested(tree))
TailLoop == TreePass("tail_loop", "ast_inline", LL!LowerTailLoops(tree)) /\ ~LL!TailErrors(tree')
AstInline == TreePass("ast_inline", "lower_lazy_lets", IL!InlineAst(tree))
LowerLazyLets == CL!LazyErrors(tree) = {} /\ TreePass("lower_lazy_lets", "lambdas", CL!LowerLazyLets(tree))
Lambdas == TreePass("lambdas", "block_exits", CL!ConvertLambdas(tree))
BlockExits == TreePass("block_exits", "generate", LL!AssignBlockExits(tree))

(* The passes over operations. *)
Generated ==
    /\ stage = "generate" /\ stage' = "future_entries"
    /\ app' = GenerateProgram(tree, level)
    /\ UNCHANGED <<chosen, level, tree, round, meant>>
AppPass(now, next, after) ==
    /\ stage = now /\ stage' = next
    /\ app' = after
    /\ UNCHANGED <<chosen, level, tree, round, meant>>
Each(F(_)) == [n \in DOMAIN app |-> F(app[n])]
Root == Programs[chosen].main
FutureEntries == AppPass("future_entries", "trim", WP!AddFutureEntries(app))
TrimUnused == AppPass("trim", "globalfuncs", WP!Trim(app, Root))
GlobalFuncs ==
    AppPass("globalfuncs", IF level >= 2 THEN "inlining" ELSE IF level = 1 THEN "deadstores" ELSE "sync_inference",
            WP!DiscoverGlobalFunctionCalls(app))
\* The shape that ends a repetition: which functions there are, and how long they are.
Shape(a) == [n \in DOMAIN a |-> Len(a[n].ops)]
InlineSmall ==
    /\ stage = "inlining"
    /\ app' = WP!InlineRound(app, Root, round)
    /\ LET over == round + 1 = WP!InlineRounds \/ (round > 0 /\ Shape(app') = Shape(app))
       IN /\ stage' = IF over THEN "deadstores" ELSE "inlining"
          /\ round' = IF over THEN 0 ELSE round + 1
    /\ UNCHANGED <<chosen, level, tree, meant>>
DeadStores == AppPass("deadstores", "sync_inference", WP!Trim(Each(SP!EliminateDeadStores), Root))
SyncInference == AppPass("sync_inference", "fixpoint", SI!InferSync(app))
OneRound ==
    /\ level >= 1 /\ stage = "fixpoint"
    /\ app' = Each(SP!Round)
    /\ round' = round + 1
    /\ stage' = IF \/ round' = SP!FixpointRounds
                   \/ round > 0 /\ Shape(app') = Shape(app)
                THEN "sroa" ELSE "fixpoint"
    /\ UNCHANGED <<chosen, level, tree, meant>>
ThreadAndPropagate ==
    LET F(fn) == SP!PropagateCopies(SP!ThreadBranches(fn)) IN level = 0 /\ AppPass("fixpoint", "sroa", Each(F))
Sroa == AppPass("sroa", "defer_awaits", Each(SP!SplitProjectedAggregates))
DeferAwaits == AppPass("defer_awaits", "phi_removal", Each(AL!DeferAwaits))
PhiRemoval == AppPass("phi_removal", IF level = 0 THEN "async_lower" ELSE "stack_promotion", Each(SP!RemovePhis))
StackPromotion == AppPass("stack_promotion", "async_lower", Each(HP!PromoteToStack))
AsyncLower == AppPass("async_lower", "pinnable_reads", WP!Trim(AL!LowerAsync(app), Root))
PinnableReads == AppPass("pinnable_reads", "fast_stores", Each(HP!ResolvePinnableReads))
FastStores == LET F(fn) == HP!MarkFastStores(fn, level >= 1) IN AppPass("fast_stores", "canonicalise", Each(F))
Canonicalise == AppPass("canonicalise", "cleanup", DD!Canonicalise(app))
Cleanup == AppPass("cleanup", "representation_dedup", Each(DD!CleanFunction))
RepresentationDedup == AppPass("representation_dedup", "done", DD!MergeIdentical(app, Root))

Next == \/ LambdaLift \/ HoistNested \/ TailLoop \/ AstInline \/ LowerLazyLets \/ Lambdas \/ BlockExits
        \/ Generated \/ FutureEntries \/ TrimUnused \/ GlobalFuncs \/ InlineSmall \/ DeadStores \/ SyncInference \/ OneRound \/ ThreadAndPropagate \/ Sroa \/ DeferAwaits \/ PhiRemoval
        \/ StackPromotion \/ AsyncLower \/ PinnableReads \/ FastStores \/ Canonicalise \/ Cleanup
        \/ RepresentationDedup
Spec == Init /\ [][Next]_vars

(* Properties. *)
TreeStages == {"lambda_lift", "hoist_nested", "tail_loop", "ast_inline", "lower_lazy_lets", "lambdas",
               "block_exits", "generate"}
SsaStages == {"future_entries", "trim", "globalfuncs", "inlining", "deadstores", "sync_inference", "fixpoint", "sroa", "defer_awaits", "phi_removal"}
\* Functions return their results as they are.
PlainStages == SsaStages \cup {"stack_promotion", "async_lower"}
\* Stores are marked for the collector, and pinned objects are read where they live.
HeapStages == {"canonicalise", "cleanup", "representation_dedup", "done"}
When(s) == IF stage \in HeapStages THEN Collecting(s) ELSE s

\* No pass changes what a program does: its calls of the outside, in their order, and its result.
Schedule0 == IF stage \in PlainStages THEN InOrderOfCode ELSE When(Prompt)
SameMeaning ==
    \A c \in Cases(chosen) :
        meant[c] = IF stage \in TreeStages THEN Meant(tree, Programs[chosen].main, c[1], c[2])
                   ELSE Outcome(app, Programs[chosen].main, c[1], c[2], Schedule0)
\* Whenever the answers of the outside come, the program asks the same and ends with the same.
Times(trace, call) == Cardinality({i \in DOMAIN trace : trace[i] = call})
AsksTheSame(should, got) ==
    /\ should[2] = got[2]
    /\ Len(should[1]) = Len(got[1])
    /\ \A i \in DOMAIN should[1] : Times(should[1], should[1][i]) = Times(got[1], should[1][i])
SuspensionInvisible ==
    stage \in {"pinnable_reads", "done"} =>
        \A c \in Cases(chosen), s \in Schedules :
            AsksTheSame(meant[c], Outcome(app, Programs[chosen].main, c[1], c[2], When(s)))
\* The body of a [future] function is run by a worker, and nothing else is: the code that asks to go
\* on elsewhere is its code, however functions were inlined and taken apart.
Futures == {n \in DOMAIN Source(chosen) : "future" \in Source(chosen)[n].attrs}
Yielding == {n \in DOMAIN app : \E i \in DOMAIN app[n].ops : WP!Yields(app[n].ops[i])}
FuturesOnWorkers ==
    stage \notin TreeStages \cup {"future_entries", "done"} =>
        /\ Yielding \subseteq Futures \cup {AL!MachineName(n) : n \in Futures}
        /\ \A n \in Futures : {n, AL!MachineName(n)} \cap Yielding # {}
\* Until phis go, every local has one definition, and no conditional jump leads into a block with phis,
\* whose moves would have nowhere to go.
StaysSsa == stage \in SsaStages => \A n \in DOMAIN app : ValidSsa(app[n]) /\ NoJumpIfToPhi(app[n])
\* No local is read before it is written, whichever way control comes: not in a phi's source on its
\* edge, not in a state machine that goes on in the middle of a function.
DefinitelyAssigned == stage \notin TreeStages => \A n \in DOMAIN app : AL!CheckFunction(app[n])
\* Nothing can suspend between the allocation of an object and the stores that fill it in: the
\* collector and other threads would see it half made.
Between(ops, k, j) == \A i \in k + 1 .. j - 1 : ~AL!Parks(ops[i]) /\ ops[i].o \notin {"iftask", "label"}
Fills(ops, k, j) ==
    /\ \A i \in k + 1 .. j : FallsThrough(ops[i]) /\ ~Is(ops[i], "new")
    /\ AL!Initialises(ops[j], ops[k].t)
    /\ \A i \in k + 1 .. j - 1 : ~(Is(ops[i], "move") /\ ops[i].t = ops[j].t)
ConstructionAtomic ==
    stage \notin TreeStages =>
        \A n \in DOMAIN app : \A k \in DOMAIN app[n].ops : Is(app[n].ops[k], "new") =>
            \A j \in k + 1 .. Len(app[n].ops) : Fills(app[n].ops, k, j) => Between(app[n].ops, k, j)
====
