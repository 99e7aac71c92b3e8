---- MODULE AsyncLower ----
(* Async lowering (lowering/async_lower.py): every function that may suspend becomes two.  The hot
   path runs as it was written; a guard after each call that may suspend leaves it, when the call
   came back with a task, for a tail that saves the live locals in a state object and registers the
   state machine as the continuation of the task.  The state machine reloads them and goes on.

   No phi is left when this pass runs (phi_removal).  Which locals a state must carry, and whether
   every read finds its local written, is one analysis (lowering/uninit_check.py). *)
EXTENDS DeferAwaits

CONSTANT StubThreshold    \* _STUB_THRESHOLD_OPS: above it a loop that parks has no hot path

(* Definite assignment: which locals every path to an operation has written, and the last check
   before emission (the operands of a phi count on the edge they come from). *)
\* Before an operation no path reaches, everything is assigned, and this name too.
Unreached == <<"$unreached">>
\* A guard writes its task and index only on the way out.
TakenWrites(op) == IF Is(op, "iftask") THEN Names({t \in Targets(op) : IsVar(t)}) ELSE {}

\* What is assigned on entry to each operation from the i-th on, with what is at each label.
RECURSIVE EntriesFrom(_, _, _, _, _)
EntriesFrom(ops, i, before, atLabel, all) ==
    IF i > Len(ops) THEN <<>>
    ELSE LET here == IF Is(ops[i], "label") THEN before \cap atLabel[ops[i].n] ELSE before
             after == IF FallsThrough(ops[i]) THEN here \cup Names(Writes(ops[i])) ELSE all
         IN <<here>> \o EntriesFrom(ops, i + 1, after, atLabel, all)
AtLabels(ops, entry, labels, all) ==
    [l \in labels |->
       LET from == {j \in DOMAIN ops : l \in BranchTargets(ops[j])}
       IN {n \in all : \A j \in from : n \in entry[j] \cup Names(Writes(ops[j])) \cup TakenWrites(ops[j])}]
RECURSIVE Stable(_, _, _, _)
Stable(ops, params, atLabel, all) ==
    LET entry == EntriesFrom(ops, 1, params, atLabel, all)
        next == AtLabels(ops, entry, DOMAIN atLabel, all)
    IN IF next = atLabel THEN entry ELSE Stable(ops, params, next, all)
\* compute_entry_sets
EntrySets(fn) ==
    LET params == Names(ToSet(fn.params))
        all == Names(Mentioned(fn.ops)) \cup params
                 \cup UNION {TakenWrites(fn.ops[i]) : i \in DOMAIN fn.ops} \cup {Unreached}
        labels == {fn.ops[i].n : i \in {j \in DOMAIN fn.ops : Is(fn.ops[j], "label")}}
    IN Stable(fn.ops, params, [l \in labels |-> all], all)

\* check_function: no local is read before it is assigned, a phi's source on the edge it comes from.
UnassignedReads(fn, entry) ==
    {i \in DOMAIN fn.ops : /\ Unreached \notin entry[i] /\ ~Is(fn.ops[i], "phi")
                           /\ ~(Names(Reads(fn.ops[i])) \subseteq entry[i])}
EdgesInto(ops, l, block) ==
    {i \in DOMAIN ops : \/ l \in BranchTargets(ops[i])
                        \/ i < Len(ops) /\ ops[i + 1] = Label(l) /\ FallsThrough(ops[i])}
UnassignedSources(fn, entry, block) ==
    {i \in DOMAIN fn.ops : /\ Is(fn.ops[i], "phi")
        /\ \E j \in EdgesInto(fn.ops, block[i], block), s \in ToSet(fn.ops[i].srcs) :
             /\ s[1] = block[j] /\ Unreached \notin entry[j]
             /\ ~(Names(LiveVars(s[2])) \subseteq entry[j] \cup Names(Writes(fn.ops[j])))}
Checked(fn, entry) == UnassignedReads(fn, entry) = {} /\ UnassignedSources(fn, entry, BlockOf(fn.ops)) = {}
CheckFunction(fn) == fn.ops = <<>> \/ Checked(fn, EntrySets(fn))

TVoid == [t |-> "void"]
Scratch(s, ty) == Var(<<"$sv", s>>, ty)
SvState == Scratch("state", TPtr)
SvTask == Scratch("task", TPtr)
SvDiscard == Scratch("discard", TPtr)
SvCallId == Scratch("call_id", TInt)
SvAsyncTask == Scratch("async_task", TPtr)
StateParam == Var(<<"$state">>, TPtr)
CompletedParam == Var(<<"$completed_task">>, TPtr)
MachineName(n) == Append(n, "$async")
StateClass(fn) == Append(fn.name, "$state")
Nth(s, i) == <<s, ToString(i)>>
AsyncCommon == <<"$asynccommon">>

Effect(fn, args) == KeptMove(SvDiscard, RuntimeInvoke(fn, args, TPtr))

(* Before blocks are cut: tail calls, calls that never suspend, results returned unawaited. *)
Rewrite(fn, ops) == [fn EXCEPT !.ops = ops]
\* __discover_tail_calls; no function of the source language is void.
DiscoverTailCalls(fn) ==
    LET tail == {k \in DOMAIN fn.ops : TailCalled(fn, k)}
        At(k) == IF k \in tail
                 THEN <<[fn.ops[k] EXCEPT !.musttail = TRUE, !.t = None, !.rty = fn.result]>>
                 ELSE IF k - 1 \in tail THEN <<>> ELSE <<fn.ops[k]>>
    IN Rewrite(fn, Concat([k \in DOMAIN fn.ops |-> At(k)]))

\* __expand_sync_call: the result is received in its wrapped shape and unwrapped at once.
Received(op, name) == Var(name, WrapReturnType(op.rty))
InPlace(op) == op.t # None /\ WrapReturnType(op.rty) = op.rty
ExpandSyncCall(op, name) ==
    LET wrapped == WrapReturnType(op.rty)
        received == IF InPlace(op) THEN op.t ELSE Received(op, name)
    IN <<[op EXCEPT !.t = received], AssertNotTask(IsTaskParam(received, wrapped))>>
         \o (IF op.t = None \/ InPlace(op) THEN <<>> ELSE <<Move(op.t, UnwrapValue(received, op.rty))>>)
PlainSync(op) == Is(op, "call") /\ ~op.musttail /\ IsSync(op)
SyncWrapName(k) == Nth("$syncwrap", k)
ExpandSyncCalls(fn) ==
    LET at == {k \in DOMAIN fn.ops : PlainSync(fn.ops[k])}
    IN [fn EXCEPT !.ops = Concat([k \in DOMAIN fn.ops |->
                             IF k \in at THEN ExpandSyncCall(fn.ops[k], SyncWrapName(k)) ELSE <<fn.ops[k]>>]),
                  !.locals = @ \cup {Received(fn.ops[k], SyncWrapName(k)) : k \in {h \in at : ~InPlace(fn.ops[h])}}]

\* The value of a deferred call that is not running any more.
AwaitTask(op) == PendingTaskOf(op.s, op.s.ty)
TaskRunning(op) == RuntimeInvoke("TASK_RUNNING", <<AwaitTask(op)>>, TInt)
AwaitValue(op, label) ==
    <<JumpIf(Append(label, "done"), AwaitTask(op)),
      Move(op.t, UnwrapValue(op.s, op.t.ty)), Jump(Append(label, "end")),
      Label(Append(label, "done")), Move(op.t, ExtractFromTask(AwaitTask(op), op.t.ty)),
      Label(Append(label, "end"))>>

\* __return_unparked: a function that only awaits what it returns never parks.
Parks(op) == MaySuspend(op) \/ Is(op, "await")
ReturnUnparked(fn) ==
    LET awaits == {k \in DOMAIN fn.ops : Is(fn.ops[k], "await")}
        \* from an await to the return after it
        skipped == {j \in DOMAIN fn.ops : \E k \in awaits : k < j /\ \A h \in k .. j - 1 : ~Is(fn.ops[h], "ret")}
        At(k) == IF k \in awaits THEN <<Return(fn.ops[k].s)>> ELSE IF k \in skipped THEN <<>> ELSE <<fn.ops[k]>>
    IN IF awaits = {} \/ \E k \in DOMAIN fn.ops : Parks(fn.ops[k]) /\ ~(k \in awaits /\ fn.ops[k].returned)
       THEN fn ELSE Rewrite(fn, Concat([k \in DOMAIN fn.ops |-> At(k)]))

\* __unroll_musttail_for_state_machine: a continuation has no caller to return the callee's to.
TailResult(op, k) == Var(Nth("$musttail$ret", k), op.rty)
Unrolled(op, k) ==
    LET call == [op EXCEPT !.musttail = FALSE, !.t = TailResult(op, k)]
    IN (IF IsSync(op) THEN ExpandSyncCall(call, SyncWrapName(k)) ELSE <<call>>) \o <<Return(TailResult(op, k))>>
UnrollMusttail(fn) ==
    LET tail == {k \in DOMAIN fn.ops : Is(fn.ops[k], "call") /\ fn.ops[k].musttail}
        sync == {k \in tail : IsSync(fn.ops[k])}
    IN [fn EXCEPT !.ops = Concat([k \in DOMAIN fn.ops |->
                             IF k \in tail THEN Unrolled(fn.ops[k], k) ELSE <<fn.ops[k]>>]),
                  !.locals = @ \cup {TailResult(fn.ops[k], k) : k \in sync}
                               \cup {Received(fn.ops[k], SyncWrapName(k)) : k \in sync}]

(* Liveness: what is live after each operation, a backward analysis over the labels. *)
LiveInto(ops, i, atLabel, next) ==
    LET taken == IF Is(ops[i], "jumpif") THEN atLabel[ops[i].n] ELSE {}
    IN CASE Is(ops[i], "jump") -> atLabel[ops[i].n]
         [] ~Is(ops[i], "jump") /\ i = Len(ops) -> {}
         [] OTHER -> next \cup taken
RECURSIVE SavedFrom(_, _, _)
SavedFrom(ops, i, atLabel) ==
    IF i > Len(ops) THEN <<>>
    ELSE LET rest == SavedFrom(ops, i + 1, atLabel)
             next == IF rest = <<>> THEN {} ELSE Reads(ops[i + 1]) \cup rest[1]
         IN <<LiveInto(ops, i, atLabel, next) \ Writes(ops[i])>> \o rest
RECURSIVE SavedStable(_, _)
SavedStable(ops, atLabel) ==
    LET saved == SavedFrom(ops, 1, atLabel)
        next == [l \in DOMAIN atLabel |-> saved[LabelAt(ops, l)]]
    IN IF next = atLabel THEN saved ELSE SavedStable(ops, next)
SavedVars(ops) ==
    SavedStable(ops, [l \in {ops[i].n : i \in {j \in DOMAIN ops : Is(ops[j], "label")}} |-> {}])

(* Blocks end where the function may park.  cut are the places, in order; what a block saves is live
   after its last operation. *)
CutsOf(ops) == SelectSeq([i \in DOMAIN ops |-> i], LAMBDA i : Parks(ops[i]))
BlockBefore(ops, cut, b) ==
    SubSeq(ops, IF b = 1 THEN 1 ELSE cut[b - 1] + 1, IF b <= Len(cut) THEN cut[b] - 1 ELSE Len(ops))
ResultOf(op) == {op.t} \ {None}
FrameVars(ops, cut, saved) ==
    UNION {saved[cut[b]] \cup ResultOf(ops[cut[b]]) : b \in DOMAIN cut}

(* The layout of the state object.  Locals of one type that are never live together share a slot;
   a pointer, or a struct of pointers only, lies in the trailing array. *)
RECURSIVE PtrLeaves(_)
PtrLeaves(ty) ==
    CASE IsPointer(ty) -> <<<<>>>>
      [] ty.t = "struct" ->
           LET sub == [i \in DOMAIN ty.names |-> PtrLeaves(ty.types[i])]
           IN IF \E i \in DOMAIN sub : sub[i] = <<>> THEN <<>>
              ELSE Concat([i \in DOMAIN sub |-> [k \in DOMAIN sub[i] |-> <<ty.names[i]>> \o sub[i][k]]])
      [] OTHER -> <<>>
Width(ty) == Len(PtrLeaves(ty))
Interference_DeadDefs(ops, saved, frame) ==
    UNION {(Names(saved[i]) \cap frame) \X (Names(Reads(ops[i])) \cap frame) : i \in DOMAIN ops}
\* __build_interference: pairs of frame locals that are live at once.
Interference(ops, saved, frame) ==
    LET At(i) == LET out == Names(saved[i]) \cap frame
                     writes == Names(Writes(ops[i])) \cap frame
                     in == (Names(Reads(ops[i])) \cap frame) \cup (out \ writes)
                 IN (out \X out) \cup (writes \X out) \cup (in \X in)
    IN UNION {At(i) : i \in DOMAIN ops}
RECURSIVE Coloured(_, _, _)
Coloured(names, pairs, done) ==
    IF names = <<>> THEN done
    ELSE LET used == {done[m] : m \in {x \in DOMAIN done : {<<x, names[1]>>, <<names[1], x>>} \cap pairs # {}}}
         IN Coloured(Tail(names), pairs, (names[1] :> Min((0 .. Cardinality(used)) \ used)) @@ done)
ColourAll(frame, types, pairs) ==
    [i \in DOMAIN types |-> Coloured(Listed(Names({v \in frame : Erased(v.ty) = types[i]})), pairs, <<>>)]
ColourCount(colour) == Cardinality({colour[n] : n \in DOMAIN colour})
RECURSIVE ArrayBase(_, _, _)
ArrayBase(types, colours, i) ==
    IF i = 1 THEN 0 ELSE ArrayBase(types, colours, i - 1) + Width(types[i - 1]) * ColourCount(colours[i - 1])
Elements(base, width) == [k \in 1 .. width |-> <<"array", ToString(base + k - 1)>>]
Placed(types, colours, v) ==
    LET i == CHOOSE j \in DOMAIN types : types[j] = Erased(v.ty)
        c == colours[i][v.n]
    IN IF Width(v.ty) = 0 THEN <<<<"$slot", ToString(i), ToString(c)>>>>
       ELSE Elements(ArrayBase(types, colours, i) + c * Width(v.ty), Width(v.ty))
LayOut(frame, types, colours) ==
    [at |-> [n \in Names(frame) |-> Placed(types, colours, CHOOSE v \in frame : v.n = n)],
     size |-> ArrayBase(types, colours, Len(types) + 1)]
LayoutOver(frame, types, pairs) == LayOut(frame, types, ColourAll(frame, types, pairs))
FrameLayout(frame, pairs) == LayoutOver(frame, Listed({Erased(v.ty) : v \in frame}), pairs)
\* __augment_layout_with_params
RECURSIVE WithParams(_, _)
WithParams(layout, params) ==
    IF params = <<>> THEN layout
    ELSE LET v == params[1]
             place == IF Width(v.ty) = 0 THEN <<v.n>> ELSE Elements(layout.size, Width(v.ty))
         IN WithParams(IF v.n \in DOMAIN layout.at THEN layout
                       ELSE [at |-> (v.n :> place) @@ layout.at, size |-> layout.size + Width(v.ty)],
                       Tail(params))

\* __store_var, __load_var
StoreVar(v, state, cls, layout) ==
    LET leaves == PtrLeaves(v.ty)
        place == layout.at[v.n]
    IN IF leaves = <<>> \/ IsPointer(v.ty) THEN <<Move(ObjectField(state, cls, place[1], v.ty), v)>>
       ELSE [k \in DOMAIN leaves |-> Move(ObjectField(state, cls, place[k], TPtr), Project(v, leaves[k]))]
RECURSIVE Rebuilt(_, _, _)
Rebuilt(ty, cls, place) ==
    LET Before(i) == FoldLeft(LAMBDA n, t : n + Width(t), 0, SubSeq(ty.types, 1, i - 1))
        Part(i) == SubSeq(place, Before(i) + 1, Before(i) + Width(ty.types[i]))
    IN IF ty.t # "struct" \/ Width(ty) = 0 THEN ObjectField(StateParam, cls, place[1], ty)
       ELSE NewStruct(ty.names, [i \in DOMAIN ty.names |-> Rebuilt(ty.types[i], cls, Part(i))])
LoadVar(v, cls, layout) == Move(v, Rebuilt(v.ty, cls, layout.at[v.n]))
StoreAll(vars, state, cls, layout) ==
    LET vs == Listed(vars) IN Concat([i \in DOMAIN vs |-> StoreVar(vs[i], state, cls, layout)])
LoadAll(vars, cls, layout) ==
    LET vs == Listed(vars) IN [i \in DOMAIN vs |-> LoadVar(vs[i], cls, layout)]
StateField(state, cls, f) == ObjectField(state, cls, <<f>>, IF f = "idx" THEN TInt ELSE TPtr)

\* _emit_task_alloc
TaskAlloc(subtype) ==
    CASE subtype = BaseTask -> <<Move(SvTask, RuntimeInvoke("task_create", <<NullPointer>>, TPtr))>>
      [] subtype \in RuntimeSubtypes -> <<Move(SvTask, RuntimeInvoke(subtype[1] \o "_create", <<NullPointer>>, TPtr))>>
      [] OTHER -> <<NewObject(subtype, SvTask), Effect("task_init", <<SvTask>>)>>
ZeroVal(ty) == IF IsPointer(ty) THEN NullPointer ELSE IF ty.t = "int" THEN Integer(0) ELSE ZeroOf(ty)

(* The hot path. *)
WrapName(b) == Nth("$wrap", b)
\* __convert_returns_for_hot_path
HotReturns(ops, result) ==
    LET wrapped == WrapReturnType(result)
        At(op) == CASE Is(op, "ret") -> Return(WrapValue(op.v, wrapped))
                    [] Is(op, "call") /\ op.musttail -> [op EXCEPT !.rty = wrapped]
                    [] OTHER -> op
    IN IF wrapped = result THEN ops ELSE [i \in DOMAIN ops |-> At(ops[i])]
Guard(cond, source, b) == IfTask(cond, source, SvAsyncTask, SvCallId, b, AsyncCommon)
HotCall(op, b) ==
    LET wrapped == WrapReturnType(op.rty)
        received == IF InPlace(op) THEN op.t ELSE Var(WrapName(b), wrapped)
    IN <<[op EXCEPT !.t = received], Guard(IsTaskParam(received, wrapped), TaskWord(received, wrapped), b)>>
         \o (IF op.t = None \/ InPlace(op) THEN <<>> ELSE <<Move(op.t, UnwrapValue(received, op.rty))>>)
HotEnd(op, b) ==
    CASE Is(op, "await") /\ op.returned -> <<Return(op.s)>>
      [] Is(op, "await") /\ ~op.returned ->
           <<Guard(TaskRunning(op), AwaitTask(op), b)>> \o AwaitValue(op, Nth("$await", b))
      [] OTHER -> HotCall(op, b)
\* Saved at each site is only what is live there: a slot is shared by locals that are not.
Saves(fn, cut, saved, layout) ==
    LET cls == StateClass(fn)
        At(b) == <<Label(Nth("$save", b))>> \o StoreAll(saved[cut[b]], SvState, cls, layout)
                   \o <<Jump(<<"$save", "done">>)>>
    IN <<NewObject(cls, SvState),
         SwitchJump(SvCallId, [b \in DOMAIN cut |-> <<b, Nth("$save", b)>>]), Jump(<<"$save", "done">>)>>
         \o Concat([b \in DOMAIN cut |-> At(b)]) \o <<Label(<<"$save", "done">>)>>
Machine(fn, state) == GlobalFunction(MachineName(fn.name), state, FALSE)
Common(fn, cut, saved, layout) ==
    LET cls == StateClass(fn)
        my_task == StateField(SvState, cls, "my_task")
    IN Saves(fn, cut, saved, layout)
         \o <<Move(my_task, NullPointer), Move(StateField(SvState, cls, "idx"), SvCallId)>>
         \o TaskAlloc(TaskSubtype(fn.result)) \o <<Move(my_task, SvTask)>>
         \o <<Effect("task_on_complete", <<SvAsyncTask, Machine(fn, SvState)>>),
              Return(TagTask(SvTask, WrapReturnType(fn.result)))>>
HotVars(fn, cut) ==
    {SvState, SvTask, SvDiscard, SvCallId, SvAsyncTask}
      \cup {Var(WrapName(b), WrapReturnType(fn.ops[cut[b]].rty)) :
              b \in {c \in DOMAIN cut : Is(fn.ops[cut[c]], "call") /\ ~InPlace(fn.ops[cut[c]])}}
\* Every local that some site saves has a value at the label all guards go to.
HotInits_None(fn, cut, saved) == <<>>
HotInits(fn, cut, saved) ==
    LET vs == Listed({v \in FrameVars(fn.ops, cut, saved) : v.n \notin Names(ToSet(fn.params))})
    IN [i \in DOMAIN vs |-> Move(vs[i], ZeroVal(vs[i].ty))]
HotPath(fn, cut, saved, layout) ==
    LET At(b) == HotReturns(BlockBefore(fn.ops, cut, b), fn.result)
                   \o (IF b <= Len(cut) THEN HotEnd(fn.ops[cut[b]], b) ELSE <<>>)
    IN [fn EXCEPT !.result = WrapReturnType(@),
                  !.locals = @ \cup HotVars(fn, cut),
                  !.ops = HotInits(fn, cut, saved)
                            \o Concat([b \in 1 .. Len(cut) + 1 |-> At(b)]) \o <<Label(AsyncCommon)>>
                            \o (IF fn.sync THEN <<Abort>> ELSE Common(fn, cut, saved, layout))]
\* A function without a place to park only has its result wrapped.
Simple(fn) == [fn EXCEPT !.result = WrapReturnType(@), !.ops = HotReturns(@, fn.result)]

\* __create_stub_launch_func
StubLaunch(fn, cut, layout) ==
    LET cls == StateClass(fn)
        my_task == StateField(SvState, cls, "my_task")
        stores == [i \in DOMAIN fn.params |-> StoreVar(fn.params[i], SvState, cls, layout)]
    IN [fn EXCEPT !.result = WrapReturnType(@), !.locals = {SvState, SvTask, SvDiscard},
          !.ops = <<NewObject(cls, SvState)>> \o Concat(stores)
                    \o <<Move(my_task, NullPointer),
                         Move(StateField(SvState, cls, "idx"), Integer(Len(cut) + 1))>>
                    \o TaskAlloc(TaskSubtype(fn.result)) \o <<Move(my_task, SvTask)>>
                    \o <<Call(Machine(fn, SvState), NewStruct(<<"$completed_task">>, <<NullPointer>>), None, TVoid),
                         Return(TagTask(SvTask, WrapReturnType(fn.result)))>>]

(* The state machine. *)
\* __convert_returns_for_state_machine
MachineReturns(ops, fn) ==
    LET task == StateField(StateParam, StateClass(fn), "my_task")
        subtype == TaskSubtype(fn.result)
        Result(op) == IF subtype = BaseTask THEN <<>> ELSE <<Move(TaskField(task, subtype, "result", fn.result), op.v)>>
        At(op) == IF Is(op, "ret") THEN Result(op) \o <<Effect("task_complete", <<task>>), ReturnVoid>> ELSE <<op>>
    IN Concat([i \in DOMAIN ops |-> At(ops[i])])
MachineWrap(op, b) == Var(Nth("$sm_wrap", b), WrapReturnType(op.rty))
Unlikely(p) == RuntimeInvoke("UNLIKELY", <<p>>, TInt)
ParkLabel(b) == Nth("$async_sm", b)
ResumeLabel(b) == Nth("$resume", b)
CaseLabel(b) == Nth("$case", b)
\* Up to where a resumed block goes on: the check and the unwrapping come before it, for a resume
\* brings the result with it.
MachineEnd(op, b) ==
    LET wrapped == WrapReturnType(op.rty)
        received == IF InPlace(op) THEN op.t ELSE MachineWrap(op, b)
    IN IF Is(op, "await")
       THEN <<JumpIf(ParkLabel(b), Unlikely(TaskRunning(op)))>> \o AwaitValue(op, Nth("$await_sm", b))
              \o <<Label(ResumeLabel(b))>>
       ELSE <<[op EXCEPT !.t = received], JumpIf(ParkLabel(b), Unlikely(IsTaskParam(received, wrapped)))>>
              \o (IF op.t = None \/ InPlace(op) THEN <<>> ELSE <<Move(op.t, UnwrapValue(received, op.rty))>>)
              \o <<Label(ResumeLabel(b))>>
ParkedOn(op, b) ==
    LET wrapped == WrapReturnType(op.rty)
        received == IF InPlace(op) THEN op.t ELSE MachineWrap(op, b)
    IN IF Is(op, "await") THEN AwaitTask(op) ELSE RuntimeInvoke("TASK_UNTAG", <<TaskWord(received, wrapped)>>, TPtr)
\* A local the machine only ever loads is in its slot already.
Park(fn, op, b, live, layout, defined) ==
    LET cls == StateClass(fn)
    IN <<Label(ParkLabel(b))>> \o StoreAll({v \in live : v.n \in defined}, StateParam, cls, layout)
         \o <<Move(StateField(StateParam, cls, "idx"), Integer(b)),
              Effect("task_on_complete", <<ParkedOn(op, b), Machine(fn, StateParam)>>), ReturnVoid>>
Resume(fn, op, b, live, layout) ==
    <<Label(CaseLabel(b))>> \o LoadAll(live, StateClass(fn), layout)
      \o (IF op.t = None THEN <<>>
          ELSE <<Move(op.t, ExtractFromTask(CompletedParam, op.t.ty))>>)
      \o <<Jump(ResumeLabel(b))>>
EntryLabel == <<"$case", "entry">>
BodyLabel == <<"$sm", "body">>
EntryCase(fn, cut, saved, layout) ==
    LET params == ToSet(fn.params)
        rest == {v \in UNION {saved[cut[b]] : b \in DOMAIN cut} : v.n \notin Names(params)}
    IN <<Label(EntryLabel)>> \o LoadAll(params \cup rest, StateClass(fn), layout) \o <<Jump(BodyLabel)>>
MachineOps(fn, cut, saved, layout, stub) ==
    LET n == Len(cut)
        defined == Names(UNION {Writes(fn.ops[i]) : i \in DOMAIN fn.ops})
        cases == [b \in DOMAIN cut |-> <<b, CaseLabel(b)>>] \o (IF stub THEN <<<<n + 1, EntryLabel>>>> ELSE <<>>)
        Body(b) == MachineReturns(BlockBefore(fn.ops, cut, b), fn)
                     \o (IF b <= n THEN MachineEnd(fn.ops[cut[b]], b) ELSE <<>>)
    IN <<SwitchJump(StateField(StateParam, StateClass(fn), "idx"), cases)>>
         \o (IF stub THEN <<Label(BodyLabel)>> ELSE <<>>)
         \o Concat([b \in 1 .. n + 1 |-> Body(b)])
         \o Concat([b \in 1 .. n |-> Park(fn, fn.ops[cut[b]], b, saved[cut[b]], layout, defined)])
         \o Concat([b \in 1 .. n |-> Resume(fn, fn.ops[cut[b]], b, saved[cut[b]], layout)])
         \o (IF stub THEN EntryCase(fn, cut, saved, layout) ELSE <<>>)
MachineVars(fn, cut) ==
    ToSet(fn.params) \cup {SvDiscard} \cup UNION {ResultOf(fn.ops[cut[b]]) : b \in DOMAIN cut}
      \cup {MachineWrap(fn.ops[cut[b]], b) : b \in {c \in DOMAIN cut : Is(fn.ops[cut[c]], "call") /\ ~InPlace(fn.ops[cut[c]])}}
StateMachine(fn, cut, saved, layout, stub) ==
    [Function(MachineName(fn.name), <<StateParam, CompletedParam>>, TVoid, fn.locals \cup MachineVars(fn, cut),
              MachineOps(fn, cut, saved, layout, stub)) EXCEPT !.sync = fn.sync]

\* __zero_init_unwritten_saves: what a machine saves before the first write is zeroed on entry.
UnwrittenSaves(fn, entry) ==
    {fn.ops[i].s : i \in {j \in DOMAIN fn.ops :
        /\ Is(fn.ops[j], "move") /\ Unreached \notin entry[j]
        /\ fn.ops[j].t.k = "ofield" /\ fn.ops[j].t.a[1] = StateParam
        /\ IsVar(fn.ops[j].s) /\ fn.ops[j].s.n \notin entry[j]}}
ZeroInit(fn, vars) ==
    LET vs == Listed(vars)
    IN [fn EXCEPT !.ops = [i \in DOMAIN vs |-> Move(vs[i], ZeroVal(vs[i].ty))] \o @]
ZeroInitUnwrittenSaves(fn) == ZeroInit(fn, UnwrittenSaves(fn, EntrySets(fn)))

(* One function: what it becomes, by name. *)
HasParkingLoop(ops) ==
    \E i \in DOMAIN ops : \E l \in BranchTargets(ops[i]) :
        LabelAt(ops, l) < i /\ \E k \in LabelAt(ops, l) .. i : Parks(ops[k])
UseStub(fn, view) == ~fn.sync /\ Len(view.ops) > StubThreshold /\ HasParkingLoop(view.ops)
Two(hot, machine) == IF hot.sync THEN hot.name :> hot ELSE (hot.name :> hot) @@ (machine.name :> machine)
\* fn has the hot path's cuts and live sets, view those of the state machine.
Lowered(fn, cut, saved, view, vcut, vsaved, layout) ==
    IF UseStub(fn, view)
    THEN Two(StubLaunch(fn, vcut, WithParams(layout, fn.params)),
             StateMachine(view, vcut, vsaved, WithParams(layout, fn.params), TRUE))
    ELSE Two(HotPath(fn, cut, saved, layout), StateMachine(view, vcut, vsaved, layout, FALSE))
LoweredWith(fn, cut, saved, view, vcut, vsaved, frame) ==
    Lowered(fn, cut, saved, view, vcut, vsaved,
            FrameLayout(frame, Interference(view.ops, vsaved, Names(frame))
                                 \cup Interference(fn.ops, saved, Names(frame))))
LoweredViews(fn, saved, view, vsaved) ==
    LoweredWith(fn, CutsOf(fn.ops), saved, view, CutsOf(view.ops), vsaved,
                FrameVars(view.ops, CutsOf(view.ops), vsaved))
ConvertFunction(fn) ==
    IF CutsOf(fn.ops) = <<>> THEN fn.name :> Simple(fn)
    ELSE LET view == UnrollMusttail(fn) IN LoweredViews(fn, SavedVars(fn.ops), view, SavedVars(view.ops))
ToTaskConvention(fn) == ConvertFunction(ReturnUnparked(ExpandSyncCalls(DiscoverTailCalls(fn))))
Gathered(made) ==
    LET From(m) == CHOOSE n \in DOMAIN made : m \in DOMAIN made[n]
    IN [m \in UNION {DOMAIN made[n] : n \in DOMAIN made} |-> ZeroInitUnwrittenSaves(made[From(m)][m])]
LowerAsync(app) == Gathered([n \in DOMAIN app |-> ToTaskConvention(app[n])])
====
