---- MODULE Meaning ----
(* What programs mean, shared by the source language and the emitted code: values, the heap, what
   the outside observes, and the operations of the runtime a program calls.

   The outside world is an oracle: it answers an external call with one of a sequence of integers,
   chosen by what it is asked, and it sees the name and the arguments of every call. *)
EXTENDS Naturals, Sequences, SequencesExt, TLC

VInt(i) == [v |-> "int", i |-> i]
VNull == [v |-> "null"]
VUndef == [v |-> "undef"]
VStruct(names, vals) == [v |-> "struct", names |-> names, vals |-> vals]
VObj(id) == [v |-> "obj", id |-> id]
VFun(fn, self) == [v |-> "fun", fn |-> fn, self |-> self]
VTuple(vals) == VStruct([i \in DOMAIN vals |-> "_" \o ToString(i - 1)], vals)

\* A function value has one field that code reads, its object.
FieldOf(s, f) ==
    CASE s.v = "struct" /\ Contains(s.names, f) -> s.vals[CHOOSE i \in DOMAIN s.names : s.names[i] = f]
      [] s.v = "fun" -> s.self
      [] s = VNull -> VNull
      [] OTHER -> VUndef
Truth(v) == (v.v = "int" /\ v.i # 0) \/ v.v = "obj"
Bool(b) == VInt(IF b THEN 1 ELSE 0)

\* The world: the heap, and what was observed.
World0 == [heap |-> <<>>, trace |-> <<>>]
Alloc(w, cls) == [w EXCEPT !.heap = Append(@, [cls |-> cls, f |-> <<>>, moved |-> 0])]
NewId(w) == VObj(Len(w.heap) + 1)
Put(w, o, f, val) ==
    IF o.v = "obj" THEN [w EXCEPT !.heap[o.id].f = (f :> val) @@ @] ELSE w
Get(w, o, f) ==
    IF o.v = "obj" /\ f \in DOMAIN w.heap[o.id].f THEN w.heap[o.id].f[f] ELSE VUndef
\* A copy of an object, which takes its place: where it was, its old contents can still be read.
Relocated(w, o) == [w EXCEPT !.heap = Append([@ EXCEPT ![o.id].moved = NewId(w).id], w.heap[o.id])]
RECURSIVE Live(_, _)
Live(w, o) ==
    IF o.v # "obj" \/ w.heap[o.id].moved = 0 THEN o ELSE Live(w, VObj(w.heap[o.id].moved))

\* A value as the outside sees it: an object says nothing but that it is one.
RECURSIVE Shown(_)
Shown(val) ==
    CASE val.v = "struct" -> [val EXCEPT !.vals = [i \in DOMAIN @ |-> Shown(@[i])]]
      [] val.v \in {"obj", "fun"} -> [v |-> val.v]
      [] OTHER -> val
\* What the outside sees of a call: what it was asked, and the result.
Observed(w, val) == <<w.trace, Shown(val)>>

\* An external call.
Asked(w, fn, args) == [w EXCEPT !.trace = Append(@, <<fn, [i \in DOMAIN args |-> Shown(args[i])]>>)]
AnswerOf(args, oracle) ==
    LET about == IF args # <<>> /\ args[1].v = "int" THEN args[1].i ELSE 0
    IN VInt(oracle[1 + (about % Len(oracle))])

\* The flag of a stub whose value is there.
FlagComplete == VInt(2)
\* Operations of the runtime that only compute.  "sub" stops at zero.
Pure(fn, args) ==
    LET int(i) == IF args[i].v = "int" THEN args[i].i ELSE 0
    IN CASE \E i \in DOMAIN args : args[i].v = "undef" -> VUndef
         [] fn = "add" -> VInt(int(1) + int(2))
         [] fn = "sub" -> VInt(IF int(1) > int(2) THEN int(1) - int(2) ELSE 0)
         [] fn = "eq" -> Bool(args[1] = args[2])
         [] fn = "lt" -> Bool(int(1) < int(2))
         [] fn = "lazy_global_init_complete" -> Bool(args[1] = FlagComplete)
         [] OTHER -> VUndef
====
