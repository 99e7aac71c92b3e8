---- MODULE TypeSpecs ----
(* What a type is (pyast/typespec/specs.py): its identity, the members of a union, and whether a
   value of one type may go where another is declared, which is "yes", "no" or, while a part of
   either is not known, "maybe".

   Names that resolve are resolved here, and the ancestry of a class is known: a name that does not
   resolve yet is Name, a type nobody knows yet Unknown. *)
EXTENDS Integers, SequencesExt, FiniteSetsExt

CONSTANTS
  Classes,   \* By name: ps, the names of its parameters, and parents, all its ancestors spelt with them.
  Enums      \* By name: ps, and leaves, the set of its variants.

Unknown == [s |-> "none"]
Name == [s |-> "named"]
Builtin(n) == [s |-> "builtin", n |-> n]
Class(n, args) == [s |-> "class", n |-> n, args |-> args]
View(n, leaves, args) == [s |-> "enum", n |-> n, leaves |-> leaves, args |-> args]
Placeholder(n) == [s |-> "param", n |-> n]
Entry(n, ty, default) == [n |-> n, ty |-> ty, default |-> default]
Tuple(entries) == [s |-> "tuple", entries |-> entries]
Callable(ps, res) == [s |-> "fn", ps |-> ps, res |-> res]
Union(types) == [s |-> "union", types |-> types]

Types(entries) == [i \in DOMAIN entries |-> entries[i].ty]
\* The specs a spec is built from, and every spec in it.
Parts(x) ==
    CASE x.s \in {"class", "enum"} -> x.args
      [] x.s = "tuple" -> Types(x.entries)
      [] x.s = "fn" -> <<x.ps, x.res>>
      [] x.s = "union" -> x.types
      [] OTHER -> <<>>
RECURSIVE SpecsIn(_)
SpecsIn(x) == {x} \cup UNION {SpecsIn(y) : y \in ToSet(Parts(x))}

\* A result nobody declared leaves a callable concrete, and an enum is, whatever its arguments.  A
\* placeholder is concrete; a name is not.
RECURSIVE IsConcrete(_)
IsConcrete(x) ==
    /\ x.s \notin {"none", "named"}
    /\ x.s = "enum" \/ \A y \in ToSet(Parts(x)) : IsConcrete(y) \/ (x.s = "fn" /\ y = Unknown)
RECURSIVE HoldsPlaceholder(_)
HoldsPlaceholder(x) ==
    \/ x.s = "param"
    \/ x.s # "fn" /\ \E y \in ToSet(Parts(x)) : HoldsPlaceholder(y)

(* The identity of a type, NoId while it has a hole.  The variants of an enum that a view admits are
   no part of it, nor is the result of a callable; that of a union is a set.  A union's members are
   those of the unions in it, each identity once, without the views that another member widens. *)
NoId == <<"hole", "", <<>>>>
RECURSIVE UniqueId(_), Flatten(_)
IdOf(kind, n, ids) == IF NoId \in ToSet(ids) THEN NoId ELSE <<kind, n, ids>>
UniqueId(x) ==
    CASE x.s = "builtin" -> <<"builtin", x.n, <<>>>>
      [] x.s \in {"class", "enum"} -> IdOf(x.s, x.n, [i \in DOMAIN x.args |-> UniqueId(x.args[i])])
      [] x.s = "tuple" -> IdOf("tuple", "", [i \in DOMAIN x.entries |-> UniqueId(x.entries[i].ty)])
      [] x.s = "fn" -> IdOf("fn", "", <<UniqueId(x.ps)>>)
      [] x.s = "union" ->
           LET ids == {UniqueId(m) : m \in ToSet(Flatten(x.types))}
           IN IF NoId \in ids THEN NoId ELSE <<"union", "", ids>>
      [] OTHER -> NoId
Spliced(types) ==
    FlattenSeq([i \in DOMAIN types |-> IF types[i].s = "union" THEN Flatten(types[i].types) ELSE <<types[i]>>])
FirstOfEach(types) ==
    LET repeats == {i \in DOMAIN types : /\ UniqueId(types[i]) # NoId
                                         /\ \E j \in 1 .. i - 1 : UniqueId(types[j]) = UniqueId(types[i])}
    IN [k \in 1 .. Len(types) - Cardinality(repeats) |->
          types[CHOOSE i \in DOMAIN types \ repeats : Cardinality((1 .. i) \ repeats) = k]]
Subsumed(m, types) ==
    m.s = "enum" /\ \E x \in ToSet(types) : /\ x.s = "enum" /\ x.n = m.n
                                            /\ m.leaves \subseteq x.leaves /\ m.leaves # x.leaves
Flatten(types) ==
    LET flat == FirstOfEach(Spliced(types)) IN SelectSeq(flat, LAMBDA m : ~Subsumed(m, flat))
\* A union of one member is that member.
Bare(types) == IF Len(types) = 1 THEN types[1] ELSE Union(types)
MembersOf(x) == IF x.s = "union" THEN Flatten(x.types) ELSE <<x>>

(* Which entry of a tuple of these names binds each declared field; 0 is the field's default.  An
   entry binds the field of its name, and its own place when there is none; names that match nothing
   at all count for nothing. *)
NoBinding == <<-1>>
BindTupleEntries(fields, names) ==
    LET named(i) == names[i] # "" /\ \E j \in DOMAIN fields : fields[j].n = names[i]
        place(i) == IF named(i) THEN Min({j \in DOMAIN fields : fields[j].n = names[i]}) ELSE i
        at(j) == {i \in DOMAIN names : place(i) = j}
        positional == Len(names) = Len(fields) /\ \A i \in DOMAIN names : ~named(i)
    IN IF \/ Len(names) > Len(fields)
          \/ ~positional /\ \/ \E j \in DOMAIN fields : Cardinality(at(j)) > 1 \/ (at(j) = {} /\ ~fields[j].default)
                            \/ \E i \in DOMAIN names : names[i] = "" /\ \E k \in 1 .. i - 1 : named(k)
       THEN NoBinding
       ELSE [j \in DOMAIN fields |-> IF at(j) = {} THEN 0 ELSE CHOOSE i \in at(j) : TRUE]

\* All of some verdicts, and any of them.
AllOf(vs) == IF "no" \in vs THEN "no" ELSE IF "maybe" \in vs THEN "maybe" ELSE "yes"
AnyOf(vs) == IF "yes" \in vs THEN "yes" ELSE IF vs \subseteq {"no"} THEN "no" ELSE "maybe"
Judged(b) == IF b THEN "yes" ELSE "no"

RECURSIVE Unwrapped(_)
Unwrapped(x) == IF x.s = "tuple" /\ Len(x.entries) = 1 THEN Unwrapped(x.entries[1].ty) ELSE x

(* Fits is trivially_assignable_equals, AssignableFrom the trivially_assignable_from of each kind of
   type.  Arguments are invariant: equal, or each assignable from the other. *)
RECURSIVE Fits(_, _), AssignableFrom(_, _)
Invariant(l, r) ==
    LET both == {AssignableFrom(l, r), AssignableFrom(r, l)}
    IN IF l = r THEN "yes"
       ELSE IF Name \in {l, r} \/ HoldsPlaceholder(l) \/ HoldsPlaceholder(r) \/ ~IsConcrete(l) \/ ~IsConcrete(r)
       THEN "maybe"
       ELSE IF both = {"yes"} THEN "yes" ELSE IF "maybe" \in both THEN "maybe" ELSE "no"
InvariantArgs(ls, rs) == AllOf({Invariant(ls[i], rs[i]) : i \in DOMAIN ls})
Fits(l, r) ==
    LET left == Unwrapped(l)
        right == Unwrapped(r)
    IN IF Unknown \in {l, r} THEN "maybe"
       ELSE IF r.s = "enum" /\ r.leaves = {} THEN "yes"
       ELSE IF l.s = "tuple" /\ r.s = "tuple" THEN AssignableFrom(l, r)
       ELSE IF Unknown \in {left, right} THEN "maybe"
       ELSE IF right.s = "union" /\ left.s # "union"
       THEN AllOf({Fits(left, m) : m \in ToSet(Flatten(right.types))})
       ELSE AssignableFrom(left, right)

\* A class of another name is assignable when the class has an ancestor of that name.
ClassFrom(l, r) ==
    IF r.s # "class" THEN "no"
    ELSE IF l.n # r.n THEN Judged(\E p \in ToSet(Classes[r.n].parents) : p.n = l.n)
    ELSE IF Len(l.args) # Len(r.args) THEN "no" ELSE InvariantArgs(l.args, r.args)
EnumFrom(l, r) ==
    IF r.s # "enum" THEN "no"
    ELSE IF l.n # r.n \/ ~(r.leaves \subseteq l.leaves) THEN "no"
    ELSE IF Len(l.args) # Len(r.args) THEN "maybe" ELSE InvariantArgs(l.args, r.args)
\* A placeholder field that nothing fits may still fit once it is bound, unless no field fits.
TupleFrom(l, r) ==
    LET bind == BindTupleEntries(l.entries, [i \in DOMAIN r.entries |-> r.entries[i].n])
        bound == {j \in DOMAIN l.entries : bind[j] # 0}
        fit(j) == Fits(l.entries[j].ty, r.entries[bind[j]].ty)
        open(j) == l.entries[j].ty.s = "param"
    IN IF r.s # "tuple" THEN "no"
       ELSE IF bind = NoBinding THEN "no"
       ELSE IF bound # {} /\ \A j \in bound : fit(j) = "no" THEN "no"
       ELSE AllOf({IF open(j) /\ fit(j) = "no" THEN "maybe" ELSE fit(j) : j \in bound})
\* Results are equivalent, parameters the other way round.
CallableFrom(l, r) ==
    LET results == {Fits(l.res, r.res), Fits(r.res, l.res)}
        result == IF "maybe" \in results THEN "maybe" ELSE Judged(results = {"yes"})
    IN IF r.s # "fn" THEN "no" ELSE AllOf({result, AssignableFrom(r.ps, l.ps)})
UnionFrom(l, r) ==
    LET rights == IF r.s = "union" THEN r.types ELSE <<r>>
    IN AllOf({AnyOf({Fits(x, y) : x \in ToSet(l.types)}) : y \in ToSet(rights)})
AssignableFrom(l, r) ==
    CASE l.s = "named" -> "maybe"
      [] l.s = "param" -> IF l = r THEN "yes" ELSE "maybe"
      [] OTHER ->
           IF r.s = "named" THEN "maybe"
           ELSE CASE l.s = "class" -> ClassFrom(l, r)
                  [] l.s = "enum" -> EnumFrom(l, r)
                  [] l.s = "tuple" -> TupleFrom(l, r)
                  [] l.s = "fn" -> CallableFrom(l, r)
                  [] l.s = "union" -> UnionFrom(l, r)
                  [] OTHER -> Judged(l = r)
====
