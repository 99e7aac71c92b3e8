---- MODULE TypeAlgebra ----
(* The algorithms over types (pyast/typespec/algebra.py): substitution, the one merge, the type of a
   branch, how a stored inference is refined, and how a where-constraint is solved. *)
EXTENDS TypeSpecs

CONSTANT InScope    \* The placeholders that resolve where the code stands: real types there, holes anywhere else.

\* A union keeps its spelling when nothing in it changed and it is flat; placeholders in map are replaced.
RECURSIVE Rebuilt(_, _)
Rebuilt(x, map) ==
    LET parts == [i \in DOMAIN Parts(x) |-> Rebuilt(Parts(x)[i], map)]
        flat == Flatten(parts)
    IN CASE x.s = "param" -> IF x.n \in DOMAIN map THEN map[x.n] ELSE x
         [] x.s \in {"class", "enum"} -> [x EXCEPT !.args = parts]
         [] x.s = "tuple" -> [x EXCEPT !.entries = [i \in DOMAIN parts |-> [x.entries[i] EXCEPT !.ty = parts[i]]]]
         [] x.s = "fn" -> [x EXCEPT !.ps = parts[1], !.res = parts[2]]
         [] x.s = "union" -> IF parts = x.types /\ Len(flat) = Len(parts) THEN x ELSE Bare(flat)
         [] OTHER -> x
\* The unions of what the placeholders were replaced by are made flat too.
Substitute(x, map) ==
    LET y == Rebuilt(x, map) IN IF DOMAIN map = {} \/ y = x THEN x ELSE Rebuilt(y, [n \in {} |-> Unknown])

PlaceholderNamesIn(x) == {y.n : y \in {z \in SpecsIn(x) : z.s = "param"}}
HasFreePlaceholders(x) == ~(PlaceholderNamesIn(x) \subseteq InScope)
\* A generic class or enum spelt without its arguments.
HasMissingArguments(x) ==
    \E y \in SpecsIn(x) : /\ y.s \in {"class", "enum"} /\ y.args = <<>>
                          /\ (IF y.s = "class" THEN Classes[y.n] ELSE Enums[y.n]).ps # <<>>
ContainsNarrowedView(x) == \E y \in SpecsIn(x) : y.s = "enum" /\ y.leaves # Enums[y.n].leaves
ContainsName(x) == Name \in SpecsIn(x)

(* merge: l receives r.  The result is a type, what the callee's names are bound to (Unknown while
   unbound), and whether nothing contradicted.  inv: arguments, which only fill; cl: l is on the
   callee's side, where the names of b are holes; wv: views widen. *)
Merged(ty, b) == [ty |-> ty, b |-> b, ok |-> TRUE]
Conflict(b) == [ty |-> Unknown, b |-> b, ok |-> FALSE]
IsNamedHole(x, b, cs) == cs /\ x.s = "param" /\ x.n \in DOMAIN b
IsHole(x, b, cs) ==
    x.s \in {"none", "named"} \/ (x.s = "param" /\ ~IsNamedHole(x, b, cs) /\ x.n \notin InScope)
IsUnboundName(x, b, cs) == IsNamedHole(x, b, cs) /\ b[x.n] = Unknown
NoNames == [n \in {} |-> Unknown]

RECURSIVE Go(_, _, _, _, _, _), GoAll(_, _, _, _, _), Placed(_, _, _, _, _)
\* A name meets a type: it is bound once, and then agrees.  What is bound fits a wider receiver as it is.
MergeName(n, other, b, holderLeft, inv, wv) ==
    LET agreed == IF holderLeft THEN Go(b[n], other, NoNames, inv, TRUE, wv)
                  ELSE Go(b[n], other, NoNames, TRUE, TRUE, wv)
        fitted == Go(other, b[n], NoNames, FALSE, TRUE, wv)
    IN IF b[n] = Unknown
       THEN IF IsHole(other, b, FALSE) \/ ContainsName(other) THEN Merged(Placeholder(n), b)
            ELSE Merged(other, [b EXCEPT ![n] = other])
       ELSE IF agreed.ok THEN Merged(agreed.ty, [b EXCEPT ![n] = agreed.ty])
       ELSE IF ~holderLeft /\ ~inv /\ fitted.ok THEN Merged(fitted.ty, b)
       ELSE Conflict(b)
\* Pairs merged in order, each with what those before it bound, past a contradiction too.
GoAll(pairs, out, inv, cl, wv) ==
    LET m == Go(Head(pairs)[1], Head(pairs)[2], out.b, inv, cl, wv)
    IN IF pairs = <<>> THEN out
       ELSE GoAll(Tail(pairs), [tys |-> Append(out.tys, m.ty), b |-> m.b, ok |-> out.ok /\ m.ok], inv, cl, wv)
All(b) == [tys |-> <<>>, b |-> b, ok |-> TRUE]
MergeArgs(ls, rs, b, cl, wv) ==
    IF ls = <<>> \/ rs = <<>> THEN [tys |-> ls \o rs, b |-> b, ok |-> TRUE]
    ELSE IF Len(ls) # Len(rs) THEN [tys |-> ls, b |-> b, ok |-> FALSE]
    ELSE GoAll([i \in DOMAIN ls |-> <<ls[i], rs[i]>>], All(b), TRUE, cl, wv)
WithArgs(l, m) == IF m.ok THEN Merged([l EXCEPT !.args = m.tys], m.b) ELSE Conflict(m.b)

MergeTuples(l, r, b, inv, cl, wv) ==
    LET bind == BindTupleEntries(l.entries, [i \in DOMAIN r.entries |-> r.entries[i].n])
        bound == SelectSeq([j \in DOMAIN l.entries |-> j], LAMBDA j : bind[j] # 0)
        m == GoAll([k \in DOMAIN bound |-> <<l.entries[bound[k]].ty, r.entries[bind[bound[k]]].ty>>],
                   All(b), inv, cl, wv)
        filled(j) == LET e == l.entries[j]
                     IN [e EXCEPT !.n = IF @ = "" THEN r.entries[bind[j]].n ELSE @,
                                  !.ty = m.tys[CHOOSE k \in DOMAIN bound : bound[k] = j]]
    IN IF bind = NoBinding THEN Conflict(b)
       ELSE IF ~m.ok THEN Conflict(m.b)
       ELSE Merged(Tuple([j \in DOMAIN l.entries |-> IF bind[j] = 0 THEN l.entries[j] ELSE filled(j)]), m.b)
MergeEnums(l, r, b, inv, cl, wv) ==
    LET view == IF wv THEN [l EXCEPT !.leaves = @ \cup r.leaves] ELSE l
        agree == wv \/ IF inv THEN l.leaves = r.leaves ELSE r.leaves \subseteq l.leaves
    IN IF l.n # r.n \/ ~agree THEN Conflict(b)
       ELSE WithArgs(view, MergeArgs(l.args, r.args, b, cl, wv))
\* The value is lifted to its ancestor of the receiver's name.
OwnArgs(r) == LET ps == Classes[r.n].ps
              IN [n \in {ps[i] : i \in 1 .. Min({Len(ps), Len(r.args)})} |-> r.args[CHOOSE i \in DOMAIN ps : ps[i] = n]]
Ancestors(r, n) == SelectSeq(Classes[r.n].parents, LAMBDA p : p.n = n)
MergeClasses(l, r, b, inv, cl, wv) ==
    IF l.n = r.n THEN WithArgs(l, MergeArgs(l.args, r.args, b, cl, wv))
    ELSE IF inv \/ Ancestors(r, l.n) = <<>> THEN Conflict(b)
    ELSE Go(l, Substitute(Ancestors(r, l.n)[1], OwnArgs(r)), b, FALSE, cl, wv)
MergeCallables(l, r, b, inv, cl, wv) ==
    LET p == Go(r.ps, l.ps, b, inv, ~cl, FALSE)
        x == Go(l.res, r.res, p.b, inv, cl, wv)
    IN IF p.ok /\ x.ok THEN Merged(Callable(p.ty, x.ty), x.b) ELSE Conflict(x.b)

(* Unions.  A bound name stands for the members of what it is bound to.  Members of the value are
   placed with members of the receiver; then one name takes what is left on the other side. *)
Expanded(x, b, cs) ==
    LET spelt(m) == IF IsNamedHole(m, b, cs) /\ b[m.n] # Unknown THEN MembersOf(b[m.n]) ELSE <<m>>
        all == FlattenSeq([i \in DOMAIN MembersOf(x) |-> spelt(MembersOf(x)[i])])
        firsts == SelectSeq([i \in DOMAIN all |-> i], LAMBDA i : \A j \in 1 .. i - 1 : all[j] # all[i])
    IN [k \in DOMAIN firsts |-> all[firsts[k]]]
LeftHole(x, b, cl) == IsHole(x, b, cl) \/ IsUnboundName(x, b, cl)
\* st: ls, the receiver's members so far; at, the places filled; over, what found no place.
Placed(rs, st, inv, cl, wv) ==
    LET r == Head(rs)
        tried == [i \in DOMAIN st.ls |->
                    IF LeftHole(st.ls[i], st.b, cl) THEN Conflict(st.b) ELSE Go(st.ls[i], r, st.b, inv, cl, wv)]
        fits == {i \in DOMAIN st.ls : tried[i].ok}
        i == Min(fits)
        next == IF fits # {} THEN [st EXCEPT !.ls[i] = tried[i].ty, !.b = tried[i].b, !.at = @ \cup {i}]
                ELSE IF \E j \in DOMAIN st.ls : LeftHole(st.ls[j], st.b, cl) THEN [st EXCEPT !.over = Append(@, r)]
                ELSE [st EXCEPT !.ok = FALSE]
    IN IF rs = <<>> THEN st
       ELSE IF IsHole(r, st.b, ~cl) \/ IsNamedHole(r, st.b, ~cl) THEN Placed(Tail(rs), st, inv, cl, wv)
       ELSE Placed(Tail(rs), next, inv, cl, wv)
Indices(ls, P(_)) == SelectSeq([i \in DOMAIN ls |-> i], LAMBDA i : P(i))
At(ls, is) == [k \in DOMAIN is |-> ls[is[k]]]
\* A name of the value takes the receiver's members nobody matched.
RestBound(st, holes, inv, cl, wv) ==
    LET rest == Indices(st.ls, LAMBDA i : i \notin st.at /\ ~LeftHole(st.ls[i], st.b, cl))
        m == MergeName(holes[1].n, Bare(At(st.ls, rest)), st.b, FALSE, inv, wv)
    IN IF Len(holes) # 1 \/ rest = <<>> THEN st
       ELSE [st EXCEPT !.b = m.b, !.ok = @ /\ m.ok, !.at = @ \cup ToSet(rest)]
\* A name of the receiver takes the value's members nobody placed.
OverBound(st, unknown, cl, inv, wv) ==
    LET names == Indices(st.ls, LAMBDA i : IsUnboundName(st.ls[i], st.b, cl))
        m == MergeName(st.ls[names[1]].n, Bare(st.over), st.b, TRUE, inv, wv)
    IN IF \/ st.over = <<>> \/ Len(names) # 1 \/ unknown
          \/ \E i \in DOMAIN st.ls : IsHole(st.ls[i], st.b, cl)
       THEN st ELSE [st EXCEPT !.b = m.b, !.ok = @ /\ m.ok, !.at = @ \cup {names[1]}]
UnionMerged(l, st, inv, cl, unknown) ==
    LET kept == SelectSeq(st.ls, LAMBDA x : ~LeftHole(x, st.b, cl))
        members == IF st.over = <<>> THEN st.ls ELSE kept \o st.over
        unmatched == \E i \in DOMAIN st.ls : i \notin st.at /\ ~LeftHole(st.ls[i], st.b, cl)
    IN IF ~st.ok \/ (inv /\ ~unknown /\ unmatched) THEN Conflict(st.b)
       ELSE IF st.over = <<>> /\ st.ls = MembersOf(l) THEN Merged(l, st.b)
       ELSE Merged(Bare(Flatten(members)), st.b)
\* Every member of the value fits the one receiver.
RECURSIVE MergeInto(_, _, _, _, _, _)
MergeInto(l, rs, b, inv, cl, wv) ==
    IF rs = <<>> THEN Merged(l, b)
    ELSE LET m == Go(l, Head(rs), b, inv, cl, wv)
         IN IF m.ok THEN MergeInto(m.ty, Tail(rs), m.b, inv, cl, wv) ELSE Conflict(m.b)
MergeUnions(l, r, b, inv, cl, wv) ==
    LET rs == Expanded(r, b, ~cl)
        holes == SelectSeq(rs, LAMBDA x : IsNamedHole(x, b, ~cl))
        unknown == \E i \in DOMAIN rs : IsHole(rs[i], b, ~cl)
        placed == Placed(rs, [ls |-> Expanded(l, b, cl), b |-> b, at |-> {}, over |-> <<>>, ok |-> TRUE], inv, cl, wv)
        bound == OverBound(RestBound(placed, holes, inv, cl, wv), unknown, cl, inv, wv)
    IN IF l.s # "union" THEN MergeInto(l, rs, b, inv, cl, wv) ELSE UnionMerged(l, bound, inv, cl, unknown)

IsOne(x) == x.s = "tuple" /\ Len(x.entries) = 1
Go(l, r, b, inv, cl, wv) ==
    IF IsNamedHole(l, b, cl) THEN MergeName(l.n, r, b, TRUE, inv, wv)
    ELSE IF IsNamedHole(r, b, ~cl) THEN MergeName(r.n, l, b, FALSE, inv, wv)
    ELSE IF IsHole(l, b, cl) THEN Merged(r, b)
    ELSE IF IsHole(r, b, ~cl) THEN Merged(l, b)
    ELSE IF "union" \in {l.s, r.s} THEN MergeUnions(l, r, b, inv, cl, wv)
    ELSE IF IsOne(l) /\ r.s # "tuple" THEN Go(l.entries[1].ty, r, b, inv, cl, wv)
    ELSE IF IsOne(r) /\ l.s # "tuple" THEN Go(l, r.entries[1].ty, b, inv, cl, wv)
    ELSE IF l.s # r.s THEN Conflict(b)
    ELSE CASE l.s = "tuple" -> MergeTuples(l, r, b, inv, cl, wv)
           [] l.s = "enum" -> MergeEnums(l, r, b, inv, cl, wv)
           [] l.s = "class" -> MergeClasses(l, r, b, inv, cl, wv)
           [] l.s = "fn" -> MergeCallables(l, r, b, inv, cl, wv)
           [] OTHER -> IF l = r THEN Merged(l, b) ELSE Conflict(b)
Merge(l, r) == Go(l, r, NoNames, FALSE, TRUE, FALSE)
MergeWidening(l, r) == Go(l, r, NoNames, FALSE, TRUE, TRUE)

Complete(x) == IsConcrete(x) /\ ~HasFreePlaceholders(x) /\ ~HasMissingArguments(x)
Receives(l, r) == Complete(l) /\ Complete(r) /\ Merge(l, r).ok
\* What fitting x binds of the names of a pattern; those nothing pins are Unknown.
PatternBinding(pattern, x, names) == Go(pattern, x, [n \in names |-> Unknown], FALSE, TRUE, FALSE)

(* The type of a branch: its arms' types converged, or else the set of them. *)
Join(x, y) == IF x = y THEN x ELSE Bare(Flatten(<<x, y>>))
\* The interfaces every class implements, each as the last class spells it.
SharedInterfaces(types) ==
    LET above(x) == {p.n : p \in ToSet(Classes[x.n].parents)} \ {x.n}
        names == {n \in above(Last(types)) : \A x \in ToSet(types) : n \in above(x)}
    IN {Ancestors(Last(types), n)[1] : n \in names}
Converge(types) ==
    LET first == types[1]
        wide(i) == \A x \in ToSet(types) : x = types[i] \/ Receives(types[i], x)
        widest == {i \in DOMAIN types : wide(i)}
        shared == SharedInterfaces(types)
        kinds == {x.s : x \in ToSet(types)}
    IN IF widest # {} THEN types[Min(widest)]
       ELSE IF kinds = {"enum"}
       THEN IF \A x \in ToSet(types) : x.n = first.n /\ x.args = first.args
            THEN [first EXCEPT !.leaves = Enums[first.n].leaves] ELSE Unknown
       ELSE IF kinds = {"class"} /\ Cardinality(shared) = 1 THEN CHOOSE x \in shared : TRUE
       ELSE Unknown
\* An arm that is only a shape takes the sibling it fits.
Filled(arm, known) ==
    LET members == FlattenSeq([i \in DOMAIN known |-> MembersOf(known[i])])
        fitting == SelectSeq(members, LAMBDA x : Merge(arm, x).ty = x)
        ground == {x \in ToSet(fitting) : ~HasFreePlaceholders(x)}
    IN IF ~HasFreePlaceholders(arm) THEN arm
       ELSE IF ground # {} THEN IF Cardinality(ground) = 1 THEN CHOOSE x \in ground : TRUE ELSE arm
       ELSE IF fitting # <<>> THEN fitting[1] ELSE arm
BranchType(types) ==
    LET known == SelectSeq(types, LAMBDA x : x # Unknown)
        arms == [i \in DOMAIN known |-> Filled(known[i], known)]
    IN IF known = <<>> THEN Unknown
       ELSE IF Converge(arms) # Unknown THEN Converge(arms)
       ELSE FoldLeft(Join, arms[1], Tail(arms))

(* A stored inference: filled while it has holes or a narrowed view, and widened when it is not declared. *)
Refine(current, inferred) ==
    LET open == \/ current = Unknown \/ HasFreePlaceholders(current) \/ HasMissingArguments(current)
                \/ ContainsNarrowedView(current)
        m == MergeWidening(current, inferred)
    IN IF open /\ IsConcrete(inferred) /\ m.ok THEN m.ty ELSE current
RefineWidening_Fresh(current, fresh) == IF Complete(fresh) THEN fresh ELSE Refine(current, fresh)
RefineWidening(current, fresh) ==
    LET refined == Refine(current, fresh)
        wider == /\ Complete(fresh)
                 /\ AssignableFrom(fresh, refined) = "yes"
                 /\ AssignableFrom(refined, fresh) # "yes"
    IN IF IsConcrete(refined) /\ wider THEN fresh ELSE refined

(* Where-constraints.  An instance is an interface over parameters of its own. *)
BindFromConstraintMatch(constraint, iface, targets) ==
    LET cs == constraint.args
        is == iface.args
        open(i) == cs[i].s = "param" /\ cs[i].n \in targets
        agrees(i) == IF open(i) THEN IsConcrete(is[i])
                     ELSE UniqueId(cs[i]) # NoId /\ UniqueId(cs[i]) = UniqueId(is[i])
    IN IF constraint.n = iface.n /\ Len(cs) = Len(is) /\ \A i \in DOMAIN cs : agrees(i)
       THEN [n \in {cs[i].n : i \in {j \in DOMAIN cs : open(j)}} |->
               is[Max({i \in DOMAIN cs : open(i) /\ cs[i].n = n})]]
       ELSE NoNames
BindingFrom(inst, constraint, targets) ==
    LET m == PatternBinding(inst.interface, constraint, inst.params)
    IN IF ~m.ok \/ Unknown \in {m.b[n] : n \in inst.params} THEN NoNames
       ELSE BindFromConstraintMatch(constraint, Substitute(inst.interface, m.b), targets)
\* The first instance that binds a target, in order; none while the subject itself is open.
SolveTraitConstraint(constraint, targets, instances) ==
    LET found == {i \in DOMAIN instances : BindingFrom(instances[i], constraint, targets) # NoNames}
    IN IF found = {} \/ (constraint.args # <<>> /\ constraint.args[1].s = "param") THEN NoNames
       ELSE BindingFrom(instances[Min(found)], constraint, targets)
====
