---- MODULE UseSites ----
(* The type arguments a use of a generic declaration carries (pyast/inference.py): read off the
   arguments, then the result its receiver expects, then its where-constraints; and the conversion a
   use owes its receiver (pyast/expression/conversion.py).

   A declaration is a record: tps, the names of its type parameters; wheres, its constraints; kind,
   "fn" or "let"; ps, its parameters; ty, its result or its type, Unknown while nobody wrote it. *)
EXTENDS TypeAlgebra

CONSTANT Instances    \* The trait instances, those without parameters first.

RawType(d) ==
    IF d.kind = "let" THEN d.ty
    ELSE Callable(Tuple([i \in DOMAIN d.ps |-> Entry(d.ps[i].n, d.ps[i].ty, FALSE)]), d.ty)
Spelt(d, args) ==
    Substitute(RawType(d),
               [n \in {d.tps[i] : i \in 1 .. Len(args)} |-> args[CHOOSE i \in DOMAIN d.tps : d.tps[i] = n]])

RECURSIVE WithoutCallableParams(_)
WithoutCallableParams(x) ==
    LET parts == [i \in DOMAIN Parts(x) |-> WithoutCallableParams(Parts(x)[i])]
    IN CASE x.s \in {"class", "enum"} -> [x EXCEPT !.args = parts]
         [] x.s = "tuple" -> [x EXCEPT !.entries = [i \in DOMAIN parts |-> [x.entries[i] EXCEPT !.ty = parts[i]]]]
         [] x.s = "fn" /\ x.ps.s = "tuple" ->
              [x EXCEPT !.ps.entries = [i \in DOMAIN @ |-> [@[i] EXCEPT !.ty = Unknown]], !.res = parts[2]]
         [] x.s = "union" -> Union(parts)
         [] OTHER -> x

\* The names of every parameter whose argument is not known yet.
UnknownArgumentNames(declared, actual) ==
    LET bind == BindTupleEntries(declared.entries, [i \in DOMAIN actual.entries |-> actual.entries[i].n])
        missing(j) == bind[j] = 0 \/ ~Complete(actual.entries[bind[j]].ty)
    IN IF declared.s # "tuple" \/ actual.s # "tuple" THEN {}
       ELSE IF bind = NoBinding THEN {}
       ELSE UNION {PlaceholderNamesIn(declared.entries[j].ty) : j \in {k \in DOMAIN declared.entries : missing(k)}}
\* A binding one place learns can decide another: repeated until nothing more is learned.
RECURSIVE LearnedIn(_, _, _, _)
LearnedIn(spec, actual, b, rounds) ==
    LET m == Go(spec, actual, b, FALSE, TRUE, TRUE)
    IN IF m.b = b \/ rounds = 0 THEN m ELSE LearnedIn(spec, actual, m.b, rounds - 1)
Learned(spec, actual, b) == LearnedIn(spec, actual, b, Cardinality(DOMAIN b))

Bound(b) == {n \in DOMAIN b : b[n] # Unknown}
\* Names no parameter can tell, from the constraints in their order.
RECURSIVE ViaWhere(_, _, _)
ViaWhere(wheres, b, inferrable) ==
    LET targets == DOMAIN b \ (Bound(b) \cup inferrable)
        found == SolveTraitConstraint(Substitute(Head(wheres), [n \in Bound(b) |-> b[n]]), targets, Instances)
    IN IF targets = {} \/ wheres = <<>> THEN b
       ELSE ViaWhere(Tail(wheres), found @@ b, inferrable)

(* Of a callable argument only what the others left open is taken, and nothing while the argument
   that decides it is unknown; the result its receiver expects binds what is still open. *)
InferTypeParams(d, expected) ==
    LET declared == RawType(d)
        covariant == WithoutCallableParams(declared.ps)
        first == Learned(covariant, expected.ps, [n \in ToSet(d.tps) |-> Unknown])
        waiting == UnknownArgumentNames(covariant, expected.ps) \ Bound(first.b)
        open == [n \in DOMAIN first.b \ waiting |-> first.b[n]]
        second == Learned(declared.ps, expected.ps, open).b @@ [n \in ToSet(d.tps) |-> Unknown]
        result == Go(expected.res, declared.res, second, FALSE, FALSE, TRUE)
        third == IF Unknown \in {declared.res, expected.res} \/ ~result.ok THEN second ELSE result.b
    IN [ok |-> first.ok, b |-> ViaWhere(d.wheres, third, PlaceholderNamesIn(declared.ps))]

(* What a site has stays once it is complete; until then what this pass learned is merged into it. *)
SiteComplete(d, args) ==
    /\ Len(args) = Len(d.tps)
    /\ \A x \in ToSet(args) : ~HasFreePlaceholders(x) /\ ~ContainsNarrowedView(x)
UseSiteTypeParams(d, args, expected) ==
    LET m == InferTypeParams(d, expected)
        fresh(i) == IF m.b[d.tps[i]] = Unknown THEN Placeholder(d.tps[i]) ELSE m.b[d.tps[i]]
        merged(i) == MergeWidening(IF Len(args) = Len(d.tps) THEN args[i] ELSE Unknown, fresh(i))
        next(i) == IF merged(i).ok THEN merged(i).ty ELSE fresh(i)
    IN IF d.tps = <<>> \/ expected.s # "fn" THEN args
       ELSE IF SiteComplete(d, args) \/ RawType(d).s # "fn" THEN args
       ELSE IF ~m.ok THEN args ELSE [i \in DOMAIN d.tps |-> next(i)]

(* Whether a value of one type is represented in another way as the other: a union holds it in a slot,
   a tuple of one is a struct, and fields may be in another order. *)
TupleVariants(source, target) ==
    {v \in ToSet(Flatten(target.types)) : v.s = "tuple" /\ AssignableFrom(v, source) = "yes"}
IdentityOn(n) == [i \in 1 .. n |-> i]
Wraps(id, x) == IsOne(x) /\ id # NoId /\ UniqueId(x.entries[1].ty) = id
RECURSIVE NeedsConversion(_, _)
TuplesDiffer(source, target) ==
    LET bind == BindTupleEntries(target.entries, [i \in DOMAIN source.entries |-> source.entries[i].n])
        one == target.entries[1].ty
    IN \/ Wraps(UniqueId(source), target)
       \/ IsOne(target) /\ one.s = "union" /\ TupleVariants(source, one) # {}
       \/ /\ bind # NoBinding
          /\ \/ bind # IdentityOn(Len(target.entries))
             \/ /\ UniqueId(source) # UniqueId(target)
                /\ \E i \in DOMAIN target.entries : NeedsConversion(source.entries[i].ty, target.entries[i].ty)
IntoUnion_Any(source, target) ==
    source.s # "tuple" \/ TupleVariants(source, target) # {} \/ Wraps(UniqueId(target), source)
IntoUnion(source, target) ==
    CASE source.s = "tuple" -> TupleVariants(source, target) # {} \/ Wraps(UniqueId(target), source)
      [] source.s = "union" -> Fits(target, source) = "yes"
      [] OTHER -> \E v \in ToSet(Flatten(target.types)) : UniqueId(v) = UniqueId(source)
NeedsConversion(source, target) ==
    LET ids == {UniqueId(source), UniqueId(target)}
    IN IF Unknown \in {source, target} THEN FALSE
       ELSE IF source.s = "enum" /\ source.leaves = {} THEN Cardinality(ids) = 2
       ELSE IF NoId \in ids THEN FALSE
       ELSE IF source.s = "tuple" /\ target.s = "tuple" THEN TuplesDiffer(source, target)
       ELSE IF Cardinality(ids) = 1 THEN FALSE
       ELSE CASE target.s = "tuple" -> IsOne(target)
              [] target.s = "union" -> IntoUnion(source, target)
              [] OTHER -> Wraps(UniqueId(target), source)
====
