---- MODULE Drops ----
(* Affine drops (lowering/drops.py): a linear binding whose type has a Drop instance, and that its
   scope does not use, or not on every path, is released by a call put where the scope or the path
   ends.  The pass runs before the linearity check, which then sees an ordinary use. *)
EXTENDS Linearity

CONSTANT DropInstances   \* The patterns System::Drop is implemented for, with their parameters.

Drop == <<"ext", "drop">>
DropCall(v) == Action(CallOf(Named(Drop, TCallable(<<v.ty>>, TUnit)), <<Named(v.n, v.ty)>>, TUnit))

(* Droppable: a parameter T of the function by its where clause, another type by an instance whose
   pattern it is.  The types that can stand for a pattern's parameters are parts of the type. *)
RECURSIVE PartsOf(_)
PartsOf(ty) ==
    {ty} \cup UNION {PartsOf(x) : x \in CASE ty.t \in {"class", "enum"} -> ToSet(ty.args)
                                          [] ty.t \in {"struct", "union"} -> ToSet(ty.types)
                                          [] OTHER -> {}}
Instantiates(ty, d) == \E map \in [d.params -> PartsOf(ty)] : Subst(d.pattern, map) = ty
Droppable(ty, wheres) ==
    /\ CarriesLinearity(ty)
    /\ IF ty.t = "param" THEN ty.n \in wheres ELSE \E d \in DropInstances : Instantiates(ty, d)
IsTerminal(v) == "terminal" \in DOMAIN v /\ v.terminal
IsDeferred(v) == "lazy" \in DOMAIN v /\ v.lazy
Eligible(v, wheres) ==
    v.n \notin {Nameless, This} /\ ~IsTerminal(v) /\ ~IsDeferred(v) /\ Droppable(v.ty, wheres)

\* The value first, then the drops, then the value again.  The temporary is named after the place of the body.
PlaceOf(x) == IF IsBlock(x) THEN x.tag ELSE <<"line">>
KeepName(x) == <<"$drop_keep">> \o PlaceOf(x)
WithDrops(x, drops) ==
    LET ss == IF IsBlock(x) THEN Statements(x) ELSE <<>>
        value == IF IsBlock(x) THEN ValueOf(x) ELSE x
        ty == TypeIn(value)
    IN [Block(ss \o <<Let(KeepName(x), ty, value)>> \o [i \in DOMAIN drops |-> DropCall(drops[i])],
              Named(KeepName(x), ty), ty) EXCEPT !.tag = PlaceOf(x)]

(* A binding that some paths use and others do not.  An expression or a statement that needs no
   more, with whether anything was put in, or Bail when the shape is not one of "exactly once". *)
Bail == [bail |-> TRUE, x |-> <<>>]
Fixed(x) == [bail |-> FALSE, x |-> x]
Refs(x, v) == v.n \in Referenced(x)
RefsAny(xs, v) == \E i \in DOMAIN xs : Refs(xs[i], v)
Bailed(rs) == \E i \in DOMAIN rs : rs[i].bail
Kids(rs) == [i \in DOMAIN rs |-> rs[i].x]
Guarded(arm) == Len(arm.a) = 2

RECURSIVE FixExpr(_, _), EnsureList(_, _, _, _, _), EnsureBranch(_, _, _, _)
FixTernary_Then(x, v) ==
    IF Refs(x.a[3], v) /\ ~Refs(x.a[2], v) THEN Fixed([x EXCEPT !.a[2] = WithDrops(@, <<v>>)]) ELSE Fixed(x)
FixTernary(x, v) ==
    LET t == Refs(x.a[2], v)
        f == Refs(x.a[3], v)
    IN IF Refs(x.a[1], v) THEN IF t \/ f THEN Bail ELSE Fixed(x)
       ELSE IF t = f THEN Fixed(x)
       ELSE Fixed([x EXCEPT !.a[IF t THEN 3 ELSE 2] = WithDrops(@, <<v>>)])
FixMatch(x, v) ==
    LET arms == 2 .. Len(x.a)
        uses == {i \in arms : Refs(Last(x.a[i].a), v)}
    IN IF \E i \in arms : Guarded(x.a[i]) /\ Refs(x.a[i].a[1], v) THEN Bail
       ELSE IF Refs(x.a[1], v) THEN IF uses # {} THEN Bail ELSE Fixed(x)
       ELSE IF uses \in {{}, arms} THEN Fixed(x)
       ELSE Fixed([x EXCEPT !.a = [i \in DOMAIN x.a |->
              IF i \in arms \ uses
              THEN [x.a[i] EXCEPT !.a[Len(x.a[i].a)] = WithDrops(@, <<v>>)] ELSE x.a[i]]])
\* Bottom-up, so that an inner choice that was fixed is a use to the outer one.
FixExpr(x, v) ==
    LET kids == [i \in DOMAIN x.a |-> FixExpr(x.a[i], v)]
        y == [x EXCEPT !.a = Kids(kids)]
    IN IF Bailed(kids) \/ (x.e \in {"lambda", "fun"} /\ Refs(x, v)) THEN Bail
       ELSE CASE x.e = "ternary" -> FixTernary(y, v)
              [] x.e = "match" -> FixMatch(y, v)
              [] OTHER -> Fixed(y)
FixUse(x, v) == IF Refs(x, v) THEN FixExpr(x, v) ELSE Fixed(x)
Count1(b) == IF b THEN 1 ELSE 0

EnsureBranch_Alone(ss, v, consumed, later) ==
    IF consumed THEN IF RefsAny(ss, v) THEN Bail ELSE Fixed(ss) ELSE EnsureList(ss, <<>>, v, FALSE, <<>>)
\* A branch that falls through is followed by what comes later; one that returns is not.
EnsureBranch(ss, v, consumed, later) ==
    LET claims == Count1(consumed) + (IF Terminates(ss) THEN 0 ELSE Count1(later))
    IN IF claims > 1 THEN Bail
       ELSE IF claims = 1 THEN IF RefsAny(ss, v) THEN Bail ELSE Fixed(ss)
       ELSE EnsureList(ss, <<>>, v, FALSE, <<>>)
FixedIf(s, branches) ==
    IF branches[1].bail \/ branches[2].bail THEN Bail
    ELSE Fixed([s EXCEPT !.a[2].a = branches[1].x, !.a[3].a = branches[2].x])
FixedCondition(s, cond) == IF cond.bail THEN Bail ELSE Fixed([s EXCEPT !.a[1] = cond.x])
EnsureIf(s, v, consumed, later) ==
    IF Refs(s.a[1], v)
    THEN IF consumed \/ later \/ RefsAny(<<s.a[2], s.a[3]>>, v) THEN Bail ELSE FixedCondition(s, FixExpr(s.a[1], v))
    ELSE FixedIf(s, [i \in 1 .. 2 |-> EnsureBranch(s.a[i + 1].a, v, consumed, later)])
\* A value, or the value of a return, that uses the binding, or one that the drop follows.
Used(r, claims, v) ==
    IF claims > 1 \/ r.bail THEN Bail ELSE Fixed(IF claims = 0 THEN WithDrops(r.x, <<v>>) ELSE r.x)
EnsureUse(x, v, consumed) == Used(FixUse(x, v), Count1(consumed) + Count1(Refs(x, v)), v)
\* The end of a list without a value is a place for a drop.
EnsureEnd(v, consumed, out) == Fixed(IF consumed THEN out ELSE Append(out, DropCall(v)))
FixedReturn(s, r) == IF r.bail THEN Bail ELSE Fixed([s EXCEPT !.a[1] = r.x])
EnsureStatement(s, v, consumed, later) ==
    CASE s.e = "return" -> FixedReturn(s, EnsureUse(s.a[1], v, consumed))
      [] s.e = "if" -> EnsureIf(s, v, consumed, later)
      [] OTHER -> IF Refs(s, v) /\ consumed THEN Bail ELSE FixUse(s, v)
UsedAfter(s, v, consumed, later) ==
    IF s.e # "if" THEN consumed \/ Refs(s, v)
    ELSE consumed \/ (~later /\ ~(Terminates(s.a[2].a) /\ Terminates(s.a[3].a)))
Joined(out, r, rest) == IF r.bail THEN Bail ELSE Fixed(out \o <<r.x>> \o rest)
EnsureRest(s, r, rest, value, v, used, out) ==
    IF r.bail THEN Bail
    ELSE IF s.e = "return" THEN Joined(out, r, rest \o value)
    ELSE EnsureList(rest, value, v, used, Append(out, r.x))
\* The statements and the value, as one sequence; what stands after a return is left as it is.
EnsureAt(s, rest, value, v, consumed, later, out) ==
    EnsureRest(s, EnsureStatement(s, v, consumed, later), rest, value, v, UsedAfter(s, v, consumed, later), out)
EnsureList(ss, value, v, consumed, out) ==
    IF ss # <<>> THEN EnsureAt(Head(ss), Tail(ss), value, v, consumed, RefsAny(Tail(ss) \o value, v), out)
    ELSE IF value = <<>> THEN EnsureEnd(v, consumed, out)
    ELSE Joined(out, EnsureUse(value[1], v, consumed), <<>>)

\* A path holds a binding from its statement on, and a parameter from the start.
StartOf(ss, v) ==
    LET at == {i \in DOMAIN ss : \E b \in ToSet(BoundBy(ss[i])) : b.n = v.n} IN IF at = {} THEN 0 ELSE Min(at)
Whole(x) == IF IsBlock(x) THEN x.a ELSE <<x>>
Rebuilt(x, y) ==
    IF y = Whole(x) THEN x
    ELSE IF IsBlock(x) THEN [x EXCEPT !.a = y]
    ELSE [Block(Front(y), Last(y), TypeIn(x)) EXCEPT !.tag = PlaceOf(x)]
Balanced(x, before, r) == IF r.bail THEN x ELSE Rebuilt(x, before \o r.x)
BalanceFrom(x, xs, start, v) ==
    Balanced(x, SubSeq(xs, 1, start),
             EnsureList(SubSeq(xs, start + 1, Len(xs) - 1), <<Last(xs)>>, v, FALSE, <<>>))
Balance(x, v) == BalanceFrom(x, Whole(x), StartOf(Front(Whole(x)), v), v)
RECURSIVE BalanceAll(_, _)
BalanceAll(x, vs) == IF vs = <<>> THEN x ELSE BalanceAll(Balance(x, Head(vs)), Tail(vs))

\* The end of a scope: what nothing in it mentions is dropped, and what something mentions is balanced.
ReleasedOnce(x, unused, used) == BalanceAll(IF unused = <<>> THEN x ELSE WithDrops(x, unused), used)
ReleasedOf(x, eligible) ==
    ReleasedOnce(x, SelectSeq(eligible, LAMBDA v : ~Refs(x, v)), SelectSeq(eligible, LAMBDA v : Refs(x, v)))
Released(x, vs, wheres) == ReleasedOf(x, SelectSeq(vs, LAMBDA v : Eligible(v, wheres)))
RECURSIVE ReleasedIn(_, _, _), RewriteExpr(_, _, _)
ReleasedIn(x, scopes, wheres) ==
    IF scopes = <<>> THEN x ELSE ReleasedIn(Released(x, Head(scopes), wheres), Tail(scopes), wheres)
BoundIn(ss) == Concat([i \in DOMAIN ss |-> BoundBy(ss[i])])
\* A scope ends with its block, and that of the parameters vs with the body they belong to.
RewriteExpr(x, vs, wheres) ==
    ReleasedIn([x EXCEPT !.a = [i \in DOMAIN x.a |->
                                  RewriteExpr(x.a[i], IF x.e = "lambda" THEN x.ps ELSE <<>>, wheres)]],
               <<IF x.e = "block" THEN BoundIn(Statements(x)) ELSE <<>>, vs>>, wheres)
RewriteFn(f) == IF "foreign" \in f.attrs THEN f ELSE [f EXCEPT !.a[1] = RewriteExpr(@, f.ps, f.wheres)]
InsertDrops(prog) == [n \in DOMAIN prog |-> RewriteFn(prog[n])]

\* Two temporaries of one name in a list of statements: the second is its own value, and nothing resolves it.
Ambiguous(prog) ==
    \E n \in DOMAIN prog : \E x \in NodeSet(BodyOf(prog[n])) :
       x.e = "block" /\ \E i, j \in DOMAIN x.a :
          i < j /\ x.a[i].e = "let" /\ x.a[j].e = "let" /\ x.a[i].n = x.a[j].n
====
