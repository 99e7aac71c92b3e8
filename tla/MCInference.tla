---- MODULE MCInference ----
(* Small programs for the inference loop: classes, an enum, generic functions nobody wrote a body for
   here, and one to three declarations whose types are left open. *)
EXTENDS Inference

MCClasses == [
  Animal |-> [ps |-> <<>>, parents |-> <<>>],
  Cat |-> [ps |-> <<>>, parents |-> <<Class("Animal", <<>>)>>],
  Dog |-> [ps |-> <<>>, parents |-> <<Class("Animal", <<>>)>>],
  List |-> [ps |-> <<"T@List">>, parents |-> <<>>],
  Stream |-> [ps |-> <<"S@Stream", "E@Stream">>, parents |-> <<>>]]
MCEnums == [Shape |-> [ps |-> <<>>, leaves |-> {"Circle", "Square"}],
            Never |-> [ps |-> <<>>, leaves |-> {}]]
Num == Builtin("int")
Str == Builtin("str")
None == Tuple(<<>>)
Animal == Class("Animal", <<>>)
Cat == Class("Cat", <<>>)
Dog == Class("Dog", <<>>)
Circle == View("Shape", {"Circle"}, <<>>)
Square == View("Shape", {"Square"}, <<>>)
Shape == View("Shape", {"Circle", "Square"}, <<>>)
Never == View("Never", {}, <<>>)
ListOf(x) == Class("List", <<x>>)
Stream(x, e) == Class("Stream", <<x, e>>)
T == Placeholder("T")
U == Placeholder("U")
E == Placeholder("E")
MCInstances == <<[params |-> {}, interface |-> Stream(Cat, Str)],
                 [params |-> {"N@i"}, interface |-> Stream(ListOf(Placeholder("N@i")), Placeholder("N@i"))]>>

Decl(kind, tps, wheres, ps, ty, open, body) ==
    [kind |-> kind, tps |-> tps, wheres |-> wheres, ps |-> ps, ty |-> ty, open |-> open, body |-> body]
P(n, ty) == [n |-> n, ty |-> ty, open |-> ty = Unknown]
Extern(tps, wheres, tys, res) ==
    Decl("fn", tps, wheres, [i \in DOMAIN tys |-> P("", tys[i])], res, FALSE, NoBody)
Given(ty) == Decl("let", <<>>, <<>>, <<>>, ty, FALSE, NoBody)
Open(ps, body) == Decl("fn", <<>>, <<>>, ps, Unknown, TRUE, body)
Typed(ps, ty, body) == Decl("fn", <<>>, <<>>, ps, ty, FALSE, body)
Fn(x, y) == Callable(Tuple(<<Entry("", x, FALSE)>>), y)
Externs == [
  num |-> Given(Num), none |-> Given(None), cat |-> Given(Cat), dog |-> Given(Dog), animal |-> Given(Animal),
  circle |-> Given(Circle), square |-> Given(Square), cats |-> Given(ListOf(Cat)),
  never |-> Given(Never), maybeCat |-> Given(Union(<<Cat, None>>)),
  single |-> Extern(<<"T">>, <<>>, <<T>>, ListOf(T)),
  empty |-> Extern(<<"T">>, <<>>, <<>>, ListOf(T)),
  same |-> Extern(<<"T">>, <<>>, <<T>>, T),
  either |-> Extern(<<"T">>, <<>>, <<T, T>>, T),
  maybe |-> Extern(<<"T">>, <<>>, <<T>>, Union(<<T, None>>)),
  first |-> Extern(<<"T">>, <<>>, <<ListOf(T)>>, Union(<<T, None>>)),
  map |-> Extern(<<"T", "U">>, <<>>, <<ListOf(T), Fn(T, U)>>, ListOf(U)),
  drain |-> Extern(<<"T", "E">>, <<Stream(T, E)>>, <<T>>, Union(<<Num, E>>)),
  name |-> Extern(<<>>, <<>>, <<Animal>>, Str),
  feedCat |-> Extern(<<>>, <<>>, <<Cat>>, Num), feedDog |-> Extern(<<>>, <<>>, <<Dog>>, Num),
  feed |-> Extern(<<>>, <<>>, <<Animal>>, Num), draw |-> Extern(<<>>, <<>>, <<Shape>>, Num),
  feedOr |-> Extern(<<>>, <<>>, <<Union(<<Cat, None>>)>>, Num)]
L(n) == Load(n)
On(n, xs) == Call(L(n), TupleExpr([i \in DOMAIN xs |-> ""], xs))
Both(x, y) == TupleExpr(<<"", "">>, <<x, y>>)

Program(ds, lates) == [decls |-> ds @@ Externs, late |-> lates]

\* f, g and h, without parameters, call each other.
Leaves == {L(n) : n \in {"num", "none", "cat", "dog", "animal", "cats", "maybeCat"}}
            \cup {On("empty", <<>>), On("map", <<L("cats"), L("name")>>), On("maybe", <<L("cat")>>)}
Mutual ==
  {Program([f |-> Open(<<>>, Ternary(x, y)), g |-> Open(<<>>, z), h |-> Open(<<>>, w)], lates) :
     x \in Leaves, y \in {On("g", <<>>), On("f", <<>>)},
     z \in {On("h", <<>>), Ternary(L("dog"), On("f", <<>>)), Ternary(On("h", <<>>), L("cat"))},
     w \in {L("none"), L("animal"), Ternary(On("f", <<>>), L("num"))},
     lates \in {{}, {"none"}, {"cat", "dog"}}}
\* Parameters typed by their uses; p and q are passed on to f itself.
Uses(x) == {On("feedCat", <<x>>), On("feedDog", <<x>>), On("feed", <<x>>), On("feedOr", <<x>>), On("single", <<x>>),
            On("name", <<x>>), On("map", <<x, L("name")>>)}
Hinted ==
  {Program([f |-> Open(<<P("p", Unknown), P("q", ty)>>, Both(x, Both(y, z)))], lates) :
     ty \in {Unknown, Animal}, x \in Uses(L("p")), y \in Uses(L("q")) \cup {L("num")},
     z \in {On("f", <<L("q"), L("p")>>), On("f", <<L("p"), L("q")>>), On("feed", <<L("p")>>), L("num")},
     lates \in {{}}}
\* A match over a parameter, and one over what a function nobody typed returns.
Matched ==
  {Program([f |-> Open(<<P("p", ty)>>, Match(L("p"), <<Arm("a", t1, x), Arm("b", t2, y)>>)),
            g |-> Open(<<>>, On("f", <<z>>))], lates) :
     ty \in {Unknown, Union(<<Cat, Dog>>)}, t1 \in {Cat, Circle, None}, t2 \in {Dog, Square, Cat},
     x \in {L("a"), L("num"), L("p")}, y \in {L("b"), On("same", <<L("b")>>), On("g", <<>>)},
     z \in {L("cat"), L("circle"), L("none")}, lates \in {{}, {"cat", "circle", "none"}}}
\* Locals between a value and its use, against a declared and an undeclared type.
OpenOr(ty, x) == IF ty = Unknown THEN Open(<<>>, x) ELSE Typed(<<>>, ty, x)
Local ==
  {Program([f |-> OpenOr(ty, Let("v", x, y)), g |-> Open(<<>>, z)], lates) :
     ty \in {Unknown, Union(<<Animal, None>>), Animal, ListOf(Shape)},
     x \in {L("cat"), L("none"), Ternary(L("none"), On("g", <<>>)), On("g", <<>>), On("single", <<L("circle")>>)},
     y \in {L("v"), Ternary(L("v"), L("none")), On("same", <<L("v")>>), On("either", <<L("v"), L("cat")>>)},
     z \in {L("cat"), L("dog"), Ternary(L("dog"), L("cat"))},
     lates \in {{}, {"cat"}, {"none"}}}
\* Generic functions, one under another, against what is declared or what another arm says.
Under(x) == {x} \cup {On(n, <<x>>) : n \in {"single", "same", "maybe", "drain"}}
Generic ==
  {Program([f |-> OpenOr(ty, Ternary(x, y))], lates) :
     ty \in {Unknown, ListOf(Shape), Union(<<ListOf(Animal), None>>), Union(<<Num, Str, Cat>>)},
     x \in UNION {Under(z) : z \in Under(L("cat")) \cup {L("cats"), L("circle"), On("either", <<L("circle"), L("square")>>)}},
     y \in {L("none"), On("empty", <<>>), On("map", <<On("single", <<L("dog")>>), L("name")>>), On("first", <<L("cats")>>),
             On("single", <<L("square")>>)},
     lates \in {{}, {"cat"}, {"name", "cats"}}}
MCPrograms == Mutual \cup Hinted \cup Matched \cup Local \cup Generic
====
