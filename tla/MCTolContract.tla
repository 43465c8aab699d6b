---------------------------- MODULE MCTolContract ---------------------------
EXTENDS TolContract

(* The stages, for the constants that stand for them.                      *)
MCChecked(c_) == LET r_ == Accepted(c_) IN r_
MCLowered(c_) == LET r_ == Chunks(c_) IN r_
MCCompiled(chunk_) == LET r_ == Compiles(chunk_) IN r_
MCRan(chunk_, entry_, args_, store_, peer_) == LET r_ == Host!Execute(chunk_, entry_, args_, store_, peer_) IN r_
MCMeansCreated(c_, args_, store_, peer_) == LET r_ == Meaning!Created(c_, args_, store_, peer_) IN r_
MCMeansInvoked(c_, sel_, args_, store_, peer_) == LET r_ == Meaning!Invoked(c_, sel_, args_, store_, peer_) IN r_

(* ------------------------------- contracts ----------------------------- *)

NoContract == [slots |-> <<>>, constants |-> <<>>, events |-> <<>>, errors |-> <<>>, modifiers |-> <<>>,
               funcs |-> <<>>, ctor |-> <<>>, fallback |-> <<>>, receive |-> <<>>]
Slot(n, shape) == [name |-> n, shape |-> shape, imm |-> FALSE, init |-> Nil]
Fn(n, params, returns, mods, body) ==
    [name |-> n, params |-> params, returns |-> returns, mods |-> mods, sel |-> "", body |-> body,
     effects |-> <<>>, gas |-> <<>>, bounds |-> <<>>]
Entry(params, body) == <<[params |-> params, mods |-> <<>>, body |-> body]>>
Base == [NoContract EXCEPT !.slots = <<Slot("s", <<>>), Slot("m", <<"map">>), Slot("a", <<"arr">>)>>,
                           !.events = <<[name |-> "Ev", params |-> <<"v">>]>>]
One(fn) == [Base EXCEPT !.funcs = <<fn>>]
With(c, peers, values) == [c |-> c, peers |-> peers, values |-> values]
Plain(c) == With(c, {"ok"}, {0, 2})

S == Id("s")
P == Id("p")
X == Id("x")
I == Id("i")
M(k) == Idx(Id("m"), k)
A(k) == Idx(Id("a"), k)
LengthOf(e) == Mem(e, "length")
Push(e, v) == ExprStmt(CallOf(Mem(e, "push"), <<v>>))
Plus(e, n) == Bin("+", e, Num(n))
Log(e) == Emit("Ev", <<e>>)
UpTo(n, body) == For(<<Let("i", Num(0))>>, Bin("<", I, n), Un("post++", I), body)
Bump == SetTo(S, Plus(S, 1))

(* A function f(p) that returns a value; its body ends with the return.     *)
F(mods, body) == Fn("f", <<"p">>, <<"">>, <<"public">> \o mods, body)

(* ----------------------- effects of a function ------------------------- *)

(* What a statement may do, and where it may stand.                        *)
Acts == {SetTo(S, P), SetTo(M(P), Num(3)), SetTo(A(Num(0)), S), SetOp("+=", S, P), Log(P), Let("x", S), Let("x", M(P)),
         Let("x", LengthOf(Id("a"))), Let("x", Bin("*", P, Num(2)))}
Places(s) == {<<s>>, <<If(Bin("==", P, Num(2)), <<s>>, <<>>)>>, <<If(Bin("==", P, Num(2)), <<>>, <<s>>)>>,
              <<While(Bin("<", P, Num(2)), <<s, SetTo(P, Plus(P, 1))>>)>>, <<UpTo(Num(2), <<s>>)>>,
              <<Let("q", P), DoWhile(Bin("<", Id("q"), Num(1)), <<s, ExprStmt(Un("post++", Id("q")))>>)>>,
              <<Unchecked(<<s>>)>>, <<Let("i", Num(7)), If(Bin(">", I, P), <<Let("s", Num(1)), s>>, <<>>)>>}
Kinds == {<<>>, <<"view">>, <<"pure">>, <<"payable">>}
EffectPrograms ==
    {Plain(One(F(kind, Append(body, Ret(P))))) : kind \in Kinds, body \in UNION {Places(s) : s \in Acts}}

(* -------------------- @effects, @gas and @bounds ----------------------- *)

Ref(slot, keys) == [slot |-> slot, keys |-> keys]
Refs == {Ref("s", <<>>), Ref("m", <<"p">>), Ref("m", <<"*">>), Ref("a", <<"*">>)}
Declares(fn, reads, writes) ==
    [fn EXCEPT !.effects = <<[reads |-> reads, writes |-> writes, emits |-> {}, calls |-> <<>>]>>]
(* Every access is through a parameter that keeps its value.               *)
Accesses == {SetTo(S, P), SetTo(M(P), S), SetTo(M(Num(1)), Num(3)), SetTo(A(P), M(P)), Let("x", Bin("*", S, M(P)))}
Reaches(s) == {<<If(Bin("==", P, Num(2)), <<s>>, <<>>)>>, <<If(Bin("==", P, Num(2)), <<>>, <<Unchecked(<<s>>)>>)>>,
               <<UpTo(Num(2), <<s>>)>>, <<While(Bin("<", S, Num(1)), <<s, Bump>>)>>,
               <<For(<<Let("i", M(P))>>, Bin("<", I, S), Un("post++", I), <<s>>)>>}
DeclaredPrograms ==
    {Plain(One(Declares(F(<<>>, Append(body, Ret(P))), reads, writes))) :
        reads \in SUBSET Refs, writes \in {{}, {Ref("s", <<>>), Ref("m", <<"*">>)}, {Ref("m", <<"p">>)}, {Ref("a", <<"*">>), Ref("s", <<>>)}},
        body \in UNION {Reaches(s) : s \in Accesses}}

(* The annotation is the estimate, or one less.                            *)
Costs(fn, less) ==
    LET estimate == estimateGas(contractTables(Base), fn.body, fn.bounds)
    IN  [fn EXCEPT !.gas = <<[k |-> "int", v |-> IF estimate = Unbounded THEN 0 ELSE estimate - less]>>]
Bounded(fn, op, n) == [fn EXCEPT !.bounds = <<[ident |-> "p", op |-> op, value |-> n]>>]
Steps == {SetTo(S, P), SetTo(M(P), Plus(S, 1)), Log(P), Let("x", Bin("*", S, M(P))), If(Bin("<", P, Num(1)), <<SetTo(S, P)>>, <<Log(P)>>),
          If(Bin("<", P, Num(1)), <<Log(P)>>, <<SetTo(S, P), Log(P)>>)}
Turns(s) == {<<s>>, <<UpTo(P, <<s>>)>>, <<UpTo(Num(2), <<s>>), s>>, <<UpTo(P, <<UpTo(Num(2), <<s>>)>>)>>,
             <<For(<<Let("i", Num(0))>>, Bin("!=", I, P), Un("post++", I), <<s>>)>>,
             <<While(Bin("!=", P, Num(0)), <<SetTo(P, Bin("-", P, Num(1))), s>>)>>}
GasPrograms ==
    {With(One(Costs(Bounded(F(<<>>, Append(body, Ret(P))), op, n), less)), {"ok"}, {0, 2, 3}) :
        less \in {0, 1}, op \in {"<", "<=", "=="}, n \in {2, 3}, body \in UNION {Turns(s) : s \in Steps}}
    \cup {With(One(Costs(Bounded(F(<<>>, <<For(<<Let("i", Num(0))>>, Bin("<=", I, P), Un("post++", I), <<s>>), Ret(P)>>), op, n), less)), {"ok"}, {0, 2, 3}) :
            less \in {0, 1}, op \in {"<", "<="}, n \in {2, 3}, s \in Steps}

(* ------------------------------ storage -------------------------------- *)

Nested == [NoContract EXCEPT !.slots = <<Slot("s", <<>>), Slot("m", <<"map">>), Slot("a", <<"arr">>), Slot("mm", <<"map", "map">>),
                                         Slot("ma", <<"map", "arr">>), Slot("aa", <<"arr", "arr">>), Slot("am", <<"arr", "map">>)>>]
Indexed(Q) == {Idx(e, k) : e \in Q, k \in {P, Num(1)}}
PathsFrom(names) == LET roots == {Id(n) : n \in names} IN roots \cup Indexed(roots) \cup Indexed(Indexed(roots))
OnPath(e) == {<<SetTo(e, Num(5)), Ret(e)>>, <<Push(e, P), Push(e, Num(7)), Ret(LengthOf(e))>>, <<SetOp("+=", e, P), Ret(Idx(e, Num(0)))>>,
              <<SetTo(e, Num(4)), Delete(e), Ret(Num(0))>>, <<SetTo(M(e), e), Ret(M(e))>>}
Shadowed(e) == <<Let("s", Num(9)), SetTo(e, S), Bump, Ret(e)>>
StoragePrograms ==
    LET others == {"m", "a", "mm", "ma", "aa", "am"}
    IN  {Plain([Nested EXCEPT !.funcs = <<F(<<>>, body)>>]) :
            body \in UNION {OnPath(e) : e \in PathsFrom(others \cup {"s"})} \cup {Shadowed(e) : e \in PathsFrom(others)}}

(* -------------------- control flow, locals, numbers -------------------- *)

Exits == {Break, Continue, Ret(I), Revert, SetTo(S, I), Require(Bin("!=", S, I))}
Even == Bin("==", Bin("%", I, Num(2)), Num(0))
Odd(s) == {If(Even, <<s>>, <<>>), If(Even, <<>>, <<s>>), If(Bin("&&", Even, Bin("<", S, I)), <<s>>, <<Bump>>),
           If(Bin("||", Even, Bin("<", S, I)), <<s>>, <<Log(I)>>), s}
Count == ExprStmt(Un("post++", I))
LoopOf(body) == {<<UpTo(Num(3), body), Ret(S)>>,
                 <<Let("i", Num(0)), While(Bin("<", I, Num(3)), <<Count>> \o body), Ret(S)>>,
                 <<Let("i", Num(0)), DoWhile(Bin("<", I, Num(3)), <<Count>> \o body), Ret(I)>>,
                 <<UpTo(P, <<UpTo(Num(2), body), Log(I)>>), Ret(S)>>,
                 <<UpTo(Num(2), <<Let("j", I), While(Bin("<", Id("j"), Num(2)), <<SetOp("+=", Id("j"), Num(1))>> \o body), Bump>>), Ret(S)>>}
LoopPrograms ==
    {Plain(One(F(<<>>, body))) : body \in UNION {LoopOf(<<o, Bump>>) : o \in UNION {Odd(s) : s \in Exits}}
                                          \cup UNION {LoopOf(<<Bump, s>>) : s \in Exits}}
    \cup {Plain(One(F(<<>>, body))) : body \in UNION {{<<s>>, <<s, Ret(P)>>, <<If(P, <<s>>, <<>>), Ret(P)>>} : s \in {Break, Continue, Revert, Ret(S)}}}

(* Locals that hide one another and the storage.                           *)
Scopes == {<<Let("x", P), If(Bin("<", P, Num(5)), <<Let("x", Plus(X, 1)), SetTo(S, X)>>, <<>>), Ret(X)>>,
           <<Let("x", S), Let("x", P), Ret(X)>>, <<Let("p", Num(1)), Ret(P)>>,
           <<UpTo(Num(2), <<Let("p", I), SetTo(M(P), P)>>), Ret(P)>>,
           <<Let("i", Num(9)), UpTo(Num(2), <<Log(I)>>), Ret(I)>>,
           <<Let("m", P), SetTo(Id("m"), Plus(Id("m"), 1)), Bump, Ret(Id("m"))>>,
           <<If(Bin("<", P, Num(1)), <<Let("s", Num(4)), SetTo(S, Num(5))>>, <<SetTo(S, Num(6))>>), Ret(S)>>,
           <<Unchecked(<<Let("s", Num(1)), SetTo(S, Num(2))>>), Bump, Ret(S)>>,
           <<UpTo(Num(2), <<Let("x", S), SetTo(M(X), I)>>), Let("x", M(Num(0))), Ret(X)>>,
           <<While(Bin("<", P, Num(3)), <<Let("x", P), SetTo(P, Plus(X, 1)), If(Bin("==", X, Num(1)), <<Continue>>, <<>>), SetTo(M(X), P)>>), Ret(P)>>,
           <<Let("x", Nil), SetOp("++", X, Nil), SetOp("*=", X, Num(3)), SetOp("%=", X, Num(2)), Delete(P), Ret(Bin("+", X, P))>>,
           <<ExprStmt(Asg(P, Num(4))), Ret(Ter(Bin(">", P, S), S, P))>>, <<ExprStmt(Asg(S, Num(4))), Ret(P)>>}
(* One operand at least has a type the lowering knows.                     *)
Leaves == {P, S, M(P), Num(3)}
Operations == {Bin(op, Bin(o, u, v), w) : op \in {"+", "-", "*"}, o \in {"+", "-"}, u \in {P, S}, v \in Leaves, w \in Leaves}
              \cup {Bin(op, u, Par(Bin("*", v, v))) : op \in {"-", "%", "<", ">="}, u \in Leaves, v \in {P, S, M(P)}}
              \cup {Ter(Bin(op, u, v), Bin("-", u, v), Un("-", v)) : op \in {"<", "!="}, u \in Leaves, v \in {P, S, M(P)}}
              \cup {Bin(op, Un("!", Bin("<", u, v)), Bin("==", u, S)) : op \in {"&&", "||"}, u \in Leaves, v \in {P, Num(3)}}
NumberPrograms ==
    {With(One(F(<<>>, body)), {"ok"}, {0, 9}) :
        body \in {<<SetTo(M(P), Num(5)), SetOp("+=", S, Num(7)), Ret(e)>> : e \in Operations}
                 \cup {<<Unchecked(<<SetTo(M(P), Num(5)), SetOp("-=", S, Num(7)), Ret(e)>>)>> : e \in Operations}
                 \cup Scopes}

(* ------------------------------ modifiers ------------------------------ *)

Modifier(n, body) == [name |-> n, body |-> body]
Double == SetTo(S, Bin("*", S, Num(2)))
Modifiers == <<Modifier("twice", <<Bump, Placeholder, Double>>), Modifier("guarded", <<Require(Bin("<", S, Num(6))), Placeholder>>),
               Modifier("maybe", <<If(Bin("!=", S, Num(2)), <<Log(S), Placeholder>>, <<Bump>>)>>),
               Modifier("local", <<Let("x", S), Placeholder, Log(X)>>)>>
(* The locals of a modifier that is applied twice would meet in one block.  *)
GuardLists == {g \in UNION {[1 .. n -> {"twice", "guarded", "maybe", "local"}] : n \in 0 .. 3} :
                   Len(SelectSeq(g, LAMBDA x : x = "local")) <= 1}
ModifierPrograms ==
    {With([Base EXCEPT !.modifiers = Modifiers, !.funcs = <<Fn("f", <<"p">>, <<>>, <<"public">> \o mods, body)>>], {"ok"}, {1, 7}) :
        mods \in GuardLists,
        body \in {<<SetOp("+=", S, P)>>, <<If(Bin("<", P, S), <<Ret(Nil)>>, <<>>), SetTo(M(S), P), Bump>>}}
(* A modifier without, or with two, placeholders.                          *)
BadModifiers == {Plain([Base EXCEPT !.modifiers = <<Modifier("twice", body)>>,
                                    !.funcs = <<Fn("f", <<"p">>, <<>>, <<"public", "twice">>, <<Bump>>)>>]) :
                    body \in {<<Bump>>, <<Placeholder, Placeholder>>, <<Continue, Placeholder>>}}

(* --------------------- calls, errors, whole contracts ------------------ *)

CallOut == CallOf(Id("call"), <<P>>)
AllPeers == {"ok", selError, selPanic, selCustom, "vm"}
CatchLists == UNION {[1 .. n -> {"Error", "Panic", "bytes", ""}] : n \in 0 .. 2}
Handlers(kinds, last) == [i \in DOMAIN kinds |-> Catch(kinds[i], <<SetTo(S, Num(i)), Log(P), last>>)]
TryPrograms ==
    {With(One(F(<<>>, <<SetTo(S, Num(9)), Try(CallOut, <<Log(S)>>, Handlers(kinds, last)), SetTo(M(P), S), Ret(P)>>)), AllPeers, {0}) :
        kinds \in CatchLists, last \in {Bump, Ret(S), Revert}}
    \cup {With(One(F(<<>>, <<UpTo(Num(2), <<Try(CallOut, <<last>>, Handlers(<<"Error", "bytes">>, last)), Bump>>), Ret(S)>>)), AllPeers, {0}) :
            last \in {Break, Continue, Log(I)}}
    \cup {With(One(F(<<>>, <<Try(CallOut, <<>>, <<Catch("Error", <<Try(CallOut, <<>>, Handlers(<<k>>, Bump))>>)>>), Ret(S)>>)), AllPeers, {0}) :
            k \in {"Panic", "Error", ""}}
    \cup {With(One(F(<<kind>>, <<ExprStmt(CallOut), Ret(P)>>)), AllPeers, {0}) : kind \in {"view", "pure", "payable"}}

Fails(e) == Fn("g", <<"q">>, <<"">>, <<"internal">>, <<If(Bin("<", Id("q"), Num(3)), <<e>>, <<>>), Ret(Plus(Id("q"), 1))>>)
CallG(e) == CallOf(Id("g"), <<e>>)
CallPrograms ==
    {Plain([Base EXCEPT !.errors = <<"Bad">>, !.funcs = <<Fails(e), F(<<>>, body)>>]) :
        e \in {Revert, [Revert EXCEPT !.expr = CallOf(Id("Bad"), <<>>)], [Revert EXCEPT !.expr = Str],
               Require(Bin("==", Id("q"), Num(2))), [Require(Bin("==", Id("q"), Num(2))) EXCEPT !.k = "assert"]},
        body \in {<<SetTo(S, CallG(P)), Ret(S)>>, <<Bump, Try(CallG(P), <<Log(S)>>, Handlers(<<"Panic", "bytes">>, Bump)), Ret(S)>>,
                  <<Bump, SetTo(M(CallG(S)), Bin("+", P, CallG(S))), Ret(CallG(Plus(P, 3)))>>, <<Ret(CallOf(Id("g"), <<P, P>>))>>}}

Two(f, g) == [Base EXCEPT !.funcs = <<f, g>>]
Recursive == F(<<>>, <<If(Bin("==", P, Num(0)), <<Ret(S)>>, <<>>), Bump, Ret(Bin("+", P, CallOf(Id("f"), <<Bin("-", P, Num(1))>>)))>>)
Overload(mods, sel) == [Fn("f", <<"p", "q">>, <<"">>, mods, <<SetTo(S, CallOf(Id("f"), <<Id("q")>>)), Ret(Bin("*", P, S))>>) EXCEPT !.sel = sel]
OverloadPrograms ==
    {Plain(Two(Recursive, Overload(<<v>>, sel))) : v \in {"public", "external", "internal", "private"}, sel \in {"", "f/1", "0x1"}}
    \cup {Plain(Two(Recursive, [Overload(<<"public">>, "") EXCEPT !.params = <<x>>])) : x \in {"p", "q"}}

(* Immutables, initial values, constants, fallback and receive.            *)
Fixed == [NoContract EXCEPT !.slots = <<[Slot("k", <<>>) EXCEPT !.imm = TRUE], [Slot("s", <<>>) EXCEPT !.init = Num(3)], Slot("m", <<"map">>)>>,
                            !.constants = <<[name |-> "C", value |-> Num(2)], [name |-> "D", value |-> Bin("+", Id("C"), Num(1))]>>,
                            !.events = <<[name |-> "Ev", params |-> <<"v">>]>>]
K == Id("k")
Constructors == {<<>>} \cup {Entry(<<"p">>, body) : body \in {<<SetTo(K, P)>>, <<If(Bin("<", P, S), <<SetTo(K, Bin("+", P, Id("D")))>>, <<Revert>>)>>,
                                                              <<SetOp("+=", S, P), UpTo(Num(2), <<Log(I)>>), SetTo(K, S)>>, <<SetTo(S, P)>>, <<SetTo(K, Num(1)), Ret(K)>>}}
Uses == {<<SetTo(S, Bin("*", K, Id("C"))), Ret(Bin("+", K, P))>>, <<SetTo(M(K), Bin("-", P, Id("D"))), Ret(M(K))>>,
         <<SetTo(K, P), Ret(K)>>, <<SetTo(Id("C"), P), Ret(P)>>, <<Let("k", P), SetTo(K, Num(1)), Ret(K)>>,
         <<If(P, <<SetTo(K, Num(1))>>, <<>>), Ret(P)>>, <<If(P, <<>>, <<SetTo(K, Num(1))>>), Ret(P)>>, <<UpTo(Num(1), <<SetTo(K, P)>>), Ret(P)>>,
         <<While(Bin("<", P, Num(1)), <<SetTo(K, P), SetTo(P, Num(1))>>), Ret(P)>>, <<Unchecked(<<SetTo(K, P)>>), Ret(P)>>,
         <<Let("x", Num(0)), DoWhile(Bin("<", X, Num(1)), <<SetTo(X, Num(1)), If(P, <<SetOp("+=", K, P)>>, <<>>)>>), Ret(X)>>}
Entries == {<<<<>>, <<>>>>, <<Entry(<<>>, <<SetOp("+=", S, Num(9))>>), <<>>>>, <<<<>>, Entry(<<>>, <<SetTo(M(S), K), Bump>>)>>,
            <<Entry(<<>>, <<SetTo(K, Num(5))>>), Entry(<<>>, <<Log(K)>>)>>, <<Entry(<<>>, <<Log(K), Revert>>), Entry(<<>>, <<If(Bin("<", S, Num(5)), <<SetTo(K, Num(7))>>, <<Bump>>)>>)>>}
LifePrograms ==
    {With([Fixed EXCEPT !.ctor = ctor, !.funcs = <<F(<<>>, body)>>, !.fallback = e[1], !.receive = e[2]], {"ok"}, {1, 5}) :
        ctor \in Constructors, body \in Uses, e \in Entries}

(* Names.                                                                  *)
NamePrograms ==
    {Plain([Base EXCEPT !.slots = @ \o <<Slot(n, <<>>)>>, !.constants = <<[name |-> o, value |-> v]>>,
                        !.funcs = <<Fn("f", <<"p", q>>, <<r>>, <<"public">> \o mods, <<Ret(P)>>)>>]) :
        n \in {"t", "s", "Ev", "f", "this"}, o \in {"C", "Ev", "t"}, v \in {Num(1), S}, q \in {"q", "p"}, r \in {"", "q"},
        mods \in {<<>>, <<"private">>, <<"view", "pure">>, <<"nonesuch">>}}

(* Nothing returns two values: these are checked and compiled, not called. *)
TuplePrograms ==
    {Plain(Two(Fn("g", <<>>, <<"">>, <<"public">>, <<Ret(Num(1))>>),
               Fn("f", <<>>, <<"">>, <<"internal">>,
                  <<[Stmt("let-tuple") EXCEPT !.names = names, !.expr = e], Ret(Bin("+", X, S))>>))) :
        names \in {<<"x">>, <<"x", "y">>, <<"x", "s">>}, e \in {Nil, S, CallOf(Id("g"), <<>>), Id("m")}}

MCPrograms == EffectPrograms \cup DeclaredPrograms \cup GasPrograms \cup StoragePrograms
              \cup LoopPrograms \cup NumberPrograms \cup ModifierPrograms \cup BadModifiers
              \cup TryPrograms \cup CallPrograms \cup OverloadPrograms \cup LifePrograms \cup NamePrograms
              \cup TuplePrograms
(* A sum whose left operand is a call is not checked for overflow.         *)
CalledSums == {With(Two(Fn("g", <<>>, <<"">>, <<"public">>, <<Ret(Num(9))>>), F(<<>>, <<Ret(Bin(op, CallOf(Id("g"), <<>>), P))>>)), {"ok"}, {8, 9}) :
                  op \in {"+", "*", "-"}}
(* A view function that erases a slot.                                     *)
ViewDeletes == {Plain(One(F(<<"view">>, <<Delete(e), Ret(P)>>))) : e \in {S, M(P), A(P)}}
(* continue, and a local declared after it.                                *)
LateLocals == {Plain(One(F(<<>>, <<UpTo(Num(3), <<If(Even, <<Continue>>, <<>>), Let("x", I), SetTo(S, X)>>), Ret(S)>>)))}
=============================================================================
