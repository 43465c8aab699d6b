---------------------------- MODULE LuaReference ----------------------------
(***************************************************************************)
(* What a Lua chunk means, by recursion on its syntax: the reference that   *)
(* the compiled code is held against.  No registers and no instructions     *)
(* appear here: a variable is a cell, a closure is its function expression  *)
(* with the environment of its definition, a block ends with a signal that  *)
(* says whether it ran to its end, or left by break, goto or return.        *)
(***************************************************************************)
EXTENDS LuaValues

CONSTANT Host(_, _, _)     \* Host(s, name, args): what the host's function of that name does, and its values

Go == [k |-> "next", n |-> "", vs |-> <<>>]
Signal(k, n, vs) == [k |-> k, n |-> n, vs |-> vs]
(* host is the state of the host, err the value of the error under way.        *)
StartWith(builtins, host) ==
    [cell |-> <<>>, fn |-> <<>>, log |-> <<>>, st |-> "run", err |-> Nil, host |-> host,
     heap |-> <<[m |-> [x \in {Str(b) : b \in builtins} |-> Builtin(x[2])], mt |-> Nil]>>]
Start == StartWith({"out", "setmetatable", "pcall"}, <<>>)

Raises(s, v) == IF s.st = "run" THEN [s EXCEPT !.st = "error", !.err = v] ELSE s
Fails(s) == Raises(s, Str("error"))
ValueAt(vs, i) == IF i \in DOMAIN vs THEN vs[i] ELSE Nil
Lookup(s, t, key) == LET m == s.heap[t[2]].m IN IF key \in DOMAIN m THEN m[key] ELSE Nil
Store(s, t, key, v) ==
    IF key = Nil THEN Fails(s)
    ELSE [s EXCEPT !.heap[t[2]].m = (key :> v) @@ @]
Alloc(s, m) == [s EXCEPT !.heap = Append(@, [m |-> m, mt |-> Nil])]
Meta(s, v, event) == IF IsTab(v) /\ s.heap[v[2]].mt # Nil THEN Lookup(s, s.heap[v[2]].mt, Str(event)) ELSE Nil
Meta2(s, v, w, event) == IF Meta(s, v, event) # Nil THEN Meta(s, v, event) ELSE Meta(s, w, event)
Border(s, t) == CHOOSE n \in 0..Cardinality(DOMAIN s.heap[t[2]].m) :
                   Lookup(s, t, Num(n + 1)) = Nil /\ \A i \in 1..n : Lookup(s, t, Num(i)) # Nil

(* env: name -> cell, "..." -> the extra arguments.                            *)
Bind(env, name, c) == (name :> c) @@ env
Declare(s, env, names, vs) ==
    FoldLeftDomain(LAMBDA r, i : [s |-> [r.s EXCEPT !.cell = Append(@, ValueAt(vs, i))],
                                  env |-> Bind(r.env, names[i], Len(r.s.cell) + 1)],
                   [s |-> s, env |-> env], names)

RECURSIVE Eval(_, _, _), EvalAll(_, _, _), Apply(_, _, _), Index(_, _, _), SetIndex(_, _, _, _), Chunk(_, _, _, _, _),
          Exec(_, _, _), While(_, _, _), Repeat(_, _, _), ForNum(_, _, _, _, _, _), ForIn(_, _, _, _, _),
          CloseAll(_, _)

One(s, env, x) == LET r == Eval(s, env, x) IN [s |-> r.s, v |-> ValueAt(r.vs, 1)]
(* Multi: only a call or ... that ends a list gives all its values.            *)
EvalAll(s, env, xs) ==
    IF xs = <<>> THEN [s |-> s, vs |-> <<>>]
    ELSE LET r == Eval(s, env, xs[1])
             rest == EvalAll(r.s, env, Tail(xs))
         IN  IF Len(xs) = 1 THEN r ELSE [s |-> rest.s, vs |-> <<ValueAt(r.vs, 1)>> \o rest.vs]

Call1(s, f, args) == LET r == Apply(s, f, args) IN [s |-> r.s, v |-> ValueAt(r.vs, 1)]
Apply(s, f, args) ==
    LET c == s.fn[f[2]]
        n == Len(c.ps)
        extra == IF c.va THEN SubSeq(args, n + 1, Len(args)) ELSE <<>>
        a == Alloc(s, [x \in {Num(i) : i \in DOMAIN extra} \cup {Str("n")} |->
                         IF x = Str("n") THEN Num(Len(extra)) ELSE extra[x[2]]])
        d == IF c.va THEN Declare(a, Bind(c.env, "...", extra), c.ps \o <<"arg">>,
                                  [i \in 1..n |-> ValueAt(args, i)] \o <<Tab(Len(s.heap) + 1)>>)
                     ELSE Declare(s, Bind(c.env, "...", <<>>), c.ps, args)
        r == Chunk(d.s, d.env, c.body, 1, <<>>)
        h == Meta(s, f, "__call")
    IN  IF s.st # "run" THEN [s |-> s, vs |-> <<>>]
        ELSE
        CASE f = Builtin("out") -> [s |-> [s EXCEPT !.log = Append(@, args)], vs |-> <<>>]
          [] f = Builtin("setmetatable") ->
               IF IsTab(ValueAt(args, 1)) THEN [s |-> [s EXCEPT !.heap[args[1][2]].mt = ValueAt(args, 2)], vs |-> <<args[1]>>]
               ELSE [s |-> Fails(s), vs |-> <<>>]
          [] f = Builtin("pcall") ->
               LET p == Apply(s, args[1], Tail(args))
               IN  CASE args = <<>> -> [s |-> Fails(s), vs |-> <<>>]
                     [] args # <<>> /\ p.s.st # "run" -> [s |-> [p.s EXCEPT !.st = "run"], vs |-> <<Bool(FALSE), p.s.err>>]
                     [] OTHER -> [s |-> p.s, vs |-> <<Bool(TRUE)>> \o p.vs]
          [] f[1] = "builtin" /\ f[2] \notin {"out", "setmetatable", "pcall"} -> Host(s, f[2], args)
          [] f[1] = "fun" -> [s |-> r.s, vs |-> r.sig.vs]
          [] OTHER -> IF IsFun(h) THEN Apply(s, h, <<f>> \o args) ELSE [s |-> Fails(s), vs |-> <<>>]

Index(s, t, key) ==
    LET h == Meta(s, t, "__index")
        v == IF IsTab(t) THEN Lookup(s, t, key) ELSE Nil
    IN  CASE v # Nil \/ (IsTab(t) /\ h = Nil) -> [s |-> s, v |-> v]
          [] OTHER -> CASE IsFun(h) -> Call1(s, h, <<t, key>>)
                        [] h = Nil -> [s |-> Fails(s), v |-> Nil]
                        [] OTHER -> Index(s, h, key)
SetIndex(s, t, key, v) ==
    LET h == Meta(s, t, "__newindex")
    IN  CASE IsTab(t) /\ (h = Nil \/ Lookup(s, t, key) # Nil) -> Store(s, t, key, v)
          [] OTHER -> CASE IsFun(h) -> Apply(s, h, <<t, key, v>>).s
                        [] h = Nil -> Fails(s)
                        [] OTHER -> SetIndex(s, h, key, v)

Event(op) == CASE op = "+" -> "__add" [] op = "-" -> "__sub" [] op = "*" -> "__mul" [] op = "//" -> "__idiv"
               [] op = "%" -> "__mod" [] op = "concat" -> "__concat" [] op = "<" -> "__lt" [] op = "<=" -> "__le"
               [] op = "==" -> "__eq"
Alphabetical == <<"", "a", "b", "c">>
Rank(v) == IF IsNum(v) THEN v[2] ELSE CHOOSE i \in DOMAIN Alphabetical : Alphabetical[i] = v[2]
AsNumber(v) == IF v[1] = "str" /\ \E n \in 0..(Modulus - 1) : ToString(n) = v[2]
               THEN Num(CHOOSE n \in 0..(Modulus - 1) : ToString(n) = v[2]) ELSE v
Binary(s, op, v, w) ==
    LET h == Meta2(s, v, w, Event(op))
        lt == Meta2(s, w, v, "__lt")
        x == AsNumber(v)
        y == AsNumber(w)
        is(b) == [s |-> s, v |-> Bool(b)]
        truth(r) == [s |-> r.s, v |-> Bool(LVAsBool(r.v))]
        comparable == v[1] = w[1] /\ v[1] \in {"num", "str"}
    IN  CASE op = "==" -> IF v # w /\ IsTab(v) /\ IsTab(w) /\ IsFun(h) THEN truth(Call1(s, h, <<v, w>>)) ELSE is(v = w)
          [] op \in {"<", "<="} ->
               CASE comparable -> is(Rank(v) < Rank(w) \/ (op = "<=" /\ Rank(v) = Rank(w)))
                 [] ~comparable /\ IsFun(h) -> truth(Call1(s, h, <<v, w>>))
                 [] ~comparable /\ ~IsFun(h) /\ op = "<=" /\ IsFun(lt) ->
                      LET r == Call1(s, lt, <<w, v>>) IN [s |-> r.s, v |-> Bool(~LVAsBool(r.v))]
                 [] OTHER -> [s |-> Fails(s), v |-> Nil]
          [] op = "concat" ->
               CASE LVCanConvToString(v) /\ LVCanConvToString(w) -> [s |-> s, v |-> Str(LVAsString(v) \o LVAsString(w))]
                 [] OTHER -> IF IsFun(h) THEN Call1(s, h, <<v, w>>) ELSE [s |-> Fails(s), v |-> Nil]
          [] op \in ArithOps ->
               CASE IsFun(h) -> Call1(s, h, <<v, w>>)
                 [] ~IsFun(h) /\ IsNum(x) /\ IsNum(y) /\ ~(op \in DivOps /\ y[2] = 0) ->
                      [s |-> s, v |-> Num(numberArith(op, x[2], y[2]))]
                 [] OTHER -> [s |-> Fails(s), v |-> Nil]
Unary(s, op, v) ==
    LET h == Meta(s, v, IF op = "-" THEN "__unm" ELSE "__len")
    IN  CASE op = "not" -> [s |-> s, v |-> Bool(~LVAsBool(v))]
          [] op = "-" /\ IsNum(v) -> [s |-> s, v |-> Num((0 - v[2]) % Modulus)]
          [] op = "#" /\ v[1] = "str" -> [s |-> s, v |-> Num(Len(v[2]))]
          [] OTHER -> CASE IsFun(h) -> Call1(s, h, <<v, v>>)
                        [] ~IsFun(h) /\ op = "#" /\ IsTab(v) -> [s |-> s, v |-> Num(Border(s, v))]
                        [] OTHER -> [s |-> Fails(s), v |-> Nil]

Field(s, env, t, fd, n, islast) ==      \* n list items so far
    LET k == One(s, env, fd.key[1])
        kv == One(k.s, env, fd.val)
        r == Eval(s, env, fd.val)
        vs == IF islast THEN r.vs ELSE <<ValueAt(r.vs, 1)>>
    IN  IF fd.key # <<>> THEN [s |-> Store(kv.s, t, k.v, kv.v), n |-> n]
        ELSE [s |-> FoldLeftDomain(LAMBDA u, i : Store(u, t, Num(n + i), vs[i]), r.s, vs), n |-> n + Len(vs)]

Eval(s, env, x) ==
    LET one(r) == [s |-> r.s, vs |-> <<r.v>>]
        is(v) == [s |-> s, vs |-> <<v>>]
        adjust(r) == IF x.adj THEN [s |-> r.s, vs |-> <<ValueAt(r.vs, 1)>>] ELSE r
    IN  CASE s.st # "run" -> is(Nil)
          [] x.k = "num" -> is(Num(x.v))
          [] x.k = "str" -> is(Str(x.v))
          [] x.k = "nil" -> is(Nil)
          [] x.k = "true" -> is(Bool(TRUE))
          [] x.k = "false" -> is(Bool(FALSE))
          [] x.k = "dots" -> adjust([s |-> s, vs |-> env["..."]])
          [] x.k = "id" -> IF x.n \in DOMAIN env THEN is(s.cell[env[x.n]]) ELSE one(Index(s, Tab(1), Str(x.n)))
          [] x.k = "attr" -> LET o == One(s, env, x.o)
                                 k == One(o.s, env, x.key)
                             IN  one(Index(k.s, o.v, k.v))
          [] x.k = "table" ->
               LET t == Tab(Len(s.heap) + 1)
                   r == FoldLeftDomain(LAMBDA u, i : Field(u.s, env, t, x.fs[i], u.n, i = Len(x.fs)),
                                       [s |-> Alloc(s, [y \in {} |-> Nil]), n |-> 0], x.fs)
               IN  [s |-> r.s, vs |-> <<t>>]
          [] x.k \in {"arith", "concat"} ->
               LET l == One(s, env, x.l)
                   r == One(l.s, env, x.r)
               IN  one(Binary(r.s, IF x.k = "arith" THEN x.op ELSE "concat", l.v, r.v))
          [] x.k = "rel" ->
               LET l == One(s, env, x.l)
                   r == One(l.s, env, x.r)
                   eq == Binary(r.s, "==", l.v, r.v)
               IN  one(CASE x.op \in {"<", "<="} -> Binary(r.s, x.op, l.v, r.v)
                         [] x.op = ">" -> Binary(r.s, "<", r.v, l.v)
                         [] x.op = ">=" -> Binary(r.s, "<=", r.v, l.v)
                         [] x.op = "==" -> eq
                         [] x.op = "~=" -> [eq EXCEPT !.v = Bool(~LVAsBool(@))])
          [] x.k = "un" -> LET o == One(s, env, x.e) IN one(Unary(o.s, x.op, o.v))
          [] x.k = "logic" -> LET l == One(s, env, x.l)
                              IN  IF LVAsBool(l.v) = (x.op = "and") THEN one(One(l.s, env, x.r)) ELSE one(l)
          [] x.k = "call" ->
               LET f == One(s, env, IF x.fn # <<>> THEN x.fn[1] ELSE x.o)
                   m == Index(f.s, f.v, Str(x.m))
                   args == EvalAll(IF x.fn # <<>> THEN f.s ELSE m.s, env, x.args)
               IN  adjust(IF x.fn # <<>> THEN Apply(args.s, f.v, args.vs) ELSE Apply(args.s, m.v, <<f.v>> \o args.vs))
          [] x.k = "function" ->
               [s |-> [s EXCEPT !.fn = Append(@, [ps |-> x.ps, va |-> x.va, body |-> x.body, env |-> env])],
                vs |-> <<Fn(Len(s.fn) + 1)>>]

(***************************************************************************)
(* Statements.  Exec gives the state, the environment the statement leaves  *)
(* and a signal.  Chunk runs a block from statement i; toClose holds the    *)
(* cells of its <close> variables.                                          *)
(***************************************************************************)
CloseAll(s, cells) ==
    LET v == s.cell[Last(cells)]
        h == Meta(s, v, "__close")
    IN  CASE cells = <<>> \/ s.st # "run" -> s
          [] v \in {Nil, Bool(FALSE)} -> CloseAll(s, Front(cells))
          [] OTHER -> IF IsFun(h) THEN CloseAll(Apply(s, h, <<v, Nil>>).s, Front(cells)) ELSE Fails(s)
Chunk(s, env, body, i, toClose) ==
    LET r == Exec(s, env, body[i])
        more == IF body[i].k = "local" /\ Contains(body[i].attrs, "close")
                THEN toClose \o <<r.env[body[i].names[1]]>> ELSE toClose
        L == {j \in DOMAIN body : body[j].k = "label" /\ body[j].n = r.sig.n}
    IN  CASE s.st # "run" -> [s |-> s, sig |-> Go]
          [] s.st = "run" /\ i > Len(body) -> [s |-> CloseAll(s, toClose), sig |-> Go]
          [] OTHER ->
               CASE r.sig.k = "next" -> Chunk(r.s, r.env, body, i + 1, more)
                 [] r.sig.k = "goto" /\ L # {} -> Chunk(r.s, env, body, CHOOSE j \in L : TRUE, toClose)
                 [] OTHER -> [s |-> CloseAll(r.s, more), sig |-> r.sig]
Scope(s, env, body) == Chunk(s, env, body, 1, <<>>)
Loops(r) == r.s.st = "run" /\ r.sig.k = "next"
Ends(r) == [s |-> r.s, sig |-> IF r.sig.k = "break" THEN Go ELSE r.sig]

While(s, env, st) ==
    LET c == One(s, env, st.cond)
        r == Scope(c.s, env, st.body)
    IN  IF ~LVAsBool(c.v) THEN [s |-> c.s, sig |-> Go]
        ELSE IF Loops(r) THEN While(r.s, env, st) ELSE Ends(r)
(* The condition of repeat sees the locals of the body.                        *)
Repeat(s, env, st) ==
    LET again == [k |-> "if", cond |-> st.cond, then |-> <<[k |-> "again", n |-> "done"]>>,
                  else |-> <<[k |-> "again", n |-> "more"]>>]
        r == Chunk(s, env, Append(st.body, again), 1, <<>>)
    IN  CASE r.s.st # "run" -> [s |-> r.s, sig |-> Go]
          [] OTHER -> IF r.sig.k = "again" THEN IF r.sig.n = "more" THEN Repeat(r.s, env, st) ELSE [s |-> r.s, sig |-> Go]
                      ELSE Ends(r)
ForNum(s, env, st, i, limit, step) ==
    LET d == Declare(s, env, <<st.n>>, <<Num(i % Modulus)>>)
        r == Scope(d.s, d.env, st.body)
        goes == IF step > 0 THEN i <= limit ELSE i >= limit
    IN  IF ~goes THEN [s |-> s, sig |-> Go]
        ELSE IF Loops(r) THEN ForNum(r.s, env, st, i + step, limit, step) ELSE Ends(r)
ForIn(s, env, st, f, c) ==
    LET r == Apply(s, f[1], <<f[2], c>>)
        d == Declare(r.s, env, st.names, r.vs)
        b == Scope(d.s, d.env, st.body)
    IN  IF r.s.st # "run" \/ ValueAt(r.vs, 1) = Nil THEN [s |-> r.s, sig |-> Go]
        ELSE IF Loops(b) THEN ForIn(b.s, env, st, f, ValueAt(r.vs, 1)) ELSE Ends(b)

(* All right sides are evaluated before any target is written.                 *)
Target(s, env, x) ==
    LET o == One(s, env, x.o)
        key == One(o.s, env, x.key)
    IN  IF x.k = "id" THEN [s |-> s, t |-> <<x.n>>] ELSE [s |-> key.s, t |-> <<o.v, key.v>>]
Write(s, env, t, v) == CASE s.st # "run" -> s
                         [] s.st = "run" /\ Len(t) = 2 -> SetIndex(s, t[1], t[2], v)
                         [] OTHER -> IF t[1] \in DOMAIN env THEN [s EXCEPT !.cell[env[t[1]]] = v]
                                     ELSE SetIndex(s, Tab(1), Str(t[1]), v)
Assign(s, env, lhs, rhs) ==
    LET n == Len(lhs)
        ts == FoldLeft(LAMBDA r, x : LET q == Target(r.s, env, x) IN [s |-> q.s, ts |-> Append(r.ts, q.t)],
                       [s |-> s, ts |-> <<>>], lhs)
        vs == EvalAll(ts.s, env, rhs)
    IN  FoldLeft(LAMBDA u, i : Write(u, env, ts.ts[i], ValueAt(vs.vs, i)), vs.s, [i \in 1..n |-> n + 1 - i])

Signed(n) == IF lu256IsNeg(n) THEN n - Modulus ELSE n
Exec(s, env, st) ==
    LET goes(t) == [s |-> t, env |-> env, sig |-> Go]
        leaves(r) == [s |-> r.s, env |-> env, sig |-> r.sig]
    IN  CASE st.k = "assign" -> goes(Assign(s, env, st.lhs, st.rhs))
          [] st.k = "local" ->
               LET recursive == Len(st.exprs) = 1 /\ Len(st.names) = 1 /\ st.exprs[1].k = "function"
                   d == Declare(s, env, st.names, <<>>)
                   f == EvalAll(d.s, d.env, st.exprs)
                   vs == EvalAll(s, env, st.exprs)
                   v == Declare(vs.s, env, st.names, vs.vs)
               IN  IF recursive THEN [s |-> [f.s EXCEPT !.cell[d.env[st.names[1]]] = f.vs[1]], env |-> d.env, sig |-> Go]
                   ELSE [s |-> v.s, env |-> v.env, sig |-> Go]
          [] st.k = "callstat" -> goes(Eval(s, env, st.e).s)
          [] st.k = "do" -> leaves(Scope(s, env, st.body))
          [] st.k = "while" -> leaves(While(s, env, st))
          [] st.k = "repeat" -> leaves(Repeat(s, env, st))
          [] st.k = "funcdef" ->
               LET func == IF st.name # <<>> THEN st.func ELSE [st.func EXCEPT !.ps = <<"self">> \o @]
               IN  goes(Assign(s, env, IF st.name # <<>> THEN st.name
                                       ELSE <<[k |-> "attr", o |-> st.recv, key |-> [k |-> "str", v |-> st.m]]>>, <<func>>))
          [] st.k = "return" -> LET r == EvalAll(s, env, st.exprs)
                                IN  [s |-> r.s, env |-> env, sig |-> Signal("return", "", r.vs)]
          [] st.k = "if" -> LET c == One(s, env, st.cond)
                            IN  leaves(Scope(c.s, env, IF LVAsBool(c.v) THEN st.then ELSE st.else))
          [] st.k \in {"break", "goto", "again"} ->
               [s |-> s, env |-> env, sig |-> Signal(st.k, IF st.k = "break" THEN "" ELSE st.n, <<>>)]
          [] st.k = "label" -> goes(s)
          [] st.k = "fornum" ->
               LET r == EvalAll(s, env, <<st.init, st.limit, st.step>>)
                   n(i) == r.vs[i][2]
                   down == lu256IsNeg(n(3))
               IN  IF ~\A i \in 1..3 : IsNum(r.vs[i]) THEN goes(Fails(r.s))
                   ELSE leaves(ForNum(r.s, env, st, IF down THEN Signed(n(1)) ELSE n(1),
                                      IF down THEN Signed(n(2)) ELSE n(2), Signed(n(3))))
          [] st.k = "forin" -> LET r == EvalAll(s, env, st.exprs)
                               IN  leaves(ForIn(r.s, env, st, <<ValueAt(r.vs, 1), ValueAt(r.vs, 2)>>, ValueAt(r.vs, 3)))

(* The calls of out a chunk makes, then the values it returns; how it ends.     *)
Meaning(chunk) ==
    LET r == Chunk(Start, [x \in {"..."} |-> <<>>], chunk, 1, <<>>)
    IN  IF r.s.st = "run" THEN [st |-> "done", log |-> Append(r.s.log, r.sig.vs)]
        ELSE [st |-> "error", log |-> r.s.log]
=============================================================================
