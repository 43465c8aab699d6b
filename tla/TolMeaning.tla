----------------------------- MODULE TolMeaning -----------------------------
(***************************************************************************)
(* What a contract means, by recursion on its source: the reference the    *)
(* lowered contract is held against.  Nothing is inlined or rewritten: a   *)
(* local is a cell that its block sees, a modifier runs the rest of the    *)
(* function at its placeholder, in the function's own scope, a compound    *)
(* assignment reads and writes one place, + - * are exact or fail unless    *)
(* unchecked, a call that fails has changed nothing.                       *)
(*                                                                         *)
(* A run r has the storage, the events, how it stands (st, with the kind   *)
(* of its error), the cells of locals, and how a call of another contract  *)
(* ends (peer).  x is what stays the same within a body: the contract c    *)
(* and its tables C, whether an unchecked block is open, the modifiers     *)
(* still to run, the body they guard and the cells of its parameters.      *)
(***************************************************************************)
EXTENDS TolChecks

CONSTANTS Modulus,
          Place(_, _, _)      \* Place(kind, base, key): the slot of an element

value(n) == <<"num", n>>
truth(b) == <<"bool", b>>
nothing == <<"nil", 0>>
isTrue(v) == v # nothing /\ v # truth(FALSE)

StartRun(store, peer) ==
    [store |-> store, log |-> <<>>, st |-> "run", kind |-> "", cell |-> <<>>, peer |-> peer]
Fail(r, kind) == IF r.st = "run" THEN [r EXCEPT !.st = "error", !.kind = kind] ELSE r
Errors == [Error |-> "0x08c379a0", Panic |-> "0x4e487b71", custom |-> "custom"]

ReadSlot(r, slot) == IF slot \in DOMAIN r.store THEN r.store[slot] ELSE 0
WriteSlot(r, slot, n) ==
    LET rest == [y \in DOMAIN r.store \ {slot} |-> r.store[y]]
    IN  IF r.st # "run" THEN r ELSE [r EXCEPT !.store = IF n = 0 THEN rest ELSE (slot :> n) @@ rest]

NewCell(r, env, name, v) ==
    [r |-> [r EXCEPT !.cell = Append(@, v)], env |-> (name :> Len(r.cell) + 1) @@ env]

NoLocals == [y \in {} |-> 0]
Body(c, mods, body) ==
    [c |-> c, C |-> contractTables(c), unchecked |-> FALSE,
     rest |-> SelectSeq(mods, LAMBDA m : m \in ToSet(Names(c.modifiers))), body |-> body, params |-> NoLocals]

RECURSIVE Value(_, _, _, _), Values(_, _, _, _), Locate(_, _, _, _, _), Apply(_, _, _, _), Block(_, _, _, _, _),
          Exec(_, _, _, _), Loop(_, _, _, _), Guarded(_, _, _)

(* The values of a list, from left to right.                               *)
Values(x, r, env, es) ==
    IF es = <<>> THEN [r |-> r, vs |-> <<>>]
    ELSE LET first == Value(x, r, env, Head(es))
             others == Values(x, first.r, env, Tail(es))
         IN  [r |-> others.r, vs |-> <<first.v>> \o others.vs]

(* The slot of a storage path, its keys evaluated from the i-th on.        *)
Locate(x, r, env, p, i) ==
    LET before == Locate(x, r, env, p, i - 1)
        key == Value(x, before.r, env, p.keys[i])
    IN  IF i = 0 THEN [r |-> r, slot |-> p.slot]
        ELSE [r |-> key.r, slot |-> IF key.r.st # "run" THEN before.slot
                                    ELSE Place(shapeOf(x.C, p.slot)[i], before.slot, key.v[2])]
PathOf(x, env, e) == storagePathFromExpr(x.C, DOMAIN env, e)

Arithmetic(x, r, op, v, w) ==
    LET exact == CASE op = "+" -> v[2] + w[2] [] op = "-" -> v[2] - w[2] [] op = "*" -> v[2] * w[2]
                   [] op = "%" -> v[2] % w[2]
        fits == exact \in 0 .. Modulus - 1
    IN  CASE r.st # "run" -> [r |-> r, v |-> nothing]
          [] r.st = "run" /\ \/ ~(v[1] = "num" /\ w[1] = "num")
                             \/ op = "%" /\ w[2] = 0
                             \/ ~x.unchecked /\ ~fits -> [r |-> Fail(r, "vm"), v |-> nothing]
          [] OTHER -> [r |-> r, v |-> value(exact % Modulus)]

Compare(op, v, w) ==
    CASE op = "==" -> v = w [] op = "!=" -> v # w
      [] op = "<" -> v[2] < w[2] [] op = "<=" -> v[2] <= w[2]
      [] op = ">" -> v[2] > w[2] [] op = ">=" -> v[2] >= w[2]

CallValue(x, r, env, e) ==
    LET name == stripParens(e.l).v
        push == IF e.l.k = "member" /\ e.l.v = "push" THEN PathOf(x, env, e.l.l) ELSE NoPath
        at == Locate(x, r, env, push, Len(push.keys))
        item == Value(x, at.r, env, e.args[1])
        len == ReadSlot(item.r, at.slot)
        args == Values(x, r, env, e.args)
        own == SelectSeq(x.c.funcs, LAMBDA f : f.name = name /\ Len(f.params) = Len(e.args))
        of(q, v) == [r |-> q, v |-> v]
    IN  CASE push # NoPath ->
                 of(WriteSlot(WriteSlot(item.r, Place("arr", at.slot, len), item.v[2]), at.slot, (len + 1) % Modulus),
                    value((len + 1) % Modulus))
          [] push = NoPath /\ own # <<>> -> Apply(x.c, args.r, Head(own), args.vs)
          [] OTHER -> IF args.r.st # "run" \/ args.r.peer = "ok" THEN of(args.r, value(1))
                      ELSE of(Fail(args.r, args.r.peer), nothing)

Value(x, r, env, e) ==
    LET is(v) == [r |-> r, v |-> v]
        p == PathOf(x, env, e)
        at == Locate(x, r, env, p, Len(p.keys))
        l == Value(x, r, env, e.l)
        w == Value(x, l.r, env, e.r)
        u == Value(x, r, env, e.r)
        K == {i \in DOMAIN x.c.constants : x.c.constants[i].name = e.v}
        q == PathOf(x, env, e.l)
        len == Locate(x, r, env, q, Len(q.keys))
    IN  IF r.st # "run" THEN is(nothing)
        ELSE IF p # NoPath THEN [r |-> at.r, v |-> value(ReadSlot(at.r, at.slot))]
        ELSE
        CASE e.k = "number" -> is(value(e.v))
          [] e.k = "ident" ->
                 CASE e.v \in DOMAIN env -> is(r.cell[env[e.v]])
                   [] e.v \notin DOMAIN env /\ e.v \in {"true", "false"} -> is(truth(e.v = "true"))
                   [] OTHER -> Value(x, r, env, x.c.constants[CHOOSE i \in K : TRUE].value)
          [] e.k = "paren" -> l
          [] e.k = "unary" /\ e.v = "!" -> [r |-> u.r, v |-> truth(~isTrue(u.v))]
          [] e.k = "unary" /\ e.v = "-" -> [r |-> u.r, v |-> value((0 - u.v[2]) % Modulus)]
          [] e.k = "binary" ->
                 CASE e.v \in {"&&", "||"} -> IF isTrue(l.v) = (e.v = "&&") THEN w ELSE l
                   [] e.v \in {"+", "-", "*", "%"} -> Arithmetic(x, w.r, e.v, l.v, w.v)
                   [] OTHER -> [r |-> w.r, v |-> IF w.r.st # "run" THEN nothing ELSE truth(Compare(e.v, l.v, w.v))]
          [] e.k = "member" -> [r |-> len.r, v |-> value(ReadSlot(len.r, len.slot))]
          [] e.k = "ternary" -> LET cond == Value(x, r, env, e.args[1])
                                IN  Value(x, cond.r, env, e.args[IF isTrue(cond.v) THEN 2 ELSE 3])
          [] e.k = "call" -> CallValue(x, r, env, e)

(* A function of the contract: the value it returns.                       *)
Apply(c, r, fn, args) ==
    LET x == Body(c, fn.mods, fn.body)
        bound == FoldLeftDomain(LAMBDA b, i : NewCell(b.r, b.env, fn.params[i], args[i]),
                                [r |-> r, env |-> NoLocals], fn.params)
        ended == Guarded(x, bound.r, bound.env)
    IN  IF r.st # "run" THEN [r |-> r, v |-> nothing] ELSE [r |-> ended.r, v |-> ended.sig.v]

(* ------------------------------ statements ----------------------------- *)

On == [k |-> "on", v |-> nothing]

Guarded(x, r, env) ==
    LET m == x.c.modifiers[CHOOSE i \in DOMAIN x.c.modifiers : x.c.modifiers[i].name = Head(x.rest)]
    IN  IF x.rest = <<>> THEN Block(x, r, env, x.body, 1)
        ELSE Block([x EXCEPT !.rest = Tail(@), !.params = env], r, NoLocals, m.body, 1)

Block(x, r, env, ss, i) ==
    LET done == Exec(x, r, env, ss[i])
    IN  IF i > Len(ss) \/ r.st # "run" THEN [r |-> r, sig |-> On]
        ELSE IF done.sig = On THEN Block(x, done.r, done.env, ss, i + 1)
        ELSE [r |-> done.r, sig |-> done.sig]

(* One turn of a loop and those after it.                                  *)
Loop(x, r, env, s) ==
    LET cond == IF s.cond = Nil THEN [r |-> r, v |-> truth(TRUE)] ELSE Value(x, r, env, s.cond)
        turn == Block(x, cond.r, env, s.body, 1)
        post == IF s.post = Nil \/ turn.r.st # "run" THEN turn.r
                ELSE Exec(x, turn.r, env, ExprStmt(s.post)).r
    IN  CASE cond.r.st # "run" \/ ~isTrue(cond.v) -> [r |-> cond.r, sig |-> On]
          [] OTHER -> CASE turn.sig.k = "break" -> [r |-> turn.r, sig |-> On]
                        [] turn.sig.k = "return" -> turn
                        [] OTHER -> Loop(x, post, env, s)

Assign(x, r, env, target, op, e) ==
    LET t == stripParens(target)
        p == PathOf(x, env, t)
        at == Locate(x, r, env, p, Len(p.keys))
        old == IF p # NoPath THEN value(ReadSlot(at.r, at.slot)) ELSE r.cell[env[t.v]]
        v == Value(x, IF p # NoPath THEN at.r ELSE r, env, e)
        new == IF op = "" THEN v ELSE Arithmetic(x, v.r, op, old, v.v)
    IN  CASE p # NoPath -> WriteSlot(new.r, at.slot, new.v[2])
          [] OTHER -> IF new.r.st = "run" THEN [new.r EXCEPT !.cell[env[t.v]] = new.v] ELSE new.r

operator(op) == CASE op \in {"+=", "++", "post++"} -> "+" [] op \in {"-=", "--", "post--"} -> "-"
                  [] op = "*=" -> "*" [] op = "%=" -> "%" [] OTHER -> ""

(* The first clause that fits takes a structured error; no clause takes an  *)
(* error of the machine.                                                   *)
Caught(catches, kind) ==
    LET fits(i) == catches[i].kind \in {"", "bytes"} \/ Errors[catches[i].kind] = kind
        F == {i \in DOMAIN catches : fits(i)}
    IN  IF kind = "vm" \/ F = {} THEN 0 ELSE Min(F)

RevertKind(x, e) ==
    LET info == emitCallInfo(e)
    IN  IF info # <<>> /\ info[1] \in ToSet(x.c.errors) THEN "custom" ELSE Errors.Error

Exec(x, r, env, s) ==
    LET goes(q) == [r |-> q, env |-> env, sig |-> On]
        leaves(b) == [r |-> b.r, env |-> env, sig |-> b.sig]
        v == Value(x, r, env, s.expr)
        truthful(kind) == goes(IF isTrue(v.v) THEN v.r ELSE Fail(v.r, kind))
    IN  CASE s.k = "let" ->
                 LET init == IF s.expr = Nil THEN [r |-> r, v |-> value(0)] ELSE v
                     n == NewCell(init.r, env, s.name, init.v)
                 IN  [r |-> n.r, env |-> n.env, sig |-> On]
          [] s.k = "set" -> goes(Assign(x, r, env, s.target, operator(s.op),
                                        IF s.op \in {"++", "--"} THEN Num(1) ELSE s.expr))
          [] s.k = "expr" ->
                 CASE s.expr.k = "assign" -> goes(Assign(x, r, env, s.expr.l, "", s.expr.r))
                   [] s.expr.k = "unary" -> goes(Assign(x, r, env, s.expr.r, operator(s.expr.v), Num(1)))
                   [] OTHER -> goes(v.r)
          [] s.k = "return" -> [r |-> IF s.expr = Nil THEN r ELSE v.r, env |-> env,
                                sig |-> [k |-> "return", v |-> IF s.expr = Nil THEN nothing ELSE v.v]]
          [] s.k \in {"break", "continue"} -> [r |-> r, env |-> env, sig |-> [k |-> s.k, v |-> nothing]]
          [] s.k = "if" -> LET cond == Value(x, r, env, s.cond)
                           IN  leaves(Block(x, cond.r, env, IF isTrue(cond.v) THEN s.then ELSE s.els, 1))
          [] s.k = "while" -> leaves(Loop(x, r, env, s))
          [] s.k = "dowhile" ->
                 LET first == Block(x, r, env, s.body, 1)
                 IN  CASE first.sig.k = "break" -> goes(first.r)
                       [] first.sig.k = "return" -> leaves(first)
                       [] OTHER -> leaves(Loop(x, first.r, env, s))
          [] s.k = "for" ->
                 LET init == IF s.init = <<>> THEN [r |-> r, env |-> env] ELSE Exec(x, r, env, s.init[1])
                 IN  leaves(Loop(x, init.r, init.env, s))
          [] s.k = "emit" ->
                 LET args == Values(x, r, env, s.expr.args)
                 IN  goes(IF args.r.st # "run" THEN args.r
                          ELSE [args.r EXCEPT !.log = Append(@, <<<<"str", s.expr.l.v>>>> \o args.vs)])
          [] s.k = "require" -> truthful(Errors.Error)
          [] s.k = "assert" -> truthful(Errors.Panic)
          [] s.k = "revert" -> goes(Fail(r, RevertKind(x, s.expr)))
          [] s.k = "delete" -> goes(Assign(x, r, env, s.expr, "", Num(0)))
          [] s.k = "unchecked" -> leaves(Block([x EXCEPT !.unchecked = TRUE], r, env, s.body, 1))
          [] s.k = "placeholder" -> leaves(Guarded([x EXCEPT !.unchecked = FALSE], r, x.params))
          [] s.k = "try" ->
                 LET undone == [v.r EXCEPT !.st = "run", !.kind = "", !.store = r.store, !.log = r.log]
                     i == Caught(s.catches, v.r.kind)
                 IN  CASE v.r.st = "run" -> leaves(Block(x, v.r, env, s.body, 1))
                       [] v.r.st # "run" /\ i # 0 -> leaves(Block(x, undone, env, s.catches[i].body, 1))
                       [] OTHER -> goes(v.r)

(* --------------------------- whole calls ------------------------------- *)

(* A failed call leaves the storage as it was and no event.                *)
Outcome(r, v, store) ==
    IF r.st = "run" THEN [st |-> "ok", kind |-> "", vs |-> v, store |-> r.store, log |-> r.log]
    ELSE [st |-> "error", kind |-> r.kind, vs |-> <<>>, store |-> store, log |-> <<>>]

Created(c, args, store, peer) ==
    LET x == Body(c, <<>>, <<>>)
        inits == SelectSeq(c.slots, LAMBDA s : s.init # Nil)
        r0 == FoldLeft(LAMBDA r, s : Assign(x, r, NoLocals, Id(s.name), "", s.init), StartRun(store, peer), inits)
        ctor == [name |-> "", params |-> c.ctor[1].params, mods |-> <<>>, body |-> c.ctor[1].body]
        ran == Apply(c, r0, ctor, args)
    IN  Outcome(IF c.ctor = <<>> THEN r0 ELSE ran.r, <<>>, store)

(* An empty selector is a plain transfer of value.                         *)
Invoked(c, selector, args, store, peer) ==
    LET r0 == StartRun(store, peer)
        called == SelectSeq(c.funcs, LAMBDA f : isDispatched(f) /\ selectorDispatchKey(f) = selector)
        own(f) == LET ran == Apply(c, r0, f, args)
                  IN  Outcome(ran.r, IF f.returns = <<>> THEN <<>> ELSE <<ran.v>>, store)
        plain(b) == Outcome(Apply(c, r0, [name |-> "", params |-> <<>>, mods |-> <<>>, body |-> b.body], <<>>).r,
                            <<>>, store)
    IN  CASE called # <<>> -> own(Head(called))
          [] called = <<>> /\ selector = "" /\ c.receive # <<>> -> plain(c.receive[1])
          [] OTHER -> IF c.fallback # <<>> THEN plain(c.fallback[1]) ELSE Outcome(Fail(r0, "vm"), <<>>, store)
=============================================================================
