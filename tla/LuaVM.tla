------------------------------- MODULE LuaVM -------------------------------
(***************************************************************************)
(* The register machine (vm.go, state.go) running the code of LuaCompiler.  *)
(*                                                                          *)
(* vm is the LState: the chunk it runs (proto), the registry (reg, top),    *)
(* the call frames (fr), the heap of tables, the closures (cl), the upvalue *)
(* cells (up), the gas used, and the calls of the host function "out" so    *)
(* far (log).  One action executes one instruction.  A metamethod, an       *)
(* iterator or a __close handler runs in a nested mainLoop in the Go code;  *)
(* here its frame carries what its caller does with the result (cont), and  *)
(* Deliver does it.                                                         *)
(***************************************************************************)
EXTENDS LuaCompiler

CONSTANTS Programs,          \* the chunks to run, a sequence of syntax trees
          GasLimits,         \* for each chunk the gas limits to run it with; 0 is no limit
          RegistrySize,      \* slots of the registry
          MaxTableGetLoop,   \* longest __index chain
          Compile(_)         \* compileASTToIRDirect: TLC's statistics on a step stop at a constant

VARIABLE vm

MultRet == -1
cf(s) == Last(s.fr)
closeAllUpvalues(s) == [s EXCEPT !.up = [u \in DOMAIN @ |->
                           IF @[u].open THEN [open |-> FALSE, i |-> 0, v |-> s.reg[@[u].i]] ELSE @[u]]]
raiseError(s, why) == IF s.st = "run" THEN [closeAllUpvalues(s) EXCEPT !.st = why] ELSE s
RaiseError(s) == raiseError(s, "error")
Panic(s) == IF s.st = "run" THEN [s EXCEPT !.st = "panic"] ELSE s
ProtoOf(s, fn) == FoldLeft(LAMBDA p, i : p.fns[i], s.proto, s.cl[fn[2]].path)
Proto(s) == ProtoOf(s, cf(s).fn)

chargeGasOnce(s, cost) ==       \* the error is raised by the instruction that crosses the limit only
    LET g == s.gas + cost
    IN  IF s.limit > 0 /\ g > s.limit /\ s.gas <= s.limit THEN raiseError([s EXCEPT !.gas = g], "gas")
        ELSE [s EXCEPT !.gas = g]
chargeGas(s, cost) ==
    LET g == s.gas + cost
    IN  IF s.limit = 0 THEN s
        ELSE IF g > s.limit THEN raiseError([s EXCEPT !.gas = g], "gas") ELSE [s EXCEPT !.gas = g]

(***************************************************************************)
(* The registry.  Slots from top on hold no value.                          *)
(***************************************************************************)
Fill(s, lo, n, v) == [s EXCEPT !.reg = [i \in DOMAIN @ |-> IF i \in lo..(lo + n - 1) THEN v ELSE @[i]]]
Set(s, i, v) == [s EXCEPT !.reg[i] = v, !.top = IF i >= @ THEN i + 1 ELSE @]
SetTop(s, t) == [Fill(Fill(s, s.top, t - s.top, Nil), t, s.top - t, GoNil) EXCEPT !.top = t]
Push(s, v) == Set(s, s.top, v)
PushAll(s, vs) == FoldLeft(Push, s, vs)
CopyRange(s, regv, start, limit, n) ==
    LET lim == IF limit = -1 \/ limit > s.top THEN s.top ELSE limit
        src(i) == start + i - regv
        moved == [s EXCEPT !.reg = [i \in DOMAIN @ |->
                     IF i \in regv..(regv + n - 1) THEN IF src(i) >= lim THEN Nil ELSE @[src(i)] ELSE @[i]]]
    IN  [Fill(moved, regv + n, s.top - regv - n, GoNil) EXCEPT !.top = regv + n]
FillNil(s, regm, n) == CopyRange(s, regm, s.top, -1, n)
Insert(s, v, at) ==
    IF at >= s.top THEN Set(s, at, v)
    ELSE [s EXCEPT !.top = @ + 1, !.reg = [i \in DOMAIN @ |-> CASE i = at -> v
                                             [] i > at /\ i <= s.top -> @[i - 1] [] OTHER -> @[i]]]
copyReturnValues(s, regv, start, n, b) ==
    LET c == CopyRange(s, regv, start, -1, n)
    IN  CASE b = 1 -> FillNil(s, regv, n)
          [] b > 1 /\ n > b - 1 -> FillNil(c, regv + b - 1, n - (b - 1))
          [] OTHER -> c

(***************************************************************************)
(* Tables and metatables (LuaTable models how a table stores its entries).  *)
(***************************************************************************)
NewTable(s, m) == [s EXCEPT !.heap = Append(@, [m |-> m, mt |-> Nil])]
EmptyMap == [x \in {} |-> Nil]
RawGet(s, t, k) == LET m == s.heap[t[2]].m IN IF k \in DOMAIN m THEN m[k] ELSE Nil
RawSet(s, t, k, v) == IF k = Nil THEN RaiseError(s) ELSE [s EXCEPT !.heap[t[2]].m = (k :> v) @@ @]
(* LenWithCost: the last value of the array part, and the slots looked at to find it. *)
RawLen(s, t) == Max({0} \cup {n \in 1..Cardinality(DOMAIN s.heap[t[2]].m) :
                               RawGet(s, t, Num(n)) # Nil /\ \A i \in 1..n : Num(i) \in DOMAIN s.heap[t[2]].m})
LenCost(s, t) == LET m == DOMAIN s.heap[t[2]].m
                     size == Max({n \in 0..Cardinality(m) : \A i \in 1..n : Num(i) \in m})
                 IN  size - RawLen(s, t) + (IF RawLen(s, t) > 0 THEN 1 ELSE 0)
metaOp1(s, v, event) == IF IsTab(v) /\ s.heap[v[2]].mt # Nil
                        THEN RawGet(s, s.heap[v[2]].mt, Str(event)) ELSE Nil
metaOp2(s, v, w, event) == IF metaOp1(s, v, event) # Nil THEN metaOp1(s, v, event) ELSE metaOp1(s, w, event)
metaCall(s, v) == LET m == metaOp1(s, v, "__call")
                  IN  CASE IsFun(v) -> [fn |-> v, meta |-> FALSE]
                        [] ~IsFun(v) /\ IsFun(m) -> [fn |-> m, meta |-> TRUE]
                        [] OTHER -> [fn |-> Nil, meta |-> FALSE]

(***************************************************************************)
(* Upvalues (Upvalues models the list they are kept in).                    *)
(***************************************************************************)
closeUpvalues(s, idx) ==
    [s EXCEPT !.up = [u \in DOMAIN @ |-> IF @[u].open /\ @[u].i >= idx
                                         THEN [open |-> FALSE, i |-> 0, v |-> s.reg[@[u].i]] ELSE @[u]]]
OpenAt(s, idx) == {u \in DOMAIN s.up : s.up[u].open /\ s.up[u].i = idx}
findUpvalue(s, idx) == IF OpenAt(s, idx) # {} THEN s
                       ELSE [s EXCEPT !.up = Append(@, [open |-> TRUE, i |-> idx, v |-> Nil])]
Upvalue(s, b) == s.cl[cf(s).fn[2]].ups[b + 1]

(***************************************************************************)
(* Call frames.                                                             *)
(***************************************************************************)
callFrame(fn, base, ret, nargs, nret, cont) ==
    [fn |-> fn, pc |-> 0, base |-> base, lbase |-> base + 1, ret |-> ret, nargs |-> nargs, nret |-> nret,
     cont |-> cont]
NoCont == [k |-> "none"]

ArgTable(s, lo, n) == [x \in {Num(i) : i \in 1..n} \cup {Str("n")} |->
                         IF x = Str("n") THEN Num(n) ELSE s.reg[lo + x[2] - 1]]
Padded(s, c, np) ==
    IF c.nargs < np THEN [Fill(s, c.lbase + c.nargs, np - c.nargs, Nil) EXCEPT !.top = c.lbase + np] ELSE s
(* A vararg function's parameters move above the extra arguments.            *)
Spread(s, lb, np, n) ==
    Fill([s EXCEPT !.reg = [i \in DOMAIN @ |-> IF i \in (lb + n)..(lb + n + np - 1) THEN @[i - n] ELSE @[i]]], lb, np, Nil)
WithArg(s, lb, np, n, needsarg) ==
    IF needsarg THEN [NewTable(s, ArgTable(s, lb + np, n - np)) EXCEPT !.reg[lb + n + np] = Tab(Len(s.heap) + 1)]
                ELSE [s EXCEPT !.reg[lb + n + np] = Nil]
initLuaFrame(s, lb, p, n) ==
    IF ~p.vararg THEN [Fill(s, lb + p.np, Max({n, p.nregs}) - p.np, Nil) EXCEPT !.top = lb + p.nregs]
    ELSE SetTop([WithArg(SetTop(Spread(SetTop(s, lb + n + p.np), lb, p.np, n), lb + n + p.np + 1), lb, p.np, n, p.needsarg)
                    EXCEPT !.fr[Len(s.fr)].lbase = @ + n], lb + n + p.nregs)
initCallFrame(s) ==
    LET c == cf(s)
        lua(p) == initLuaFrame(Padded(s, c, p.np), c.lbase, p, Max({c.nargs, p.np}))
    IN  IF c.fn[1] = "builtin" THEN SetTop(s, c.lbase + c.nargs) ELSE lua(ProtoOf(s, c.fn))
pushCallFrame(s, c, lv, meta) ==
    LET t == IF meta THEN Insert(s, lv, c.lbase) ELSE s
    IN  IF c.fn = Nil THEN RaiseError(s)
        ELSE initCallFrame([t EXCEPT !.fr = Append(@, IF meta THEN [c EXCEPT !.nargs = @ + 1] ELSE c)])

(***************************************************************************)
(* What the Go code does with the result v of the call or lookup it made.   *)
(***************************************************************************)
RECURSIVE Deliver(_, _, _), Concat(_, _, _, _, _, _), CloseNext(_, _, _), callR(_, _, _, _, _),
          getField(_, _, _, _, _), setField(_, _, _, _, _), FinishG(_, _, _)

NextPc(s, by) == [s EXCEPT !.fr[Len(s.fr)].pc = @ + by]
InTo(dst) == [k |-> "set", dst |-> dst]
Test(a, neg) == [k |-> "test", a |-> a, neg |-> neg]
Deliver(s, v, c) ==
    CASE s.st # "run" \/ c.k \in {"none", "drop"} -> s
      [] s.st = "run" /\ c.k = "set" -> Set(s, c.dst, v)
      [] s.st = "run" /\ c.k = "self" -> Set(Set(s, c.dst, v), c.dst + 1, c.obj)
      [] s.st = "run" /\ c.k = "test" ->
           IF (IF LVAsBool(v) # c.neg THEN 0 ELSE 1) = c.a THEN NextPc(s, 1) ELSE s
      [] s.st = "run" /\ c.k = "concat" -> Concat(s, v, c.i, c.total, c.dst, FALSE)
      [] s.st = "run" /\ c.k = "pcall" ->       \* the protected call returned: true, then its results
           FinishG(Insert(s, Bool(TRUE), cf(s).lbase), s.top + 1 - cf(s).lbase, c.tail)
      [] s.st = "run" /\ c.k = "close" -> CloseNext(Set(s, c.idx, Nil), c.rest, c.a)
      [] s.st = "run" /\ c.k = "tfor" ->
           LET w == s.reg[c.ra + 3]
               next == Proto(s).code[cf(s).pc + 1].b
           IN  IF w = Nil THEN NextPc(s, 1) ELSE NextPc(Set(s, c.ra + 2, w), next + 1)

(* A frame that the Go code waits for has returned: callR, then L.Call's pop.  *)
Resume(s, c) ==
    LET used == c.cont.k \in {"set", "self", "test", "concat"}      \* the result is popped and used
        answer(t) == Deliver(IF used THEN SetTop(t, t.top - 1) ELSE t, IF used THEN t.reg[t.top - 1] ELSE Nil, c.cont)
    IN  IF c.cont.k = "halt"
        THEN [s EXCEPT !.st = "done", !.log = Append(@, [i \in 1..(s.top - c.ret) |-> s.reg[c.ret + i - 1]])]
        ELSE answer(IF c.nret = MultRet THEN s ELSE SetTop(s, c.ret + c.nret))
Return(s, c) == IF c.cont = NoCont THEN s ELSE Resume(s, c)

(* The frame of a host function ends with n results at the top.  A tail call  *)
(* removes the calling frame and answers that frame's caller.                 *)
FinishG(s, n, tailcall) ==
    LET c == cf(s)
        r == CopyRange(s, c.ret, s.top - n, -1, IF c.nret = MultRet THEN n ELSE c.nret)
    IN  IF s.st # "run" THEN s
        ELSE Return([r EXCEPT !.fr = SubSeq(@, 1, Len(@) - (IF tailcall THEN 2 ELSE 1))], c)
(* The host functions: out records its arguments, setmetatable and pcall are baselib's. *)
Failed == <<Bool(FALSE), Str("error")>>
callGFunction(s, tailcall) ==
    LET c == cf(s)
        arg(i) == IF i <= c.nargs THEN s.reg[c.lbase + i - 1] ELSE Nil
        done == CASE c.fn[2] = "out" -> [s EXCEPT !.log = Append(@, [i \in 1..c.nargs |-> arg(i)])]
                  [] c.fn[2] = "setmetatable" -> IF IsTab(arg(1)) THEN [s EXCEPT !.heap[arg(1)[2]].mt = arg(2)] ELSE RaiseError(s)
                  [] c.fn[2] = "pcall" -> IF c.nargs = 0 THEN RaiseError(s) ELSE s
        results == CASE c.fn[2] = "out" -> <<>>
                     [] c.fn[2] = "setmetatable" -> <<arg(1)>>
                     [] c.fn[2] = "pcall" -> Failed
    IN  IF c.fn[2] = "pcall" /\ metaCall(s, arg(1)).fn # Nil
        THEN callR(s, c.nargs - 1, MultRet, -1, [k |-> "pcall", tail |-> tailcall])
        ELSE FinishG(PushAll(done, results), Len(results), tailcall)
Entered(s) == IF s.st = "run" /\ cf(s).fn[1] = "builtin" THEN callGFunction(s, FALSE) ELSE s
(* The recovery of PCall in the innermost frame of pcall that is under way.     *)
Catchers(s) == {d \in 1..(Len(s.fr) - 1) : s.fr[d].fn = Builtin("pcall")}
RecoverRefunded(s) ==            \* the gas of the failed call is given back
    LET d == Max(Catchers(s))
        t == [s EXCEPT !.fr = SubSeq(@, 1, d), !.st = "run", !.gas = 0]
    IN  FinishG(PushAll(SetTop(t, cf(t).lbase), Failed), 2, s.fr[d + 1].cont.tail)
Recover(s) ==
    LET d == Max(Catchers(s))
        t == [s EXCEPT !.fr = SubSeq(@, 1, d), !.st = "run"]
    IN  FinishG(PushAll(SetTop(t, cf(t).lbase), Failed), 2, s.fr[d + 1].cont.tail)

callR(s, nargs, nret, rbase, cont) ==
    LET base == s.top - nargs - 1
        lv == s.reg[base]
        push(m) == pushCallFrame(s, callFrame(m.fn, base, IF rbase < 0 THEN base ELSE rbase, nargs, nret, cont), lv, m.meta)
    IN  IF s.st # "run" THEN s ELSE Entered(push(metaCall(s, lv)))
CallMeta(s, fn, args, nret, cont) == callR(PushAll(s, <<fn>> \o args), Len(args), nret, -1, cont)

(***************************************************************************)
(* Indexing and the operators that metamethods extend.                      *)
(***************************************************************************)
getField(s, obj, key, cont, i) ==
    LET raw == RawGet(s, obj, key)
        h == metaOp1(s, obj, "__index")
    IN  IF i = MaxTableGetLoop \/ (~IsTab(obj) /\ h = Nil) THEN IF obj = GoNil THEN Panic(s) ELSE RaiseError(s)
        ELSE IF IsTab(obj) /\ (raw # Nil \/ h = Nil) THEN Deliver(s, raw, cont)
        ELSE IF IsFun(h) THEN CallMeta(s, h, <<obj, key>>, 1, cont)
        ELSE getField(s, h, key, cont, i + 1)
setField(s, obj, key, v, i) ==
    LET h == metaOp1(s, obj, "__newindex")
    IN  IF i = MaxTableGetLoop \/ (~IsTab(obj) /\ h = Nil) THEN IF obj = GoNil THEN Panic(s) ELSE RaiseError(s)
        ELSE IF IsTab(obj) /\ (h = Nil \/ RawGet(s, obj, key) # Nil) THEN RawSet(s, obj, key, v)
        ELSE IF IsFun(h) THEN CallMeta(s, h, <<obj, key, v>>, 0, [k |-> "drop"])
        ELSE setField(s, h, key, v, i + 1)

parseNumber(v) == IF v[1] = "str" /\ \E n \in 0..(Modulus - 1) : ToString(n) = v[2]
                  THEN Num(CHOOSE n \in 0..(Modulus - 1) : ToString(n) = v[2]) ELSE v
EventOf == [o \in ArithOps |-> CASE o = "+" -> "__add" [] o = "-" -> "__sub" [] o = "*" -> "__mul"
                                 [] o = "//" -> "__idiv" [] o = "%" -> "__mod"]
opArithOn(s, op, l, r, dst) ==
    LET h == IF IsNum(l) /\ IsNum(r) THEN Nil ELSE metaOp2(s, l, r, EventOf[op])
        x == parseNumber(l)
        y == parseNumber(r)
    IN  IF GoNil \in {l, r} THEN Panic(s)
        ELSE IF IsFun(h) THEN CallMeta(s, h, <<l, r>>, 1, InTo(dst))
        ELSE IF IsNum(x) /\ IsNum(y) /\ ~(op \in DivOps /\ y[2] = 0)
             THEN Set(s, dst, Num(numberArith(op, x[2], y[2])))
        ELSE RaiseError(s)

Concat(s, rhs, i, total, dst, joining) ==
    LET lhs == s.reg[i]
        h == metaOp2(s, lhs, rhs, "__concat")
        t == chargeGas(s, 1)
    IN  CASE total = 0 -> Deliver(s, rhs, InTo(dst))
          [] total > 0 /\ LVCanConvToString(lhs) /\ LVCanConvToString(rhs) ->
               Concat(t, Str(LVAsString(lhs) \o LVAsString(rhs)), i - 1, total - 1, dst, TRUE)
          [] OTHER ->
               IF IsFun(h) THEN CallMeta(IF joining THEN t ELSE s, h, <<lhs, rhs>>, 1,
                                         [k |-> "concat", i |-> i - 1, total |-> total - 1, dst |-> dst])
               ELSE IF GoNil \in {lhs, rhs} THEN Panic(s) ELSE RaiseError(s)

(* objectRational: the comparison's own handler, or none.                     *)
Rational(s, l, r, event) ==
    LET m == metaOp1(s, l, event)
        w == metaOp1(s, r, event)
    IN  CASE event = "__eq" -> IF IsFun(m) THEN m ELSE IF IsFun(w) THEN w ELSE Nil
          [] OTHER -> IF IsFun(m) /\ m = w THEN m ELSE Nil
Mixed(s, l, r, event) ==
    IF IsFun(metaOp1(s, l, event)) THEN metaOp1(s, l, event)
    ELSE IF IsFun(metaOp1(s, r, event)) THEN metaOp1(s, r, event) ELSE Nil
Handler(s, l, r, event) == IF l[1] # r[1] THEN Mixed(s, l, r, event) ELSE Rational(s, l, r, event)
StrOrder == <<"", "a", "b", "c">>    \* the strings that programs compare
strCmp(a, b) == Index(StrOrder, a) - Index(StrOrder, b)
Compare(s, l, r, event, a) ==       \* lessThan and OP_LE
    LET h == Handler(s, l, r, event)
        lt == IF l[1] = r[1] THEN Rational(s, r, l, "__lt") ELSE Nil
        less == CASE IsNum(l) -> l[2] - r[2] [] OTHER -> strCmp(l[2], r[2])
    IN  IF GoNil \in {l, r} THEN Panic(s)
        ELSE IF l[1] = r[1] /\ l[1] \in {"num", "str"}
             THEN Deliver(s, Bool(less < 0 \/ (event = "__le" /\ less = 0)), Test(a, FALSE))
        ELSE IF IsFun(h) THEN CallMeta(s, h, <<l, r>>, 1, Test(a, FALSE))
        ELSE IF event = "__le" /\ IsFun(lt) THEN CallMeta(s, lt, <<r, l>>, 1, Test(a, TRUE))
        ELSE RaiseError(s)
equals(s, l, r, a) ==
    LET h == Rational(s, l, r, "__eq")
    IN  IF GoNil \in {l, r} THEN Panic(s)
        ELSE IF IsTab(l) /\ IsTab(r) /\ l # r /\ IsFun(h) THEN CallMeta(s, h, <<l, r>>, 1, Test(a, FALSE))
        ELSE Deliver(s, Bool(l = r), Test(a, FALSE))

(* closeToBeClosedVars: the open <close> locals from register a on, last first. *)
ToBeClosed(s, a) ==
    LET pc == cf(s).pc - 1
        d == SelectSeq(Proto(s).dbg, LAMBDA x : x.attr = "close" /\ x.reg >= a /\ cf(s).lbase + x.reg < s.top
                                                /\ x.start <= pc /\ pc <= x.end)
    IN  SortSeq([i \in DOMAIN d |-> d[i].reg], LAMBDA x, y : x > y)
CloseNext(s, regs, a) ==
    LET idx == cf(s).lbase + Head(regs)
        v == s.reg[idx]
        h == metaOp1(s, v, "__close")
    IN  CASE regs = <<>> -> closeUpvalues(s, cf(s).lbase + a)
          [] regs # <<>> /\ v \in {Nil, Bool(FALSE)} -> CloseNext(s, Tail(regs), a)
          [] OTHER -> IF ~IsFun(h) THEN RaiseError(s)
                      ELSE CallMeta(s, h, <<v, Nil>>, 0, [k |-> "close", rest |-> Tail(regs), a |-> a, idx |-> idx])

(***************************************************************************)
(* The instructions.  s is the machine after the fetch, i the instruction.  *)
(***************************************************************************)
R(s, x) == s.reg[cf(s).lbase + x]
K(s, x) == Proto(s).consts[x + 1]
rkValue(s, x) == IF opIsK(x) THEN K(s, x - RK) ELSE R(s, x)
RA(s, i) == cf(s).lbase + i.a
Globals == Tab(1)

Move(s, i) == Set(s, RA(s, i), R(s, i.b))
MoveN(s, i) ==
    LET rest == SubSeq(Proto(s).code, cf(s).pc + 1, cf(s).pc + i.c)
    IN  NextPc(FoldLeft(Move, Move(s, i), rest), i.c)
LoadNil(s, i) ==
    LET n == i.b - i.a + 1
        g == IF n > 1 THEN chargeGas(s, n) ELSE s
    IN  IF g.st = "run" THEN FoldLeft(LAMBDA t, x : Set(t, RA(s, i) + x - 1, Nil), g, [j \in 1..n |-> j]) ELSE g
LoadBool(s, i) == NextPc(Set(s, RA(s, i), Bool(i.b # 0)), IF i.c # 0 THEN 1 ELSE 0)
GetUpval(s, i) == LET u == s.up[Upvalue(s, i.b)]
                  IN  Set(s, RA(s, i), IF u.open THEN s.reg[u.i] ELSE u.v)
SetUpval(s, i) == LET u == Upvalue(s, i.b)
                  IN  IF s.up[u].open THEN Set(s, s.up[u].i, s.reg[RA(s, i)])
                                      ELSE [s EXCEPT !.up[u].v = s.reg[RA(s, i)]]
Not(s, i) == Set(s, RA(s, i), Bool(~LVAsBool(R(s, i.b))))
Unm(s, i) ==
    LET v == rkValue(s, i.b)
        h == metaOp1(s, v, "__unm")
    IN  IF IsNum(v) THEN Set(s, RA(s, i), Num((0 - v[2]) % Modulus))
        ELSE IF v = GoNil THEN Panic(s)
        ELSE IF IsFun(h) THEN CallMeta(s, h, <<v, v>>, 1, InTo(RA(s, i)))
        ELSE RaiseError(s)
Length(s, i) ==
    LET v == rkValue(s, i.b)
        h == metaOp1(s, v, "__len")
        g == chargeGas(s, LenCost(s, v))
    IN  IF v[1] = "str" THEN Set(s, RA(s, i), Num(Len(v[2])))
        ELSE IF v = GoNil THEN Panic(s)
        ELSE IF IsFun(h) THEN CallMeta(s, h, <<v, v>>, 1, InTo(RA(s, i)))
        ELSE IF ~IsTab(v) THEN RaiseError(s)
        ELSE IF g.st = "run" THEN Set(g, RA(s, i), Num(RawLen(s, v))) ELSE g
TestOp(s, i) == IF LVAsBool(s.reg[RA(s, i)]) = (i.c = 0) THEN NextPc(s, 1) ELSE s
TestSet(s, i) == LET v == R(s, i.b)
                 IN  IF LVAsBool(v) # (i.c = 0) THEN Set(s, RA(s, i), v) ELSE NextPc(s, 1)

Call(s, i) ==
    LET lv == s.reg[RA(s, i)]
        nargs == IF i.b = 0 THEN s.top - (RA(s, i) + 1) ELSE i.b - 1
        push(m) == pushCallFrame(s, callFrame(m.fn, RA(s, i), RA(s, i), nargs, i.c - 1, NoCont), lv, m.meta)
    IN  IF lv = GoNil THEN Panic(s) ELSE Entered(push(metaCall(s, lv)))
TailCall(s0, i) ==
    LET c == cf(s0)
        ra == RA(s0, i)
        lv == s0.reg[ra]
        nargs == IF i.b = 0 THEN s0.top - (ra + 1) ELSE i.b - 1
        m == metaCall(s0, lv)
        s == closeUpvalues(s0, c.lbase)
        g == pushCallFrame(s, callFrame(m.fn, ra, c.ret, nargs, c.nret, c.cont), lv, m.meta)
        new == callFrame(m.fn, ra, c.ret, IF m.meta THEN nargs + 1 ELSE nargs, c.nret, c.cont)
        t == initCallFrame([IF m.meta THEN Insert(s, lv, ra + 1) ELSE s EXCEPT !.fr[Len(s.fr)] = new])
        u == CopyRange(t, c.base, ra, -1, t.top - ra - 1)
    IN  CASE lv = GoNil -> Panic(s0)
          [] lv # GoNil /\ m.fn = Nil -> RaiseError(s0)
          [] m.fn[1] = "builtin" -> callGFunction(g, TRUE)
          [] m.fn[1] = "fun" ->
               [u EXCEPT !.fr[Len(s.fr)].base = c.base, !.fr[Len(s.fr)].lbase = c.base + (@ - (ra + 1) + 1)]
ReturnOp(s0, i) ==
    LET c == cf(s0)
        s == closeUpvalues(s0, c.lbase)
        nret == IF i.b = 0 THEN s.top - RA(s, i) ELSE i.b - 1
        n == IF c.nret = MultRet THEN nret ELSE c.nret
    IN  Return(copyReturnValues([s EXCEPT !.fr = Front(@)], c.ret, RA(s, i), n, i.b), c)

ForPrep(s, i) ==
    LET init == s.reg[RA(s, i)]
        step == s.reg[RA(s, i) + 2]
    IN  IF ~IsNum(init) \/ ~IsNum(step) THEN RaiseError(s)
        ELSE NextPc(Set(s, RA(s, i), Num((init[2] - step[2]) % Modulus)), i.b)
ForLoop(s, i) ==
    LET ra == RA(s, i)
        init == s.reg[ra]
        limit == s.reg[ra + 1]
        step == s.reg[ra + 2]
        v == (init[2] + step[2]) % Modulus
        t == Set(s, ra, Num(v))
        goes == IF lu256IsNeg(step[2]) THEN lu256SCmp(v, limit[2]) >= 0 ELSE v <= limit[2]
    IN  CASE ~(IsNum(init) /\ IsNum(limit) /\ IsNum(step)) -> RaiseError(s)
          [] IsNum(init) /\ IsNum(limit) /\ IsNum(step) ->
               IF goes THEN NextPc(Set(t, ra + 3, Num(v)), i.b) ELSE SetTop(t, ra + 1)
TForLoop(s, i) ==
    LET ra == RA(s, i)
        t == SetTop(s, ra + 5)
        u == Set(Set(Set(t, ra + 5, t.reg[ra + 2]), ra + 4, t.reg[ra + 1]), ra + 3, t.reg[ra])
    IN  callR(u, 2, i.c, ra + 3, [k |-> "tfor", ra |-> ra])
SetList(s, i) ==
    LET t == IF i.c = 0 THEN NextPc(s, 1) ELSE s
        c == IF i.c = 0 THEN Proto(s).code[cf(s).pc + 1].a ELSE i.c
        n == IF i.b = 0 THEN s.top - RA(s, i) - 1 ELSE i.b
        item(j) == s.reg[RA(s, i) + j]
        put(u, j) == LET g == chargeGas(u, 1)
                     IN  IF g.st = "run" THEN RawSet(g, s.reg[RA(s, i)], Num((c - 1) * FieldsPerFlush + j), item(j)) ELSE g
    IN  FoldLeft(put, t, [j \in 1..n |-> j])
Closure(s, i) ==
    LET path == Append(s.cl[cf(s).fn[2]].path, i.b + 1)
        lb == cf(s).lbase
        n == Len(Proto(s).fns[i.b + 1].ups)
        from == SubSeq(Proto(s).code, cf(s).pc + 1, cf(s).pc + n)
        t == FoldLeft(LAMBDA u, x : IF x.op = "MOVE" THEN findUpvalue(u, lb + x.b) ELSE u, s, from)
        cell(x) == IF x.op = "MOVE" THEN CHOOSE u \in OpenAt(t, lb + x.b) : TRUE ELSE Upvalue(s, x.b)
        new == [path |-> path, ups |-> [j \in 1..n |-> cell(from[j])]]
    IN  NextPc(Set([t EXCEPT !.cl = Append(@, new)], RA(s, i), Fn(Len(s.cl) + 1)), n)
VarArg(s, i) ==
    LET c == cf(s)
        np == Proto(s).np
        have == IF c.nargs > np THEN c.nargs - np ELSE 0
        n == IF i.b = 0 THEN have ELSE i.b - 1
        g == chargeGas(s, n)
    IN  IF g.st = "run" THEN CopyRange(g, RA(s, i), c.base + np + 1, c.lbase, n) ELSE g

(***************************************************************************)
(* mainLoop: fetch, charge, execute.                                        *)
(***************************************************************************)
Boot(p, limit) ==
    LET main == Compile(Programs[p])
        s == [prog |-> p, proto |-> main, limit |-> limit, reg |-> [i \in 0..(RegistrySize - 1) |-> GoNil], top |-> 1, fr |-> <<>>,
              heap |-> <<[m |-> [x \in {Str("out"), Str("setmetatable"), Str("pcall")} |-> Builtin(x[2])], mt |-> Nil]>>,
              cl |-> <<[path |-> <<>>, ups |-> <<>>]>>, up |-> <<>>, log |-> <<>>, gas |-> 0, st |-> "run"]
    IN  IF main.err THEN [s EXCEPT !.st = "rejected"]
        ELSE pushCallFrame([s EXCEPT !.reg[0] = Fn(1)], callFrame(Fn(1), 0, 0, 0, MultRet, [k |-> "halt"]), Nil, FALSE)
VMInit == \E p \in DOMAIN Programs : \E limit \in GasLimits[p] : vm = Boot(p, limit)

Running == vm.st = "run"
Inst == Proto(vm).code[cf(vm).pc + 1]
Fetched == chargeGas(NextPc(vm, 1), 1)
Step(ops, do(_, _)) == /\ Running
                       /\ Inst.op \in ops
                       /\ vm' = IF Fetched.st = "run" THEN do(Fetched, Inst) ELSE Fetched

OpMove == Step({"MOVE"}, Move) \/ Step({"MOVEN"}, MoveN)
OpLoad == \/ Step({"LOADK"}, LAMBDA s, i : Set(s, RA(s, i), K(s, i.b)))
          \/ Step({"LOADBOOL"}, LoadBool)
          \/ Step({"LOADNIL"}, LoadNil)
OpUpvalue == Step({"GETUPVAL"}, GetUpval) \/ Step({"SETUPVAL"}, SetUpval)
OpGlobal == \/ Step({"GETGLOBAL"}, LAMBDA s, i : getField(s, Globals, K(s, i.b), InTo(RA(s, i)), 0))
            \/ Step({"SETGLOBAL"}, LAMBDA s, i : setField(s, Globals, K(s, i.b), s.reg[RA(s, i)], 0))
OpTable == \/ Step({"GETTABLE", "GETTABLEKS"},
                   LAMBDA s, i : getField(s, R(s, i.b), rkValue(s, i.c), InTo(RA(s, i)), 0))
           \/ Step({"SETTABLE", "SETTABLEKS"},
                   LAMBDA s, i : setField(s, R(s, i.a), rkValue(s, i.b), rkValue(s, i.c), 0))
           \/ Step({"NEWTABLE"}, LAMBDA s, i : Set(NewTable(s, EmptyMap), RA(s, i), Tab(Len(s.heap) + 1)))
           \/ Step({"SETLIST"}, SetList)
           \/ Step({"SELF"}, LAMBDA s, i : getField(s, R(s, i.b), rkValue(s, i.c),
                                [k |-> "self", dst |-> RA(s, i), obj |-> R(s, i.b)], 0))
OpOperator == \/ Step(ArithOps, LAMBDA s, i : opArithOn(s, i.op, rkValue(s, i.b), rkValue(s, i.c), RA(s, i)))
              \/ Step({"UNM"}, Unm)
              \/ Step({"NOT"}, Not)
              \/ Step({"LEN"}, Length)
              \/ Step({"CONCAT"}, LAMBDA s, i : Concat(s, R(s, i.c), cf(s).lbase + i.c - 1, i.c - i.b, RA(s, i), FALSE))
OpBranch == \/ Step({"JMP"}, LAMBDA s, i : NextPc(s, i.b))
            \/ Step({"NOP"}, LAMBDA s, i : s)
            \/ Step({"EQ"}, LAMBDA s, i : equals(s, rkValue(s, i.b), rkValue(s, i.c), i.a))
            \/ Step({"LT"}, LAMBDA s, i : Compare(s, rkValue(s, i.b), rkValue(s, i.c), "__lt", i.a))
            \/ Step({"LE"}, LAMBDA s, i : Compare(s, rkValue(s, i.b), rkValue(s, i.c), "__le", i.a))
            \/ Step({"TEST"}, TestOp)
            \/ Step({"TESTSET"}, TestSet)
OpCall == Step({"CALL"}, Call) \/ Step({"TAILCALL"}, TailCall) \/ Step({"RETURN"}, ReturnOp)
OpFor == Step({"FORPREP"}, ForPrep) \/ Step({"FORLOOP"}, ForLoop) \/ Step({"TFORLOOP"}, TForLoop)
OpClosure == Step({"CLOSURE"}, Closure) \/ Step({"VARARG"}, VarArg)
             \/ Step({"CLOSE"}, LAMBDA s, i : CloseNext(s, ToBeClosed(s, i.a), i.a))

(* An error, a Go panic too, unwinds to the innermost pcall.                  *)
PCallRecovers == vm.st \in {"error", "panic", "gas"} /\ Catchers(vm) # {} /\ vm' = Recover(vm)

VMNext == PCallRecovers \/ OpMove \/ OpLoad \/ OpUpvalue \/ OpGlobal \/ OpTable \/ OpOperator \/ OpBranch \/ OpCall \/ OpFor
          \/ OpClosure
=============================================================================
