----------------------------- MODULE LuaCompiler -----------------------------
(***************************************************************************)
(* The compiler from Lua syntax trees to register code (compile.go).  Every *)
(* operator named compile... is the Go function of that name: it takes the  *)
(* function context f (funcContext) and returns the context after it, with  *)
(* the number of registers it used where the Go function returns one.       *)
(*                                                                          *)
(* A syntax tree is a record whose field k is the Go node type; a list of   *)
(* statements is a sequence.  An instruction is a record of its opcode and  *)
(* operands; a jump's operand is a label until patchCode replaces it by a   *)
(* distance.  Positions in the code and registers are counted from 0.       *)
(***************************************************************************)
EXTENDS LuaValues

CONSTANTS MaxIndexRk,      \* largest index of a constant used as an operand (opMaxIndexRk)
          FieldsPerFlush,  \* list items stored by one SETLIST
          MaxArgC          \* largest batch number that fits SETLIST's third operand

maxRegisters == 200
RK == 1000                 \* operands from here on are constants (opRkAsk)
NoReg == 256               \* regNotDefined
opIsK(x) == x >= RK
I(op, a, b, c) == [op |-> op, a |-> a, b |-> b, c |-> c]

(***************************************************************************)
(* expcontext: where the value goes and how many results are wanted.        *)
(***************************************************************************)
ec(t, reg, va) == [t |-> t, reg |-> reg, va |-> va]
ecnone(va) == ec("none", NoReg, va)
savereg(e, reg) == IF e.t # "local" \/ e.reg = NoReg THEN reg ELSE e.reg
shouldmove(e, reg) == e.t = "local" /\ e.reg # NoReg /\ e.reg # reg
isVarArgReturnExpr(x) == x.k \in {"call", "dots"} /\ ~x.adj

(***************************************************************************)
(* codeStore.                                                               *)
(***************************************************************************)
LastPC(f) == Len(f.code) - 1
LastInst(f) == IF f.code = <<>> THEN I("none", -1, -1, -1) ELSE Last(f.code)
Add(f, op, a, b, c) == [f EXCEPT !.code = Append(@, I(op, a, b, c)),
                                 !.barrier = @ \/ op = "JMP"]
Pop(f) == [f EXCEPT !.code = Front(@)]
SetA(f, pc, v) == [f EXCEPT !.code[pc + 1].a = v]
SetB(f, pc, v) == [f EXCEPT !.code[pc + 1].b = v]
SetOpCode(f, pc, op) == [f EXCEPT !.code[pc + 1].op = op]
Jump(f, label) == Add(f, "JMP", 0, label, 0)

AddLoadNil(f, a, b) ==
    LET i == LastInst(f)
        g == IF ~f.barrier /\ i.op = "LOADNIL" /\ i.b + 1 = a
             THEN SetB(f, LastPC(f), b) ELSE Add(f, "LOADNIL", a, b, 0)
    IN  [g EXCEPT !.barrier = FALSE]

(* PropagateKMV and PropagateMV: the operand of an instruction takes the     *)
(* place of the MOVE, or the LOADK when k, that would have fetched it.       *)
Propagate(f, reg, inc, k) ==
    LET i == LastInst(f) IN
    IF i.a >= f.top /\ (i.op = "MOVE" \/ (k /\ i.op = "LOADK" /\ i.b <= MaxIndexRk))
    THEN [f |-> Pop(f), reg |-> reg, save |-> IF i.op = "MOVE" THEN i.b ELSE RK + i.b]
    ELSE [f |-> f, reg |-> reg + inc, save |-> reg]

(***************************************************************************)
(* funcContext: labels, constants, blocks and local variables.              *)
(***************************************************************************)
NewLabel(f) == [f EXCEPT !.lab = Append(@, 0)]
label(f) == Len(f.lab)                              \* the label just made
SetLabelPc(f, l) == [f EXCEPT !.lab[l] = LastPC(f)]
Index(s, v) == IF Contains(s, v) THEN (CHOOSE i \in DOMAIN s : s[i] = v) - 1 ELSE Len(s)
Unique(s, v) == IF Contains(s, v) THEN s ELSE Append(s, v)
ConstIndex(f, v) == Index(f.consts, v)
AddConst(f, v) == [f EXCEPT !.consts = Unique(@, v)]
RegisterUpvalue(f, n) == [f EXCEPT !.ups = Unique(@, n)]
raiseCompileError(f) == [f EXCEPT !.err = TRUE]

newCodeBlock(off, brk, first) ==
    [names |-> <<>>, attrs |-> <<>>, off |-> off, brk |-> brk, ref |-> FALSE, labels |-> <<>>,
     first |-> first]
newFuncContext(scopes) ==
    [code |-> <<>>, lab |-> <<>>, top |-> 0, blk |-> <<newCodeBlock(0, 0, 1)>>, ups |-> <<>>,
     np |-> 0, vararg |-> FALSE, needsarg |-> FALSE, fns |-> <<>>, consts |-> <<>>,
     gotos |-> <<>>, dbg |-> <<>>, barrier |-> FALSE, err |-> FALSE, scopes |-> scopes]

block(f) == Last(f.blk)
LastIndexInBlock(b) == Len(b.names)        \* the offset of the block is forgotten
LastIndex(b) == b.off + Len(b.names)
LocalVarsCount(blocks) == FoldLeft(LAMBDA n, b : n + Len(b.names), 0, blocks)
HasToBeClosed(b) == Contains(b.attrs, "close")
SetRegTop(f, top) == [f EXCEPT !.top = top, !.err = @ \/ top > maxRegisters]

RegisterLocalVarWithAttr(f, n, attr) ==
    LET d == Len(f.blk)
        g == [f EXCEPT !.blk[d].names = Append(@, n), !.blk[d].attrs = Append(@, attr),
                       !.dbg = Append(@, [n |-> n, reg |-> LastIndex(block(f)), attr |-> attr,
                                          start |-> LastPC(f) + 1, end |-> 0])]
    IN  SetRegTop(g, f.top + 1)
RegisterLocalVar(f, n) == RegisterLocalVarWithAttr(f, n, "none")
RegisterAll(f, names) == FoldLeft(RegisterLocalVar, f, names)

(* FindLocalVarAndBlock: the block a name is found in (0 if none), and its register. *)
FindBlock(f, n) == LET B == {d \in DOMAIN f.blk : Contains(f.blk[d].names, n)}
                   IN  IF B = {} THEN 0 ELSE CHOOSE d \in B : \A x \in B : x <= d
FindLocalVar(f, n) ==
    LET d == FindBlock(f, n)
        b == f.blk[d]
        I_ == {i \in DOMAIN b.names : b.names[i] = n}
    IN  IF d = 0 THEN -1 ELSE b.off + (CHOOSE i \in I_ : \A j \in I_ : j <= i) - 1
Visible(f) == UNION {Range(f.blk[d].names) : d \in DOMAIN f.blk}
getIdentRefType(f, n) == CASE FindLocalVar(f, n) > -1 -> "local"
                           [] n \in UNION Range(f.scopes) -> "upvalue"
                           [] OTHER -> "global"

EnterBlock(f, brk) == [f EXCEPT !.blk = Append(@, newCodeBlock(f.top, brk, Len(f.gotos) + 1))]
Parent(f) == f.blk[Len(f.blk) - 1]
CapturedForClose(b) == HasToBeClosed(b)    \* a block with captured locals only is not closed
Captured(b) == b.ref \/ HasToBeClosed(b)
CloseUpvalues(f) == IF Captured(block(f)) THEN Add(f, "CLOSE", LastIndex(Parent(f)), 0, 0) ELSE f
(* EndScope: the last entry of each local that has no end yet.               *)
EndScope(f) ==
    LET regs == LET b == block(f) IN b.off..(LastIndex(b) - 1)
        open(i) == f.dbg[i].reg \in regs /\ f.dbg[i].end = 0
        last(i) == open(i) /\ ~\E j \in (i + 1)..Len(f.dbg) : open(j) /\ f.dbg[j].reg = f.dbg[i].reg
    IN  [f EXCEPT !.dbg = FoldLeftDomain(LAMBDA d, i : IF last(i) THEN [d EXCEPT ![i].end = LastPC(f)] ELSE d, @, @)]

(***************************************************************************)
(* Gotos.  A goto is resolved in the block of its label; until then it is   *)
(* passed on to the enclosing block each time a block ends.                 *)
(***************************************************************************)
Resolve(f, i, l) ==
    LET g == IF f.gotos[i].n < l.n THEN raiseCompileError(f) ELSE f
    IN  [SetB(g, f.gotos[i].pc, l.id) EXCEPT !.gotos[i].open = FALSE]
FindLabel(f, b, i) ==
    LET L == {l \in Range(b.labels) : l.name = f.gotos[i].name}
        l == CHOOSE x \in L : TRUE
        g == IF f.gotos[i].n > l.n /\ Captured(b) THEN SetA(f, f.gotos[i].pc - 1, l.n) ELSE f
    IN  IF L = {} THEN f ELSE Resolve(g, i, l)
OpenGotos(f) == SelectSeq([i \in DOMAIN f.gotos |-> i],
                          LAMBDA i : f.gotos[i].open /\ i >= block(f).first)
ResolveCurrentBlockGotosWithParentBlock(f) ==
    LET active == LocalVarsCount(Front(f.blk))
        pass(g, i) ==
            LET leaves == g.gotos[i].n > active
                h == IF leaves /\ Captured(block(g)) THEN SetA(g, g.gotos[i].pc - 1, active) ELSE g
            IN  FindLabel(IF leaves THEN [h EXCEPT !.gotos[i].n = active] ELSE h, Parent(g), i)
    IN  FoldLeft(pass, f, OpenGotos(f))
LeaveBlock(f) ==
    LET g == ResolveCurrentBlockGotosWithParentBlock(EndScope(CloseUpvalues(f)))
    IN  SetRegTop([g EXCEPT !.blk = Front(@)], LastIndex(Parent(g)))

compileLabelStmt(f0, st, isLast) ==
    LET f == SetLabelPc(NewLabel(f0), label(NewLabel(f0)))
        n == LocalVarsCount(IF isLast THEN Front(f.blk) ELSE f.blk)
        l == [name |-> st.n, id |-> label(f), n |-> n]
        g == [f EXCEPT !.err = @ \/ \E x \in Range(block(f).labels) : x.name = st.n,
                       !.blk[Len(f.blk)].labels = Append(@, l)]
        same(h, i) == IF h.gotos[i].name = st.n THEN Resolve(h, i, l) ELSE h
    IN  FoldLeft(same, g, OpenGotos(g))

compileGotoStmt(f, st) ==
    LET g == Jump(Add(f, "CLOSE", 0, 0, 0), 0)
        h == [g EXCEPT !.gotos = Append(@, [name |-> st.n, pc |-> LastPC(g), open |-> TRUE,
                                            n |-> LocalVarsCount(g.blk)])]
    IN  FindLabel(h, block(h), Len(h.gotos))

(***************************************************************************)
(* Expressions.  compileExpr returns the context and the number of          *)
(* registers the value takes.                                               *)
(***************************************************************************)
RECURSIVE compileExpr(_, _, _, _), compileStmt(_, _, _), compileBranchCondition(_, _, _, _, _, _),
          compileLogicalOpExprAux(_, _, _, _, _, _, _, _), constFold(_), patchFrom(_, _, _),
          compileFunctionExpr(_, _, _)

LoadK(f, reg, v) == LET g == AddConst(f, v) IN Add(g, "LOADK", reg, ConstIndex(g, v), 0)
loadRk(f, reg, v) ==
    LET g == AddConst(f, v)
        i == ConstIndex(g, v)
    IN  IF i <= MaxIndexRk THEN [f |-> g, reg |-> reg, save |-> RK + i]
                           ELSE [f |-> LoadK(g, reg, v), reg |-> reg + 1, save |-> reg]

compileExprWithPropagation(f, x, reg, k) ==
    LET r == compileExpr(f, reg, x, ecnone(0))
    IN  IF x.k = "logic" THEN [f |-> r.f, reg |-> reg + r.n, save |-> reg]
                         ELSE Propagate(r.f, reg, r.n, k)
compileExprWithKMVPropagation(f, x, reg) == compileExprWithPropagation(f, x, reg, TRUE)
compileExprWithMVPropagation(f, x, reg) == compileExprWithPropagation(f, x, reg, FALSE)

(* Each expression of a list, with one value, in the next register.          *)
compileList(f, xs, reg) ==
    FoldLeft(LAMBDA s, x : LET r == compileExpr(s.f, s.reg, x, ecnone(0))
                           IN  [f |-> r.f, reg |-> s.reg + r.n], [f |-> f, reg |-> reg], xs)
(* The same, but the last may be a call or ... and then gives all its values. *)
compileOpenList(f, xs, reg) ==
    LET open == xs # <<>> /\ isVarArgReturnExpr(Last(xs))
        s == compileList(f, IF open THEN Front(xs) ELSE xs, reg)
    IN  [f |-> IF open THEN compileExpr(s.f, s.reg, Last(xs), ecnone(-2)).f ELSE s.f,
         reg |-> s.reg, open |-> open]

constFold(x) ==
    CASE x.k = "arith" ->
           LET l == constFold(x.l)
               r == constFold(x.r)
           IN  IF l.k = "num" /\ r.k = "num" /\ ~(x.op \in DivOps /\ r.v = 0)
               THEN [k |-> "num", v |-> numberArith(x.op, l.v, r.v)] ELSE x
      [] x.k = "un" /\ x.op = "-" -> [x EXCEPT !.e = constFold(x.e)]
      [] OTHER -> x

(* Two operands, each taken from where it already is when it can be.         *)
Operands(f, reg, l, r) ==
    LET p == compileExprWithKMVPropagation(f, l, reg)
        q == compileExprWithKMVPropagation(p.f, r, p.reg)
    IN  [f |-> q.f, b |-> p.save, c |-> q.save]

compileArithmeticOpExpr(f, reg, x, e) ==
    LET y == constFold(x)
        o == Operands(f, reg, x.l, x.r)
    IN  IF y.k = "num" THEN LoadK(f, savereg(e, reg), Num(y.v))
                       ELSE Add(o.f, x.op, savereg(e, reg), o.b, o.c)

RECURSIVE Crange(_), DropConcats(_)
Crange(x) == IF x.k = "concat" THEN 1 + Crange(x.r) ELSE 0
DropConcats(f) == IF LastPC(f) > 0 /\ LastInst(f).op = "CONCAT" THEN DropConcats(Pop(f)) ELSE f
compileStringConcatOpExpr(f, reg, x, e) ==
    Add(DropConcats(compileList(f, <<x.l, x.r>>, reg).f), "CONCAT", savereg(e, reg), reg, reg + Crange(x))

compileUnaryOpExpr(f, reg, x, e) ==
    LET y == constFold(x)
        p == compileExprWithMVPropagation(f, y.e, reg)
        op == CASE x.op = "-" -> "UNM" [] x.op = "not" -> "NOT" [] x.op = "#" -> "LEN"
    IN  IF x.op = "not" /\ x.e.k \in {"true", "false", "nil"}
        THEN Add(f, "LOADBOOL", savereg(e, reg), IF x.e.k = "true" THEN 0 ELSE 1, 0)
        ELSE Add(p.f, op, savereg(e, reg), p.save, 0)

compileRelationalOpExprAux(f, reg, x, flip, lab) ==
    LET o == Operands(f, reg, x.l, x.r)
        i == CASE x.op = "<" -> I("LT", flip, o.b, o.c)  [] x.op = ">" -> I("LT", flip, o.c, o.b)
               [] x.op = "<=" -> I("LE", flip, o.b, o.c) [] x.op = ">=" -> I("LE", flip, o.c, o.b)
               [] x.op = "==" -> I("EQ", flip, o.b, o.c) [] x.op = "~=" -> I("EQ", 1 - flip, o.b, o.c)
    IN  Jump(Add(o.f, i.op, i.a, i.b, i.c), lab)
LoadBools(f, a, lt, lf) ==
    LET g == Add(SetLabelPc(f, lf), "LOADBOOL", a, 0, 1)
    IN  Add(SetLabelPc(g, lt), "LOADBOOL", a, 1, 0)
compileRelationalOpExpr(f0, reg, x, e) ==
    LET f == NewLabel(f0)
        g == Add(compileRelationalOpExprAux(f, reg, x, 1, label(f)), "LOADBOOL", savereg(e, reg), 0, 1)
    IN  Add(SetLabelPc(g, label(f)), "LOADBOOL", savereg(e, reg), 1, 0)

(***************************************************************************)
(* and, or.  lb holds the labels of "load true", "load false" and the end;   *)
(* b says whether the two loads are needed.                                 *)
(***************************************************************************)
NewLabels(f, n) == [f EXCEPT !.lab = @ \o [i \in 1..n |-> 0]]
compileLogicalOpExpr(f0, reg, x, e) ==
    LET f == NewLabels(f0, 4)
        end == Len(f0.lab) + 1
        lb == [t |-> end + 1, f |-> end + 2, e |-> end]
        next == end + 3
        p == IF x.op = "and" THEN compileLogicalOpExprAux(f, reg, x.l, e, next, end, FALSE, lb)
                             ELSE compileLogicalOpExprAux(f, reg, x.l, e, end, next, TRUE, lb)
        q == compileLogicalOpExprAux(SetLabelPc(p.f, next), reg, x.r, e, end, end, FALSE, lb)
        g == IF p.b \/ q.b THEN LoadBools(q.f, savereg(e, reg), lb.t, lb.f) ELSE q.f
        h == IF LastInst(g).op = "JMP" /\ LastInst(g).b = end THEN Pop(g) ELSE g
    IN  SetLabelPc(h, end)

compileLogicalOpExprAux(f, reg, x, e, then, else, next, lb) ==
    LET flip == IF next THEN 1 ELSE 0
        to == IF next THEN then ELSE else
        sreg == savereg(e, reg)
        goes(g, l) == [f |-> Jump(g, l), b |-> FALSE]
        loads(l) == [f |-> Jump(f, l), b |-> TRUE]
        value == compileExpr(f, reg, x, e).f
        isLastAnd == else = lb.e /\ then # else
        isLastOr == then = lb.e /\ next
        testset == LET b == FindLocalVar(f, x.n)
                   IN  Add(f, IF sreg = b THEN "TEST" ELSE "TESTSET", sreg, b, flip)
        last == LET g == compileExpr(f, reg, x, ec(e.t, IF sreg > reg THEN sreg ELSE reg, e.va)).f
                IN  IF LastInst(g).op = "MOVE" /\ LastInst(g).a = reg THEN SetA(g, LastPC(g), sreg)
                    ELSE Add(g, "MOVE", sreg, reg, 0)
        other == LET g == compileExpr(f, reg, x, ecnone(0)).f
                 IN  IF next THEN Add(g, "TESTSET", sreg, reg, flip) ELSE Add(g, "TEST", reg, 0, flip)
    IN  CASE x.k = "false" -> IF else = lb.e THEN loads(lb.f) ELSE goes(f, else)
          [] x.k = "nil" -> IF else = lb.e THEN goes(value, lb.e) ELSE goes(f, else)
          [] x.k = "true" -> IF then = lb.e THEN loads(lb.t) ELSE goes(f, then)
          [] x.k \in {"num", "str"} -> IF then = lb.e THEN goes(value, lb.e) ELSE goes(f, then)
          [] x.k = "logic" ->
               LET g == NewLabel(f)
                   l == label(g)
                   p == IF x.op = "and" THEN compileLogicalOpExprAux(g, reg, x.l, e, l, else, FALSE, lb)
                                        ELSE compileLogicalOpExprAux(g, reg, x.l, e, then, l, TRUE, lb)
                   q == compileLogicalOpExprAux(SetLabelPc(p.f, l), reg, x.r, e, then, else, next, lb)
               IN  [f |-> q.f, b |-> p.b \/ q.b]
          [] x.k = "rel" ->
               LET j == CASE then = else -> lb.t [] then # else /\ then = lb.e -> lb.t
                          [] then # else /\ else = lb.e -> lb.f [] OTHER -> to
               IN  [f |-> compileRelationalOpExprAux(f, reg, x, IF then = else THEN 1 - flip ELSE flip, j),
                    b |-> lb.e \in {then, else}]
          [] OTHER ->
               goes(CASE x.k = "id" /\ (isLastAnd \/ isLastOr) /\ getIdentRefType(f, x.n) = "local" -> testset
                      [] ~next /\ then = else -> last
                      [] OTHER -> other, to)

(***************************************************************************)
(* Tables, functions and calls.                                             *)
(***************************************************************************)
compileTableExpr(f0, reg, x, e) ==
    LET field(s, i) ==
            LET fd == x.fs[i]
                islast == i = Len(x.fs)
                open == islast /\ isVarArgReturnExpr(fd.val)
                r == compileExpr(s.f, s.reg, fd.val, ecnone(IF open THEN -2 ELSE 0))
                key == compileExprWithKMVPropagation(s.f, fd.key[1], s.reg)
                val == compileExprWithKMVPropagation(key.f, fd.val, key.reg)
                op == IF fd.key[1].k = "str" /\ opIsK(key.save) THEN "SETTABLEKS" ELSE "SETTABLE"
                t == IF fd.key = <<>>
                     THEN [f |-> r.f, reg |-> s.reg + r.n, n |-> s.n + (IF open THEN 0 ELSE 1)]
                     ELSE [s EXCEPT !.f = Add(val.f, op, reg, key.save, val.save)]
                flush == t.n % FieldsPerFlush
                num == IF flush = 0 THEN FieldsPerFlush ELSE flush
                batch == IF t.n = 0 THEN 1 ELSE (t.n - 1) \div FieldsPerFlush + 1
                c == IF batch > MaxArgC THEN 0 ELSE batch
                g == Add(t.f, "SETLIST", reg, IF open THEN 0 ELSE num, c)
            IN  IF (t.n # 0 /\ (flush = 0 \/ islast)) \/ (fd.key = <<>> /\ open)
                THEN [f |-> IF c = 0 THEN Add(g, "RAW", c, 0, 0) ELSE g, reg |-> reg + 1, n |-> t.n]
                ELSE t
        g == FoldLeftDomain(field, [f |-> Add(f0, "NEWTABLE", reg, 0, 0), reg |-> reg + 1, n |-> 0], x.fs).f
    IN  IF shouldmove(e, reg) THEN Add(g, "MOVE", e.reg, reg, 0) ELSE g

argsReferenceLocalReg(f, args, reg) ==
    \E i \in DOMAIN args : args[i].k = "id" /\ FindLocalVar(f, args[i].n) = reg

compileFuncCallExpr(f, reg0, x, e) ==
    LET alias == e.t = "local" /\ e.reg = f.np - 1 /\ ~argsReferenceLocalReg(f, x.args, e.reg)
        reg == IF alias THEN e.reg ELSE reg0
        fn == compileExpr(f, reg, x.fn[1], ecnone(0))
        recv == compileExprWithMVPropagation(f, x.o, reg)
        m == loadRk(recv.f, recv.reg, Str(x.m))
        self == LET key == IF m.save = reg + 1 THEN m.reg ELSE m.save
                    g == IF m.save = reg + 1 THEN Add(m.f, "MOVE", key, m.save, 0) ELSE m.f
                    h == IF reg + 1 # recv.save THEN Add(g, "MOVE", reg + 1, recv.save, 0) ELSE g
                IN  IF opIsK(m.save) THEN Add(m.f, "SELF", reg, recv.save, m.save)
                                     ELSE Add(h, "GETTABLE", reg, reg + 1, key)
        head == IF x.fn # <<>> THEN [f |-> fn.f, reg |-> reg + fn.n, argc |-> Len(x.args)]
                ELSE [f |-> self, argc |-> Len(x.args) + 1,
                      reg |-> IF reg + 2 > recv.save + 1 THEN reg + 2 ELSE recv.save + 1]
        s == compileOpenList(head.f, x.args, head.reg)
        g == Add(s.f, "CALL", reg, IF s.open THEN 0 ELSE head.argc + 1, e.va + 2)
    IN  CASE e.va = 0 /\ shouldmove(e, reg) -> [f |-> Add(g, "MOVE", e.reg, reg, 0), n |-> 1]
          [] f.top > reg + 2 + e.va \/ e.va < -1 -> [f |-> g, n |-> 0]
          [] OTHER -> [f |-> g, n |-> e.va + 1]

(* The pseudo-instructions after CLOSURE say where each upvalue comes from.   *)
Capture(f, n) ==
    LET d == FindBlock(f, n)
        g == RegisterUpvalue(f, n)
    IN  IF d > 0 THEN [Add(f, "MOVE", 0, FindLocalVar(f, n), 0) EXCEPT !.blk[d].ref = TRUE]
                 ELSE Add(g, "GETUPVAL", 0, Index(g.ups, n), 0)
compileClosure(f, sreg, x, e) ==
    LET c == compileFunctionExpr(newFuncContext(Append(f.scopes, Visible(f))), x, e)
        g == [f EXCEPT !.fns = Append(@, c), !.err = @ \/ c.err]
    IN  FoldLeft(Capture, Add(g, "CLOSURE", sreg, Len(f.fns), 0), c.ups)

compileExpr(f, reg, x, e) ==
    LET sreg == savereg(e, reg)
        sused == IF sreg < reg THEN 0 ELSE 1
        one(g) == [f |-> g, n |-> sused]
    IN  IF f.err THEN [f |-> f, n |-> 0]           \* raiseCompileError has ended the compilation
        ELSE
        CASE x.k = "str" -> one(LoadK(f, sreg, Str(x.v)))
          [] x.k = "num" -> one(LoadK(f, sreg, Num(x.v)))
          [] x.k = "nil" -> one(AddLoadNil(f, sreg, sreg))
          [] x.k = "false" -> one(Add(f, "LOADBOOL", sreg, 0, 0))
          [] x.k = "true" -> one(Add(f, "LOADBOOL", sreg, 1, 0))
          [] x.k = "id" ->
               one(LET t == getIdentRefType(f, x.n)
                       k == AddConst(f, Str(x.n))
                       u == RegisterUpvalue(f, x.n)
                   IN  CASE t = "global" -> Add(k, "GETGLOBAL", sreg, ConstIndex(k, Str(x.n)), 0)
                         [] t = "upvalue" -> Add(u, "GETUPVAL", sreg, Index(u.ups, x.n), 0)
                         [] t = "local" -> Add(f, "MOVE", sreg, FindLocalVar(f, x.n), 0))
          [] x.k = "dots" ->
               [f |-> Add([f EXCEPT !.err = @ \/ ~f.vararg, !.needsarg = FALSE], "VARARG", sreg, 2 + e.va, 0),
                n |-> IF f.top > sreg + 2 + e.va \/ e.va < -1 THEN 0 ELSE (sreg + 1 + e.va) - reg]
          [] x.k = "attr" ->
               LET b == compileExprWithMVPropagation(f, x.o, reg)
                   c == compileExprWithKMVPropagation(b.f, x.key, b.reg)
                   op == IF x.key.k = "str" /\ opIsK(c.save) THEN "GETTABLEKS" ELSE "GETTABLE"
               IN  one(Add(c.f, op, sreg, b.save, c.save))
          [] x.k = "table" -> [f |-> compileTableExpr(f, reg, x, e), n |-> 1]
          [] x.k = "arith" -> one(compileArithmeticOpExpr(f, reg, x, e))
          [] x.k = "concat" -> one(compileStringConcatOpExpr(f, reg, x, e))
          [] x.k = "un" -> one(compileUnaryOpExpr(f, reg, x, e))
          [] x.k = "rel" -> one(compileRelationalOpExpr(f, reg, x, e))
          [] x.k = "logic" -> one(compileLogicalOpExpr(f, reg, x, e))
          [] x.k = "call" -> compileFuncCallExpr(f, reg, x, e)
          [] x.k = "function" -> one(compileClosure(f, sreg, x, e))

(***************************************************************************)
(* Statements.                                                              *)
(***************************************************************************)
isLastStmt(chunk, i) == \A j \in (i + 1)..Len(chunk) : chunk[j].k = "label"
compileChunk(f, chunk, untilFollows) ==
    FoldLeftDomain(LAMBDA g, i : compileStmt(g, chunk[i], isLastStmt(chunk, i) /\ ~untilFollows), f, chunk)
Scoped(f, chunk, brk) == LeaveBlock(compileChunk(EnterBlock(f, brk), chunk, FALSE))
compileBlock(f, chunk) == IF chunk = <<>> THEN f ELSE Scoped(f, chunk, 0)

compileAssignStmtLeft(f, st) ==
    LET target(s, x) ==
            LET t == getIdentRefType(s.f, x.n)
                r == FindLocalVar(s.f, x.n)
                b == s.f.blk[FindBlock(s.f, x.n)]
                ac(tt, reg, key) == [t |-> tt, reg |-> reg, keyrk |-> key, valuerk |-> 0, needmove |-> FALSE]
                o == compileExprWithKMVPropagation(s.f, x.o, s.reg)
                key == compileExpr(o.f, o.reg, x.key, ecnone(0))
            IN  CASE x.k = "attr" ->
                       [f |-> key.f, reg |-> o.reg + key.n, acs |-> Append(s.acs, ac("table", o.save, o.reg))]
                  [] x.k = "id" /\ t = "global" ->
                       [s EXCEPT !.f = AddConst(@, Str(x.n)), !.acs = Append(@, ac(t, NoReg, 0))]
                  [] x.k = "id" /\ t = "upvalue" ->
                       [s EXCEPT !.f = RegisterUpvalue(@, x.n), !.acs = Append(@, ac(t, NoReg, 0))]
                  [] x.k = "id" /\ t = "local" ->
                       [s EXCEPT !.f.err = @ \/ b.attrs[r - b.off + 1] = "const",
                                 !.acs = Append(@, ac(t, r, 0))]
    IN  FoldLeft(target, [f |-> f, reg |-> f.top, acs |-> <<>>], st.lhs)

compileAssignStmtRight(f, st, reg, acs) ==
    LET n == Len(st.lhs)
        m == Len(st.rhs)
        supplies(s, i) ==           \* the last expression gives the values of all targets left
            LET r == compileExpr(s.f, s.reg, st.rhs[i], ecnone(n - i))
            IN  [f |-> r.f, reg |-> s.reg + r.n, done |-> TRUE,
                 acs |-> [j \in 1..n |-> IF j \in i..(i + r.n - 1)
                            THEN [s.acs[j] EXCEPT !.needmove = TRUE,
                                    !.valuerk = IF s.acs[j].t = "table" THEN s.reg + j - i ELSE @]
                            ELSE s.acs[j]]]
        one(s, i) ==
            LET x == IF i > m THEN [k |-> "nil"] ELSE st.rhs[i]
                ac == s.acs[i]
                e == IF ac.t = "local" /\ n > 1 THEN ecnone(0) ELSE ec(ac.t, ac.reg, 0)
                r == compileExpr(s.f, s.reg, x, e)
                p == IF x.k = "logic" THEN [f |-> r.f, reg |-> s.reg + r.n, save |-> s.reg]
                                      ELSE Propagate(r.f, s.reg, r.n, TRUE)
            IN  IF ac.t = "table" THEN [s EXCEPT !.f = p.f, !.reg = p.reg, !.acs[i].valuerk = p.save]
                ELSE [s EXCEPT !.f = r.f, !.reg = @ + r.n, !.acs[i].needmove = r.n # 0]
        step(s, i) == CASE s.done -> s
                        [] ~s.done /\ i = m /\ isVarArgReturnExpr(st.rhs[i]) -> supplies(s, i)
                        [] OTHER -> one(s, i)
        s == FoldLeftDomain(step, [f |-> f, reg |-> reg, acs |-> acs, done |-> FALSE], st.lhs)
        extra(t, i) == LET r == compileExpr(t.f, t.reg, st.rhs[i], ecnone(IF i = m THEN -1 ELSE 0))
                       IN  [f |-> r.f, reg |-> t.reg + r.n]
        g == FoldLeft(extra, [f |-> s.f, reg |-> s.reg], [i \in 1..(IF m > n THEN m - n ELSE 0) |-> n + i])
    IN  [f |-> g.f, reg |-> s.reg - 1, acs |-> s.acs]

compileAssignStmt(f, st) ==
    LET left == compileAssignStmtLeft(f, st)
        right == compileAssignStmtRight(left.f, st, left.reg, left.acs)
        n == Len(st.lhs)
        store(s, i) ==
            LET ac == right.acs[i]
                x == st.lhs[i]
            IN  CASE ac.t = "local" /\ ~ac.needmove -> s
                  [] ac.t = "local" /\ ac.needmove ->
                       [f |-> Add(s.f, "MOVE", FindLocalVar(s.f, x.n), s.reg, 0), reg |-> s.reg - 1]
                  [] ac.t = "global" ->
                       [f |-> Add(s.f, "SETGLOBAL", s.reg, ConstIndex(s.f, Str(x.n)), 0), reg |-> s.reg - 1]
                  [] ac.t = "upvalue" ->
                       [f |-> Add(s.f, "SETUPVAL", s.reg, Index(s.f.ups, x.n), 0), reg |-> s.reg - 1]
                  [] ac.t = "table" ->
                       [f |-> Add(s.f, "SETTABLE", ac.reg, ac.keyrk, ac.valuerk),
                        reg |-> s.reg - (IF opIsK(ac.valuerk) THEN 0 ELSE 1)]
    IN  FoldLeft(store, [f |-> right.f, reg |-> right.reg], [i \in 1..n |-> n + 1 - i]).f

compileRegAssignment(f, names, exprs, reg, nvars) ==
    LET n == Len(names)
        m == Len(exprs)
        open == m > 0 /\ m <= n /\ isVarArgReturnExpr(exprs[m])
        plain == IF open THEN m - 1 ELSE IF m < n THEN m ELSE n
        one(g, i) == compileExpr(g, reg + i - 1, exprs[i], ec("local", reg + i - 1, 0)).f
        g == FoldLeft(one, f, [i \in 1..plain |-> i])
        extra(s, i) == LET r == compileExpr(s.f, s.reg, exprs[i], ecnone(IF i = m THEN -1 ELSE 0))
                       IN  [f |-> r.f, reg |-> s.reg + r.n]
    IN  CASE open -> compileExpr(g, reg + plain, exprs[m], ec("vararg", reg + plain, nvars - plain - 1)).f
          [] ~open /\ n > m -> AddLoadNil(g, reg + plain, reg + n - 1)
          [] OTHER -> FoldLeft(extra, [f |-> g, reg |-> reg + plain], [i \in 1..(m - n) |-> n + i]).f

compileLocalAssignStmt(f, st) ==
    LET register(g) == FoldLeftDomain(LAMBDA h, i : RegisterLocalVarWithAttr(h, st.names[i], st.attrs[i]),
                                      g, st.names)
        assign(g) == compileRegAssignment(g, st.names, st.exprs, f.top, Len(st.names))
        recursive == Len(st.names) = 1 /\ Len(st.exprs) = 1 /\ st.exprs[1].k = "function"
    IN  IF recursive THEN assign(register(f)) ELSE register(assign(f))

compileReturnStmt(f, st) ==
    LET reg == f.top
        x == st.exprs[1]
        call == compileExpr(f, reg, x, ecnone(IF x.adj THEN 0 ELSE -2)).f
        s == compileOpenList(f, st.exprs, reg)
    IN  CASE Len(st.exprs) = 1 /\ x.k = "id" /\ FindLocalVar(f, x.n) > -1 ->
               Add(f, "RETURN", FindLocalVar(f, x.n), 2, 0)
          [] Len(st.exprs) = 1 /\ x.k = "call" ->
               Add(IF x.adj THEN call ELSE SetOpCode(call, LastPC(call), "TAILCALL"), "RETURN", reg, 0, 0)
          [] OTHER -> Add(s.f, "RETURN", reg, IF s.open THEN 0 ELSE s.reg - reg + 1, 0)

compileBranchCondition(f, reg, x, then, else, next) ==
    LET flip == IF next THEN 1 ELSE 0
        to == IF next THEN then ELSE else
        g == NewLabel(f)
        l == label(g)
        lhs == IF x.op = "and" THEN compileBranchCondition(g, reg, x.l, l, else, FALSE)
                               ELSE compileBranchCondition(g, reg, x.l, then, l, TRUE)
        p == compileExprWithMVPropagation(f, x, reg)
    IN  CASE x.k \in {"false", "nil"} /\ ~next -> Jump(f, else)
          [] x.k \in {"true", "num", "str"} /\ ~next -> f
          [] x.k = "un" /\ x.op = "not" -> compileBranchCondition(f, reg, x.e, else, then, ~next)
          [] x.k = "logic" -> compileBranchCondition(SetLabelPc(lhs, l), reg, x.r, then, else, next)
          [] x.k = "rel" -> compileRelationalOpExprAux(f, reg, x, flip, to)
          [] OTHER -> Jump(Add(p.f, "TEST", p.save, 0, flip), to)

compileIfStmt(f0, st) ==
    LET f == NewLabels(f0, 3)
        then == Len(f0.lab) + 1
        c == compileBranchCondition(f, f.top, st.cond, then, then + 1, FALSE)
        g == compileBlock(SetLabelPc(c, then), st.then)
        h == SetLabelPc(IF st.else # <<>> THEN Jump(g, then + 2) ELSE g, then + 1)
    IN  IF st.else = <<>> THEN h ELSE SetLabelPc(compileBlock(h, st.else), then + 2)

compileWhileStmt(f0, st) ==
    LET then == Len(f0.lab) + 1
        f == SetLabelPc(NewLabels(f0, 3), then + 2)
        c == SetLabelPc(compileBranchCondition(f, f.top, st.cond, then, then + 1, FALSE), then)
        g == CloseUpvalues(compileChunk(EnterBlock(c, then + 1), st.body, FALSE))
    IN  SetLabelPc(LeaveBlock(Jump(g, then + 2)), then + 1)

compileRepeatStmt(f0, st) ==
    LET init == Len(f0.lab) + 1
        f == SetLabelPc(SetLabelPc(NewLabels(f0, 3), init), init + 2)
        b == compileChunk(EnterBlock(f, init + 1), st.body, TRUE)
        c == SetLabelPc(compileBranchCondition(b, b.top, st.cond, init + 1, init + 2, FALSE), init + 1)
        g == NewLabel(LeaveBlock(c))
        h == Add(SetLabelPc(Jump(g, label(g)), init + 2), "CLOSE", LastIndex(Parent(c)), 0, 0)
    IN  IF Captured(block(c)) THEN SetLabelPc(Jump(h, init), label(g)) ELSE LeaveBlock(c)

compileBreakStmt(f) ==
    LET B == {d \in DOMAIN f.blk : f.blk[d].brk # 0}
        d == CHOOSE x \in B : \A y \in B : y <= x
        g == IF Captured(f.blk[d]) THEN Add(f, "CLOSE", LastIndex(f.blk[d - 1]), 0, 0) ELSE f
    IN  IF B = {} THEN raiseCompileError(f) ELSE Jump(g, f.blk[d].brk)

compileFuncDefStmt(f, st) ==
    LET t == compileExprWithKMVPropagation(f, st.recv, f.top)
        k == loadRk(t.f, t.reg, Str(st.m))
        c == compileExpr(k.f, k.reg, st.func, ec("method", NoReg, 0)).f
    IN  IF st.name = <<>> THEN Add(c, "SETTABLE", t.save, k.save, k.reg)
        ELSE compileAssignStmt(f, [k |-> "assign", lhs |-> st.name, rhs |-> <<st.func>>])

compileNumberForStmt(f0, st) ==
    LET f == EnterBlock(NewLabel(f0), label(NewLabel(f0)))
        index == f.top
        limb(g, x) == compileExpr(RegisterLocalVar(g, "(for)"), g.top, x, ec("local", g.top, 0)).f
        p == RegisterLocalVar(Add(FoldLeft(limb, f, <<st.init, st.limit, st.step>>), "FORPREP", index, 0, 0), st.n)
        body == LastPC(p)
        g == LeaveBlock(compileChunk(p, st.body, FALSE))
        fl == LastPC(g)
        h == Add(g, "FORLOOP", index, body - (fl + 1), 0)
    IN  SetB(SetLabelPc(h, label(NewLabel(f0))), body, fl - body)

compileGenericForStmt(f0, st) ==
    LET end == Len(f0.lab) + 1
        f == EnterBlock(NewLabels(f0, 3), end)
        g == RegisterAll(f, <<"(for generator)", "(for state)", "(for control)">>)
        h == Jump(compileRegAssignment(g, st.names, st.exprs, f.top, 3), end + 2)
        b == compileChunk(SetLabelPc(RegisterAll(h, st.names), end + 1), st.body, FALSE)
        l == Add(SetLabelPc(LeaveBlock(b), end + 2), "TFORLOOP", f.top, 0, Len(st.names))
    IN  SetLabelPc(Jump(l, end + 1), end)

compileStmt(f, st, isLast) ==
    IF f.err THEN f ELSE
    CASE st.k = "assign" -> compileAssignStmt(f, st)
      [] st.k = "local" -> compileLocalAssignStmt(f, st)
      [] st.k = "callstat" -> compileFuncCallExpr(f, f.top, st.e, ecnone(-1)).f
      [] st.k = "do" -> Scoped(f, st.body, 0)
      [] st.k = "while" -> compileWhileStmt(f, st)
      [] st.k = "repeat" -> compileRepeatStmt(f, st)
      [] st.k = "funcdef" -> compileFuncDefStmt(f, st)
      [] st.k = "return" -> compileReturnStmt(f, st)
      [] st.k = "if" -> compileIfStmt(f, st)
      [] st.k = "break" -> compileBreakStmt(f)
      [] st.k = "fornum" -> compileNumberForStmt(f, st)
      [] st.k = "forin" -> compileGenericForStmt(f, st)
      [] st.k = "label" -> compileLabelStmt(f, st, isLast)
      [] st.k = "goto" -> compileGotoStmt(f, st)

(***************************************************************************)
(* patchCode: labels become distances, a jump to a jump goes where the      *)
(* second one goes, runs of MOVE become one MOVEN.                          *)
(***************************************************************************)
RECURSIVE JumpDistance(_, _, _, _, _)
GetLabelPc(f, l) == IF l \in DOMAIN f.lab THEN f.lab[l] ELSE 0
JumpDistance(f, pc, i, distance, count) ==
    IF i.op # "JMP" \/ count = 5 THEN distance
    ELSE LET d == GetLabelPc(f, i.b) - pc IN JumpDistance(f, pc, f.code[pc + d + 2], d, count + 1)

patchFrom(f, pc, moven) ==
    LET i == f.code[pc + 1]
        d == JumpDistance(f, pc, i, 0, 0)
        g == CASE i.op = "JMP" /\ d = 0 -> SetOpCode(f, pc, "NOP")
               [] i.op = "JMP" /\ d # 0 -> SetB(f, pc, d)
               [] OTHER -> f
        h == IF i.op # "MOVE" /\ moven > 1
             THEN [g EXCEPT !.code[pc - moven + 1].op = "MOVEN", !.code[pc - moven + 1].c = moven - 1] ELSE g
    IN  CASE pc > LastPC(f) -> f
          [] pc <= LastPC(f) /\ i.op = "CLOSURE" -> patchFrom(f, pc + Len(f.fns[i.b + 1].ups) + 1, 0)
          [] OTHER -> patchFrom(h, pc + 1, IF i.op = "MOVE" THEN moven + 1 ELSE 0)

(* The registers an instruction names; pseudo-instructions are covered by the *)
(* MOVEs they are and the JMP after TFORLOOP names none.                      *)
RegistersOf(i) ==
    LET rk(x) == IF opIsK(x) THEN {} ELSE {x} IN
    CASE i.op \in {"MOVE", "MOVEN", "NOT", "TESTSET"} -> {i.a, i.b}
      [] i.op = "LOADNIL" -> {i.a, i.b}
      [] i.op \in {"GETTABLE", "GETTABLEKS"} -> {i.a, i.b} \cup rk(i.c)
      [] i.op \in {"SETTABLE", "SETTABLEKS"} \cup ArithOps -> {i.a} \cup rk(i.b) \cup rk(i.c)
      [] i.op = "SELF" -> {i.a + 1, i.b} \cup rk(i.c)
      [] i.op \in {"UNM", "LEN"} -> {i.a} \cup rk(i.b)
      [] i.op = "CONCAT" -> {i.a, i.c}
      [] i.op \in {"EQ", "LT", "LE"} -> rk(i.b) \cup rk(i.c)
      [] i.op = "CALL" -> {i.a} \cup (IF i.b > 0 THEN {i.a + i.b - 1} ELSE {})
                                \cup (IF i.c > 1 THEN {i.a + i.c - 2} ELSE {})
      [] i.op = "TAILCALL" -> {i.a} \cup (IF i.b > 0 THEN {i.a + i.b - 1} ELSE {})
      [] i.op \in {"RETURN", "VARARG"} -> {i.a} \cup (IF i.b > 1 THEN {i.a + i.b - 2} ELSE {})
      [] i.op = "FORLOOP" -> {i.a + 3}
      [] i.op = "FORPREP" -> {i.a + 2}
      [] i.op = "TFORLOOP" -> {i.a + 3 + i.c}
      [] i.op = "SETLIST" -> {i.a} \cup (IF i.b > 0 THEN {i.a + i.b} ELSE {})
      [] i.op = "JMP" -> {}
      [] OTHER -> {i.a}          \* LOADK, LOADBOOL, the globals and upvalues, NEWTABLE, TEST, CLOSE, CLOSURE, NOP
maxRegisterUsed(f) == Max({1, f.np} \cup UNION {RegistersOf(f.code[j]) : j \in DOMAIN f.code})

patchCode(f) == LET g == patchFrom(f, 0, 0)
                    n == maxRegisterUsed(g) + 1
                IN  [code |-> g.code, consts |-> g.consts, fns |-> g.fns, ups |-> g.ups, np |-> g.np,
                     vararg |-> g.vararg, needsarg |-> g.needsarg, dbg |-> g.dbg, nregs |-> n,
                     err |-> g.err \/ n > maxRegisters]

compileFunctionExpr(f, x, e) ==
    LET self == IF e.t = "method" THEN <<"self">> ELSE <<>>
        g == RegisterAll(f, self \o x.ps)
        arg == IF x.va /\ f.scopes # <<>> THEN RegisterLocalVar(g, "arg") ELSE g
        h == [arg EXCEPT !.np = Len(self \o x.ps), !.vararg = x.va, !.needsarg = x.va]
        c == EndScope(Add(compileChunk(h, x.body, FALSE), "RETURN", 0, 1, 0))
    IN  patchCode([c EXCEPT !.err = @ \/ OpenGotos(c) # <<>>])

compileASTToIRDirect(chunk) ==
    compileFunctionExpr(newFuncContext(<<>>), [k |-> "function", ps |-> <<>>, va |-> TRUE, body |-> chunk],
                        ecnone(0))
=============================================================================
