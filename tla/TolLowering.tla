----------------------------- MODULE TolLowering ----------------------------
(***************************************************************************)
(* From an accepted contract to the Lua chunk that is compiled: lower.go    *)
(* inlines modifiers, expands compound assignments and turns the initial   *)
(* values of slots into the constructor's first statements;                *)
(* tol_ir_direct_lowering.go turns each statement into Lua.  A construct    *)
(* the lowering refuses becomes Unsupported, and the whole chunk is refused. *)
(* All values are u256; a local declared without a type is untyped.        *)
(* Bitwise operators, structs, memory arrays, casts, library calls and the *)
(* built-in functions are left out.                                        *)
(***************************************************************************)
EXTENDS TolChecks

(* ------------------------- Lua syntax trees ---------------------------- *)

LNil == [k |-> "nil"]
LTrue == [k |-> "true"]
LFalse == [k |-> "false"]
LId(x) == [k |-> "id", n |-> x]
LNum(n) == [k |-> "num", v |-> n]
LStr(s) == [k |-> "str", v |-> s]
LDots == [k |-> "dots", adj |-> FALSE]
LAttr(o, key) == [k |-> "attr", o |-> o, key |-> key]
LNot(e) == [k |-> "un", op |-> "not", e |-> e]
LOp(kind, op, l, r) == [k |-> kind, op |-> op, l |-> l, r |-> r]
LCallOf(f, args) ==
    [k |-> "call", fn |-> <<f>>, o |-> LNil, m |-> "", args |-> args, adj |-> TRUE]
LCall(name, args) == LCallOf(LId(name), args)
LFunction(ps, va, body) == [k |-> "function", ps |-> ps, va |-> va, body |-> body]
LField(name, e) == [key |-> <<LStr(name)>>, val |-> e]
LTable(fs) == [k |-> "table", fs |-> fs]
LAssign(l, r) == [k |-> "assign", lhs |-> <<l>>, rhs |-> <<r>>]
LLocal(names, e) ==
    [k |-> "local", names |-> names, attrs |-> [i \in DOMAIN names |-> "none"],
     exprs |-> <<e>>]
LDo(body) == [k |-> "do", body |-> body]
LIf(c, t, e) == [k |-> "if", cond |-> c, then |-> t, else |-> e]
LReturn(es) == [k |-> "return", exprs |-> es]
LStat(e) == [k |-> "callstat", e |-> e]
LLabel(n) == [k |-> "label", n |-> n]
LFuncDef(name, f) ==
    [k |-> "funcdef", name |-> <<LId(name)>>, recv |-> LNil, m |-> "", func |-> f]

Unsupported == [k |-> "unsupported"]

(* The parts of a tree, and whether the lowering refused none of them.     *)
LuaParts(x) ==
    CASE x.k \in {"arith", "rel", "logic"} -> <<x.l, x.r>>
      [] x.k = "un" -> <<x.e>>
      [] x.k = "attr" -> <<x.o, x.key>>
      [] x.k = "call" -> x.fn \o x.args
      [] x.k = "table" -> [i \in DOMAIN x.fs |-> x.fs[i].val]
      [] x.k \in {"function", "do"} -> x.body
      [] x.k \in {"while", "repeat"} -> <<x.cond>> \o x.body
      [] x.k = "if" -> <<x.cond>> \o x.then \o x.else
      [] x.k = "assign" -> x.lhs \o x.rhs
      [] x.k \in {"local", "return"} -> x.exprs
      [] x.k = "callstat" -> <<x.e>>
      [] x.k = "funcdef" -> <<x.func>>
      [] OTHER -> <<>>
RECURSIVE Supported(_)
Supported(x) ==
    /\ x.k # "unsupported"
    /\ \A i \in DOMAIN LuaParts(x) : Supported(LuaParts(x)[i])

(* ------------------------------- lower.go ------------------------------ *)

(* The placeholder in a catch clause is not replaced.                      *)
RECURSIVE injectBody(_, _)
injectBody(modifierBody, inner) ==
    FlattenSeq([i \in DOMAIN modifierBody |->
        LET s == modifierBody[i]
        IN  IF s.k = "placeholder" THEN inner
            ELSE <<[s EXCEPT !.then = injectBody(@, inner), !.els = injectBody(@, inner),
                             !.body = injectBody(@, inner)]>>])

InnermostFirst(c, mods, body) ==    \* the leftmost modifier is the innermost
    LET bodyOf(m) == c.modifiers[CHOOSE i \in DOMAIN c.modifiers : c.modifiers[i].name = m].body
        user == SelectSeq(mods, LAMBDA m : m \in ToSet(Names(c.modifiers)))
    IN  FoldLeft(LAMBDA inner, m : injectBody(bodyOf(m), inner), body, user)
(* The leftmost modifier is the outermost.                                 *)
expandModifiers(c, mods, body) ==
    LET bodyOf(m) == c.modifiers[CHOOSE i \in DOMAIN c.modifiers : c.modifiers[i].name = m].body
        user == SelectSeq(mods, LAMBDA m : m \in ToSet(Names(c.modifiers)))
    IN  FoldRight(LAMBDA m, inner : injectBody(bodyOf(m), inner), user, body)

filterBuiltinModifiers(c, mods) ==
    SelectSeq(mods, LAMBDA m : m \notin ToSet(Names(c.modifiers)))

compoundOpToBinaryOp(op) ==
    CASE op \in {"+=", "++"} -> "+" [] op \in {"-=", "--"} -> "-"
      [] op = "*=" -> "*" [] op = "%=" -> "%" [] OTHER -> op

(* A compound assignment evaluates its target twice; those in a catch      *)
(* clause are left as they are.                                            *)
RECURSIVE desugarStatements(_)
desugarStmt(s) ==
    IF s.k = "set" /\ s.op # ""
    THEN SetTo(s.target, Bin(compoundOpToBinaryOp(s.op), s.target,
                             IF s.op \in {"++", "--"} THEN Num(1) ELSE s.expr))
    ELSE [s EXCEPT !.then = desugarStatements(@), !.els = desugarStatements(@),
                   !.body = desugarStatements(@), !.init = desugarStatements(@)]
desugarStatements(ss) == [i \in DOMAIN ss |-> desugarStmt(ss[i])]

(* The initial values of slots come before the constructor's own body.     *)
slotInitStmts(c) ==
    LET with == SelectSeq(c.slots, LAMBDA s : s.init # Nil)
    IN  [i \in DOMAIN with |-> SetTo(Id(with[i].name), with[i].init)]

HasConstructor(c) == c.ctor # <<>> \/ slotInitStmts(c) # <<>>

ConstructorParams(c) == IF c.ctor = <<>> THEN <<>> ELSE c.ctor[1].params

ConstructorBody(c) ==
    slotInitStmts(c) \o (IF c.ctor = <<>> THEN <<>> ELSE desugarStatements(c.ctor[1].body))

(* A function that shares its name with another has a mangled Lua name.    *)
luaName(c, fn) ==
    IF Len(SelectSeq(c.funcs, LAMBDA g : g.name = fn.name)) > 1 THEN signatureOf(fn)
    ELSE fn.name

LoweredFunction(c, fn) ==
    [fn EXCEPT !.body = desugarStatements(expandModifiers(c, fn.mods, @)),
               !.mods = filterBuiltinModifiers(c, @)]

(* ------------------------------ contexts ------------------------------- *)

(* What loweringCtx keeps: the locals in scope, those of them without a    *)
(* type, whether an unchecked block is open, the loops that are open.      *)
newLoweringCtx(c, params) ==
    [c |-> c, C |-> contractTables(c), locals |-> ToSet(params), untyped |-> {},
     unchecked |-> FALSE, loops |-> 0]

(* A local without a type that shadows another passes for one of its type. *)
declareLocals(ctx, ss, n) ==
    FoldLeft(LAMBDA x, s : LET names == Declared(s)
                           IN  [x EXCEPT !.locals = @ \cup names,
                                         !.untyped = IF s.typed THEN @ \ names
                                                     ELSE @ \cup (names \ x.locals)],
             ctx, SubSeq(ss, 1, n))

(* A label is named after the depth of its loop; in the code every loop    *)
(* has a number of its own.                                                *)
continueLabel(depth) == "tol_continue_" \o ToString(depth)

(* The name of the first overload that takes so many arguments; "" for a    *)
(* name without overloads, or when none fits.                              *)
resolveOverloadedLuaName(ctx, name, argCount) ==
    LET overloads == SelectSeq(ctx.c.funcs, LAMBDA g : g.name = name)
        fitting == SelectSeq(overloads, LAMBDA g : Len(g.params) = argCount)
    IN  IF Len(overloads) <= 1 \/ fitting = <<>> THEN "" ELSE luaName(ctx.c, Head(fitting))

slotConst(name) == "__tol_s_" \o name

(* The type the lowering believes an expression to have: "u256", "" when it *)
(* does not know, or another name; the "type" of a call is the name called. *)
RECURSIVE inferExprType(_, _)
inferExprType(ctx, e) ==
    LET p == storagePathFromExpr(ctx.C, ctx.locals, e)
        l == inferExprType(ctx, e.l)
    IN  IF p # NoPath
        THEN IF Len(p.keys) = slotMaxIndexDepth(ctx.C, p.slot) THEN "u256" ELSE "array"
        ELSE CASE e.k = "paren" -> l
               [] e.k = "ident" -> IF e.v \in ctx.locals \ ctx.untyped THEN "u256" ELSE ""
               [] e.k = "call" -> IF stripParens(e.l).k = "ident" THEN stripParens(e.l).v ELSE ""
               [] e.k = "member" -> IF envMemberScopeKey(e) = <<"msg", "value">> THEN "u256" ELSE ""
               [] e.k = "binary" -> IF l # "" THEN l ELSE inferExprType(ctx, e.r)
               [] e.k = "unary" -> inferExprType(ctx, e.r)
               [] OTHER -> ""

(* ----------------------------- expressions ----------------------------- *)

RECURSIVE tolExprToLua(_, _)

(* One key at a time, by the levels of the slot's type.                    *)
buildHashSlotExpr(ctx, p) ==
    FoldLeftDomain(LAMBDA cur, i :
        LET key == tolExprToLua(ctx, p.keys[i])
            shape == shapeOf(ctx.C, p.slot)
        IN  CASE i > Len(shape) -> Unsupported
              [] i <= Len(shape) /\ shape[i] = "map" -> LCall("__tol_mkey", <<key, cur>>)
              [] OTHER -> LCall("__tol_arr_elem", <<cur, key>>),
        LId(slotConst(p.slot)), p.keys)

validateStorageKeyShape(ctx, p) ==
    LET depth == slotMaxIndexDepth(ctx.C, p.slot)
    IN  IF storageKind(ctx.C, p.slot) = "arr" THEN Len(p.keys) \in 1 .. depth
        ELSE Len(p.keys) = depth

lowerStorageLoadExpr(ctx, p) ==
    IF validateStorageKeyShape(ctx, p) THEN LCall("__tol_sload", <<buildHashSlotExpr(ctx, p)>>)
    ELSE Unsupported

lowerStorageStoreStmt(ctx, p, value) ==
    IF validateStorageKeyShape(ctx, p)
    THEN LStat(LCall("__tol_sstore", <<buildHashSlotExpr(ctx, p), tolExprToLua(ctx, value)>>))
    ELSE Unsupported

(* length and push, on a path that has reached an array.                   *)
lowerStorageArrayExpr(ctx, p, f, args) ==
    IF validateStorageLength(ctx.C, p.slot, Len(p.keys)) = {}
    THEN LCall(f, <<buildHashSlotExpr(ctx, p)>> \o args) ELSE Unsupported

isCheckedUint(ctx, e) ==
    LET t == inferExprType(ctx, e.l)
    IN  (IF t # "" THEN t ELSE inferExprType(ctx, e.r)) = "u256"

lowerBinaryExpr(ctx, e, l, r) ==
    CASE e.v = "&&" -> LOp("logic", "and", l, r)
      [] e.v = "||" -> LOp("logic", "or", l, r)
      [] e.v = "!=" -> LOp("rel", "~=", l, r)
      [] e.v \in {"==", "<", "<=", ">", ">="} -> LOp("rel", e.v, l, r)
      [] e.v \in {"+", "-", "*"} /\ ~ctx.unchecked /\ isCheckedUint(ctx, e) ->
             LCall(CASE e.v = "+" -> "__tol_uint_checked_add"
                     [] e.v = "-" -> "__tol_uint_checked_sub"
                     [] e.v = "*" -> "__tol_uint_checked_mul", <<l, r>>)
      [] OTHER -> LOp("arith", e.v, l, r)

lowerUnaryExpr(e, inner) ==
    CASE e.v = "!" -> LNot(inner)
      [] e.v = "-" -> [k |-> "un", op |-> "-", e |-> inner]
      [] e.v = "+" -> inner
      [] OTHER -> Unsupported

(* An overload is found by the name called, even when that is a local's;    *)
(* the empty sequence when the call is not to an overload.                 *)
lowerOverloadedDirectCallExpr(ctx, e, args) ==
    LET callee == stripParens(e.l)
        resolved == IF callee.k = "ident" THEN resolveOverloadedLuaName(ctx, callee.v, Len(args)) ELSE ""
    IN  IF resolved = "" THEN <<>> ELSE <<LCall(resolved, args)>>

lowerCallExpr(ctx, e) ==
    LET args == [i \in DOMAIN e.args |-> tolExprToLua(ctx, e.args[i])]
        overloaded == lowerOverloadedDirectCallExpr(ctx, e, args)
        array == IF e.l.k = "member" /\ e.l.v = "push"
                 THEN storagePathFromExpr(ctx.C, ctx.locals, e.l.l) ELSE NoPath
    IN  CASE overloaded # <<>> -> overloaded[1]
          [] array # NoPath ->
                 IF Len(args) = 1 THEN lowerStorageArrayExpr(ctx, array, "__tol_spush", args)
                 ELSE Unsupported
          [] OTHER -> LCallOf(tolExprToLua(ctx, e.l), args)

lowerTernaryExpr(cond, yes, no) ==
    LCallOf(LFunction(<<>>, FALSE, <<LIf(cond, <<LReturn(<<yes>>)>>, <<LReturn(<<no>>)>>)>>), <<>>)

lowerIdentExpr(ctx, x) ==
    LET K == {i \in DOMAIN ctx.c.constants : ctx.c.constants[i].name = x}
    IN  CASE x \notin ctx.locals /\ K # {} ->
                 tolExprToLua(ctx, ctx.c.constants[CHOOSE i \in K : TRUE].value)
          [] x \in {"true", "false", "nil"} -> [k |-> x]
          [] OTHER -> LId(x)

lowerMemberExpr(ctx, e) ==
    LET owner == IF e.v = "length" THEN storagePathFromExpr(ctx.C, ctx.locals, e.l) ELSE NoPath
    IN  IF owner # NoPath THEN lowerStorageArrayExpr(ctx, owner, "__tol_slen", <<>>)
        ELSE LAttr(tolExprToLua(ctx, e.l), LStr(e.v))

(* An assignment is a statement only.                                      *)
tolExprToLua(ctx, e) ==
    LET p == storagePathFromExpr(ctx.C, ctx.locals, e)
        lua(x) == tolExprToLua(ctx, x)
    IN  IF p # NoPath /\ e.k # "paren" THEN lowerStorageLoadExpr(ctx, p)
        ELSE CASE e.k = "ident" -> lowerIdentExpr(ctx, e.v)
               [] e.k = "number" -> LNum(e.v)
               [] e.k = "string" -> LStr(e.v)
               [] e.k = "paren" -> lua(e.l)
               [] e.k = "unary" -> lowerUnaryExpr(e, lua(e.r))
               [] e.k = "binary" -> lowerBinaryExpr(ctx, e, lua(e.l), lua(e.r))
               [] e.k = "call" -> lowerCallExpr(ctx, e)
               [] e.k = "member" -> lowerMemberExpr(ctx, e)
               [] e.k = "index" -> LAttr(lua(e.l), lua(e.r))
               [] e.k = "ternary" -> lowerTernaryExpr(lua(e.args[1]), lua(e.args[2]), lua(e.args[3]))
               [] OTHER -> Unsupported

(* ------------------------------ statements ----------------------------- *)

selError  == "0x08c379a0"       \* Error(string)
selPanic  == "0x4e487b71"       \* Panic(uint256)
selCustom == "custom"

raiseError(fields) == LStat(LCall("error", <<LTable(fields)>>))

raiseUnless(cond, selector) ==
    LIf(LNot(cond), <<raiseError(<<LField("selector", LStr(selector))>>)>>, <<>>)

lowerRevertStmt(ctx, s) ==
    LET call == emitCallInfo(s.expr)
        custom == call # <<>> /\ call[1] \in ToSet(ctx.c.errors)
    IN  IF custom THEN raiseError(<<LField("selector", LStr(selCustom)), LField("data", LStr(call[1]))>>)
        ELSE raiseError(<<LField("selector", LStr(selError)),
                          LField("msg", IF s.expr = Nil THEN LStr("") ELSE tolExprToLua(ctx, s.expr))>>)

(* All the values of a call; one of anything else.                         *)
lowerLetTupleStmt(ctx, s) ==
    LET values == tolExprToLua(ctx, s.expr)
    IN  LLocal(s.names, IF values.k = "call" THEN [values EXCEPT !.adj = FALSE] ELSE values)

lowerEmitStmt(ctx, s) ==
    LStat(LCall("__tol_emit", <<LStr(s.expr.l.v)>>
                              \o [i \in DOMAIN s.expr.args |-> tolExprToLua(ctx, s.expr.args[i])]))

(* Called after the target of a storage write, or assigned.                *)
lowerAssign(ctx, target, value) ==
    LET p == storagePathFromExpr(ctx.C, ctx.locals, target)
    IN  IF p # NoPath THEN lowerStorageStoreStmt(ctx, p, value)
        ELSE LAssign(tolExprToLua(ctx, target), tolExprToLua(ctx, value))

tolExprStmtToLua(ctx, e) ==
    CASE e.k = "unary" /\ e.v \in {"post++", "post--"} ->
             lowerAssign(ctx, e.r, Bin(IF e.v = "post--" THEN "-" ELSE "+", e.r, Num(1)))
      [] e.k = "assign" -> lowerAssign(ctx, e.l, e.r)
      [] OTHER -> IF tolExprToLua(ctx, e).k = "call" THEN LStat(tolExprToLua(ctx, e))
                  ELSE Unsupported

(* The shape of the path is not checked: a whole mapping stores nil at its *)
(* base, a whole array a length of 0.                                      *)
lowerDeleteStmt(ctx, s) ==
    LET target == stripParens(s.expr)
        p == storagePathFromExpr(ctx.C, ctx.locals, target)
        zero == IF p # NoPath /\ storageKind(ctx.C, p.slot) = "map" THEN LNil ELSE LNum(0)
    IN  CASE p # NoPath -> LStat(LCall("__tol_sstore", <<buildHashSlotExpr(ctx, p), zero>>))
          [] p = NoPath /\ target.k = "ident" -> LAssign(LId(target.v), zero)
          [] OTHER -> Unsupported

RECURSIVE tolStmtToLua(_, _)
tolStmtsToLua(ctx, ss) ==
    [i \in DOMAIN ss |-> tolStmtToLua(declareLocals(ctx, ss, i - 1), ss[i])]

lowerCatchClauseMatchExpr(kind) ==
    LET selector(s) == LOp("rel", "==", LCall("__tol_error_selector", <<LId("__tol_try_result")>>), LStr(s))
    IN  CASE kind = "Error" -> selector(selError)
          [] kind = "Panic" -> selector(selPanic)
          [] kind = "bytes" -> LOp("rel", "~=", LCall("__tol_error_bytes", <<LId("__tol_try_result")>>), LNil)
          [] OTHER -> Unsupported

rethrow == LStat(LCall("error", <<LId("__tol_try_result"), LNum(0)>>))

(* From the last clause to the first; a clause for everything drops those   *)
(* after it.                                                               *)
lowerCatchClauses(ctx, catches) ==
    FoldRight(LAMBDA clause, els :
                  IF clause.kind = "" THEN tolStmtsToLua(ctx, clause.body)
                  ELSE <<LIf(lowerCatchClauseMatchExpr(clause.kind), tolStmtsToLua(ctx, clause.body), els)>>,
              catches, <<rethrow>>)

(* The variables are numbered in the code; here an inner try shadows them. *)
lowerTryCatchStmt(ctx, s) ==
    LET tried == LCall("pcall", <<LFunction(<<>>, FALSE, <<LReturn(<<tolExprToLua(ctx, s.expr)>>)>>)>>)
        structured == LCall("__tol_is_structured_error", <<LId("__tol_try_result")>>)
    IN  LDo(<<LLocal(<<"__tol_try_ok", "__tol_try_result">>, [tried EXCEPT !.adj = FALSE]),
              LIf(LId("__tol_try_ok"), tolStmtsToLua(ctx, s.body),
                  <<LIf(structured, lowerCatchClauses(ctx, s.catches), <<rethrow>>)>>)>>)

(* do { init; while cond { body ::label:: post } }; the post clause is in   *)
(* the scope of the loop, not of the body.                                 *)
lowerForStmt(ctx, s) ==
    LET loop == declareLocals(ctx, s.init, Len(s.init))
        depth == ctx.loops + 1
        body == tolStmtsToLua([loop EXCEPT !.loops = depth], s.body)
        post == IF s.post = Nil THEN <<>> ELSE <<tolExprStmtToLua(loop, s.post)>>
        cond == IF s.cond = Nil THEN LTrue ELSE tolExprToLua(loop, s.cond)
    IN  LDo(tolStmtsToLua(ctx, s.init)
            \o <<[k |-> "while", cond |-> cond, body |-> body \o <<LLabel(continueLabel(depth))>> \o post]>>)

lowerWhileStmt(ctx, s) ==
    LET depth == ctx.loops + 1
        body == Append(tolStmtsToLua([ctx EXCEPT !.loops = depth], s.body), LLabel(continueLabel(depth)))
        cond == tolExprToLua(ctx, s.cond)
    IN  IF s.k = "while" THEN [k |-> "while", cond |-> cond, body |-> body]
        ELSE [k |-> "repeat", cond |-> LNot(cond), body |-> body]

tolStmtToLua(ctx, s) ==
    LET lua(e) == tolExprToLua(ctx, e)
    IN  CASE s.k = "let" -> LLocal(<<s.name>>, IF s.expr = Nil THEN LNum(0) ELSE lua(s.expr))
          [] s.k = "let-tuple" -> lowerLetTupleStmt(ctx, s)
          [] s.k = "set" -> lowerAssign(ctx, s.target, s.expr)
          [] s.k = "return" -> LReturn(IF s.expr = Nil THEN <<>> ELSE <<lua(s.expr)>>)
          [] s.k = "if" -> LIf(lua(s.cond), tolStmtsToLua(ctx, s.then), tolStmtsToLua(ctx, s.els))
          [] s.k \in {"while", "dowhile"} -> lowerWhileStmt(ctx, s)
          [] s.k = "for" -> lowerForStmt(ctx, s)
          [] s.k = "break" -> [k |-> "break"]
          [] s.k = "continue" -> IF ctx.loops = 0 THEN Unsupported
                                 ELSE [k |-> "goto", n |-> continueLabel(ctx.loops)]
          [] s.k = "expr" -> tolExprStmtToLua(ctx, s.expr)
          [] s.k = "emit" -> lowerEmitStmt(ctx, s)
          [] s.k = "require" -> raiseUnless(lua(s.expr), selError)
          [] s.k = "assert" -> raiseUnless(lua(s.expr), selPanic)
          [] s.k = "revert" -> lowerRevertStmt(ctx, s)
          [] s.k = "delete" -> lowerDeleteStmt(ctx, s)
          [] s.k = "unchecked" -> LDo(tolStmtsToLua([ctx EXCEPT !.unchecked = TRUE], s.body))
          [] s.k = "try" -> lowerTryCatchStmt(ctx, s)
          [] OTHER -> Unsupported

(* ------------------------------- chunks -------------------------------- *)

lowerFunctionToLua(c, fn) ==
    LFuncDef(luaName(c, fn),
             LFunction(fn.params, FALSE, tolStmtsToLua(newLoweringCtx(c, fn.params), fn.body)))

lowerConstructorToLua(c) ==
    LFuncDef("__tol_constructor",
             LFunction(ConstructorParams(c), FALSE,
                       tolStmtsToLua(newLoweringCtx(c, ConstructorParams(c)), ConstructorBody(c))))

(* fallback and receive.                                                   *)
lowerFallbackToLua(c, name, fb) ==
    LFuncDef(name, LFunction(<<>>, FALSE, tolStmtsToLua(newLoweringCtx(c, <<>>), desugarStatements(fb.body))))

(* The functions that can be called, in the order of their selectors.      *)
collectDispatchFuncs(c) == SelectSeq(c.funcs, isDispatched)

(* The arguments are those of the call; decoding them from the call data   *)
(* is left out.                                                            *)
buildOnInvokeAssignStmt(c) ==
    LET is(v) == LOp("rel", "==", LId("selector"), v)
        calls(name, args) == LReturn(<<[LCall(name, args) EXCEPT !.adj = FALSE]>>)
        branch(fn) ==
            LET call == LCall(luaName(c, fn), IF fn.params = <<>> THEN <<>> ELSE <<LDots>>)
            IN  LIf(is(LStr(selectorDispatchKey(fn))),
                    <<IF fn.returns = <<>> THEN LDo(<<LReturn(<<[call EXCEPT !.adj = FALSE]>>)>>)
                      ELSE LDo(<<LLocal(<<"__tol_rv">>, call), LReturn(<<LId("__tol_rv")>>)>>)>>, <<>>)
        fns == collectDispatchFuncs(c)
        receive == IF c.receive = <<>> THEN <<>>
                   ELSE <<LIf(is(LNil), <<calls("__tol_receive", <<>>)>>, <<>>)>>
        otherwise == IF c.fallback # <<>> THEN calls("__tol_fallback", <<>>)
                     ELSE LStat(LCall("error", <<LStr("UNKNOWN_SELECTOR")>>))
        body == receive \o [i \in DOMAIN fns |-> branch(fns[i])] \o <<otherwise>>
    IN  LAssign(LAttr(LId("tos"), LStr("oninvoke")), LFunction(<<"selector">>, TRUE, body))

buildOnCreateAssignStmt ==
    LAssign(LAttr(LId("tos"), LStr("oncreate")),
            LFunction(<<>>, TRUE, <<LReturn(<<[LCall("__tol_constructor", <<LDots>>) EXCEPT !.adj = FALSE]>>)>>))

buildTosInitStmt == LAssign(LId("tos"), LOp("logic", "or", LId("tos"), LTable(<<>>)))

(* The base slots; the rest of the storage prelude is in TolHost.          *)
buildStoragePrelude(c) ==
    [i \in DOMAIN c.slots |-> LLocal(<<slotConst(c.slots[i].name)>>, LStr(c.slots[i].name))]

(* A contract whose only entry is a receive function gets an empty chunk.  *)
isEmptyContract(c) == ~HasConstructor(c) /\ c.fallback = <<>> /\ c.funcs = <<>>

(* The init chunk has the constructor and none of the functions; the       *)
(* runtime chunk has the functions and no constructor.                     *)
initChunk(c) ==
    IF ~HasConstructor(c) THEN <<>>
    ELSE buildStoragePrelude(c) \o <<lowerConstructorToLua(c), buildTosInitStmt, buildOnCreateAssignStmt>>

runtimeChunk(c) ==
    LET entry == c.fallback # <<>> \/ c.receive # <<>> \/ collectDispatchFuncs(c) # <<>>
    IN  IF isEmptyContract(c) THEN <<>>
        ELSE buildStoragePrelude(c)
             \o [i \in DOMAIN c.funcs |-> lowerFunctionToLua(c, LoweredFunction(c, c.funcs[i]))]
             \o (IF c.fallback = <<>> THEN <<>>
                 ELSE <<lowerFallbackToLua(c, "__tol_fallback", c.fallback[1])>>)
             \o (IF c.receive = <<>> THEN <<>>
                 ELSE <<lowerFallbackToLua(c, "__tol_receive", c.receive[1])>>)
             \o (IF entry THEN <<buildTosInitStmt, buildOnInvokeAssignStmt(c)>> ELSE <<>>)
=============================================================================
