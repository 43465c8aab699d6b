----------------------------- MODULE TolEffects -----------------------------
(***************************************************************************)
(* The effect checks of tol/sema/effects.go: what a pure or a view         *)
(* function may do, the storage a function touches against its @effects    *)
(* annotation, and a bound of its gas against its @gas annotation.         *)
(*                                                                         *)
(* A function fn has a name, the names of its params and of its returns    *)
(* ("" where a return is not named), its mods, a body and its annotations: *)
(*   effects  <<>> or <<[reads, writes, emits, calls]>>; a reference is    *)
(*            [slot, keys], and keys = <<"*">> covers every key; calls is  *)
(*            <<>> when the clause is missing, else <<the references>>;    *)
(*   gas      <<>>, <<number>> or <<expression>>;                          *)
(*   bounds   a sequence of [ident, op, value].                            *)
(* Unlike the checks of TolSema, the walkers here keep one map of locals   *)
(* for the whole function, and do not visit the bodies of catch clauses.   *)
(***************************************************************************)
EXTENDS TolSema

externalStateCallNames ==
    {"call", "create", "create2", "createx", "create2x", "transfer", "delegatecall"}
staticCallNames == {"staticcall"}

functionEffectKind(mods) ==
    LET effect == SelectSeq(mods, LAMBDA m : m \in {"pure", "view", "payable"})
    IN  IF effect = <<>> THEN "none" ELSE Head(effect)

RECURSIVE isStorageExpr(_, _, _)
isStorageExpr(C, locals, e) ==
    LET root == stripParens(e)
    IN  CASE root.k = "ident" -> root.v \in DOMAIN C.slots \ locals
          [] root.k \in {"index", "member"} -> isStorageExpr(C, locals, root.l)
          [] OTHER -> FALSE

calleeName(e) ==
    LET callee == IF e.k = "call" THEN stripParens(e.l) ELSE Nil
    IN  IF callee.k = "ident" THEN callee.v ELSE ""

(* --------------------------- pure and view ----------------------------- *)

(* Any mention of storage is a read, the object of an index or of a member *)
(* included.                                                               *)
RECURSIVE checkPureExpr(_, _, _)
checkPureExpr(C, locals, e) ==
    IF e = Nil THEN {}
    ELSE IF e.k = "member" /\ envMemberScopeKey(e) # <<>> THEN {"PureEnvRead"}
    ELSE (IF e.k = "ident" /\ isStorageExpr(C, locals, e)
          THEN {"PureStorageRead"} ELSE {})
         \cup (IF e.k \in {"member", "index"} /\ isStorageExpr(C, locals, e.l)
               THEN {"PureStorageRead"} ELSE {})
         \cup (IF calleeName(e) \in externalStateCallNames \cup staticCallNames
               THEN {"PureExternalCall"} ELSE {})
         \cup UNION {checkPureExpr(C, locals, x) : x \in ToSet(Operands(e))}

checkPureStmt(C, locals, s) ==
    CASE s.k = "emit" -> {"PureEmit"}
      [] s.k = "set" ->
             (IF isStorageExpr(C, locals, s.target)
              THEN {"PureStorageWrite"} ELSE {})
             \cup checkPureExpr(C, locals, s.target)
             \cup checkPureExpr(C, locals, s.expr)
      [] OTHER -> UNION {checkPureExpr(C, locals, x) : x \in ToSet(Exprs(s))}

RECURSIVE checkViewExpr(_, _, _, _)
checkViewExpr(C, locals, e, targetContext) ==
    LET same(x)  == checkViewExpr(C, locals, x, targetContext)
        value(x) == checkViewExpr(C, locals, x, FALSE)
    IN  CASE e.k = "index" ->
                 (IF targetContext /\ isStorageExpr(C, locals, e.l)
                  THEN {"ViewStorageWrite"} ELSE {})
                 \cup same(e.l) \cup value(e.r)
          [] e.k = "member" /\ envMemberScopeKey(e) # <<>> -> {}
          [] e.k = "paren" -> same(e.l)
          [] OTHER ->
                 (IF calleeName(e) \in externalStateCallNames
                  THEN {"ViewStateCall"} ELSE {})
                 \cup UNION {value(x) : x \in ToSet(Operands(e))}

ViewTargetOnly(C, locals, s) ==    \* only an index of the target is looked at
    IF s.k = "emit" THEN {"ViewEmit"}
    ELSE checkViewExpr(C, locals, s.target, TRUE)
         \cup UNION {checkViewExpr(C, locals, x, FALSE) : x \in {s.expr, s.cond, s.post}}
checkViewStmt(C, locals, s) ==
    CASE s.k = "emit" -> {"ViewEmit"}
      [] s.k = "set" ->
             (IF isStorageExpr(C, locals, s.target)
              THEN {"ViewStorageWrite"} ELSE {})
             \cup checkViewExpr(C, locals, s.target, TRUE)
             \cup checkViewExpr(C, locals, s.expr, FALSE)
      [] OTHER -> UNION {checkViewExpr(C, locals, x, FALSE) : x \in ToSet(Exprs(s))}

checkMsgValueStmt(s) ==
    IF \E x \in UNION {Reached(e) : e \in ToSet(Exprs(s))} :
           envMemberScopeKey(x) = <<"msg", "value">>
    THEN {"NonPayableMsgValue"} ELSE {}

(* A local stays known after the block that declares it has ended, so the  *)
(* locals before a statement are those of every statement before it.       *)
checkEveryStmt(fn, Check(_, _)) ==
    LET all == Flatten(fn.body)
    IN  UNION {Check(LocalsAt(ToSet(fn.params), all, i), all[i]) : i \in DOMAIN all}

checkPureViewBody(C, fn) ==
    LET kind == functionEffectKind(fn.mods)
    IN  CASE kind = "pure" ->
                 checkEveryStmt(fn, LAMBDA locals, s : checkPureStmt(C, locals, s))
          [] kind = "view" ->
                 checkEveryStmt(fn, LAMBDA locals, s :
                     checkViewStmt(C, locals, s)
                     \cup (IF "payable" \in ToSet(fn.mods) THEN {}
                           ELSE checkMsgValueStmt(s)))
          [] OTHER -> {}

(* ------------------------ @effects annotations ------------------------- *)

resolveKeyRef(params, key) ==
    LET e == stripParens(key)
    IN  CASE e = Id("this") \/ e = CallOf(Id("agent"), <<Id("this")>>) -> "this"
          [] e.k = "ident" /\ e.v \in params -> e.v
          [] e = Mem(Id("msg"), "sender") -> "caller"
          [] OTHER -> "?"

(* The storage an expression refers to, or NoPath.  Locals of the same     *)
(* name are not told apart, and a parenthesis hides the access.            *)
RECURSIVE storageRefFromExpr(_, _, _)
storageRefFromExpr(C, params, e) ==
    CASE e.k = "ident" /\ e.v \in DOMAIN C.slots -> [slot |-> e.v, keys |-> <<>>]
      [] e.k = "index" ->
             LET base == storageRefFromExpr(C, params, e.l)
             IN  IF base = NoPath THEN NoPath
                 ELSE [base EXCEPT !.keys = Append(@, resolveKeyRef(params, e.r))]
      [] e.k = "member" /\ e.l = Id("storage") -> [slot |-> e.v, keys |-> <<>>]
      [] OTHER -> NoPath

NoEffects == [reads |-> {}, writes |-> {}, emits |-> {}, calls |-> FALSE]

(* An access through keys is one read: what its keys read is not inferred. *)
RECURSIVE inferReads(_, _, _)
inferReads(C, params, e) ==
    LET ref == IF e.k \in {"index", "member", "ident"}
               THEN storageRefFromExpr(C, params, e) ELSE NoPath
    IN  IF ref # NoPath THEN {ref}
        ELSE UNION {inferReads(C, params, x) : x \in ToSet(Operands(e))}

inferCalls(e) ==
    \E x \in Reached(e) : calleeName(x) \in
        externalStateCallNames \cup staticCallNames \cup {"send"}

(* A statement an emit was parsed into has neither a name nor a text, so   *)
(* no event is ever inferred; delete, try and the keys of a target are not *)
(* looked at.                                                              *)
inferFromStmt(C, params, s) ==
    LET read == CASE s.k \in {"set", "let", "let-tuple", "return", "expr",
                              "require", "assert", "revert"} -> <<s.expr>>
                  [] s.k \in {"if", "while", "dowhile"} -> <<s.cond>>
                  [] s.k = "for" -> <<s.cond, s.post>>
                  [] OTHER -> <<>>
        target == IF s.k = "set" THEN storageRefFromExpr(C, params, s.target)
                  ELSE NoPath
    IN  [reads  |-> UNION {inferReads(C, params, e) : e \in ToSet(read)},
         writes |-> {target} \ {NoPath},
         emits  |-> IF s.k = "emit" /\ s.name # "" THEN {s.name} ELSE {},
         calls  |-> \E e \in ToSet(read) : inferCalls(e)]

(* try is the one statement whose body is not visited.                     *)
RECURSIVE inferred(_)
inferred(ss) ==
    IF ss = <<>> THEN <<>>
    ELSE LET s == Head(ss)
         IN  inferred(s.init) \o <<s>> \o inferred(s.then) \o inferred(s.els)
             \o (IF s.k = "try" THEN <<>> ELSE inferred(s.body))
             \o inferred(Tail(ss))

inferEffectsFromBody(C, fn) ==
    FoldLeft(LAMBDA inf, s :
                 LET t == inferFromStmt(C, ToSet(fn.params), s)
                 IN  [reads  |-> inf.reads \cup t.reads,
                      writes |-> inf.writes \cup t.writes,
                      emits  |-> inf.emits \cup t.emits,
                      calls  |-> inf.calls \/ t.calls],
             NoEffects, inferred(fn.body))

SlotIsCovered(ref, declared) ==    \* a declared key covers every key of the slot
    \E r \in declared : r.slot = ref.slot
isRefCovered(ref, declared) ==
    \/ ref \in declared
    \/ ref.keys # <<>> /\ [slot |-> ref.slot, keys |-> <<"*">>] \in declared

(* A call site never has a selector, so a declared selector covers none.   *)
callRefCovers(ref) == ref = "*" \/ ref = ""

checkDeclaredEffects(C, fn) ==
    IF fn.effects = <<>> THEN {}
    ELSE LET decl == fn.effects[1]
             inf  == inferEffectsFromBody(C, fn)
             declaredCalls == IF decl.calls = <<>> THEN {} ELSE decl.calls[1]
             covered == /\ \A r \in inf.reads : isRefCovered(r, decl.reads)
                        /\ \A w \in inf.writes : isRefCovered(w, decl.writes)
                        /\ inf.emits \subseteq decl.emits
             callsCovered == \/ decl.calls = <<>> \/ ~inf.calls
                             \/ \E ref \in declaredCalls : callRefCovers(ref)
         IN  (IF covered /\ callsCovered THEN {} ELSE {"EffectUndeclared"})
             \cup (IF \A ref \in declaredCalls : callRefCovers(ref)
                   THEN {} ELSE {"EffectSelectorNoSite"})

(* -------------------------- @gas and @bounds --------------------------- *)

gasCostSStore == 20000
gasCostSLoad  == 2100
gasCostLog    == 375 + 375
gasCostInstr  == 1

Unbounded == -1

BoundTaken(name, bounds) ==    \* <= counted as <
    LET iters == {c.value : c \in {b \in ToSet(bounds) : b.ident = name /\ b.op \in {"<", "<=", "=="}}}
    IN  IF iters = {} THEN Unbounded ELSE Min(iters)
(* The bound of each constraint on the variable; the least one counts.     *)
boundsMaxIter(name, bounds) ==
    LET iters == {IF c.op = "<=" THEN c.value + 1 ELSE c.value :
                      c \in {b \in ToSet(bounds) :
                                b.ident = name /\ b.op \in {"<", "<=", "=="}}}
    IN  IF iters = {} THEN Unbounded ELSE Min(iters)

isLoopCond(cond) == cond.k = "binary" /\ cond.v \in {"<", "<=", "!="}

stripOneParen(e) == IF e.k = "paren" THEN e.l ELSE e

loopVarFromCond(cond) ==
    LET left == IF isLoopCond(cond) THEN stripOneParen(cond.l) ELSE Nil
    IN  IF left.k = "ident" THEN left.v ELSE ""

maxIterFromForCond(cond, bounds) ==
    LET rhs == IF isLoopCond(cond) THEN stripOneParen(cond.r) ELSE Nil
    IN  CASE rhs.k = "ident" -> boundsMaxIter(rhs.v, bounds)
          [] rhs.k = "number" -> rhs.v
          [] OTHER -> Unbounded

RECURSIVE estimateExprGas(_, _)
estimateExprGas(C, e) ==
    CASE e = Nil -> 0
      [] e.k \in {"index", "member", "ident"} ->
             IF storageRefFromExpr(C, {}, e) # NoPath
             THEN gasCostSLoad ELSE gasCostInstr
      [] e.k \in {"binary", "assign"} ->
             gasCostInstr + estimateExprGas(C, e.l) + estimateExprGas(C, e.r)
      [] OTHER -> gasCostInstr

LoopGas(iters, body) ==
    IF iters = Unbounded \/ body = Unbounded THEN Unbounded ELSE iters * body

(* A condition costs nothing, nor does the clause after a for's condition. *)
RECURSIVE estimateGas(_, _, _), estimateStmtGas(_, _, _)
estimateStmtGas(C, s, bounds) ==
    CASE s.k = "set" ->
             (IF storageRefFromExpr(C, {}, s.target) # NoPath
              THEN gasCostSStore ELSE gasCostInstr) + estimateExprGas(C, s.expr)
      [] s.k = "emit" -> gasCostLog
      [] s.k = "if" ->
             LET branches == {estimateGas(C, s.then, bounds),
                              estimateGas(C, s.els, bounds)}
             IN  IF Unbounded \in branches THEN Unbounded ELSE Max(branches)
      [] s.k \in {"while", "dowhile"} ->
             LoopGas(boundsMaxIter(loopVarFromCond(s.cond), bounds),
                     estimateGas(C, s.body, bounds))
      [] s.k = "for" ->
             LoopGas(maxIterFromForCond(s.cond, bounds),
                     estimateGas(C, s.body, bounds))
      [] s.k = "unchecked" -> estimateGas(C, s.body, bounds)
      [] s.k \in {"let", "let-tuple", "return", "expr"} ->
             gasCostInstr + estimateExprGas(C, s.expr)
      [] OTHER -> gasCostInstr

estimateGas(C, body, bounds) ==
    LET costs == [i \in DOMAIN body |-> estimateStmtGas(C, body[i], bounds)]
    IN  IF \E i \in DOMAIN body : costs[i] = Unbounded THEN Unbounded
        ELSE FoldFunction(+, 0, costs)

(* An annotation that is an expression is only evaluated: a number, a      *)
(* bounded name (its value, whatever the operator), + and *.               *)
RECURSIVE evalGasExpr(_, _)
evalGasExpr(x, bounds) ==
    LET named == SelectSeq(bounds, LAMBDA b : b.ident = x.name)
        l     == evalGasExpr(x.l, bounds)
        r     == evalGasExpr(x.r, bounds)
    IN  CASE x.k = "int" -> x.v
          [] x.k = "ident" -> IF named = <<>> THEN Unbounded ELSE Head(named).value
          [] OTHER -> IF Unbounded \in {l, r} THEN Unbounded
                      ELSE IF x.k = "+" THEN l + r ELSE l * r

checkGasUpperBound(C, fn) ==
    LET estimated == estimateGas(C, fn.body, fn.bounds)
        declared  == fn.gas[1]
    IN  CASE fn.gas = <<>> -> {}
          [] fn.gas # <<>> /\ declared.k # "int" ->
                 IF evalGasExpr(declared, fn.bounds) = Unbounded
                 THEN {"GasUnbounded"} ELSE {}
          [] OTHER -> IF estimated = Unbounded THEN {"GasUnbounded"}
                      ELSE IF declared.v < estimated THEN {"GasTooLow"} ELSE {}

checkFunctionEffects(C, fn) ==
    checkPureViewBody(C, fn) \cup checkDeclaredEffects(C, fn)
    \cup checkGasUpperBound(C, fn)
=============================================================================
