------------------------------ MODULE TolSema -------------------------------
(***************************************************************************)
(* The checks of tol/sema/sema.go on the body of a function: the shape of  *)
(* each statement, returns, unreachable statements, duplicate locals,      *)
(* storage accesses, immutables, constants and modifiers.  A check is an   *)
(* operator that returns the set of codes it reports (the names of the     *)
(* constants of tol/diag without their CodeSema prefix); the function is   *)
(* accepted when the set is empty.                                         *)
(*                                                                         *)
(* A contract C has                                                        *)
(*   slots     for each storage slot its shape, the sequence of the        *)
(*             "map" and "arr" levels an access goes through, and whether  *)
(*             it is immutable;                                            *)
(*   constants the names of its constants;                                 *)
(*   events    the arity of each event;                                    *)
(*   funcs     the arity of each function;                                 *)
(*   external  the functions that may only be called from outside.         *)
(* Types, literals and built-in calls are left out: the bodies are well    *)
(* typed and call only what exists.                                        *)
(***************************************************************************)
EXTENDS TolAST

(* ------------------------ statements and expressions ------------------- *)

RECURSIVE containsAssignExpr(_)
containsAssignExpr(e) ==
    CASE e.k = "nil" -> FALSE
      [] e.k = "assign" -> TRUE
      [] OTHER -> \E c \in ToSet(Operands(e))
                      \cup (IF e.k = "ternary" THEN ToSet(e.args) ELSE {}) :
                      containsAssignExpr(c)

hasIllegalNestedAssignInStmtExpr(e) ==
    LET root == stripParens(e)
    IN  /\ root.k \in {"assign", "call"}
        /\ \E c \in ToSet(Operands(root)) : containsAssignExpr(c)

RECURSIVE isExprStatementExpr(_)
isExprStatementExpr(e) ==
    \/ e.k \in {"call", "assign"}
    \/ e.k = "unary" /\ e.v \in {"post++", "post--"}
    \/ e.k = "paren" /\ isExprStatementExpr(e.l)

isAssignableTarget(e) == e.k \in {"ident", "member", "index"}

isCallExpr(e) == stripParens(e).k = "call"

isReadOnlyIdentTarget(e) ==
    LET root == stripParens(e)
    IN  root.k = "ident" /\ root.v \in {"true", "false", "nil"}

(* <<scope, key>> of an environment member such as msg.value, or <<>>.     *)
envMemberScopeKey(e) ==
    LET root == stripParens(e)
        obj  == IF root.k = "member" THEN stripParens(root.l) ELSE Nil
    IN  IF obj.k = "ident" /\ obj.v \in {"msg", "tx", "block", "gas"}
        THEN <<obj.v, root.v>> ELSE <<>>

emitCallInfo(e) ==
    LET root   == stripParens(e)
        callee == IF root.k = "call" THEN stripParens(root.l) ELSE Nil
    IN  IF callee.k = "ident" THEN <<callee.v, Len(root.args)>> ELSE <<>>

(* The calls of the contract's own functions and the targets of nested     *)
(* assignments (checkExpr); built-ins and calls through the contract's     *)
(* name are left out.                                                      *)
RECURSIVE checkExpr(_, _)
checkExpr(C, e) ==
    LET callee == IF e.k = "call" THEN stripParens(e.l) ELSE Nil
        subs   == Operands(e) \o (IF e.k = "ternary" THEN e.args ELSE <<>>)
    IN  IF e.k = "nil" THEN {}
        ELSE (IF /\ callee.k = "ident" /\ callee.v \in DOMAIN C.funcs
                 /\ C.funcs[callee.v] >= 0
                 /\ C.funcs[callee.v] # Len(e.args)
              THEN {"CallArity"} ELSE {})
        \cup (IF callee.k = "ident" /\ callee.v \in C.external
              THEN {"CallVisibility"} ELSE {})
        \cup (IF e.k = "assign" /\ \/ ~isAssignableTarget(e.l)
                                   \/ isReadOnlyIdentTarget(e.l)
                                   \/ envMemberScopeKey(e.l) # <<>>
              THEN {"InvalidSetTarget"} ELSE {})
        \cup (IF e.k = "ident" /\ e.v = "nil" THEN {"InvalidStmtShape"} ELSE {})
        \cup UNION {checkExpr(C, c) : c \in ToSet(subs)}

(* What one statement may look like, the blocks it contains apart.         *)
StatementShape(C, s, loopDepth) ==
    LET noAssign(e) == IF containsAssignExpr(e) THEN {"InvalidAssignExpr"} ELSE {}
        unless(ok, code) == IF ok THEN {} ELSE {code}
    IN  CASE s.k = "let" ->
                 unless(s.expr # Nil \/ s.typed, "InvalidStmtShape")
                 \cup noAssign(s.expr)
          [] s.k = "let-tuple" ->
                 unless(s.expr # Nil /\ Len(s.names) >= 2, "InvalidStmtShape")
                 \cup noAssign(s.expr)
          [] s.k \in {"return", "require", "assert", "revert"} ->
                 noAssign(s.expr)
                 \cup unless(s.k \notin {"require", "assert"} \/ s.expr # Nil,
                             "InvalidStmtShape")
          [] s.k = "break" -> unless(loopDepth > 0, "BreakOutsideLoop")
          [] s.k = "continue" -> unless(loopDepth > 0, "ContinueOutsideLoop")
          [] s.k = "emit" ->
                 IF ~isCallExpr(s.expr) THEN {"InvalidStmtShape"}
                 ELSE IF containsAssignExpr(s.expr) THEN {"InvalidAssignExpr"}
                 ELSE LET info == emitCallInfo(s.expr)
                      IN  IF info = <<>> THEN {"InvalidStmtShape"}
                          ELSE IF info[1] \notin DOMAIN C.events
                          THEN {"UnknownEmitEvent"}
                          ELSE unless(C.events[info[1]] = info[2], "EmitArity")
          [] s.k = "set" ->
                 unless(/\ isAssignableTarget(s.target)
                        /\ ~isReadOnlyIdentTarget(s.target)
                        /\ envMemberScopeKey(s.target) = <<>>,
                        "InvalidSetTarget")
                 \cup noAssign(s.expr)
          [] s.k \in {"if", "while", "dowhile"} ->
                 unless(s.cond # Nil, "MissingCondition") \cup noAssign(s.cond)
          [] s.k = "for" ->
                 unless(/\ s.post = Nil \/ isExprStatementExpr(s.post)
                        /\ ~hasIllegalNestedAssignInStmtExpr(s.post),
                        "InvalidAssignExpr")
                 \cup noAssign(s.cond)
          [] s.k = "expr" ->
                 unless(/\ isExprStatementExpr(s.expr)
                        /\ ~hasIllegalNestedAssignInStmtExpr(s.expr),
                        "InvalidAssignExpr")
          [] s.k = "delete" ->
                 unless(isAssignableTarget(s.expr), "InvalidDeleteTarget")
          [] s.k = "try" ->
                 unless(isCallExpr(s.expr), "TryNonCall")
                 \cup unless(\A i, j \in DOMAIN s.catches :
                                 s.catches[i].kind = s.catches[j].kind => i = j,
                             "DuplicateCatch")
          [] s.k \in {"placeholder", "unchecked"} -> {}
          [] OTHER -> {"InvalidStmtShape"}

RECURSIVE checkStatements(_, _, _)
checkStatements(C, ss, loopDepth) ==
    UNION {LET s == ss[i]
               inner == IF s.k \in Loops THEN loopDepth + 1 ELSE loopDepth
           IN  UNION {checkExpr(C, Exprs(s)[n]) : n \in 1 .. 4}
               \cup StatementShape(C, s, loopDepth)
               \cup checkStatements(C, s.init, loopDepth)
               \cup checkStatements(C, s.then, loopDepth)
               \cup checkStatements(C, s.els, loopDepth)
               \cup checkStatements(C, s.body, inner)
               \cup UNION {checkStatements(C, s.catches[n].body, loopDepth) :
                               n \in DOMAIN s.catches}
           : i \in DOMAIN ss}

(* ------------------------ returns and reachability --------------------- *)

checkReturnStatements(expectsValue, ss) ==
    IF \E s \in ToSet(FlattenAll(ss)) :
           s.k = "return" /\ expectsValue # (s.expr # Nil)
    THEN {"InvalidReturn"} ELSE {}

isLiteralTrueIdentExpr(e) ==
    LET root == stripParens(e) IN root.k = "ident" /\ root.v = "true"

loopConditionAlwaysTrue(s) ==
    /\ s.k \in Loops
    /\ (s.k = "for" /\ s.cond = Nil) \/ isLiteralTrueIdentExpr(s.cond)

RECURSIVE guaranteesValueReturnOrRevert(_)
guaranteesValueReturnOrRevert(ss) ==
    \E s \in ToSet(ss) :
        CASE s.k = "return" -> s.expr # Nil
          [] s.k = "revert" -> TRUE
          [] s.k = "if" -> /\ guaranteesValueReturnOrRevert(s.then)
                           /\ guaranteesValueReturnOrRevert(s.els)
          [] OTHER -> /\ loopConditionAlwaysTrue(s)
                      /\ guaranteesValueReturnOrRevert(s.body)

RECURSIVE blockGuaranteesHardTermination(_)
blockGuaranteesHardTermination(ss) ==
    \E s \in ToSet(ss) :
        CASE s.k \in {"return", "revert"} -> TRUE
          [] s.k = "if" -> /\ blockGuaranteesHardTermination(s.then)
                           /\ blockGuaranteesHardTermination(s.els)
          [] OTHER -> /\ loopConditionAlwaysTrue(s)
                      /\ blockGuaranteesHardTermination(s.body)

RECURSIVE guaranteesTerminationStmt(_, _)
guaranteesTerminationStmt(s, loopDepth) ==
    CASE s.k \in {"return", "revert"} -> TRUE
      [] s.k \in {"break", "continue"} -> loopDepth > 0
      [] s.k = "if" ->
             /\ \E t \in ToSet(s.then) : guaranteesTerminationStmt(t, loopDepth)
             /\ \E t \in ToSet(s.els) : guaranteesTerminationStmt(t, loopDepth)
      [] OTHER -> /\ loopConditionAlwaysTrue(s)
                  /\ blockGuaranteesHardTermination(s.body)

(* A statement is reported when one before it in its block never lets      *)
(* control through; what a reported statement contains is not looked at.   *)
RECURSIVE checkUnreachableStatements(_, _)
checkUnreachableStatements(ss, loopDepth) ==
    UNION {LET s == ss[i]
               inner == IF s.k \in Loops THEN loopDepth + 1 ELSE loopDepth
           IN  IF \E j \in 1 .. i - 1 :
                      guaranteesTerminationStmt(ss[j], loopDepth)
               THEN {"UnreachableStmt"}
               ELSE checkUnreachableStatements(s.init, loopDepth)
                    \cup checkUnreachableStatements(s.then, loopDepth)
                    \cup checkUnreachableStatements(s.els, loopDepth)
                    \cup checkUnreachableStatements(s.body, inner)
                    \cup UNION {checkUnreachableStatements(
                                    s.catches[n].body, loopDepth) :
                                    n \in DOMAIN s.catches}
           : i \in DOMAIN ss}

(* -------------------------- duplicate locals --------------------------- *)

(* Only the innermost scope counts: a block may shadow an outer local.     *)
(* The parameters and the function's own block share one scope.            *)
RECURSIVE checkDuplicateLocalsInStmts(_, _)
checkDuplicateLocalsInStmts(scope, ss) ==
    LET lets(i) == {ss[j].name : j \in {n \in 1 .. i - 1 : ss[n].k = "let"}}
    IN  UNION {LET s == ss[i]
                   inner == IF s.k = "for"
                            THEN {t.name : t \in {u \in ToSet(s.init) :
                                                      u.k = "let"}}
                            ELSE {}
               IN  (IF s.k = "let" /\ s.name \in scope \cup lets(i)
                    THEN {"DuplicateLocal"} ELSE {})
                   \cup checkDuplicateLocalsInStmts({}, s.then)
                   \cup checkDuplicateLocalsInStmts({}, s.els)
                   \cup checkDuplicateLocalsInStmts(inner, s.body)
                   \cup UNION {checkDuplicateLocalsInStmts(
                                   {}, s.catches[n].body) :
                                   n \in DOMAIN s.catches}
               : i \in DOMAIN ss}

(* ----------------------------- storage --------------------------------- *)

shapeOf(C, slot) == C.slots[slot].shape

storageKind(C, slot) ==
    IF shapeOf(C, slot) = <<>> THEN "scalar" ELSE Head(shapeOf(C, slot))

slotMaxIndexDepth(C, slot) == Len(shapeOf(C, slot))

(* The slot and the keys of an access path, or no slot.                    *)
NoPath == [slot |-> "", keys |-> <<>>]

RECURSIVE storagePathFromExpr(_, _, _)
storagePathFromExpr(C, locals, e) ==
    CASE e.k = "paren" -> storagePathFromExpr(C, locals, e.l)
      [] e.k = "ident" /\ e.v \in DOMAIN C.slots \ locals ->
             [slot |-> e.v, keys |-> <<>>]
      [] e.k = "index" ->
             LET p == storagePathFromExpr(C, locals, e.l)
             IN  IF p = NoPath THEN p
                 ELSE [p EXCEPT !.keys = Append(@, e.r)]
      [] OTHER -> NoPath

PartialReads(C, slot, n) ==    \* a mapping may be read with some of its keys
    IF n <= slotMaxIndexDepth(C, slot) THEN {} ELSE {"StorageAccess"}
(* An array may be read at any depth but 0, a mapping only in full.        *)
validateStorageRead(C, slot, n) ==
    LET depth == slotMaxIndexDepth(C, slot)
        ok    == CASE storageKind(C, slot) = "scalar" -> n = 0
                   [] storageKind(C, slot) = "map" -> n = depth
                   [] OTHER -> n \in 1 .. depth
    IN  IF ok THEN {} ELSE {"StorageAccess"}

validateStorageWrite(C, slot, n) == validateStorageRead(C, slot, n)

validateStorageIndexObject(C, slot, n) ==
    IF n < slotMaxIndexDepth(C, slot) THEN {} ELSE {"StorageAccess"}

(* After n keys the path must have reached an array: length and push.      *)
validateStorageLength(C, slot, n) ==
    IF n < slotMaxIndexDepth(C, slot) /\ shapeOf(C, slot)[n + 1] = "arr"
    THEN {} ELSE {"StorageAccess"}

validateStoragePush(C, slot, n, argCount) ==
    validateStorageLength(C, slot, n)
    \cup (IF argCount = 1 THEN {} ELSE {"StorageAccess"})

RECURSIVE checkStorageExpr(_, _, _, _)
checkStorageExpr(C, locals, e, use) ==
    LET value(x)  == checkStorageExpr(C, locals, x, "value")
        values(q) == UNION {value(x) : x \in ToSet(q)}
        path(x)   == storagePathFromExpr(C, locals, x)
        p         == path(e)
        access    ==
            IF p = NoPath \/ use = "memberObject" THEN {}
            ELSE CASE use = "value" ->
                          validateStorageRead(C, p.slot, Len(p.keys))
                   [] use = "indexObject" ->
                          validateStorageIndexObject(C, p.slot, Len(p.keys))
                   [] OTHER -> {"StorageAccess"}
        member(x) == IF x.k = "member" THEN path(x.l) ELSE NoPath
        q         == member(IF e.k = "call" THEN e.l ELSE e)
        inner     ==
            CASE e.k = "call" /\ e.l.v = "push" /\ q # NoPath ->
                     values(q.keys) \cup values(e.args)
                     \cup validateStoragePush(C, q.slot, Len(q.keys), Len(e.args))
              [] e.k = "call" /\ ~(e.l.v = "push" /\ q # NoPath) ->
                     checkStorageExpr(C, locals, e.l, "callCallee")
                     \cup values(e.args)
              [] e.k = "member" ->
                     IF q # NoPath /\ e.v = "length"
                     THEN values(q.keys)
                          \cup validateStorageLength(C, q.slot, Len(q.keys))
                     ELSE (IF q # NoPath /\ e.v # "selector"
                           THEN {"StorageAccess"} ELSE {})
                          \cup checkStorageExpr(C, locals, e.l, "memberObject")
              [] e.k = "index" ->
                     checkStorageExpr(C, locals, e.l, "indexObject")
                     \cup value(e.r)
              [] e.k = "paren" -> checkStorageExpr(C, locals, e.l, use)
              [] e.k = "ternary" -> values(e.args)
              [] OTHER -> values(Operands(e))
    IN  IF e = Nil THEN {} ELSE access \cup inner

(* The target of a set, and of a delete.                                   *)
checkStorageSetTarget(C, locals, t) ==
    LET root  == stripParens(t)
        owner == IF root.k = "member" /\ root.v = "length"
                 THEN storagePathFromExpr(C, locals, root.l) ELSE NoPath
        p     == storagePathFromExpr(C, locals, t)
    IN  IF /\ owner # NoPath
           /\ validateStorageLength(C, owner.slot, Len(owner.keys)) = {}
        THEN {"StorageAccess"}
        ELSE IF p # NoPath
        THEN UNION {checkStorageExpr(C, locals, x, "value") : x \in ToSet(p.keys)}
             \cup validateStorageWrite(C, p.slot, Len(p.keys))
        ELSE checkStorageExpr(C, locals, t, "value")

RECURSIVE checkStorageStatements(_, _, _)
checkStorageStatements(C, locals, ss) ==
    UNION {LET s    == ss[i]
               here == LocalsAt(locals, ss, i)
               loop == LocalsAt(here, s.init, Len(s.init) + 1)
               value(l, e) == checkStorageExpr(C, l, e, "value")
           IN  (CASE s.k = "set" -> checkStorageSetTarget(C, here, s.target)
                                    \cup value(here, s.expr)
                  [] s.k = "delete" -> checkStorageSetTarget(C, here, s.expr)
                  [] s.k = "expr" ->
                         (IF /\ s.expr.k = "assign"
                             /\ storagePathFromExpr(C, here, s.expr.l) # NoPath
                          THEN {"StorageWriteNeedsSet"} ELSE {})
                         \cup value(here, s.expr)
                  [] OTHER -> value(here, s.expr) \cup value(loop, s.cond)
                              \cup value(loop, s.post))
               \cup checkStorageStatements(C, here, s.init)
               \cup checkStorageStatements(C, here, s.then)
               \cup checkStorageStatements(C, here, s.els)
               \cup checkStorageStatements(C, loop, s.body)
               \cup UNION {checkStorageStatements(C, here, s.catches[n].body) :
                               n \in DOMAIN s.catches}
           : i \in DOMAIN ss}

checkStorageFunctionBody(C, params, ss) ==
    IF DOMAIN C.slots = {} THEN {} ELSE checkStorageStatements(C, params, ss)
=============================================================================
