------------------------------- MODULE TolAST -------------------------------
(***************************************************************************)
(* The function bodies the semantic checks and the lowering walk           *)
(* (tol/ast/ast.go).  As in the Go structs, every statement and every      *)
(* expression has all the fields, and a field the kind does not use is     *)
(* empty: Nil for an expression, <<>> for a list of statements.  Names     *)
(* are strings, numbers are integers.                                      *)
(***************************************************************************)
EXTENDS Integers, Sequences, SequencesExt, FiniteSets, FiniteSetsExt

(* ------------------------------ expressions ---------------------------- *)

Nil == [k |-> "nil"]

(* v is the Value, Op or Member; l the Left, Object or Callee; r the Right *)
(* or the Index; args the call's arguments or the ternary's operands.      *)
Expr(k, v, l, r, args) == [k |-> k, v |-> v, l |-> l, r |-> r, args |-> args]

Id(x)       == Expr("ident", x, Nil, Nil, <<>>)
Num(n)      == Expr("number", n, Nil, Nil, <<>>)
Str         == Expr("string", "", Nil, Nil, <<>>)
Mem(o, m)   == Expr("member", m, o, Nil, <<>>)
Idx(o, i)   == Expr("index", "", o, i, <<>>)
CallOf(f, a) == Expr("call", "", f, Nil, a)
Bin(op, a, b) == Expr("binary", op, a, b, <<>>)
Asg(a, b)   == Expr("assign", "", a, b, <<>>)
Un(op, a)   == Expr("unary", op, Nil, a, <<>>)
Par(a)      == Expr("paren", "", a, Nil, <<>>)
Ter(c, a, b) == Expr("ternary", "", Nil, Nil, <<c, a, b>>)

RECURSIVE stripParens(_)
stripParens(e) == IF e.k = "paren" THEN stripParens(e.l) ELSE e

(* The sub-expressions the walkers of sema.go and effects.go descend into: *)
(* the operands of a ternary are not among them.                           *)
Operands(e) ==
    CASE e.k = "call" -> <<e.l>> \o e.args
      [] e.k \in {"member", "paren"} -> <<e.l>>
      [] e.k \in {"index", "binary", "assign"} -> <<e.l, e.r>>
      [] e.k = "unary" -> <<e.r>>
      [] OTHER -> <<>>

(* Every expression those walkers reach from e, e itself included.         *)
RECURSIVE Reached(_)
Reached(e) ==
    IF e.k = "nil" THEN {}
    ELSE {e} \cup UNION {Reached(c) : c \in ToSet(Operands(e))}

(* ------------------------------- statements ---------------------------- *)

Stmt(k) ==
    [k |-> k, op |-> "", name |-> "", names |-> <<>>, typed |-> TRUE,
     expr |-> Nil, target |-> Nil, cond |-> Nil, post |-> Nil,
     init |-> <<>>, then |-> <<>>, els |-> <<>>, body |-> <<>>,
     catches |-> <<>>]

Let(x, e)        == [Stmt("let") EXCEPT !.name = x, !.expr = e]
SetTo(t, e)      == [Stmt("set") EXCEPT !.target = t, !.expr = e]
SetOp(op, t, e)  == [SetTo(t, e) EXCEPT !.op = op]
Ret(e)           == [Stmt("return") EXCEPT !.expr = e]
Revert           == Stmt("revert")
Require(e)       == [Stmt("require") EXCEPT !.expr = e]
Emit(ev, a)      == [Stmt("emit") EXCEPT !.expr = CallOf(Id(ev), a)]
ExprStmt(e)      == [Stmt("expr") EXCEPT !.expr = e]
Delete(e)        == [Stmt("delete") EXCEPT !.expr = e]
If(c, t, f)      == [Stmt("if") EXCEPT !.cond = c, !.then = t, !.els = f]
While(c, b)      == [Stmt("while") EXCEPT !.cond = c, !.body = b]
DoWhile(c, b)    == [Stmt("dowhile") EXCEPT !.cond = c, !.body = b]
For(i, c, p, b)  ==
    [Stmt("for") EXCEPT !.init = i, !.cond = c, !.post = p, !.body = b]
Unchecked(b)     == [Stmt("unchecked") EXCEPT !.body = b]
Catch(kind, b)   == [kind |-> kind, body |-> b]
Try(e, b, cs)    ==
    [Stmt("try") EXCEPT !.expr = e, !.body = b, !.catches = cs]
Break            == Stmt("break")
Continue         == Stmt("continue")
Placeholder      == Stmt("placeholder")

Loops == {"while", "dowhile", "for"}

(* The names a statement adds to the scope it stands in.                   *)
Declared(s) ==
    CASE s.k = "let" -> {s.name}
      [] s.k = "let-tuple" -> ToSet(s.names)
      [] OTHER -> {}

(* The names in scope before the i-th statement of a block.                *)
LocalsAt(locals, ss, i) == locals \cup UNION {Declared(ss[j]) : j \in 1 .. i - 1}

(* The expressions of a statement, in the order the walkers take them.     *)
Exprs(s) == <<s.expr, s.target, s.cond, s.post>>

(* The statements of a body in the order a walker that keeps one map for   *)
(* the whole function meets them: the initialiser of a for loop before the *)
(* loop, the blocks after the statement they belong to.  The bodies of     *)
(* catch clauses are not visited.                                          *)
RECURSIVE Flatten(_)
Flatten(ss) ==
    IF ss = <<>> THEN <<>>
    ELSE LET s == Head(ss)
         IN  Flatten(s.init) \o <<s>> \o Flatten(s.then) \o Flatten(s.els)
             \o Flatten(s.body) \o Flatten(Tail(ss))

(* The same with the bodies of the catch clauses.                          *)
RECURSIVE FlattenAll(_)
FlattenAll(ss) ==
    IF ss = <<>> THEN <<>>
    ELSE LET s == Head(ss)
         IN  FlattenAll(s.init) \o <<s>> \o FlattenAll(s.then)
             \o FlattenAll(s.els) \o FlattenAll(s.body)
             \o FlattenSeq([i \in DOMAIN s.catches |->
                               FlattenAll(s.catches[i].body)])
             \o FlattenAll(Tail(ss))
=============================================================================
