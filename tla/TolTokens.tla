------------------------------ MODULE TolTokens ------------------------------
(***************************************************************************)
(* The tokens of the TOL language and the notation in which the parser's   *)
(* functions (tol/parser/parser.go) are written down.  A parser function   *)
(* is a sequence of instructions; TolParser executes one instruction per   *)
(* step.  An instruction is a record whose field o names what it does:     *)
(*                                                                         *)
(*   next    consume the current token (p.next)                            *)
(*   keep    consume it and make it a leaf of the syntax tree              *)
(*   expect  fail with a diagnostic unless the token is in s (p.expect)    *)
(*   case    the first alternative whose guard matches the next tokens     *)
(*   loop    repeat a body while the token is in s (stay), or until it is  *)
(*   ref     call another parser function; ret marks where it returns to   *)
(*   try     run a body; when it fails, run the handler and go on          *)
(*   node    make one tree node of everything a body adds to the tree      *)
(*   prec    parse an expression; the loop of infix operators              *)
(*   scan    collect the tokens of a type                                  *)
(*                                                                         *)
(* A token is its literal, a string; identifiers, numbers, strings and doc *)
(* comments are represented by a few members each.                         *)
(***************************************************************************)
EXTENDS Naturals, Sequences

(* Literals the lexer classifies as TokenIdent.  The contextual keywords are *)
(* the ones the parser compares p.cur.Literal with.                          *)
Contextual == {"account", "capability", "purpose", "manifest", "setup", "setup_suite",
               "teardown", "teardown_suite", "mock", "cases", "with", "assert_all",
               "assert_revert", "assert_instructions_le", "inspect", "from", "_", "skip",
               "fuzz", "timeout", "tag", "count", "selector", "requires", "pay",
               "verifiable", "delegated", "quota", "total_cost", "msg", "slot"}
Names     == {"x", "y", "f", "S", "T", "u256", "post"}
Versions  == {"0.2"}
Numbers   == {"1"}
Strings   == {"'s'"}
DocLines  == {"///a", "///b"}

TokType(t) == CASE t \in Names \cup Contextual -> "Ident"
                [] t \in Numbers \cup Versions -> "Number"
                [] t \in Strings -> "String"
                [] t \in DocLines -> "Doc"
                [] OTHER -> t

(* A test of the parser on a token is membership of its type or literal.    *)
Match(t, S) == t \in S \/ TokType(t) \in S

ID         == {"Ident"}
EOF        == "EOF"
DataLoc    == {"memory", "calldata", "storage"}
TypeStart  == {"mapping", "Ident", "agent", "bool", "string", "uno"} \cup DataLoc
StateVarModifier == {"public", "private", "internal", "override"}
FunctionTypeModifier == {"external", "internal", "view", "pure", "payable", "public", "private"}
IdentLike  == {"Ident", "abstract", "agent", "anonymous", "bool", "calldata", "delete", "uno",
               "external", "false", "global", "indexed", "internal", "is", "memory", "new",
               "deploy", "override", "payable", "private", "public", "pure", "receive",
               "storage", "string", "true", "unchecked", "using", "view", "virtual", "try",
               "catch"}
ContractMemberStart == {"event", "function", "constructor", "fallback", "error", "enum",
               "modifier", "immutable", "constant", "struct", "transient", "mapping", "Ident",
               "using", "receive", "agent", "bool", "string", "uno"}
TestBlockKeyword == {"setup", "setup_suite", "teardown", "teardown_suite", "mock"}
DocKeepersWithoutFallback ==
              {"function", "constructor", "event", "interface", "contract", "@", "receive", "abstract"}
(* The tokens on which next keeps the pending documentation.                 *)
DocKeepers == {"function", "constructor", "fallback", "event", "interface", "contract", "@",
               "receive", "abstract"}
CompoundAssign == {"+=", "-=", "*=", "/=", "%=", "|=", "&=", "^=", "<<=", ">>=", ">>>="}

infixPrecedenceOneLevel(t) == IF t \in {"=", "||", "|", "==", "<", "-", "*", "**"} THEN 2 ELSE 0
(* Precedence of an infix operator, 0 for any other token; the assignment   *)
(* and the power operator associate to the right.                           *)
infixPrecedence(t) == CASE t = "=" -> 2
                        [] t = "||" -> 3
                        [] t = "&&" -> 4
                        [] t = "|" -> 5
                        [] t = "^" -> 6
                        [] t = "&" -> 7
                        [] t \in {"==", "!=", "<", "<=", ">", ">="} -> 8
                        [] t \in {"<<", ">>", ">>>"} -> 9
                        [] t \in {"+", "-"} -> 10
                        [] t \in {"*", "/", "%"} -> 11
                        [] t = "**" -> 12
                        [] OTHER -> 0
RightAssoc == {"=", "**"}
Lowest == 1
Prefix == 13

(***************************************************************************)
(* The instructions.                                                        *)
(***************************************************************************)
Eat          == <<[o |-> "next", lose |-> {}]>>
Skip(why)    == <<[o |-> "next", lose |-> {why}]>>
Drop         == Skip("recovery")
Lose(why)    == <<[o |-> "lose", why |-> why]>>
Keep         == <<[o |-> "keep"]>>
Expect(S)    == <<[o |-> "expect", s |-> S, keep |-> FALSE]>>
Cap(S)       == <<[o |-> "expect", s |-> S, keep |-> TRUE]>>
Tk(t)        == Expect({t})
Diag         == <<[o |-> "diag"]>>
Fail         == <<[o |-> "fail"]>>
Err          == Diag \o Fail
Case(alts)   == <<[o |-> "case", alts |-> alts]>>
On(S, a)     == <<<<S>>, a>>
On2(S, U, a) == <<<<S, U>>, a>>
Otherwise(a) == <<<<>>, a>>
If(S, a, b)  == Case(<<On(S, a), Otherwise(b)>>)
Opt(S, a)    == Case(<<On(S, a)>>)
While(S, a)  == <<[o |-> "loop", s |-> S, stay |-> TRUE, a |-> a]>>
Until(S, a)  == <<[o |-> "loop", s |-> S, stay |-> FALSE, a |-> a]>>
Ref(r)       == <<[o |-> "ref", r |-> r]>>
Return       == <<[o |-> "return"]>>
Try(a, h)    == <<[o |-> "try", a |-> a, h |-> h]>>
Attempt(a)   == Try(a, <<>>)
Node(k, a)   == <<[o |-> "node", k |-> k, a |-> a]>>
Wrap(k, n)   == <<[o |-> "wrap", k |-> k, n |-> n]>>
Leaf(k)      == <<[o |-> "leaf", k |-> k]>>
Discard(why) == <<[o |-> "discard", why |-> why]>>
Prec(m, S)   == <<[o |-> "prec", m |-> m, s |-> S]>>
Expr(S)      == Prec(Lowest, S)
Infix(m, S)  == <<[o |-> "infix", m |-> m, s |-> S]>>
Scan(mode, S, first) == <<[o |-> "scan", mode |-> mode, s |-> S, dp |-> 0, db |-> 0, n |-> 0, fn |-> FALSE,
                           last |-> first]>>
Has(k, a, b) == <<[o |-> "has", k |-> k, a |-> a, b |-> b]>>
IfDup(a)     == <<[o |-> "dup", a |-> a]>>
AddStruct    == <<[o |-> "addstruct"]>>
IfStruct(a, b) == <<[o |-> "isstruct", a |-> a, b |-> b]>>
TakeDoc      == <<[o |-> "takedoc"]>>
Tag(t)       == <<[o |-> "tag", t |-> t]>>

SyncUntil(S) == Until(S, Drop)
List(a)      == a \o While({","}, Eat \o a)
=============================================================================
