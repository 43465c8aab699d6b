---------------------------- MODULE TolFormatter ----------------------------
(***************************************************************************)
(* The source formatter (tol/format/format.go): Format(n) is the tokens it *)
(* prints for a syntax tree of TolParser.  What matters of a printed file  *)
(* is how it parses again, so layout is left out.  The formatter names     *)
(* some fields and kinds otherwise than the parser does; what it then      *)
(* prints is written down as it is: the operand of a unary operator, for   *)
(* example, is stored in Right and printed from Left, hence not at all.    *)
(***************************************************************************)
EXTENDS TolParser

RECURSIVE Format(_), Nodes(_)

(* The nodes of a tree.                                                      *)
Nodes(n) == {n} \cup UNION {Nodes(n.c[i]) : i \in DOMAIN n.c}

all(c) == FlattenSeq([i \in DOMAIN c |-> Format(c[i])])
commas(c) == FlattenSeq([i \in DOMAIN c |-> (IF i = 1 THEN <<>> ELSE <<",">>) \o Format(c[i])])
braces(s) == <<"{">> \o s \o <<"}">>
parens(s) == <<"(">> \o s \o <<")">>
words(c) == [i \in DOMAIN c |-> c[i].k]
child(n, k) == LET is(x) == x.k = k IN SelectSeq(n.c, is)

(***************************************************************************)
(* Declarations.                                                            *)
(***************************************************************************)
formatImport(n) ==
    LET c == n.c
        as(i) == IF Len(c) >= i THEN <<"as", c[i].k>> ELSE <<>>
    IN  <<"import">>
        \o (CASE n.k = "importpkg"  -> Format(c[1]) \o as(2)
             [] n.k = "importstar" -> <<"*", "as", "from", c[2].k>>
             [] n.k = "importnamed" ->
                   braces(FlattenSeq([i \in 1..(Len(c) - 1) |->
                       (IF i = 1 THEN <<>> ELSE <<",">>) \o <<c[i].c[1].k>>
                       \o (IF Len(c[i].c) = 2 THEN <<"as", c[i].c[2].k>> ELSE <<>>)]))
                   \o <<"from", c[Len(c)].k>>
             [] n.k = "importname" -> <<c[1].k, "from", c[2].k>>
             [] OTHER -> <<c[1].k>> \o as(2))
        \o <<";">>

(* Of the documentation the attributes of a function are not printed.        *)
writeDocComment(n) == LET line(x) == x.k \in DocLines IN all(SelectSeq(n.c, line))
writeParams(n) == parens(commas(n.c))
writeReturns(r) == IF r = <<>> \/ r[1].c = <<>> THEN <<>> ELSE <<"returns">> \o writeParams(r[1])
(* payable(asset) is stored apart from the modifiers and not printed.        *)
writeModifiers(n) ==
    LET printed(x) == x.k # "fields" /\ ~(x.k = "payable" /\ x.c # <<>>)
    IN  words(SelectSeq(n.c, printed)) \o writeReturns(child(n, "fields"))
docs(n) == all(child(n, "doc"))

formatFuncSig(n) ==
    docs(n) \o LET c == SelectSeq(n.c, LAMBDA x : x.k \notin {"doc", "selector"})
               IN  <<"function">> \o Format(c[1]) \o writeParams(c[2]) \o writeModifiers(c[3]) \o <<";">>
formatFunction(n) ==
    docs(n) \o FlattenSeq([i \in DOMAIN child(n, "selector") |->
                             <<"@", "selector", "(", child(n, "selector")[i].c[1].k, ")">>])
    \o LET c == SelectSeq(n.c, LAMBDA x : x.k \notin {"doc", "selector"})
       IN  <<"function">> \o Format(c[1]) \o writeParams(c[2]) \o writeModifiers(c[3]) \o Format(c[4])
formatConstructor(n) ==
    docs(n) \o LET c == SelectSeq(n.c, LAMBDA x : x.k # "doc")
               IN  <<"constructor">> \o writeParams(c[1]) \o writeModifiers(c[2]) \o Format(c[3])
formatFallback(n) == docs(n) \o <<"fallback">> \o Format(Last(n.c))
formatReceive(n) ==
    docs(n) \o <<"receive", "(", ")", "external", "payable">> \o Format(Last(n.c))
formatModifierWithoutParams(n) == <<"modifier", n.c[1].k>> \o Format(n.c[3])
formatModifier(n) ==
    <<"modifier", n.c[1].k>> \o (IF n.c[2].c = <<>> THEN <<>> ELSE writeParams(n.c[2]))
    \o Format(n.c[3])

(* name: type, although the parser reads type name.                          *)
formatStruct(n) ==
    <<"struct", n.c[1].k>>
    \o braces(FlattenSeq([i \in 1..(Len(n.c) - 1) |->
                 LET f == n.c[i + 1] IN <<f.c[2].k, ":">> \o Format(f.c[1]) \o <<";">>]))
formatEnum(n)  == <<"enum", n.c[1].k>> \o braces(commas(Tail(n.c)))
formatError(n) == <<"error", n.c[1].k>> \o writeParams(n.c[2]) \o <<";">>
formatEvent(n) == <<"event", n.c[1].k>> \o writeParams(n.c[2]) \o all(child(n, "anonymous"))
formatConstant(n) == <<"constant", n.c[1].k, ":">> \o Format(n.c[2]) \o <<"=">> \o Format(n.c[3])
                     \o <<";">>
formatTypeDecl(n) == <<"type", n.c[1].k, "is">> \o Format(n.c[2]) \o <<";">>
formatUsing(n) == <<"using">> \o Format(n.c[1]) \o <<"for">> \o Format(n.c[2]) \o <<";">>
(* The visibility is printed before the type, where the parser wants none.   *)
formatStorageSlot(n) ==
    LET printed == {"public", "private"}
        vis  == SelectSeq(all(child(n, "visibility")), LAMBDA t : t \in printed)
        rest_ == SelectSeq(n.c, LAMBDA x : x.k \notin {"transient", "visibility"})
        name == IF Len(rest_[1].c) = 2 THEN 1 ELSE 2
        init == SubSeq(rest_, name + 1, Len(rest_))
    IN  all(child(n, "transient")) \o vis \o all(SubSeq(rest_, 1, name))
        \o (IF init = <<>> THEN <<>> ELSE <<"=">> \o all(init)) \o <<";">>
formatManifest(n) ==
    <<"manifest">> \o braces(FlattenSeq([i \in DOMAIN n.c |->
                         <<n.c[i].c[1].k, ":">> \o Format(n.c[i].c[2]) \o <<";">>]))

formatInterface(n) == <<"interface", n.c[1].k>> \o braces(all(Tail(n.c)))
formatLibrary(n)   == <<"library", n.c[1].k>> \o braces(all(Tail(n.c)))
formatContract(n)  ==
    LET bases == child(n, "bases")
        other == SelectSeq(Tail(n.c), LAMBDA x : x.k # "bases")
    IN  <<"contract", n.c[1].k>>
        \o (IF bases = <<>> THEN <<>> ELSE <<"is">> \o commas(bases[1].c))
        \o braces(all(other))
(* The parameters of a setup or teardown function, the attributes and the     *)
(* cases of a test function are not printed.                                  *)
formatTest(n) ==
    LET block(x) == <<x.k>> \o Format(Last(x.c))
        name(x, i) == <<x.c[i].k>> \o writeParams(x.c[i + 1])
        method(x) == <<"function">> \o name(x, 1) \o writeReturns(child([c |-> SubSeq(x.c, 3, Len(x.c))], "fields"))
                     \o Format(Last(x.c))
        mock(x) == LET m == child(x, "method") IN
                   <<"mock", x.c[1].k>>
                   \o (IF Len(x.c) > 1 /\ x.c[2].k # "method" THEN <<":", x.c[2].k>> ELSE <<>>)
                   \o braces(FlattenSeq([i \in DOMAIN m |-> method(m[i])]))
        fn(x) == LET c == SelectSeq(x.c, LAMBDA y : y.k # "attrs")
                 IN  <<"function">> \o name([c |-> c], 1) \o Format(c[3])
        member(x) == CASE x.k = "let" -> Format(x)
                       [] x.k = "mockdecl" -> mock(x)
                       [] x.k = "testfn" -> fn(x)
                       [] OTHER -> block(x)
    IN  <<"test", n.c[1].k>> \o braces(FlattenSeq([i \in 1..(Len(n.c) - 1) |-> member(n.c[i + 1])]))
formatModule(n) ==
    FlattenSeq([i \in DOMAIN n.c |->
        CASE n.c[i].k = "version" -> <<"pragma", "T", n.c[i].c[1].k, ";">>
          [] n.c[i].k = "package" -> <<"package">> \o Format(n.c[i].c[1]) \o <<";">>
          [] OTHER -> Format(n.c[i])])

(***************************************************************************)
(* Statements.  A do-while or try statement has another kind in the parser  *)
(* than in the formatter and is dropped.                                    *)
(***************************************************************************)
formatStatementInline(n) ==
    CASE n.k = "let" -> Front(Format(n))
      [] n.k = "set" -> all(n.c)
      [] OTHER -> all(n.c)
formatFor(n) ==
    LET part(k) == child(n, k)
        first == part("init")
    IN  <<"for", "(">> \o (IF first = <<>> THEN <<>> ELSE formatStatementInline(first[1].c[1]))
        \o <<";">> \o (IF part("cond") = <<>> THEN <<>> ELSE all(part("cond")[1].c))
        \o <<";">> \o (IF part("post") = <<>> THEN <<>> ELSE all(part("post")[1].c))
        \o <<")">> \o all(part("body"))
formatIf(n) ==
    <<"if">> \o parens(Format(n.c[1])) \o braces(all(n.c[2].c))
    \o (IF Len(n.c) = 2 THEN <<>>
        ELSE <<"else">> \o (IF Len(n.c[3].c) = 1 /\ n.c[3].c[1].k = "if" THEN Format(n.c[3].c[1])
                            ELSE braces(all(n.c[3].c))))
formatDeploy(n) ==
    <<"deploy", n.c[1].k>> \o parens(commas(n.c[2].c))
    \o (IF Len(n.c) = 3 THEN <<"->", n.c[3].k>> ELSE <<>>) \o <<";">>
formatTestStatement(n) ==
    LET c == n.c IN
    CASE n.k = "deploystmt" -> formatDeploy(n)
      [] n.k = "withstmt" -> <<"with">> \o all(c)
      [] n.k = "allblock" -> <<"assert_all">> \o all(c)
      [] n.k = "costblock" -> <<"assert_instructions_le">> \o all(c)
      [] n.k = "revertblock" -> <<"assert_revert">>
             \o (IF Len(c) = 2 THEN parens(Format(c[1])) ELSE <<>>) \o Format(Last(c))
formatSimpleStatement(n) ==
    LET c == n.c IN
    CASE n.k \in {"return", "emit", "revert", "delete"} -> <<n.k>> \o all(c) \o <<";">>
      [] n.k = "require" -> <<"require">> \o parens(commas(c)) \o <<";">>
      [] n.k = "assert" -> <<"assert">> \o parens(Format(c[1])) \o <<";">>
      [] n.k = "expr" -> Format(c[1]) \o <<";">>
      [] n.k \in {"break", "continue"} -> <<n.k, ";">>
      [] n.k = "unchecked" -> <<"unchecked">> \o braces(all(c))
      [] n.k \in {"dowhile", "try"} -> <<>>
      [] n.k = "placeholder" -> <<"_", ";">>
TestStatements == {"deploystmt", "withstmt", "revertblock", "allblock", "costblock"}
SimpleStatements == {"return", "emit", "revert", "delete", "require", "assert", "expr", "break",
                     "continue", "unchecked", "dowhile", "try", "placeholder"}
StatementKinds == TestStatements \cup SimpleStatements
                  \cup {"let", "let-tuple", "set", "if", "for", "while"}
formatStatement(n) ==
    LET c == n.c IN
    CASE n.k = "let" -> Format(c[1]) \o (IF Len(c) = 2 THEN <<"=">> \o Format(c[2]) ELSE <<>>) \o <<";">>
      [] n.k = "let-tuple" -> parens(commas(Front(c))) \o <<"=">> \o Format(Last(c)) \o <<";">>
      [] n.k = "set" -> <<"set">> \o all(c) \o <<";">>
      [] n.k = "if" -> formatIf(n)
      [] n.k = "for" -> formatFor(n)
      [] n.k = "while" -> <<"while">> \o parens(Format(c[1])) \o Format(c[2])
      [] n.k \in SimpleStatements -> formatSimpleStatement(n)
      [] n.k \in TestStatements -> formatTestStatement(n)

(***************************************************************************)
(* Expressions.  The operand of a unary operator and the last two operands  *)
(* of a conditional are stored elsewhere than the formatter looks; kinds it *)
(* does not know are printed by their name, or not at all.                  *)
(***************************************************************************)
entries(c) == FlattenSeq([i \in DOMAIN c |-> (IF i = 1 THEN <<>> ELSE <<",">>)
                                             \o <<c[i].c[1].k, ":">> \o Format(c[i].c[2])])
Operators == {"=", "||", "&&", "|", "^", "&", "==", "!=", "<", "<=", ">", ">=", "<<", ">>", ">>>",
              "+", "-", "*", "/", "%", "**", "!", "~"}
formatCall(n) ==
    LET c == n.c
    IN  Format(c[1]) \o (IF Len(c) = 3 /\ c[2].c # <<>> THEN braces(entries(c[2].c)) ELSE <<>>)
        \o parens(commas(Last(c).c))
formatLiteral(n) ==
    LET c == n.c IN
    CASE n.k = "array_lit" -> <<"[">> \o commas(c) \o <<"]">>
      [] n.k = "struct_lit" -> <<c[1].k>> \o parens(braces(entries(Tail(c))))
      [] n.k = "new" -> <<"new", c[1].k>> \o (IF c[2].c = <<>> THEN <<>> ELSE parens(commas(c[2].c)))
      [] n.k = "new_array" -> <<c[1].k>>
      [] n.k \in {"slice", "inspect", "msg_agent"} -> <<>>
formatExpr(n) ==
    LET c == n.c IN
    CASE n.k \in Operators /\ Len(c) = 2 -> Format(c[1]) \o <<n.k>> \o Format(c[2])
      [] n.k \in Operators /\ Len(c) = 1 -> <<n.k>>
      [] n.k \in {"post++", "post--"} -> <<"post", SubSeq(n.k, 5, 6)>>
      [] n.k = "call" -> formatCall(n)
      [] n.k = "named_call" -> Format(c[1]) \o parens(braces(entries(c[2].c)))
      [] n.k = "member" -> Format(c[1]) \o <<".", c[2].k>>
      [] n.k = "index" -> Format(c[1]) \o <<"[">> \o Format(c[2]) \o <<"]">>
      [] n.k = "group" -> parens(commas(c))
      [] n.k = "nil" -> <<>>
      [] n.k = "ternary" -> <<"?", ":">> \o Format(c[1])
      [] OTHER -> formatLiteral(n)

Format(n) ==
    CASE n.k \in {"import", "importstar", "importnamed", "importpkg", "importname"} -> formatImport(n)
      [] n.k = "module" -> formatModule(n)
      [] n.k = "contract" -> formatContract(n)
      [] n.k = "account" /\ n.c # <<>> -> <<"account">> \o Format(n.c[1])
      [] n.k = "interface" -> formatInterface(n)
      [] n.k = "library" -> formatLibrary(n)
      [] n.k = "test" -> formatTest(n)
      [] n.k = "function" /\ n.c # <<>> -> formatFunction(n)
      [] n.k = "funcsig" -> formatFuncSig(n)
      [] n.k = "constructor" -> formatConstructor(n)
      [] n.k = "fallback" -> formatFallback(n)
      [] n.k = "receive" /\ n.c # <<>> -> formatReceive(n)
      [] n.k = "modifier" -> formatModifier(n)
      [] n.k = "struct" -> formatStruct(n)
      [] n.k = "enum" -> formatEnum(n)
      [] n.k = "error" -> formatError(n)
      [] n.k = "event" -> formatEvent(n)
      [] n.k = "constant" -> formatConstant(n)
      [] n.k = "immutable" -> <<"immutable", n.c[1].k, ":">> \o Format(n.c[2]) \o <<";">>
      [] n.k = "typedecl" -> formatTypeDecl(n)
      [] n.k = "using" /\ n.c # <<>> -> formatUsing(n)
      [] n.k = "slot" /\ n.c # <<>> -> formatStorageSlot(n)
      [] n.k \in {"capability", "purpose"} /\ n.c # <<>> -> <<n.k, n.c[1].k, ";">>
      [] n.k = "manifest" /\ n.c # <<>> -> formatManifest(n)
      [] n.k = "doc" -> writeDocComment(n)
      [] n.k = "body" -> braces(all(n.c))
      [] n.k \in {"type", "visibility"} /\ n.c # <<>> -> words(n.c)
      [] n.k = "field" -> all(n.c)
      [] n.k = "dotted" -> Tail(FlattenSeq([i \in DOMAIN n.c |-> <<".", n.c[i].k>>]))
      [] n.k = "alias" -> <<n.c[1].k>> \o (IF Len(n.c) = 2 THEN <<"as", n.c[2].k>> ELSE <<>>)
      [] n.k = "list" -> braces(commas(n.c))
      [] n.k = "array" -> <<"[">> \o commas(n.c) \o <<"]">>
      [] n.k \in StatementKinds -> formatStatement(n)
      [] n.c = <<>> /\ n.k \notin {"nil", "msg_agent", "group", "array_lit"} -> <<n.k>>
      [] OTHER -> formatExpr(n)
=============================================================================
