---------------------------- MODULE TolStatements ----------------------------
(***************************************************************************)
(* The functions of tol/parser/parser.go that parse statements, expressions *)
(* and test blocks, in the notation of TolTokens, and the table by which    *)
(* they call each other.                                                    *)
(***************************************************************************)
EXTENDS TolDeclarations

(***************************************************************************)
(* Expressions: precedence climbing.  S is the caller's set of stop tokens. *)
(***************************************************************************)
arguments == Node("args", If({")"}, <<>>, List(Expr({",", ")"}))) \o Tk(")"))
keyValue  == Node("pair", Cap(ID) \o Tk(":") \o Expr({",", "}"}))
pairs     == Tk("{") \o If({"}", EOF}, <<>>,
                           keyValue \o While({","}, Eat \o If({"}", EOF}, <<>>, keyValue)))
             \o Tk("}")

parseCallOptionsBlock == Node("options", pairs)
parseNamedArgBlock    == Node("named", pairs)
isNamedArgBlock(a, b) == Case(<<On2({"{"}, {"}"}, a), <<<<{"{"}, ID, {":"}>>, a>>, Otherwise(b)>>)

callExpr == Eat \o isNamedArgBlock(parseNamedArgBlock \o Tk(")") \o Wrap("named_call", 2),
                                   arguments \o Wrap("call", 2))
indexExpr == Eat \o Expr({"]", ":"})
             \o If({":"}, Eat \o Expr({"]"}) \o Tk("]") \o Wrap("slice", 3),
                          Tk("]") \o Wrap("index", 2))
parsePostfixExpr ==
    Case(<<On({"{"}, parseCallOptionsBlock \o Tk("(") \o arguments \o Wrap("call", 3)),
           On({"("}, callExpr),
           On({"."}, Eat \o If({EOF}, Err, Keep) \o Wrap("member", 2)),
           On({"["}, indexExpr)>>)

structLiteral ==
    Node("struct_lit", Keep \o Tk("{") \o Attempt(Until({"}"}, keyValue \o Opt({","}, Eat)))
                       \o Tk("}"))
newExpr ==
    LET instance == Node("new", Eat \o Cap(IdentLike) \o Tk("(") \o arguments)
        array    == Node("new_array", Eat \o Cap(IdentLike) \o Tk("[") \o Tk("]") \o Tk("(")
                                      \o Expr({")"}) \o Tk(")"))
    IN  Case(<<<<<<{"new"}, IdentLike, {"["}>>, array>>, Otherwise(instance)>>)
parenExpr ==
    LET element == Expr({")", ","})
    IN  Node("group", Eat \o If({")"}, <<>>,
                                element \o While({","}, Eat \o If({")"}, Leaf("nil"), element)))
                      \o Tk(")"))
arrayLiteral == Node("array_lit", Eat \o If({"]"}, <<>>, List(Expr({",", "]"}))) \o Tk("]"))

IdentifierKeywords == {"true", "false", "agent", "bool", "string", "uno", "payable", "pure", "view",
                       "public", "private", "external", "internal", "memory", "calldata",
                       "storage", "virtual", "override", "global", "receive", "using", "is",
                       "abstract", "type", "mapping"}
unary(t, S) == On({t}, Eat \o Prec(Prefix, S) \o Wrap(t, 1))
parsePrefixExpr(S) ==
    Case(<<On(S \cup {EOF}, Err),
           On(IdentifierKeywords \cup {"Number", "String"}, Keep),
           On({"deploy", "new"}, newExpr),
           On({"inspect"}, Node("inspect", Eat \o Cap(ID) \o Tk(".") \o Cap(ID))),
           On2(ID, {"{"}, IfStruct(structLiteral, Keep)),
           On(ID, Keep),
           On({"("}, parenExpr),
           On({"["}, arrayLiteral),
           unary("+", S), unary("-", S), unary("!", S), unary("~", S),
           Otherwise(Err)>>)

(* One round of the loop of parseExprPrec at token t; <<>> leaves the loop.  *)
parseExprPrec(m, S, t) ==
    CASE Match(t, S \cup {EOF}) -> <<>>
      [] t = "?" /\ m <= Lowest ->
            Eat \o Expr({":"}) \o Tk(":") \o Prec(Lowest, S) \o Wrap("ternary", 3)
      [] t \in {"(", ".", "[", "{"} -> parsePostfixExpr \o Infix(m, S)
      [] t \in {"++", "--"} ->
            Eat \o Wrap(IF t = "++" THEN "post++" ELSE "post--", 1) \o Infix(m, S)
      [] infixPrecedence(t) > 0 /\ infixPrecedence(t) >= m ->
            Eat \o Prec(IF t \in RightAssoc THEN infixPrecedence(t) ELSE infixPrecedence(t) + 1, S)
            \o Wrap(t, 2) \o Infix(m, S)
      [] OTHER -> <<>>

(***************************************************************************)
(* Statements.                                                              *)
(***************************************************************************)
parseStatementBlock ==
    If({"{"}, Eat, Err)
    \o Until({"}"}, Try(Ref("parseStatement"), Ref("syncStatement")))
    \o If({EOF}, Err, Eat)
parseBlockOrSingleStatement(what) ==
    Node(what, If({"{"}, Ref("parseStatementBlock"), Ref("parseStatement")))

(* A local variable's data location is not kept in the tree.                 *)
localField == Node("field", Node("type", Scan("field", DataLoc, "")) \o Opt(DataLoc, Eat)
                            \o Opt(ID, Keep))
skipStatement == SyncUntil({";", "}"}) \o Opt({";"}, Eat) \o Fail

parseTypeFirstVarDecl ==
    Node("let", Try(localField \o Has("named", <<>>, Err), skipStatement)
                \o Opt({"="}, Eat \o Expr({";"})) \o Tk(";"))

parseTypeFirstTupleDecl ==
    Node("let-tuple", Tk("(")
                      \o Try(List(parseField(FALSE, FALSE) \o Has("named", <<>>, Err)), skipStatement)
                      \o Tk(")") \o Tk("=") \o Expr({";"}) \o Tk(";"))

parseLetTupleStatement ==
    Tk("(") \o List(Cap(ID)) \o Tk(")")
    \o Opt({":"}, Eat \o Tk("(") \o List(parseTypeUntil({",", ")"})) \o Tk(")"))
    \o Tk("=") \o Expr({";"}) \o Tk(";")
(* The removed let statement: always a diagnostic, then parsed all the same.  *)
parseLetStatement ==
    Node("let", Tk("let") \o Diag
                \o If({"("}, parseLetTupleStatement,
                      Cap(ID) \o Opt({":"}, Eat \o parseTypeUntil({"=", ";"}))
                      \o Opt({"="}, Eat \o Expr({";"})) \o Tk(";")))

parseSetStatement ==
    Node("set", Tk("set") \o Expr(CompoundAssign \cup {"=", "++", "--"})
                \o Case(<<On({"++", "--"}, Keep),
                          On(CompoundAssign, Keep \o Expr({";"})),
                          Otherwise(Cap({"="}) \o Expr({";"}))>>)
                \o Tk(";"))
prefixIncDec(t) == On({t}, Node("set", Eat \o Expr({";"}) \o Leaf(t) \o Tk(";")))
(* Wrap("expr", 1) turns a postfix increment into the set statement it means. *)
parseExprSemicolonStmt ==
    Try(Expr({";"} \cup CompoundAssign), Err)
    \o If(CompoundAssign, Keep \o Expr({";"}) \o Tk(";") \o Wrap("set", 3),
                          Tk(";") \o Wrap("expr", 1))

exprStatement(kind) == Node(kind, Eat \o If({";"}, Eat, Expr({";"}) \o Tk(";")))
parseReturnStatement == exprStatement("return")
parseUnaryCallLikeStatement(kind) == exprStatement(kind)
parseDeleteStatement == Node("delete", Eat \o Expr({";"}) \o Tk(";"))
parseUncheckedStatement == Node("unchecked", Eat \o Ref("parseStatementBlock"))
parseRequireAssertStatement(kind) ==
    Node(kind, Eat \o Tk("(") \o Expr({",", ")"}) \o Opt({","}, Eat \o Cap({"String"}))
               \o Tk(")") \o Tk(";"))

condition == Tk("(") \o Expr({")"}) \o Tk(")")
parseIfStatement ==
    Node("if", Tk("if") \o condition \o parseBlockOrSingleStatement("then")
               \o Opt({"else"}, Eat \o If({"if"}, Node("else", Ref("parseIfStatement")),
                                                  parseBlockOrSingleStatement("else"))))
parseWhileStatement   == Node("while", Tk("while") \o condition \o parseBlockOrSingleStatement("body"))
parseDoWhileStatement == Node("dowhile", Tk("do") \o Node("body", Ref("parseStatementBlock"))
                                         \o Tk("while") \o condition \o Opt({";"}, Eat))
typeFirst(a) == <<On2(TypeStart, ID, a), <<<<TypeStart, {"["}, {"]", "Number"}>>, a>>>>
parseForStatement ==
    LET init == Case(<<On({"let"}, Ref("parseLetStatement")), On({"set"}, Ref("parseSetStatement"))>>
                     \o typeFirst(Ref("parseTypeFirstVarDecl"))
                     \o <<Otherwise(Node("initexpr", Expr({";"}) \o Tk(";")))>>)
    IN  Node("for", Tk("for") \o Tk("(") \o If({";"}, Eat, Node("init", init))
                    \o If({";"}, <<>>, Node("cond", Expr({";"}))) \o Tk(";")
                    \o If({")"}, <<>>, Node("post", Expr({")"}))) \o Tk(")")
                    \o parseBlockOrSingleStatement("body"))

parseCatchClause ==
    LET legacy == Keep \o Tk(":") \o Attempt(parseTypeUntil({")"}))
        fields == Attempt(localField) \o While({","}, Eat \o Attempt(localField \o Discard("binding")))
    IN  Node("catch", Opt(IdentLike, Node("kind", Keep))
                      \o Opt({"("}, Eat \o Case(<<On({")"}, <<>>), On2(ID, {":"}, legacy),
                                                  Otherwise(fields)>>) \o Tk(")"))
                      \o Node("body", Ref("parseStatementBlock")))
(* The names a returns clause binds are parsed and forgotten.                *)
parseTryCatchStatement ==
    Node("try", Eat \o Expr({"{", "returns"})
                \o Opt({"returns"}, Eat \o Opt({"("}, Attempt(parseFieldList(FALSE, TRUE)
                                                              \o Discard("binding"))))
                \o Node("body", Ref("parseStatementBlock"))
                \o If({"catch"}, While({"catch"}, Eat \o Ref("parseCatchClause")), Diag))

parseStatement ==
    Case(<<<<<<{"("}, TypeStart, IdentLike>>, Ref("parseTypeFirstTupleDecl")>>>>
         \o typeFirst(Ref("parseTypeFirstVarDecl"))
         \o <<On({";"}, Eat \o Lose("empty") \o Fail),
              On({"let"}, Ref("parseLetStatement")), On({"set"}, Ref("parseSetStatement")),
              On({"return"}, parseReturnStatement),
              On({"break"}, Node("break", Eat \o Tk(";"))),
              On({"continue"}, Node("continue", Eat \o Tk(";"))),
              On({"require"}, parseRequireAssertStatement("require")),
              On({"assert"}, parseRequireAssertStatement("assert")),
              On({"revert"}, parseUnaryCallLikeStatement("revert")),
              On({"emit"}, parseUnaryCallLikeStatement("emit")),
              On({"delete"}, parseDeleteStatement), On({"if"}, Ref("parseIfStatement")),
              On({"do"}, Ref("parseDoWhileStatement")), On({"while"}, Ref("parseWhileStatement")),
              On({"for"}, Ref("parseForStatement")), prefixIncDec("++"), prefixIncDec("--"),
              On({"unchecked"}, parseUncheckedStatement), On({"try"}, Ref("parseTryCatchStatement")),
              Otherwise(Ref("parseExprSemicolonStmt"))>>)

(***************************************************************************)
(* Test blocks.                                                             *)
(***************************************************************************)
attributeValue(name, value) ==
    Node(name, Eat \o Opt({"("}, Eat \o value \o Opt({")"}, Eat)))
parseTestAttributes ==
    While({"@"}, Eat \o Case(<<On({"skip", "cases"}, Keep),
        On({"fuzz"}, attributeValue("fuzz", Opt({"count"}, Eat \o Opt({"="}, Eat \o Opt({"Number"}, Keep))))),
        On({"timeout"}, attributeValue("timeout", Opt({"Number"}, Keep))),
        On({"tag"}, attributeValue("tag", Opt({"String"}, Keep))),
        On(ID, Skip("attribute") \o Opt({"("}, skipParens("attribute"))),
        Otherwise(Return)>>))

testBody == Node("body", Ref("parseTestStatementBlock"))
(* A second setup or teardown function of a kind replaces the first.          *)
parseTestLifecycleFn(kind) ==
    Has(kind, Lose("lifecycle"), <<>>)
    \o Node(kind, Eat \o (IF kind \in {"setup", "setup_suite"}
                          THEN Opt({"returns", "->"}, Eat \o parseFieldList(FALSE, FALSE))
                          ELSE Opt({"("}, parseFieldList(FALSE, FALSE)))
                      \o testBody)
parseTestFn ==
    Node("testfn", Tk("function") \o Cap(ID) \o parseFieldList(FALSE, FALSE) \o testBody
                   \o Has("cases", Attempt(Ref("parseCasesTable")), <<>>))
parseMockDecl ==
    LET method == Node("method", Eat \o Cap(ID) \o parseFieldList(FALSE, FALSE)
                                 \o Opt({"returns"}, Eat \o parseFieldList(FALSE, FALSE)) \o testBody)
    IN  Node("mockdecl", Eat \o Cap(ID) \o Opt({":"}, Eat \o Opt(ID, Keep)) \o Tk("{")
                     \o Until({"}"}, If({"function"}, method, Diag \o Ref("syncUnknownMember")))
                     \o Tk("}"))
casesRow ==
    Until({"}"}, Expr({"|", "}"})
                 \o If({"|"}, Eat \o Opt({"|", "}", EOF}, Return), Return))
casesHeader ==
    Until({}, Case(<<On2(ID, {"|"}, Keep \o Eat), On(ID, Keep \o Return), Otherwise(Return)>>))
parseCasesTable ==
    Node("table", Tk("cases") \o Tk("{") \o Tk("|")
                  \o Ref("casesHeader")
                  \o While({"|"}, Eat \o Node("row", Attempt(Ref("casesRow")))) \o Tk("}"))
parseTestMember ==
    Attempt(Node("attrs", Ref("parseTestAttributes"))
            \o Case(<<On({"function"}, Ref("parseTestFn")),
                      On(TestBlockKeyword \ {"mock"}, Discard("attribute") \o Ref("lifecycle")),
                      On({"mock"}, Discard("attribute") \o Ref("parseMockDecl")),
                      On2(TypeStart, {"Ident", "["}, Discard("attribute") \o Ref("parseTypeFirstVarDecl")),
                      On({"let"}, Discard("attribute") \o Ref("parseLetStatement")),
                      Otherwise(Discard("attribute") \o Diag \o Ref("syncUnknownMember"))>>))
lifecycle == Case(<<On({"setup"}, parseTestLifecycleFn("setup")),
                    On({"setup_suite"}, parseTestLifecycleFn("setup_suite")),
                    On({"teardown"}, parseTestLifecycleFn("teardown")),
                    On({"teardown_suite"}, parseTestLifecycleFn("teardown_suite"))>>)
parseTestDecl == Node("test", Tk("test") \o Cap(ID) \o Tk("{")
                              \o Until({"}"}, Ref("parseTestMember")) \o Tk("}"))

parseDeployStatement ==
    Node("deploystmt", Cap(ID) \o If({"("}, Eat \o arguments, Node("args", <<>>))
                   \o Opt({"->"}, Eat \o Cap(ID)) \o Tk(";"))
parseWithStatement == Node("withstmt", Expr({"{"}) \o testBody)
parseAssertRevertStatement ==
    Node("revertblock", Eat \o Opt({"("}, Eat \o If({")"}, <<>>, Expr({")"})) \o Tk(")")) \o testBody)
parseTestStatementBlock ==
    If({"{"}, Eat, Err)
    \o Until({"}"}, Try(Case(<<On({"deploy"}, Eat \o parseDeployStatement),
                               On({"with"}, Eat \o parseWithStatement),
                               On({"assert_all"}, Node("allblock", Eat \o testBody)),
                               On({"assert_instructions_le"},
                                  Node("costblock", Eat \o Expr({"{"}) \o testBody)),
                               On({"assert_revert"}, parseAssertRevertStatement),
                               Otherwise(Ref("parseStatement"))>>), Ref("syncStatement")))
    \o If({EOF}, Err, Eat)

(***************************************************************************)
(* The parser functions by name.                                            *)
(***************************************************************************)
Rules == [consumeBlock |-> consumeBlock, consumeParens |-> consumeParens,
    syncStatement |-> syncStatement, syncUnknownMember |-> syncUnknownMember,
    genericArgs |-> genericArgs, dottedRest |-> dottedRest, parseDottedName |-> parseDottedName,
    parseModifiersUntilBlock |-> parseModifiersUntilBlock,
    parseModifiersUntilSemicolon |-> parseModifiersUntilSemicolon,
    parseModifierBody |-> parseModifierBody, collectAttrArgs |-> collectAttrArgs,
    parseFunctionAttributes |-> parseFunctionAttributes,
    parseErrorDecl |-> parseErrorDecl, parseEnumDecl |-> parseEnumDecl,
    parseStructDecl |-> parseStructDecl, parseTypeDecl |-> parseTypeDecl,
    parseUsingDecl |-> parseUsingDecl, parseModifierDecl |-> parseModifierDecl,
    parseStorageSlot |-> parseStorageSlot, parseAgentTypeSlot |-> parseAgentTypeSlot,
    parseEventDecl |-> parseEventDecl, parseFunctionDecl |-> parseFunctionDecl,
    parseConstructorDecl |-> parseConstructorDecl, parseFallbackDecl |-> parseFallbackDecl,
    parseReceiveDecl |-> parseReceiveDecl, parseImmutableDecl |-> parseImmutableDecl,
    parseConstantDecl |-> parseConstantDecl,
    parseImmutableDeclTypeFirst |-> parseImmutableDeclTypeFirst,
    parseConstantDeclTypeFirst |-> parseConstantDeclTypeFirst,
    parseCapabilityDecl |-> parseCapabilityDecl, parsePurposeDecl |-> parsePurposeDecl,
    parseManifestDecl |-> parseManifestDecl, parseContractMember |-> parseContractMember,
    parseContractDecl |-> parseContractDecl, parseFuncSigDecl |-> parseFuncSigDecl,
    parseInterfaceDecl |-> parseInterfaceDecl, parseLibraryDecl |-> parseLibraryDecl,
    rejectAbstractContractDecl |-> rejectAbstractContractDecl,
    parseImportDecl |-> parseImportDecl, moduleDecls |-> moduleDecls,
    moduleContracts |-> moduleContracts, parseStatementBlock |-> parseStatementBlock,
    parseStatement |-> parseStatement, parseTypeFirstVarDecl |-> parseTypeFirstVarDecl,
    parseTypeFirstTupleDecl |-> parseTypeFirstTupleDecl, parseLetStatement |-> parseLetStatement,
    parseSetStatement |-> parseSetStatement, parseIfStatement |-> parseIfStatement,
    parseWhileStatement |-> parseWhileStatement, parseDoWhileStatement |-> parseDoWhileStatement,
    parseForStatement |-> parseForStatement, parseTryCatchStatement |-> parseTryCatchStatement,
    parseCatchClause |-> parseCatchClause, parseExprSemicolonStmt |-> parseExprSemicolonStmt,
    parseTestDecl |-> parseTestDecl, parseTestMember |-> parseTestMember,
    parseTestAttributes |-> parseTestAttributes, lifecycle |-> lifecycle,
    parseTestFn |-> parseTestFn, parseMockDecl |-> parseMockDecl,
    parseCasesTable |-> parseCasesTable, casesRow |-> casesRow, casesHeader |-> casesHeader,
    parseTestStatementBlock |-> parseTestStatementBlock]
=============================================================================
