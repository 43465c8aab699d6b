--------------------------- MODULE TolDeclarations ---------------------------
(***************************************************************************)
(* The functions of tol/parser/parser.go that parse modules, contracts and *)
(* their members, in the notation of TolTokens.  A definition has the name *)
(* of its Go function; Ref calls a function by name, so that functions can *)
(* be mutually recursive.  A Go function that returns nil or false fails;  *)
(* a caller that goes on regardless uses Attempt.                          *)
(***************************************************************************)
EXTENDS TolTokens

(***************************************************************************)
(* Error recovery.                                                          *)
(***************************************************************************)
consumeBlock  == Tk("{") \o Until({"}"}, If({"{"}, Ref("consumeBlock"), Eat)) \o Tk("}")
consumeParens == Tk("(") \o Until({")"}, If({"("}, Ref("consumeParens"), Eat)) \o Tk(")")
skipBlock(why)  == Lose(why) \o Attempt(Ref("consumeBlock"))
skipParens(why) == Lose(why) \o Attempt(Ref("consumeParens"))

syncStatement ==
    Until({"}"}, Case(<<On({";"}, Drop \o Return),
                        On({"{"}, Drop \o Attempt(Until({"}"}, If({"{"}, Ref("consumeBlock"), Eat))
                                                  \o Tk("}")) \o Return),
                        Otherwise(Drop)>>))

syncUnknownMemberStaying ==
    Until({"}"}, Case(<<On(ContractMemberStart, Return),
                        On({"{"}, skipBlock("recovery") \o Return),
                        On({";"}, Drop \o Return)>>))
(* Stops at a token that may start a contract member, without consuming it. *)
syncUnknownMember ==
    Until({"}"}, Case(<<On(ContractMemberStart, Return),
                        On({"{"}, skipBlock("recovery") \o Return),
                        On({";"}, Drop \o Return),
                        Otherwise(Drop)>>))

syncUntilAfterSemicolon == SyncUntil({";", "}"}) \o Opt({";"}, Eat)

(***************************************************************************)
(* Types, fields and modifiers.  TolParser executes the scan of a type and *)
(* holds its stop condition.                                                *)
(***************************************************************************)
parseTypeUntil(S) == Node("type", Scan("until", S, ""))

fieldName(indexed) ==
    IF indexed THEN If({"indexed"}, Eat \o Opt(ID, Keep) \o Leaf("indexed"),
                       Opt(ID, Keep) \o Opt({"indexed"}, Keep))
               ELSE Opt(ID, Keep)

parseField(allowIndexed, allowDataLoc) ==
    Node("field",
         Node("type", Scan("field", (IF allowIndexed THEN {"indexed"} ELSE {})
                                    \cup (IF allowDataLoc THEN DataLoc ELSE {}), ""))
         \o (IF allowDataLoc THEN Opt(DataLoc, Keep) ELSE <<>>)
         \o fieldName(allowIndexed))

parseFieldList(allowIndexed, allowDataLoc) ==
    LET field == Try(parseField(allowIndexed, allowDataLoc), SyncUntil({",", ")"}))
    IN  Node("fields", Tk("(") \o If({")"}, Eat, List(field) \o Tk(")")))

payableAsset ==
    Eat \o Eat
    \o If({"Ident", "uno"}, Node("payable", Keep \o Opt({")"}, Eat)),
                            Opt({")"}, Eat) \o Leaf("payable"))

parseModifiersUntilBlock ==
    Until({"{", "returns"},
          Case(<<On({";"}, Eat \o Return),
                 On({"virtual"}, Diag \o Drop),
                 On({"override"}, Diag \o Drop \o Opt({"("}, skipParens("recovery"))),
                 On2({"payable"}, {"("}, payableAsset),
                 Otherwise(Keep)>>))

parseModifiersUntilSemicolon ==
    Until({"{", ";", "}", "returns"},
          Case(<<On2({"payable"}, {"("}, payableAsset), Otherwise(Keep)>>))

(***************************************************************************)
(* The members of a contract.                                               *)
(***************************************************************************)
parseErrorDecl == Node("error", Tk("error") \o Cap(ID) \o parseFieldList(FALSE, FALSE)
                                \o If({";"}, Eat, Diag))

parseEnumDecl ==
    LET member == If(ID, Keep, Diag \o SyncUntil({",", "}"}))
    IN  Node("enum", Tk("enum") \o Cap(ID) \o Tk("{")
                     \o If({"}", EOF}, <<>>,
                           member \o While({","}, Eat \o If({"}", EOF}, <<>>, member)))
                     \o Tk("}"))

parseStructDecl ==
    LET field == Node("field", Node("type", Scan("struct", {";", "}"}, "")) \o Cap(ID)
                               \o Opt({";"}, Eat))
    IN  Node("struct", Tk("struct") \o Cap(ID) \o Tk("{")
                       \o Until({"}"}, Try(field, SyncUntil({";", "}"}) \o Opt({";"}, Eat)))
                       \o Tk("}")) \o AddStruct

parseTypeDecl == Node("typedecl", Tk("type") \o Cap(ID) \o Tk("is")
                                  \o parseTypeUntil({";"}) \o Tk(";"))

parseUsingDecl ==
    LET function == Node("alias", Cap(IdentLike) \o Opt({"as"}, Eat \o If({EOF}, <<>>, Keep)))
                    \o Opt({","}, Eat)
        library  == If({"{"}, Node("list", Eat \o Until({"}"}, function) \o Opt({"}"}, Eat)),
                              Cap(IdentLike))
    IN  Node("using", Eat \o Try(library \o Tk("for")
                                 \o If({"*"}, Keep, parseTypeUntil({";", "global"})),
                                 syncUntilAfterSemicolon \o Fail)
                      \o Opt({"global"}, Eat) \o Opt({";"}, Eat))

body(what) == Node(what, Ref("parseStatementBlock"))

parseModifierBody ==
    LET placeholder == Node("placeholder", Eat \o Tk(";"))
    IN  If({"{"}, Eat, Err)
        \o Until({"}"}, Try(If({"_"}, placeholder, Ref("parseStatement")), Ref("syncStatement")))
        \o If({EOF}, Err, Eat)

parseModifierDecl ==
    Node("modifier",
         Tk("modifier") \o Cap(ID) \o If({"("}, parseFieldList(FALSE, FALSE), Node("fields", <<>>))
         \o While({"virtual", "override"},
                  Diag \o If({"virtual"}, Drop, Drop \o Opt({"("}, skipParens("recovery"))))
         \o If({";"}, Diag \o Eat \o Fail, Node("body", Ref("parseModifierBody"))))

(* One visibility is kept, the last; override only gives a diagnostic.       *)
slotModifiers ==
    Node("visibility", While(StateVarModifier, If({"override"}, Diag \o Eat, Keep)))

parseStorageSlotName ==
    parseField(FALSE, FALSE)
    \o Has("named", <<>>, If(StateVarModifier, slotModifiers \o Cap(ID), Err))

parseStorageSlot ==
    Node("slot",
         Opt({"transient"}, Keep)
         \o Try(parseStorageSlotName, SyncUntil({";", "}"}) \o Opt({";"}, Eat) \o Fail)
         \o Opt({"="}, Eat \o Try(Expr({";"}), Diag))
         \o Tk(";"))

parseAgentTypeSlot ==
    LET size == Keep \o If({"]"}, Eat, Keep \o Opt({"]"}, Eat)) \o Leaf("]")
        type == Keep \o Opt({"<"}, Keep \o Ref("genericArgs")) \o While({"["}, size)
    IN  Node("slot", Node("field", Node("type", type)) \o slotModifiers
                     \o If(ID, Keep, Diag \o SyncUntil({";", "}"}) \o Opt({";"}, Eat) \o Fail)
                     \o Tk(";"))
genericArgs == Until({">"}, If({"<"}, Keep \o Ref("genericArgs"), Keep)) \o Opt({">"}, Keep)

parseEventDecl == Node("event", Tk("event") \o Cap(ID) \o parseFieldList(TRUE, FALSE)
                                \o Opt({"anonymous"}, Keep) \o Opt({";"}, Eat))

modifiers(rule) == Node("mods", Ref(rule))

parseFunctionDecl ==
    Node("function",
         TakeDoc \o Tk("function") \o Cap(IdentLike) \o parseFieldList(FALSE, TRUE)
         \o Node("mods", Ref("parseModifiersUntilBlock")
                         \o Opt({"returns"}, Eat \o parseFieldList(FALSE, FALSE)
                                             \o Ref("parseModifiersUntilBlock")))
         \o If({"{"}, body("body"), Err))

parseConstructorDecl ==
    Node("constructor", TakeDoc \o Tk("constructor")
                        \o If({"("}, parseFieldList(FALSE, TRUE), Node("fields", <<>>))
                        \o modifiers("parseModifiersUntilBlock") \o body("body"))

parseFallbackDecl ==
    Node("fallback",
         TakeDoc \o Tk("fallback")
         \o Opt({"("}, parseFieldList(FALSE, FALSE) \o Has("params", Diag, <<>>)
                     \o Discard("recovery"))
         \o modifiers("parseModifiersUntilBlock") \o Discard("modifiers") \o body("body"))

parseReceiveDecl ==
    Node("receive",
         TakeDoc \o Eat \o Tk("(")
         \o If({")"}, <<>>, Diag \o Until({")", "{"}, Eat)) \o Opt({")"}, Eat)
         \o Node("asset", Ref("parseModifiersUntilBlock") \o Has("payable", <<>>, Diag))
         \o body("body"))

parseImmutableDecl == Node("immutable", Tk("immutable") \o Cap(ID) \o Tk(":")
                                        \o Try(parseTypeUntil({";"}), <<>>) \o Tk(";"))
parseConstantDecl  == Node("constant", Tk("constant") \o Cap(ID) \o Tk(":")
                                       \o Try(parseTypeUntil({"=", ";"}), <<>>)
                                       \o Tk("=") \o Expr({";"}) \o Tk(";"))
(* The forms with the type first give the same node: name, type, value.      *)
parseImmutableDeclTypeFirst == Node("immutable", parseTypeUntil({"immutable"}) \o Tk("immutable")
                                    \o Cap(ID) \o <<[o |-> "swap"]>> \o Tk(";"))
parseConstantDeclTypeFirst  == Node("constant", parseTypeUntil({"constant"}) \o Tk("constant")
                                    \o Cap(ID) \o <<[o |-> "swap"]>>
                                    \o Tk("=") \o Expr({";"}) \o Tk(";"))

namedDecl(kind) ==
    Node(kind, Eat \o If(ID, Keep, Diag \o syncUntilAfterSemicolon \o Fail) \o Tk(";"))
parseCapabilityDecl == namedDecl("capability")
parsePurposeDecl    == namedDecl("purpose")

parseManifestDecl ==
    LET element == If({"Ident", "String"}, Keep \o Opt({","}, Eat),
                      Diag \o SyncUntil({"]", "}"}) \o Fail)
        array   == Node("array", Eat \o Until({"]"}, element) \o Opt({"]"}, Eat))
        value   == Case(<<On({"String", "Number"}, Keep), On({"["}, array),
                          Otherwise(Diag \o SyncUntil({"}"}))>>)
        field   == Node("entry", If(ID, Keep, Diag \o SyncUntil({"}"}) \o Fail)
                                 \o Try(Tk(":"), SyncUntil({"}"}) \o Fail) \o value)
    IN  Node("manifest", Eat \o Tk("{")
                         \o Until({"}"}, Attempt(field) \o Opt({",", ";"}, Eat)) \o Tk("}"))

(***************************************************************************)
(* Attributes.  They are read before the function they belong to: each      *)
(* adds to the pending documentation, which the function takes.             *)
(***************************************************************************)
collectAttrArgs == Until({")"}, If({"("}, Eat \o Ref("collectAttrArgs"), Eat)) \o Opt({")"}, Eat)

attributeWithArgs(tag) == If({"("}, Eat \o Ref("collectAttrArgs") \o Tag(tag), Lose("attribute"))
attributeFlag(tag) ==
    If({"("}, Eat \o Tag(tag) \o Lose("attribute") \o Ref("collectAttrArgs"), Tag(tag))

selectorAttribute ==
    Opt({"("}, Eat \o If({"String"}, Has("selector", Diag \o Discard("recovery"), <<>>)
                                     \o Node("selector", Keep) \o Until({")"}, Skip("attribute")) \o Opt({")"}, Eat),
                                     Diag \o Ref("collectAttrArgs")))

parseFunctionAttributes ==
    While({"@"},
          Eat \o Case(<<On({"selector"}, Eat \o selectorAttribute),
                        On({"requires"}, Eat \o attributeWithArgs("requires")),
                        On({"pay"}, Eat \o attributeWithArgs("pay")),
                        On({"quota"}, Eat \o attributeWithArgs("quota")),
                        On({"total_cost"}, Eat \o attributeWithArgs("total_cost")),
                        On({"verifiable"}, Eat \o attributeFlag("verifiable")),
                        On({"delegated"}, Eat \o attributeFlag("delegated")),
                        On(ID, Drop \o Diag \o Opt({"("}, Eat \o Ref("collectAttrArgs"))),
                        Otherwise(Err)>>))

attributedFunction(function, recover) ==
    Attempt(Try(Ref("parseFunctionAttributes"), recover \o Fail)
            \o If({"function"}, Ref(function), Diag \o Ref("syncUnknownMember") \o Fail))

(***************************************************************************)
(* Contracts, interfaces, libraries and the module.                         *)
(***************************************************************************)
once(kind, rule) == Has(kind, Attempt(Ref(rule) \o Diag \o Fail), Attempt(Ref(rule)))
distinct(rule)   == Attempt(Ref(rule) \o IfDup(Diag \o Fail))
decl(S, rule)    == On(S, Attempt(Ref(rule)))

commonDecls == <<decl({"error"}, "parseErrorDecl"), decl({"enum"}, "parseEnumDecl"),
                 decl({"event"}, "parseEventDecl"), decl({"struct"}, "parseStructDecl"),
                 decl({"type"}, "parseTypeDecl"), decl({"using"}, "parseUsingDecl")>>
typeFirstConstant == On2(TypeStart, {"constant"}, Attempt(Ref("parseConstantDeclTypeFirst")))
unsupported == Otherwise(Diag \o Ref("syncUnknownMember"))

parseContractMember ==
    Case(commonDecls
         \o <<On({"receive"}, once("receive", "parseReceiveDecl")),
              On({"@"}, attributedFunction("parseFunctionDecl", <<>>)),
              On({"capability"}, distinct("parseCapabilityDecl")),
              On({"purpose"}, distinct("parsePurposeDecl")),
              On({"manifest"}, once("manifest", "parseManifestDecl")),
              decl({"agent"}, "parseAgentTypeSlot"),
              decl({"transient"}, "parseStorageSlot"),
              decl({"function"}, "parseFunctionDecl"),
              On({"constructor"}, once("constructor", "parseConstructorDecl")),
              On({"fallback"}, once("fallback", "parseFallbackDecl")),
              decl({"modifier"}, "parseModifierDecl"),
              decl({"immutable"}, "parseImmutableDecl"),
              decl({"constant"}, "parseConstantDecl"),
              typeFirstConstant,
              On2(TypeStart, {"immutable"}, Attempt(Ref("parseImmutableDeclTypeFirst"))),
              decl(TypeStart, "parseStorageSlot"),
              unsupported>>)

baseArguments == Diag \o Eat \o Attempt(Until({")"}, Expr({",", ")"}) \o Discard("recovery") \o Opt({","}, Eat)))
                 \o Opt({")"}, Eat)
contractBases == Node("bases", Eat \o Attempt(List(If(ID, Keep \o Opt({"("}, baseArguments), Err))))

parseContractDecl ==
    Node("contract", Tk("contract") \o Cap(ID) \o Opt({"is"}, contractBases)
                     \o Tk("{") \o Until({"}"}, Ref("parseContractMember")) \o Tk("}"))

parseFuncSigDecl ==
    Node("funcsig",
         TakeDoc \o Tk("function") \o Cap(ID) \o parseFieldList(FALSE, TRUE)
         \o Node("mods", Ref("parseModifiersUntilSemicolon")
                         \o Opt({"returns"}, Eat \o parseFieldList(FALSE, FALSE)
                                             \o Until({"{", ";", "}"}, Keep)))
         \o Case(<<On({";"}, Eat), On({"{"}, skipBlock("body"))>>))

parseInterfaceDecl ==
    Node("interface",
         Tk("interface") \o Cap(ID) \o Tk("{")
         \o Until({"}"}, Case(commonDecls
                              \o <<decl({"function"}, "parseFuncSigDecl"),
                                   On({"@"}, attributedFunction("parseFuncSigDecl",
                                                                Ref("syncUnknownMember"))),
                                   unsupported>>))
         \o Tk("}"))

parseLibraryDecl ==
    Node("library",
         Tk("library") \o Cap(ID) \o Tk("{")
         \o Until({"}"}, Case(commonDecls
                              \o <<On({"@"}, attributedFunction("parseFunctionDecl",
                                                                Ref("syncUnknownMember"))),
                                   decl({"function"}, "parseFunctionDecl"),
                                   decl({"constant"}, "parseConstantDecl"),
                                   typeFirstConstant, unsupported>>))
         \o Tk("}"))

rejectAbstractContractDecl ==
    Diag \o Drop
    \o Opt({"contract"}, Drop \o Opt(IdentLike, Drop) \o Until({"{", ";"}, Drop)
                         \o Case(<<On({"{"}, skipBlock("recovery")), On({";"}, Drop)>>))

parseDottedName ==
    Node("dotted", If(ID, Keep \o Ref("dottedRest"), Diag))
dottedRest == Until({}, Case(<<On2({"."}, ID, Eat \o Keep), Otherwise(Return)>>))

(* import "path" [as x];   import * as x from "path";                        *)
importPath == Node("import", Keep \o Opt({"as"}, Eat \o Cap(ID)) \o Tk(";"))
importStar == Node("importstar", Eat \o Tk("as") \o Cap(ID) \o Tk("from") \o Cap({"String"}) \o Tk(";"))
(* import { x as y, z } from "path";                                         *)
importNamed ==
    LET symbol == Node("symbol", Cap(ID) \o Opt({"as"}, Eat \o Cap(ID)) \o Opt({","}, Eat))
    IN  Node("importnamed", Eat \o Until({"}"}, symbol) \o Tk("}") \o Tk("from")
                            \o Cap({"String"}) \o Tk(";"))
(* import a.b.C [as x];   import x from "path";                              *)
importPackage ==
    Case(<<<<<<ID, {"."}, ID>>, Node("importpkg", Ref("parseDottedName")
                                                  \o Opt({"as"}, Eat \o Cap(ID)) \o Tk(";"))>>,
           On2(ID, {"."}, Eat \o Err),
           Otherwise(Node("importname", Keep \o Tk("from") \o Cap({"String"}) \o Tk(";")))>>)
parseImportDecl ==
    Tk("import") \o Case(<<On({"String"}, importPath), On({"*"}, importStar),
                           On({"{"}, importNamed), On(ID, importPackage), Otherwise(Err)>>)

extractPragmaVersion == Until({";"} \cup Versions, Eat) \o Opt(Versions, Node("version", Keep))

moduleHeader ==
    Tk("pragma") \o extractPragmaVersion \o Until({";"}, Eat) \o Opt({";"}, Eat)
    \o Opt({"package"}, Node("package", Eat \o Ref("parseDottedName") \o Tk(";")))
    \o While({"import"}, Attempt(Ref("parseImportDecl")))

moduleDecls ==
    Until({}, Case(commonDecls
                   \o <<decl({"interface"}, "parseInterfaceDecl"), decl({"library"}, "parseLibraryDecl"),
                        decl({"function"}, "parseFunctionDecl"), decl({"constant"}, "parseConstantDecl"),
                        decl({"capability"}, "parseCapabilityDecl"),
                        On({"abstract"}, Ref("rejectAbstractContractDecl")),
                        typeFirstConstant, Otherwise(Return)>>))

moduleContracts ==
    Until({}, Case(<<decl({"contract"}, "parseContractDecl"),
                     On2({"account"}, {"contract"},
                         Eat \o Attempt(Ref("parseContractDecl") \o Wrap("account", 1))),
                     On({"account"}, Eat \o Diag \o Return),
                     decl({"interface"}, "parseInterfaceDecl"), decl({"library"}, "parseLibraryDecl"),
                     On({"abstract"}, Ref("rejectAbstractContractDecl")),
                     decl({"test"}, "parseTestDecl"), Otherwise(Return)>>))

(* Every token after the last contract, and a module with anything but      *)
(* declarations, gives a diagnostic.                                         *)
parseModule ==
    Node("module", Attempt(moduleHeader \o Ref("moduleDecls")
                           \o While({"test"}, Attempt(Ref("parseTestDecl")))
                           \o Ref("moduleContracts") \o If({EOF}, <<>>, Diag)))
=============================================================================
