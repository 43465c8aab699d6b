------------------------------ MODULE TolChecks -----------------------------
(***************************************************************************)
(* The check of a whole contract (checkOneContract of tol/sema/sema.go):   *)
(* names, modifiers, immutables, constants, and the checks of TolSema and  *)
(* TolEffects on every body.  A contract is accepted when no code is       *)
(* reported.  The declaration c of a contract has                          *)
(*   slots      a sequence of [name, shape, imm, init]: a storage slot or  *)
(*              an immutable, with its initial value or Nil;               *)
(*   constants  a sequence of [name, value];                               *)
(*   events     a sequence of [name, params];                              *)
(*   errors     the names of its custom errors;                            *)
(*   modifiers  a sequence of [name, body];                                *)
(*   funcs      a sequence of functions (see TolEffects), each with its    *)
(*              selector override sel, "" for none;                        *)
(*   ctor, fallback, receive  <<>> or <<[params, mods, body]>>.            *)
(* Types, enums, structs, libraries and the agent annotations are left     *)
(* out.                                                                    *)
(***************************************************************************)
EXTENDS TolEffects

Names(decls) == [i \in DOMAIN decls |-> decls[i].name]

Duplicates(s) == \E i, j \in DOMAIN s : i < j /\ s[i] = s[j]

code(reported, c) == IF reported THEN {c} ELSE {}

(* "__tol_name" stands for every name with the prefix "__tol_".            *)
ReservedNames == {"this", "selector", "__tol_name"}

(* ------------------------------- names --------------------------------- *)

reserved(names) == code(ToSet(names) \cap ReservedNames # {}, "ReservedName")

(* Errors, modifiers and constants share one table of names.               *)
supportNames(c) == c.errors \o Names(c.modifiers) \o Names(c.constants)

checkErrors(c) == reserved(c.errors) \cup code(Duplicates(c.errors), "NameCollision")

checkModifierNames(c) ==
    LET names == Names(c.modifiers)
    IN  reserved(names)
        \cup code(Duplicates(names), "DuplicateModifier")
        \cup code(ToSet(names) \cap ToSet(c.errors) # {}, "NameCollision")

checkEvents(c) ==
    reserved(Names(c.events))
    \cup code(Duplicates(Names(c.events)), "DuplicateEvent")
    \cup code(\E i \in DOMAIN c.events : Duplicates(c.events[i].params), "DuplicateParam")

(* An immutable is a slot of a value type.                                 *)
checkSlots(c) ==
    reserved(Names(c.slots))
    \cup code(Duplicates(Names(c.slots)), "DuplicateSlot")
    \cup code(\E s \in ToSet(c.slots) : s.imm /\ s.shape # <<>>, "ImmutableBadType")

checkContractNameCollisions(c) ==
    LET slots == ToSet(Names(c.slots))
        funcs == ToSet(Names(c.funcs))
        events == ToSet(Names(c.events))
    IN  code(events \cap (funcs \cup slots) # {} \/ funcs \cap slots # {},
             "NameCollision")

checkContractSupportNameCollisions(c) ==
    code(ToSet(supportNames(c)) \cap
             ToSet(Names(c.slots) \o Names(c.events) \o Names(c.funcs)) # {},
         "NameCollision")

(* ----------------------------- modifiers ------------------------------- *)

Visibilities == {"public", "external", "internal", "private"}

(* The last visibility counts; "" when there is none.                      *)
visibilityOf(mods) ==
    LET vs == SelectSeq(mods, LAMBDA m : m \in Visibilities)
    IN  IF vs = <<>> THEN "" ELSE Last(vs)

validateFunctionModifiers(mods, userMods) ==
    LET count(S) == Len(SelectSeq(mods, LAMBDA m : m \in S \ userMods))
    IN  code(count(Visibilities) > 1 \/ count({"view", "pure", "payable"}) > 1,
             "ConflictingModifier")
        \cup code(~ToSet(mods) \subseteq
                      Visibilities \cup {"view", "pure", "payable"} \cup userMods,
                  "UnknownModifier")

validateConstructorModifiers(mods) ==
    LET count(S) == Len(SelectSeq(mods, LAMBDA m : m \in S))
    IN  code(count({"public", "internal"}) > 1 \/ count({"payable"}) > 1,
             "ConflictingModifier")
        \cup code(~ToSet(mods) \subseteq {"public", "internal", "payable"},
                  "InvalidFnModifier")

(* Placeholders in catch clauses are not counted.                          *)
countPlaceholders(body) ==
    Len(SelectSeq(Flatten(body), LAMBDA s : s.k = "placeholder"))

checkModifierBody(C, md) ==
    code(countPlaceholders(md.body) # 1, "ModifierPlaceholder")
    \cup checkStatements(C, md.body, 0)
    \cup checkStorageFunctionBody(C, {}, md.body)

(* ---------------------- immutables and constants ----------------------- *)

(* Only a set statement writes, as far as these checks are concerned, and  *)
(* only outside catch clauses.                                             *)
RECURSIVE checkImmutableWriteStmts(_, _, _)
checkImmutableWriteStmts(C, locals, ss) ==
    UNION {LET s    == ss[i]
               here == LocalsAt(locals, ss, i)
               loop == LocalsAt(here, s.init, Len(s.init) + 1)
               p    == storagePathFromExpr(C, here, s.target)
           IN  code(s.k = "set" /\ p # NoPath /\ C.slots[p.slot].imm,
                    "ImmutableWriteOutsideCtor")
               \cup checkImmutableWriteStmts(C, here, s.init)
               \cup checkImmutableWriteStmts(C, here, s.then)
               \cup checkImmutableWriteStmts(C, here, s.els)
               \cup checkImmutableWriteStmts(C, loop, s.body)
           : i \in DOMAIN ss}

WritesAtTopOnly(C, params, body) ==    \* the blocks of a body are not visited
    code(\E s \in ToSet(body) : /\ s.k = "set" /\ storagePathFromExpr(C, params, s.target) # NoPath
                                /\ C.slots[storagePathFromExpr(C, params, s.target).slot].imm,
         "ImmutableWriteOutsideCtor")
checkImmutableWritesInNonCtor(C, params, body) ==
    IF \E s \in DOMAIN C.slots : C.slots[s].imm
    THEN checkImmutableWriteStmts(C, params, body) ELSE {}

(* One set anywhere in the constructor counts, on whatever path.           *)
collectImmutableAssignments(C, body) ==
    {s.target.v : s \in {t \in ToSet(Flatten(body)) :
        t.k = "set" /\ t.target.k = "ident" /\ t.target.v \in DOMAIN C.slots}}

checkImmutableAssignedInConstructor(C, body) ==
    code(\E s \in DOMAIN C.slots :
             C.slots[s].imm /\ s \notin collectImmutableAssignments(C, body),
         "ImmutableNotAssigned")

RECURSIVE checkConstantSetTargets(_, _)
checkConstantSetTargets(C, ss) ==
    UNION {code(/\ s.k = "set" /\ s.target.k = "ident"
                /\ s.target.v \in C.constants, "ConstantWriteProhibited")
           \cup (IF s.k \in {"if"} \cup Loops
                 THEN checkConstantSetTargets(C, s.then \o s.els \o s.body)
                 ELSE {})
           : s \in ToSet(ss)}

RECURSIVE isConstantExpr(_, _)
isConstantExpr(known, e) ==
    CASE e.k \in {"number", "string"} -> TRUE
      [] e.k = "ident" -> e.v \in {"true", "false"} \cup known
      [] e.k \in {"paren", "unary", "binary"} ->
             \A x \in ToSet(Operands(e)) : isConstantExpr(known, x)
      [] OTHER -> FALSE

checkConstants(c) ==
    LET names == Names(c.constants)
    IN  reserved(names)
        \cup code(Duplicates(names), "DuplicateConstant")
        \cup code(ToSet(names) \cap ToSet(Names(c.slots) \o c.errors \o Names(c.modifiers)) # {},
                  "NameCollision")
        \cup code(\E i \in DOMAIN names :
                      ~isConstantExpr(ToSet(SubSeq(names, 1, i - 1)), c.constants[i].value),
                  "ConstantInvalidValue")

(* ------------------------------ selectors ------------------------------ *)

(* A function without an override is called by (a hash of) its signature;  *)
(* an override may well be the selector of another function.               *)
signatureOf(fn) == fn.name \o "/" \o ToString(Len(fn.params))

selectorDispatchKey(fn) == IF fn.sel # "" THEN fn.sel ELSE signatureOf(fn)

isDispatched(fn) == visibilityOf(fn.mods) \in {"public", "external"}

(* Where the visibility matters for @selector it is that of the last       *)
(* function of the name.                                                   *)
checkSelectors(c) ==
    LET keys == [i \in DOMAIN c.funcs |-> selectorDispatchKey(c.funcs[i])]
        sigs == [i \in DOMAIN c.funcs |-> signatureOf(c.funcs[i])]
        dispatched == {i \in DOMAIN c.funcs : isDispatched(c.funcs[i])}
        last(n) == Max({i \in DOMAIN c.funcs : c.funcs[i].name = n})
    IN  code(Duplicates(sigs), "DuplicateFunction")
        \cup code(\E i, j \in dispatched : i < j /\ keys[i] = keys[j],
                  "DuplicateSelector")
        \cup code(\E i \in DOMAIN c.funcs : c.funcs[i].sel # "" /\ last(c.funcs[i].name) \notin dispatched,
                  "SelectorVisibility")

(* -------------------------- a whole contract --------------------------- *)

(* The tables the checks of bodies work with.  A name with overloads of    *)
(* different arity may be called with any number of arguments.             *)
contractTables(c) ==
    LET arity(decls) ==
            [n \in ToSet(Names(decls)) |->
                LET lens == {Len(d.params) : d \in {x \in ToSet(decls) : x.name = n}}
                IN  IF Cardinality(lens) = 1 THEN CHOOSE l \in lens : TRUE ELSE -1]
        lastNamed(n) == c.funcs[Max({i \in DOMAIN c.funcs : c.funcs[i].name = n})]
    IN  [slots |-> [n \in ToSet(Names(c.slots)) |->
                       CHOOSE s \in ToSet(c.slots) : s.name = n],
         constants |-> ToSet(Names(c.constants)),
         events |-> arity(c.events),
         funcs |-> arity(c.funcs),
         external |-> {n \in ToSet(Names(c.funcs)) : visibilityOf(lastNamed(n).mods) = "external"}]

(* What every body is checked for: of a function, the constructor, the     *)
(* fallback and the receive function.                                      *)
checkBody(C, params, body, returns) ==
    checkStatements(C, body, 0)
    \cup checkReturnStatements(returns, body)
    \cup checkUnreachableStatements(body, 0)
    \cup checkDuplicateLocalsInStmts(ToSet(params), body)
    \cup checkStorageFunctionBody(C, ToSet(params), body)
    \cup checkConstantSetTargets(C, body)

(* A function all of whose returns are named may end without a return.     *)
allNamedReturns(fn) == fn.returns # <<>> /\ "" \notin ToSet(fn.returns)

checkParams(fn) ==
    LET named == SelectSeq(fn.returns, LAMBDA n : n # "")
    IN  code(Duplicates(fn.params) \/ Duplicates(named), "DuplicateParam")
        \cup code(ToSet(fn.params) \cap ToSet(named) # {}, "ParamReturnCollision")

checkFunction(C, fn) ==
    reserved(<<fn.name>>)
    \cup checkParams(fn)
    \cup checkBody(C, fn.params, fn.body, fn.returns # <<>>)
    \cup code(/\ fn.returns # <<>> /\ ~allNamedReturns(fn)
              /\ ~guaranteesValueReturnOrRevert(fn.body), "InvalidReturn")
    \cup checkImmutableWritesInNonCtor(C, ToSet(fn.params), fn.body)
    \cup checkFunctionEffects(C, fn)

checkConstructor(C, ctor) ==
    validateConstructorModifiers(ctor.mods)
    \cup code(Duplicates(ctor.params), "DuplicateParam")
    \cup checkBody(C, ctor.params, ctor.body, FALSE)
    \cup checkImmutableAssignedInConstructor(C, ctor.body)

(* The fallback and the receive function.                                  *)
checkFallback(C, fb) ==
    checkBody(C, <<>>, fb.body, FALSE)
    \cup checkImmutableWritesInNonCtor(C, {}, fb.body)

checkOneContract(c) ==
    LET C == contractTables(c)
        userMods == ToSet(Names(c.modifiers))
    IN  checkErrors(c) \cup checkModifierNames(c) \cup checkEvents(c)
        \cup checkSlots(c) \cup checkConstants(c)
        \cup checkContractNameCollisions(c)
        \cup checkContractSupportNameCollisions(c)
        \cup checkSelectors(c)
        \cup UNION {checkModifierBody(C, c.modifiers[i]) : i \in DOMAIN c.modifiers}
        \cup UNION {validateFunctionModifiers(c.funcs[i].mods, userMods)
                    \cup checkFunction(C, c.funcs[i]) : i \in DOMAIN c.funcs}
        \cup UNION {checkConstructor(C, x) : x \in ToSet(c.ctor)}
        \cup UNION {checkFallback(C, x) : x \in ToSet(c.fallback \o c.receive)}

Accepted(c) == checkOneContract(c) = {}
=============================================================================
