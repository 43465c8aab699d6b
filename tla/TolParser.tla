------------------------------ MODULE TolParser ------------------------------
(***************************************************************************)
(* The TOL parser (tol/parser/parser.go) at work on one source file.  The  *)
(* state is the token it looks at, the instructions it still has to execute *)
(* (its call stack), the syntax tree built so far, and what p.diags,        *)
(* p.pendingDoc and p.structNames hold.  One step executes one instruction  *)
(* of the functions written down in TolDeclarations and TolStatements.      *)
(***************************************************************************)
EXTENDS TolStatements, SequencesExt

VARIABLES
    toks,     \* the tokens of the file; the last one, and only that one, is EOF
    pos,      \* index of the current token (p.cur)
    todo,     \* the instructions to execute, the next one first
    tree,     \* finished parts of the syntax tree, innermost construct last
    doc,      \* pending documentation and attributes (p.pendingDoc)
    structs,  \* names of the structs seen so far (p.structNames)
    diags,    \* has a diagnostic been reported?
    lost      \* why source has been read and not kept: "failed" (it belongs to a
              \* function that failed), "recovery", "empty" or one of Ignored (TolSource)

vars == <<toks, pos, todo, tree, doc, structs, diags, lost>>

cur  == toks[pos]
this == Head(todo)
rest == Tail(todo)
done == todo = <<>>

leaf(t)  == [k |-> t, c |-> <<>>]
EmptyLists == {leaf(k) : k \in {"fields", "mods", "attrs"}}
IsDoc(i) == toks[i] \in DocLines
(* Index of the first token after i that is not a documentation comment.    *)
After(i) == IF i >= Len(toks) THEN Len(toks)
            ELSE CHOOSE j \in (i + 1)..Len(toks) :
                    ~IsDoc(j) /\ \A h \in (i + 1)..(j - 1) : IsDoc(h)
(* next: doc comments passed over join the pending documentation, which is   *)
(* dropped again unless the new token can start a documented declaration.    *)
next ==
    \E j \in {After(pos)} :
    /\ pos' = j
    /\ doc' = IF Match(toks[j], DocKeepers) THEN doc \o SubSeq(toks, pos + 1, j - 1) ELSE <<>>

(* p.peek and p.lex.PeekSecond.                                              *)
Ahead(n) == IF n = 1 THEN cur ELSE IF n = 2 THEN toks[After(pos)] ELSE toks[After(After(pos))]
Guard(g) == \A n \in 1..Len(g) : Match(Ahead(n), g[n])

(***************************************************************************)
(* How children become nodes: what the Go functions store of what they read. *)
(***************************************************************************)
(* A container keeps one list per kind of member, so the order of members of *)
(* different kinds is not part of the tree; of the setup and teardown        *)
(* functions of a test block it keeps the last of each kind.                 *)
MemberKinds == <<"version", "package", "import", "importstar", "importnamed", "importpkg",
    "importname", "bases", "manifest", "slot", "immutable", "typedecl", "enum", "constant", "error",
    "event", "using", "struct", "capability", "purpose", "modifier", "constructor", "function",
    "funcsig", "fallback", "receive", "interface", "library", "contract", "account", "let",
    "setup_suite", "setup", "mockdecl", "testfn", "teardown", "teardown_suite", "test">>
LifecycleKinds == {"setup", "setup_suite", "teardown", "teardown_suite"}
Grouped(c) == LET other(x) == x.k \notin Range(MemberKinds)
              IN  SelectSeq(c, other)
                  \o FlattenSeq([i \in 1..Len(MemberKinds) |->
                                   LET same(x) == x.k = MemberKinds[i]
                                       all == SelectSeq(c, same)
                                   IN  IF MemberKinds[i] \in LifecycleKinds /\ all # <<>>
                                       THEN <<Last(all)>> ELSE all])

(* stripMappingKeyValueNames: of two adjacent type-like tokens before => or   *)
(* before the parenthesis that closes a mapping, the second is a name.        *)
typeLike(x) == x.k \notin {"(", ")", "[", "]", ",", ".", "=>"}
stripName(r) == IF Len(r) >= 2 /\ typeLike(r[Len(r)]) /\ typeLike(r[Len(r) - 1]) THEN Front(r) ELSE r
stripStep(st, x) ==
    LET inMapping == st.open # <<>> /\ st.open[Len(st.open)] IN
    CASE x.k = "mapping" -> [r |-> Append(st.r, x), open |-> Append(st.open, TRUE)]
      [] x.k = "("  -> [r |-> Append(st.r, x),
                        open |-> IF inMapping THEN st.open ELSE Append(st.open, FALSE)]
      [] x.k = ")"  -> [r |-> Append(IF inMapping THEN stripName(st.r) ELSE st.r, x),
                        open |-> IF st.open = <<>> THEN <<>> ELSE Front(st.open)]
      [] x.k = "=>" -> [r |-> Append(IF inMapping THEN stripName(st.r) ELSE st.r, x),
                        open |-> st.open]
      [] OTHER -> [r |-> Append(st.r, x), open |-> st.open]
stripMappingKeyValueNames(c) == FoldLeft(stripStep, [r |-> <<>>, open |-> <<>>], c).r

OneNode(k, c) == <<[k |-> k, c |-> c]>>
make(k, c) ==
    LET isReturns(x) == x.k = "fields" /\ x.c # <<>>
        isModifier(x) == x.k # "fields"
        hasAsset(x) == x.k = "payable" /\ x.c # <<>>
    IN CASE k = "type" -> OneNode(k, stripMappingKeyValueNames(c))
         [] k = "visibility" -> IF c = <<>> THEN <<>> ELSE OneNode(k, <<c[Len(c)]>>)
         [] k = "else" -> IF c = <<>> THEN <<>> ELSE OneNode(k, c)
         [] k = "mods" -> OneNode(k, SelectSeq(c, isModifier) \o SelectSeq(c, isReturns))
         [] k = "method" /\ Len(c) = 4 /\ c[3].c = <<>> -> OneNode(k, <<c[1], c[2], c[4]>>)
         [] k = "importpkg" /\ Len(c) = 2 /\ c[2] = Last(c[1].c) -> OneNode(k, <<c[1]>>)
         [] k = "asset" -> OneNode(k, SelectSeq(c, hasAsset))
         [] k \in {"contract", "interface", "library", "module", "test"} -> OneNode(k, Grouped(c))
         [] k = "member" /\ c = <<leaf("msg"), leaf("agent")>> -> <<leaf("msg_agent")>>
         [] k = "expr" /\ c[1].k = "post++" -> OneNode("set", <<c[1].c[1], leaf("++")>>)
         [] k = "expr" /\ c[1].k = "post--" -> OneNode("set", <<c[1].c[1], leaf("--")>>)
         [] OTHER -> OneNode(k, c)

(* A function takes the attributes read just before it.                      *)
Base(k) == IF k \in {"function", "funcsig", "testfn"} /\ tree # <<>>
              /\ Last(tree).k \in {"selector", "attrs"} THEN Len(tree) - 1 ELSE Len(tree)
Children(d) == SubSeq(tree, d + 1, Len(tree))
Close(k, d) == SubSeq(tree, 1, d) \o make(k, Children(d))
(* Nodes that are built of less than what was read.                          *)
Trims(k, c) == k \in {"type", "visibility", "asset"} /\ c # <<>> /\ make(k, c) # OneNode(k, c)

(* The questions Has asks of the tree.                                       *)
Holds(k) ==
    CASE k = "named"  -> Len(Last(tree).c) > 1
      [] k = "params" -> Last(tree).c # <<>>
      [] k = "cases"  -> \E i \in DOMAIN tree : /\ tree[i].k = "attrs"
                                                /\ \E x \in Range(tree[i].c) : x.k = "cases"
      [] OTHER -> \E i \in DOMAIN tree : tree[i].k = k

(***************************************************************************)
(* The scan of a type: parseField, parseTypeUntil, parseStructDecl.          *)
(***************************************************************************)
parseFieldStops(h, t) ==
    \/ Match(t, h.s \cup {",", ")"})
    \/ h.n > 0 /\ TokType(t) = "Ident" /\ h.last # "."
    \/ /\ h.n > 0 /\ t \in StateVarModifier
       /\ ~(h.fn /\ t \in FunctionTypeModifier)
    \/ /\ h.n > 0 /\ ~Match(t, IdentLike \cup {"mapping", "[", "]", "(", ")", "<", ">", ".", "payable"})
       /\ ~(h.fn /\ t \in FunctionTypeModifier \cup {"returns"})
scanStops(h, t) ==
    \/ t = EOF
    \/ h.mode = "struct" /\ Match(t, h.s)
    \/ /\ h.dp = 0 /\ h.db = 0
       /\ CASE h.mode = "until"  -> Match(t, h.s)
            [] h.mode = "struct" -> h.n > 0 /\ TokType(t) = "Ident"
            [] h.mode = "field"  -> parseFieldStops(h, t)
scanned(h, t) ==
    [h EXCEPT !.n = 1, !.last = t, !.fn = IF h.n = 0 THEN t = "function" ELSE h.fn,
              !.dp = CASE t = "(" -> @ + 1 [] t = ")" /\ @ > 0 -> @ - 1 [] OTHER -> @,
              !.db = CASE t = "[" -> @ + 1 [] t = "]" /\ @ > 0 -> @ - 1 [] OTHER -> @]

(***************************************************************************)
(* The steps.                                                                *)
(***************************************************************************)
Is(o) == todo # <<>> /\ this.o = o
First(o) == CHOOSE i \in DOMAIN todo : todo[i].o = o /\ \A j \in 1..(i - 1) : todo[j].o # o
Resume(i) == SubSeq(todo, i + 1, Len(todo))

(* A function fails: its callers return until one of them carries on.        *)
Unwind ==
    LET i == First("catch") IN
    /\ todo' = todo[i].h \o Resume(i)
    /\ tree' = SubSeq(tree, 1, todo[i].d)

Same(v) == UNCHANGED v

Next_ == /\ Is("next") /\ next
         /\ todo' = rest
         /\ lost' = lost \cup this.lose
         /\ Same(<<toks, tree, structs, diags>>)
Keep_ == /\ Is("keep") /\ next
         /\ todo' = rest
         /\ tree' = Append(tree, leaf(cur))
         /\ Same(<<toks, structs, diags, lost>>)
expect == /\ Is("expect") /\ Match(cur, this.s) /\ next
          /\ todo' = rest
          /\ tree' = IF this.keep THEN Append(tree, leaf(cur)) ELSE tree
          /\ Same(<<toks, structs, diags, lost>>)
RefuseSilently == /\ (Is("expect") /\ ~Match(cur, this.s)) \/ Is("fail")
                  /\ Unwind /\ lost' = lost \cup {"failed"}
                  /\ Same(<<toks, pos, doc, structs, diags>>)
Refuse == /\ \/ Is("expect") /\ ~Match(cur, this.s) /\ diags' = TRUE
             \/ Is("fail") /\ diags' = diags
          /\ Unwind /\ lost' = lost \cup {"failed"}
          /\ Same(<<toks, pos, doc, structs>>)
addDiag == /\ Is("diag")
           /\ diags' = TRUE /\ todo' = rest
           /\ Same(<<toks, pos, tree, doc, structs, lost>>)
Forget == /\ \/ Is("lose") /\ lost' = lost \cup {this.why} /\ tree' = tree
             \/ /\ Is("discard") /\ tree' = Front(tree)
                /\ lost' = IF Last(tree) \in EmptyLists THEN lost ELSE lost \cup {this.why}
          /\ todo' = rest
          /\ Same(<<toks, pos, doc, structs, diags>>)

(* Steps that only decide what to execute next.                              *)
Choice ==
    /\ Is("case")
    /\ LET A == this.alts
           I == {i \in 1..Len(A) : Guard(A[i][1]) /\ \A j \in 1..(i - 1) : ~Guard(A[j][1])}
       IN  todo' = (IF I = {} THEN <<>> ELSE A[CHOOSE i \in I : TRUE][2]) \o rest
Loop == /\ Is("loop")
        /\ todo' = IF cur # EOF /\ Match(cur, this.s) = this.stay THEN this.a \o todo ELSE rest
Call == /\ Is("ref")
        /\ todo' = Rules[this.r] \o <<[o |-> "ret"]>> \o rest
Leave == \/ Is("return") /\ todo' = Resume(First("ret"))
         \/ todo # <<>> /\ this.o \in {"ret", "catch"} /\ todo' = rest
Attempt_ == /\ Is("try")
            /\ todo' = this.a \o <<[o |-> "catch", h |-> this.h, d |-> Len(tree)]>> \o rest
Open == /\ Is("node")
        /\ todo' = this.a \o <<[o |-> "mk", k |-> this.k, d |-> Base(this.k)]>> \o rest
Ask == \/ Is("has") /\ todo' = (IF Holds(this.k) THEN this.a ELSE this.b) \o rest
       \/ Is("dup") /\ todo' = (IF Last(tree) \in Range(Front(tree)) THEN this.a ELSE <<>>) \o rest
       \/ Is("isstruct") /\ todo' = (IF cur \in structs THEN this.a ELSE this.b) \o rest
Climb == \/ Is("prec") /\ todo' = parsePrefixExpr(this.s) \o Infix(this.m, this.s) \o rest
         \/ Is("infix") /\ todo' = parseExprPrec(this.m, this.s, cur) \o rest
Control == /\ Choice \/ Loop \/ Call \/ Leave \/ Attempt_ \/ Open \/ Ask \/ Climb
           /\ Same(<<toks, pos, tree, doc, structs, diags, lost>>)

(* Steps that only build the tree.                                           *)
Build == /\ \/ Is("mk") /\ tree' = Close(this.k, this.d)
            \/ Is("wrap") /\ tree' = Close(this.k, Len(tree) - this.n)
            \/ Is("leaf") /\ tree' = Append(tree, leaf(this.k))
            \/ Is("swap") /\ tree' = Front(Front(tree)) \o <<Last(tree), Last(Front(tree))>>
         /\ todo' = rest
         /\ lost' = IF Is("mk") /\ Trims(this.k, Children(this.d)) THEN lost \cup {"trimmed"} ELSE lost
         /\ Same(<<toks, pos, doc, structs, diags>>)
AddStruct_ == /\ Is("addstruct")
              /\ structs' = structs \cup {Last(tree).c[1].k}
              /\ todo' = rest
              /\ Same(<<toks, pos, tree, doc, diags, lost>>)
takePendingDoc == /\ Is("takedoc")
                  /\ doc' = <<>>
                  /\ tree' = IF doc = <<>> THEN tree
                             ELSE tree \o OneNode("doc", [i \in DOMAIN doc |-> leaf(doc[i])])
                  /\ todo' = rest
                  /\ Same(<<toks, pos, structs, diags, lost>>)
Annotate == /\ Is("tag")
            /\ doc' = Append(doc, this.t) /\ todo' = rest
            /\ Same(<<toks, pos, tree, structs, diags, lost>>)

ScanToken == /\ Is("scan") /\ ~scanStops(this, cur) /\ next
             /\ tree' = Append(tree, leaf(cur))
             /\ todo' = <<scanned(this, cur)>> \o rest
             /\ Same(<<toks, structs, diags, lost>>)
ScanEnd == /\ Is("scan") /\ scanStops(this, cur)
           /\ \/ this.n > 0 /\ todo' = rest /\ Same(<<tree, diags, lost>>)
              \/ this.n = 0 /\ Unwind /\ diags' = TRUE /\ lost' = lost \cup {"failed"}
           /\ Same(<<toks, pos, doc, structs>>)

Step == \/ Next_ \/ Keep_ \/ expect \/ Refuse \/ addDiag \/ Forget \/ Control \/ Build
        \/ AddStruct_ \/ takePendingDoc \/ Annotate \/ ScanToken \/ ScanEnd

(* ParseFile on tokens t: the first call of next, then parseModule.          *)
FirstToken(t) == CHOOSE j \in 1..Len(t) : /\ t[j] \notin DocLines
                                          /\ \A h \in 1..(j - 1) : t[h] \in DocLines
FirstDoc(t, p) == IF Match(t[p], DocKeepers) THEN SubSeq(t, 1, p - 1) ELSE <<>>
ParseFile(t) ==
    LET p == FirstToken(t)
    IN  /\ toks = t /\ pos = p /\ todo = parseModule /\ tree = <<>>
        /\ doc = FirstDoc(t, p)
        /\ structs = {} /\ diags = FALSE /\ lost = {}
=============================================================================
