------------------------------ MODULE TolSource ------------------------------
(***************************************************************************)
(* A source file goes through the front end: it is parsed, and when it has *)
(* no errors the formatter prints it and the result is parsed again, which *)
(* is what running the formatter and then the compiler, or the formatter   *)
(* twice, does.                                                            *)
(***************************************************************************)
EXTENDS TolFormatter

CONSTANT Files     \* the source files, as sequences of tokens that end with EOF
VARIABLE original  \* the tree of the file before it was formatted; <<>> until then

Init == /\ \E t \in Files : ParseFile(t)
        /\ original = <<>>

Parse == Step /\ UNCHANGED original

(* Format: nothing is written for a file with errors.                        *)
Reformat ==
    /\ done /\ ~diags /\ original = <<>>
    /\ original' = tree
    /\ \E t \in {Format(tree[1]) \o <<EOF>>} :
          /\ toks' = t /\ pos' = FirstToken(t) /\ todo' = parseModule /\ tree' = <<>>
          /\ doc' = FirstDoc(t, FirstToken(t)) /\ structs' = {} /\ lost' = {}
    /\ UNCHANGED diags

Next == Parse \/ Reformat
(* The parser is one call of a sequential program: it keeps running.         *)
Spec == Init /\ [][Next]_<<vars, original>> /\ WF_<<vars, original>>(Next)

(* What the parser reads, does not keep and does not report:                  *)
(*   body       the body of an interface function;                            *)
(*   binding    what the returns clause of a try binds, and what a catch      *)
(*              clause binds after its first name;                            *)
(*   attribute  an attribute without the arguments it needs, the arguments of *)
(*              one that has none, what follows the string of a selector, an  *)
(*              unknown attribute in a test block, and the attributes there   *)
(*              of what is not a test function;                               *)
(*   modifiers  the modifiers of fallback;                                    *)
(*   trimmed    the modifiers of receive but for its asset, the names inside  *)
(*              a mapping type, and all but the last visibility of a slot;    *)
(*   lifecycle  a setup or teardown function that a later one replaces.       *)
Ignored == {"body", "binding", "attribute", "modifiers", "trimmed", "lifecycle"}

(***************************************************************************)
(* Properties.                                                              *)
(***************************************************************************)
(* The parser stays within the file, and the places in the tree to which     *)
(* its callers will return when it fails, or at which they will close a      *)
(* node, are nested.                                                         *)
TypeOK ==
    LET marks == SelectSeq(todo, LAMBDA h : h.o \in {"catch", "mk"})
    IN  /\ pos \in 1..Len(toks)
        /\ \A i \in DOMAIN marks : /\ marks[i].d <= Len(tree)
                                   /\ \A j \in 1..(i - 1) : marks[j].d >= marks[i].d
        /\ structs \subseteq Names \cup Contextual
        /\ diags \in BOOLEAN /\ lost \subseteq {"failed", "recovery", "empty"} \cup Ignored

(* syncUnknownMember returns at once at a token that may start a contract     *)
(* member.  The loops over the members of an interface, a library, a test     *)
(* block and a mock call it for every member they do not know and do not      *)
(* consume anything themselves: at such a member they repeat for ever.        *)
Trapped == /\ Is("ref") /\ this.r = "syncUnknownMember"
           /\ Match(cur, ContractMemberStart)
           /\ Head(rest).o \in {"loop", "catch"}

(* Parsing ends for every text, unless it meets such a member: every other    *)
(* loop of the parser and of its error recovery consumes a token each time.   *)
Terminates == <>(Trapped \/ (done /\ (diags \/ original # <<>>)))

(* Source that a failed function or the error recovery throws away has been   *)
(* reported: a file without diagnostics lacks only what a function that       *)
(* succeeds reads and does not keep (Ignored).  One case is not reported: an  *)
(* empty statement ("empty") fails without a diagnostic, and the recovery     *)
(* then skips the statement after it.  Documentation comments are not counted *)
(* here: DocsKept is about them.                                              *)
LossReported == (done /\ ~diags) => "empty" \in lost \/ lost \subseteq Ignored

(* The nodes that the formatter prints so that they are read back otherwise.  *)
Lossy(n) ==
    \/ n.k \in Operators \cup {"post++", "post--"} /\ Len(n.c) = 1
    \/ n.k \in {"ternary", "slice", "inspect", "msg_agent", "new_array", "struct_lit", "dowhile",
                "try", "visibility", "importstar", "table", "struct"}
    \/ n.k \in {"payable", "attrs"} /\ n.c # <<>>
    \/ n.k = "new" /\ n.c[2].c = <<>>
    \/ n.k = "assert" /\ Len(n.c) = 2
    \/ n.k = "doc" /\ \E x \in Range(n.c) : x.k \notin DocLines
    \/ /\ \E x \in Range(n.c) : x.k = "selector"
       /\ n.k = "funcsig" \/ \E x \in Range(n.c) : x.k = "doc"
    \/ n.k \in {"setup", "setup_suite", "teardown", "teardown_suite"} /\ Len(n.c) = 2
    \/ n.k = "init" /\ n.c[1].k = "set"
    \/ n.k = "module" /\ ~\E x \in Range(n.c) : x.k = "version"
Lossless(t) == \A n \in Nodes(t) : ~Lossy(n)

(* What the formatter prints parses without errors to the tree it was printed *)
(* from, whatever the order of the declarations in the file was, as long as   *)
(* the tree has only nodes that the formatter knows as the parser builds them. *)
RoundTrip ==
    (done /\ original # <<>> /\ Lossless(original[1])) => ~diags /\ tree = original

(* A documentation comment written directly before a function, constructor,   *)
(* fallback or receive declaration is attached to a declaration.  Comments in *)
(* front of test functions are not kept; and a declaration without its {      *)
(* takes everything up to the next { for its modifiers, other declarations    *)
(* included.                                                                  *)
Documented == {"function", "constructor", "fallback", "receive"}
Swallowed == \E n \in Nodes(tree[1]) : /\ n.k \in {"mods", "fallback", "asset", "type"}
                                       /\ \E x \in Range(n.c) : x.k \in Documented /\ x.c = <<>>
DocsKept ==
    (done /\ ~diags /\ "test" \notin Range(toks) /\ ~Swallowed) =>
        \A i \in DOMAIN toks : (IsDoc(i) /\ toks[After(i)] \in Documented) =>
            \E n \in Nodes(tree[1]) : n.k = "doc" /\ leaf(toks[i]) \in Range(n.c)

(* Binding strength of the operators in the grammar of the language           *)
(* (docs/grammar/TolangParser.g4, rule expression), weakest first.            *)
Strength == <<{"="}, {"ternary"}, {"||"}, {"&&"}, {"|"}, {"^"}, {"&"}, {"==", "!="},
              {"<", "<=", ">", ">="}, {"<<", ">>", ">>>"}, {"+", "-"}, {"*", "/", "%"}, {"**"}>>
strength(n) == IF Len(n.c) >= 2 /\ \E i \in DOMAIN Strength : n.k \in Strength[i]
               THEN CHOOSE i \in DOMAIN Strength : n.k \in Strength[i]
               ELSE Len(Strength) + 1
Compares(n) == n.k \in Strength[8] \cup Strength[9]
(* Every operand binds at least as tightly as its operator, and only on the   *)
(* side to which the operator associates may it bind equally tightly.  The    *)
(* parser knows one strength for all comparisons, and reads a condition and   *)
(* the assignment before it as one: those two disagreements are left out.     *)
FollowsGrammar ==
    done => \A n \in Nodes(tree[1]) :
        (Len(n.c) = 2 /\ strength(n) <= Len(Strength)) =>
            LET l == n.c[1]  r == n.c[2] IN
            /\ \/ strength(l) > strength(n)
               \/ strength(l) = strength(n) /\ n.k \notin RightAssoc
               \/ Compares(l) /\ Compares(n)
            /\ \/ strength(r) > strength(n)
               \/ strength(r) = strength(n) /\ n.k \in RightAssoc

(***************************************************************************)
(* What the sources say and the parser does not do.                         *)
(***************************************************************************)
(* "do NOT clear - binding survives attribute tokens too": every attribute    *)
(* and documentation comment in front of a function of a file without errors  *)
(* is attached to it.                                                         *)
Attributes == {"requires", "pay", "quota", "total_cost", "verifiable", "delegated"}
AttributesKept ==
    (done /\ ~diags /\ original = <<>>) =>
        \A i \in 2..Len(toks) : (toks[i - 1] = "@" /\ toks[i] \in Attributes) =>
            \E n \in Nodes(tree[1]) : n.k = "doc" /\ leaf(toks[i]) \in Range(n.c)
=============================================================================
