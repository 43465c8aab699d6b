----------------------------- MODULE MCTolSource -----------------------------
(***************************************************************************)
(* The files for TLC: texts that between them use every declaration,       *)
(* statement and expression, each also with one token removed; expressions *)
(* of two operators; and texts with the errors the parser recovers from.   *)
(***************************************************************************)
EXTENDS TolSource

ModuleTexts == {
    <<"package", "x", ".", "y", ";", "import", "'s'", "as", "x", ";", "import", "{", "x",
      "as", "y", ",", "f", "}", "from", "'s'", ";">>,
    <<"import", "x", "from", "'s'", ";", "import", "x", ".", "y", ".", "S", "as", "T", ";">>,
    <<"import", "*", "as", "x", "from", "'s'", ";">>,
    <<"error", "x", "(", "u256", "x", ")", ";", "enum", "x", "{", "x", ",", "y", "}">>,
    <<"event", "x", "(", "u256", "x", "indexed", ",", "bool", "y", ")", "type", "x", "is",
      "u256", ";">>,
    <<"using", "x", "for", "u256", "global", ";", "using", "{", "x", ",", "y", "as", "+",
      "}", "for", "*", ";">>,
    <<"constant", "x", ":", "u256", "=", "1", ";", "u256", "constant", "y", "=", "1", ";">>,
    <<"capability", "x", ";", "function", "f", "(", ")", "pure", "{", "return", "x", ";",
      "}">>,
    <<"interface", "S", "{", "event", "x", "(", "u256", ")", "anonymous", ";", "///a",
      "function", "f", "(", "u256", "[", "]", "memory", "x", ")", "view", "returns", "(",
      "bool", ")", ";", "}">>,
    <<"interface", "S", "{", "@", "selector", "(", "'s'", ")", "function", "x", "(", ")",
      "{", "}", "}">>,
    <<"library", "S", "{", "constant", "x", ":", "bool", "=", "true", ";", "function", "f",
      "(", ")", "{", "}", "u256", "constant", "y", "=", "1", ";", "}">>,
    <<"struct", "S", "{", "u256", "x", ";", "bool", "y", ";", "}", "library", "x", "{",
      "function", "f", "(", ")", "{", "x", "=", "S", "{", "x", ":", "1", ",", "y", ":",
      "true", "}", ";", "}", "}">>,
    <<"abstract", "contract", "x", "{", "function", "f", "(", ")", "{", "}", "}">>,
    <<"account", "contract", "S", "{", "}", "library", "y", "{", "}", "test", "T", "{",
      "}">>,
    <<"contract", "S", "is", "x", ",", "y", "(", "1", ")", "{", "}", "interface", "x", "{",
      "}", "account", "x">>}

MemberTexts == {
    <<"mapping", "(", "u256", "x", "=>", "u256", "[", "]", ")", "y", ";", "transient",
      "bool", "x", ";">>,
    <<"agent", "S", ";", "agent", "<", "S", ">", "[", "1", "]", "public", "y", ";", "u256",
      "public", "x", "=", "1", ";">>,
    <<"immutable", "x", ":", "u256", ";", "u256", "immutable", "y", ";">>,
    <<"purpose", "x", ";", "capability", "y", ";", "capability", "y", ";">>,
    <<"manifest", "{", "x", ":", "'s'", ",", "y", ":", "[", "x", ",", "'s'", "]", "}",
      "u256", "constant", "x", "=", "1", ";">>,
    <<"modifier", "x", "(", "u256", "y", ")", "{", "_", ";", "}", "modifier", "y", "{",
      "require", "(", "x", ")", ";", "_", ";", "}">>,
    <<"constructor", "(", "u256", "x", ")", "payable", "{", "}", "fallback", "{", "}",
      "receive", "(", ")", "external", "payable", "{", "}">>,
    <<"///a", "constructor", "payable", "(", "uno", ")", "{", "}", "///b", "fallback", "(",
      ")", "external", "{", "x", "(", ")", ";", "}">>,
    <<"///a", "receive", "(", ")", "external", "payable", "(", "uno", ")", "{", "}">>,
    <<"///a", "///b", "function", "f", "(", "u256", "memory", "x", ")", "public",
      "payable", "(", "uno", ")", "returns", "(", "u256", "x", ",", "bool", ")", "{", "}">>,
    <<"@", "requires", "(", "x", ")", "@", "pay", "(", "x", ",", "(", "y", ")", ")",
      "function", "f", "(", ")", "{", "}">>,
    <<"@", "verifiable", "function", "x", "(", ")", "{", "}", "@", "delegated", "(", "x",
      ")", "function", "y", "(", ")", "{", "}">>,
    <<"///a", "@", "selector", "(", "'s'", ")", "function", "f", "(", ")", "{", "}", "@",
      "quota", "(", "x", ")", "@", "total_cost", "(", "1", ")", "function", "x", "(", ")",
      "public", "{", "}">>}

StatementTexts == {
    <<"x", "=", "y", "+", "1", "*", "x", ";", "x", "+=", "1", ";", "x", "++", ";">>,
    <<"++", "y", ";", "x", "[", "y", "]", "--", ";", "--", "x", ";">>,
    <<"y", ".", "x", "(", "1", ",", "x", ")", ";", "x", "{", "y", ":", "1", "}", "(", ")",
      ";">>,
    <<"u256", "x", "=", "1", ";", "u256", "[", "]", "memory", "y", ";">>,
    <<"(", "u256", "x", ",", "bool", "y", ")", "=", "f", "(", ")", ";", "set", "x", "=",
      "1", ";">>,
    <<"set", "x", "+=", "y", ";", "set", "x", "++", ";">>,
    <<"if", "(", "x", ")", "{", "return", ";", "}", "else", "if", "(", "!", "x", ")", "y",
      "(", ")", ";", "else", "{", "delete", "x", ";", "}">>,
    <<"for", "(", "u256", "x", "=", "1", ";", "x", "<", "1", ";", "x", "++", ")", "{",
      "continue", ";", "}">>,
    <<"for", "(", ";", ";", ")", "{", "break", ";", "}", "for", "(", "x", "=", "1", ";",
      ";", "y", "(", ")", ")", "{", "}">>,
    <<"for", "(", "set", "x", "=", "1", ";", ";", ")", "x", "(", ")", ";">>,
    <<"while", "(", "x", "||", "y", ")", "{", "}", "do", "{", "x", "(", ")", ";", "}",
      "while", "(", "x", ")", ";">>,
    <<"unchecked", "{", "x", "--", ";", "}">>,
    <<"try", "x", ".", "f", "(", ")", "returns", "(", "u256", "y", ")", "{", "}", "catch",
      "x", "(", "u256", "y", ",", "bool", ")", "{", "}", "catch", "{", "}">>,
    <<"try", "x", "(", ")", "{", "}", "catch", "(", "x", ":", "u256", ")", "{", "}">>,
    <<"require", "(", "x", "==", "1", ",", "'s'", ")", ";", "assert", "(", "x", ",", "'s'",
      ")", ";">>,
    <<"revert", "x", "(", "{", "y", ":", "1", "}", ")", ";", "revert", ";", "emit", "x",
      "(", "1", ")", ";">>,
    <<"x", "=", "(", "y", ",", "1", ",", ")", ";", "x", "=", "(", "y", ")", ";", "y", "=",
      "[", "1", ",", "x", "]", ";">>,
    <<"x", "=", "new", "S", "(", ")", ";", "y", "=", "new", "S", "(", "1", ")", ";", "x",
      "=", "new", "u256", "[", "]", "(", "1", ")", ";">>,
    <<"y", "=", "x", "[", "1", ":", "x", "]", ";", "return", "x", "?", "y", ":", "1", ";">>,
    <<"x", "=", "msg", ".", "agent", ";", "y", "=", "inspect", "x", ".", "y", ";">>,
    <<"x", "=", "type", "(", "S", ")", ".", "x", ";", "x", "=", "-", "1", ";", "y", "=",
      "~", "x", "-", "+", "y", ";">>,
    <<"x", "=", "S", "{", "x", ":", "1", "}", ";">>}

TestTexts == {
    <<"@", "skip", "setup", "{", "}", "setup", "{", "x", "(", ")", ";", "}">>,
    <<"u256", "x", "=", "1", ";", "setup", "returns", "(", "u256", "y", ")", "{", "deploy",
      "S", "(", "1", ")", "->", "x", ";", "deploy", "S", ";", "}">>,
    <<"mock", "x", ":", "S", "{", "function", "f", "(", "u256", "x", ")", "returns", "(",
      "bool", ")", "{", "}", "}">>,
    <<"teardown", "(", "u256", "y", ")", "{", "}", "setup_suite", "{", "}",
      "teardown_suite", "{", "}">>,
    <<"function", "f", "(", ")", "{", "with", "msg", ".", "x", "=", "1", "{", "assert_all",
      "{", "x", "(", ")", ";", "}", "}", "}">>,
    <<"function", "f", "(", ")", "{", "assert_revert", "(", "'s'", ")", "{", "}",
      "assert_revert", "{", "}", "assert_instructions_le", "1", "{", "}", "}">>,
    <<"@", "skip", "@", "fuzz", "(", "count", "=", "1", ")", "@", "timeout", "(", "1", ")",
      "function", "f", "(", "u256", "x", ")", "{", "}">>,
    <<"@", "tag", "(", "'s'", ")", "@", "x", "(", "y", ")", "function", "f", "(", "u256",
      "x", ")", "{", "}">>,
    <<"@", "cases", "function", "f", "(", "u256", "x", ",", "bool", "y", ")", "{", "}",
      "cases", "{", "|", "x", "|", "y", "|", "|", "1", "|", "true", "|", "|", "x", "|",
      "y", "|", "}">>}

ErrorTexts == {
    <<"u256", "x", "=", ";", "virtual", "x", ";", "purpose", ";", "let", "x", ";">>,
    <<"receive", "(", "x", ")", "{", "}", "receive", "(", ")", "payable", "{", "}",
      "manifest", "{", "1", "}">>,
    <<"function", "f", "(", ")", "virtual", "override", "(", "x", ")", "{", "let", "x",
      ":", "u256", "=", "1", ";", "}", "modifier", "x", ";">>,
    <<"function", "f", "(", ")", "{", "let", "(", "x", ",", "y", ")", ":", "(", "u256",
      ",", "bool", ")", "=", "f", "(", ")", ";", "x", "{", ";", "}", ";", "}">>,
    <<"@", "selector", "(", "x", ")", "@", "x", "(", "y", ")", "function", "f", "(", ")",
      "{", "}">>,
    <<"@", "selector", "(", "'s'", ")", "@", "selector", "(", "'s'", ")", "function", "f",
      "(", ")", "{", "}", "@", "x", "y", ";">>,
    <<"enum", "x", "{", "1", ",", "y", "}", "struct", "x", "{", ";", "}", "error", "x",
      "(", "1", ")">>,
    <<"using", "1", ";", "event", ";", "constructor", "{", "}", "constructor", "{", "}",
      "agent", ";">>,
    <<"fallback", "(", "u256", "x", ")", "{", "}", "modifier", "x", "virtual", "override",
      "(", "y", ")", "{", "_", "}">>}

Header == <<"pragma", "T", "0.2", ";">>
InContract(t) == <<"contract", "T", "{">> \o t \o <<"}">>
InFunction(t) == InContract(<<"function", "f", "(", ")", "{">> \o t \o <<"}">>)
InTest(t) == <<"test", "T", "{">> \o t \o <<"}">>

(* A text, and the texts that lack one of its tokens.                        *)
Without(t, i) == SubSeq(t, 1, i - 1) \o SubSeq(t, i + 1, Len(t))
Damaged(T) == T \cup UNION {{Without(t, i) : i \in DOMAIN t} : t \in T}

(* Expressions of two operators, one of each strength.                       *)
Levels == {"=", "||", "&&", "|", "^", "&", "==", "<", "<<", "-", "*", "**"}
Expressions == {<<"return", "x", a, "y", b, "1", ";">> : a, b \in Levels}

MCFiles == {Header \o t \o <<EOF>> : t \in
               Damaged(ModuleTexts) \cup {InContract(t) : t \in Damaged(MemberTexts) \cup ErrorTexts}
               \cup {InFunction(t) : t \in Damaged(StatementTexts) \cup Expressions}
               \cup {InTest(t) : t \in Damaged(TestTexts)}}
=============================================================================
