---------------------------- MODULE MCLuaProgram ----------------------------
EXTENDS LuaProgram

(* The compiler and the reference, for the constants that stand for them.    *)
MCCompile(x_) == LET c_ == compileASTToIRDirect(x_) IN c_
MCMeaning(x_) == LET c_ == Ref!Meaning(x_) IN c_

(* Syntax trees.                                                             *)
n(v) == [k |-> "num", v |-> v]
s(v) == [k |-> "str", v |-> v]
nil == [k |-> "nil"]
yes == [k |-> "true"]
no == [k |-> "false"]
id(x) == [k |-> "id", n |-> x]
dots == [k |-> "dots", adj |-> FALSE]
at(o, key) == [k |-> "attr", o |-> o, key |-> key]
table(fs) == [k |-> "table", fs |-> fs]
item(v) == [key |-> <<>>, val |-> v]
field(x, v) == [key |-> <<s(x)>>, val |-> v]
ar(op, l, r) == [k |-> "arith", op |-> op, l |-> l, r |-> r]
cat(l, r) == [k |-> "concat", l |-> l, r |-> r]
un(op, e) == [k |-> "un", op |-> op, e |-> e]
rel(op, l, r) == [k |-> "rel", op |-> op, l |-> l, r |-> r]
logic(op, l, r) == [k |-> "logic", op |-> op, l |-> l, r |-> r]
call(f, args) == [k |-> "call", fn |-> <<f>>, o |-> nil, m |-> "", args |-> args, adj |-> FALSE]
method(o, m, args) == [k |-> "call", fn |-> <<>>, o |-> o, m |-> m, args |-> args, adj |-> FALSE]
paren(x) == [x EXCEPT !.adj = TRUE]
func(ps, body) == [k |-> "function", ps |-> ps, va |-> FALSE, body |-> body]
vfunc(ps, body) == [k |-> "function", ps |-> ps, va |-> TRUE, body |-> body]
set(lhs, rhs) == [k |-> "assign", lhs |-> lhs, rhs |-> rhs]
local(names, exprs) == [k |-> "local", names |-> names, attrs |-> [i \in DOMAIN names |-> "none"], exprs |-> exprs]
attrib(x, attr, e) == [k |-> "local", names |-> <<x>>, attrs |-> <<attr>>, exprs |-> <<e>>]
do(body) == [k |-> "do", body |-> body]
while(c, body) == [k |-> "while", cond |-> c, body |-> body]
repeat(body, c) == [k |-> "repeat", cond |-> c, body |-> body]
if(c, then, else) == [k |-> "if", cond |-> c, then |-> then, else |-> else]
for(x, a, b, c, body) == [k |-> "fornum", n |-> x, init |-> a, limit |-> b, step |-> c, body |-> body]
forin(names, exprs, body) == [k |-> "forin", names |-> names, exprs |-> exprs, body |-> body]
def(name, f) == [k |-> "funcdef", name |-> <<id(name)>>, recv |-> nil, m |-> "", func |-> f]
defm(o, m, f) == [k |-> "funcdef", name |-> <<>>, recv |-> o, m |-> m, func |-> f]
ret(xs) == [k |-> "return", exprs |-> xs]
break == [k |-> "break"]
lab(x) == [k |-> "label", n |-> x]
goto(x) == [k |-> "goto", n |-> x]
stat(e) == [k |-> "callstat", e |-> e]
out(xs) == stat(call(id("out"), xs))
setmt(t, mt) == call(id("setmetatable"), <<t, mt>>)
a == id("a")
b == id("b")
c == id("c")
t == id("t")
f == id("f")
Add1(x) == ar("+", x, n(1))


Basics == <<
  \* locals, arithmetic, folding
  <<local(<<"a", "b">>, <<n(1), n(2)>>), local(<<"c">>, <<ar("+", a, ar("*", b, n(3)))>>),
    out(<<c, ar("+", n(1), ar("*", n(2), n(3))), un("-", n(1)), un("not", a), un("not", nil), un("#", s("ab"))>>),
    out(<<ar("//", c, b), ar("%", c, b), ar("-", a, b), un("-", ar("+", n(1), n(2)))>>), ret(<<a, b>>)>>,
  <<out(<<n(1)>>), out(<<ar("//", n(1), n(0))>>), out(<<n(2)>>)>>,
  \* varargs and adjusted calls
  <<local(<<"f">>, <<vfunc(<<"a">>, <<ret(<<a, dots>>)>>)>>),
    out(<<call(f, <<n(1), n(2), n(3)>>), call(f, <<n(4), n(5)>>)>>), out(<<paren(call(f, <<n(6), n(7)>>))>>),
    local(<<"a", "b", "c">>, <<call(f, <<n(8), n(9)>>)>>), out(<<a, b, c>>), ret(<<paren(call(f, <<n(1), n(2)>>))>>)>>,
  <<def("f", vfunc(<<>>, <<ret(<<at(id("arg"), s("n")), at(id("arg"), n(2))>>)>>)), out(<<call(f, <<n(7), n(8)>>)>>),
    out(<<call(f, <<>>)>>), local(<<"t">>, <<table(<<item(n(1)), item(call(f, <<n(3), n(4)>>))>>)>>),
    out(<<un("#", t), at(t, n(2)), at(t, n(3))>>), ret(<<n(1), call(f, <<>>)>>)>>,
  <<def("f", vfunc(<<"a">>, <<local(<<"b", "c">>, <<dots>>), set(<<a>>, <<dots>>), out(<<a, b, c>>),
                              ret(<<table(<<item(dots)>>), dots>>)>>)),
    local(<<"t", "a">>, <<call(f, <<n(1), n(2), n(3)>>)>>), out(<<un("#", t), a>>)>>,
  \* globals, upvalues, closures
  <<local(<<"a">>, <<n(1)>>), def("f", func(<<>>, <<set(<<a>>, <<Add1(a)>>), ret(<<a>>)>>)),
    out(<<call(f, <<>>), call(f, <<>>)>>), out(<<a>>), set(<<a>>, <<n(9)>>), out(<<call(f, <<>>)>>)>>,
  <<def("f", func(<<"a">>, <<ret(<<func(<<>>, <<set(<<a>>, <<Add1(a)>>), ret(<<a>>)>>),
                                   func(<<>>, <<ret(<<a>>)>>)>>)>>)),
    local(<<"b", "c">>, <<call(f, <<n(4)>>)>>), out(<<call(b, <<>>), call(b, <<>>), call(c, <<>>)>>)>>,
  <<local(<<"a">>, <<n(1)>>),
    def("f", func(<<>>, <<ret(<<func(<<>>, <<ret(<<func(<<>>, <<set(<<a>>, <<Add1(a)>>), ret(<<a>>)>>)>>)>>)>>)>>)),
    out(<<call(call(call(f, <<>>), <<>>), <<>>), a>>)>>,
  <<local(<<"f">>, <<func(<<"a">>, <<if(rel("<=", a, n(1)), <<ret(<<n(1)>>)>>, <<>>),
                                     ret(<<ar("*", a, call(f, <<ar("-", a, n(1))>>))>>)>>)>>), out(<<call(f, <<n(4)>>)>>)>>,
  <<local(<<"t">>, <<table(<<>>)>>), for("a", n(1), n(3), n(1), <<set(<<at(t, a)>>, <<func(<<>>, <<set(<<a>>, <<Add1(a)>>), ret(<<a>>)>>)>>)>>),
    out(<<call(at(t, n(1)), <<>>), call(at(t, n(1)), <<>>), call(at(t, n(2)), <<>>), call(at(t, n(3)), <<>>)>>)>>,
  <<local(<<"t", "a">>, <<table(<<>>), n(0)>>),
    while(rel("<", a, n(2)), <<set(<<a>>, <<Add1(a)>>), local(<<"b">>, <<a>>), set(<<at(t, a)>>, <<func(<<>>, <<ret(<<b>>)>>)>>)>>),
    out(<<call(at(t, n(1)), <<>>), call(at(t, n(2)), <<>>)>>)>>,
  <<local(<<"t", "a">>, <<table(<<>>), n(0)>>),
    repeat(<<set(<<a>>, <<Add1(a)>>), local(<<"b">>, <<a>>), set(<<at(t, a)>>, <<func(<<>>, <<set(<<b>>, <<Add1(b)>>), ret(<<b>>)>>)>>)>>, rel("==", b, n(2))),
    out(<<call(at(t, n(1)), <<>>), call(at(t, n(2)), <<>>), call(at(t, n(1)), <<>>)>>)>>,
  <<local(<<"t">>, <<table(<<>>)>>),
    for("a", n(1), n(3), n(1), <<local(<<"b">>, <<a>>), set(<<at(t, n(1))>>, <<func(<<>>, <<set(<<b>>, <<Add1(b)>>), ret(<<b>>)>>)>>), break>>),
    local(<<"a", "b", "c", "d", "e">>, <<n(7), n(7), n(7), n(7), n(7)>>), out(<<call(at(t, n(1)), <<>>), call(at(t, n(1)), <<>>), a, b>>)>>,
  \* loops, break, goto
  <<for("a", n(1), n(5), n(2), <<out(<<a>>)>>), for("a", n(3), n(1), un("-", n(1)), <<out(<<a>>)>>), for("a", n(2), n(1), n(1), <<out(<<a>>)>>),
    for("a", n(1), n(9), n(1), <<if(rel("==", a, n(3)), <<break>>, <<>>), out(<<a>>)>>)>>,
  <<local(<<"a">>, <<n(0)>>), while(yes, <<set(<<a>>, <<Add1(a)>>), if(rel(">", a, n(2)), <<break>>, <<out(<<a>>)>>)>>), out(<<s("x")>>)>>,
  <<local(<<"a">>, <<n(0)>>), repeat(<<set(<<a>>, <<Add1(a)>>), out(<<a>>)>>, rel(">=", a, n(3)))>>,
  <<local(<<"a">>, <<n(0)>>), lab("top"), set(<<a>>, <<Add1(a)>>), out(<<a>>), if(rel("<", a, n(3)), <<goto("top")>>, <<>>), out(<<s("x")>>)>>,
  <<for("a", n(1), n(3), n(1), <<if(rel("==", a, n(2)), <<goto("cont")>>, <<>>), out(<<a>>), lab("cont")>>)>>,
  <<def("f", func(<<"a", "b">>, <<if(rel("==", b, nil), <<ret(<<n(1)>>)>>, <<>>), if(rel("<", b, a), <<ret(<<Add1(b), b>>)>>, <<>>)>>)),
    forin(<<"b", "c">>, <<f, n(3)>>, <<out(<<b, c>>)>>)>>,
  <<def("f", func(<<>>, <<ret(<<func(<<"a", "b">>, <<if(rel("~=", b, n(2)), <<ret(<<Add1(b)>>)>>, <<>>)>>), n(0), n(0)>>)>>)),
    forin(<<"b">>, <<call(f, <<>>)>>, <<out(<<b>>)>>)>>,
  \* tables
  <<local(<<"t">>, <<table(<<item(n(1)), item(n(2)), item(n(3)), field("x", n(4)), item(n(5))>>)>>),
    out(<<at(t, n(1)), at(t, n(2)), at(t, n(3)), at(t, n(4)), at(t, s("x")), un("#", t)>>),
    set(<<at(t, s("y"))>>, <<n(6)>>), set(<<at(t, at(t, n(1)))>>, <<at(t, s("y"))>>), out(<<at(t, n(1)), at(t, s("y")), at(t, s("z"))>>)>>,
  <<local(<<"t">>, <<table(<<field("v", n(1))>>)>>), defm(t, "get", func(<<"a">>, <<ret(<<ar("+", at(id("self"), s("v")), a)>>)>>)),
    out(<<method(t, "get", <<n(2)>>), method(t, "get", <<at(t, s("v"))>>)>>)>>,
  <<local(<<"t">>, <<table(<<field("p", n(1)), field("q", n(2)), field("r", n(3)), field("s", n(4)), field("v", n(5))>>)>>),
    defm(t, "get", func(<<"a">>, <<ret(<<ar("+", at(id("self"), s("v")), a)>>)>>)),
    out(<<method(t, "get", <<n(2)>>), at(t, s("v"))>>), out(<<method(at(table(<<field("u", t)>>), s("u")), "get", <<n(7)>>)>>)>>,
  <<out(<<n(1)>>), out(<<at(n(1), s("x"))>>)>>, <<set(<<at(id("zz"), n(1))>>, <<n(1)>>)>>, <<stat(call(id("zz"), <<>>))>>,
  \* concatenation and comparison
  <<local(<<"a">>, <<s("a")>>), out(<<cat(a, cat(n(1), s("b"))), cat(cat(a, a), a), rel("<", a, s("b")), rel(">=", a, s("b"))>>),
    out(<<cat(a, cat(s("b"), nil))>>)>>,
  <<out(<<rel("<", n(1), n(2)), rel("<=", n(2), n(2)), rel(">", n(1), n(2)), rel("==", n(1), s("1")), rel("~=", n(1), n(1)), ar("+", s("3"), n(1))>>),
    out(<<rel("<", n(1), s("a"))>>)>>,
  \* LOADNIL
  <<local(<<"a">>, <<n(1)>>), local(<<"b">>, <<logic("and", a, nil)>>), local(<<"c">>, <<>>), local(<<"d", "e">>, <<>>), out(<<a, b, c, id("d"), id("e")>>)>>,
  \* tail calls
  <<def("f", func(<<"a", "b">>, <<if(rel("==", a, n(0)), <<ret(<<b>>)>>, <<>>), ret(<<call(f, <<ar("-", a, n(1)), Add1(b)>>)>>)>>)),
    out(<<call(f, <<n(3), n(0)>>)>>), ret(<<call(f, <<n(1), n(1)>>)>>)>>,
  <<def("f", vfunc(<<"a">>, <<if(rel("==", a, n(0)), <<ret(<<dots>>)>>, <<>>), ret(<<call(f, <<ar("-", a, n(1)), a, dots>>)>>)>>)),
    out(<<call(f, <<n(3), n(9)>>)>>), def("g", func(<<"a">>, <<ret(<<call(id("out"), <<a>>)>>)>>)), out(<<n(1), call(id("g"), <<n(5)>>)>>)>>
>>

(* Metamethods, <close>, const, pcall.                                        *)
mt(fs) == local(<<"m">>, <<table(fs)>>)
m == id("m")
with(ev, fn) == field(ev, fn)
x == id("x")
pcall(args) == call(id("pcall"), args)
Metas == <<
  <<local(<<"t">>, <<setmt(table(<<>>), table(<<with("__index", func(<<"a", "b">>, <<ret(<<b>>)>>)),
        with("__newindex", func(<<"a", "b", "c">>, <<out(<<b, c>>)>>)), with("__len", func(<<"a">>, <<ret(<<n(9)>>)>>)),
        with("__call", func(<<"a", "b">>, <<ret(<<Add1(b), n(0)>>)>>))>>))>>),
    out(<<at(t, s("x")), at(t, n(3)), un("#", t), call(t, <<n(4)>>)>>), set(<<at(t, s("y"))>>, <<n(5)>>), ret(<<call(t, <<n(1)>>)>>)>>,
  <<local(<<"a">>, <<table(<<field("x", n(1))>>)>>), local(<<"b">>, <<setmt(table(<<>>), table(<<with("__index", a), with("__newindex", a)>>))>>),
    local(<<"c">>, <<setmt(table(<<>>), table(<<with("__index", b)>>))>>), out(<<at(c, s("x")), at(c, s("y"))>>),
    set(<<at(b, s("y"))>>, <<n(2)>>), out(<<at(a, s("y")), method(setmt(table(<<>>), table(<<with("__index", table(<<field("g", func(<<"a", "b">>, <<ret(<<b>>)>>))>>))>>)), "g", <<n(6)>>)>>),
    out(<<at(c, s("z"))>>)>>,
  <<mt(<<with("__add", func(<<"a", "b">>, <<ret(<<s("add")>>)>>)), with("__unm", func(<<"a">>, <<ret(<<s("neg")>>)>>))>>),
    local(<<"a">>, <<setmt(table(<<>>), m)>>), out(<<ar("+", a, n(1)), ar("+", n(1), a), un("-", a)>>), out(<<ar("-", a, n(1))>>)>>,
  <<local(<<"a">>, <<setmt(table(<<>>), table(<<with("__concat", func(<<"a", "b">>, <<ret(<<s("cat")>>)>>))>>))>>),
    out(<<cat(a, s("x")), cat(s("x"), cat(s("y"), cat(a, s("z"))))>>)>>,
  <<mt(<<with("__eq", func(<<"a", "b">>, <<ret(<<n(1)>>)>>)), with("__lt", func(<<"a", "b">>, <<ret(<<at(a, s("v"))>>)>>))>>),
    local(<<"a", "b">>, <<setmt(table(<<field("v", yes)>>), m), setmt(table(<<>>), m)>>),
    out(<<rel("==", a, b), rel("~=", a, b), rel("==", a, n(1)), rel("<", a, b), rel("<=", a, b), rel("<=", b, a)>>),
    if(rel("<", b, a), <<out(<<n(1)>>)>>, <<out(<<rel(">", a, b)>>)>>)>>,
  <<mt(<<with("__le", func(<<"a", "b">>, <<ret(<<no>>)>>)), with("__mod", func(<<"a", "b">>, <<ret(<<a, b>>)>>))>>),
    local(<<"a", "b">>, <<setmt(table(<<>>), m), setmt(table(<<>>), m)>>), out(<<rel("<=", a, b), rel(">=", a, b)>>),
    out(<<ar("%", n(3), a)>>), out(<<rel("<", a, b)>>)>>,
  \* <close> and <const>
  <<mt(<<with("__close", func(<<"a">>, <<out(<<at(a, s("v"))>>)>>))>>),
    do(<<attrib("a", "close", setmt(table(<<field("v", n(1))>>), m)), attrib("b", "close", setmt(table(<<field("v", n(2))>>), m)),
         out(<<n(3)>>)>>), out(<<n(4)>>)>>,
  <<mt(<<with("__close", func(<<"a">>, <<out(<<at(a, s("v"))>>)>>))>>),
    for("i", n(1), n(2), n(1), <<attrib("a", "close", setmt(table(<<field("v", id("i"))>>), m)), attrib("b", "close", nil), out(<<s("x")>>)>>)>>,
  <<do(<<local(<<"c">>, <<n(3)>>), set(<<id("f")>>, <<func(<<>>, <<ret(<<c>>)>>)>>)>>), local(<<"b">>, <<n(1)>>), out(<<call(f, <<>>)>>),
    do(<<attrib("a", "close", n(1)), out(<<a>>)>>)>>,
  <<attrib("a", "const", n(1)), local(<<"b">>, <<Add1(a)>>), out(<<a, b>>)>>,
  <<out(<<pcall(<<>>)>>)>>,
  \* errors caught
  <<def("f", func(<<"a">>, <<out(<<a>>), ret(<<ar("+", a, nil)>>)>>)), out(<<pcall(<<f, n(1)>>)>>),
    out(<<pcall(<<func(<<"a">>, <<ret(<<a, n(2)>>)>>), n(7)>>), s("x")>>), out(<<pcall(<<n(3)>>), pcall(<<id("setmetatable"), n(1)>>), pcall(<<id("out"), n(1)>>)>>),
    local(<<"a", "b">>, <<pcall(<<id("pcall"), f, n(2)>>)>>), out(<<a, b>>), ret(<<pcall(<<func(<<>>, <<ret(<<call(id("setmetatable"), <<n(1)>>)>>)>>)>>)>>)>>,
  <<def("f", func(<<"a">>, <<if(rel("==", a, n(0)), <<ret(<<at(nil, n(1))>>)>>, <<>>), local(<<"b", "c">>, <<pcall(<<f, ar("-", a, n(1))>>)>>),
                             out(<<a, b, c>>), ret(<<ar("//", a, ar("-", a, n(2)))>>)>>)), out(<<pcall(<<f, n(2)>>)>>), ret(<<pcall(<<f, n(1)>>)>>)>>,
  <<local(<<"t">>, <<setmt(table(<<>>), table(<<with("__index", func(<<"a", "b">>, <<ret(<<call(b, <<>>)>>)>>))>>))>>),
    out(<<pcall(<<func(<<>>, <<ret(<<ar("+", at(t, n(1)), n(1))>>)>>)>>)>>), out(<<at(t, func(<<>>, <<ret(<<n(5)>>)>>))>>)>>
>>
(* Chunks that only a gas limit ends.                                         *)
Endless == <<
  <<while(yes, <<out(<<n(1)>>)>>)>>,
  <<def("f", func(<<>>, <<while(yes, <<>>)>>)), lab("top"), set(<<id("g")>>, <<pcall(<<f>>)>>), goto("top")>>,
  <<local(<<"a", "b">>, <<n(1), n(2)>>), repeat(<<set(<<a>>, <<cat(s("x"), cat(n(1), b))>>), stat(pcall(<<nil>>))>>, no)>>,
  <<def("f", func(<<>>, <<ret(<<call(f, <<>>)>>)>>)), stat(pcall(<<func(<<>>, <<stat(pcall(<<f>>)), out(<<n(1)>>)>>)>>)), out(<<n(2)>>)>>,
  <<local(<<"t">>, <<setmt(table(<<>>), table(<<with("__index", func(<<"a", "b">>, <<while(yes, <<>>)>>))>>))>>),
    stat(pcall(<<func(<<>>, <<ret(<<at(t, n(1))>>)>>)>>)), set(<<id("g")>>, <<table(<<item(n(1)), item(n(2))>>)>>)>>,
  <<ret(<<pcall(<<func(<<>>, <<while(yes, <<>>)>>)>>)>>)>>,
  \* the counter wraps at the largest number
  <<for("a", n(Modulus - 2), n(Modulus - 1), n(1), <<out(<<a>>)>>)>>
>>

(* Every assignment of two values to two targets, but for the ones that give a *)
(* table field the value of a local (see Swaps).                               *)
Targets == <<a, id("g"), at(t, n(1)), at(t, s("x"))>>
Values == <<n(5), id("g"), at(t, n(1)), call(f, <<>>), a, b>>
Assigned(u, v, y, z) ==
  <<local(<<"a", "b", "t">>, <<n(1), n(2), table(<<item(n(7)), field("x", n(8))>>)>>), set(<<id("g")>>, <<n(3)>>),
    def("f", func(<<>>, <<ret(<<n(20), n(21)>>)>>)), set(<<u, v>>, <<y, z>>), out(<<a, b, id("g"), at(t, n(1)), at(t, s("x"))>>)>>
FieldGetsLocal(i, j) == i > 2 /\ j > 4
Quads == [i \in 1..576 |-> <<(i % 4) + 1, ((i \div 4) % 4) + 1, ((i \div 16) % 6) + 1, ((i \div 96) % 6) + 1>>]
AssignPrograms == LET S == SelectSeq(Quads, LAMBDA q : ~FieldGetsLocal(q[1], q[3]) /\ ~FieldGetsLocal(q[2], q[4]))
                  IN  [i \in DOMAIN S |-> Assigned(Targets[S[i][1]], Targets[S[i][2]], Values[S[i][3]], Values[S[i][4]])]
Swaps == <<Assigned(at(t, n(1)), a, a, n(5)), Assigned(a, at(t, n(1)), n(5), b)>>

(* Every and/or of three operands, wherever a value or a condition can stand  *)
(* but for an existing local: d = f() and 5 leaves d as it was when f() is      *)
(* false, and in d = (a or nil) and d a partial result overwrites d too early.  *)
Operand == <<nil, yes, a, b, rel("<", a, n(2)), call(f, <<>>)>>
Logic(o, p, u, y, z, left) == IF left THEN logic(p, logic(o, u, y), z) ELSE logic(o, u, logic(p, y, z))
Used(e) ==
  <<local(<<"a", "b", "t">>, <<n(1), no, table(<<>>)>>), def("f", func(<<>>, <<ret(<<no>>)>>)),
    local(<<"c">>, <<e>>), if(e, <<set(<<id("g")>>, <<s("yes")>>)>>, <<set(<<id("g")>>, <<s("no")>>)>>),
    out(<<c, id("g")>>), set(<<id("g")>>, <<e>>), set(<<at(t, n(1))>>, <<e>>), out(<<id("g"), at(t, n(1))>>), ret(<<e>>)>>
Ops == <<"and", "or">>
LogicPrograms == [i \in 1..(8 * 216) |->
    LET j == (i - 1) \div 8
    IN  Used(Logic(Ops[(i % 2) + 1], Ops[((i \div 2) % 2) + 1], Operand[(j % 6) + 1], Operand[((j \div 6) % 6) + 1],
                   Operand[(j \div 36) + 1], (i \div 4) % 2 = 0))]

MCPrograms == Endless \o Basics \o Metas \o AssignPrograms \o LogicPrograms
MCGasLimits == [p \in DOMAIN MCPrograms |-> CASE p <= Len(Endless) -> {40}
                                              [] p > Len(Endless \o Basics \o Metas) -> {0}
                                              [] OTHER -> {0, 17}]
MCSwapLimits == [p \in DOMAIN Swaps |-> {0}]
=============================================================================
