------------------------------ MODULE LuaValues ------------------------------
(***************************************************************************)
(* The values of the Lua machine (value.go) and the arithmetic the compiler *)
(* folds and the machine performs.  A value is a pair of its type and its   *)
(* contents; tables, closures and builtins are references.  Numbers are     *)
(* unsigned and wrap at Modulus, which stands for 2^256 (Uint256 has the    *)
(* arithmetic itself).                                                      *)
(***************************************************************************)
EXTENDS Integers, SequencesExt

CONSTANT Modulus

Nil == <<"nil", 0>>
GoNil == <<"gonil", 0>>          \* an array slot above the top: a nil interface, no LValue
Bool(b) == <<"bool", b>>
Num(n) == <<"num", n>>
Str(s) == <<"str", s>>
Fn(i) == <<"fun", i>>            \* closure i
Builtin(name) == <<"builtin", name>>
Tab(i) == <<"tab", i>>

IsNum(v) == v[1] = "num"
IsTab(v) == v[1] = "tab"
IsFun(v) == v[1] \in {"fun", "builtin"}
LVAsBool(v) == v # Nil /\ v # Bool(FALSE)
LVCanConvToString(v) == v[1] \in {"str", "num"}
LVAsString(v) == IF IsNum(v) THEN ToString(v[2]) ELSE v[2]
lu256IsNeg(n) == n >= Modulus \div 2
lu256SCmp(m, n) == LET s(x) == IF lu256IsNeg(x) THEN x - Modulus ELSE x IN s(m) - s(n)

ArithOps == {"+", "-", "*", "//", "%"}
DivOps == {"//", "%"}
numberArith(op, l, r) == CASE op = "+" -> (l + r) % Modulus
                           [] op = "-" -> (l - r) % Modulus
                           [] op = "*" -> (l * r) % Modulus
                           [] op = "//" -> l \div r
                           [] op = "%" -> l % r
=============================================================================
