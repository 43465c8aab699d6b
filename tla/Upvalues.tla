------------------------------ MODULE Upvalues ------------------------------
(***************************************************************************)
(* Local variables captured by closures.  A local lives in a register of   *)
(* the frame that declares it.  A closure that captures it gets an Upvalue *)
(* that points at the register (open) until the variable goes out of       *)
(* scope, when the value moves into the Upvalue (closed).  LState.uvcache  *)
(* lists the open ones in the order of their registers.                    *)
(*                                                                         *)
(* Registers are reused, so an Upvalue left open too long reads somebody   *)
(* else's variable, and one closed too early no longer follows its own.    *)
(* What Lua promises is kept in two history variables: want[r], what the   *)
(* local in register r was last given, by its function or by a closure,    *)
(* and var[u], whether the variable of Upvalue u is in scope and, once it  *)
(* is not, its value.                                                      *)
(***************************************************************************)
EXTENDS Naturals, Sequences

CONSTANTS
  Value, nil,
  NLocals,     \* the registers of a Lua frame
  NReg,        \* bound: registers
  MaxUpvalues  \* bound: Upvalue objects ever made

ASSUME RegisterAssumption ==
  /\ NLocals \in Nat \ {0}
  /\ NReg \in Nat \ {0} /\ NLocals <= NReg
  /\ MaxUpvalues \in Nat
  /\ nil \in Value

VARIABLES
  reg,          \* LState.reg
  frames,       \* the call stack: functions, the protected calls, error handlers
  uv,           \* the Upvalue objects, in the order they were made
  uvcache,      \* LState.uvcache: the numbers of the open ones
  hasErrorFunc, \* LState.hasErrorFunc
  want, var     \* history

vars == <<reg, frames, uv, uvcache, hasErrorFunc, want, var>>

Reg == 1 .. NReg
Upval == [index : Reg, closed : BOOLEAN, value : Value]
Frame == [kind : {"lua", "pcall", "xpcall", "errfunc"}, base : Nat]

Cur == frames[Len(frames)]
Top == Cur.base + NLocals
Locals == Cur.base .. Top - 1
Room == Top + NLocals - 1 <= NReg   \* bound: one more frame fits

\* Upvalue.Value
ValueOf(u) == IF uv[u].closed THEN uv[u].value ELSE reg[uv[u].index]

Open == {u \in DOMAIN uv : ~uv[u].closed}
OpenFrom(idx) == {u \in Open : uv[u].index >= idx}
-----------------------------------------------------------------------------
(* A definition named ...Without..., ...Late and the like is a wrong form   *)
(* of the one it precedes, used to see that the properties notice it.       *)

CloseWithoutCopy(u) == [uv[u] EXCEPT !.closed = TRUE]

\* Upvalue.Close
CloseUpvalue(u) == [uv[u] EXCEPT !.closed = TRUE, !.value = ValueOf(u)]

closeUpvaluesLate(idx) ==
  \E k \in 0 .. Len(uvcache) :
    /\ \A i \in 1 .. k : uv[uvcache[i]].index <= idx
    /\ k < Len(uvcache) => uv[uvcache[k + 1]].index > idx
    /\ uvcache' = SubSeq(uvcache, 1, k)
    /\ uv' = [u \in DOMAIN uv |->
                IF \E i \in k + 1 .. Len(uvcache) : uvcache[i] = u
                THEN CloseUpvalue(u) ELSE uv[u]]

\* The list is cut at the first entry at or above register idx; the rest is closed.
closeUpvalues(idx) ==
  \E k \in 0 .. Len(uvcache) :
    /\ \A i \in 1 .. k : uv[uvcache[i]].index < idx
    /\ k < Len(uvcache) => uv[uvcache[k + 1]].index >= idx
    /\ uvcache' = SubSeq(uvcache, 1, k)
    /\ uv' = [u \in DOMAIN uv |->
                IF \E i \in k + 1 .. Len(uvcache) : uvcache[i] = u
                THEN CloseUpvalue(u) ELSE uv[u]]

\* Every Lua frame's variables, down to those of the outermost one.
closeAllUpvalues == closeUpvalues(frames[1].base)

\* The history of going out of scope: the variables in registers from idx on.
EndScope(idx) ==
  var' = [u \in DOMAIN var |->
            IF var[u].live /\ uv[u].index >= idx
            THEN [live |-> FALSE, want |-> want[uv[u].index]] ELSE var[u]]

\* registry.SetTop: the registers from idx on are cleared.
SetTop(idx) ==
  /\ reg' = [r \in Reg |-> IF r >= idx THEN nil ELSE reg[r]]
  /\ want' = [r \in Reg |-> IF r >= idx THEN nil ELSE want[r]]

findUpvalueAppending(r) ==
  /\ uvcache' = Append(uvcache, Len(uv) + 1)
  /\ uv' = Append(uv, [index |-> r, closed |-> FALSE, value |-> nil])

\* findUpvalue for a register that has no open Upvalue: a new one, in its place
\* in the list.  (If it has one, the closures share it and nothing changes.)
findUpvalue(r) ==
  \E k \in 0 .. Len(uvcache) :
    /\ \A i \in 1 .. k : uv[uvcache[i]].index < r
    /\ k < Len(uvcache) => uv[uvcache[k + 1]].index > r
    /\ uvcache' = [i \in 1 .. Len(uvcache) + 1 |->
                     IF i <= k THEN uvcache[i] ELSE IF i = k + 1 THEN Len(uv) + 1
                                               ELSE uvcache[i - 1]]
    /\ uv' = Append(uv, [index |-> r, closed |-> FALSE, value |-> nil])
-----------------------------------------------------------------------------
Init ==
  /\ reg = [r \in Reg |-> nil]
  /\ frames = <<[kind |-> "lua", base |-> 1]>>
  /\ uv = << >>
  /\ uvcache = << >>
  /\ hasErrorFunc = FALSE
  /\ want = [r \in Reg |-> nil]
  /\ var = << >>

\* The running function assigns to a local.
SetLocal(r, v) ==
  /\ r \in Locals
  /\ reg' = [reg EXCEPT ![r] = v]
  /\ want' = [want EXCEPT ![r] = v]
  /\ UNCHANGED <<frames, uv, uvcache, hasErrorFunc, var>>

\* OP_CLOSURE: a closure captures the local in register r.
Capture(r) ==
  /\ r \in Locals
  /\ Len(uv) < MaxUpvalues
  /\ \A i \in 1 .. Len(uvcache) : uv[uvcache[i]].index # r
  /\ findUpvalue(r)
  /\ var' = Append(var, [live |-> TRUE, want |-> nil])
  /\ UNCHANGED <<reg, frames, hasErrorFunc, want>>

\* OP_SETUPVAL: a closure that holds Upvalue u runs and assigns to it.
SetUpval(u, v) ==
  /\ \/ /\ uv[u].closed
        /\ uv' = [uv EXCEPT ![u].value = v]
        /\ UNCHANGED reg
     \/ /\ ~uv[u].closed
        /\ reg' = [reg EXCEPT ![uv[u].index] = v]
        /\ UNCHANGED uv
  /\ IF var[u].live THEN want' = [want EXCEPT ![uv[u].index] = v] /\ UNCHANGED var
                    ELSE var' = [var EXCEPT ![u].want = v] /\ UNCHANGED want
  /\ UNCHANGED <<frames, uvcache, hasErrorFunc>>

\* OP_CLOSE: the block whose locals start at register r ends.
CloseScope(r) ==
  /\ r \in Locals
  /\ closeUpvalues(r)
  /\ EndScope(r)
  /\ UNCHANGED <<reg, frames, hasErrorFunc, want>>

\* OP_CALL of a Lua function: its frame is above the caller's registers
\* (initCallFrame clears its locals).
Call ==
  /\ Room
  /\ frames' = Append(frames, [kind |-> "lua", base |-> Top])
  /\ SetTop(Top)
  /\ UNCHANGED <<uv, uvcache, hasErrorFunc, var>>

\* OP_CALL of pcall or xpcall: LState.PCall calls the function.
EnterPCall(k) ==
  /\ Room
  /\ frames' = frames \o <<[kind |-> k, base |-> Top], [kind |-> "lua", base |-> Top]>>
  /\ hasErrorFunc' = (hasErrorFunc \/ k = "xpcall")
  /\ SetTop(Top)
  /\ UNCHANGED <<uv, uvcache, var>>

\* OP_TAILCALL: the callee takes the frame and the registers of the caller.
TailCall ==
  /\ closeUpvalues(Cur.base)
  /\ EndScope(Cur.base)
  /\ SetTop(Cur.base)
  /\ UNCHANGED <<frames, hasErrorFunc>>

\* The protected call an error of the running code reaches; 0 if there is none.
\* A handler that fails ends the xpcall it serves.
Catcher == LET S == {i \in DOMAIN frames : frames[i].kind # "lua"}
           IN IF S = {} THEN 0 ELSE CHOOSE i \in S : \A j \in S : j <= i
Served(m) == LET S == {i \in 1 .. m : frames[i].kind = "xpcall"}
             IN CHOOSE i \in S : \A j \in S : j <= i
Target == IF frames[Catcher].kind = "errfunc" THEN Served(Catcher) ELSE Catcher

LeaveWithoutReset(m) ==
  /\ frames' = SubSeq(frames, 1, m - 1)
  /\ SetTop(frames[m].base)
  /\ UNCHANGED hasErrorFunc

\* The end of the PCall at frame m and of the pcall or xpcall that made it.
Leave(m) ==
  /\ frames' = SubSeq(frames, 1, m - 1)
  /\ SetTop(frames[m].base)
  /\ hasErrorFunc' = FALSE

\* OP_RETURN to a Lua function, or to PCall.
Return ==
  /\ Len(frames) > 1 /\ Cur.kind = "lua"
  /\ closeUpvalues(Cur.base)
  /\ EndScope(Cur.base)
  /\ \/ /\ frames[Len(frames) - 1].kind \in {"lua", "errfunc"}
        /\ frames' = SubSeq(frames, 1, Len(frames) - 1)
        /\ SetTop(Cur.base)
        /\ UNCHANGED hasErrorFunc
     \/ /\ frames[Len(frames) - 1].kind \in {"pcall", "xpcall"}
        /\ Leave(Len(frames) - 1)

\* The handler of an xpcall returns, and the deferred function of PCall unwinds.
HandlerReturn ==
  /\ Cur.kind = "errfunc"
  /\ closeUpvalues(Cur.base)
  /\ EndScope(Cur.base)
  /\ Leave(Served(Len(frames)))

ClosesOnError(panic) == ~hasErrorFunc /\ ~panic

\* raiseError, or a Go panic: PCall recovers.  An xpcall first calls its handler
\* on top of the frames that failed; their variables are out of scope.
Error(panic) ==
  /\ Catcher # 0
  /\ IF ClosesOnError(panic) THEN closeAllUpvalues ELSE UNCHANGED <<uv, uvcache>>
  /\ EndScope(frames[Target].base)
  /\ \/ /\ frames[Catcher].kind = "xpcall"
        /\ Room
        /\ frames' = Append(frames, [kind |-> "errfunc", base |-> Top])
        /\ hasErrorFunc' = FALSE
        /\ SetTop(Top)
     \/ /\ frames[Catcher].kind # "xpcall"
        /\ Leave(Target)

\* Closing on an error is right if the only open Upvalues are of the frames that
\* failed, and not closing if none of them is: see ClosureSeesVariable.
ErrorHarmless(panic) ==
  Catcher # 0 =>
    IF ClosesOnError(panic) THEN \A u \in Open : uv[u].index >= frames[Target].base
    ELSE frames[Catcher].kind = "xpcall" \/ OpenFrom(frames[Target].base) = {}
HandlerHarmless ==
  Cur.kind = "errfunc" =>
    OpenFrom(frames[Served(Len(frames))].base) \subseteq OpenFrom(Cur.base)

Step ==
  \/ \E r \in Reg : Capture(r) \/ CloseScope(r) \/ \E v \in Value : SetLocal(r, v)
  \/ \E u \in DOMAIN uv, v \in Value : SetUpval(u, v)
  \/ Call \/ TailCall \/ Return
  \/ \E k \in {"pcall", "xpcall"} : EnterPCall(k)

Next == \/ Step
        \/ \E panic \in BOOLEAN : ErrorHarmless(panic) /\ Error(panic)
        \/ HandlerHarmless /\ HandlerReturn

Spec == Init /\ [][Next]_vars

\* Errors at any time.
FullNext == Step \/ HandlerReturn \/ \E panic \in BOOLEAN : Error(panic)
FullSpec == Init /\ [][FullNext]_vars
-----------------------------------------------------------------------------
\* Types of the variables.
TypeOK ==
  /\ reg \in [Reg -> Value]
  /\ frames \in Seq(Frame) /\ frames # << >>
  /\ Cur.kind \in {"lua", "errfunc"} /\ Top - 1 <= NReg
  /\ uv \in Seq(Upval)
  /\ uvcache \in Seq(DOMAIN uv)
  /\ hasErrorFunc \in BOOLEAN
  /\ want \in [Reg -> Value]
  /\ var \in Seq([live : BOOLEAN, want : Value]) /\ Len(var) = Len(uv)

\* findUpvalue and closeUpvalues: uvcache holds every open Upvalue, in the order of
\* their registers and none twice, which is what lets findUpvalue stop early and
\* closeUpvalues cut the list.
UvcacheSorted ==
  /\ \A i, j \in 1 .. Len(uvcache) : i < j => uv[uvcache[i]].index < uv[uvcache[j]].index
  /\ Open = {uvcache[i] : i \in 1 .. Len(uvcache)}

\* No closure points at a register above the running frame, which the next call
\* will give to another function's variable.
NoDangling == \A u \in Open : uv[u].index < Top

\* A closure and the function that declared the variable always agree on its
\* value, and once the variable is out of scope the closures that share it do:
\* across nested calls, tail calls, blocks that end and errors that are caught.
ClosureSeesVariable ==
  /\ \A r \in Locals : reg[r] = want[r]
  /\ \A u \in DOMAIN uv :
       ValueOf(u) = IF var[u].live THEN want[uv[u].index] ELSE var[u].want

\* hasErrorFunc, which keeps raiseError from closing Upvalues, is only set while
\* an xpcall is in progress.
ErrorFuncInProgress == hasErrorFunc => \E i \in DOMAIN frames : frames[i].kind = "xpcall"
=============================================================================
