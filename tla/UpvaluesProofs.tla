--------------------------- MODULE UpvaluesProofs ---------------------------
(***************************************************************************)
(* Closures and the variables they capture (Upvalues), for every number of *)
(* registers, frames and Upvalues.  A closure agrees with the function     *)
(* that declared its variable because of an inductive invariant about the  *)
(* whole machine: the list of open Upvalues is sorted and complete, the    *)
(* frames lie next to one another, no open Upvalue is above the running    *)
(* frame, and a variable that went out of scope while its Upvalue is still *)
(* open (an error under an xpcall) lies below the frame of the handler.    *)
(* The list and the frames keep their order under any error (FullSpec).    *)
(***************************************************************************)
EXTENDS Upvalues, InductionLemmas

VarInfo == [live : BOOLEAN, want : Value]

Protected == {"pcall", "xpcall"}

\* The frames: a protected call is followed by the function it calls, with the same
\* registers; any other frame starts where the one below it ends; a handler runs
\* above the xpcall it serves.
FramesOK ==
  /\ frames[1].kind = "lua" /\ frames[1].base = 1
  /\ \A i \in 1 .. Len(frames) - 1 :
       IF frames[i].kind \in Protected
       THEN frames[i + 1].kind = "lua" /\ frames[i + 1].base = frames[i].base
       ELSE frames[i + 1].base = frames[i].base + NLocals
  /\ \A i, j \in 1 .. Len(frames) : i <= j => frames[i].base <= frames[j].base
  /\ \A i \in 1 .. Len(frames) :
       frames[i].kind = "errfunc" => \E j \in 1 .. i : frames[j].kind = "xpcall"

\* A variable in scope is in its register.
LiveIsOpen == \A u \in DOMAIN uv : var[u].live => ~uv[u].closed

\* Frame i is the handler of the xpcall at frame j.
Serves(i, j) ==
  /\ frames[i].kind = "errfunc" /\ frames[j].kind = "xpcall" /\ j < i
  /\ \A l \in j + 1 .. i : frames[l].kind # "xpcall"

\* An Upvalue left open by an error is of a frame between the xpcall and its handler.
DeadUnderHandler ==
  \A u \in Open : ~var[u].live =>
    \E i, j \in 1 .. Len(frames) :
      Serves(i, j) /\ frames[j].base <= uv[u].index /\ uv[u].index < frames[i].base

\* A variable out of scope has the value it was last given.
DeadKeepsValue == \A u \in DOMAIN uv : ~var[u].live => ValueOf(u) = var[u].want

\* A register holds what its variable was last given, unless that variable is out of
\* scope and a closure still writes to the register.
RegistersFollow ==
  \A r \in Reg : (\A u \in Open : uv[u].index = r => var[u].live) => reg[r] = want[r]

\* The inductive invariant.
Inv ==
  /\ TypeOK /\ UvcacheSorted /\ FramesOK /\ NoDangling /\ ErrorFuncInProgress
  /\ LiveIsOpen /\ DeadUnderHandler /\ DeadKeepsValue /\ RegistersFollow

\* Its part that errors at any time keep as well: the list and the frames.
FullInv == TypeOK /\ UvcacheSorted /\ FramesOK /\ ErrorFuncInProgress

\* The inductive invariant includes that part.
LEMMA InvIsFull ==
  ASSUME Inv
  PROVE  FullInv
BY DEF Inv, FullInv
-----------------------------------------------------------------------------
\* A function on 1 .. n is a sequence of length n.
LEMMA FunctionIsSeq ==
  ASSUME NEW n \in Nat, NEW S, NEW f \in [1 .. n -> S]
  PROVE  f \in Seq(S) /\ Len(f) = n
OBVIOUS

\* The running frame lies inside the registry.
LEMMA CurFits ==
  ASSUME TypeOK
  PROVE  /\ Len(frames) \in Nat \ {0} /\ Cur \in Frame /\ Cur.base \in Nat /\ Top \in Nat
         /\ Top = Cur.base + NLocals
<1>1. frames \in Seq(Frame) /\ frames # << >>
  BY DEF TypeOK
<1>2. Len(frames) \in Nat \ {0} /\ Cur \in Frame
  BY <1>1 DEF Cur
<1> QED BY <1>2, RegisterAssumption DEF Top, Frame

\* closeUpvalues closes exactly the open Upvalues from register idx on, each with the
\* value of its register, and leaves the list sorted and complete.
LEMMA CloseEffect ==
  ASSUME TypeOK, UvcacheSorted, NEW idx \in Nat, closeUpvalues(idx)
  PROVE  /\ uv' \in Seq(Upval) /\ Len(uv') = Len(uv) /\ DOMAIN uv' = DOMAIN uv
         /\ uvcache' \in Seq(DOMAIN uv')
         /\ \A u \in DOMAIN uv :
              /\ uv'[u].index = uv[u].index
              /\ u \in OpenFrom(idx) => uv'[u].closed /\ uv'[u].value = reg[uv[u].index]
              /\ u \notin OpenFrom(idx) => uv'[u] = uv[u]
         /\ Open' = Open \ OpenFrom(idx)
         /\ UvcacheSorted'
<1>1. PICK k \in 0 .. Len(uvcache) :
    /\ \A i \in 1 .. k : uv[uvcache[i]].index < idx
    /\ k < Len(uvcache) => uv[uvcache[k + 1]].index >= idx
    /\ uvcache' = SubSeq(uvcache, 1, k)
    /\ uv' = [u \in DOMAIN uv |->
                IF \E i \in k + 1 .. Len(uvcache) : uvcache[i] = u
                THEN CloseUpvalue(u) ELSE uv[u]]
  BY DEF closeUpvalues
<1>2. /\ Len(uvcache) \in Nat /\ Len(uv) \in Nat /\ DOMAIN uv = 1 .. Len(uv)
      /\ \A i \in 1 .. Len(uvcache) : uvcache[i] \in DOMAIN uv
      /\ \A u \in DOMAIN uv : uv[u] \in Upval
  BY DEF TypeOK
<1>3. \A i \in k + 1 .. Len(uvcache) : uv[uvcache[i]].index >= idx
  <2> SUFFICES ASSUME NEW i \in k + 1 .. Len(uvcache) PROVE uv[uvcache[i]].index >= idx
    OBVIOUS
  <2>1. k + 1 \in 1 .. Len(uvcache) /\ i \in 1 .. Len(uvcache)
    BY <1>2
  <2>2. uv[uvcache[k + 1]].index \in Nat /\ uv[uvcache[i]].index \in Nat
    BY <2>1, <1>2, RegisterAssumption DEF Upval, Reg
  <2>3. uv[uvcache[k + 1]].index >= idx
    BY <2>1, <1>1
  <2>4. CASE i = k + 1
    BY <2>4, <2>3
  <2>5. CASE i > k + 1
    BY <2>5, <2>1, <2>2, <2>3 DEF UvcacheSorted
  <2> QED BY <2>1, <2>4, <2>5
<1>4. \A u \in DOMAIN uv : (\E i \in k + 1 .. Len(uvcache) : uvcache[i] = u) <=> u \in OpenFrom(idx)
  <2> SUFFICES ASSUME NEW u \in DOMAIN uv
               PROVE (\E i \in k + 1 .. Len(uvcache) : uvcache[i] = u) <=> u \in OpenFrom(idx)
    OBVIOUS
  <2>1. ASSUME NEW i \in k + 1 .. Len(uvcache), uvcache[i] = u PROVE u \in OpenFrom(idx)
    <3>1. i \in 1 .. Len(uvcache)
      BY <1>2
    <3>2. uvcache[i] \in Open
      BY <3>1 DEF UvcacheSorted
    <3> QED BY <2>1, <3>2, <1>3 DEF OpenFrom
  <2>2. ASSUME u \in OpenFrom(idx) PROVE \E i \in k + 1 .. Len(uvcache) : uvcache[i] = u
    <3>1. PICK i \in 1 .. Len(uvcache) : uvcache[i] = u
      BY <2>2 DEF OpenFrom, UvcacheSorted
    <3>2. uv[uvcache[i]].index >= idx /\ uv[uvcache[i]].index \in Nat
      BY <2>2, <3>1, <1>2, RegisterAssumption DEF OpenFrom, Upval, Reg
    <3>3. ~(i \in 1 .. k)
      BY <3>2, <1>1
    <3> QED BY <3>1, <3>3, <1>2
  <2> QED BY <2>1, <2>2
<1>5. \A u \in DOMAIN uv : uv'[u] = IF u \in OpenFrom(idx) THEN CloseUpvalue(u) ELSE uv[u]
  BY <1>1, <1>4
<1>6. \A u \in DOMAIN uv : u \in OpenFrom(idx) =>
        /\ CloseUpvalue(u) \in Upval
        /\ CloseUpvalue(u).index = uv[u].index
        /\ CloseUpvalue(u).closed
        /\ CloseUpvalue(u).value = reg[uv[u].index]
  BY <1>2 DEF CloseUpvalue, OpenFrom, Open, ValueOf, Upval, TypeOK
<1>7. uv' \in [1 .. Len(uv) -> Upval] /\ DOMAIN uv' = DOMAIN uv
  BY <1>1, <1>2, <1>4, <1>6
<1>8. uv' \in Seq(Upval) /\ Len(uv') = Len(uv)
  BY <1>7, <1>2
<1>9. /\ uvcache' \in Seq(DOMAIN uv') /\ Len(uvcache') = k
      /\ \A i \in 1 .. k : uvcache'[i] = uvcache[i] /\ i \in 1 .. Len(uvcache)
  BY <1>1, <1>2, <1>7 DEF TypeOK
<1>10. \A u \in DOMAIN uv : uv'[u].index = uv[u].index
  BY <1>5, <1>6
<1>11. Open' = Open \ OpenFrom(idx)
  BY <1>5, <1>6, <1>7 DEF Open, OpenFrom
<1>12. UvcacheSorted'
  <2>1. \A i, j \in 1 .. Len(uvcache') : i < j => uv'[uvcache'[i]].index < uv'[uvcache'[j]].index
    BY <1>9, <1>10, <1>2 DEF UvcacheSorted
  <2>2. Open' = {uvcache'[i] : i \in 1 .. Len(uvcache')}
    <3>1. ASSUME NEW u \in Open' PROVE u \in {uvcache'[i] : i \in 1 .. Len(uvcache')}
      <4>1. u \in Open /\ u \notin OpenFrom(idx) /\ u \in DOMAIN uv
        BY <3>1, <1>11 DEF Open
      <4>2. PICK i \in 1 .. Len(uvcache) : uvcache[i] = u
        BY <4>1 DEF UvcacheSorted
      <4>3. ~(i \in k + 1 .. Len(uvcache))
        BY <4>1, <4>2, <1>4
      <4> QED BY <4>2, <4>3, <1>9, <1>2
    <3>2. ASSUME NEW i \in 1 .. Len(uvcache') PROVE uvcache'[i] \in Open'
      <4>1. i \in 1 .. k /\ i \in 1 .. Len(uvcache) /\ uvcache'[i] = uvcache[i]
        BY <1>9
      <4>2. uvcache[i] \in Open /\ uv[uvcache[i]].index < idx /\ uv[uvcache[i]].index \in Nat
        BY <4>1, <1>1, <1>2, RegisterAssumption DEF UvcacheSorted, Upval, Reg
      <4> QED BY <4>1, <4>2, <1>11 DEF OpenFrom
    <3> QED BY <3>1, <3>2
  <2> QED BY <2>1, <2>2 DEF UvcacheSorted
<1> QED BY <1>5, <1>6, <1>7, <1>8, <1>9, <1>10, <1>11, <1>12

\* The sequences of the state as functions.
LEMMA Shapes ==
  ASSUME TypeOK
  PROVE  /\ DOMAIN uv = 1 .. Len(uv) /\ Len(uv) \in Nat
         /\ \A u \in DOMAIN uv : /\ uv[u] \in Upval /\ uv[u].index \in Reg /\ uv[u].index \in Nat
                                 /\ var[u] \in VarInfo
                                 /\ uv[u].closed \in BOOLEAN /\ uv[u].value \in Value
                                 /\ var[u].live \in BOOLEAN /\ var[u].want \in Value
         /\ DOMAIN var = DOMAIN uv
         /\ \A i \in 1 .. Len(frames) : /\ frames[i] \in Frame /\ frames[i].base \in Nat
                                        /\ frames[i].kind \in {"lua", "pcall", "xpcall", "errfunc"}
         /\ Reg \subseteq Nat
<1>1. uv \in Seq(Upval) /\ var \in Seq(VarInfo) /\ Len(var) = Len(uv)
  BY DEF TypeOK, VarInfo
<1>2. DOMAIN uv = 1 .. Len(uv) /\ Len(uv) \in Nat /\ DOMAIN var = DOMAIN uv
  BY <1>1
<1>3. \A u \in DOMAIN uv : uv[u] \in Upval /\ var[u] \in VarInfo
  BY <1>1, <1>2
<1>4. Reg \subseteq Nat
  BY RegisterAssumption DEF Reg
<1>5. \A i \in 1 .. Len(frames) : frames[i] \in Frame
  BY DEF TypeOK
<1> QED BY <1>2, <1>3, <1>4, <1>5 DEF Upval, Frame, VarInfo

\* Two open Upvalues are of different registers.
LEMMA OpenDistinct ==
  ASSUME TypeOK, UvcacheSorted, NEW u \in Open, NEW w \in Open, uv[u].index = uv[w].index
  PROVE  u = w
<1>1. PICK i \in 1 .. Len(uvcache) : uvcache[i] = u
  BY DEF UvcacheSorted
<1>2. PICK j \in 1 .. Len(uvcache) : uvcache[j] = w
  BY DEF UvcacheSorted
<1>3. uv[u].index \in Nat /\ Len(uvcache) \in Nat
  BY Shapes DEF Open, TypeOK
<1>4. ~(i < j) /\ ~(j < i)
  BY <1>1, <1>2, <1>3, SMTT(20) DEF UvcacheSorted
<1> QED BY <1>1, <1>2, <1>3, <1>4

\* The variable of an open Upvalue is in its register while it is in scope, and below
\* the running frame once it is not.
LEMMA OpenValues ==
  ASSUME Inv, NEW u \in Open
  PROVE  /\ u \in DOMAIN uv /\ uv[u].index \in Reg
         /\ var[u].live => reg[uv[u].index] = want[uv[u].index]
         /\ ~var[u].live => uv[u].index < Cur.base /\ reg[uv[u].index] = var[u].want
<1>1. u \in DOMAIN uv /\ uv[u].index \in Reg /\ ~uv[u].closed
  BY Shapes DEF Open, Inv
<1>2. ASSUME var[u].live PROVE reg[uv[u].index] = want[uv[u].index]
  <2>1. \A w \in Open : uv[w].index = uv[u].index => var[w].live
    BY <1>2, OpenDistinct DEF Inv
  <2> QED BY <2>1, <1>1 DEF Inv, RegistersFollow
<1>3. ASSUME ~var[u].live PROVE uv[u].index < Cur.base /\ reg[uv[u].index] = var[u].want
  <2>1. PICK i, j \in 1 .. Len(frames) :
          Serves(i, j) /\ frames[j].base <= uv[u].index /\ uv[u].index < frames[i].base
    BY <1>3 DEF Inv, DeadUnderHandler
  <2>2. Len(frames) \in Nat \ {0}
    BY CurFits DEF Inv
  <2>3. frames[i].base <= frames[Len(frames)].base
    BY <2>2 DEF Inv, FramesOK
  <2>4. frames[i].base \in Nat /\ frames[Len(frames)].base \in Nat /\ uv[u].index \in Nat
    BY <2>2, <1>1, Shapes DEF Inv
  <2>5. uv[u].index < Cur.base
    BY <2>1, <2>3, <2>4 DEF Cur
  <2>6. reg[uv[u].index] = var[u].want
    BY <1>1, <1>3 DEF Inv, DeadKeepsValue, ValueOf
  <2> QED BY <2>5, <2>6
<1> QED BY <1>1, <1>2, <1>3

\* What a step leaves in the registers: those below idx keep their values, the others
\* keep theirs too or are cleared.
Registers(idx) ==
  /\ reg' \in [Reg -> Value] /\ want' \in [Reg -> Value]
  /\ \A r \in Reg : \/ reg'[r] = reg[r] /\ want'[r] = want[r]
                    \/ r >= idx /\ reg'[r] = want'[r]

\* SetTop clears the registers it gives up and leaves the others.
LEMMA SetTopRegisters ==
  ASSUME TypeOK, NEW idx \in Nat, SetTop(idx)
  PROVE  Registers(idx)
BY RegisterAssumption DEF TypeOK, SetTop, Registers, Reg

\* EndScope: a variable from register idx on is out of scope with the value it had.
LEMMA ScopeVars ==
  ASSUME TypeOK, NEW idx \in Nat, EndScope(idx)
  PROVE  /\ var' \in Seq(VarInfo) /\ Len(var') = Len(var)
         /\ \A u \in DOMAIN uv :
              /\ var[u].live /\ uv[u].index >= idx =>
                   ~var'[u].live /\ var'[u].want = want[uv[u].index]
              /\ ~(var[u].live /\ uv[u].index >= idx) => var'[u] = var[u]
<1>1. DOMAIN var = 1 .. Len(var) /\ Len(var) \in Nat /\ DOMAIN var = DOMAIN uv
  BY Shapes DEF TypeOK
<1>2. \A u \in DOMAIN var : var'[u] = IF var[u].live /\ uv[u].index >= idx
                                      THEN [live |-> FALSE, want |-> want[uv[u].index]] ELSE var[u]
  BY DEF EndScope
<1>3. \A u \in DOMAIN var : var'[u] \in VarInfo
  <2> SUFFICES ASSUME NEW u \in DOMAIN var PROVE var'[u] \in VarInfo
    OBVIOUS
  <2>1. var[u] \in VarInfo /\ uv[u].index \in Reg
    BY <1>1, Shapes
  <2>2. want[uv[u].index] \in Value
    BY <2>1 DEF TypeOK
  <2>3. [live |-> FALSE, want |-> want[uv[u].index]] \in VarInfo
    BY <2>2 DEF VarInfo
  <2> QED BY <1>2, <2>1, <2>3
<1>4. var' \in [1 .. Len(var) -> VarInfo]
  BY <1>1, <1>3 DEF EndScope
<1>5. var' \in Seq(VarInfo) /\ Len(var') = Len(var)
  BY <1>4, <1>1, FunctionIsSeq
<1>6. ASSUME NEW u \in DOMAIN uv, var[u].live, uv[u].index >= idx
      PROVE  ~var'[u].live /\ var'[u].want = want[uv[u].index]
  <2>1. var'[u] = [live |-> FALSE, want |-> want[uv[u].index]]
    BY <1>1, <1>2, <1>6
  <2>2. var'[u].live = FALSE
    BY <2>1
  <2>3. var'[u].want = want[uv[u].index]
    BY <2>1
  <2> QED BY <2>2, <2>3
<1>7. ASSUME NEW u \in DOMAIN uv, ~(var[u].live /\ uv[u].index >= idx) PROVE var'[u] = var[u]
  BY <1>1, <1>2, <1>7
<1> QED BY <1>5, <1>6, <1>7

\* The end of the scope of the registers from b on, when exactly the open Upvalues of
\* those registers are closed and no register below them changes.
LEMMA ScopeEnds ==
  ASSUME Inv, NEW a \in Nat, NEW b \in Nat, NEW low \in Nat,
         closeUpvalues(a), EndScope(b), Registers(low),
         OpenFrom(a) = OpenFrom(b), OpenFrom(low) \subseteq OpenFrom(a),
         \A u \in OpenFrom(a) : var[u].live \/ reg'[uv[u].index] = want'[uv[u].index]
  PROVE  /\ uv' \in Seq(Upval) /\ uvcache' \in Seq(DOMAIN uv')
         /\ var' \in Seq(VarInfo) /\ Len(var') = Len(uv')
         /\ \A u \in Open' : /\ u \in Open /\ uv[u].index < low
                             /\ uv'[u] = uv[u] /\ var'[u] = var[u]
         /\ UvcacheSorted' /\ LiveIsOpen' /\ DeadKeepsValue' /\ RegistersFollow'
<1> USE DEF Inv
<1>1. /\ uv' \in Seq(Upval) /\ Len(uv') = Len(uv) /\ DOMAIN uv' = DOMAIN uv
      /\ uvcache' \in Seq(DOMAIN uv')
      /\ \A u \in DOMAIN uv :
           /\ uv'[u].index = uv[u].index
           /\ u \in OpenFrom(a) => uv'[u].closed /\ uv'[u].value = reg[uv[u].index]
           /\ u \notin OpenFrom(a) => uv'[u] = uv[u]
      /\ Open' = Open \ OpenFrom(a)
      /\ UvcacheSorted'
  BY CloseEffect
<1>2. /\ var' \in Seq(VarInfo) /\ Len(var') = Len(var)
      /\ \A u \in DOMAIN uv :
           /\ var[u].live /\ uv[u].index >= b =>
                ~var'[u].live /\ var'[u].want = want[uv[u].index]
           /\ ~(var[u].live /\ uv[u].index >= b) => var'[u] = var[u]
  BY ScopeVars
<1>3. \A u \in DOMAIN uv : /\ uv[u].index \in Nat /\ uv[u].index \in Reg
                           /\ u \in Open <=> ~uv[u].closed
                           /\ u \in OpenFrom(a) <=> u \in Open /\ uv[u].index >= b
                           /\ u \in OpenFrom(low) <=> u \in Open /\ uv[u].index >= low
                           /\ var[u].live => u \in Open
  BY Shapes DEF Open, OpenFrom, LiveIsOpen
<1>4. \A u \in Open' : u \in Open /\ u \in DOMAIN uv /\ u \notin OpenFrom(a)
  BY <1>1 DEF Open
<1>5. \A u \in Open' : uv[u].index < low /\ uv'[u] = uv[u] /\ var'[u] = var[u]
  BY <1>1, <1>2, <1>3, <1>4
<1>6. LiveIsOpen'
  <2> SUFFICES ASSUME NEW u \in DOMAIN uv, var'[u].live PROVE ~uv'[u].closed
    BY <1>1 DEF LiveIsOpen
  <2>1. ~(var[u].live /\ uv[u].index >= b) /\ var'[u] = var[u]
    BY <1>2
  <2>2. var[u].live /\ ~uv[u].closed
    BY <2>1 DEF LiveIsOpen
  <2> QED BY <2>1, <2>2, <1>1, <1>3
<1>7. DeadKeepsValue'
  <2> SUFFICES ASSUME NEW u \in DOMAIN uv, ~var'[u].live
               PROVE (IF uv'[u].closed THEN uv'[u].value ELSE reg'[uv'[u].index]) = var'[u].want
    BY <1>1 DEF DeadKeepsValue, ValueOf
  <2>1. CASE u \in OpenFrom(a)
    <3>1. u \in Open /\ uv[u].index >= b
      BY <2>1, <1>3
    <3>2. reg[uv[u].index] = var'[u].want
      <4>1. CASE var[u].live
        BY <4>1, <3>1, <1>2, OpenValues
      <4>2. CASE ~var[u].live
        BY <4>2, <3>1, <1>2, OpenValues
      <4> QED BY <4>1, <4>2
    <3> QED BY <2>1, <3>2, <1>1
  <2>2. CASE u \in Open /\ u \notin OpenFrom(a)
    <3>1. uv[u].index < low /\ ~uv[u].closed /\ uv'[u] = uv[u] /\ var'[u] = var[u]
      BY <2>2, <1>1, <1>2, <1>3
    <3>2. reg[uv[u].index] = var[u].want
      BY <2>2, <3>1, OpenValues
    <3>3. reg'[uv[u].index] = reg[uv[u].index]
      BY <3>1, <1>3 DEF Registers
    <3> QED BY <3>1, <3>2, <3>3
  <2>3. CASE u \notin Open
    <3>1. uv[u].closed /\ uv'[u] = uv[u] /\ ~var[u].live /\ var'[u] = var[u]
      BY <2>3, <1>1, <1>2, <1>3 DEF LiveIsOpen
    <3> QED BY <3>1 DEF DeadKeepsValue, ValueOf
  <2> QED BY <2>1, <2>2, <2>3
<1>8. RegistersFollow'
  <2> SUFFICES ASSUME NEW r \in Reg, \A u \in Open' : uv'[u].index = r => var'[u].live
               PROVE reg'[r] = want'[r]
    BY DEF RegistersFollow
  <2>1. CASE reg'[r] = reg[r] /\ want'[r] = want[r]
    <3> SUFFICES ASSUME reg'[r] # want'[r] PROVE FALSE
      OBVIOUS
    <3>1. ASSUME NEW u \in Open, uv[u].index = r PROVE var[u].live
      <4>1. CASE u \in OpenFrom(a)
        BY <4>1, <3>1
      <4>2. CASE u \notin OpenFrom(a)
        <5>1. u \in DOMAIN uv /\ u \in Open' /\ uv'[u] = uv[u] /\ var'[u] = var[u]
          BY <4>2, <1>1, <1>5, OpenValues
        <5> QED BY <5>1, <3>1
      <4> QED BY <4>1, <4>2
    <3> QED BY <2>1, <3>1 DEF RegistersFollow
  <2> QED BY <2>1 DEF Registers
<1>9. Len(var') = Len(uv')
  BY <1>1, <1>2 DEF TypeOK
<1> QED BY <1>1, <1>2, <1>4, <1>5, <1>6, <1>7, <1>8, <1>9

\* Upvalues left open by errors stay under their handlers while those are not left.
LEMMA DeadStays ==
  ASSUME Inv, NEW n \in Nat, n <= Len(frames), n <= Len(frames'), Len(frames') \in Nat,
         \A i \in 1 .. n : frames'[i] = frames[i],
         \A u \in Open' : ~var'[u].live => u \in Open /\ ~var[u].live /\ uv'[u].index = uv[u].index,
         \A u \in Open', i, j \in 1 .. Len(frames) :
           Serves(i, j) /\ frames[j].base <= uv[u].index /\ uv[u].index < frames[i].base => i <= n
  PROVE  DeadUnderHandler'
<1> SUFFICES ASSUME NEW u \in Open', ~var'[u].live
             PROVE \E i, j \in 1 .. Len(frames') :
                     Serves(i, j)' /\ frames'[j].base <= uv'[u].index /\ uv'[u].index < frames'[i].base
  BY DEF DeadUnderHandler
<1>1. u \in Open /\ ~var[u].live /\ uv'[u].index = uv[u].index
  OBVIOUS
<1>2. PICK i, j \in 1 .. Len(frames) :
        Serves(i, j) /\ frames[j].base <= uv[u].index /\ uv[u].index < frames[i].base
  BY <1>1 DEF Inv, DeadUnderHandler
<1>3. i <= n /\ j < i /\ Len(frames) \in Nat
  BY <1>2, CurFits DEF Serves, Inv
<1>4. i \in 1 .. n /\ j \in 1 .. n /\ i \in 1 .. Len(frames') /\ j \in 1 .. Len(frames')
  BY <1>3
<1>5. frames'[i] = frames[i] /\ frames'[j] = frames[j] /\ \A l \in j + 1 .. i : frames'[l] = frames[l]
  BY <1>3, <1>4
<1>6. Serves(i, j)'
  BY <1>2, <1>5 DEF Serves
<1> QED BY <1>1, <1>2, <1>4, <1>5, <1>6

\* The frames below frame m of a call or of a protected call: what Return and Leave keep.
LEMMA FramesCut ==
  ASSUME FullInv, NEW m \in 2 .. Len(frames), frames[m - 1].kind \notin Protected,
         frames' = SubSeq(frames, 1, m - 1)
  PROVE  /\ frames' \in Seq(Frame) /\ Len(frames') = m - 1 /\ frames' # << >>
         /\ \A i \in 1 .. m - 1 : i \in 1 .. Len(frames) /\ frames'[i] = frames[i]
         /\ Cur'.kind \in {"lua", "errfunc"}
         /\ Top' = frames[m].base /\ Top' \in Nat /\ Top' - 1 <= NReg
         /\ FramesOK'
<1> USE DEF FullInv
<1>1. Len(frames) \in Nat \ {0} /\ frames \in Seq(Frame) /\ m - 1 \in 1 .. Len(frames) - 1 /\ m \in Nat
  BY CurFits DEF TypeOK
<1>2. /\ frames' \in Seq(Frame) /\ Len(frames') = m - 1
      /\ \A i \in 1 .. m - 1 : i \in 1 .. Len(frames) /\ frames'[i] = frames[i]
  BY <1>1
<1>3. frames' # << >>
  BY <1>1, <1>2
<1>4. Cur' = frames[m - 1]
  BY <1>1, <1>2 DEF Cur
<1>5. frames[m].base = frames[m - 1].base + NLocals /\ frames[m].base \in Nat
  BY <1>1, Shapes DEF FramesOK
<1>6. Top' = frames[m].base
  BY <1>4, <1>5 DEF Top
<1>7. frames[m].base <= Cur.base
  BY <1>1 DEF FramesOK, Cur
<1>8. Top' - 1 <= NReg
  BY <1>5, <1>6, <1>7, CurFits, RegisterAssumption, SMTT(20) DEF TypeOK
<1>9. Cur'.kind \in {"lua", "errfunc"}
  BY <1>1, <1>4, Shapes DEF Protected
<1>10. FramesOK'
  <2>1. frames'[1].kind = "lua" /\ frames'[1].base = 1
    BY <1>1, <1>2 DEF FramesOK
  <2>2. ASSUME NEW i \in 1 .. Len(frames') - 1
        PROVE  IF frames'[i].kind \in Protected
               THEN frames'[i + 1].kind = "lua" /\ frames'[i + 1].base = frames'[i].base
               ELSE frames'[i + 1].base = frames'[i].base + NLocals
    <3>1. i \in 1 .. Len(frames) - 1 /\ frames'[i] = frames[i] /\ frames'[i + 1] = frames[i + 1]
      BY <1>1, <1>2
    <3> QED BY <3>1 DEF FramesOK
  <2>3. ASSUME NEW i \in 1 .. Len(frames'), NEW j \in 1 .. Len(frames'), i <= j
        PROVE  frames'[i].base <= frames'[j].base
    BY <2>3, <1>2 DEF FramesOK
  <2>4. ASSUME NEW i \in 1 .. Len(frames'), frames'[i].kind = "errfunc"
        PROVE  \E j \in 1 .. i : frames'[j].kind = "xpcall"
    <3>1. i \in 1 .. Len(frames) /\ frames[i].kind = "errfunc"
      BY <2>4, <1>2
    <3>2. PICK j \in 1 .. i : frames[j].kind = "xpcall"
      BY <3>1 DEF FramesOK
    <3>3. frames'[j] = frames[j]
      BY <1>1, <1>2
    <3> QED BY <3>2, <3>3
  <2> QED BY <2>1, <2>2, <2>3, <2>4 DEF FramesOK
<1> QED BY <1>2, <1>3, <1>5, <1>6, <1>8, <1>9, <1>10

\* A frame of a function, or of a handler above an xpcall, on top of the running one.
LEMMA FramesPush ==
  ASSUME FullInv, Room, NEW k \in {"lua", "errfunc"},
         k = "errfunc" => \E j \in 1 .. Len(frames) : frames[j].kind = "xpcall",
         frames' = Append(frames, [kind |-> k, base |-> Top])
  PROVE  /\ frames' \in Seq(Frame) /\ Len(frames') = Len(frames) + 1 /\ frames' # << >>
         /\ \A i \in 1 .. Len(frames) : frames'[i] = frames[i]
         /\ Cur' = [kind |-> k, base |-> Top]
         /\ Top' = Top + NLocals /\ Top' - 1 <= NReg
         /\ FramesOK'
<1> USE DEF FullInv
<1>1. /\ Len(frames) \in Nat \ {0} /\ frames \in Seq(Frame) /\ Top \in Nat
      /\ Cur.base \in Nat /\ Top = Cur.base + NLocals
  BY CurFits DEF TypeOK
<1>2. [kind |-> k, base |-> Top] \in Frame
  BY <1>1 DEF Frame
<1>3. /\ frames' \in Seq(Frame) /\ Len(frames') = Len(frames) + 1
      /\ \A i \in 1 .. Len(frames) : frames'[i] = frames[i]
      /\ frames'[Len(frames) + 1] = [kind |-> k, base |-> Top]
  BY <1>1, <1>2
<1>4. Cur' = [kind |-> k, base |-> Top] /\ frames' # << >>
  BY <1>1, <1>3 DEF Cur
<1>5. Top' = Top + NLocals /\ Top' - 1 <= NReg
  BY <1>1, <1>4, RegisterAssumption DEF Top, Room
<1>6. /\ frames[Len(frames)].kind \notin Protected
      /\ frames'[Len(frames) + 1].kind = k /\ frames'[Len(frames) + 1].base = Top
      /\ Top = frames[Len(frames)].base + NLocals
  BY <1>1, <1>3 DEF TypeOK, Protected, Cur
<1>7. FramesOK'
  <2>1. frames'[1].kind = "lua" /\ frames'[1].base = 1
    BY <1>1, <1>3 DEF FramesOK
  <2>2. ASSUME NEW i \in 1 .. Len(frames') - 1
        PROVE  IF frames'[i].kind \in Protected
               THEN frames'[i + 1].kind = "lua" /\ frames'[i + 1].base = frames'[i].base
               ELSE frames'[i + 1].base = frames'[i].base + NLocals
    <3>1. CASE i = Len(frames)
      BY <3>1, <1>1, <1>3, <1>6
    <3>2. CASE i # Len(frames)
      <4>1. i \in 1 .. Len(frames) - 1 /\ frames'[i] = frames[i] /\ frames'[i + 1] = frames[i + 1]
        BY <3>2, <1>1, <1>3
      <4> QED BY <4>1 DEF FramesOK
    <3> QED BY <3>1, <3>2
  <2>3. ASSUME NEW i \in 1 .. Len(frames'), NEW j \in 1 .. Len(frames'), i <= j
        PROVE  frames'[i].base <= frames'[j].base
    <3>1. CASE j \in 1 .. Len(frames)
      <4>1. i \in 1 .. Len(frames) /\ frames'[i] = frames[i] /\ frames'[j] = frames[j]
        BY <3>1, <2>3, <1>1, <1>3
      <4> QED BY <3>1, <4>1, <2>3 DEF FramesOK
    <3>2. CASE j = Len(frames) + 1 /\ i \in 1 .. Len(frames)
      <4>1. frames[i].base <= frames[Len(frames)].base /\ frames[i].base \in Nat
        BY <3>2, <1>1, Shapes DEF FramesOK
      <4>2. frames[i].base <= Top
        BY <4>1, <1>1, <1>6, RegisterAssumption DEF Cur
      <4> QED BY <3>2, <4>2, <1>3, <1>6
    <3>3. CASE i = Len(frames) + 1 /\ j = Len(frames) + 1
      BY <3>3, <1>1, <1>6
    <3> QED BY <3>1, <3>2, <3>3, <2>3, <1>1, <1>3
  <2>4. ASSUME NEW i \in 1 .. Len(frames'), frames'[i].kind = "errfunc"
        PROVE  \E j \in 1 .. i : frames'[j].kind = "xpcall"
    <3>1. CASE i \in 1 .. Len(frames)
      <4>1. frames[i].kind = "errfunc"
        BY <2>4, <3>1, <1>3
      <4>2. PICK j \in 1 .. i : frames[j].kind = "xpcall"
        BY <3>1, <4>1 DEF FramesOK
      <4>3. frames'[j] = frames[j]
        BY <3>1, <1>1, <1>3
      <4> QED BY <4>2, <4>3
    <3>2. CASE i = Len(frames) + 1
      <4>1. PICK j \in 1 .. Len(frames) : frames[j].kind = "xpcall"
        BY <2>4, <3>2, <1>6
      <4>2. j \in 1 .. i /\ frames'[j] = frames[j]
        BY <3>2, <1>1, <1>3
      <4> QED BY <4>1, <4>2
    <3> QED BY <3>1, <3>2, <1>1, <1>3
  <2> QED BY <2>1, <2>2, <2>3, <2>4 DEF FramesOK
<1> QED BY <1>3, <1>4, <1>5, <1>7

\* The frames of PCall and of the function it calls.
LEMMA FramesPushTwo ==
  ASSUME FullInv, Room, NEW k \in Protected,
         frames' = frames \o <<[kind |-> k, base |-> Top], [kind |-> "lua", base |-> Top]>>
  PROVE  /\ frames' \in Seq(Frame) /\ Len(frames') = Len(frames) + 2 /\ frames' # << >>
         /\ \A i \in 1 .. Len(frames) : frames'[i] = frames[i]
         /\ frames'[Len(frames) + 1].kind = k
         /\ Cur' = [kind |-> "lua", base |-> Top]
         /\ Top' = Top + NLocals /\ Top' - 1 <= NReg
         /\ FramesOK'
<1> USE DEF FullInv
<1> DEFINE n == Len(frames)
           f == [kind |-> k, base |-> Top]
           g == [kind |-> "lua", base |-> Top]
<1>1. /\ n \in Nat \ {0} /\ frames \in Seq(Frame) /\ Top \in Nat
      /\ Cur.base \in Nat /\ Top = Cur.base + NLocals
  BY CurFits DEF TypeOK
<1>2. f \in Frame /\ g \in Frame
  BY <1>1 DEF Frame, Protected
<1>3. <<f, g>> \in Seq(Frame) /\ Len(<<f, g>>) = 2 /\ <<f, g>>[1] = f /\ <<f, g>>[2] = g
  BY <1>2
<1>4. /\ frames' \in Seq(Frame) /\ Len(frames') = n + 2
      /\ \A i \in 1 .. n : frames'[i] = frames[i]
      /\ frames'[n + 1] = f /\ frames'[n + 2] = g
  <2> HIDE DEF f, g
  <2>1. frames' = frames \o <<f, g>>
    BY DEF f, g
  <2> QED BY <1>1, <1>3, <2>1
<1>5. Cur' = g /\ frames' # << >>
  BY <1>1, <1>4 DEF Cur
<1>6. Top' = Top + NLocals /\ Top' - 1 <= NReg
  BY <1>1, <1>5, RegisterAssumption DEF Top, Room
<1>7. /\ frames[n].kind \notin Protected /\ Top = frames[n].base + NLocals
      /\ frames'[n + 1].kind = k /\ frames'[n + 1].base = Top
      /\ frames'[n + 2].kind = "lua" /\ frames'[n + 2].base = Top
  BY <1>1, <1>4, SMTT(20) DEF TypeOK, Protected, Cur
<1>8. FramesOK'
  <2> HIDE DEF f, g
  <2>1. frames'[1].kind = "lua" /\ frames'[1].base = 1
    BY <1>1, <1>4 DEF FramesOK
  <2>2. ASSUME NEW i \in 1 .. Len(frames') - 1
        PROVE  IF frames'[i].kind \in Protected
               THEN frames'[i + 1].kind = "lua" /\ frames'[i + 1].base = frames'[i].base
               ELSE frames'[i + 1].base = frames'[i].base + NLocals
    <3>1. CASE i = n
      BY <3>1, <1>1, <1>4, <1>7
    <3>2. CASE i = n + 1
      BY <3>2, <1>1, <1>4, <1>7
    <3>3. CASE i \in 1 .. n - 1
      <4>1. i \in 1 .. Len(frames) - 1 /\ frames'[i] = frames[i] /\ frames'[i + 1] = frames[i + 1]
        BY <3>3, <1>1, <1>4
      <4> QED BY <4>1 DEF FramesOK
    <3> QED BY <3>1, <3>2, <3>3, <1>1, <1>4
  <2>3. ASSUME NEW i \in 1 .. Len(frames'), NEW j \in 1 .. Len(frames'), i <= j
        PROVE  frames'[i].base <= frames'[j].base
    <3>1. CASE j \in 1 .. n
      <4>1. i \in 1 .. n /\ frames'[i] = frames[i] /\ frames'[j] = frames[j]
        BY <3>1, <2>3, <1>1, <1>4
      <4> QED BY <3>1, <4>1, <2>3 DEF FramesOK
    <3>2. CASE j \in {n + 1, n + 2} /\ i \in 1 .. n
      <4>1. frames[i].base <= frames[n].base /\ frames[i].base \in Nat
        BY <3>2, <1>1, Shapes DEF FramesOK
      <4>2. frames[i].base <= Top
        BY <4>1, <1>1, <1>7, RegisterAssumption DEF Cur
      <4> QED BY <3>2, <4>2, <1>4, <1>7
    <3>3. CASE i \in {n + 1, n + 2} /\ j \in {n + 1, n + 2}
      BY <3>3, <1>1, <1>7
    <3> QED BY <3>1, <3>2, <3>3, <2>3, <1>1, <1>4
  <2>4. ASSUME NEW i \in 1 .. Len(frames'), frames'[i].kind = "errfunc"
        PROVE  \E j \in 1 .. i : frames'[j].kind = "xpcall"
    <3>1. i \in 1 .. n /\ frames[i].kind = "errfunc"
      BY <2>4, <1>1, <1>4, <1>7 DEF Protected
    <3>2. PICK j \in 1 .. i : frames[j].kind = "xpcall"
      BY <3>1 DEF FramesOK
    <3>3. frames'[j] = frames[j]
      BY <3>1, <1>1, <1>4
    <3> QED BY <3>2, <3>3
  <2> QED BY <2>1, <2>2, <2>3, <2>4 DEF FramesOK
<1> QED BY <1>4, <1>5, <1>6, <1>7, <1>8

\* The topmost frame that is not a Lua function's.
LEMMA CatcherIs ==
  ASSUME TypeOK, Catcher # 0
  PROVE  /\ Catcher \in 1 .. Len(frames) /\ frames[Catcher].kind # "lua"
         /\ \A i \in Catcher + 1 .. Len(frames) : frames[i].kind = "lua"
<1> DEFINE S == {i \in DOMAIN frames : frames[i].kind # "lua"}
<1>1. Len(frames) \in Nat /\ DOMAIN frames = 1 .. Len(frames)
  BY DEF TypeOK
<1>2. Catcher = IF S = {} THEN 0 ELSE CHOOSE i \in S : \A j \in S : j <= i
  BY DEF Catcher
<1>3. S # {} /\ S \in SUBSET (0 .. Len(frames))
  BY <1>1, <1>2
<1>4. \E i \in S : \A j \in S : j <= i
  <2> HIDE DEF S
  <2> QED BY <1>1, <1>3, MaxNat
<1>5. Catcher \in S /\ \A j \in S : j <= Catcher
  <2> HIDE DEF S
  <2> QED BY <1>2, <1>3, <1>4, Zenon
<1>6. Catcher \in 1 .. Len(frames)
  BY <1>5, <1>1
<1> QED BY <1>1, <1>5, <1>6

\* The innermost xpcall at or below frame m.
LEMMA ServedIs ==
  ASSUME TypeOK, NEW m \in 1 .. Len(frames), \E j \in 1 .. m : frames[j].kind = "xpcall"
  PROVE  /\ Served(m) \in 1 .. m /\ frames[Served(m)].kind = "xpcall"
         /\ \A i \in Served(m) + 1 .. m : frames[i].kind # "xpcall"
<1> DEFINE S == {i \in 1 .. m : frames[i].kind = "xpcall"}
<1>1. Len(frames) \in Nat /\ m \in Nat
  BY DEF TypeOK
<1>2. Served(m) = CHOOSE i \in S : \A j \in S : j <= i
  BY DEF Served
<1>3. S # {} /\ S \in SUBSET (0 .. m)
  BY <1>1
<1>4. \E i \in S : \A j \in S : j <= i
  <2> HIDE DEF S
  <2> QED BY <1>1, <1>3, MaxNat
<1>5. Served(m) \in S /\ \A j \in S : j <= Served(m)
  <2> HIDE DEF S
  <2> QED BY <1>2, <1>4, Zenon
<1>6. Served(m) \in 1 .. m
  BY <1>5
<1> QED BY <1>1, <1>5, <1>6

\* A protected call is made by a function.
LEMMA CallerOfProtected ==
  ASSUME FullInv, NEW m \in 1 .. Len(frames), frames[m].kind \in Protected
  PROVE  m \in 2 .. Len(frames) /\ frames[m - 1].kind \notin Protected
<1>1. m # 1
  BY DEF FullInv, FramesOK, Protected
<1>2. m \in 2 .. Len(frames) /\ m - 1 \in 1 .. Len(frames) - 1 /\ (m - 1) + 1 = m
  BY <1>1
<1> QED BY <1>2 DEF FullInv, FramesOK, Protected

\* A step that leaves frame m and those above it: Return, HandlerReturn and the end of
\* a protected call that failed.
LEMMA LeaveFrames ==
  ASSUME Inv, NEW m \in 2 .. Len(frames), frames[m - 1].kind \notin Protected,
         \/ frames[m].kind = "xpcall"
         \/ \A i \in m .. Len(frames) : frames[i].kind # "errfunc",
         frames' = SubSeq(frames, 1, m - 1),
         SetTop(frames[m].base),
         NEW a \in Nat, NEW b \in Nat, closeUpvalues(a), EndScope(b),
         OpenFrom(a) = OpenFrom(b), OpenFrom(frames[m].base) \subseteq OpenFrom(a),
         \A u \in OpenFrom(a) : var[u].live \/ uv[u].index >= frames[m].base,
         hasErrorFunc' \in BOOLEAN, ErrorFuncInProgress'
  PROVE  Inv'
<1>1. frames[m].base \in Nat /\ m \in 1 .. Len(frames) /\ Len(frames) \in Nat
  BY Shapes, CurFits DEF Inv
<1>2. Registers(frames[m].base)
  BY <1>1, SetTopRegisters DEF Inv
<1>3. /\ frames' \in Seq(Frame) /\ Len(frames') = m - 1 /\ frames' # << >>
      /\ \A i \in 1 .. m - 1 : i \in 1 .. Len(frames) /\ frames'[i] = frames[i]
      /\ Cur'.kind \in {"lua", "errfunc"}
      /\ Top' = frames[m].base /\ Top' \in Nat /\ Top' - 1 <= NReg
      /\ FramesOK'
  BY InvIsFull, FramesCut
<1>4. ASSUME NEW u \in OpenFrom(a) PROVE var[u].live \/ reg'[uv[u].index] = want'[uv[u].index]
  <2>1. uv[u].index \in Reg
    BY OpenValues DEF OpenFrom
  <2> QED BY <2>1 DEF SetTop
<1>5. /\ uv' \in Seq(Upval) /\ uvcache' \in Seq(DOMAIN uv')
      /\ var' \in Seq(VarInfo) /\ Len(var') = Len(uv')
      /\ \A u \in Open' : /\ u \in Open /\ uv[u].index < frames[m].base
                          /\ uv'[u] = uv[u] /\ var'[u] = var[u]
      /\ UvcacheSorted' /\ LiveIsOpen' /\ DeadKeepsValue' /\ RegistersFollow'
  BY <1>1, <1>2, <1>4, ScopeEnds
<1>6. TypeOK'
  BY <1>2, <1>3, <1>5 DEF TypeOK, VarInfo, Registers
<1>7. NoDangling'
  BY <1>3, <1>5 DEF NoDangling
<1>8. ASSUME NEW u \in Open', NEW i \in 1 .. Len(frames), NEW j \in 1 .. Len(frames),
             Serves(i, j), frames[j].base <= uv[u].index, uv[u].index < frames[i].base
      PROVE  i <= m - 1
  <2> SUFFICES ASSUME i >= m PROVE FALSE
    BY <1>1
  <2>1. frames[i].kind = "errfunc" /\ j < i /\ \A l \in j + 1 .. i : frames[l].kind # "xpcall"
    BY <1>8 DEF Serves
  <2>2. frames[m].kind = "xpcall"
    BY <2>1
  <2>3. uv[u].index < frames[m].base /\ uv[u].index \in Nat /\ frames[j].base \in Nat
    BY <1>5, OpenValues, Shapes DEF Inv, Open
  <2>4. ~(m <= j)
    BY <2>3, <1>1, <1>8 DEF Inv, FramesOK
  <2>5. m \in j + 1 .. i
    BY <2>4, <1>1
  <2> QED BY <2>1, <2>2, <2>5
<1>9. DeadUnderHandler'
  <2>1. m - 1 \in Nat /\ m - 1 <= Len(frames) /\ m - 1 <= Len(frames') /\ Len(frames') \in Nat
    BY <1>1, <1>3, SMTT(20)
  <2>2. \A u \in Open' : ~var'[u].live => u \in Open /\ ~var[u].live /\ uv'[u].index = uv[u].index
    BY <1>5
  <2> QED BY <1>3, <1>8, <2>1, <2>2, DeadStays
<1> QED BY <1>3, <1>5, <1>6, <1>7, <1>9 DEF Inv
-----------------------------------------------------------------------------
(* The initial state and the actions.                                      *)

\* One function, no Upvalue.
LEMMA InitInv == Init => Inv
<1> SUFFICES ASSUME Init PROVE Inv
  OBVIOUS
<1> USE RegisterAssumption DEF Init
<1>1. /\ frames \in Seq(Frame) /\ Len(frames) = 1 /\ frames[1].kind = "lua" /\ frames[1].base = 1
      /\ frames # << >>
  <2>1. [kind |-> "lua", base |-> 1] \in Frame
    BY DEF Frame
  <2> QED BY <2>1
<1>2. Cur.kind = "lua" /\ Top = 1 + NLocals
  BY <1>1 DEF Cur, Top
<1>3. TypeOK
  <2>1. uv \in Seq(Upval) /\ uvcache \in Seq(DOMAIN uv) /\ var \in Seq(VarInfo) /\ Len(var) = Len(uv)
    OBVIOUS
  <2>2. Top - 1 <= NReg
    BY <1>2
  <2>3. reg \in [Reg -> Value] /\ want \in [Reg -> Value] /\ hasErrorFunc \in BOOLEAN
    OBVIOUS
  <2> QED BY <1>1, <1>2, <2>1, <2>2, <2>3 DEF TypeOK, VarInfo
<1>4. Len(uv) = 0 /\ DOMAIN uv = {} /\ Open = {} /\ Len(uvcache) = 0
  BY DEF Open
<1>5. UvcacheSorted /\ NoDangling /\ LiveIsOpen /\ DeadUnderHandler /\ DeadKeepsValue
  BY <1>4 DEF UvcacheSorted, NoDangling, LiveIsOpen, DeadUnderHandler, DeadKeepsValue
<1>6. RegistersFollow
  BY DEF RegistersFollow
<1>7. FramesOK
  BY <1>1 DEF FramesOK
<1>8. ErrorFuncInProgress
  BY DEF ErrorFuncInProgress
<1> QED BY <1>3, <1>5, <1>6, <1>7, <1>8 DEF Inv

\* A local of the running function is a register below Top.
LEMMA LocalsFit ==
  ASSUME TypeOK, NEW r \in Locals
  PROVE  r \in Nat /\ Cur.base <= r /\ r < Top
BY CurFits, RegisterAssumption DEF Locals

\* A step that leaves the frames alone.
LEMMA SameFrames ==
  ASSUME Inv, UNCHANGED <<frames, hasErrorFunc>>,
         reg' \in [Reg -> Value], want' \in [Reg -> Value],
         uv' \in Seq(Upval), uvcache' \in Seq(DOMAIN uv'), var' \in Seq(VarInfo), Len(var') = Len(uv'),
         \A u \in Open' : ~var'[u].live => u \in Open /\ ~var[u].live /\ uv'[u].index = uv[u].index
  PROVE  TypeOK' /\ FramesOK' /\ ErrorFuncInProgress' /\ DeadUnderHandler' /\ Cur' = Cur /\ Top' = Top
<1>1. Cur' = Cur /\ Top' = Top
  BY DEF Cur, Top
<1>2. TypeOK'
  BY <1>1 DEF Inv, TypeOK, VarInfo
<1>3. FramesOK' /\ ErrorFuncInProgress'
  BY DEF Inv, FramesOK, ErrorFuncInProgress
<1>4. Len(frames) \in Nat
  BY CurFits DEF Inv
<1>5. DeadUnderHandler'
  <2>1. /\ Len(frames) <= Len(frames) /\ Len(frames) <= Len(frames') /\ Len(frames') \in Nat
        /\ \A i \in 1 .. Len(frames) : frames'[i] = frames[i]
    BY <1>4
  <2>2. \A u \in Open', i, j \in 1 .. Len(frames) :
          Serves(i, j) /\ frames[j].base <= uv[u].index /\ uv[u].index < frames[i].base
            => i <= Len(frames)
    BY <1>4
  <2> QED BY <1>4, <2>1, <2>2, DeadStays
<1> QED BY <1>1, <1>2, <1>3, <1>5

\* An assignment to a local keeps the invariant.
LEMMA SetLocalInv ==
  ASSUME Inv, NEW r \in Reg, NEW v \in Value, SetLocal(r, v)
  PROVE  Inv'
<1> USE DEF SetLocal
<1>1. Open' = Open
  BY DEF Open
<1>2. reg' \in [Reg -> Value] /\ want' \in [Reg -> Value]
  BY DEF Inv, TypeOK
<1>3. TypeOK' /\ FramesOK' /\ ErrorFuncInProgress' /\ DeadUnderHandler' /\ Cur' = Cur /\ Top' = Top
  <2>1. uv' \in Seq(Upval) /\ uvcache' \in Seq(DOMAIN uv') /\ var' \in Seq(VarInfo) /\ Len(var') = Len(uv')
    BY DEF Inv, TypeOK, VarInfo
  <2> QED BY <1>1, <1>2, <2>1, SameFrames
<1>4. NoDangling' /\ UvcacheSorted' /\ LiveIsOpen'
  BY <1>1, <1>3 DEF Inv, NoDangling, UvcacheSorted, LiveIsOpen
<1>5. DeadKeepsValue'
  <2> SUFFICES ASSUME NEW u \in DOMAIN uv, ~var[u].live
               PROVE (IF uv[u].closed THEN uv[u].value ELSE reg'[uv[u].index]) = var[u].want
    BY DEF DeadKeepsValue, ValueOf
  <2>1. CASE uv[u].closed
    BY <2>1 DEF Inv, DeadKeepsValue, ValueOf
  <2>2. CASE ~uv[u].closed
    <3>1. u \in Open
      BY <2>2 DEF Open
    <3>2. uv[u].index \in Reg /\ uv[u].index < Cur.base /\ reg[uv[u].index] = var[u].want
      BY <3>1, OpenValues
    <3>3. uv[u].index # r
      BY <3>2, LocalsFit, CurFits, Shapes DEF Inv
    <3> QED BY <2>2, <3>2, <3>3 DEF Inv, TypeOK
  <2> QED BY <2>1, <2>2
<1>6. RegistersFollow'
  BY <1>1, <1>2 DEF Inv, TypeOK, RegistersFollow
<1> QED BY <1>3, <1>4, <1>5, <1>6 DEF Inv

\* OP_CLOSURE: findUpvalue finds the Upvalue of the register or inserts one in order.
LEMMA CaptureEffect ==
  ASSUME TypeOK, UvcacheSorted, NEW r \in Reg, Capture(r)
  PROVE  LET n == Len(uv)
         IN /\ n \in Nat /\ DOMAIN uv = 1 .. n /\ DOMAIN var = 1 .. n
            /\ uv' \in Seq(Upval) /\ Len(uv') = n + 1 /\ DOMAIN uv' = 1 .. n + 1
            /\ \A u \in 1 .. n : uv'[u] = uv[u] /\ var'[u] = var[u]
            /\ uv'[n + 1].index = r /\ uv'[n + 1].closed = FALSE
            /\ var' \in Seq(VarInfo) /\ Len(var') = n + 1 /\ var'[n + 1].live = TRUE
            /\ uvcache' \in Seq(DOMAIN uv')
            /\ Open' = Open \cup {n + 1}
            /\ UvcacheSorted'
<1> DEFINE n == Len(uv)
           new == [index |-> r, closed |-> FALSE, value |-> nil]
           U == Upval
<1>1. /\ r \in Locals /\ findUpvalue(r) /\ UNCHANGED <<reg, frames, hasErrorFunc, want>>
      /\ var' = Append(var, [live |-> TRUE, want |-> nil])
      /\ \A i \in 1 .. Len(uvcache) : uv[uvcache[i]].index # r
  BY DEF Capture
<1>2. PICK k \in 0 .. Len(uvcache) :
    /\ \A i \in 1 .. k : uv[uvcache[i]].index < r
    /\ k < Len(uvcache) => uv[uvcache[k + 1]].index > r
    /\ uvcache' = [i \in 1 .. Len(uvcache) + 1 |->
                     IF i <= k THEN uvcache[i] ELSE IF i = k + 1 THEN Len(uv) + 1
                                               ELSE uvcache[i - 1]]
    /\ uv' = Append(uv, new)
  BY <1>1 DEF findUpvalue
<1>3. /\ n \in Nat /\ DOMAIN uv = 1 .. n /\ DOMAIN var = 1 .. n /\ Len(uvcache) \in Nat
      /\ \A i \in 1 .. Len(uvcache) : uvcache[i] \in 1 .. n
      /\ \A u \in 1 .. n : uv[u].index \in Nat
      /\ uv \in Seq(Upval) /\ var \in Seq(VarInfo) /\ Len(var) = n
  <2>1. uv \in Seq(Upval) /\ var \in Seq(VarInfo) /\ Len(var) = n /\ uvcache \in Seq(DOMAIN uv) /\ TypeOK
    BY DEF TypeOK, VarInfo
  <2>2. n \in Nat /\ DOMAIN uv = 1 .. n /\ DOMAIN var = 1 .. n /\ \A u \in 1 .. n : uv[u].index \in Nat
    BY <2>1, Shapes
  <2>3. Len(uvcache) \in Nat /\ \A i \in 1 .. Len(uvcache) : uvcache[i] \in 1 .. n
    BY <2>1, <2>2
  <2> QED BY <2>1, <2>2, <2>3
<1>4. new \in Upval
  BY RegisterAssumption DEF Upval
<1>5. /\ uv' \in Seq(Upval) /\ Len(uv') = n + 1 /\ DOMAIN uv' = 1 .. n + 1
      /\ \A u \in 1 .. n : uv'[u] = uv[u]
      /\ uv'[n + 1] = new
  <2> HIDE DEF new
  <2> QED BY <1>2, <1>3, <1>4
<1>6. uv'[n + 1].index = r /\ uv'[n + 1].closed = FALSE
  BY <1>5
<1>7. /\ var' \in Seq(VarInfo) /\ Len(var') = n + 1 /\ \A u \in 1 .. n : var'[u] = var[u]
      /\ var'[n + 1].live = TRUE
  <2>1. [live |-> TRUE, want |-> nil] \in VarInfo
    BY RegisterAssumption DEF VarInfo
  <2>2. /\ var' \in Seq(VarInfo) /\ Len(var') = n + 1 /\ \A u \in 1 .. n : var'[u] = var[u]
        /\ var'[n + 1] = [live |-> TRUE, want |-> nil]
    BY <1>1, <1>3, <2>1
  <2> QED BY <2>2
<1> HIDE DEF new
<1>8. /\ Len(uvcache') = Len(uvcache) + 1
      /\ uvcache' \in Seq(1 .. n + 1)
      /\ \A i \in 1 .. k : uvcache'[i] = uvcache[i]
      /\ uvcache'[k + 1] = n + 1
      /\ \A i \in k + 2 .. Len(uvcache) + 1 : uvcache'[i] = uvcache[i - 1]
  <2>1. PICK len \in Nat : len = Len(uvcache) /\ k \in 0 .. len
    BY <1>3
  <2>2. uvcache' = [i \in 1 .. len + 1 |->
                      IF i <= k THEN uvcache[i] ELSE IF i = k + 1 THEN n + 1 ELSE uvcache[i - 1]]
    BY <1>2, <2>1
  <2>3. ASSUME NEW i \in 1 .. len + 1
        PROVE  (IF i <= k THEN uvcache[i] ELSE IF i = k + 1 THEN n + 1 ELSE uvcache[i - 1])
                 \in 1 .. n + 1
    <3>1. CASE i <= k
      BY <3>1, <1>3, <2>1
    <3>2. CASE i > k + 1
      <4>1. i - 1 \in 1 .. len
        BY <3>2, <2>1
      <4> QED BY <3>2, <4>1, <1>3, <2>1
    <3> QED BY <3>1, <3>2, <1>3, <2>1
  <2>4. uvcache' \in [1 .. len + 1 -> 1 .. n + 1]
    <3> HIDE DEF n
    <3> QED BY <2>2, <2>3
  <2>5. Len(uvcache') = len + 1 /\ uvcache' \in Seq(1 .. n + 1)
    <3>1. PICK S : S = 1 .. n + 1
      OBVIOUS
    <3>2. uvcache' \in [1 .. len + 1 -> S] /\ len + 1 \in Nat
      BY <2>1, <2>4, <3>1
    <3>3. Len(uvcache') = len + 1 /\ uvcache' \in Seq(S)
      BY <3>2
    <3> QED BY <3>1, <3>3
  <2>6. \A i \in 1 .. k : uvcache'[i] = uvcache[i]
    BY <2>1, <2>2
  <2>7. uvcache'[k + 1] = n + 1
    BY <2>1, <2>2
  <2>8. \A i \in k + 2 .. len + 1 : uvcache'[i] = uvcache[i - 1]
    BY <2>1, <2>2
  <2> QED BY <2>1, <2>5, <2>6, <2>7, <2>8
<1>9. Open' = Open \cup {n + 1}
  <2>1. \A u \in 1 .. n : u \in Open' <=> u \in Open
    BY <1>3, <1>5 DEF Open
  <2>2. n + 1 \in Open'
    BY <1>3, <1>5, <1>6 DEF Open
  <2>3. Open \subseteq 1 .. n /\ Open' \subseteq 1 .. n + 1
    BY <1>3, <1>5 DEF Open
  <2>4. ASSUME NEW u PROVE u \in Open' <=> u \in Open \cup {n + 1}
    <3>1. CASE u \in 1 .. n
      BY <3>1, <2>1, <1>3
    <3>2. CASE u = n + 1
      BY <3>2, <2>2
    <3>3. CASE u \notin 1 .. n /\ u # n + 1
      <4>1. u \notin 1 .. n + 1
        BY <3>3, <1>3
      <4> QED BY <3>3, <4>1, <2>3
    <3> QED BY <3>1, <3>2, <3>3
  <2> QED BY <2>4
<1>10. \A i \in k + 1 .. Len(uvcache) : uv[uvcache[i]].index > r
  <2> SUFFICES ASSUME NEW i \in k + 1 .. Len(uvcache) PROVE uv[uvcache[i]].index > r
    OBVIOUS
  <2>1. k + 1 \in 1 .. Len(uvcache) /\ i \in 1 .. Len(uvcache) /\ r \in Nat
    BY <1>3, RegisterAssumption DEF Reg
  <2>2. uv[uvcache[k + 1]].index > r /\ uv[uvcache[k + 1]].index \in Nat /\ uv[uvcache[i]].index \in Nat
    BY <1>2, <1>3, <2>1
  <2>3. CASE i > k + 1
    <3>1. uv[uvcache[k + 1]].index < uv[uvcache[i]].index
      BY <2>1, <2>3 DEF UvcacheSorted
    <3> QED BY <2>1, <2>2, <3>1
  <2> QED BY <2>1, <2>2, <2>3
<1>11. UvcacheSorted'
  <2> DEFINE at(i) == uv'[uvcache'[i]].index
  <2>1. \A i \in 1 .. k : at(i) = uv[uvcache[i]].index /\ at(i) < r
    BY <1>2, <1>3, <1>5, <1>8
  <2>2. at(k + 1) = r
    BY <1>6, <1>8
  <2>3. \A i \in k + 2 .. Len(uvcache) + 1 : at(i) = uv[uvcache[i - 1]].index /\ at(i) > r
    <3> SUFFICES ASSUME NEW i \in k + 2 .. Len(uvcache) + 1
                 PROVE at(i) = uv[uvcache[i - 1]].index /\ at(i) > r
      OBVIOUS
    <3>1. i - 1 \in k + 1 .. Len(uvcache) /\ i - 1 \in 1 .. Len(uvcache) /\ uvcache'[i] = uvcache[i - 1]
      BY <1>3, <1>8
    <3> QED BY <3>1, <1>3, <1>5, <1>10
  <2>4. ASSUME NEW i \in 1 .. Len(uvcache'), NEW j \in 1 .. Len(uvcache'), i < j
        PROVE  at(i) < at(j)
    <3> HIDE DEF at
    <3>0. r \in Nat /\ k \in Nat /\ i \in Nat /\ j \in Nat
      BY RegisterAssumption DEF Reg
    <3>1. CASE i \in 1 .. k /\ j \in 1 .. k
      <4>1. j \in 1 .. Len(uvcache) /\ i \in 1 .. Len(uvcache)
        BY <3>1, <3>0, <1>3
      <4>2. uv[uvcache[i]].index < uv[uvcache[j]].index
        BY <4>1, <2>4 DEF UvcacheSorted
      <4> QED BY <3>1, <4>2, <2>1
    <3>2. CASE i \in 1 .. k /\ j = k + 1
      BY <3>2, <2>1, <2>2
    <3>3. CASE i \in 1 .. k /\ j \in k + 2 .. Len(uvcache) + 1
      <4>1. j - 1 \in 1 .. Len(uvcache) /\ i \in 1 .. Len(uvcache) /\ i < j - 1
        BY <3>3, <3>0, <1>3
      <4>2. uv[uvcache[i]].index < uv[uvcache[j - 1]].index
        BY <4>1 DEF UvcacheSorted
      <4> QED BY <3>3, <4>2, <2>1, <2>3
    <3>4. CASE i = k + 1 /\ j \in k + 2 .. Len(uvcache) + 1
      <4>1. at(j) > r
        BY <3>4, <2>3
      <4>2. j - 1 \in 1 .. Len(uvcache)
        BY <3>4, <3>0, <1>3
      <4>3. at(j) \in Nat
        BY <3>4, <4>2, <2>3, <1>3
      <4> QED BY <3>4, <4>1, <4>3, <2>2, <3>0
    <3>5. CASE i \in k + 2 .. Len(uvcache) + 1 /\ j \in k + 2 .. Len(uvcache) + 1
      <4>1. j - 1 \in 1 .. Len(uvcache) /\ i - 1 \in 1 .. Len(uvcache) /\ i - 1 < j - 1
        BY <3>5, <3>0, <2>4, <1>3
      <4>2. uv[uvcache[i - 1]].index < uv[uvcache[j - 1]].index
        BY <4>1 DEF UvcacheSorted
      <4> QED BY <3>5, <4>2, <2>3
    <3>6. /\ i \in 1 .. k \/ i = k + 1 \/ i \in k + 2 .. Len(uvcache) + 1
          /\ j \in 1 .. k \/ j = k + 1 \/ j \in k + 2 .. Len(uvcache) + 1
      BY <3>0, <1>3, <1>8
    <3>7. /\ ~(i = k + 1 /\ j \in 1 .. k) /\ ~(i = k + 1 /\ j = k + 1)
          /\ ~(i \in k + 2 .. Len(uvcache) + 1 /\ j \in 1 .. k)
          /\ ~(i \in k + 2 .. Len(uvcache) + 1 /\ j = k + 1)
      BY <3>0, <2>4, <1>3
    <3> QED BY <3>1, <3>2, <3>3, <3>4, <3>5, <3>6, <3>7
  <2>5. ASSUME NEW u \in Open' PROVE u \in {uvcache'[i] : i \in 1 .. Len(uvcache')}
    <3>1. CASE u = n + 1
      <4>1. k + 1 \in 1 .. Len(uvcache')
        BY <1>3, <1>8
      <4> QED BY <3>1, <4>1, <1>8
    <3>2. CASE u \in Open
      <4>1. PICK i \in 1 .. Len(uvcache) : uvcache[i] = u
        BY <3>2 DEF UvcacheSorted
      <4>2. CASE i <= k
        BY <4>1, <4>2, <1>3, <1>8
      <4>3. CASE i > k
        <5>1. i + 1 \in k + 2 .. Len(uvcache) + 1 /\ i + 1 \in 1 .. Len(uvcache') /\ (i + 1) - 1 = i
          BY <4>3, <1>3, <1>8
        <5>2. uvcache'[i + 1] = u
          BY <4>1, <5>1, <1>8
        <5> QED BY <5>1, <5>2
      <4> QED BY <4>2, <4>3, <1>3
    <3> QED BY <3>1, <3>2, <1>9
  <2>6. ASSUME NEW i \in 1 .. Len(uvcache') PROVE uvcache'[i] \in Open'
    <3>1. CASE i \in 1 .. k
      <4>1. i \in 1 .. Len(uvcache) /\ uvcache'[i] = uvcache[i]
        BY <3>1, <1>3, <1>8
      <4> QED BY <4>1, <1>9 DEF UvcacheSorted
    <3>2. CASE i = k + 1
      BY <3>2, <1>8, <1>9
    <3>3. CASE i \in k + 2 .. Len(uvcache) + 1
      <4>1. i - 1 \in 1 .. Len(uvcache) /\ uvcache'[i] = uvcache[i - 1]
        BY <3>3, <1>3, <1>8, SMTT(20)
      <4> QED BY <4>1, <1>9 DEF UvcacheSorted
    <3> QED BY <3>1, <3>2, <3>3, <1>3, <1>8
  <2>7. Open' = {uvcache'[i] : i \in 1 .. Len(uvcache')}
    BY <2>5, <2>6
  <2> QED BY <2>4, <2>7 DEF UvcacheSorted
<1>12. uvcache' \in Seq(DOMAIN uv')
  BY <1>5, <1>8
<1> QED BY <1>3, <1>5, <1>6, <1>7, <1>9, <1>11, <1>12

\* OP_CLOSURE keeps the invariant.
LEMMA CaptureInv ==
  ASSUME Inv, NEW r \in Reg, Capture(r)
  PROVE  Inv'
<1> DEFINE n == Len(uv)
<1>1. r \in Locals /\ UNCHANGED <<reg, frames, hasErrorFunc, want>>
  BY DEF Capture
<1>2. /\ n \in Nat /\ DOMAIN uv = 1 .. n /\ DOMAIN var = 1 .. n
      /\ uv' \in Seq(Upval) /\ Len(uv') = n + 1 /\ DOMAIN uv' = 1 .. n + 1
      /\ \A u \in 1 .. n : uv'[u] = uv[u] /\ var'[u] = var[u]
      /\ uv'[n + 1].index = r /\ uv'[n + 1].closed = FALSE
      /\ var' \in Seq(VarInfo) /\ Len(var') = n + 1 /\ var'[n + 1].live = TRUE
      /\ uvcache' \in Seq(DOMAIN uv')
      /\ Open' = Open \cup {n + 1}
      /\ UvcacheSorted'
  BY CaptureEffect DEF Inv
<1>3. n \in Nat /\ DOMAIN uv = 1 .. n /\ DOMAIN var = 1 .. n
  BY <1>2
<1>5. /\ uv' \in Seq(Upval) /\ Len(uv') = n + 1 /\ DOMAIN uv' = 1 .. n + 1
      /\ \A u \in 1 .. n : uv'[u] = uv[u]
  BY <1>2
<1>6. uv'[n + 1].index = r /\ uv'[n + 1].closed = FALSE
  BY <1>2
<1>7. /\ var' \in Seq(VarInfo) /\ Len(var') = n + 1 /\ \A u \in 1 .. n : var'[u] = var[u]
      /\ var'[n + 1].live = TRUE
  BY <1>2
<1>9. Open' = Open \cup {n + 1}
  BY <1>2
<1>11. UvcacheSorted'
  BY <1>2
<1>12. TypeOK' /\ FramesOK' /\ ErrorFuncInProgress' /\ DeadUnderHandler' /\ Cur' = Cur /\ Top' = Top
  <2>1. reg' \in [Reg -> Value] /\ want' \in [Reg -> Value]
    BY <1>1 DEF Inv, TypeOK
  <2>2. uvcache' \in Seq(DOMAIN uv')
    BY <1>2
  <2>3. \A u \in Open' : ~var'[u].live => u \in Open /\ ~var[u].live /\ uv'[u].index = uv[u].index
    <3> SUFFICES ASSUME NEW u \in Open', ~var'[u].live
                 PROVE u \in Open /\ ~var[u].live /\ uv'[u].index = uv[u].index
      OBVIOUS
    <3>1. u # n + 1
      BY <1>7
    <3>2. u \in Open /\ u \in 1 .. n
      BY <3>1, <1>3, <1>9 DEF Open
    <3> QED BY <3>2, <1>5, <1>7
  <2> QED BY <1>1, <1>5, <1>7, <2>1, <2>2, <2>3, SameFrames
<1>13. NoDangling'
  <2>1. r < Top
    BY <1>1, LocalsFit DEF Inv
  <2>2. \A u \in Open : u \in 1 .. n /\ uv[u].index < Top
    BY <1>3 DEF Inv, NoDangling, Open
  <2> QED BY <1>5, <1>6, <1>9, <1>12, <2>1, <2>2 DEF NoDangling
<1>14. LiveIsOpen'
  <2> SUFFICES ASSUME NEW u \in 1 .. n + 1, var'[u].live PROVE ~uv'[u].closed
    BY <1>5 DEF LiveIsOpen
  <2>1. CASE u = n + 1
    BY <2>1, <1>6
  <2>2. CASE u \in 1 .. n
    BY <2>2, <1>3, <1>5, <1>7 DEF Inv, LiveIsOpen
  <2> QED BY <2>1, <2>2, <1>3
<1>15. DeadKeepsValue'
  <2> SUFFICES ASSUME NEW u \in 1 .. n + 1, ~var'[u].live
               PROVE (IF uv'[u].closed THEN uv'[u].value ELSE reg[uv'[u].index]) = var'[u].want
    BY <1>1, <1>5 DEF DeadKeepsValue, ValueOf
  <2>1. u \in 1 .. n
    BY <1>3, <1>7
  <2> QED BY <2>1, <1>3, <1>5, <1>7 DEF Inv, DeadKeepsValue, ValueOf
<1>16. RegistersFollow'
  <2> SUFFICES ASSUME NEW q \in Reg, \A u \in Open' : uv'[u].index = q => var'[u].live
               PROVE reg[q] = want[q]
    BY <1>1 DEF RegistersFollow
  <2>1. ASSUME NEW u \in Open, uv[u].index = q PROVE var[u].live
    <3>1. u \in Open' /\ u \in 1 .. n
      BY <1>3, <1>9 DEF Open
    <3> QED BY <2>1, <3>1, <1>5, <1>7
  <2> QED BY <2>1 DEF Inv, RegistersFollow
<1> QED BY <1>11, <1>12, <1>13, <1>14, <1>15, <1>16 DEF Inv

\* SetUpval keeps what the Upvalues point at and which variables are in scope.
LEMMA SetUpvalKeeps ==
  ASSUME TypeOK, NEW u \in DOMAIN uv, NEW v \in Value, SetUpval(u, v)
  PROVE  /\ uv' \in Seq(Upval) /\ Len(uv') = Len(uv) /\ DOMAIN uv' = DOMAIN uv
         /\ var' \in Seq(VarInfo) /\ Len(var') = Len(var)
         /\ reg' \in [Reg -> Value] /\ want' \in [Reg -> Value]
         /\ \A w \in DOMAIN uv : /\ uv'[w].index = uv[w].index /\ uv'[w].closed = uv[w].closed
                                 /\ var'[w].live = var[w].live
         /\ \A w \in DOMAIN uv : w # u => uv'[w] = uv[w] /\ var'[w] = var[w]
         /\ Open' = Open
<1>1. /\ uv \in Seq(Upval) /\ var \in Seq(VarInfo) /\ Len(var) = Len(uv)
      /\ reg \in [Reg -> Value] /\ want \in [Reg -> Value]
  BY DEF TypeOK, VarInfo
<1>2. /\ DOMAIN uv = 1 .. Len(uv) /\ DOMAIN var = DOMAIN uv /\ Len(uv) \in Nat
      /\ \A w \in DOMAIN uv : uv[w] \in Upval /\ var[w] \in VarInfo
  BY Shapes
<1>3. /\ uv' \in [1 .. Len(uv) -> Upval]
      /\ \A w \in DOMAIN uv : uv'[w].index = uv[w].index /\ uv'[w].closed = uv[w].closed
      /\ \A w \in DOMAIN uv : w # u => uv'[w] = uv[w]
  <2>1. CASE UNCHANGED uv
    BY <2>1, <1>1, <1>2
  <2>2. CASE uv' = [uv EXCEPT ![u].value = v]
    <3>1. uv' = [w \in DOMAIN uv |-> IF w = u THEN [uv[u] EXCEPT !.value = v] ELSE uv[w]]
      BY <2>2, <1>2, Zenon
    <3>2. /\ [uv[u] EXCEPT !.value = v] \in Upval
          /\ [uv[u] EXCEPT !.value = v].index = uv[u].index
          /\ [uv[u] EXCEPT !.value = v].closed = uv[u].closed
      BY <1>2 DEF Upval
    <3> QED BY <3>1, <3>2, <1>2
  <2> QED BY <2>1, <2>2 DEF SetUpval
<1>4. /\ var' \in [1 .. Len(var) -> VarInfo]
      /\ \A w \in DOMAIN uv : var'[w].live = var[w].live
      /\ \A w \in DOMAIN uv : w # u => var'[w] = var[w]
  <2>1. CASE UNCHANGED var
    BY <2>1, <1>1, <1>2
  <2>2. CASE var' = [var EXCEPT ![u].want = v]
    <3>1. var' = [w \in DOMAIN var |-> IF w = u THEN [var[u] EXCEPT !.want = v] ELSE var[w]]
      BY <2>2, <1>2, Zenon
    <3>2. /\ [var[u] EXCEPT !.want = v] \in VarInfo
          /\ [var[u] EXCEPT !.want = v].live = var[u].live
      BY <1>2 DEF VarInfo
    <3> QED BY <3>1, <3>2, <1>1, <1>2
  <2> QED BY <2>1, <2>2 DEF SetUpval
<1>5. uv' \in Seq(Upval) /\ Len(uv') = Len(uv) /\ DOMAIN uv' = DOMAIN uv
  BY <1>2, <1>3, FunctionIsSeq
<1>6. var' \in Seq(VarInfo) /\ Len(var') = Len(var)
  BY <1>1, <1>2, <1>4, FunctionIsSeq
<1>7. reg' \in [Reg -> Value] /\ want' \in [Reg -> Value]
  BY <1>1 DEF SetUpval
<1>8. Open' = Open
  BY <1>3, <1>5 DEF Open
<1> QED BY <1>3, <1>4, <1>5, <1>6, <1>7, <1>8

\* OP_SETUPVAL writes to the register of an open Upvalue, or to a closed one.
LEMMA SetUpvalInv ==
  ASSUME Inv, NEW u \in DOMAIN uv, NEW v \in Value, SetUpval(u, v)
  PROVE  Inv'
<1>1. /\ uv' \in Seq(Upval) /\ Len(uv') = Len(uv) /\ DOMAIN uv' = DOMAIN uv
      /\ var' \in Seq(VarInfo) /\ Len(var') = Len(var)
      /\ reg' \in [Reg -> Value] /\ want' \in [Reg -> Value]
      /\ \A w \in DOMAIN uv : /\ uv'[w].index = uv[w].index /\ uv'[w].closed = uv[w].closed
                              /\ var'[w].live = var[w].live
      /\ \A w \in DOMAIN uv : w # u => uv'[w] = uv[w] /\ var'[w] = var[w]
      /\ Open' = Open
  BY SetUpvalKeeps DEF Inv
<1>2. UNCHANGED <<frames, uvcache, hasErrorFunc>>
  BY DEF SetUpval
<1>3. \A w \in Open : w \in DOMAIN uv
  BY DEF Open
<1>4. TypeOK' /\ FramesOK' /\ ErrorFuncInProgress' /\ DeadUnderHandler' /\ Cur' = Cur /\ Top' = Top
  <2>1. uvcache' \in Seq(DOMAIN uv') /\ Len(var') = Len(uv')
    BY <1>1, <1>2 DEF Inv, TypeOK
  <2>2. \A w \in Open' : ~var'[w].live => w \in Open /\ ~var[w].live /\ uv'[w].index = uv[w].index
    BY <1>1, <1>3
  <2> QED BY <1>1, <1>2, <2>1, <2>2, SameFrames
<1>5. UvcacheSorted'
  <2>1. \A i \in 1 .. Len(uvcache) : uvcache[i] \in DOMAIN uv
    BY DEF Inv, TypeOK
  <2> QED BY <2>1, <1>1, <1>2 DEF Inv, UvcacheSorted
<1>6. NoDangling' /\ LiveIsOpen'
  BY <1>1, <1>3, <1>4 DEF Inv, NoDangling, LiveIsOpen
<1>7. /\ uv[u].index \in Reg /\ var[u] \in VarInfo /\ uv[u] \in Upval
      /\ DOMAIN var = DOMAIN uv /\ reg \in [Reg -> Value] /\ want \in [Reg -> Value]
  BY Shapes DEF Inv, TypeOK
<1>8. CASE uv[u].closed
  <2>1. ~var[u].live
    BY <1>8 DEF Inv, LiveIsOpen
  <2>2. /\ uv' = [uv EXCEPT ![u].value = v] /\ reg' = reg
        /\ var' = [var EXCEPT ![u].want = v] /\ want' = want
    BY <1>8, <2>1 DEF SetUpval
  <2>3. uv'[u] = [uv[u] EXCEPT !.value = v] /\ var'[u] = [var[u] EXCEPT !.want = v]
    BY <2>2, <1>7, Zenon
  <2>4. uv'[u].value = v /\ var'[u].want = v
    BY <2>3, <1>7 DEF Upval, VarInfo
  <2>5. DeadKeepsValue'
    <3> SUFFICES ASSUME NEW w \in DOMAIN uv, ~var'[w].live
                 PROVE (IF uv'[w].closed THEN uv'[w].value ELSE reg[uv'[w].index]) = var'[w].want
      BY <1>1, <2>2 DEF DeadKeepsValue, ValueOf
    <3>1. CASE w = u
      BY <3>1, <2>4, <1>1, <1>8
    <3>2. CASE w # u
      BY <3>2, <1>1 DEF Inv, DeadKeepsValue, ValueOf
    <3> QED BY <3>1, <3>2
  <2>6. RegistersFollow'
    BY <2>2, <1>1, <1>3 DEF Inv, RegistersFollow
  <2> QED BY <1>4, <1>5, <1>6, <2>5, <2>6 DEF Inv
<1>9. CASE ~uv[u].closed
  <2>1. /\ reg' = [reg EXCEPT ![uv[u].index] = v] /\ uv' = uv
        /\ reg'[uv[u].index] = v /\ \A q \in Reg : q # uv[u].index => reg'[q] = reg[q]
        /\ u \in Open
    BY <1>7, <1>9 DEF SetUpval, Open
  <2>2. \A w \in Open : w # u => uv[w].index # uv[u].index /\ uv[w].index \in Reg
    BY <2>1, OpenDistinct, OpenValues DEF Inv
  <2>3. CASE var[u].live
    <3>1. want' = [want EXCEPT ![uv[u].index] = v] /\ var' = var
      BY <2>3 DEF SetUpval
    <3>2. DeadKeepsValue'
      <4> SUFFICES ASSUME NEW w \in DOMAIN uv, ~var[w].live
                   PROVE (IF uv[w].closed THEN uv[w].value ELSE reg'[uv[w].index]) = var[w].want
        BY <2>1, <3>1 DEF DeadKeepsValue, ValueOf
      <4>1. w # u
        BY <2>3
      <4>2. ~uv[w].closed => reg'[uv[w].index] = reg[uv[w].index]
        BY <4>1, <2>1, <2>2 DEF Open
      <4> QED BY <4>2 DEF Inv, DeadKeepsValue, ValueOf
    <3>3. RegistersFollow'
      BY <3>1, <2>1, <1>1, <1>7 DEF Inv, RegistersFollow
    <3> QED BY <1>4, <1>5, <1>6, <3>2, <3>3 DEF Inv
  <2>4. CASE ~var[u].live
    <3>1. var' = [var EXCEPT ![u].want = v] /\ want' = want
      BY <2>4 DEF SetUpval
    <3>2. var'[u] = [var[u] EXCEPT !.want = v]
      BY <3>1, <1>7, Zenon
    <3>3. var'[u].want = v
      BY <3>2, <1>7 DEF VarInfo
    <3>4. DeadKeepsValue'
      <4> SUFFICES ASSUME NEW w \in DOMAIN uv, ~var'[w].live
                   PROVE (IF uv[w].closed THEN uv[w].value ELSE reg'[uv[w].index]) = var'[w].want
        BY <1>1, <2>1 DEF DeadKeepsValue, ValueOf
      <4>1. CASE w = u
        BY <4>1, <3>3, <2>1, <1>9
      <4>2. CASE w # u
        <5>1. ~uv[w].closed => reg'[uv[w].index] = reg[uv[w].index]
          BY <4>2, <2>1, <2>2 DEF Open
        <5> QED BY <4>2, <5>1, <1>1 DEF Inv, DeadKeepsValue, ValueOf
      <4> QED BY <4>1, <4>2
    <3>5. RegistersFollow'
      <4> SUFFICES ASSUME NEW q \in Reg, \A w \in Open : uv[w].index = q => var'[w].live
                   PROVE reg'[q] = want[q]
        BY <1>1, <2>1, <3>1 DEF RegistersFollow
      <4>1. q # uv[u].index
        BY <2>1, <2>4, <1>1
      <4>2. \A w \in Open : uv[w].index = q => var[w].live
        BY <1>1, <1>3
      <4> QED BY <4>1, <4>2, <2>1 DEF Inv, RegistersFollow
    <3> QED BY <1>4, <1>5, <1>6, <3>4, <3>5 DEF Inv
  <2> QED BY <2>3, <2>4
<1> QED BY <1>8, <1>9

\* The end of the scope of the registers from idx on, in the running frame.
LEMMA ScopeEndsHere ==
  ASSUME Inv, NEW idx \in Nat, Cur.base <= idx, idx < Top,
         closeUpvalues(idx), EndScope(idx), Registers(idx), UNCHANGED <<frames, hasErrorFunc>>
  PROVE  Inv'
<1>1. \A u \in OpenFrom(idx) : var[u].live
  <2> SUFFICES ASSUME NEW u \in OpenFrom(idx), ~var[u].live PROVE FALSE
    OBVIOUS
  <2>1. uv[u].index < Cur.base /\ uv[u].index >= idx /\ uv[u].index \in Nat /\ Cur.base \in Nat
    BY OpenValues, Shapes, CurFits DEF OpenFrom, Inv
  <2> QED BY <2>1
<1>2. /\ uv' \in Seq(Upval) /\ uvcache' \in Seq(DOMAIN uv')
      /\ var' \in Seq(VarInfo) /\ Len(var') = Len(uv')
      /\ \A u \in Open' : /\ u \in Open /\ uv[u].index < idx
                          /\ uv'[u] = uv[u] /\ var'[u] = var[u]
      /\ UvcacheSorted' /\ LiveIsOpen' /\ DeadKeepsValue' /\ RegistersFollow'
  BY <1>1, ScopeEnds
<1>3. reg' \in [Reg -> Value] /\ want' \in [Reg -> Value]
  BY DEF Registers
<1>4. TypeOK' /\ FramesOK' /\ ErrorFuncInProgress' /\ DeadUnderHandler' /\ Cur' = Cur /\ Top' = Top
  BY <1>2, <1>3, SameFrames
<1>5. NoDangling'
  <2> SUFFICES ASSUME NEW u \in Open' PROVE uv'[u].index < Top
    BY <1>4 DEF NoDangling
  <2>1. uv'[u].index < idx /\ uv'[u].index \in Nat /\ Top \in Nat
    BY <1>2, OpenValues, Shapes, CurFits DEF Inv, Open
  <2> QED BY <2>1
<1> QED BY <1>2, <1>4, <1>5 DEF Inv

\* OP_CLOSE at the end of a block closes what the block declared.
LEMMA CloseScopeInv ==
  ASSUME Inv, NEW r \in Reg, CloseScope(r)
  PROVE  Inv'
<1>1. r \in Nat /\ Cur.base <= r /\ r < Top
  BY LocalsFit DEF Inv, CloseScope
<1>2. Registers(r)
  BY DEF CloseScope, Registers, Inv, TypeOK
<1> QED BY <1>1, <1>2, ScopeEndsHere DEF CloseScope

\* OP_TAILCALL closes the Upvalues of the frame it reuses.
LEMMA TailCallInv ==
  ASSUME Inv, TailCall
  PROVE  Inv'
<1>1. Cur.base \in Nat /\ Cur.base <= Cur.base /\ Cur.base < Top
  BY CurFits, RegisterAssumption DEF Inv
<1>2. Registers(Cur.base)
  BY <1>1, SetTopRegisters DEF TailCall, Inv
<1> QED BY <1>1, <1>2, ScopeEndsHere DEF TailCall

\* A call, whose frames are above the registers of the caller.
LEMMA EnterFrames ==
  ASSUME Inv, SetTop(Top), UNCHANGED <<uv, uvcache, var>>,
         frames' \in Seq(Frame), frames' # << >>, Len(frames) <= Len(frames'),
         \A i \in 1 .. Len(frames) : frames'[i] = frames[i],
         Cur'.kind \in {"lua", "errfunc"}, Top' = Top + NLocals, Top' - 1 <= NReg,
         hasErrorFunc' \in BOOLEAN, FramesOK', ErrorFuncInProgress'
  PROVE  Inv'
<1>1. Top \in Nat /\ Len(frames) \in Nat /\ TypeOK
  BY CurFits DEF Inv
<1>2. Registers(Top)
  BY <1>1, SetTopRegisters
<1>3. TypeOK'
  BY <1>1, <1>2 DEF TypeOK, Registers
<1>4. Open' = Open /\ UvcacheSorted' /\ LiveIsOpen'
  BY DEF Inv, Open, UvcacheSorted, LiveIsOpen
<1>5. \A u \in Open : uv[u].index < Top /\ uv[u].index \in Reg /\ uv[u].index \in Nat
  BY OpenValues, Shapes DEF Inv, NoDangling, Open
<1>6. NoDangling'
  BY <1>1, <1>4, <1>5, RegisterAssumption DEF NoDangling
<1>7. DeadKeepsValue'
  <2> SUFFICES ASSUME NEW u \in DOMAIN uv, ~var[u].live
               PROVE (IF uv[u].closed THEN uv[u].value ELSE reg'[uv[u].index]) = var[u].want
    BY DEF DeadKeepsValue, ValueOf
  <2>1. ~uv[u].closed => reg'[uv[u].index] = reg[uv[u].index]
    BY <1>1, <1>5 DEF Open, SetTop
  <2> QED BY <2>1 DEF Inv, DeadKeepsValue, ValueOf
<1>8. RegistersFollow'
  <2> SUFFICES ASSUME NEW r \in Reg, \A u \in Open : uv[u].index = r => var[u].live
               PROVE reg'[r] = want'[r]
    BY <1>4 DEF RegistersFollow
  <2> QED BY DEF SetTop, Inv, RegistersFollow
<1>9. DeadUnderHandler'
  <2>1. Len(frames) <= Len(frames) /\ Len(frames') \in Nat
    BY <1>1
  <2>2. \A u \in Open', i, j \in 1 .. Len(frames) :
          Serves(i, j) /\ frames[j].base <= uv[u].index /\ uv[u].index < frames[i].base
            => i <= Len(frames)
    BY <1>1
  <2>3. \A u \in Open' : ~var'[u].live => u \in Open /\ ~var[u].live /\ uv'[u].index = uv[u].index
    BY <1>4
  <2> QED BY <1>1, <2>1, <2>2, <2>3, DeadStays
<1> QED BY <1>3, <1>4, <1>6, <1>7, <1>8, <1>9 DEF Inv

\* A call starts its frame above the registers of the caller.
LEMMA CallInv ==
  ASSUME Inv, Call
  PROVE  Inv'
<1>1. /\ frames' \in Seq(Frame) /\ Len(frames') = Len(frames) + 1 /\ frames' # << >>
      /\ \A i \in 1 .. Len(frames) : frames'[i] = frames[i]
      /\ Cur' = [kind |-> "lua", base |-> Top]
      /\ Top' = Top + NLocals /\ Top' - 1 <= NReg
      /\ FramesOK'
  BY InvIsFull, FramesPush DEF Call
<1>2. Len(frames) \in Nat /\ Len(frames) <= Len(frames') /\ Cur'.kind \in {"lua", "errfunc"}
  BY <1>1, CurFits DEF Inv
<1>3. ErrorFuncInProgress'
  <2> SUFFICES ASSUME hasErrorFunc PROVE \E i \in DOMAIN frames' : frames'[i].kind = "xpcall"
    BY DEF ErrorFuncInProgress, Call
  <2>1. PICK i \in DOMAIN frames : frames[i].kind = "xpcall"
    BY DEF Inv, ErrorFuncInProgress
  <2>2. i \in 1 .. Len(frames) /\ i \in DOMAIN frames'
    BY <1>1, <1>2 DEF Inv, TypeOK
  <2> QED BY <2>1, <2>2, <1>1
<1>4. hasErrorFunc' \in BOOLEAN
  BY DEF Call, Inv, TypeOK
<1> QED BY <1>1, <1>2, <1>3, <1>4, EnterFrames DEF Call

\* pcall and xpcall keep the invariant.
LEMMA EnterPCallInv ==
  ASSUME Inv, NEW k \in Protected, EnterPCall(k)
  PROVE  Inv'
<1>1. /\ frames' \in Seq(Frame) /\ Len(frames') = Len(frames) + 2 /\ frames' # << >>
      /\ \A i \in 1 .. Len(frames) : frames'[i] = frames[i]
      /\ frames'[Len(frames) + 1].kind = k
      /\ Cur' = [kind |-> "lua", base |-> Top]
      /\ Top' = Top + NLocals /\ Top' - 1 <= NReg
      /\ FramesOK'
  BY InvIsFull, FramesPushTwo DEF EnterPCall
<1>2. Len(frames) \in Nat /\ Len(frames) <= Len(frames') /\ Cur'.kind \in {"lua", "errfunc"}
  BY <1>1, CurFits DEF Inv
<1>3. ErrorFuncInProgress'
  <2> SUFFICES ASSUME hasErrorFunc \/ k = "xpcall"
               PROVE \E i \in DOMAIN frames' : frames'[i].kind = "xpcall"
    BY DEF ErrorFuncInProgress, EnterPCall
  <2>1. CASE k = "xpcall"
    BY <2>1, <1>1, <1>2
  <2>2. CASE hasErrorFunc
    <3>1. PICK i \in DOMAIN frames : frames[i].kind = "xpcall"
      BY <2>2 DEF Inv, ErrorFuncInProgress
    <3>2. i \in 1 .. Len(frames) /\ i \in DOMAIN frames'
      BY <1>1, <1>2 DEF Inv, TypeOK
    <3> QED BY <3>1, <3>2, <1>1
  <2> QED BY <2>1, <2>2
<1>4. hasErrorFunc' \in BOOLEAN
  BY DEF EnterPCall, Inv, TypeOK
<1> QED BY <1>1, <1>2, <1>3, <1>4, EnterFrames DEF EnterPCall

\* No variable of the running frame or above it is out of scope.
LEMMA LiveHere ==
  ASSUME Inv, NEW u \in OpenFrom(Cur.base)
  PROVE  var[u].live
<1>1. uv[u].index >= Cur.base /\ uv[u].index \in Nat /\ Cur.base \in Nat /\ u \in Open
  BY Shapes, CurFits DEF OpenFrom, Open, Inv
<1> QED BY <1>1, OpenValues

\* OP_RETURN closes the Upvalues of the frame it leaves.
LEMMA ReturnInv ==
  ASSUME Inv, Return
  PROVE  Inv'
<1>1. /\ Len(frames) \in Nat /\ Len(frames) > 1 /\ Cur.kind = "lua" /\ Cur.base \in Nat
      /\ closeUpvalues(Cur.base) /\ EndScope(Cur.base)
  BY CurFits DEF Inv, Return
<1>2. Len(frames) - 1 \in 1 .. Len(frames) - 1 /\ (Len(frames) - 1) + 1 = Len(frames)
  BY <1>1
<1>3. CASE /\ frames[Len(frames) - 1].kind \in {"lua", "errfunc"}
           /\ frames' = SubSeq(frames, 1, Len(frames) - 1)
           /\ SetTop(Cur.base)
           /\ UNCHANGED hasErrorFunc
  <2>1. Len(frames) \in 2 .. Len(frames) /\ frames[Len(frames) - 1].kind \notin Protected
    BY <1>1, <1>3 DEF Protected
  <2>2. \A i \in Len(frames) .. Len(frames) : frames[i].kind # "errfunc"
    BY <1>1 DEF Cur
  <2>3. hasErrorFunc' \in BOOLEAN
    BY <1>3 DEF Inv, TypeOK
  <2>4. ErrorFuncInProgress'
    <3> SUFFICES ASSUME hasErrorFunc PROVE \E i \in DOMAIN frames' : frames'[i].kind = "xpcall"
      BY <1>3 DEF ErrorFuncInProgress
    <3>1. PICK i \in DOMAIN frames : frames[i].kind = "xpcall"
      BY DEF Inv, ErrorFuncInProgress
    <3>2. i \in 1 .. Len(frames) /\ i # Len(frames)
      BY <1>1, <3>1 DEF Cur, Inv, TypeOK
    <3>3. /\ frames' \in Seq(Frame) /\ Len(frames') = Len(frames) - 1
          /\ \A l \in 1 .. Len(frames) - 1 : frames'[l] = frames[l]
      BY <1>3, <2>1, InvIsFull, FramesCut
    <3>4. i \in 1 .. Len(frames) - 1 /\ i \in DOMAIN frames'
      BY <1>1, <3>2, <3>3
    <3> QED BY <3>1, <3>3, <3>4
  <2>5. \A u \in OpenFrom(Cur.base) : var[u].live
    BY LiveHere
  <2> QED BY <1>1, <1>3, <2>1, <2>2, <2>3, <2>4, <2>5, LeaveFrames DEF Cur
<1>4. CASE frames[Len(frames) - 1].kind \in {"pcall", "xpcall"} /\ Leave(Len(frames) - 1)
  <2> DEFINE m == Len(frames) - 1
  <2>1. m \in 1 .. Len(frames) /\ frames[m].kind \in Protected
    BY <1>1, <1>4 DEF Protected
  <2>2. m \in 2 .. Len(frames) /\ frames[m - 1].kind \notin Protected
    BY <2>1, InvIsFull, CallerOfProtected
  <2>3. frames[m].base = Cur.base
    BY <1>2, <2>1 DEF Inv, FramesOK, Cur
  <2>4. \A i \in m .. Len(frames) : frames[i].kind # "errfunc"
    <3> SUFFICES ASSUME NEW i \in m .. Len(frames) PROVE frames[i].kind # "errfunc"
      OBVIOUS
    <3>1. i = m \/ i = Len(frames)
      BY <1>1
    <3> QED BY <3>1, <1>1, <1>4 DEF Cur
  <2>5. /\ frames' = SubSeq(frames, 1, m - 1) /\ SetTop(frames[m].base)
        /\ hasErrorFunc' = FALSE /\ hasErrorFunc' \in BOOLEAN
    BY <1>4 DEF Leave
  <2>6. ErrorFuncInProgress'
    BY <2>5 DEF ErrorFuncInProgress
  <2>7. \A u \in OpenFrom(Cur.base) : var[u].live
    BY LiveHere
  <2> HIDE DEF m
  <2>8. OpenFrom(frames[m].base) \subseteq OpenFrom(Cur.base)
    BY <2>3
  <2> QED BY <1>1, <2>2, <2>4, <2>5, <2>6, <2>7, <2>8, LeaveFrames
<1> QED BY <1>3, <1>4 DEF Return

\* The return of an error handler whose closing of every Upvalue is harmless.
LEMMA HandlerReturnInv ==
  ASSUME Inv, HandlerHarmless, HandlerReturn
  PROVE  Inv'
<1> DEFINE m == Served(Len(frames))
<1>1. /\ Len(frames) \in Nat \ {0} /\ Cur.kind = "errfunc" /\ Cur.base \in Nat
      /\ closeUpvalues(Cur.base) /\ EndScope(Cur.base) /\ TypeOK
      /\ Len(frames) \in 1 .. Len(frames)
  BY CurFits DEF Inv, HandlerReturn
<1>2. \E j \in 1 .. Len(frames) : frames[j].kind = "xpcall"
  BY <1>1 DEF Cur, Inv, FramesOK
<1>3. m \in 1 .. Len(frames) /\ frames[m].kind = "xpcall"
  BY <1>1, <1>2, ServedIs
<1>4. /\ frames' = SubSeq(frames, 1, m - 1) /\ SetTop(frames[m].base)
      /\ hasErrorFunc' = FALSE /\ hasErrorFunc' \in BOOLEAN
  BY DEF HandlerReturn, Leave
<1>5. OpenFrom(frames[m].base) \subseteq OpenFrom(Cur.base)
  BY <1>1 DEF HandlerHarmless
<1> HIDE DEF m
<1>6. m \in 2 .. Len(frames) /\ frames[m - 1].kind \notin Protected
  BY <1>3, InvIsFull, CallerOfProtected DEF Protected
<1>7. ErrorFuncInProgress'
  BY <1>4 DEF ErrorFuncInProgress
<1>8. \A u \in OpenFrom(Cur.base) : var[u].live
  BY LiveHere
<1> QED BY <1>1, <1>3, <1>4, <1>5, <1>6, <1>7, <1>8, LeaveFrames

\* An error that is caught by a pcall, or that a handler raises: PCall leaves frame Target.
LEMMA TargetIs ==
  ASSUME FullInv, Catcher # 0
  PROVE  /\ Catcher \in 1 .. Len(frames) /\ Target \in 1 .. Catcher
         /\ frames[Target].kind \in Protected
         /\ \/ frames[Target].kind = "xpcall"
            \/ \A i \in Target .. Len(frames) : frames[i].kind # "errfunc"
         /\ frames[Catcher].kind = "xpcall" => Target = Catcher
         /\ \A i \in Catcher + 1 .. Len(frames) : frames[i].kind = "lua"
<1>1. /\ Catcher \in 1 .. Len(frames) /\ frames[Catcher].kind # "lua"
      /\ \A i \in Catcher + 1 .. Len(frames) : frames[i].kind = "lua"
  BY CatcherIs DEF FullInv
<1>2. Len(frames) \in Nat /\ frames[Catcher].kind \in {"pcall", "xpcall", "errfunc"}
  BY <1>1, Shapes, CurFits DEF FullInv
<1>3. CASE frames[Catcher].kind = "errfunc"
  <2>1. \E j \in 1 .. Catcher : frames[j].kind = "xpcall"
    BY <1>1, <1>3 DEF FullInv, FramesOK
  <2>2. Target \in 1 .. Catcher /\ frames[Target].kind = "xpcall"
    BY <1>1, <1>3, <2>1, ServedIs DEF FullInv, Target
  <2> QED BY <1>1, <1>3, <2>2 DEF Protected
<1>4. CASE frames[Catcher].kind # "errfunc"
  <2>1. Target = Catcher
    BY <1>4 DEF Target
  <2>2. \A i \in Target .. Len(frames) : frames[i].kind # "errfunc"
    <3> SUFFICES ASSUME NEW i \in Target .. Len(frames) PROVE frames[i].kind # "errfunc"
      OBVIOUS
    <3>1. i = Catcher \/ i \in Catcher + 1 .. Len(frames)
      BY <1>1, <1>2, <2>1
    <3> QED BY <3>1, <1>1, <1>4
  <2> QED BY <1>1, <1>2, <1>4, <2>1, <2>2 DEF Protected
<1> QED BY <1>3, <1>4

\* An error that goes to a pcall.
LEMMA ErrorLeavesInv ==
  ASSUME Inv, NEW panic \in BOOLEAN, ErrorHarmless(panic), Error(panic),
         frames[Catcher].kind # "xpcall", Leave(Target)
  PROVE  Inv'
<1>0. Catcher # 0
  BY DEF Error
<1>1. /\ Catcher \in 1 .. Len(frames) /\ Target \in 1 .. Catcher
      /\ frames[Target].kind \in Protected
      /\ \/ frames[Target].kind = "xpcall"
         \/ \A i \in Target .. Len(frames) : frames[i].kind # "errfunc"
  BY <1>0, InvIsFull, TargetIs
<1>2. Target \in 1 .. Len(frames) /\ Len(frames) \in Nat
  BY <1>1, CurFits DEF Inv
<1>3. Target \in 2 .. Len(frames) /\ frames[Target - 1].kind \notin Protected
  BY <1>1, <1>2, InvIsFull, CallerOfProtected
<1>4. /\ frames' = SubSeq(frames, 1, Target - 1) /\ SetTop(frames[Target].base)
      /\ hasErrorFunc' = FALSE /\ hasErrorFunc' \in BOOLEAN
      /\ EndScope(frames[Target].base) /\ frames[Target].base \in Nat
  BY <1>2, Shapes DEF Leave, Error, Inv
<1>5. ErrorFuncInProgress'
  BY <1>4 DEF ErrorFuncInProgress
<1>6. CASE ClosesOnError(panic)
  <2>1. closeUpvalues(1)
    BY <1>6 DEF Error, closeAllUpvalues, Inv, FramesOK
  <2>2. \A u \in Open : uv[u].index >= frames[Target].base /\ uv[u].index >= 1
    BY <1>0, <1>6, OpenValues, RegisterAssumption DEF ErrorHarmless, Reg
  <2>3. OpenFrom(1) = OpenFrom(frames[Target].base)
    BY <2>2 DEF OpenFrom
  <2>4. \A u \in OpenFrom(1) : uv[u].index >= frames[Target].base
    BY <2>2 DEF OpenFrom
  <2>5. OpenFrom(frames[Target].base) \subseteq OpenFrom(1)
    BY <2>3
  <2> QED BY <1>1, <1>3, <1>4, <1>5, <2>1, <2>3, <2>4, <2>5, LeaveFrames
<1>7. CASE ~ClosesOnError(panic)
  <2>1. UNCHANGED <<uv, uvcache>> /\ OpenFrom(frames[Target].base) = {}
    BY <1>0, <1>7 DEF Error, ErrorHarmless
  <2>2. closeUpvalues(frames[Target].base)
    <3>1. /\ Len(uvcache) \in Nat /\ uvcache \in Seq(DOMAIN uv) /\ DOMAIN uv = 1 .. Len(uv)
          /\ uv \in Seq(Upval)
      BY Shapes DEF Inv, TypeOK
    <3>2. \A i \in 1 .. Len(uvcache) : uv[uvcache[i]].index < frames[Target].base
      <4> SUFFICES ASSUME NEW i \in 1 .. Len(uvcache) PROVE uv[uvcache[i]].index < frames[Target].base
        OBVIOUS
      <4>1. uvcache[i] \in Open /\ uv[uvcache[i]].index \in Nat
        BY Shapes DEF Inv, UvcacheSorted, Open
      <4> QED BY <4>1, <2>1, <1>4 DEF OpenFrom
    <3>3. uvcache' = SubSeq(uvcache, 1, Len(uvcache))
      BY <2>1, <3>1
    <3>4. uv' = [u \in DOMAIN uv |->
                   IF \E i \in Len(uvcache) + 1 .. Len(uvcache) : uvcache[i] = u
                   THEN CloseUpvalue(u) ELSE uv[u]]
      BY <2>1, <3>1
    <3>5. Len(uvcache) \in 0 .. Len(uvcache) /\ ~(Len(uvcache) < Len(uvcache))
      BY <3>1
    <3> QED BY <3>2, <3>3, <3>4, <3>5 DEF closeUpvalues
  <2> QED BY <1>1, <1>3, <1>4, <1>5, <2>1, <2>2, LeaveFrames
<1> QED BY <1>6, <1>7

\* An error that reaches an xpcall: its handler is called on top of the frames that failed.
LEMMA ErrorCallsInv ==
  ASSUME Inv, NEW panic \in BOOLEAN, ErrorHarmless(panic), Error(panic),
         frames[Catcher].kind = "xpcall", Room,
         frames' = Append(frames, [kind |-> "errfunc", base |-> Top]),
         hasErrorFunc' = FALSE, SetTop(Top)
  PROVE  Inv'
<1>0. Catcher # 0 /\ Target = Catcher
  BY InvIsFull, TargetIs DEF Error
<1>1. Catcher \in 1 .. Len(frames) /\ \A i \in Catcher + 1 .. Len(frames) : frames[i].kind = "lua"
  BY <1>0, InvIsFull, TargetIs
<1>2. /\ frames' \in Seq(Frame) /\ Len(frames') = Len(frames) + 1 /\ frames' # << >>
      /\ \A i \in 1 .. Len(frames) : frames'[i] = frames[i]
      /\ Cur' = [kind |-> "errfunc", base |-> Top]
      /\ Top' = Top + NLocals /\ Top' - 1 <= NReg
      /\ FramesOK'
  BY <1>1, InvIsFull, FramesPush
<1>3. /\ Len(frames) \in Nat /\ Top \in Nat /\ TypeOK /\ Cur'.kind = "errfunc"
      /\ frames[Catcher].base \in Nat
  BY <1>1, <1>2, CurFits, Shapes DEF Inv
<1>4. Registers(Top)
  BY <1>3, SetTopRegisters
<1>5. ErrorFuncInProgress' /\ hasErrorFunc' \in BOOLEAN
  BY DEF ErrorFuncInProgress
<1>6. \A u \in Open : uv[u].index < Top /\ uv[u].index \in Reg /\ uv[u].index \in Nat
  BY OpenValues, Shapes DEF Inv, NoDangling, Open
<1>7. EndScope(frames[Catcher].base)
  BY <1>0 DEF Error
<1>8. CASE ClosesOnError(panic)
  <2>1. closeUpvalues(1)
    BY <1>8 DEF Error, closeAllUpvalues, Inv, FramesOK
  <2>2. \A u \in Open : uv[u].index >= frames[Catcher].base /\ uv[u].index >= 1
    BY <1>0, <1>8, OpenValues, RegisterAssumption DEF ErrorHarmless, Reg
  <2>3. OpenFrom(1) = OpenFrom(frames[Catcher].base) /\ OpenFrom(1) = Open /\ OpenFrom(Top) = {}
    BY <2>2, <1>3, <1>6 DEF OpenFrom
  <2>4. \A u \in OpenFrom(1) : var[u].live
    <3> SUFFICES ASSUME NEW u \in Open, ~var[u].live PROVE FALSE
      BY <2>3
    <3>1. PICK i, j \in 1 .. Len(frames) : Serves(i, j) /\ uv[u].index < frames[i].base
      BY DEF Inv, DeadUnderHandler
    <3>2. i <= Catcher
      BY <3>1, <1>1, <1>3 DEF Serves
    <3>3. frames[i].base <= frames[Catcher].base /\ frames[i].base \in Nat
      BY <3>2, <1>1, Shapes DEF Inv, FramesOK
    <3> QED BY <3>1, <3>3, <2>2, <1>3, <1>6
  <2>5. /\ uv' \in Seq(Upval) /\ uvcache' \in Seq(DOMAIN uv')
        /\ var' \in Seq(VarInfo) /\ Len(var') = Len(uv')
        /\ UvcacheSorted' /\ LiveIsOpen' /\ DeadKeepsValue' /\ RegistersFollow'
    BY <1>3, <1>4, <1>7, <2>1, <2>3, <2>4, ScopeEnds
  <2>6. Open' = {}
    BY <1>3, <2>1, <2>3, CloseEffect DEF Inv
  <2>7. NoDangling' /\ DeadUnderHandler'
    BY <2>6 DEF NoDangling, DeadUnderHandler
  <2>8. TypeOK'
    BY <1>2, <1>3, <1>4, <1>5, <2>5 DEF TypeOK, VarInfo, Registers
  <2> QED BY <1>2, <1>5, <2>5, <2>7, <2>8 DEF Inv
<1>9. CASE ~ClosesOnError(panic)
  <2>1. uv' = uv /\ uvcache' = uvcache
    BY <1>9 DEF Error
  <2>2. /\ var' \in Seq(VarInfo) /\ Len(var') = Len(var)
        /\ \A u \in DOMAIN uv :
             /\ var[u].live /\ uv[u].index >= frames[Catcher].base =>
                  ~var'[u].live /\ var'[u].want = want[uv[u].index]
             /\ ~(var[u].live /\ uv[u].index >= frames[Catcher].base) => var'[u] = var[u]
    BY <1>3, <1>7, ScopeVars
  <2>3. TypeOK'
    BY <1>2, <1>3, <1>4, <1>5, <2>1, <2>2 DEF TypeOK, VarInfo, Registers
  <2>4. Open' = Open /\ UvcacheSorted'
    BY <2>1 DEF Inv, UvcacheSorted, Open
  <2>5. NoDangling'
    BY <1>2, <1>3, <1>6, <2>1, <2>4, RegisterAssumption DEF NoDangling
  <2>6. \A u \in DOMAIN uv : var'[u].live => var[u].live /\ var'[u] = var[u]
    BY <2>2
  <2>7. LiveIsOpen'
    BY <2>1, <2>6 DEF Inv, LiveIsOpen
  <2>8. \A u \in Open : u \in DOMAIN uv /\ reg'[uv[u].index] = reg[uv[u].index]
    BY <1>3, <1>6 DEF SetTop, Open
  <2>9. DeadKeepsValue'
    <3> SUFFICES ASSUME NEW u \in DOMAIN uv, ~var'[u].live
                 PROVE (IF uv[u].closed THEN uv[u].value ELSE reg'[uv[u].index]) = var'[u].want
      BY <2>1 DEF DeadKeepsValue, ValueOf
    <3>1. CASE var[u].live
      <4>1. ~uv[u].closed /\ u \in Open
        BY <3>1 DEF Inv, LiveIsOpen, Open
      <4>2. reg[uv[u].index] = want[uv[u].index]
        BY <3>1, <4>1, OpenValues
      <4>3. var'[u].want = want[uv[u].index]
        <5>1. uv[u].index >= frames[Catcher].base
          BY <3>1, <2>2
        <5> QED BY <3>1, <5>1, <2>2
      <4> QED BY <4>1, <4>2, <4>3, <2>8
    <3>2. CASE ~var[u].live
      <4>1. var'[u] = var[u]
        BY <3>2, <2>2
      <4>2. ~uv[u].closed => reg'[uv[u].index] = reg[uv[u].index]
        BY <2>8 DEF Open
      <4> QED BY <3>2, <4>1, <4>2 DEF Inv, DeadKeepsValue, ValueOf
    <3> QED BY <3>1, <3>2
  <2>10. RegistersFollow'
    <3> SUFFICES ASSUME NEW r \in Reg, \A u \in Open : uv[u].index = r => var'[u].live
                 PROVE reg'[r] = want'[r]
      BY <2>1, <2>4 DEF RegistersFollow
    <3>1. \A u \in Open : uv[u].index = r => var[u].live
      BY <2>6, <2>8
    <3>2. reg[r] = want[r]
      BY <3>1 DEF Inv, RegistersFollow
    <3> QED BY <3>2 DEF SetTop
  <2>11. DeadUnderHandler'
    <3> SUFFICES ASSUME NEW u \in Open, ~var'[u].live
                 PROVE \E i, j \in 1 .. Len(frames') :
                   Serves(i, j)' /\ frames'[j].base <= uv[u].index /\ uv[u].index < frames'[i].base
      BY <2>1, <2>4 DEF DeadUnderHandler
    <3>1. CASE var[u].live
      <4>0. PICK n \in Nat, c \in 1 .. Len(frames) : n = Len(frames) + 1 /\ c = Catcher
        BY <1>1, <1>3
      <4>1. n \in 1 .. Len(frames') /\ c \in 1 .. Len(frames') /\ c < n
        BY <1>2, <1>3, <4>0
      <4>2. /\ frames'[n].kind = "errfunc" /\ frames'[n].base = Top
            /\ frames'[c] = frames[c] /\ frames[c].kind = "xpcall"
        BY <1>1, <1>2, <4>0 DEF Cur
      <4>3. \A l \in c + 1 .. n : frames'[l].kind # "xpcall"
        <5> SUFFICES ASSUME NEW l \in c + 1 .. n PROVE frames'[l].kind # "xpcall"
          OBVIOUS
        <5>1. l = n \/ (l \in Catcher + 1 .. Len(frames) /\ l \in 1 .. Len(frames))
          BY <1>1, <1>3, <4>0
        <5> QED BY <5>1, <4>2, <1>1, <1>2
      <4>4. Serves(n, c)'
        BY <4>1, <4>2, <4>3 DEF Serves
      <4>5. frames'[c].base <= uv[u].index
        BY <3>1, <2>2, <2>8, <1>3, <1>6, <4>0, <4>2
      <4> QED BY <4>1, <4>2, <4>4, <4>5, <1>6
    <3>2. CASE ~var[u].live
      <4>1. PICK i, j \in 1 .. Len(frames) :
              Serves(i, j) /\ frames[j].base <= uv[u].index /\ uv[u].index < frames[i].base
        BY <3>2 DEF Inv, DeadUnderHandler
      <4>2. /\ i \in 1 .. Len(frames') /\ j \in 1 .. Len(frames')
            /\ frames'[i] = frames[i] /\ frames'[j] = frames[j]
            /\ \A l \in j + 1 .. i : frames'[l] = frames[l]
        BY <1>2, <1>3
      <4>3. Serves(i, j)'
        BY <4>1, <4>2 DEF Serves
      <4> QED BY <4>1, <4>2, <4>3
    <3> QED BY <3>1, <3>2
  <2> QED BY <1>2, <1>5, <2>3, <2>4, <2>5, <2>7, <2>9, <2>10, <2>11 DEF Inv
<1> QED BY <1>8, <1>9

\* A step that changes nothing.
LEMMA StutterInv ==
  ASSUME Inv, UNCHANGED vars
  PROVE  Inv'
<1> USE DEF vars
<1>1. Open' = Open /\ Cur' = Cur /\ Top' = Top
  BY DEF Open, Cur, Top
<1>2. TypeOK' /\ UvcacheSorted' /\ FramesOK' /\ NoDangling' /\ ErrorFuncInProgress'
  BY <1>1 DEF Inv, TypeOK, UvcacheSorted, FramesOK, NoDangling, ErrorFuncInProgress
<1>3. LiveIsOpen' /\ DeadKeepsValue' /\ RegistersFollow'
  BY <1>1 DEF Inv, LiveIsOpen, DeadKeepsValue, RegistersFollow, ValueOf
<1>4. DeadUnderHandler'
  BY <1>1 DEF Inv, DeadUnderHandler, Serves
<1> QED BY <1>2, <1>3, <1>4 DEF Inv

\* Every step of Spec keeps the invariant.
LEMMA NextInv ==
  ASSUME Inv, [Next]_vars
  PROVE  Inv'
<1>1. ASSUME NEW r \in Reg, Capture(r) PROVE Inv'
  BY <1>1, CaptureInv
<1>2. ASSUME NEW r \in Reg, CloseScope(r) PROVE Inv'
  BY <1>2, CloseScopeInv
<1>3. ASSUME NEW r \in Reg, NEW v \in Value, SetLocal(r, v) PROVE Inv'
  BY <1>3, SetLocalInv
<1>4. ASSUME NEW u \in DOMAIN uv, NEW v \in Value, SetUpval(u, v) PROVE Inv'
  BY <1>4, SetUpvalInv
<1>5. ASSUME NEW k \in {"pcall", "xpcall"}, EnterPCall(k) PROVE Inv'
  BY <1>5, EnterPCallInv DEF Protected
<1>6. CASE Call
  BY <1>6, CallInv
<1>7. CASE TailCall
  BY <1>7, TailCallInv
<1>8. CASE Return
  BY <1>8, ReturnInv
<1>9. CASE Step
  BY <1>1, <1>2, <1>3, <1>4, <1>5, <1>6, <1>7, <1>8, <1>9 DEF Step
<1>10. ASSUME NEW panic \in BOOLEAN, ErrorHarmless(panic), Error(panic) PROVE Inv'
  <2>1. CASE /\ frames[Catcher].kind = "xpcall" /\ Room
             /\ frames' = Append(frames, [kind |-> "errfunc", base |-> Top])
             /\ hasErrorFunc' = FALSE /\ SetTop(Top)
    BY <1>10, <2>1, ErrorCallsInv
  <2>2. CASE frames[Catcher].kind # "xpcall" /\ Leave(Target)
    BY <1>10, <2>2, ErrorLeavesInv
  <2> QED BY <1>10, <2>1, <2>2 DEF Error
<1>11. CASE HandlerHarmless /\ HandlerReturn
  BY <1>11, HandlerReturnInv
<1>12. CASE UNCHANGED vars
  BY <1>12, StutterInv
<1> QED BY <1>9, <1>10, <1>11, <1>12 DEF Next

\* The invariant gives what a reader of the code wants to know of a closure.
LEMMA InvSeesVariable == Inv => ClosureSeesVariable
<1> SUFFICES ASSUME Inv PROVE ClosureSeesVariable
  OBVIOUS
<1>1. ASSUME NEW r \in Locals PROVE reg[r] = want[r]
  <2>1. r \in Nat /\ Cur.base <= r /\ r < Top /\ Cur.base \in Nat /\ Top - 1 <= NReg /\ Top \in Nat
    BY LocalsFit, CurFits DEF Inv, TypeOK
  <2>2. Cur.base >= 1
    <3>1. Len(frames) \in Nat \ {0}
      BY CurFits DEF Inv
    <3>2. frames[1].base = 1 /\ frames[1].base <= frames[Len(frames)].base
      BY <3>1 DEF Inv, FramesOK
    <3> QED BY <3>2, <2>1 DEF Cur
  <2>3. r \in Reg
    BY <2>1, <2>2, RegisterAssumption DEF Reg
  <2>4. \A u \in Open : uv[u].index = r => var[u].live
    <3> SUFFICES ASSUME NEW u \in Open, uv[u].index = r PROVE var[u].live
      OBVIOUS
    <3>1. u \in OpenFrom(Cur.base)
      BY <2>1 DEF OpenFrom
    <3> QED BY <3>1, LiveHere
  <2> QED BY <2>3, <2>4 DEF Inv, RegistersFollow
<1>2. ASSUME NEW u \in DOMAIN uv
      PROVE  ValueOf(u) = IF var[u].live THEN want[uv[u].index] ELSE var[u].want
  <2>1. CASE var[u].live
    <3>1. ~uv[u].closed /\ u \in Open
      BY <2>1 DEF Inv, LiveIsOpen, Open
    <3> QED BY <2>1, <3>1, OpenValues DEF ValueOf
  <2>2. CASE ~var[u].live
    BY <2>2 DEF Inv, DeadKeepsValue
  <2> QED BY <2>1, <2>2
<1> QED BY <1>1, <1>2 DEF ClosureSeesVariable
-----------------------------------------------------------------------------
\* The inductive invariant holds in every state the calls, closures, blocks and caught
\* errors of Spec can reach, whatever the number of registers and Upvalues.
THEOREM InvHolds == Spec => []Inv
<1>1. Init => Inv
  BY InitInv
<1>2. Inv /\ [Next]_vars => Inv'
  BY NextInv
<1> QED BY <1>1, <1>2, PTL DEF Spec

\* The variables keep their types; in particular the running frame fits the registry.
THEOREM TypesHold == Spec => []TypeOK
<1>1. Inv => TypeOK
  BY DEF Inv
<1> QED BY <1>1, InvHolds, PTL

\* findUpvalue and closeUpvalues: the list of open Upvalues is complete and in the order
\* of the registers, so that stopping at the first larger register misses none.
THEOREM UvcacheStaysSorted == Spec => []UvcacheSorted
<1>1. Inv => UvcacheSorted
  BY DEF Inv
<1> QED BY <1>1, InvHolds, PTL

\* No closure points at a register that the next call gives to somebody else.
THEOREM NothingDangles == Spec => []NoDangling
<1>1. Inv => NoDangling
  BY DEF Inv
<1> QED BY <1>1, InvHolds, PTL

\* A closure sees the variable it captured: its current value while it is in scope, and
\* the last one, shared with the other closures, after.
THEOREM ClosuresSeeVariables == Spec => []ClosureSeesVariable
<1>1. Inv => ClosureSeesVariable
  BY InvSeesVariable
<1> QED BY <1>1, InvHolds, PTL

\* hasErrorFunc is set only while an xpcall is in progress.
THEOREM ErrorFuncNeedsXPCall == Spec => []ErrorFuncInProgress
<1>1. Inv => ErrorFuncInProgress
  BY DEF Inv
<1> QED BY <1>1, InvHolds, PTL
-----------------------------------------------------------------------------
(* Errors at any time (FullSpec), a Go panic included, which PCall recovers *)
(* from without closing anything: what a closure reads is then not always   *)
(* its variable, but the list it is found in stays sorted and complete.     *)

\* The Upvalues after a step that closes those from register a on, or none, and ends the
\* scope of the registers from b on.
LEMMA FullClose ==
  ASSUME FullInv, NEW a \in Nat, NEW b \in Nat,
         closeUpvalues(a) \/ UNCHANGED <<uv, uvcache>>, EndScope(b) \/ UNCHANGED var
  PROVE  /\ uv' \in Seq(Upval) /\ uvcache' \in Seq(DOMAIN uv')
         /\ var' \in Seq(VarInfo) /\ Len(var') = Len(uv')
         /\ UvcacheSorted'
<1>1. TypeOK /\ UvcacheSorted
  BY DEF FullInv
<1>2. uv' \in Seq(Upval) /\ Len(uv') = Len(uv) /\ uvcache' \in Seq(DOMAIN uv') /\ UvcacheSorted'
  <2>1. CASE closeUpvalues(a)
    BY <1>1, <2>1, CloseEffect
  <2>2. CASE UNCHANGED <<uv, uvcache>>
    BY <1>1, <2>2 DEF TypeOK, UvcacheSorted, Open
  <2> QED BY <2>1, <2>2
<1>3. var' \in Seq(VarInfo) /\ Len(var') = Len(var)
  <2>1. CASE EndScope(b)
    BY <1>1, <2>1, ScopeVars
  <2>2. CASE UNCHANGED var
    BY <1>1, <2>2 DEF TypeOK, VarInfo
  <2> QED BY <2>1, <2>2
<1> QED BY <1>1, <1>2, <1>3 DEF TypeOK

\* A step that leaves the frames alone keeps the invariant if it keeps the list.
LEMMA FullSameFrames ==
  ASSUME FullInv, UNCHANGED <<frames, hasErrorFunc>>,
         reg' \in [Reg -> Value], want' \in [Reg -> Value],
         uv' \in Seq(Upval), uvcache' \in Seq(DOMAIN uv'), var' \in Seq(VarInfo), Len(var') = Len(uv'),
         UvcacheSorted'
  PROVE  FullInv'
<1>1. Cur' = Cur /\ Top' = Top
  BY DEF Cur, Top
<1>2. TypeOK'
  BY <1>1 DEF FullInv, TypeOK, VarInfo
<1>3. FramesOK' /\ ErrorFuncInProgress'
  BY DEF FullInv, FramesOK, ErrorFuncInProgress
<1> QED BY <1>2, <1>3 DEF FullInv

\* A step to other frames, with SetTop, keeps the invariant if it keeps the list.
LEMMA FullOtherFrames ==
  ASSUME FullInv, NEW idx \in Nat, SetTop(idx),
         frames' \in Seq(Frame), frames' # << >>,
         Cur'.kind \in {"lua", "errfunc"}, Top' - 1 <= NReg,
         uv' \in Seq(Upval), uvcache' \in Seq(DOMAIN uv'), var' \in Seq(VarInfo), Len(var') = Len(uv'),
         hasErrorFunc' \in BOOLEAN, UvcacheSorted', FramesOK', ErrorFuncInProgress'
  PROVE  FullInv'
<1>1. Registers(idx)
  BY SetTopRegisters DEF FullInv
<1>2. TypeOK'
  BY <1>1 DEF TypeOK, VarInfo, Registers
<1> QED BY <1>2 DEF FullInv

\* An xpcall in progress stays in progress as long as its frame does.
LEMMA XPCallStays ==
  ASSUME FullInv, frames' \in Seq(Frame), NEW n \in Nat, n <= Len(frames'),
         \A i \in 1 .. n : frames'[i] = frames[i],
         \A i \in n + 1 .. Len(frames) : frames[i].kind # "xpcall",
         hasErrorFunc' => hasErrorFunc
  PROVE  ErrorFuncInProgress'
<1> SUFFICES ASSUME hasErrorFunc PROVE \E i \in DOMAIN frames' : frames'[i].kind = "xpcall"
  BY DEF ErrorFuncInProgress
<1>1. PICK i \in DOMAIN frames : frames[i].kind = "xpcall"
  BY DEF FullInv, ErrorFuncInProgress
<1>2. i \in 1 .. Len(frames) /\ Len(frames) \in Nat /\ Len(frames') \in Nat
  BY <1>1, CurFits DEF FullInv, TypeOK
<1>3. i \in 1 .. n
  BY <1>1, <1>2
<1>4. i \in DOMAIN frames'
  BY <1>2, <1>3
<1> QED BY <1>1, <1>3, <1>4

\* The steps inside one frame: an assignment, a capture, an assignment by a closure, the end
\* of a block and a tail call.
LEMMA FullInFrame ==
  ASSUME FullInv,
         \/ \E r \in Reg : Capture(r) \/ CloseScope(r) \/ \E v \in Value : SetLocal(r, v)
         \/ \E u \in DOMAIN uv, v \in Value : SetUpval(u, v)
         \/ TailCall
  PROVE  FullInv'
<1>0. TypeOK /\ UvcacheSorted
  BY DEF FullInv
<1>1. ASSUME NEW r \in Reg, Capture(r) PROVE FullInv'
  <2>1. /\ uv' \in Seq(Upval) /\ uvcache' \in Seq(DOMAIN uv')
        /\ var' \in Seq(VarInfo) /\ Len(var') = Len(uv')
        /\ UvcacheSorted'
    BY <1>0, <1>1, CaptureEffect
  <2>2. UNCHANGED <<reg, frames, hasErrorFunc, want>>
    BY <1>1 DEF Capture
  <2>3. reg' \in [Reg -> Value] /\ want' \in [Reg -> Value]
    BY <1>0, <2>2 DEF TypeOK
  <2> QED BY <2>1, <2>2, <2>3, FullSameFrames
<1>2. ASSUME NEW r \in Reg, CloseScope(r) PROVE FullInv'
  <2>1. /\ r \in Nat /\ closeUpvalues(r) /\ EndScope(r)
        /\ UNCHANGED <<reg, frames, hasErrorFunc, want>>
    BY <1>2 DEF CloseScope, Reg
  <2>2. reg' \in [Reg -> Value] /\ want' \in [Reg -> Value]
    BY <1>0, <2>1 DEF TypeOK
  <2>3. /\ uv' \in Seq(Upval) /\ uvcache' \in Seq(DOMAIN uv')
        /\ var' \in Seq(VarInfo) /\ Len(var') = Len(uv')
        /\ UvcacheSorted'
    BY <2>1, FullClose
  <2> QED BY <2>1, <2>2, <2>3, FullSameFrames
<1>3. ASSUME NEW r \in Reg, NEW v \in Value, SetLocal(r, v) PROVE FullInv'
  <2>1. UNCHANGED <<frames, uv, uvcache, hasErrorFunc, var>>
    BY <1>3 DEF SetLocal
  <2>2. reg' \in [Reg -> Value] /\ want' \in [Reg -> Value]
    BY <1>0, <1>3 DEF TypeOK, SetLocal
  <2>3. /\ uv' \in Seq(Upval) /\ uvcache' \in Seq(DOMAIN uv')
        /\ var' \in Seq(VarInfo) /\ Len(var') = Len(uv')
        /\ UvcacheSorted'
    BY <1>0, <2>1 DEF TypeOK, VarInfo, UvcacheSorted, Open
  <2> QED BY <2>1, <2>2, <2>3, FullSameFrames
<1>4. ASSUME NEW u \in DOMAIN uv, NEW v \in Value, SetUpval(u, v) PROVE FullInv'
  <2>1. UNCHANGED <<frames, uvcache, hasErrorFunc>>
    BY <1>4 DEF SetUpval
  <2>2. /\ uv' \in Seq(Upval) /\ Len(uv') = Len(uv) /\ DOMAIN uv' = DOMAIN uv
        /\ var' \in Seq(VarInfo) /\ Len(var') = Len(var)
        /\ reg' \in [Reg -> Value] /\ want' \in [Reg -> Value]
        /\ \A w \in DOMAIN uv : uv'[w].index = uv[w].index
        /\ Open' = Open
    BY <1>0, <1>4, SetUpvalKeeps
  <2>3. uvcache' \in Seq(DOMAIN uv') /\ Len(var') = Len(uv')
    BY <1>0, <2>1, <2>2 DEF TypeOK
  <2>4. \A i \in 1 .. Len(uvcache) : uvcache[i] \in DOMAIN uv
    BY <1>0 DEF TypeOK
  <2>5. UvcacheSorted'
    BY <1>0, <2>1, <2>2, <2>4 DEF UvcacheSorted
  <2> QED BY <2>1, <2>2, <2>3, <2>5, FullSameFrames
<1>5. CASE TailCall
  <2>1. /\ Cur.base \in Nat /\ closeUpvalues(Cur.base) /\ EndScope(Cur.base) /\ SetTop(Cur.base)
        /\ UNCHANGED <<frames, hasErrorFunc>>
    BY <1>0, <1>5, CurFits DEF TailCall
  <2>2. reg' \in [Reg -> Value] /\ want' \in [Reg -> Value]
    BY <1>0, <2>1, SetTopRegisters DEF Registers
  <2>3. /\ uv' \in Seq(Upval) /\ uvcache' \in Seq(DOMAIN uv')
        /\ var' \in Seq(VarInfo) /\ Len(var') = Len(uv')
        /\ UvcacheSorted'
    BY <2>1, FullClose
  <2> QED BY <2>1, <2>2, <2>3, FullSameFrames
<1> QED BY <1>1, <1>2, <1>3, <1>4, <1>5

\* A call, of a function or protected.
LEMMA FullCall ==
  ASSUME FullInv, Call \/ \E k \in Protected : EnterPCall(k)
  PROVE  FullInv'
<1>1. TypeOK /\ UvcacheSorted /\ Top \in Nat /\ Len(frames) \in Nat
  BY CurFits DEF FullInv
<1>2. UNCHANGED <<uv, uvcache, var>> /\ Room /\ SetTop(Top)
  BY DEF Call, EnterPCall
<1>3. /\ uv' \in Seq(Upval) /\ uvcache' \in Seq(DOMAIN uv')
      /\ var' \in Seq(VarInfo) /\ Len(var') = Len(uv')
      /\ UvcacheSorted'
  BY <1>1, <1>2, FullClose
<1>4. \A i \in Len(frames) + 1 .. Len(frames) : frames[i].kind # "xpcall"
  BY <1>1
<1>5. CASE Call
  <2>1. /\ frames' \in Seq(Frame) /\ Len(frames') = Len(frames) + 1 /\ frames' # << >>
        /\ \A i \in 1 .. Len(frames) : frames'[i] = frames[i]
        /\ Cur' = [kind |-> "lua", base |-> Top]
        /\ Top' - 1 <= NReg /\ FramesOK'
    BY <1>5, FramesPush DEF Call
  <2>2. hasErrorFunc' = hasErrorFunc /\ hasErrorFunc' \in BOOLEAN
    BY <1>1, <1>5 DEF Call, TypeOK
  <2>3. ErrorFuncInProgress'
    <3>1. Len(frames) <= Len(frames')
      BY <1>1, <2>1
    <3> QED BY <1>1, <1>4, <2>1, <2>2, <3>1, XPCallStays
  <2>4. Cur'.kind \in {"lua", "errfunc"}
    BY <2>1
  <2> QED BY <1>1, <1>2, <1>3, <2>1, <2>2, <2>3, <2>4, FullOtherFrames
<1>6. ASSUME NEW k \in Protected, EnterPCall(k) PROVE FullInv'
  <2>1. /\ frames' \in Seq(Frame) /\ Len(frames') = Len(frames) + 2 /\ frames' # << >>
        /\ \A i \in 1 .. Len(frames) : frames'[i] = frames[i]
        /\ frames'[Len(frames) + 1].kind = k
        /\ Cur' = [kind |-> "lua", base |-> Top]
        /\ Top' - 1 <= NReg /\ FramesOK'
    BY <1>6, FramesPushTwo DEF EnterPCall
  <2>2. hasErrorFunc' = (hasErrorFunc \/ k = "xpcall") /\ hasErrorFunc' \in BOOLEAN
    BY <1>1, <1>6 DEF EnterPCall, TypeOK
  <2>3. ErrorFuncInProgress'
    <3>1. CASE k = "xpcall"
      <4>1. Len(frames) + 1 \in DOMAIN frames'
        BY <1>1, <2>1
      <4> QED BY <3>1, <4>1, <2>1 DEF ErrorFuncInProgress
    <3>2. CASE k # "xpcall"
      <4>1. hasErrorFunc' => hasErrorFunc
        BY <3>2, <2>2
      <4>2. Len(frames) <= Len(frames')
        BY <1>1, <2>1
      <4> QED BY <1>1, <1>4, <2>1, <4>1, <4>2, XPCallStays
    <3> QED BY <3>1, <3>2
  <2>4. Cur'.kind \in {"lua", "errfunc"}
    BY <2>1
  <2> QED BY <1>1, <1>2, <1>3, <2>1, <2>2, <2>3, <2>4, FullOtherFrames
<1> QED BY <1>5, <1>6

\* The end of a protected call, however it ends.
LEMMA FullLeave ==
  ASSUME FullInv, NEW m \in 1 .. Len(frames), frames[m].kind \in Protected, Leave(m),
         NEW a \in Nat, NEW b \in Nat,
         closeUpvalues(a) \/ UNCHANGED <<uv, uvcache>>, EndScope(b)
  PROVE  FullInv'
<1>1. TypeOK /\ frames[m].base \in Nat
  BY Shapes DEF FullInv
<1>2. /\ frames' = SubSeq(frames, 1, m - 1) /\ SetTop(frames[m].base)
      /\ hasErrorFunc' = FALSE /\ hasErrorFunc' \in BOOLEAN
  BY DEF Leave
<1>3. m \in 2 .. Len(frames) /\ frames[m - 1].kind \notin Protected
  BY CallerOfProtected
<1>4. /\ frames' \in Seq(Frame) /\ frames' # << >>
      /\ Cur'.kind \in {"lua", "errfunc"} /\ Top' - 1 <= NReg /\ FramesOK'
  BY <1>2, <1>3, FramesCut
<1>5. /\ uv' \in Seq(Upval) /\ uvcache' \in Seq(DOMAIN uv')
      /\ var' \in Seq(VarInfo) /\ Len(var') = Len(uv')
      /\ UvcacheSorted'
  BY FullClose
<1>6. ErrorFuncInProgress'
  BY <1>2 DEF ErrorFuncInProgress
<1> QED BY <1>1, <1>2, <1>4, <1>5, <1>6, FullOtherFrames

\* A function or a handler returns.
LEMMA FullReturn ==
  ASSUME FullInv, Return \/ HandlerReturn
  PROVE  FullInv'
<1>1. /\ TypeOK /\ Len(frames) \in Nat \ {0} /\ Cur.base \in Nat
      /\ closeUpvalues(Cur.base) /\ EndScope(Cur.base)
  BY CurFits DEF FullInv, Return, HandlerReturn
<1>2. CASE Return
  <2>1. Len(frames) > 1 /\ Cur.kind = "lua" /\ Len(frames) - 1 \in 1 .. Len(frames)
    BY <1>1, <1>2 DEF Return
  <2>2. CASE /\ frames[Len(frames) - 1].kind \in {"lua", "errfunc"}
             /\ frames' = SubSeq(frames, 1, Len(frames) - 1)
             /\ SetTop(Cur.base)
             /\ UNCHANGED hasErrorFunc
    <3>1. Len(frames) \in 2 .. Len(frames) /\ frames[Len(frames) - 1].kind \notin Protected
      BY <1>1, <2>1, <2>2 DEF Protected
    <3>2. /\ frames' \in Seq(Frame) /\ frames' # << >> /\ Len(frames') = Len(frames) - 1
          /\ \A i \in 1 .. Len(frames) - 1 : frames'[i] = frames[i]
          /\ Cur'.kind \in {"lua", "errfunc"} /\ Top' - 1 <= NReg /\ FramesOK'
      BY <2>2, <3>1, FramesCut
    <3>3. hasErrorFunc' \in BOOLEAN /\ (hasErrorFunc' => hasErrorFunc)
      BY <1>1, <2>2 DEF TypeOK
    <3>4. \A i \in (Len(frames) - 1) + 1 .. Len(frames) : frames[i].kind # "xpcall"
      <4> SUFFICES ASSUME NEW i \in (Len(frames) - 1) + 1 .. Len(frames)
                   PROVE frames[i].kind # "xpcall"
        OBVIOUS
      <4>1. i = Len(frames)
        BY <1>1
      <4> QED BY <2>1, <4>1 DEF Cur
    <3>5. ErrorFuncInProgress'
      <4>1. Len(frames) - 1 \in Nat /\ Len(frames) - 1 <= Len(frames')
        BY <1>1, <3>2
      <4> QED BY <3>2, <3>3, <3>4, <4>1, XPCallStays
    <3>6. /\ uv' \in Seq(Upval) /\ uvcache' \in Seq(DOMAIN uv')
          /\ var' \in Seq(VarInfo) /\ Len(var') = Len(uv')
          /\ UvcacheSorted'
      BY <1>1, FullClose
    <3> QED BY <1>1, <2>2, <3>2, <3>3, <3>5, <3>6, FullOtherFrames
  <2>3. CASE frames[Len(frames) - 1].kind \in {"pcall", "xpcall"} /\ Leave(Len(frames) - 1)
    BY <1>1, <2>1, <2>3, FullLeave DEF Protected
  <2> QED BY <1>2, <2>2, <2>3 DEF Return
<1>3. CASE HandlerReturn
  <2>1. Len(frames) \in 1 .. Len(frames) /\ Cur.kind = "errfunc" /\ Leave(Served(Len(frames)))
    BY <1>1, <1>3 DEF HandlerReturn
  <2>2. \E j \in 1 .. Len(frames) : frames[j].kind = "xpcall"
    BY <2>1 DEF Cur, FullInv, FramesOK
  <2>3. Served(Len(frames)) \in 1 .. Len(frames) /\ frames[Served(Len(frames))].kind \in Protected
    BY <1>1, <2>1, <2>2, ServedIs DEF Protected
  <2> QED BY <1>1, <2>1, <2>3, FullLeave
<1> QED BY <1>2, <1>3

\* An error, whether or not its closing is harmless.
LEMMA FullError ==
  ASSUME FullInv, NEW panic \in BOOLEAN, Error(panic)
  PROVE  FullInv'
<1>1. /\ Catcher \in 1 .. Len(frames) /\ Target \in 1 .. Catcher
      /\ frames[Target].kind \in Protected
  BY TargetIs DEF Error
<1>2. TypeOK /\ Len(frames) \in Nat /\ Top \in Nat /\ Target \in 1 .. Len(frames)
  BY <1>1, CurFits DEF FullInv
<1>3. frames[Target].base \in Nat /\ EndScope(frames[Target].base)
  BY <1>2, Shapes DEF Error
<1>4. closeUpvalues(1) \/ UNCHANGED <<uv, uvcache>>
  BY DEF Error, closeAllUpvalues, FullInv, FramesOK
<1>5. CASE /\ frames[Catcher].kind = "xpcall" /\ Room
           /\ frames' = Append(frames, [kind |-> "errfunc", base |-> Top])
           /\ hasErrorFunc' = FALSE /\ SetTop(Top)
  <2>1. /\ frames' \in Seq(Frame) /\ frames' # << >>
        /\ Cur' = [kind |-> "errfunc", base |-> Top]
        /\ Top' - 1 <= NReg /\ FramesOK'
    BY <1>1, <1>5, FramesPush
  <2>2. Cur'.kind \in {"lua", "errfunc"} /\ hasErrorFunc' \in BOOLEAN
    BY <1>5, <2>1
  <2>3. ErrorFuncInProgress'
    BY <1>5 DEF ErrorFuncInProgress
  <2>4. /\ uv' \in Seq(Upval) /\ uvcache' \in Seq(DOMAIN uv')
        /\ var' \in Seq(VarInfo) /\ Len(var') = Len(uv')
        /\ UvcacheSorted'
    BY <1>3, <1>4, FullClose
  <2> QED BY <1>2, <1>5, <2>1, <2>2, <2>3, <2>4, FullOtherFrames
<1>6. CASE frames[Catcher].kind # "xpcall" /\ Leave(Target)
  BY <1>1, <1>2, <1>3, <1>4, <1>6, FullLeave
<1> QED BY <1>5, <1>6 DEF Error

\* Every step of FullSpec keeps the list of open Upvalues and the frames in order.
LEMMA FullNextInv ==
  ASSUME FullInv, [FullNext]_vars
  PROVE  FullInv'
<1>1. CASE Step
  BY <1>1, FullInFrame, FullCall, FullReturn DEF Step, Protected
<1>2. CASE HandlerReturn
  BY <1>2, FullReturn
<1>3. ASSUME NEW panic \in BOOLEAN, Error(panic) PROVE FullInv'
  BY <1>3, FullError
<1>4. CASE UNCHANGED vars
  <2>1. TypeOK /\ UNCHANGED <<uv, uvcache, var, frames, hasErrorFunc, reg, want>>
    BY <1>4 DEF vars, FullInv
  <2>2. reg' \in [Reg -> Value] /\ want' \in [Reg -> Value]
    BY <2>1 DEF TypeOK
  <2>3. /\ uv' \in Seq(Upval) /\ uvcache' \in Seq(DOMAIN uv')
        /\ var' \in Seq(VarInfo) /\ Len(var') = Len(uv')
        /\ UvcacheSorted'
    <3>1. 0 \in Nat
      OBVIOUS
    <3> QED BY <2>1, <3>1, FullClose
  <2> QED BY <2>1, <2>2, <2>3, FullSameFrames
<1> QED BY <1>1, <1>2, <1>3, <1>4 DEF FullNext

\* The list and the frames, in every state that errors at any time can lead to.
THEOREM FullInvHolds == FullSpec => []FullInv
<1>1. Init => FullInv
  BY InitInv, InvIsFull
<1>2. FullInv /\ [FullNext]_vars => FullInv'
  BY FullNextInv
<1> QED BY <1>1, <1>2, PTL DEF FullSpec

\* findUpvalue and closeUpvalues stay right when errors and Go panics strike anywhere: the
\* list of open Upvalues is complete and in the order of the registers.
THEOREM UvcacheSurvivesErrors == FullSpec => []UvcacheSorted
<1>1. FullInv => UvcacheSorted
  BY DEF FullInv
<1> QED BY <1>1, FullInvHolds, PTL

\* hasErrorFunc is never left set behind an xpcall that has ended, however it ended.
THEOREM ErrorFuncSurvivesErrors == FullSpec => []ErrorFuncInProgress
<1>1. FullInv => ErrorFuncInProgress
  BY DEF FullInv
<1> QED BY <1>1, FullInvHolds, PTL
=============================================================================
