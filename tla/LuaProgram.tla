----------------------------- MODULE LuaProgram -----------------------------
(***************************************************************************)
(* A Lua chunk compiled by LuaCompiler and run by LuaVM, held against its   *)
(* meaning in LuaReference.  A chunk that does not end by itself is run     *)
(* with a gas limit only, and has no meaning to compare with.               *)
(***************************************************************************)
EXTENDS LuaVM

NoHost(s, name, args) == [s |-> s, vs |-> <<>>]      \* no function of the host but out
Ref == INSTANCE LuaReference WITH Host <- NoHost

CONSTANT MeaningOf(_)       \* Ref!Meaning, a constant for the reason Compile is one

VARIABLE meaning    \* what the chunk means
vars == <<vm, meaning>>

Stopped == vm.st # "run" /\ (vm.st \in {"done", "rejected"} \/ Catchers(vm) = {})
Init == VMInit /\ meaning = IF 0 \in GasLimits[vm.prog] THEN MeaningOf(Programs[vm.prog]) ELSE <<>>
Next == (VMNext \/ (Stopped /\ UNCHANGED vm)) /\ UNCHANGED meaning
(* WF_vm(VMNext), spelled out: VMNext is enabled exactly while the machine is not  *)
(* stopped, which the run confirms (a machine that is stuck would be a deadlock).  *)
Fair == []<>Stopped \/ []<><<~Stopped>>_vm
Spec == Init /\ [][Next]_vars /\ Fair

OutOfGas == vm.limit > 0 /\ vm.gas > vm.limit

(* The compiled chunk does what the chunk means: the same calls of the host   *)
(* function with the same arguments, the same values returned, an error where  *)
(* the chunk has one; a chunk that ran out of gas did a first part of it.      *)
(* This is the whole of compile.go and vm.go: registers, jumps, upvalues,      *)
(* operands taken from where they are, varargs, metamethods, pcall.            *)
MeansWhatItSays ==
    Stopped /\ meaning # <<>> =>
        LET calls == IF vm.st = "done" THEN Front(vm.log) ELSE vm.log
        IN  IF OutOfGas THEN IsPrefix(calls, meaning.log)
            ELSE vm.st = meaning.st /\ vm.log = meaning.log

(* The registers that hold the named locals in scope (DbgLocals) lie inside their    *)
(* frame: below the frame that was called above them, or below the top of the  *)
(* registry, where the next metamethod or iterator is pushed.                  *)
ForNames == {"(for)", "(for generator)", "(for state)", "(for control)"}
LiveRegisters(s, d) ==
    LET c == s.fr[d]
        pc == IF d < Len(s.fr) THEN c.pc - 1 ELSE c.pc      \* the call under way, or the next instruction
        in(x) == pc \in x.start..x.end /\ x.n \notin ForNames
    IN  {c.lbase + x.reg : x \in {y \in Range(ProtoOf(s, c.fn).dbg) : in(y)}}
FramesDisjoint ==
    \A d \in DOMAIN vm.fr : vm.fr[d].fn[1] = "fun" =>
        \A r \in LiveRegisters(vm, d) : r < IF d < Len(vm.fr) THEN vm.fr[d + 1].base ELSE vm.top

(* Once the gas is used up nothing happens any more: the error can be caught   *)
(* by pcall (vm.go, mainLoop), but the next instruction raises it again, so    *)
(* that no table, closure or upvalue changes and no host function is called.   *)
(* The programs do not install pcall itself as a metamethod: such a handler    *)
(* ends within the instruction that called it, which goes on (stringConcat).   *)
GasIsFinal ==
    [][OutOfGas => /\ vm'.heap = vm.heap
                   /\ vm'.cl = vm.cl
                   /\ vm'.log = vm.log \/ vm'.st = "done"]_vm

(* Every run ends: by itself, or because the gas limit stops it, whatever the  *)
(* chunk loops, recurses or catches.                                           *)
Ends == <>Stopped
=============================================================================
