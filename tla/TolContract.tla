----------------------------- MODULE TolContract ----------------------------
(***************************************************************************)
(* The life of a contract: its source is checked (TolSema, TolEffects,      *)
(* TolChecks), lowered to Lua (TolLowering), compiled (LuaCompiler),        *)
(* deployed and called; every deployment and every call is run (TolHost)    *)
(* next to what the source means (TolMeaning).                             *)
(***************************************************************************)
EXTENDS TolLowering

CONSTANTS Programs,     \* a set of [c, peers, values]: a contract, how calls of others may end, arguments
          Modulus,      \* the numbers are below it
          MaxCalls      \* calls after the deployment

(* The stages a contract goes through, whose definitions are named on the right.  *)
(* They are constants because TLC's statistics on a step stop at a constant.      *)
CONSTANTS Checked(_),               \* Accepted
          Lowered(_),               \* Chunks
          Compiled(_),              \* Compiles
          Ran(_, _, _, _, _),       \* Host!Execute
          MeansCreated(_, _, _, _), \* Meaning!Created
          MeansInvoked(_, _, _, _, _)   \* Meaning!Invoked

Host == INSTANCE TolHost WITH SLoadGas <- gasCostSLoad, SStoreGas <- gasCostSStore, LogGas <- gasCostLog
PlaceOf(kind, base, key) == IF kind = "map" THEN Host!mkey(key, base) ELSE Host!arr_elem(base, key)
Meaning == INSTANCE TolMeaning WITH Place <- PlaceOf
Compiler == INSTANCE LuaCompiler WITH MaxIndexRk <- 255, FieldsPerFlush <- 50, MaxArgC <- 511

VARIABLES prog,     \* the program
          phase,    \* "source", "rejected", "lowered", "refused", "accepted", "live", "failed"
          chunks,   \* the init and the runtime chunk
          store,    \* the storage
          call,     \* the last call: its function (<<>> or <<fn>>) and its arguments
          did,      \* what it did
          means,    \* what it means
          calls     \* how many since the deployment
vars == <<prog, phase, chunks, store, call, did, means, calls>>

Contract == prog.c
None == [st |-> "none", kind |-> "", vs |-> <<>>, store |-> Host!EmptyStore, log |-> <<>>]

Init ==
    /\ prog \in Programs
    /\ phase = "source"
    /\ chunks = [init |-> <<>>, runtime |-> <<>>]
    /\ store = Host!EmptyStore
    /\ call = [fn |-> <<>>, args |-> <<>>]
    /\ did = None @@ [reads |-> {}, writes |-> {}, cost |-> 0]
    /\ means = None
    /\ calls = 0

Lowers(chunk) == \A i \in DOMAIN chunk : Supported(chunk[i])
Compiles(chunk) == Lowers(chunk) /\ ~Compiler!compileASTToIRDirect(chunk).err
Chunks(c) == [init |-> initChunk(c), runtime |-> runtimeChunk(c)]

(* Parsed source becomes a chunk for each mode, unless a check reports it.  *)
Lower ==
    /\ phase = "source"
    /\ chunks' = IF Checked(Contract) THEN Lowered(Contract) ELSE chunks
    /\ phase' = IF Checked(Contract) THEN "lowered" ELSE "rejected"
    /\ UNCHANGED <<prog, store, call, did, means, calls>>

Compile ==
    /\ phase = "lowered"
    /\ phase' = IF Compiled(chunks.init) /\ Compiled(chunks.runtime) THEN "accepted" ELSE "refused"
    /\ UNCHANGED <<prog, chunks, store, call, did, means, calls>>

Numbers(s) == [i \in DOMAIN s |-> <<"num", s[i]>>]
ArgsFor(n) == [1 .. n -> prog.values]

(* A contract without constructor and initial values has nothing to run.   *)
Deploy ==
    /\ phase = "accepted"
    /\ \E args \in ArgsFor(Len(ConstructorParams(Contract))), peer \in prog.peers :
           /\ did' = IF HasConstructor(Contract)
                     THEN Ran(chunks.init, "oncreate", Numbers(args), store, peer)
                     ELSE [did EXCEPT !.st = "ok"]
           /\ means' = MeansCreated(Contract, Numbers(args), store, peer)
           /\ call' = [fn |-> <<>>, args |-> args]
    /\ store' = did'.store
    /\ phase' = IF did'.st = "ok" THEN "live" ELSE "failed"
    /\ UNCHANGED <<prog, chunks, calls>>

(* selector "" is a call without data.                                     *)
Call(selector, args, peer) ==
    /\ did' = Ran(chunks.runtime, "oninvoke",
                   <<IF selector = "" THEN <<"nil", 0>> ELSE <<"str", selector>>>> \o Numbers(args), store, peer)
    /\ means' = MeansInvoked(Contract, selector, Numbers(args), store, peer)
    /\ store' = did'.store
    /\ calls' = calls + 1
    /\ UNCHANGED <<prog, phase, chunks>>

Invoke ==
    /\ phase = "live" /\ calls < MaxCalls
    /\ \E i \in DOMAIN Contract.funcs, peer \in prog.peers :
           LET fn == Contract.funcs[i] IN
           /\ isDispatched(fn)
           /\ \E args \in ArgsFor(Len(fn.params)) :
                  /\ call' = [fn |-> <<fn>>, args |-> args]
                  /\ Call(selectorDispatchKey(fn), args, peer)

(* A call that names no function of the contract.                          *)
Transfer ==
    /\ phase = "live" /\ calls < MaxCalls
    /\ \E selector \in {"", "other"}, peer \in prog.peers :
           Call(selector, <<>>, peer)
    /\ call' = [fn |-> <<>>, args |-> <<>>]

Next == Lower \/ Compile \/ Deploy \/ Invoke \/ Transfer
Spec == Init /\ [][Next]_vars

-----------------------------------------------------------------------------

(* What passes every check of tol/sema is lowered and compiled: neither    *)
(* tol_ir_direct_lowering.go nor compile.go refuses a contract that        *)
(* sema.go accepted.                                                       *)
AcceptedIsCompiled == phase # "refused"

(* A deployed contract does what its source says: the same values          *)
(* returned, the same storage, the same events, the same error, whatever   *)
(* lower.go inlines and rewrites and however tol_ir_direct_lowering.go      *)
(* scopes locals, derives slots, jumps and dispatches.                     *)
LoweredMeansSource ==
    phase \in {"live", "failed"} =>
        \A f \in DOMAIN means : did[f] = means[f]

Called == IF call.fn = <<>> THEN "none" ELSE functionEffectKind(call.fn[1].mods)

(* An accepted view function changes no storage and emits nothing, an      *)
(* accepted pure function does not even read storage (checkViewStmt,       *)
(* checkPureStmt of effects.go).  True of programs without what these two  *)
(* do not look at: delete (TolContractView.cfg), push, the last part of a  *)
(* for, calls of internal functions, operands of a conditional, catch      *)
(* clauses and modifiers.                                                  *)
ReadOnlyIsReadOnly ==
    phase = "live" =>
        /\ Called \in {"view", "pure"} => did.writes = {} /\ did.log = <<>>
        /\ Called = "pure" => did.reads = {}

(* The slots a declared reference stands for in a call with these          *)
(* arguments: a key is a parameter, or "*".                                *)
Denotes(fn, args, ref, slot) ==
    LET key(k) == CHOOSE i \in DOMAIN fn.params : fn.params[i] = k
        shape == contractTables(Contract).slots[ref.slot].shape
        named == FoldLeftDomain(LAMBDA base, i : PlaceOf(shape[i], base, args[key(ref.keys[i])]), ref.slot, ref.keys)
    IN  IF ref.keys = <<"*">> THEN \E k \in 0 .. Modulus - 1 : slot = PlaceOf(shape[1], ref.slot, k)
        ELSE slot = named

(* A call touches only the storage its @effects annotation declares        *)
(* (checkDeclaredEffects of effects.go), for every argument.  True of      *)
(* programs without what the check does not see: arguments of events,      *)
(* reads of keys, of compound assignments and in parentheses, delete, try, *)
(* and keys whose parameter is assigned or hidden by a local.  Declared    *)
(* events are not compared.                                                *)
EffectsAreDeclared ==
    phase = "live" /\ call.fn # <<>> /\ call.fn[1].effects # <<>> =>
        LET fn == call.fn[1]
            declared == fn.effects[1]
        IN  /\ \A s \in did.reads : \E ref \in declared.reads : Denotes(fn, call.args, ref, s)
            /\ \A s \in did.writes : \E ref \in declared.writes : Denotes(fn, call.args, ref, s)

(* Storage accesses and events cost no more than the @gas annotation       *)
(* promises (checkGasUpperBound of effects.go), when the arguments respect *)
(* the @bounds.  True of programs without what the estimate does not       *)
(* count: accesses in conditions, compound assignments, arguments of calls *)
(* and the last part of a for; a loop bounded by <= and a literal, which   *)
(* counts one iteration too few; and @bounds of the loop's own variable.   *)
WithinBounds(fn, args) ==
    \A b \in ToSet(fn.bounds) : \A i \in DOMAIN fn.params :
        fn.params[i] = b.ident => CASE b.op = "<" -> args[i] < b.value
                                    [] b.op = "<=" -> args[i] <= b.value
                                    [] b.op = "==" -> args[i] = b.value
GasIsBounded ==
    phase = "live" /\ call.fn # <<>> /\ call.fn[1].gas # <<>> =>
        LET fn == call.fn[1]
        IN  WithinBounds(fn, call.args) /\ fn.gas[1].k = "int" => did.cost <= fn.gas[1].v

(* After the deployment no call changes an immutable                       *)
(* (checkImmutableWritesInNonCtor of sema.go).  True of programs without   *)
(* delete of an immutable and without assignments to one in a catch clause *)
(* or in a modifier: the check does not look there.                        *)
ImmutablesStay ==
    [][phase = "live" =>
         \A s \in ToSet(Contract.slots) : s.imm => Host!Get(store', s.name) = Host!Get(store, s.name)]_vars
=============================================================================
