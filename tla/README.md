# TLA+ specifications of tolang

tolang compiles the contract language TOL to a hardened Lua 5.4 virtual machine
written in Go, and ships a library of contracts (openlib). This directory holds
TLA+ models of the compiler, the virtual machine and the settlement contract, TLC
configurations that check them on small instances, and proofs checked by TLAPS. `PROJECT.json` records which lines each definition
models, the runs, the hazards and the theorems.

Running things (in this directory):

    tlc -workers 2 -config CallFrameStack.cfg MCCallFrameStack
    tlc -workers 2 -config TolContract.cfg MCTolContract
    tlapm CallFrameStackRefinement.tla     # and each of the other ...Proofs modules

## 1. The system

### Components

| component | source | state | operations |
|---|---|---|---|
| call stack | `state.go` | per LState an array, or segments taken from a pool that the whole process shares; the depth | push, pop, tail call, unwind (`SetSp`), free; used by calls, returns, `PCall`, `Close` |
| tables | `table.go`, `tablelib.go`, `baselib.go` | array part, two hash parts, insertion order (`keys`, `k2i`), cursors (`nextIterated`) | `RawSet*`, `Append`, `Insert`, `Remove`, `Next`, `next`/`pairs` |
| closures | `function.go`, `state.go`, `vm.go` | register file, `uvcache` of open upvalues, `hasErrorFunc` | capture, read and write, close at block end, return, tail call, error |
| integers | `uint256.go`, `cryptolib.go` | values of four 64-bit words | wrapping, signed and checked arithmetic, shifts, comparison |
| interpreter loop and gas | `vm.go`, `resource_gas.go` | pc, registers, frames, gas counter | the opcodes, gas charges, metamethods, `pcall` |
| libraries | `stringlib.go`, `pm/`, `mathlib.go`, `mappinglib.go` | none or library-local | string, number and mapping functions |
| Lua compiler, bytecode | `parse/`, `compile.go`, `bytecode.go` | scopes, register allocation, jump lists | parse, compile, encode, decode |
| TOL front end | `tol/lexer`, `tol/parser`, `tol/ast` | token stream, pending documentation, diagnostics, AST | lex, parse, recover from an error |
| TOL semantic analysis | `tol/sema` | per function: local names, inferred effects, gas estimate | name and type checks, `pure`/`view` and `@effects` checks, uninitialized reads, gas bound, interface conformance |
| TOL lowering | `tol_ir_direct_lowering.go`, `tol/lower`, `ir.go` | IR under construction | AST to IR to VM code |
| artifacts, packages | `tol_artifact.go`, `tol_package.go`, `package.go` | `.toc`, `.abi`, `.tor` files | encode, decode, hash, sign |
| verifier, metadata | `verify/`, `metadata/` | reports | rebuild and compare |
| settlement contract | `openlib/settlement/TaskSettlement.tol` | tasks, escrow, receipts | open, accept, submit, approve, reject, dispute, resolve, milestones, cancel, reclaim |
| other contracts | `openlib/*` | account, session, sponsor, recovery, ... | their external functions |
| formatter | `tol/format` | the text printed so far | print a syntax tree |
| tools | `tol/test`, `cmd/` | none | test, command line |

### How they interact

Source text goes through front end, analysis and lowering (or, for Lua, through
`parse` and `compile`) to a function prototype, which the interpreter loop runs
on an LState. The LState owns a call stack, a register file and the list of open
upvalues; an instruction that calls, returns or fails touches all three. Errors
are Go panics that `PCall` recovers, so the unwinding of the three structures is
split between the place that raises (`raiseError` closes upvalues), the deferred
function in `PCall` (sets back depth and registers) and the error function of an
`xpcall` (runs on top of the frames that failed). Lowered contracts reach
integers through `cryptolib.go`, storage through the host, and the host's escrow
through helpers that the lowering emits. A contract call is one transaction: the
host rolls it back when it reverts.

### What is hard

Within one LState nothing is concurrent; what is hard is sequences and
translations. The pool of segments is the one structure that several LStates of
a process share. The hard behaviours are: indexes kept across calls that move
what they point at (open upvalues, table cursors, segment slots); errors that
leave a structure between two steps, in the VM and in the recovery of the
parser; values at the border of two representations (segment boundary, array and
hash part, word boundary of an integer); registers and operands that a
translation shares because it thinks a value is no longer needed; checks that
look at the source while promises are about what the lowered code does; and
protocols of several parties in which any order of legal calls must preserve the
money (settlement). The full list, by line, is under `hazards` in
`PROJECT.json`.

### What makes each component correct

- Call stack: it is a bounded LIFO stack, whichever implementation; a segment is
  never in two places; a protected call leaves the depth it found.
- Tables: a table is a function from keys to values, whichever part holds a key; a
  traversal returns every key once and may erase the key it is at.
- Closures: a closure and the function that declared a variable agree on it for
  as long as it is in scope, and it keeps its last value afterwards.
- Integers: the code computes the integer result modulo 2^n, or reverts.
- Settlement: the escrow holds exactly what is owed, everything is paid once, and
  receipts agree with payouts.
- Compiler and interpreter: a chunk does what it says; frames do not share live
  registers; no instruction has an effect without gas, also after an error that
  was caught; every run ends.
- Front end: parsing ends, what it discards it reports, operators bind as the
  grammar says, documentation reaches its declaration. The formatter prints what
  reads back as the same tree.
- Analysis and lowering: an accepted contract compiles and, deployed and called,
  does what its source means; a function that passes the `pure`, `view`,
  `@effects`, `@gas` and immutable checks keeps those promises when its lowered
  body runs, on any path and for any argument.
- Bytecode, packages: decode inverts encode, the verifier accepts only equal
  packages.

## 2. The models

Names of definitions are those of the source where TLA+ allows it. A definition
described in a comment as a wrong form of another is a mutant: it replaces the
right one to see that a property fails when the code is wrong in that way.

### `FrameStack`, `CallFrameStack`, `MCCallFrameStack`

`FrameStack` is the abstract specification: for each LState a sequence of
functions, bounded by a capacity, with call, return, tail call, protected call
and error. `CallFrameStack` models `fixedCallFrameStack` and
`autoGrowingCallFrameStack` of `state.go` on a heap of segments with identities,
the `segmentPool`, and how LState uses the stack: `NewState` (`newLState`),
`pushCallFrame`, `Return`, `RemoveCallerFrame` (tail call), `EnterPCall` and
`LeavePCall` (the deferred function of `PCall`), `StackOverflow` and `Fail` (any
error; `raising` is a panic on its way to the nearest `PCall`), `Close`. A
segment in the pool holds whatever its previous owner left, since the code does
not clear it; the model gives it frames of no function instead, and
`FrameKnowsDepth` shows that no such frame is ever read.
An LState may be opened, closed and opened again with the other implementation.

The errors of a `PCall` come in two specifications. In `Spec` a callee on a
segmented stack has a frame before anything fails; `FullSpec` also has a callee
that fails before it gets one (a value that cannot be called, or no room). They
differ because of `SetSp`: at a depth that is a multiple of the segment size it
cannot tell "this segment is full" from "the next one is empty".

### `AbstractTable`, `LuaTable`

One table, its two parts and its iteration state, changed by assignments,
`table.insert`, `table.remove`, and traversed by loops that call `next`. `dict`
and `strdict` are one function. Each loop keeps, as history, the keys it has
seen and those it still owes. An assignment to a key that has a value is legal
during a traversal; any other change makes the traversal undefined in Lua, and
the model forgets it. Two things a traversal is not followed through, because
the code gives no guarantee there: an assignment that moves a key from the hash
to the array part, and a table in which `InsertWithCost` has put an array slot
on top of a hash key (`TwoHomes`). `OneHome` shows no other operation does so.

`AbstractTable` is what a program relies on: `content`, a function from keys to
values, and per loop the keys returned and those owed. It has no array and no
hash part. Its operations take the length `n` that `#` returned, because the length
is looser than in Lua: with a value in the hash part right behind the array, `#` is not
a border, only a key with a value (or 0). `table.remove` without a position may
drop no more than an empty slot behind the list. After the insertion described above the
table is not `plain`: `table.insert` and `table.remove` may then lose or repeat elements of the
list (`Garble`), but touch no other key, and assignments work as before. `LuaTable` maps
`content` to what `RawGet` returns and `plain` to `~TwoHomes`. `ImplementsTable` says more
than that every step is some abstract step, since a `table.remove` that leaves a hole would
pass for an assignment of `nil`: each operation must be the one of its name.

### `Upvalues`

The register file, a stack of frames (functions, protected calls, error
handlers), the Upvalue objects and `uvcache`. Actions: assignment to a local,
capture (`OP_CLOSURE`, `findUpvalue`), assignment through a closure, end of a
block, call, tail call, return, `pcall`, `xpcall`, errors (Lua errors and Go
panics, which differ in whether upvalues are closed) and the return of a
handler. Two history variables keep what Lua promises. As above there are two
specifications: `Spec` has the errors at which closing every upvalue (or none)
is harmless, `FullSpec` has all errors.

### `Uint256`, `CheckedArith`

`Uint256` translates `uint256.go` operator by operator: numbers are four words
of `W` bits with explicit carries, long division is Knuth's algorithm D with its
estimates. `CheckedArith` adds the signed and checked helpers of `cryptolib.go`
and a machine that loads every pair of operands of each width in `Width`; its
properties compare the code with TLC's integers. The code is written for
`W = 64`; nothing in it but the number of bits per word depends on 64.

### `TaskSettlement`, `MCTaskSettlement`

Every function of the contract that changes state, one transaction each, with
the `ReceiptBook` it writes to. The host's escrow, settlement bus, clock and
rollback are not in this repository; they are modelled from how the contract and
the lowered helpers use them. `paid` is history: what each party received. The
model has receipt books that accept the contract as writer; a book that refuses
makes the transaction fail and roll back.

### `LuaValues`, `LuaCompiler`, `LuaVM`, `LuaReference`, `LuaProgram`

`LuaCompiler` translates `compile.go`: every operator takes a function context
(code, constants, registers in use, blocks with their locals, labels) and returns
the context after the Go function of the same name, for every statement and
expression but the bitwise operators, including constant folding, propagation of
operands, jump lists and `patchCode`. `LuaVM` runs the code: one action per
instruction, on a registry with frames, a heap of tables with metatables,
closures and upvalue cells, a gas counter, and the host function `out`. The Go
code runs a metamethod, an iterator or a `__close` handler in a nested
`mainLoop`; here the frame of the callee says what its caller does with the
result (`cont`). An error unwinds to the nearest `pcall` (`Recover`).

`LuaReference` is what Lua means, by recursion on the syntax: variables are cells,
blocks end with a signal. It knows nothing of registers. `LuaProgram` compiles a
chunk, runs it step by step and holds the log of host calls, the returned values
and the error against the reference. `Modulus` stands for 2^256;
`MaxIndexRk`, `FieldsPerFlush` and `MaxArgC` are limits of the instruction format
made small enough to be passed.

### `TolTokens`, `TolParser`, `TolDeclarations`, `TolStatements`, `TolFormatter`, `TolSource`

The parser of TOL is recursive descent, and what matters is how its functions
fail and recover. `TolTokens` defines a small notation (consume, expect, choose,
loop, call, try, make a node); `TolDeclarations` and `TolStatements` write every
function of `parser.go` in it, under its Go name; `TolParser` executes one
instruction of it per step on a token stream, with the pending documentation,
the diagnostics and the reasons why source was not kept. `TolFormatter` gives
the tokens `format.go` prints for a tree. `TolSource` parses a file and, when
it has no errors, formats it and parses the result.

### `TolAST`, `TolSema`, `TolEffects`, `TolChecks`, `TolLowering`, `TolHost`, `TolMeaning`, `TolContract`

The contract pipeline. `TolSema` and `TolEffects` are the checks of `sema.go` and
`effects.go` on a function body, each an operator that returns the diagnostic
codes it reports; `TolChecks` is `checkOneContract`. `TolLowering` is `lower.go`
(modifiers inlined, compound assignments expanded, initial values moved into the
constructor) and `tol_ir_direct_lowering.go` (statements, storage paths, checked
arithmetic, `try`, errors, internal calls, dispatch), and yields a Lua syntax tree.
`TolContract` is the life of a contract: `Lower`, `Compile` (with `LuaCompiler`),
`Deploy`, `Invoke`, `Transfer`. Each deployment and call is executed twice: the
lowered chunk by `TolHost` (the helpers the chunk carries or finds in the VM, on
top of `LuaReference`; the host's storage, events and rollback are external), and
the source by `TolMeaning`, a reference semantics in which nothing is inlined or
rewritten. That the compiled code does what the Lua chunk says is what
`LuaProgram` checks, so that the two runs compose.

The compiler and the reference in `LuaProgram`, and the stages of the pipeline in
`TolContract`, enter the actions as constant operators (`Compile`, `MeaningOf`,
`Checked`, `Lowered`, `Compiled`, `Ran`, `MeansCreated`, `MeansInvoked`). Each of
them is the definition its comment names, and the MC modules give them exactly
that value. They are constants only because TLC, when it collects statistics on a
step, unfolds every definition the step uses and stops at a constant; the
recursive definitions behind these are too large to unfold.

The notion of equality is observable: values, storage, events, kind of error.
Where the documents are silent `TolMeaning` follows the code: a `return` in a body
also ends the modifiers around it. All numbers are `u256`, with a small modulus.

## 3. The runs

| run | result | distinct states | shows |
|---|---|---|---|
| `callstack` | passes | 131,299 | two LStates with either stack over one pool: ownership and count of segments, the index in each frame, depth after `PCall`, refinement of `FrameStack` |
| `table` | passes | 25,699 | consistency of the parts and the iteration index; assignments and insertions do what they say; loops visit every key once; refinement of `AbstractTable`, operation by operation |
| `upvalues` | passes | 237,036 | `uvcache` is sorted and complete, no upvalue dangles, closures and functions agree, `hasErrorFunc` only within an `xpcall` |
| `upvalues_error` | violation | | a caught error closes the upvalues of functions below the `pcall` that go on running |
| `settlement` | passes | 920,940 | escrow, payouts, fairness of outcomes and receipts |
| `arith` | passes | 82,669 | wrapping, signed and checked operations are exact outside the cases named below |
| `arith_mul` | violation | | a carry of `lu256Mul` is added one word too low |
| `lua_program` | passes | 83,563 | about 2,200 chunks compiled and run: they mean what they say, frames are disjoint, the gas limit is final, every run ends |
| `lua_assign` | violation | | in `t[1], a = a, 5` the field gets 5 |
| `tol_source` | passes | 192,226 | files with every construct, whole and with any one token missing: parsing ends, losses are reported, operators bind as in the grammar, documentation is kept, formatting reads back |
| `tol_contract` | passes | 26,699 | about 4,500 contracts checked, lowered, compiled, deployed and called twice: accepted contracts compile, do what they mean, and keep their `view`, `pure`, `@effects`, `@gas` and immutable promises |
| `tol_sums` | violation | | `g() + p` is not checked for overflow |

Each violation contradicts a comment or a document of the repository, quoted in
`findings` of `PROJECT.json`.

### Reproductions

Further disagreements between the code and what its comments say have a
configuration; TLC reports the property violated. `CheckedArithLimits.cfg` names
three properties: `tlc -continue` reports all of them.

| configuration | module | property | shows |
|---|---|---|---|
| `CallFrameStackUnwind.cfg` | `MCCallFrameStack` | `PCallRestoresDepth` | a `PCall` at a segment boundary whose callee gets no frame drops its callers' frames (`state.go:298`) |
| `LuaTableNested.cfg` | `LuaTable` | `LoopNeverFails` | the end of an inner traversal drops the erased key the outer one stands on (`table.go:353`) |
| `CheckedArithLimits.cfg` | `CheckedArith` | `DivModExact` | a capped digit estimate is refined below the right digit (`uint256.go:398`) |
| | `CheckedArith` | `SarExact` | the arithmetic shift of `i256` shifts in zeros (`uint256.go:579`) |
| | `CheckedArith` | `CheckedMulReverts` | -1 times the least number does not revert (`cryptolib.go:792`) |
| `TolSourceAttributes.cfg` | `MCTolSource` | `AttributesKept` | of two attributes before a function the first is lost; the comment at `parser.go:5766` says "binding survives attribute tokens too" |
| `TolContractView.cfg` | `MCTolContract` | `ReadOnlyIsReadOnly` | a `view` function may `delete` a slot; `effects.go:28` says "view: no writes" |
| `TolContractLocals.cfg` | `MCTolContract` | `AcceptedIsCompiled` | `continue` before a local declaration is accepted by every check and refused by the compiler |

### Properties worth explaining

- `SegmentsOwned`, `SegmentsExact`: a segment is in one slot of one stack, or once
  in the pool; an open stack has exactly the slots up to `segIdx` filled.
- `ImplementsFrameStack`: both implementations, and every switch between them,
  are steps of the abstract stack or leave it alone.
- `OneHome`, `RawSetChangesOneKey`, `InsertShifts`: what moves between the parts of
  a table, and that reading notices nothing of it.
- `ImplementsTable`: the table as a function from keys to values, with the operation of
  the same name for every operation of the code.
- `LoopVisitsOnce`, `LoopNeverFails`: traversal while keys are erased and assigned.
- `ClosureSeesVariable`: registers and upvalues against the two history variables.
- `EscrowCoversTasks`, `PaysInFull`: the balance at every moment, and the total
  paid for every task that ended, with percentages and milestones that do not
  divide evenly.
- `OutcomeIsFair`: terminal is final, and work once submitted is paid back to the
  poster only by the resolver.
- `DividesExactly`, `ChecksExactly`: state precisely where the code is right, next
  to `DivModExact` and `CheckedMulReverts`, which say what it promises.
- `MeansWhatItSays`: the whole of compiler and VM against a semantics without
  registers; a chunk that ran out of gas did a first part of what it means.
- `FramesDisjoint`: the registers of the named locals in scope, from the debug
  information the compiler emits, against where the next frame is pushed.
- `GasIsFinal`, `Ends`: the gas error can be caught, and nothing changes afterwards. The
  programs do not make `pcall` a metamethod (section 5).
- `LossReported`: ghost `lost` collects the reasons for which source was read and not
  kept: a function that failed, the recovery, an empty statement, or a function that
  succeeds and ignores what it read. The last are the reasons in `Ignored`, which are
  never reported (section 5); every other loss is, except that of an empty statement.
  Each exception is met by a text of the run.
- `RoundTrip`: `Lossy` lists the nodes that the formatter prints otherwise than the
  parser builds them; all others read back as they were.
- `LoweredMeansSource`, `AcceptedIsCompiled`: analysis, lowering and compiler together.
- `EffectsAreDeclared`, `GasIsBounded`: what a call did, by the host's account,
  against the annotation, for every argument (within its `@bounds`). These two,
  `ReadOnlyIsReadOnly` and `ImmutablesStay` are true of the programs of the run, which
  avoid what the analyses do not look at (section 5 and the comment of each property).

### Bounds

- Call stack: segments of 2 frames; one LState with two segments (four frames), one
  with a single segment; two nested `PCall`s; three segments in the heap. The
  first stack crosses a segment boundary in both directions, at every depth of
  a `PCall`; the second competes for the pool and overflows. Segments and
  functions are symmetric. `CHECK_DEADLOCK FALSE`, because in `Spec` a `PCall` made
  on a segmented stack without any room has no continuation: its callee cannot
  get a frame, and the error that follows is in `FullSpec` only.
- Tables: integer keys 1 to 4, one string key, `MaxArrayHoleGrowth` 1: an array of
  two can be outgrown by one hole and by more, so that keys enter both parts and
  migrate (the code allows 64 holes). `MaxArrayIndex` is beyond the keys, as the
  code's 67,108,864 is beyond those of any table that gas can pay for.
- Upvalues: frames of two registers, three nested frames, two upvalues, two
  values: a closure of the outermost function can outlive two callees, and
  two upvalues can be created against the order of their registers.
- Settlement: two tasks, a reward of 3 with 2 milestones or a share of 50 percent
  (both leave a remainder), a percentage that is refused, a deadline that passes,
  one receipt both tasks may name. The poster and worker agents are symmetric.
- Arithmetic: words of 2 bits, so 256 numbers and all their pairs, and the widths
  2, 3, 4, 7 and 8 (one word and less, half, nearly all, all). Carries between
  all words, the capped estimate and both corrections of the division happen.
  With words of 3 bits, digits 0, 1, 4 and 7 and the widths 7 and 12 the same
  properties hold. The machine ends after loading, hence `CHECK_DEADLOCK FALSE`.

- Lua programs: chunks for every statement, operator and instruction; all 576
  assignments of six kinds of values to two of four kinds of targets, but those of
  `lua_assign`; every `and`/`or` of three operands in each position. Numbers below
  64, four constants as operands, two list items per `SETLIST`: the general forms
  of the instructions are used as well as the short ones. Gas limits of 17 and 40
  stop a chunk in the middle of nearly anything. No `CHECK_DEADLOCK FALSE`: a
  machine that is stuck would be reported.
- TOL source: texts that between them use every declaration, statement, expression
  and test block; each also without any one of its tokens; expressions with two
  operators, one of each strength. Identifiers, numbers and strings have a few
  members each.
- TOL contracts: see `MCTolContract`: effects at nine places of a function, storage
  paths of every shape up to two levels, all lists of up to three of four modifiers,
  up to two catch clauses for every way a callee may end, immutables against every
  entry point, names that collide. Numbers below 16 and a few arguments, so that
  checked arithmetic fails on some. Two calls after the deployment, so that one
  meets what the other left. `CHECK_DEADLOCK FALSE`: files and lives of contracts end.

### Fairness

The parser (`TolSource`) and the interpreter (`LuaProgram`) are single calls of a
sequential program: while a step is possible the Go code takes it. Hence weak
fairness of their next-state relations, and the liveness properties `Terminates`
and `Ends`. In `LuaProgram` it is spelled out (`Fair`), because the step of the
machine is enabled exactly while it is not stopped. `Ends` needs no more: a chunk
that does not end by itself is ended by the gas limit.

Nothing else is fair. The parties of a task are free not to act, and no function of
the contract makes them: a task that was submitted or rejected can keep its
reward in escrow for ever; it is listed as a hazard.

## 4. The proofs

Every theorem is about all values of the constants; the runs of section 3 check the
same properties, and the inductive invariants below were checked by TLC on the
instances of those runs before they were proved. The assumptions are the named
`ASSUME`s of the modules: sizes are natural numbers (positive where the code
allocates), `nil`, `NoFn`, `NoAgent` and the like are no ordinary values, and a string
key of a table is no number.

| module | theorem | states |
|---|---|---|
| `CallFrameStackProofs` | `FullTypeCorrect`, `FullSegmentsOwned`, `FullSegmentsExact` | `FullSpec` implies `TypeOK`, `SegmentsOwned`, `SegmentsExact` |
| `CallFrameStackRefinement` | `FramesKnowDepth`, `PCallRestores` | `Spec` implies `FrameKnowsDepth`, `PCallRestoresDepth` |
| `CallFrameStackRefinement` | `FramesSurviveErrors`, `PCallNearlyRestores` | `FullSpec` implies `FrameKnowsDepth` and `PCallCutsAtMostASegment` |
| `CallFrameStackRefinement` | `StacksAreLIFO` | `Spec` implies `ImplementsFrameStack` |
| `LuaTableProofs` | `KeysStayIndexed`, `AssignmentIsLocal` | `Spec` implies `KeysIndexed`, `RawSetChangesOneKey` |
| `LuaTableProofs` | `OneHomeEach`, `InsertionShifts` | the same for `OneHome`, `InsertShifts`, below the array limit |
| `LuaTableProofs` | `TraversalVisitsOnce`, `TraversalNeverFails` | the same for `LoopVisitsOnce`, `LoopNeverFails`, for one traversal at a time |
| `LuaTableProofs` | `TableIsAFunction` | the same for `ImplementsTable`, below the array limit and for one traversal at a time |
| `UpvaluesProofs` | `UvcacheStaysSorted`, `NothingDangles`, `ClosuresSeeVariables`, `ErrorFuncNeedsXPCall` | `Spec` implies `UvcacheSorted`, `NoDangling`, `ClosureSeesVariable`, `ErrorFuncInProgress` |
| `UpvaluesProofs` | `UvcacheSurvivesErrors`, `ErrorFuncSurvivesErrors` | `FullSpec` implies `UvcacheSorted`, `ErrorFuncInProgress` |
| `TaskSettlementProofs` | `EscrowIsExact`, `TasksPayInFull`, `ReceiptsAgree`, `OutcomesAreFair`, `ReceiptsAreFinal` | `Spec` implies `EscrowCoversTasks`, `PaysInFull`, `ReceiptAgrees`, `OutcomeIsFair`, `ReceiptFinal` |
| `CheckedArithProofs` | `WrappingIsExact`, `CheckingIsExact` | `Spec` implies `WrapsExactly`, `ChecksExactly` |
| `LongDivisionProofs` | `DividingIsExact`, `SigningIsExact` | `Spec` implies `DividesExactly`, `SignedExactly` |
| `LongDivisionProofs` | `SignedDivisionIsExact` | `Spec` implies `SignedDivides`, the signed division without a hypothesis on its unsigned part |

All five components also have their type invariant (`TypesHold`, `TypeCorrect`,
`FullTypeCorrect`), which no run repeats.
`InductionLemmas` is the eighth module with proofs; it has lemmas only.

### Call stack

`FullSpec` implies `SegmentsOwned` and `SegmentsExact`, which depend on each other:
giving back a segment keeps ownership only if the slot holds one (exactness), and
taking one from the pool keeps it only if the pool holds each segment once. So the
inductive invariant `Inv` joins types, both properties, and two facts they need: a
closed or unused stack is empty (`UnusedEmpty`), and the depth a `PCall` will pass to
`SetSp` is within the array (`MarksFit`). Two lemmas, `PutOwned` and `GetOwned`, say
what the pool operations do to ownership; each operation then has its own lemma. The
argument does not need that `SetSp` computes the right depth, which is why it
holds for `FullSpec`: even where frames are dropped, no segment leaks.

For the depth, `DepthInv` adds that the depths of the `PCall`s in progress nest and
are not above the current depth, that all but the innermost have called their
function, and that a stack which is back at the depth of a `PCall` whose callee had a
frame is not in a full segment (the callee's frame made it move on), so that
`SetSp` meets no ambiguous boundary. Ownership is what keeps a write to one
stack from reaching the frames of another (`KeptIn`).

The refinement needs both. Each operation has an effect lemma (what it does to `Sp`
and `At` of its own stack, and that every other stack is `Kept`), from which the
step of `FrameStack` follows under the mapping `Frames`, `Capacity`. `PushHasRoom` is
the one new fact: a push that succeeds finds the stack below its capacity,
although `IsFull` of the segmented stack is never true.

Under `FullSpec` the depth after a `PCall` may be wrong (`CallFrameStackUnwind.cfg`), and
the two remaining theorems say how wrong. `PCallCutsAtMostASegment`: `SetSp` misses only
on a segmented stack, only when the callee got no frame and the depth `PCall` saw is
the first of a segment, and then by exactly one segment. `FramesSurviveErrors`: for all
that, no stack ever shows a frame that nobody pushed or that has the wrong index. This
is not obvious: after the cut the stack is below depths that enclosing `PCall`s remember
and will return to. `DepthInv` is false there, so `ErrorInv` replaces it: the depths of the
`PCall`s nest up to a segment only (`MarksHeld`), the segment of each that called its
function is still attached, and every depth below `Sp` *or below a remembered depth* still
holds a frame with its own index (`ReachedKnow`). The effect lemmas are redone for all
attached places instead of those below `Sp` (`PutCells`, `PushCells`, `WriteCell`).
TLC checked this invariant on 6.5 million states with both stacks, two nested `PCall`s
and segments of two frames.

### Tables

`Inv` says that the table is well typed, that `keys` and `k2i` are inverse of each other
and cover the hash part (`Indexed`), and that the array part is within the bound of
the keys. The work is in the operators: erasing and setting a hash key, growing the
array over hash keys, inserting, removing, and the compaction that takes the dead
keys out of `keys` and renumbers the rest. The compaction is a recursive function
(`Without`), about which `Reindexing` says that it keeps the order of the keys that
stay. Case lemmas (`RawSetCases`, `AppendCases`, ...) say in which ways an operation can
go; the theorems about reading (`RawSetGet`, `InsertGet`) are then about each way.

`LoopInv` is the invariant of a traversal: the keys seen are those the cursor has come
past, a key owed is live and is seen once the cursor has come past it, and the cursor is in
the array part or is still in the index. It is proved under two conditions.

- `Below`: the integer keys are below `MaxArrayIndex`. It is needed:
  `table.insert` in place does not look at `MaxArrayIndex`, so that an array can grow
  past it, and TLC finds all four properties violated with `MaxArrayIndex = 3` and
  keys up to 4. The code's limit is 67,108,864 elements. `KeysIndexed` and
  `RawSetChangesOneKey` hold, and are proved, without it.
- `Alone`: there is one traversal. With two, the end of one drops the erased key the
  other stands on (`LuaTableNested.cfg`).

The refinement of `AbstractTable` is the sum of these. An assignment to a key with a value is
`Replace` or, when the traversals are given up, `Assign` (`AssignIsAbstract`). For the others
`LengthIsAbstract` says that what `TableLen` returns is a length of the abstract table, and
`AppendGet`, `InsertGet` and `RemoveGet` what every key reads as afterwards; from these come
`AppendIsAbstract`, `InsertIsAbstract` and `RemoveIsAbstract`. A table that is not plain needs the
weaker fact that the string keys are left alone (`StringsStay`, `Garbles`). A round of a loop is
`Visit` or `End` (`RoundIsAbstract`): `LoopInv` gives that the key was not seen before, and that
at the end every key owed was. `OperationsRefine` collects what is proved operation by operation,
and needs `Inv` only; `StepsRefine` is the step of the whole specification.

### Upvalues

`Inv` adds to the properties: how the frames lie in the registers (`FramesOK`), that a
variable in scope has not been closed (`LiveIsOpen`), that an upvalue which an error left
open belongs to a frame between an `xpcall` and its running handler
(`DeadUnderHandler`), that such a variable has its last value (`DeadKeepsValue`), and that a
register holds what its variable was last given (`RegistersFollow`). Sortedness of
`uvcache` is what makes the early exit of `findUpvalue` and `closeUpvalues` right, and
completeness of the list is what keeps anything from dangling, so the parts are
proved together. The theorems are about `Spec`, whose errors are those at which closing
is harmless; for all errors `ClosureSeesVariable` is false (run `upvalues_error`), and so is
`NoDangling`: after a Go panic the upvalues of the frames that failed stay open.

What survives any error is `FullInv`: types, sortedness and completeness of `uvcache`,
the order of the frames, and `ErrorFuncInProgress`. Its proof does not follow values at all.
Closing from any register on, or not closing, keeps the list (`FullClose`); a step that
leaves a protected call, however it ends, finds the frame below it intact (`FullLeave`); and
`hasErrorFunc` is cleared wherever the frame of an `xpcall` may go (`XPCallStays`). So after the
errors of `upvalues_error` closures may read a wrong value, but `findUpvalue` and
`closeUpvalues` still work on a proper list.

### Settlement

The escrow is the sum of what the tasks owe. `Sum` is a fold over a finite set, so
`SumIs` first shows that its recursion has a solution, and `SumChange` what changing one
summand does. `TaskStep` is what all calls about a task have in common: one task
changes, it owes less by what is paid, a task that ends has paid everything, and its
receipt is written as the outcome says. One lemma shows that such a step keeps
the invariant, one that it is fair, and one lemma per function of the contract that it is
such a step; the arithmetic (percentages, milestones that leave a remainder) is in
`EndStep`, `ResolveStep` and the milestone lemma.

### Arithmetic

The theorems are about every word size `W`, the 64 of the code among them, and every
set of widths. The invariant of the specification is only that the operands are numbers
of the width (`Inv`); the work is in what the operators compute.

The provers know nothing of powers, so the laws of `2 ^ k` (`PowSucc`, `PowPlus`) come
from the number of subsets of a finite set. Division and remainder are reduced to one
fact, that quotient and remainder are unique (`DivModUnique`), from which come the laws of
repeated division (`TwoDivisions`). An operation on words is then one of two kinds.

- Carries run upwards in addition, subtraction, multiplication and the shift to the
  left: word `i` of the result, plus `B` times what it hands to word `i + 1`, is word `i`
  of the operands plus what it is handed. `ChainSum` adds four such equations up to one
  between the values, and `ChainWraps` reduces it modulo `2 ^ Bits`.
- Comparison, the shift to the right, masks and single bits look at the words from the
  highest down: `High(v, i)` is the number from word `i` on, which `HighAll` shows to be
  `Val(v) \div Base(i)`.

`WordsOfVal` and `ValOfWords` say that `U` and `Val` are inverse of each other, which turns
an equation between values into one between results.

`LongDivisionProofs` is the division and what rests on it. Its argument, from the
inside:

- `MulSub` and `AddBack` are loops; what they keep (`MulSubKeeps`, `AddBackKeeps`) is an
  equation between the number that the words seen so far form (`Part`) and the borrow or
  carry. So they are a subtraction and an addition of numbers (`MulSubIs`, `AddBackIs`).
- `Refine` never goes below the digit and stops at most one above it (`DigitBounds`). This
  needs that the divisor is normalized, its first bit set, and that the leading word of the
  partial remainder is smaller than that of the divisor. The second is the hypothesis
  `Estimable` of `DividesExactly`. Where it fails the code caps the estimate and refines it with
  a remainder that does not belong to it, and the quotient may be wrong
  (`CheckedArithLimits.cfg`): the hypothesis is the boundary of the code, not of the proof.
- A step finds the digit and leaves the remainder, with or without the add-back (`StepIs`):
  the borrow of the subtraction is 1 exactly when the estimate was one too large.
- The loop keeps `LongInv`, quotient and remainder of the words seen so far
  (`LongDivides`), and shifting dividend and divisor alike only shifts the remainder (`KnuthIs`).
- The division by one word is the division of the school, a word at a time (`DivModWordIs`).

For the signed operations `OrWord` is summed up bit by bit (`OrIs`); an `Or` of numbers without a
common bit is their sum, which gives the sign extension (`ExtendIs`) and the arithmetic shift
(`SarIs`). `NegIs` and `AbsIs` relate a word pattern to the integer it stands for, and
`SignedDivision` and `SignedRemainder` put the sign back on the quotient of the magnitudes;
`DividingIsExact` says when that quotient is right, and `SignedDivisionIsExact` combines the two. `TypesHold` does not need it: the remainder and
the quotient of a capped estimate are four words too, and the mask cuts them to the width.

### Induction

The induction theorems of the library take an operator and cannot be used here.
`InductionLemmas` states induction over a set instead (`Induction`,
`IntervalInduction`, `SubsetInduction`, least and largest elements), derived from
well-foundedness of the naturals; a proof names the set of numbers for which its
claim holds. What a recursive function computes is proved in this way for `Without`,
`Sum`, `OrWord` and the loops of the long division (`Recursion`).

### Only model-checked

- Liveness (`Terminates`, `Ends`): it needs fairness and
  `ENABLED`.
- Everything about programs, texts and contracts (`LuaProgram`, `TolSource`,
  `TolContract`): the compiler, the parser, the checks and the reference semantics
  are RECURSIVE operators over syntax trees, in whose modules the prover cannot work.
- Some of these properties are true of the programs of their runs and not of all:
  `GasIsFinal`, `MeansWhatItSays`, `LoweredMeansSource`, `ReadOnlyIsReadOnly`,
  `EffectsAreDeclared`, `GasIsBounded` and `ImmutablesStay` (section 5).
- The cases that the theorems leave out as the properties do: two traversals at a time, tables
  at the array limit, capped estimates. The reproductions of section 3 show the failures.

## 5. Where the code does not do what it promises

The passing runs leave out the following, each met while modelling. The programs
of the MC modules, or the condition of a property, avoid them; what is left out is
as narrow as we could make it. Cases with a run or a configuration are in
section 3.

Parser and formatter. The recovery loop that does not end (`Trapped`). An empty
statement `;` drops the statement after it. A second `setup` or `teardown` replaces
the first. The body of an interface function, what `returns` of a `try` binds and a
`catch` after its first name, the modifiers of `fallback` and `receive`, unknown or
misplaced attributes in a test block, attributes without their arguments, arguments of
attributes that take none, and all but the last visibility of a slot are read and
dropped without a diagnostic. Everything up to `{` is accepted as a modifier. `x[1] = e;` is taken for
a declaration (`parser.go:3475`). `x = c ? a : b` is read as `(x = c) ? a : b`, and all
comparisons have one strength, unlike `docs/grammar/TolangParser.g4`. Nodes that are
not printed back are listed in `Lossy`; `README.md:485` calls the formatter
idempotent.

Compiler and VM. A call assigned to the last parameter may use its register too
early (`compile.go:1856`). `goto` closes all upvalues of the function
(`compile.go:1256`), `break` only those of the loop's own block (`1146`). A table
constructor with an exact multiple of `FieldsPerFlush` items before a call or `...`,
`{1, x = f()}`, and more than 511 batches (`1527`-`1546`). A generic `for` with two
explicit expressions leaves its control variable unset. `d = f() and 5` leaves `d`
unchanged, `d = (a or nil) and d` reads `d` after overwriting it (`1834`). `<close>`
variables of a function body are not closed on return or error. A chunk that ends
with `return pcall(f)`, where `f` runs out of gas, ends normally, with more gas
used than its limit. When `pcall` itself is a metamethod (`__concat = pcall`) the gas error is
caught within the instruction, which goes on: the next operand's handler may be a host
function, which is called although there is no gas (`vm.go:2361`).

Analysis. `view` does not see `delete`, `push`, the last part of a `for`, internal
calls, operands of a conditional, catch clauses and modifiers. `@effects` does not
see events, arguments of events, reads of keys, of compound assignments and in
parentheses, `delete`, `try`, and keys whose parameter is assigned or hidden. `@gas`
does not count conditions, reads of compound assignments, arguments of calls and
the last part of a `for`; `<=` with a literal counts one iteration too few, and a
loop is bounded by the `@bounds` of its own variable. Immutables can be changed by
`delete`, in a catch clause and in a modifier, and count as assigned when one branch
does. A call of an overloaded name with a wrong number of arguments is accepted.

Lowering. `continue` before a local; `(x = 1);` is accepted and not supported;
compound assignments in catch clauses are not expanded. `m[f()] += 1` calls `f` twice.
The condition of a `do` loop and the last part of a `for` see the locals of the
body. Named returns are not declared. The constructor's chunk has no functions, so
that a constructor that calls one fails (`tol_ir_direct_lowering.go:130`). A contract
with only `receive` compiles to nothing. Several return values keep only one. Sums
of untyped locals are not checked. The overflow error is a plain string, which
`catch Panic` does not catch. The locals of a modifier applied twice meet in one
block, and hide storage of the body. A `try` of an internal call does not undo its
writes. Storage arrays have no bounds check.

## 6. Not modelled

- VM: `table.sort`, `concat` and `unpack`, the gas charged by library functions,
  bitwise instructions, `lu256Pow`, parsing and printing of numbers and their
  conversion to `int` (`uint256.go:167` has the wrong sign below -2^63), `xpcall` and
  `<close>` across errors in whole programs. Coroutines do not exist in this VM.
- Lexers, the generated Lua parser, the text of documentation and annotations.
- Types, literals, enums, structs, libraries, inheritance, interfaces, uninitialized
  reads, agent and confidential-value checks; casts, memory arrays, built-ins, ABI
  decoding and the preambles of agent annotations in the lowering.
- Bytecode codec, `.toc`, `.abi` and `.tor` files, signatures: functions on bytes. The
  verifier: it compares the artifacts of the expected package only
  (`verify/verifier.go:139`).
- The other contracts of openlib, the test runner and the command line.

## 7. Plan

Proofs: every safety property of the call stack, the tables, the upvalues, the
settlement and the arithmetic that a run checks has its theorem; new ones come with
the models below.

Models: the contracts that delegate authority or hold value (account, session,
sponsor, recovery, recurring payment), which share an escrow ledger as abstract
specification; inheritance and interface conformance; packages and verifier.
