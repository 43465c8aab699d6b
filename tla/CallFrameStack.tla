--------------------------- MODULE CallFrameStack ---------------------------
(***************************************************************************)
(* The two implementations of the interface callFrameStack of state.go,    *)
(* as the LStates of one process use them.  An LState created with         *)
(* MinimizeStackMemory has a stack of segments of FramesPerSegment frames, *)
(* taken from and given back to segmentPool, which all LStates share; the  *)
(* others have one array.  Segments are heap objects (SegId); what a       *)
(* recycled one holds is unspecified: frames of no function, see           *)
(* FrameKnowsDepth, which says that nobody reads them.                     *)
(***************************************************************************)
EXTENDS Naturals, Sequences

CONSTANTS
  State,             \* the LStates
  Fn,                \* the functions frames are pushed for
  Code,              \* Code[s]: the functions the program of s calls
  SegId,             \* heap identities of callFrameStackSegment objects
  FramesPerSegment,
  CallStackSize,     \* CallStackSize[s]: Options.CallStackSize of s
  MaxPCalls,         \* bound: nested protected calls per LState
  nil, NoFn          \* the nil segment pointer; Fn of a zero callFrame

ASSUME SizeAssumption ==
  /\ FramesPerSegment \in Nat \ {0}
  /\ CallStackSize \in [State -> Nat \ {0}]
  /\ MaxPCalls \in Nat

ASSUME NameAssumption ==
  /\ Code \in [State -> SUBSET Fn]
  /\ nil \notin SegId
  /\ NoFn \notin Fn

VARIABLES
  minimize,          \* the LStates created with Options.MinimizeStackMemory
  array, sp,         \* fixedCallFrameStack
  segments, segIdx, segSp, \* autoGrowingCallFrameStack
  heap,              \* heap[id]: the frames of segment id
  pool,              \* segmentPool: how often each segment is in it
  marks, raising,    \* the PCalls in progress; an error is propagating
  closed             \* ls.stack = nil

autoVars  == <<segments, segIdx, segSp, heap, pool>>
fixedVars == <<array, sp>>
vars      == <<minimize, autoVars, fixedVars, marks, raising, closed>>

NSegments(s) == (CallStackSize[s] + (FramesPerSegment - 1)) \div FramesPerSegment
SegSlots  == 0 .. FramesPerSegment - 1
Frame     == [fn : Fn \cup {NoFn}, Idx : Nat]
ZeroFrame == [fn |-> NoFn, Idx |-> 0]
Unspecified == [i \in SegSlots |-> ZeroFrame]
ZeroArray(s) == [i \in 0 .. CallStackSize[s] - 1 |-> ZeroFrame]
Mark      == [sp : Nat, called : BOOLEAN]

Capacity(s) == IF s \in minimize THEN NSegments(s) * FramesPerSegment ELSE CallStackSize[s]

AutoSp(s) == segSp[s] + segIdx[s] * FramesPerSegment
Sp(s)     == IF s \in minimize THEN AutoSp(s) ELSE sp[s]

At(s, i) ==
  IF s \in minimize
  THEN heap[segments[s][i \div FramesPerSegment]][i % FramesPerSegment]
  ELSE array[s][i]

\* A definition named ...Without..., ...Keeping... is a wrong form of the
\* one it precedes, used to see that the properties notice it.

IsFull(s) ==
  IF s \in minimize
  THEN segIdx[s] = NSegments(s) /\ segSp[s] >= FramesPerSegment
  ELSE sp[s] = CallStackSize[s]

\* Push of an autoGrowingCallFrameStack panics ("lua callstack overflow").
Overflows(s) == s \in minimize /\ segSp[s] >= FramesPerSegment
                                /\ ~(segIdx[s] < NSegments(s) - 1)

Attached(id) == \E s \in State : \E i \in 0 .. NSegments(s) - 1 : segments[s][i] = id

\* segmentPool.Get returned id: a pooled segment, or nil and id was allocated.
Gets(id) == pool[id] > 0 \/ ~Attached(id)
PoolAfterGet(id) == IF pool[id] > 0 THEN [pool EXCEPT ![id] = @ - 1] ELSE pool

\* The segments of s in slots S are given back to segmentPool.  What their
\* frames hold from then on is unspecified (h is the heap before).
Put(s, S) == {segments[s][i] : i \in S}
PoolAfterPut(s, S) == [id \in SegId |-> IF id \in Put(s, S) THEN pool[id] + 1 ELSE pool[id]]
HeapAfterPut(h, s, S) == [id \in SegId |-> IF id \in Put(s, S) THEN Unspecified ELSE h[id]]
Detach(s, S) ==
  [segments EXCEPT ![s] = [i \in 0 .. NSegments(s) - 1 |-> IF i \in S THEN nil ELSE @[i]]]
-----------------------------------------------------------------------------
AutoPush(s, f) ==
  \/ /\ segSp[s] < FramesPerSegment
     /\ heap' = [heap EXCEPT ![segments[s][segIdx[s]]][segSp[s]] =
                               [fn |-> f, Idx |-> AutoSp(s)]]
     /\ segSp' = [segSp EXCEPT ![s] = @ + 1]
     /\ UNCHANGED <<segments, segIdx, pool>>
  \/ /\ segSp[s] >= FramesPerSegment
     /\ segIdx[s] < NSegments(s) - 1
     /\ \E id \in SegId :
          /\ Gets(id)
          /\ heap' = [heap EXCEPT ![id][0] =
                        [fn |-> f, Idx |-> FramesPerSegment * (segIdx[s] + 1)]]
          /\ pool' = PoolAfterGet(id)
          /\ segments' = [segments EXCEPT ![s][segIdx[s] + 1] = id]
     /\ segIdx' = [segIdx EXCEPT ![s] = @ + 1]
     /\ segSp' = [segSp EXCEPT ![s] = 1]

FixedPush(s, f) ==
  /\ array' = [array EXCEPT ![s][sp[s]] = [fn |-> f, Idx |-> sp[s]]]
  /\ sp' = [sp EXCEPT ![s] = @ + 1]

AutoPopWithoutDetach(s, h) ==
  IF segSp[s] = 0
  THEN /\ segIdx[s] # 0
       /\ heap' = HeapAfterPut(h, s, {segIdx[s]})
       /\ pool' = PoolAfterPut(s, {segIdx[s]})
       /\ segIdx' = [segIdx EXCEPT ![s] = @ - 1]
       /\ segSp' = [segSp EXCEPT ![s] = FramesPerSegment - 1]
       /\ UNCHANGED segments
  ELSE /\ heap' = h
       /\ segSp' = [segSp EXCEPT ![s] = @ - 1]
       /\ UNCHANGED <<segments, segIdx, pool>>

\* Pop; the heap is passed because RemoveCallerFrame writes a frame first.
AutoPop(s, h) ==
  IF segSp[s] = 0
  THEN /\ segIdx[s] # 0
       /\ heap' = HeapAfterPut(h, s, {segIdx[s]})
       /\ pool' = PoolAfterPut(s, {segIdx[s]})
       /\ segments' = Detach(s, {segIdx[s]})
       /\ segIdx' = [segIdx EXCEPT ![s] = @ - 1]
       /\ segSp' = [segSp EXCEPT ![s] = FramesPerSegment - 1]
  ELSE /\ heap' = h
       /\ segSp' = [segSp EXCEPT ![s] = @ - 1]
       /\ UNCHANGED <<segments, segIdx, pool>>

FixedPop(s) == sp' = [sp EXCEPT ![s] = @ - 1]

AutoSetSpWithoutFree(s, n) ==
  LET desired == n \div FramesPerSegment
  IN /\ segIdx' = [segIdx EXCEPT ![s] = IF @ <= desired THEN @ ELSE desired]
     /\ segSp' = [segSp EXCEPT ![s] = n % FramesPerSegment]
     /\ UNCHANGED <<pool, segments, heap>>

AutoSetSpKeepingSegment(s, n) ==
  /\ segSp' = [segSp EXCEPT ![s] = n % FramesPerSegment]
  /\ UNCHANGED <<segIdx, pool, segments, heap>>

AutoSetSp(s, n) ==
  LET desired == n \div FramesPerSegment
      freed   == {i \in 0 .. NSegments(s) - 1 : desired < i /\ i <= segIdx[s]}
  IN /\ pool' = PoolAfterPut(s, freed)
     /\ segments' = Detach(s, freed)
     /\ segIdx' = [segIdx EXCEPT ![s] = IF @ <= desired THEN @ ELSE desired]
     /\ segSp' = [segSp EXCEPT ![s] = n % FramesPerSegment]
     /\ heap' = HeapAfterPut(heap, s, freed)

FixedSetSpWithoutCut(s, n) == UNCHANGED <<array, sp>>

FixedSetSp(s, n) == sp' = [sp EXCEPT ![s] = n] /\ UNCHANGED array

Push(s, f) ==
  \/ s \in minimize /\ AutoPush(s, f) /\ UNCHANGED fixedVars
  \/ s \notin minimize /\ FixedPush(s, f) /\ UNCHANGED autoVars

Pop(s) ==
  \/ s \in minimize /\ AutoPop(s, heap) /\ UNCHANGED fixedVars
  \/ s \notin minimize /\ FixedPop(s) /\ UNCHANGED <<array, autoVars>>

SetSp(s, n) ==
  \/ s \in minimize /\ AutoSetSp(s, n) /\ UNCHANGED fixedVars
  \/ s \notin minimize /\ FixedSetSp(s, n) /\ UNCHANGED autoVars
-----------------------------------------------------------------------------
\* How LState drives its stack.
Top(seq) == seq[Len(seq)]
Floor(s) == IF marks[s] = << >> THEN 0 ELSE Top(marks[s]).sp
Running(s) == ~closed[s] /\ ~raising[s]

\* The callee of the innermost PCall has had its frame pushed.
CalleeEntered(s) == marks[s] # << >> => Top(marks[s]).called

RaiseError(s) ==
  /\ raising' = [raising EXCEPT ![s] = TRUE]
  /\ UNCHANGED <<minimize, autoVars, fixedVars, marks, closed>>

\* newLState (state.go): one segment, or one zeroed array.
NewState(s) ==
  /\ closed[s]
  /\ closed' = [closed EXCEPT ![s] = FALSE]
  /\ UNCHANGED <<marks, raising>>
  /\ \/ /\ minimize' = minimize \cup {s}
        /\ \E id \in SegId :
             /\ Gets(id)
             /\ pool' = PoolAfterGet(id)
             /\ segments' = [segments EXCEPT ![s][0] = id]
        /\ UNCHANGED <<segIdx, segSp, heap, fixedVars>>
     \/ /\ minimize' = minimize \ {s}
        /\ UNCHANGED <<autoVars, fixedVars>>

pushCallFrame(s, f) ==
  /\ Running(s)
  /\ ~IsFull(s)
  /\ Push(s, f)
  /\ marks' = [marks EXCEPT ![s] =
                 [i \in 1..Len(@) |-> IF i = Len(@) THEN [@[i] EXCEPT !.called = TRUE]
                                                    ELSE @[i]]]
  /\ UNCHANGED <<minimize, raising, closed>>

\* A call that finds the stack full: RaiseError("stack overflow") or a panic in Push.
StackOverflow(s) ==
  /\ Running(s)
  /\ IsFull(s) \/ Overflows(s)
  /\ RaiseError(s)

\* Any other error of the running code.
Fail(s) == Running(s) /\ RaiseError(s)

Return(s) ==
  /\ Running(s)
  /\ Sp(s) > Floor(s)
  /\ Pop(s)
  /\ UNCHANGED <<minimize, marks, raising, closed>>

RemoveCallerFrameKeepingIdx(s) ==
  LET i == Sp(s) - 2
  IN /\ Running(s)
     /\ Sp(s) >= Floor(s) + 2
     /\ \/ /\ s \in minimize
           /\ AutoPop(s, [heap EXCEPT ![segments[s][i \div FramesPerSegment]]
                                       [i % FramesPerSegment] = At(s, i + 1)])
           /\ UNCHANGED fixedVars
        \/ /\ s \notin minimize
           /\ array' = [array EXCEPT ![s][i] = At(s, i + 1)]
           /\ FixedPop(s)
           /\ UNCHANGED autoVars
     /\ UNCHANGED <<minimize, marks, raising, closed>>

\* Copy the current frame over its parent's, then Pop.
RemoveCallerFrame(s) ==
  LET cur == At(s, Sp(s) - 1)
      frm == [cur EXCEPT !.Idx = Sp(s) - 2]
      i   == Sp(s) - 2
  IN /\ Running(s)
     /\ Sp(s) >= Floor(s) + 2
     /\ \/ /\ s \in minimize
           /\ AutoPop(s, [heap EXCEPT
                ![segments[s][i \div FramesPerSegment]][i % FramesPerSegment] = frm])
           /\ UNCHANGED fixedVars
        \/ /\ s \notin minimize
           /\ array' = [array EXCEPT ![s][i] = frm]
           /\ FixedPop(s)
           /\ UNCHANGED autoVars
     /\ UNCHANGED <<minimize, marks, raising, closed>>

EnterPCall(s) ==
  /\ Running(s)
  /\ CalleeEntered(s)
  /\ Len(marks[s]) < MaxPCalls
  /\ marks' = [marks EXCEPT ![s] = Append(@, [sp |-> Sp(s), called |-> FALSE])]
  /\ UNCHANGED <<minimize, autoVars, fixedVars, raising, closed>>

\* The deferred function of PCall: after an error or a normal return.
LeavePCall(s) ==
  /\ ~closed[s]
  /\ marks[s] # << >>
  /\ raising[s] \/ (Top(marks[s]).called /\ Sp(s) = Floor(s))
  /\ SetSp(s, Floor(s))
  /\ marks' = [marks EXCEPT ![s] = SubSeq(@, 1, Len(@) - 1)]
  /\ raising' = [raising EXCEPT ![s] = FALSE]
  /\ UNCHANGED <<minimize, closed>>

\* Close frees every segment up to the current one (FreeAll) and drops the stack.
Close(s) ==
  /\ ~closed[s]
  /\ marks[s] = << >>
  /\ closed' = [closed EXCEPT ![s] = TRUE]
  /\ raising' = [raising EXCEPT ![s] = FALSE]
  /\ \/ /\ s \in minimize
        /\ pool' = PoolAfterPut(s, 0 .. segIdx[s])
        /\ heap' = HeapAfterPut(heap, s, 0 .. segIdx[s])
        /\ segments' = Detach(s, 0 .. segIdx[s])
        /\ segIdx' = [segIdx EXCEPT ![s] = 0]
        /\ segSp' = [segSp EXCEPT ![s] = 0]
        /\ UNCHANGED fixedVars
     \/ /\ s \notin minimize
        /\ array' = [array EXCEPT ![s] = ZeroArray(s)]
        /\ sp' = [sp EXCEPT ![s] = 0]
        /\ UNCHANGED autoVars
  /\ UNCHANGED <<minimize, marks>>
-----------------------------------------------------------------------------
Init ==
  /\ array    = [s \in State |-> ZeroArray(s)]
  /\ minimize = {}
  /\ sp       = [s \in State |-> 0]
  /\ segments = [s \in State |-> [i \in 0 .. NSegments(s) - 1 |-> nil]]
  /\ segIdx   = [s \in State |-> 0]
  /\ segSp    = [s \in State |-> 0]
  /\ heap     = [id \in SegId |-> Unspecified]
  /\ pool     = [id \in SegId |-> 0]
  /\ marks    = [s \in State |-> << >>]
  /\ raising  = [s \in State |-> FALSE]
  /\ closed   = [s \in State |-> TRUE]

Step(s) ==
  \/ NewState(s)
  \/ \E f \in Code[s] : pushCallFrame(s, f)
  \/ Return(s)
  \/ RemoveCallerFrame(s)
  \/ EnterPCall(s)
  \/ LeavePCall(s)
  \/ Close(s)

\* Every use of the stack in which a PCall on a segmented stack only fails
\* once its callee has a frame.
Next == \E s \in State :
  \/ Step(s)
  \/ (s \in minimize => CalleeEntered(s)) /\ (StackOverflow(s) \/ Fail(s))

Spec == Init /\ [][Next]_vars

\* Every use of the stack: a call may also fail before it pushes a frame.
FullNext == \E s \in State : Step(s) \/ StackOverflow(s) \/ Fail(s)
FullSpec == Init /\ [][FullNext]_vars
-----------------------------------------------------------------------------
\* Types of the variables (the call stacks of state.go).
TypeOK ==
  /\ minimize \subseteq State
  /\ array = [s \in State |-> array[s]]
  /\ sp \in [State -> Nat]
  /\ segments = [s \in State |-> segments[s]]
  /\ segIdx \in [State -> Nat]
  /\ \A s \in State :
       /\ array[s] \in [0 .. CallStackSize[s] - 1 -> Frame]
       /\ sp[s] \in 0 .. CallStackSize[s]
       /\ segments[s] \in [0 .. NSegments(s) - 1 -> SegId \cup {nil}]
       /\ segIdx[s] \in 0 .. NSegments(s) - 1
  /\ segSp \in [State -> 0 .. FramesPerSegment]
  /\ heap \in [SegId -> [SegSlots -> Frame]]
  /\ pool \in [SegId -> Nat]
  /\ marks \in [State -> Seq(Mark)]
  /\ raising \in [State -> BOOLEAN]
  /\ closed \in [State -> BOOLEAN]

\* newCallFrameStackSegment / freeCallFrameStackSegment: a segment is in use in
\* one slot of one stack or is in segmentPool once, never both and never twice.
\* A segment given back twice would be handed to two LStates.
SegmentsOwned ==
  /\ \A s, t \in State : \A i \in 0 .. NSegments(s) - 1, j \in 0 .. NSegments(t) - 1 :
       segments[s][i] = segments[t][j] /\ segments[s][i] # nil => s = t /\ i = j
  /\ \A s \in State : \A i \in 0 .. NSegments(s) - 1 :
       segments[s][i] # nil => pool[segments[s][i]] = 0
  /\ \A id \in SegId : pool[id] <= 1

\* An open stack holds exactly the segments 0..segIdx and a closed one none, so
\* that Close (FreeAll) leaks no segment and no access meets a nil one.
SegmentsExact ==
  \A s \in State : \A i \in 0 .. NSegments(s) - 1 :
    segments[s][i] # nil <=> s \in minimize /\ ~closed[s] /\ i <= segIdx[s]

\* Push and RemoveCallerFrame: the frame at depth i is a pushed one and knows
\* its own depth, which findLocal uses to find the frame above (frame.Idx + 1).
FrameKnowsDepth ==
  \A s \in State : ~closed[s] =>
    \A i \in 0 .. Sp(s) - 1 : At(s, i).Idx = i /\ At(s, i).fn \in Fn

\* PCall: the deferred SetSp(sp) brings the stack back to the depth PCall saw
\* ("Sp retrieves the current stack depth, which is the number of frames
\* currently pushed on the stack").
PCallRestoresDepth ==
  [][\A s \in State : Len(marks'[s]) < Len(marks[s]) => Sp(s)' = Floor(s)]_vars

\* Both implementations are the bounded LIFO stack of module FrameStack.
Frames(s) == [i \in 1 .. Sp(s) |-> At(s, i - 1).fn]
Abstract == INSTANCE FrameStack WITH
  frames <- [s \in State |-> Frames(s)],
  capacity <- [s \in State |-> Capacity(s)]
ImplementsFrameStack == Abstract!Spec
=============================================================================
