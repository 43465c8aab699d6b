---------------------- MODULE CallFrameStackRefinement ----------------------
(***************************************************************************)
(* Proofs about the frames of the call stacks of state.go: what a frame    *)
(* knows of its depth, what a PCall restores, and that both                *)
(* implementations of callFrameStack are the bounded LIFO stack of module  *)
(* FrameStack; at the end, what is left of this when a call may fail       *)
(* before it pushes a frame.  They rest on the ownership invariant of      *)
(* CallFrameStackProofs, which keeps a write to one stack from reaching    *)
(* the frames of another.                                                  *)
(***************************************************************************)
EXTENDS CallFrameStackProofs

\* The frame of segmented stack t at depth i, in heap h.
AutoAt(h, t, i) == h[segments[t][i \div FramesPerSegment]][i % FramesPerSegment]

\* The step keeps the frames of h below depth n of s, and all of the other stacks.
KeptIn(h, s, n) ==
  \A t \in State : t \in minimize /\ ~closed[t] =>
    \A i \in Nat : i < (IF t = s THEN n ELSE AutoSp(t)) =>
      heap'[segments'[t][i \div FramesPerSegment]][i % FramesPerSegment] = AutoAt(h, t, i)

\* The slot a frame is in, and the segment in it.
LEMMA SlotOf ==
  ASSUME AutoInv, NEW t \in State, t \in minimize, ~closed[t], NEW i \in Nat, i < AutoSp(t)
  PROVE  /\ i \div FramesPerSegment \in 0 .. NSegments(t) - 1
         /\ i \div FramesPerSegment <= segIdx[t]
         /\ i % FramesPerSegment \in SegSlots
         /\ segments[t][i \div FramesPerSegment] \in SegId
         /\ i \div FramesPerSegment = segIdx[t] => i % FramesPerSegment < segSp[t]
<1> DEFINE j == i \div FramesPerSegment
<1>1. segIdx[t] \in Nat /\ segSp[t] \in 0 .. FramesPerSegment /\ segIdx[t] <= NSegments(t) - 1
  BY NSegmentsNat DEF AutoInv, AutoType
<1>2. j <= segIdx[t] /\ (j = segIdx[t] => i % FramesPerSegment < segSp[t])
  BY <1>1, DivBound DEF AutoSp
<1>3. j \in Nat /\ i % FramesPerSegment \in SegSlots
  BY DivMod DEF SegSlots
<1>4. j \in 0 .. NSegments(t) - 1
  BY <1>1, <1>2, <1>3, NSegmentsNat
<1> HIDE DEF j
<1>5. segments[t][j] \in SegId \cup {nil}
  BY <1>4 DEF AutoInv, AutoType, SegmentsType
<1>6. segments[t][j] # nil
  BY <1>2, <1>4 DEF AutoInv, SegmentsExact
<1> QED BY <1>2, <1>3, <1>4, <1>5, <1>6 DEF j

\* autoGrowingCallFrameStack.Push adds one frame, which knows its depth, and
\* keeps the frames below it.
LEMMA AutoPushKept ==
  ASSUME AutoInv, NEW s \in State, s \in minimize, ~closed[s], NEW f \in Fn, AutoPush(s, f)
  PROVE  /\ KeptIn(heap, s, AutoSp(s))
         /\ AutoSp(s)' = AutoSp(s) + 1
         /\ heap'[segments'[s][AutoSp(s) \div FramesPerSegment]][AutoSp(s) % FramesPerSegment]
              = [fn |-> f, Idx |-> AutoSp(s)]
<1> DEFINE F == FramesPerSegment
           frm == [fn |-> f, Idx |-> AutoSp(s)]
<1>0. /\ segIdx[s] \in Nat /\ segIdx[s] \in 0 .. NSegments(s) - 1 /\ segSp[s] \in 0 .. F
      /\ F \in Nat \ {0} /\ heap \in Heaps
  BY SizeAssumption DEF AutoInv, AutoType
<1>1. CASE segSp[s] < F
  <2>1. /\ heap' = [heap EXCEPT ![segments[s][segIdx[s]]][segSp[s]] = frm]
        /\ segSp' = [segSp EXCEPT ![s] = @ + 1]
        /\ UNCHANGED <<segments, segIdx, pool>>
    BY <1>0, <1>1 DEF AutoPush
  <2>2. segments[s][segIdx[s]] \in SegId /\ segSp[s] \in SegSlots
    <3>1. segments[s][segIdx[s]] # nil
      BY <1>0 DEF AutoInv, SegmentsExact
    <3>2. segments[s][segIdx[s]] \in SegId \cup {nil}
      BY <1>0 DEF AutoInv, AutoType, SegmentsType
    <3>3. segSp[s] \in SegSlots
      BY <1>0, <1>1 DEF SegSlots
    <3> QED BY <3>1, <3>2, <3>3
  <2> HIDE DEF frm
  <2>3. \A id \in SegId, r \in SegSlots :
          heap'[id][r] = IF id = segments[s][segIdx[s]] /\ r = segSp[s] THEN frm ELSE heap[id][r]
    BY <1>0, <2>1, <2>2 DEF Heaps
  <2>4. AutoSp(s) \div F = segIdx[s] /\ AutoSp(s) % F = segSp[s]
    <3>1. segSp[s] \in 0 .. F - 1
      BY <1>0, <1>1
    <3> QED BY <1>0, <3>1, AutoDiv DEF AutoSp
  <2>5. AutoSp(s)' = AutoSp(s) + 1
    <3>1. segSp'[s] = segSp[s] + 1 /\ segIdx'[s] = segIdx[s]
      BY <2>1 DEF AutoInv, AutoType
    <3> QED BY <1>0, <3>1 DEF AutoSp
  <2>6. KeptIn(heap, s, AutoSp(s))
    <3> SUFFICES ASSUME NEW t \in State, t \in minimize, ~closed[t], NEW i \in Nat, i < AutoSp(t)
                 PROVE heap'[segments'[t][i \div F]][i % F] = AutoAt(heap, t, i)
      BY DEF KeptIn
    <3>1. /\ i \div F \in 0 .. NSegments(t) - 1
          /\ i % F \in SegSlots
          /\ segments[t][i \div F] \in SegId
          /\ i \div F = segIdx[t] => i % F < segSp[t]
      BY SlotOf
    <3>2. ~(segments[t][i \div F] = segments[s][segIdx[s]] /\ i % F = segSp[s])
      <4> SUFFICES ASSUME segments[t][i \div F] = segments[s][segIdx[s]] PROVE i % F # segSp[s]
        OBVIOUS
      <4>1. t = s /\ i \div F = segIdx[s]
        BY <1>0, <3>1, NameAssumption DEF AutoInv, SegmentsOwned
      <4> QED BY <3>1, <4>1, <1>0 DEF SegSlots
    <3> QED BY <2>1, <2>3, <3>1, <3>2 DEF AutoAt
  <2>7. heap'[segments'[s][AutoSp(s) \div F]][AutoSp(s) % F] = frm
    BY <2>1, <2>2, <2>3, <2>4
  <2> QED BY <2>5, <2>6, <2>7 DEF frm
<1>2. CASE ~(segSp[s] < F)
  <2>1. /\ segIdx[s] < NSegments(s) - 1
        /\ segIdx' = [segIdx EXCEPT ![s] = @ + 1]
        /\ segSp' = [segSp EXCEPT ![s] = 1]
        /\ segSp[s] = F
    BY <1>0, <1>2 DEF AutoPush
  <2>2. PICK id \in SegId :
          /\ Gets(id)
          /\ heap' = [heap EXCEPT ![id][0] = [fn |-> f, Idx |-> F * (segIdx[s] + 1)]]
          /\ pool' = PoolAfterGet(id)
          /\ segments' = [segments EXCEPT ![s][segIdx[s] + 1] = id]
    BY <1>2 DEF AutoPush
  <2>3. segIdx[s] + 1 \in 0 .. NSegments(s) - 1 /\ segments[s][segIdx[s] + 1] = nil
    <3>1. segIdx[s] + 1 \in 0 .. NSegments(s) - 1 /\ ~(segIdx[s] + 1 <= segIdx[s])
      BY <1>0, <2>1, NSegmentsNat
    <3> QED BY <3>1 DEF AutoInv, SegmentsExact
  <2>4. ~Attached(id) /\ SlotsBecome(s, {segIdx[s] + 1}, id)
    BY <2>2, <2>3, GetOwned
  <2>5. AutoSp(s) = F * (segIdx[s] + 1) /\ AutoSp(s) = 0 + (segIdx[s] + 1) * F
    BY <1>0, <2>1 DEF AutoSp
  <2>6. AutoSp(s) \div F = segIdx[s] + 1 /\ AutoSp(s) % F = 0
    <3>1. 0 \in 0 .. F - 1 /\ segIdx[s] + 1 \in Nat
      BY <1>0
    <3> QED BY <2>5, <3>1, AutoDiv
  <2>7. AutoSp(s)' = AutoSp(s) + 1
    <3>1. segSp'[s] = 1 /\ segIdx'[s] = segIdx[s] + 1
      BY <2>1 DEF AutoInv, AutoType
    <3>2. AutoSp(s)' = 1 + (segIdx[s] + 1) * F
      BY <3>1 DEF AutoSp
    <3> QED BY <1>0, <2>5, <3>2
  <2>8. heap' = [heap EXCEPT ![id][0] = frm]
    BY <2>2, <2>5
  <2> HIDE DEF frm
  <2>9. \A x \in SegId, r \in SegSlots :
          heap'[x][r] = IF x = id /\ r = 0 THEN frm ELSE heap[x][r]
    BY <1>0, <2>8 DEF Heaps, SegSlots
  <2>10. KeptIn(heap, s, AutoSp(s))
    <3> SUFFICES ASSUME NEW t \in State, t \in minimize, ~closed[t], NEW i \in Nat, i < AutoSp(t)
                 PROVE heap'[segments'[t][i \div F]][i % F] = AutoAt(heap, t, i)
      BY DEF KeptIn
    <3>1. /\ i \div F \in 0 .. NSegments(t) - 1 /\ i \div F <= segIdx[t]
          /\ i % F \in SegSlots
          /\ segments[t][i \div F] \in SegId
      BY SlotOf
    <3>2. segments'[t][i \div F] = segments[t][i \div F]
      BY <1>0, <2>4, <3>1 DEF SlotsBecome
    <3>3. segments[t][i \div F] # id
      BY <2>4, <3>1 DEF Attached
    <3> QED BY <2>9, <3>1, <3>2, <3>3 DEF AutoAt
  <2>11. heap'[segments'[s][AutoSp(s) \div F]][AutoSp(s) % F] = frm
    <3>1. segments'[s][segIdx[s] + 1] = id
      BY <2>3, <2>4 DEF SlotsBecome
    <3>2. 0 \in SegSlots
      BY <1>0 DEF SegSlots
    <3> QED BY <2>6, <2>9, <3>1, <3>2
  <2> QED BY <2>7, <2>10, <2>11 DEF frm
<1> QED BY <1>1, <1>2

\* Segments above slot k of s are given back: the frames in the others stay.
LEMMA DetachKept ==
  ASSUME AutoInv, NEW s \in State, s \in minimize, ~closed[s],
         NEW k \in Nat, k <= segIdx[s],
         NEW S, S = {i \in 0 .. NSegments(s) - 1 : k < i /\ i <= segIdx[s]},
         NEW h \in Heaps, NEW r \in 0 .. FramesPerSegment,
         r + k * FramesPerSegment <= AutoSp(s),
         pool' = PoolAfterPut(s, S), segments' = Detach(s, S),
         heap' = HeapAfterPut(h, s, S)
  PROVE  KeptIn(h, s, r + k * FramesPerSegment)
<1> DEFINE F == FramesPerSegment
<1>1. S \in Slots(s)
  BY DEF Slots, AutoInv, AutoType
<1>2. SlotsBecome(s, S, nil)
  BY <1>1, PutOwned
<1> SUFFICES ASSUME NEW t \in State, t \in minimize, ~closed[t], NEW i \in Nat,
                    i < (IF t = s THEN r + k * F ELSE AutoSp(t))
             PROVE heap'[segments'[t][i \div F]][i % F] = AutoAt(h, t, i)
  BY DEF KeptIn
<1>3. i < AutoSp(t) /\ (t = s => i \div F <= k)
  <2>1. segSp[s] \in 0 .. F /\ segIdx[s] \in Nat /\ F \in Nat \ {0}
    BY SizeAssumption DEF AutoInv, AutoType
  <2>2. AutoSp(s) \in Nat /\ r + k * F \in Nat
    BY <2>1 DEF AutoSp
  <2>3. t = s => i \div F <= k
    BY DivBound
  <2> QED BY <2>2, <2>3
<1>4. /\ i \div F \in 0 .. NSegments(t) - 1 /\ i \div F \in Nat
      /\ i % F \in SegSlots
      /\ segments[t][i \div F] \in SegId
  BY <1>3, SlotOf, DivMod
<1>5. ~(t = s /\ i \div F \in S)
  BY <1>3, <1>4
<1>6. segments'[t][i \div F] = segments[t][i \div F]
  BY <1>2, <1>4, <1>5 DEF SlotsBecome
<1>7. segments[t][i \div F] \notin Put(s, S)
  <2> SUFFICES ASSUME NEW j \in S, segments[t][i \div F] = segments[s][j] PROVE FALSE
    BY DEF Put
  <2>1. j \in 0 .. NSegments(s) - 1
    OBVIOUS
  <2> QED BY <1>4, <1>5, <2>1, NameAssumption DEF AutoInv, SegmentsOwned
<1>8. heap'[segments[t][i \div F]] = h[segments[t][i \div F]]
  BY <1>4, <1>7 DEF HeapAfterPut
<1> QED BY <1>6, <1>8 DEF AutoAt

\* autoGrowingCallFrameStack.Pop removes one frame and keeps the ones below it.
LEMMA AutoPopKept ==
  ASSUME AutoInv, NEW s \in State, s \in minimize, ~closed[s], NEW h \in Heaps, AutoPop(s, h)
  PROVE  /\ AutoSp(s) - 1 \in Nat
         /\ KeptIn(h, s, AutoSp(s) - 1)
         /\ AutoSp(s)' = AutoSp(s) - 1
         /\ segSp'[s] < FramesPerSegment
<1> DEFINE F == FramesPerSegment
<1>0. segIdx[s] \in Nat /\ segIdx[s] \in 0 .. NSegments(s) - 1 /\ segSp[s] \in 0 .. F /\ F \in Nat \ {0}
  BY SizeAssumption DEF AutoInv, AutoType
<1>1. CASE segSp[s] = 0
  <2>1. /\ segIdx[s] # 0
        /\ heap' = HeapAfterPut(h, s, {segIdx[s]})
        /\ pool' = PoolAfterPut(s, {segIdx[s]})
        /\ segments' = Detach(s, {segIdx[s]})
        /\ segIdx' = [segIdx EXCEPT ![s] = segIdx[s] - 1]
        /\ segSp' = [segSp EXCEPT ![s] = F - 1]
    BY <1>1 DEF AutoPop
  <2>2. /\ segIdx[s] - 1 \in Nat /\ segIdx[s] - 1 <= segIdx[s]
        /\ F - 1 \in 0 .. F
        /\ {segIdx[s]} = {i \in 0 .. NSegments(s) - 1 : segIdx[s] - 1 < i /\ i <= segIdx[s]}
    BY <1>0, <2>1, NSegmentsNat
  <2>3. /\ (F - 1) + (segIdx[s] - 1) * F = AutoSp(s) - 1
        /\ (F - 1) + (segIdx[s] - 1) * F <= AutoSp(s)
        /\ AutoSp(s) - 1 \in Nat
    BY <1>0, <1>1, <2>2 DEF AutoSp
  <2>4. segIdx'[s] = segIdx[s] - 1 /\ segSp'[s] = F - 1
    BY <2>1 DEF AutoInv, AutoType
  <2>5. AutoSp(s)' = AutoSp(s) - 1 /\ segSp'[s] < F
    BY <1>0, <2>3, <2>4 DEF AutoSp
  <2>6. KeptIn(h, s, (F - 1) + (segIdx[s] - 1) * F)
    BY <2>1, <2>2, <2>3, DetachKept
  <2> QED BY <2>3, <2>5, <2>6
<1>2. CASE segSp[s] # 0
  <2>1. /\ heap' = h
        /\ segSp' = [segSp EXCEPT ![s] = @ - 1]
        /\ UNCHANGED <<segments, segIdx, pool>>
    BY <1>2 DEF AutoPop
  <2>2. segSp'[s] = segSp[s] - 1 /\ segIdx'[s] = segIdx[s]
    BY <2>1 DEF AutoInv, AutoType
  <2>3. AutoSp(s)' = AutoSp(s) - 1 /\ AutoSp(s) - 1 \in Nat /\ segSp'[s] < F
    BY <1>0, <1>2, <2>2 DEF AutoSp
  <2>4. KeptIn(h, s, AutoSp(s) - 1)
    BY <2>1 DEF KeptIn, AutoAt
  <2> QED BY <2>3, <2>4
<1> QED BY <1>1, <1>2

\* SetSp(n) cuts the stack to depth n if n is a depth that was reached below a
\* frame: at n = Sp the current segment must not be full.
LEMMA AutoSetSpKept ==
  ASSUME AutoInv, NEW s \in State, s \in minimize, ~closed[s], NEW n \in Nat,
         n <= AutoSp(s), n = AutoSp(s) => segSp[s] < FramesPerSegment,
         AutoSetSp(s, n)
  PROVE  /\ KeptIn(heap, s, n)
         /\ AutoSp(s)' = n
         /\ segSp'[s] < FramesPerSegment
<1> DEFINE F == FramesPerSegment
           desired == n \div F
           freed == {i \in 0 .. NSegments(s) - 1 : desired < i /\ i <= segIdx[s]}
<1>0. segIdx[s] \in Nat /\ segSp[s] \in 0 .. F /\ F \in Nat \ {0} /\ heap \in Heaps
  BY SizeAssumption DEF AutoInv, AutoType
<1>1. /\ desired \in Nat /\ n % F \in 0 .. F - 1 /\ n % F \in 0 .. F
      /\ n = (n % F) + desired * F
  BY <1>0, DivMod
<1>2. desired <= segIdx[s]
  <2>1. CASE n < AutoSp(s)
    BY <1>0, <2>1, DivBound DEF AutoSp
  <2>2. CASE n = AutoSp(s)
    <3>1. segSp[s] \in 0 .. F - 1 /\ n = segSp[s] + segIdx[s] * F
      BY <1>0, <2>2 DEF AutoSp
    <3>2. desired = segIdx[s]
      BY <1>0, <3>1, AutoDiv
    <3> QED BY <1>0, <3>2
  <2>3. AutoSp(s) \in Nat
    BY <1>0 DEF AutoSp
  <2> QED BY <2>1, <2>2, <2>3
<1>3. (IF segIdx[s] <= desired THEN segIdx[s] ELSE desired) = desired
  BY <1>0, <1>1, <1>2
<1>4. /\ pool' = PoolAfterPut(s, freed)
      /\ segments' = Detach(s, freed)
      /\ segIdx' = [segIdx EXCEPT ![s] = desired]
      /\ segSp' = [segSp EXCEPT ![s] = n % F]
      /\ heap' = HeapAfterPut(heap, s, freed)
  BY <1>3 DEF AutoSetSp
<1>5. segIdx'[s] = desired /\ segSp'[s] = n % F
  BY <1>4 DEF AutoInv, AutoType
<1>6. AutoSp(s)' = n /\ segSp'[s] < F
  BY <1>0, <1>1, <1>5 DEF AutoSp
<1>7. KeptIn(heap, s, (n % F) + desired * F)
  <2>1. freed = {i \in 0 .. NSegments(s) - 1 : desired < i /\ i <= segIdx[s]}
    OBVIOUS
  <2> HIDE DEF freed, desired
  <2> QED BY <1>0, <1>1, <1>2, <1>4, <2>1, DetachKept DEF F
<1> QED BY <1>1, <1>6, <1>7
-----------------------------------------------------------------------------
\* The PCalls in progress of s were made at depths that nest and that s has not
\* gone below, and every one but the innermost has called its function.  When s
\* is back at the depth of one that has, the current segment is not full: the
\* callee's frame made the stack move to the next one.
MarksNest(s) ==
  LET m == marks[s] IN
  /\ \A i \in 1 .. Len(m) : m[i].sp <= Sp(s)
  /\ \A i, j \in 1 .. Len(m) : i <= j => m[i].sp <= m[j].sp
  /\ \A i \in 1 .. Len(m) : i < Len(m) => m[i].called
  /\ s \in minimize =>
       \A i \in 1 .. Len(m) : m[i].called /\ m[i].sp = Sp(s) => segSp[s] < FramesPerSegment
  /\ raising[s] /\ s \in minimize => CalleeEntered(s)

FramesKnow(s) ==
  ~closed[s] => \A i \in Nat : i < Sp(s) => At(s, i).Idx = i /\ At(s, i).fn \in Fn

DepthInv == \A s \in State : MarksNest(s) /\ FramesKnow(s)

\* The step changes nothing that MarksNest and FramesKnow say of stack t.
Kept(t) ==
  /\ t \in minimize' <=> t \in minimize
  /\ closed'[t] = closed[t] /\ marks'[t] = marks[t] /\ raising'[t] = raising[t]
  /\ Sp(t)' = Sp(t) /\ segSp'[t] = segSp[t]
  /\ ~closed[t] => \A i \in Nat : i < Sp(t) => At(t, i)' = At(t, i)

\* A stack that a step leaves alone keeps the depth invariant.
LEMMA KeptDepth ==
  ASSUME NEW t \in State, MarksNest(t) /\ FramesKnow(t), Kept(t)
  PROVE  MarksNest(t)' /\ FramesKnow(t)'
<1>1. MarksNest(t)'
  BY DEF MarksNest, Kept, CalleeEntered, Top
<1>2. FramesKnow(t)'
  BY DEF FramesKnow, Kept
<1> QED BY <1>1, <1>2

\* A step of segmented stack s that writes heap h, in which the other stacks are
\* as they were, keeps the other stacks.
LEMMA OthersKeptAuto ==
  ASSUME Inv, NEW s \in State, NEW h, NEW n, KeptIn(h, s, n),
         UNCHANGED <<minimize, closed, fixedVars>>,
         \A t \in State : t # s => /\ segIdx'[t] = segIdx[t] /\ segSp'[t] = segSp[t]
                                   /\ marks'[t] = marks[t] /\ raising'[t] = raising[t],
         \A t \in State : t # s /\ t \in minimize /\ ~closed[t] =>
           \A i \in Nat : i < AutoSp(t) => AutoAt(h, t, i) = AutoAt(heap, t, i)
  PROVE  \A t \in State : t # s => Kept(t)
<1> SUFFICES ASSUME NEW t \in State, t # s PROVE Kept(t)
  OBVIOUS
<1>1. Sp(t)' = Sp(t)
  BY DEF Sp, AutoSp, fixedVars
<1>2. ASSUME ~closed[t], NEW i \in Nat, i < Sp(t) PROVE At(t, i)' = At(t, i)
  <2>1. CASE t \in minimize
    BY <1>2, <2>1 DEF KeptIn, AutoAt, At, Sp
  <2>2. CASE t \notin minimize
    BY <2>2 DEF At, fixedVars
  <2> QED BY <2>1, <2>2
<1> QED BY <1>1, <1>2 DEF Kept

\* A step of fixed stack s keeps the other stacks.
LEMMA OthersKeptFixed ==
  ASSUME Inv, NEW s \in State, s \notin minimize,
         UNCHANGED <<minimize, closed, autoVars>>,
         \A t \in State : t # s => /\ array'[t] = array[t] /\ sp'[t] = sp[t]
                                   /\ marks'[t] = marks[t] /\ raising'[t] = raising[t]
  PROVE  \A t \in State : t # s => Kept(t)
<1> SUFFICES ASSUME NEW t \in State, t # s PROVE Kept(t)
  OBVIOUS
<1>1. Sp(t)' = Sp(t)
  BY DEF Sp, AutoSp, autoVars
<1>2. \A i \in Nat : At(t, i)' = At(t, i)
  BY DEF At, autoVars
<1> QED BY <1>1, <1>2 DEF Kept, autoVars

\* A step of stack s keeps the depth invariant if it does for s and keeps the rest.
LEMMA DepthFromParts ==
  ASSUME DepthInv, NEW s \in State, \A t \in State : t # s => Kept(t),
         MarksNest(s)', FramesKnow(s)'
  PROVE  DepthInv'
BY KeptDepth DEF DepthInv

\* The step deepens s by frame f.
LEMMA PushEffect ==
  ASSUME Inv, NEW s \in State, NEW f \in Fn, pushCallFrame(s, f)
  PROVE  /\ Sp(s)' = Sp(s) + 1
         /\ \A i \in Nat : i < Sp(s) => At(s, i)' = At(s, i)
         /\ \A i \in Nat : i = Sp(s) => At(s, i)' = [fn |-> f, Idx |-> i]
         /\ \A t \in State : t # s => Kept(t)
<1>1. ~closed[s] /\ ~IsFull(s) /\ Push(s, f) /\ UNCHANGED <<minimize, raising, closed>>
  BY DEF pushCallFrame, Running
<1>2. \A t \in State : t # s => marks'[t] = marks[t]
  BY DEF pushCallFrame, Inv, MarkType
<1>3. CASE s \in minimize
  <2>1. AutoPush(s, f) /\ UNCHANGED fixedVars
    BY <1>1, <1>3 DEF Push
  <2>2. /\ KeptIn(heap, s, AutoSp(s))
        /\ AutoSp(s)' = AutoSp(s) + 1
        /\ heap'[segments'[s][AutoSp(s) \div FramesPerSegment]][AutoSp(s) % FramesPerSegment]
             = [fn |-> f, Idx |-> AutoSp(s)]
    BY <1>1, <1>3, <2>1, AutoPushKept DEF Inv
  <2>3. \A t \in State : t # s => segIdx'[t] = segIdx[t] /\ segSp'[t] = segSp[t]
    BY <2>1 DEF AutoPush, Inv, AutoInv, AutoType
  <2>4. \A t \in State : t # s => Kept(t)
    BY <1>1, <1>2, <2>1, <2>2, <2>3, OthersKeptAuto
  <2>5. Sp(s)' = Sp(s) + 1 /\ Sp(s) = AutoSp(s)
    BY <1>1, <1>3, <2>2 DEF Sp
  <2>6. \A i \in Nat : i < Sp(s) => At(s, i)' = At(s, i)
    BY <1>1, <1>3, <2>2, <2>5 DEF KeptIn, AutoAt, At
  <2>7. \A i \in Nat : i = Sp(s) => At(s, i)' = [fn |-> f, Idx |-> i]
    <3>1. \A i \in Nat : At(s, i)' = heap'[segments'[s][i \div FramesPerSegment]][i % FramesPerSegment]
      BY <1>1, <1>3 DEF At
    <3> QED BY <2>2, <2>5, <3>1
  <2> QED BY <2>4, <2>5, <2>6, <2>7
<1>4. CASE s \notin minimize
  <2>1. FixedPush(s, f) /\ UNCHANGED autoVars
    BY <1>1, <1>4 DEF Push
  <2>2. \A t \in State : t # s => array'[t] = array[t] /\ sp'[t] = sp[t]
    BY <2>1 DEF FixedPush, Inv, FixedType, SpType, ArrayType
  <2>3. \A t \in State : t # s => Kept(t)
    BY <1>1, <1>2, <1>4, <2>1, <2>2, OthersKeptFixed
  <2>4. Sp(s)' = Sp(s) + 1 /\ Sp(s) = sp[s]
    BY <1>1, <1>4, <2>1 DEF Sp, FixedPush, Inv, FixedType, SpType
  <2>5. sp[s] \in 0 .. CallStackSize[s] - 1
    BY <1>1, <1>4, SizeAssumption DEF IsFull, Inv, FixedType, SpType
  <2>6. \A i \in 0 .. CallStackSize[s] - 1 :
          array'[s][i] = IF i = sp[s] THEN [fn |-> f, Idx |-> sp[s]] ELSE array[s][i]
    BY <2>1, <2>5 DEF FixedPush, Inv, FixedType, ArrayType
  <2>7. \A i \in Nat : i < Sp(s) => At(s, i)' = At(s, i)
    BY <1>1, <1>4, <2>4, <2>5, <2>6, SizeAssumption DEF At
  <2>8. \A i \in Nat : At(s, i)' = array'[s][i]
    BY <1>1, <1>4 DEF At
  <2>9. \A i \in Nat : i = Sp(s) => At(s, i)' = [fn |-> f, Idx |-> i]
    BY <2>4, <2>5, <2>6, <2>8
  <2> QED BY <2>3, <2>4, <2>7, <2>9
<1> QED BY <1>3, <1>4

\* The depths PCalls remember are natural numbers.
LEMMA MarkSp ==
  ASSUME Inv, NEW s \in State
  PROVE  /\ marks[s] \in Seq(Mark) /\ Len(marks[s]) \in Nat
         /\ \A i \in 1 .. Len(marks[s]) : marks[s][i] \in Mark /\ marks[s][i].sp \in Nat
<1>1. marks[s] \in Seq(Mark) /\ Len(marks[s]) \in Nat
  BY DEF Inv, MarkType
<1>2. \A i \in 1 .. Len(marks[s]) : marks[s][i] \in Mark
  BY <1>1
<1>3. \A i \in 1 .. Len(marks[s]) : marks[s][i].sp \in Nat
  BY <1>2 DEF Mark
<1> QED BY <1>1, <1>2, <1>3

\* pushCallFrame keeps the depth invariant.
LEMMA PushDepth ==
  ASSUME Inv, DepthInv, NEW s \in State, NEW f \in Fn, pushCallFrame(s, f)
  PROVE  DepthInv'
<1>1. /\ Sp(s)' = Sp(s) + 1
      /\ \A i \in Nat : i < Sp(s) => At(s, i)' = At(s, i)
      /\ \A i \in Nat : i = Sp(s) => At(s, i)' = [fn |-> f, Idx |-> i]
      /\ \A t \in State : t # s => Kept(t)
  BY PushEffect
<1>2. Sp(s) \in Nat
  BY SpNat
<1>3. ~closed[s] /\ ~raising[s] /\ UNCHANGED <<minimize, raising, closed>>
  BY DEF pushCallFrame, Running
<1>4. /\ marks'[s] \in Seq(Mark) /\ Len(marks'[s]) = Len(marks[s]) /\ Len(marks[s]) \in Nat
      /\ \A i \in 1 .. Len(marks[s]) :
           /\ marks'[s][i].sp = marks[s][i].sp
           /\ marks[s][i].sp \in Nat
           /\ i # Len(marks[s]) => marks'[s][i] = marks[s][i]
           /\ i = Len(marks[s]) => marks'[s][i].called
  <2>1. /\ marks' \in [State -> Seq(Mark)]
        /\ \A t \in State : Len(marks'[t]) = Len(marks[t])
        /\ \A t \in State : \A i \in 1 .. Len(marks[t]) :
             /\ marks'[t][i].sp = marks[t][i].sp
             /\ t # s \/ i # Len(marks[t]) => marks'[t][i] = marks[t][i]
             /\ t = s /\ i = Len(marks[t]) => marks'[t][i].called
    BY MarksCalled DEF Inv, pushCallFrame
  <2> QED BY <2>1, MarkSp
<1>5. MarksNest(s)'
  BY <1>1, <1>2, <1>3, <1>4 DEF DepthInv, MarksNest
<1>6. FramesKnow(s)'
  <2> SUFFICES ASSUME NEW i \in Nat, i < Sp(s) + 1 PROVE (At(s, i)').Idx = i /\ (At(s, i)').fn \in Fn
    BY <1>1 DEF FramesKnow
  <2>1. CASE i < Sp(s)
    BY <1>1, <1>3, <2>1 DEF DepthInv, FramesKnow
  <2>2. CASE i = Sp(s)
    BY <1>1, <2>2
  <2> QED BY <1>2, <2>1, <2>2
<1> QED BY <1>1, <1>5, <1>6, DepthFromParts

\* Pop: s is one less deep and, if it is segmented, below the top of a segment.
PopTo(s) ==
  /\ Sp(s)' = Sp(s) - 1
  /\ s \in minimize => segSp'[s] < FramesPerSegment
  /\ \A t \in State : t # s => Kept(t)

\* Popping a frame above the innermost PCall keeps the PCalls nested.
LEMMA PoppedMarks ==
  ASSUME Inv, DepthInv, NEW s \in State, Sp(s) > Floor(s), ~raising[s], PopTo(s),
         UNCHANGED <<minimize, marks, raising, closed>>
  PROVE  MarksNest(s)'
<1>1. Sp(s) \in Nat /\ Floor(s) \in Nat /\ marks[s] \in Seq(Mark) /\ Len(marks[s]) \in Nat
  BY SpNat, FloorNat DEF Inv, MarkType
<1>2. \A i \in 1 .. Len(marks[s]) : marks[s][i].sp \in Nat
  BY MarkSp
<1>3. \A i \in 1 .. Len(marks[s]) : marks[s][i].sp <= Floor(s)
  <2> SUFFICES ASSUME NEW i \in 1 .. Len(marks[s]) PROVE marks[s][i].sp <= Floor(s)
    OBVIOUS
  <2>1. marks[s] # << >> /\ Len(marks[s]) \in 1 .. Len(marks[s]) /\ i <= Len(marks[s])
    BY <1>1, EmptySeq
  <2>2. Floor(s) = marks[s][Len(marks[s])].sp
    BY <2>1 DEF Floor, Top
  <2> QED BY <2>1, <2>2 DEF DepthInv, MarksNest
<1>4. \A i \in 1 .. Len(marks[s]) : marks[s][i].sp <= Sp(s) - 1
  <2> SUFFICES ASSUME NEW i \in 1 .. Len(marks[s]) PROVE marks[s][i].sp <= Sp(s) - 1
    OBVIOUS
  <2>1. marks[s][i].sp \in Nat /\ marks[s][i].sp <= Floor(s)
    BY <1>2, <1>3
  <2> DEFINE m == marks[s][i].sp
             floor == Floor(s)
             depth == Sp(s)
  <2>2. m \in Nat /\ m <= floor /\ floor < depth /\ floor \in Nat /\ depth \in Nat
    BY <1>1, <2>1
  <2> HIDE DEF m, floor, depth
  <2>3. m <= depth - 1
    BY <2>2
  <2> QED BY <2>3 DEF m, depth
<1> QED BY <1>4 DEF PopTo, DepthInv, MarksNest, CalleeEntered, Top

\* A return takes the newest frame and leaves the rest.
LEMMA ReturnEffect ==
  ASSUME Inv, NEW s \in State, Return(s)
  PROVE  PopTo(s) /\ \A i \in Nat : i < Sp(s) - 1 => At(s, i)' = At(s, i)
<1>1. /\ ~closed[s] /\ ~raising[s] /\ Sp(s) > Floor(s) /\ Pop(s)
      /\ UNCHANGED <<minimize, marks, raising, closed>>
  BY DEF Return, Running
<1>2. PopTo(s) /\ \A i \in Nat : i < Sp(s) - 1 => At(s, i)' = At(s, i)
  <2>1. CASE s \in minimize
    <3>1. AutoPop(s, heap) /\ UNCHANGED fixedVars /\ heap \in Heaps
      BY <1>1, <2>1 DEF Pop, Inv, AutoInv, AutoType
    <3>2. /\ KeptIn(heap, s, AutoSp(s) - 1)
          /\ AutoSp(s)' = AutoSp(s) - 1
          /\ segSp'[s] < FramesPerSegment
      BY <1>1, <2>1, <3>1, AutoPopKept DEF Inv
    <3>3. \A t \in State : t # s => Kept(t)
      BY <1>1, <3>1, <3>2, AutoPopOthers, OthersKeptAuto
    <3>4. Sp(s) = AutoSp(s) /\ Sp(s)' = AutoSp(s)'
      BY <1>1, <2>1 DEF Sp
    <3>5. \A i \in Nat : i < Sp(s) - 1 => At(s, i)' = At(s, i)
      BY <1>1, <2>1, <3>2, <3>4 DEF KeptIn, AutoAt, At
    <3> QED BY <3>2, <3>3, <3>4, <3>5 DEF PopTo
  <2>2. CASE s \notin minimize
    <3>1. FixedPop(s) /\ UNCHANGED <<array, autoVars>>
      BY <1>1, <2>2 DEF Pop
    <3>2. \A t \in State : t # s => sp'[t] = sp[t]
      BY <3>1 DEF FixedPop, Inv, FixedType, SpType
    <3>3. \A t \in State : t # s => Kept(t)
      BY <1>1, <2>2, <3>1, <3>2, OthersKeptFixed
    <3>4. Sp(s)' = Sp(s) - 1
      BY <1>1, <2>2, <3>1 DEF Sp, FixedPop, Inv, FixedType, SpType
    <3>5. \A i \in Nat : At(s, i)' = At(s, i)
      BY <1>1, <2>2, <3>1 DEF At
    <3> QED BY <2>2, <3>3, <3>4, <3>5 DEF PopTo
  <2> QED BY <2>1, <2>2
<1> QED BY <1>2

\* A return keeps the depth invariant.
LEMMA ReturnDepth ==
  ASSUME Inv, DepthInv, NEW s \in State, Return(s)
  PROVE  DepthInv'
<1>1. /\ ~closed[s] /\ ~raising[s] /\ Sp(s) > Floor(s) /\ Pop(s)
      /\ UNCHANGED <<minimize, marks, raising, closed>>
  BY DEF Return, Running
<1>2. PopTo(s) /\ \A i \in Nat : i < Sp(s) - 1 => At(s, i)' = At(s, i)
  BY ReturnEffect
<1>3. MarksNest(s)'
  BY <1>1, <1>2, PoppedMarks
<1>4. FramesKnow(s)'
  <2>1. Sp(s) \in Nat
    BY SpNat
  <2> QED BY <1>1, <1>2, <2>1 DEF FramesKnow, DepthInv, PopTo
<1> QED BY <1>2, <1>3, <1>4, DepthFromParts DEF PopTo

\* RemoveCallerFrame moves the newest frame over its caller's, with its new depth.
LEMMA RemoveCallerFrameEffect ==
  ASSUME Inv, DepthInv, NEW s \in State, RemoveCallerFrame(s)
  PROVE  /\ PopTo(s)
         /\ Sp(s) - 2 \in Nat
         /\ \E frm \in Frame :
              /\ frm.Idx = Sp(s) - 2 /\ frm.fn = At(s, Sp(s) - 1).fn /\ frm.fn \in Fn
              /\ \A i \in Nat : i < Sp(s) - 1 =>
                   At(s, i)' = IF i = Sp(s) - 2 THEN frm ELSE At(s, i)
<1> DEFINE F == FramesPerSegment
           k == Sp(s) - 2
           frm == [At(s, Sp(s) - 1) EXCEPT !.Idx = Sp(s) - 2]
<1>1. /\ ~closed[s] /\ ~raising[s] /\ Sp(s) >= Floor(s) + 2
      /\ UNCHANGED <<minimize, marks, raising, closed>>
  BY DEF RemoveCallerFrame, Running
<1>2. Sp(s) \in Nat /\ k \in Nat /\ k < Sp(s) /\ Sp(s) - 1 \in Nat /\ Sp(s) > Floor(s)
  BY <1>1, FloorNat, SpNat DEF Inv
<1>3. frm \in Frame /\ frm.Idx = k /\ frm.fn = At(s, Sp(s) - 1).fn /\ frm.fn \in Fn
  <2>1. At(s, Sp(s) - 1) \in Frame
    BY <1>1, <1>2, AtFrame
  <2>2. At(s, Sp(s) - 1).fn \in Fn
    BY <1>1, <1>2 DEF DepthInv, FramesKnow
  <2> QED BY <1>2, <2>1, <2>2 DEF Frame
<1>4. PopTo(s) /\ \A i \in Nat : i < Sp(s) - 1 => At(s, i)' = IF i = k THEN frm ELSE At(s, i)
  <2>1. CASE s \in minimize
    <3> DEFINE seg == segments[s][k \div F]
               h == [heap EXCEPT ![seg][k % F] = frm]
    <3>1. AutoPop(s, h) /\ UNCHANGED fixedVars
      BY <2>1 DEF RemoveCallerFrame
    <3>2. Sp(s) = AutoSp(s) /\ Sp(s)' = AutoSp(s)'
      BY <1>1, <2>1 DEF Sp
    <3>3. /\ k \div F \in 0 .. NSegments(s) - 1 /\ k % F \in SegSlots /\ seg \in SegId
          /\ k \div F \in Nat /\ k % F \in 0 .. F - 1 /\ k = (k % F) + (k \div F) * F
      BY <1>1, <1>2, <2>1, <3>2, SlotOf, DivMod DEF Inv
    <3>4. heap \in Heaps
      BY DEF Inv, AutoInv, AutoType
    <3> HIDE DEF frm, k
    <3>5. /\ h \in Heaps
          /\ \A id \in SegId, r \in SegSlots :
               h[id][r] = IF id = seg /\ r = k % F THEN frm ELSE heap[id][r]
      BY <1>3, <3>3, <3>4 DEF Heaps
    <3> HIDE DEF h
    <3>6. \A t \in State : t \in minimize /\ ~closed[t] => \A i \in Nat : i < AutoSp(t) =>
            AutoAt(h, t, i) = IF t = s /\ i = k THEN frm ELSE AutoAt(heap, t, i)
      <4> SUFFICES ASSUME NEW t \in State, t \in minimize, ~closed[t], NEW i \in Nat, i < AutoSp(t)
                   PROVE AutoAt(h, t, i) = IF t = s /\ i = k THEN frm ELSE AutoAt(heap, t, i)
        OBVIOUS
      <4>1. /\ i \div F \in 0 .. NSegments(t) - 1 /\ i % F \in SegSlots
            /\ segments[t][i \div F] \in SegId
            /\ i = (i % F) + (i \div F) * F
        BY SlotOf, DivMod DEF Inv
      <4>2. segments[t][i \div F] = seg /\ i % F = k % F <=> t = s /\ i = k
        <5>1. segments[t][i \div F] = seg => t = s /\ i \div F = k \div F
          BY <3>3, <4>1, NameAssumption DEF Inv, AutoInv, SegmentsOwned
        <5> QED BY <3>3, <4>1, <5>1
      <4> QED BY <3>5, <4>1, <4>2 DEF AutoAt
    <3>7. /\ KeptIn(h, s, AutoSp(s) - 1)
          /\ AutoSp(s)' = AutoSp(s) - 1
          /\ segSp'[s] < F
      BY <1>1, <2>1, <3>1, <3>5, AutoPopKept DEF Inv
    <3>8. \A t \in State : t # s => Kept(t)
      BY <1>1, <3>1, <3>6, <3>7, AutoPopOthers, OthersKeptAuto
    <3>9. \A i \in Nat : i < Sp(s) - 1 => At(s, i)' = IF i = k THEN frm ELSE At(s, i)
      <4> SUFFICES ASSUME NEW i \in Nat, i < Sp(s) - 1
                   PROVE At(s, i)' = IF i = k THEN frm ELSE At(s, i)
        OBVIOUS
      <4>1. At(s, i)' = heap'[segments'[s][i \div F]][i % F] /\ At(s, i) = AutoAt(heap, s, i)
        BY <1>1, <2>1 DEF At, AutoAt
      <4>2. i < AutoSp(s)
        BY <1>2, <3>2
      <4>3. AutoAt(h, s, i) = IF i = k THEN frm ELSE AutoAt(heap, s, i)
        BY <1>1, <2>1, <3>6, <4>2
      <4>4. heap'[segments'[s][i \div F]][i % F] = AutoAt(h, s, i)
        BY <1>1, <2>1, <3>2, <3>7 DEF KeptIn
      <4> QED BY <4>1, <4>3, <4>4
    <3> QED BY <3>2, <3>7, <3>8, <3>9 DEF PopTo
  <2>2. CASE s \notin minimize
    <3>1. array' = [array EXCEPT ![s][k] = frm] /\ FixedPop(s) /\ UNCHANGED autoVars
      BY <2>2 DEF RemoveCallerFrame
    <3>2. Sp(s) = sp[s] /\ k \in 0 .. CallStackSize[s] - 1 /\ sp[s] <= CallStackSize[s]
      BY <1>2, <2>2, SizeAssumption DEF Sp, Inv, FixedType, SpType
    <3>3. Sp(s)' = Sp(s) - 1
      BY <1>1, <2>2, <3>1 DEF Sp, FixedPop, Inv, FixedType, SpType
    <3> HIDE DEF frm, k
    <3>4. /\ \A t \in State : t # s => array'[t] = array[t] /\ sp'[t] = sp[t]
          /\ \A i \in 0 .. CallStackSize[s] - 1 : array'[s][i] = IF i = k THEN frm ELSE array[s][i]
      BY <3>1, <3>2 DEF FixedPop, Inv, FixedType, SpType, ArrayType
    <3>5. \A t \in State : t # s => Kept(t)
      BY <1>1, <2>2, <3>1, <3>4, OthersKeptFixed
    <3>6. \A i \in Nat : i < Sp(s) - 1 => At(s, i)' = IF i = k THEN frm ELSE At(s, i)
      <4> SUFFICES ASSUME NEW i \in Nat, i < Sp(s) - 1
                   PROVE At(s, i)' = IF i = k THEN frm ELSE At(s, i)
        OBVIOUS
      <4>1. i \in 0 .. CallStackSize[s] - 1
        BY <1>2, <3>2, SizeAssumption
      <4>2. At(s, i)' = array'[s][i] /\ At(s, i) = array[s][i]
        BY <1>1, <2>2 DEF At
      <4> QED BY <3>4, <4>1, <4>2
    <3> QED BY <2>2, <3>3, <3>5, <3>6 DEF PopTo
  <2> QED BY <2>1, <2>2
<1> HIDE DEF frm
<1> QED BY <1>2, <1>3, <1>4

\* RemoveCallerFrame keeps the depth invariant.
LEMMA RemoveCallerFrameDepth ==
  ASSUME Inv, DepthInv, NEW s \in State, RemoveCallerFrame(s)
  PROVE  DepthInv'
<1>1. /\ ~closed[s] /\ ~raising[s] /\ Sp(s) >= Floor(s) + 2
      /\ UNCHANGED <<minimize, marks, raising, closed>>
  BY DEF RemoveCallerFrame, Running
<1>2. Sp(s) \in Nat /\ Sp(s) - 2 \in Nat /\ Sp(s) > Floor(s)
  BY <1>1, FloorNat, SpNat DEF Inv
<1>3. PICK frm \in Frame :
        /\ frm.Idx = Sp(s) - 2 /\ frm.fn \in Fn
        /\ \A i \in Nat : i < Sp(s) - 1 => At(s, i)' = IF i = Sp(s) - 2 THEN frm ELSE At(s, i)
  BY RemoveCallerFrameEffect
<1>4. PopTo(s)
  BY RemoveCallerFrameEffect
<1>5. MarksNest(s)'
  BY <1>1, <1>2, <1>4, PoppedMarks
<1>6. FramesKnow(s)'
  <2> SUFFICES ASSUME NEW i \in Nat, i < Sp(s) - 1
               PROVE (At(s, i)').Idx = i /\ (At(s, i)').fn \in Fn
    BY <1>4 DEF FramesKnow, PopTo
  <2>1. i < Sp(s)
    BY <1>2
  <2>2. At(s, i).Idx = i /\ At(s, i).fn \in Fn
    BY <1>1, <2>1 DEF DepthInv, FramesKnow
  <2> QED BY <1>3, <1>4, <2>2
<1> QED BY <1>4, <1>5, <1>6, DepthFromParts DEF PopTo

\* The entry of PCall keeps the depth invariant.
LEMMA EnterPCallDepth ==
  ASSUME Inv, DepthInv, NEW s \in State, EnterPCall(s)
  PROVE  DepthInv'
<1>1. /\ ~closed[s] /\ ~raising[s] /\ CalleeEntered(s)
      /\ UNCHANGED <<minimize, autoVars, fixedVars, raising, closed>>
      /\ marks' = [marks EXCEPT ![s] = Append(@, [sp |-> Sp(s), called |-> FALSE])]
  BY DEF EnterPCall, Running
<1>2. /\ \A t \in State : t # s => marks'[t] = marks[t]
      /\ Len(marks[s]) \in Nat /\ Len(marks'[s]) = Len(marks[s]) + 1
      /\ \A i \in 1 .. Len(marks[s]) : marks'[s][i] = marks[s][i]
      /\ marks'[s][Len(marks[s]) + 1] = [sp |-> Sp(s), called |-> FALSE]
  BY <1>1, MarksPushed
<1>3. \A t \in State : Sp(t)' = Sp(t) /\ \A i \in Nat : At(t, i)' = At(t, i)
  BY <1>1 DEF Sp, AutoSp, At, autoVars, fixedVars
<1>4. \A t \in State : t # s => Kept(t)
  BY <1>1, <1>2, <1>3 DEF Kept, autoVars
<1>5. FramesKnow(s)'
  BY <1>1, <1>3 DEF FramesKnow, DepthInv
<1>6. MarksNest(s)'
  <2>1. \A i \in 1 .. Len(marks[s]) : marks[s][i].called
    <3> SUFFICES ASSUME NEW i \in 1 .. Len(marks[s]) PROVE marks[s][i].called
      OBVIOUS
    <3>1. CASE i < Len(marks[s])
      BY <3>1 DEF DepthInv, MarksNest
    <3>2. CASE i = Len(marks[s])
      <4>1. marks[s] # << >>
        BY <1>2, EmptySeq
      <4> QED BY <1>1, <3>2, <4>1 DEF CalleeEntered, Top
    <3> QED BY <1>2, <3>1, <3>2
  <2>2. Sp(s) \in Nat /\ \A i \in 1 .. Len(marks[s]) : marks[s][i].sp \in Nat /\ marks[s][i].sp <= Sp(s)
    BY SpNat, MarkSp DEF DepthInv, MarksNest
  <2>3. /\ \A i \in 1 .. Len(marks'[s]) : marks'[s][i].sp <= Sp(s)
        /\ \A i \in 1 .. Len(marks'[s]) : i < Len(marks'[s]) => marks'[s][i].called
        /\ \A i \in 1 .. Len(marks'[s]) : marks'[s][i].called => i \in 1 .. Len(marks[s])
    <3> SUFFICES ASSUME NEW i \in 1 .. Len(marks'[s])
                 PROVE /\ marks'[s][i].sp <= Sp(s)
                       /\ i < Len(marks'[s]) => marks'[s][i].called
                       /\ marks'[s][i].called => i \in 1 .. Len(marks[s])
      OBVIOUS
    <3>1. CASE i \in 1 .. Len(marks[s])
      BY <1>2, <2>1, <2>2, <3>1
    <3>2. CASE i = Len(marks[s]) + 1
      BY <1>2, <2>2, <3>2
    <3> QED BY <1>2, <3>1, <3>2
  <2>4. \A i, j \in 1 .. Len(marks'[s]) : i <= j => marks'[s][i].sp <= marks'[s][j].sp
    <3> SUFFICES ASSUME NEW i \in 1 .. Len(marks'[s]), NEW j \in 1 .. Len(marks'[s]), i <= j
                 PROVE marks'[s][i].sp <= marks'[s][j].sp
      OBVIOUS
    <3>1. CASE j \in 1 .. Len(marks[s])
      <4>1. i \in 1 .. Len(marks[s])
        BY <1>2, <3>1
      <4>2. marks[s][i].sp <= marks[s][j].sp
        BY <3>1, <4>1 DEF DepthInv, MarksNest
      <4> QED BY <1>2, <3>1, <4>1, <4>2
    <3>2. CASE j = Len(marks[s]) + 1
      BY <1>2, <2>3, <3>2
    <3> QED BY <1>2, <3>1, <3>2
  <2> QED BY <1>1, <1>2, <1>3, <2>3, <2>4 DEF DepthInv, MarksNest, autoVars
<1> QED BY <1>4, <1>5, <1>6, DepthFromParts

\* PCall's deferred SetSp(sp) brings the stack back to depth sp.
LEMMA LeavePCallEffect ==
  ASSUME Inv, DepthInv, NEW s \in State, LeavePCall(s)
  PROVE  /\ Sp(s)' = Floor(s) /\ Floor(s) <= Sp(s)
         /\ s \in minimize => segSp'[s] < FramesPerSegment
         /\ \A i \in Nat : i < Floor(s) => At(s, i)' = At(s, i)
         /\ \A t \in State : t # s => Kept(t)
<1>1. /\ ~closed[s] /\ marks[s] # << >> /\ SetSp(s, Floor(s)) /\ UNCHANGED <<minimize, closed>>
      /\ raising[s] \/ Top(marks[s]).called
      /\ raising' = [raising EXCEPT ![s] = FALSE]
      /\ marks' = [marks EXCEPT ![s] = SubSeq(@, 1, Len(@) - 1)]
  BY DEF LeavePCall
<1>2. \A t \in State : t # s => marks'[t] = marks[t] /\ raising'[t] = raising[t]
  BY <1>1 DEF Inv, MarkType
<1>3. /\ Len(marks[s]) \in Nat \ {0} /\ Floor(s) \in Nat
      /\ Floor(s) = marks[s][Len(marks[s])].sp /\ Top(marks[s]) = marks[s][Len(marks[s])]
  BY <1>1, FloorNat DEF Inv, Floor, Top
<1>4. Floor(s) <= Sp(s)
  BY <1>3 DEF DepthInv, MarksNest
<1>5. CASE s \in minimize
  <2>1. AutoSetSp(s, Floor(s)) /\ UNCHANGED fixedVars /\ Sp(s) = AutoSp(s) /\ Sp(s)' = AutoSp(s)'
    BY <1>1, <1>5 DEF SetSp, Sp
  <2>2. Top(marks[s]).called
    BY <1>1, <1>5 DEF DepthInv, MarksNest, CalleeEntered
  <2>3. Floor(s) = AutoSp(s) => segSp[s] < FramesPerSegment
    <3>1. \A i \in 1 .. Len(marks[s]) :
            marks[s][i].called /\ marks[s][i].sp = Sp(s) => segSp[s] < FramesPerSegment
      BY <1>5 DEF DepthInv, MarksNest
    <3>2. Len(marks[s]) \in 1 .. Len(marks[s])
      BY <1>3
    <3> QED BY <1>3, <2>1, <2>2, <3>1, <3>2
  <2>4. /\ KeptIn(heap, s, Floor(s))
        /\ AutoSp(s)' = Floor(s)
        /\ segSp'[s] < FramesPerSegment
    BY <1>1, <1>3, <1>4, <1>5, <2>1, <2>3, AutoSetSpKept DEF Inv
  <2>5. \A t \in State : t # s => segIdx'[t] = segIdx[t] /\ segSp'[t] = segSp[t]
    BY <2>1 DEF AutoSetSp, Inv, AutoInv, AutoType
  <2>6. \A t \in State : t # s => Kept(t)
    BY <1>1, <1>2, <2>1, <2>4, <2>5, OthersKeptAuto
  <2>7. \A i \in Nat : i < Floor(s) => At(s, i)' = At(s, i)
    BY <1>1, <1>5, <2>4 DEF KeptIn, AutoAt, At
  <2> QED BY <1>4, <2>1, <2>4, <2>6, <2>7
<1>6. CASE s \notin minimize
  <2>1. sp' = [sp EXCEPT ![s] = Floor(s)] /\ UNCHANGED array /\ UNCHANGED autoVars
    BY <1>1, <1>6 DEF SetSp, FixedSetSp
  <2>2. sp'[s] = Floor(s) /\ \A t \in State : t # s => sp'[t] = sp[t]
    BY <2>1 DEF Inv, FixedType, SpType
  <2>3. Sp(s)' = Floor(s) /\ \A i \in Nat : At(s, i)' = At(s, i)
    BY <1>1, <1>6, <2>1, <2>2 DEF Sp, At
  <2>4. \A t \in State : t # s => Kept(t)
    BY <1>1, <1>2, <1>6, <2>1, <2>2, OthersKeptFixed
  <2> QED BY <1>4, <1>6, <2>3, <2>4
<1> QED BY <1>5, <1>6

\* The deferred function of PCall keeps the depth invariant.
LEMMA LeavePCallDepth ==
  ASSUME Inv, DepthInv, NEW s \in State, LeavePCall(s)
  PROVE  DepthInv'
<1>1. /\ Sp(s)' = Floor(s) /\ Floor(s) <= Sp(s)
      /\ s \in minimize => segSp'[s] < FramesPerSegment
      /\ \A i \in Nat : i < Floor(s) => At(s, i)' = At(s, i)
      /\ \A t \in State : t # s => Kept(t)
  BY LeavePCallEffect
<1>2. /\ ~closed[s] /\ marks[s] # << >> /\ UNCHANGED <<minimize, closed>>
      /\ raising' = [raising EXCEPT ![s] = FALSE]
      /\ marks' = [marks EXCEPT ![s] = SubSeq(@, 1, Len(@) - 1)]
  BY DEF LeavePCall
<1>3. /\ Len(marks'[s]) = Len(marks[s]) - 1
      /\ \A i \in 1 .. Len(marks[s]) - 1 : marks'[s][i] = marks[s][i]
  BY <1>2, MarksPopped DEF Inv
<1>4. /\ Len(marks[s]) \in Nat \ {0} /\ Floor(s) \in Nat /\ Sp(s) \in Nat
      /\ Floor(s) = marks[s][Len(marks[s])].sp
  BY <1>2, FloorNat, SpNat DEF Inv, Floor, Top
<1>5. ~raising'[s]
  BY <1>2 DEF Inv, MarkType
<1>6. MarksNest(s)'
  <2>1. \A i \in 1 .. Len(marks[s]) - 1 : marks[s][i].sp <= Floor(s) /\ marks[s][i].called
    <3>1. /\ \A i, j \in 1 .. Len(marks[s]) : i <= j => marks[s][i].sp <= marks[s][j].sp
          /\ \A i \in 1 .. Len(marks[s]) : i < Len(marks[s]) => marks[s][i].called
      BY DEF DepthInv, MarksNest
    <3> QED BY <1>4, <3>1
  <2>2. \A i, j \in 1 .. Len(marks[s]) - 1 : i <= j => marks[s][i].sp <= marks[s][j].sp
    <3>1. \A i, j \in 1 .. Len(marks[s]) : i <= j => marks[s][i].sp <= marks[s][j].sp
      BY DEF DepthInv, MarksNest
    <3> QED BY <1>4, <3>1
  <2> QED BY <1>1, <1>2, <1>3, <1>4, <1>5, <2>1, <2>2 DEF MarksNest
<1>7. FramesKnow(s)'
  BY <1>1, <1>2, <1>4 DEF FramesKnow, DepthInv
<1> QED BY <1>1, <1>6, <1>7, DepthFromParts

\* newLState makes an empty stack and leaves the others alone.
LEMMA NewStateEffect ==
  ASSUME Inv, NEW s \in State, NewState(s)
  PROVE  /\ Sp(s) = 0 /\ Sp(s)' = 0 /\ marks[s] = << >>
         /\ \A t \in State : t # s => Kept(t)
<1>1. /\ closed[s] /\ UNCHANGED <<marks, raising, segIdx, segSp, heap>> /\ UNCHANGED fixedVars
      /\ closed' = [closed EXCEPT ![s] = FALSE]
      /\ \A t \in State : t # s => (t \in minimize' <=> t \in minimize)
  BY DEF NewState, autoVars
<1>2. segIdx[s] = 0 /\ segSp[s] = 0 /\ sp[s] = 0 /\ marks[s] = << >>
  BY <1>1 DEF Inv, UnusedEmpty
<1>3. \A t \in State : Sp(t)' = IF t = s THEN 0 ELSE Sp(t)
  <2>1. Sp(s)' = 0
    BY <1>1, <1>2, SizeAssumption DEF Sp, AutoSp, fixedVars
  <2>2. \A t \in State : t # s => Sp(t)' = Sp(t)
    BY <1>1 DEF Sp, AutoSp, fixedVars
  <2> QED BY <2>1, <2>2
<1>4. \A t \in State : t # s => closed'[t] = closed[t] /\ segments'[t] = segments[t]
  BY <1>1 DEF NewState, autoVars, Inv, AutoInv, AutoType, SegmentsType
<1>5. \A t \in State : t # s => Kept(t)
  BY <1>1, <1>3, <1>4 DEF Kept, At, fixedVars
<1>6. Sp(s) = 0
  BY <1>2, SizeAssumption DEF Sp, AutoSp
<1> QED BY <1>2, <1>3, <1>5, <1>6

\* newLState keeps the depth invariant.
LEMMA NewStateDepth ==
  ASSUME Inv, DepthInv, NEW s \in State, NewState(s)
  PROVE  DepthInv'
<1>1. Sp(s)' = 0 /\ marks[s] = << >> /\ \A t \in State : t # s => Kept(t)
  BY NewStateEffect
<1>2. MarksNest(s)' /\ FramesKnow(s)'
  <2>1. UNCHANGED marks
    BY DEF NewState
  <2>2. Len(marks'[s]) = 0 /\ CalleeEntered(s)'
    BY <1>1, <2>1, EmptySeq DEF CalleeEntered
  <2> QED BY <1>1, <2>2 DEF MarksNest, FramesKnow
<1> QED BY <1>1, <1>2, DepthFromParts

\* LState.Close leaves the other stacks alone: no segment it frees is theirs.
LEMMA CloseEffect ==
  ASSUME Inv, NEW s \in State, Close(s)
  PROVE  \A t \in State : t # s => Kept(t)
<1>1. /\ ~closed[s] /\ marks[s] = << >> /\ UNCHANGED <<minimize, marks>>
      /\ closed' = [closed EXCEPT ![s] = TRUE]
      /\ raising' = [raising EXCEPT ![s] = FALSE]
  BY DEF Close
<1>2. /\ closed'[s]
      /\ \A t \in State : t # s => closed'[t] = closed[t] /\ raising'[t] = raising[t]
  BY <1>1 DEF Inv, AutoInv, AutoType, MarkType
<1>3. \A t \in State : t # s => Kept(t)
  <2>1. CASE s \notin minimize
    <3>1. \A t \in State : t # s => array'[t] = array[t] /\ sp'[t] = sp[t]
      BY <2>1 DEF Close, Inv, FixedType, ArrayType, SpType
    <3>2. UNCHANGED autoVars
      BY <2>1 DEF Close
    <3>3. \A t \in State : t # s => Sp(t)' = Sp(t) /\ \A i \in Nat : At(t, i)' = At(t, i)
      BY <1>1, <3>1, <3>2 DEF Sp, AutoSp, At, autoVars
    <3> QED BY <1>1, <1>2, <3>2, <3>3 DEF Kept, autoVars
  <2>2. CASE s \in minimize
    <3> DEFINE S == 0 .. segIdx[s]
    <3>1. /\ pool' = PoolAfterPut(s, S) /\ heap' = HeapAfterPut(heap, s, S)
          /\ segments' = Detach(s, S) /\ UNCHANGED fixedVars
          /\ \A t \in State : t # s => segIdx'[t] = segIdx[t] /\ segSp'[t] = segSp[t]
      BY <2>2 DEF Close, Inv, AutoInv, AutoType
    <3>2. S \in Slots(s) /\ heap \in Heaps
      BY DEF Slots, Inv, AutoInv, AutoType
    <3> HIDE DEF S
    <3>3. SlotsBecome(s, S, nil)
      BY <1>1, <2>2, <3>1, <3>2, PutOwned DEF Inv
    <3> SUFFICES ASSUME NEW t \in State, t # s PROVE Kept(t)
      OBVIOUS
    <3>4. Sp(t)' = Sp(t)
      BY <1>1, <3>1 DEF Sp, AutoSp, fixedVars
    <3>5. ASSUME ~closed[t], NEW i \in Nat, i < Sp(t) PROVE At(t, i)' = At(t, i)
      <4>1. CASE t \notin minimize
        BY <1>1, <3>1, <4>1 DEF At, fixedVars
      <4>2. CASE t \in minimize
        <5> DEFINE j == i \div FramesPerSegment
        <5>1. j \in 0 .. NSegments(t) - 1 /\ segments[t][j] \in SegId
          BY <3>5, <4>2, SlotOf DEF Sp, Inv
        <5>2. segments'[t][j] = segments[t][j]
          BY <3>3, <5>1 DEF SlotsBecome
        <5>3. segments[t][j] \notin Put(s, S)
          <6> SUFFICES ASSUME NEW k \in S, segments[t][j] = segments[s][k] PROVE FALSE
            BY DEF Put
          <6>1. k \in 0 .. NSegments(s) - 1
            BY NSegmentsNat DEF S, Inv, AutoInv, AutoType
          <6> HIDE DEF j
          <6> QED BY <5>1, <6>1, NameAssumption DEF Inv, AutoInv, SegmentsOwned
        <5>4. heap'[segments[t][j]] = heap[segments[t][j]]
          BY <3>1, <5>1, <5>3 DEF HeapAfterPut
        <5> QED BY <1>1, <4>2, <5>2, <5>4 DEF At
      <4> QED BY <4>1, <4>2
    <3> QED BY <1>1, <1>2, <3>1, <3>4, <3>5 DEF Kept
  <2> QED BY <2>1, <2>2
<1> QED BY <1>3

\* LState.Close keeps the depth invariant.
LEMMA CloseDepth ==
  ASSUME Inv, DepthInv, NEW s \in State, Close(s)
  PROVE  DepthInv'
<1>1. marks[s] = << >> /\ UNCHANGED marks /\ closed'[s]
  BY DEF Close, Inv, AutoInv, AutoType
<1>2. MarksNest(s)' /\ FramesKnow(s)'
  <2>1. Len(marks'[s]) = 0 /\ CalleeEntered(s)'
    BY <1>1, EmptySeq DEF CalleeEntered
  <2> QED BY <1>1, <2>1 DEF MarksNest, FramesKnow
<1> QED BY <1>2, CloseEffect, DepthFromParts

\* An error keeps the depth invariant if, on a segmented stack, the callee of
\* the innermost PCall has its frame.
LEMMA RaiseErrorDepth ==
  ASSUME Inv, DepthInv, NEW s \in State, RaiseError(s), s \in minimize => CalleeEntered(s)
  PROVE  DepthInv'
<1>1. /\ UNCHANGED <<minimize, marks, closed, autoVars, fixedVars>>
      /\ \A t \in State : t # s => raising'[t] = raising[t]
  BY DEF RaiseError, Inv, MarkType
<1>2. \A t \in State : Sp(t)' = Sp(t) /\ \A i \in Nat : At(t, i)' = At(t, i)
  BY <1>1 DEF Sp, AutoSp, At, autoVars, fixedVars
<1>3. \A t \in State : t # s => Kept(t)
  BY <1>1, <1>2 DEF Kept, autoVars
<1>4. MarksNest(s)' /\ FramesKnow(s)'
  BY <1>1, <1>2 DEF DepthInv, MarksNest, FramesKnow, CalleeEntered, Top, autoVars
<1> QED BY <1>3, <1>4, DepthFromParts

\* Every step of Next keeps the depth invariant.
LEMMA StepDepth ==
  ASSUME Inv, DepthInv, [Next]_vars
  PROVE  DepthInv'
<1>1. CASE UNCHANGED vars
  <2>1. \A t \in State : Kept(t)
    BY <1>1 DEF Kept, vars, autoVars, fixedVars, Sp, AutoSp, At
  <2> QED BY <2>1, KeptDepth DEF DepthInv
<1>2. ASSUME NEW s \in State,
             Step(s) \/ ((s \in minimize => CalleeEntered(s)) /\ (StackOverflow(s) \/ Fail(s)))
      PROVE DepthInv'
  <2>1. ASSUME NEW f \in Code[s], pushCallFrame(s, f) PROVE DepthInv'
    <3>1. f \in Fn
      BY NameAssumption
    <3> QED BY <2>1, <3>1, PushDepth
  <2>2. StackOverflow(s) \/ Fail(s) => RaiseError(s)
    BY DEF StackOverflow, Fail
  <2> QED BY <1>2, <2>1, <2>2, NewStateDepth, ReturnDepth, RemoveCallerFrameDepth,
             EnterPCallDepth, LeavePCallDepth, CloseDepth, RaiseErrorDepth DEF Step
<1> QED BY <1>1, <1>2 DEF Next

\* The depth invariant holds before any LState exists.
LEMMA InitDepth == Init => DepthInv
<1> SUFFICES ASSUME Init, NEW s \in State PROVE MarksNest(s) /\ FramesKnow(s)
  BY DEF DepthInv
<1>1. closed[s] /\ Len(marks[s]) = 0 /\ CalleeEntered(s)
  BY EmptySeq DEF Init, CalleeEntered
<1> QED BY <1>1 DEF MarksNest, FramesKnow

\* The steps of Spec are steps of FullSpec.
LEMMA NextIsFull == [Next]_vars => [FullNext]_vars
BY DEF Next, FullNext

\* The depth invariant (PCalls nest, a remembered depth is never that of a full
\* segment once the callee is pushed, frames know their depth) holds with the
\* ownership invariant of FullInvariant.
THEOREM Invariant == Spec => [](Inv /\ DepthInv)
<1>1. Init => Inv /\ DepthInv
  BY InitInv, InitDepth
<1>2. Inv /\ DepthInv /\ [Next]_vars => (Inv /\ DepthInv)'
  BY StepInv, StepDepth, NextIsFull
<1> QED BY <1>1, <1>2, PTL DEF Spec

\* The specification the run checks has the invariants of the larger one.
THEOREM TypeCorrect == Spec => []TypeOK
BY Invariant, InvTypeOK, PTL

\* In every stack every frame is a pushed one and knows its own depth.
THEOREM FramesKnowDepth == Spec => []FrameKnowsDepth
<1>1. Inv /\ DepthInv => FrameKnowsDepth
  <2> SUFFICES ASSUME Inv, DepthInv, NEW s \in State, ~closed[s], NEW i \in 0 .. Sp(s) - 1
               PROVE At(s, i).Idx = i /\ At(s, i).fn \in Fn
    BY DEF FrameKnowsDepth
  <2>1. i \in Nat /\ i < Sp(s)
    BY SpNat
  <2> QED BY <2>1 DEF DepthInv, FramesKnow
<1> QED BY <1>1, Invariant, PTL

\* Only LeavePCall shortens the list of PCalls in progress.
LEMMA MarksShorten ==
  ASSUME Inv, [FullNext]_vars, NEW s \in State, Len(marks'[s]) < Len(marks[s])
  PROVE  LeavePCall(s)
<1>0. Len(marks[s]) \in Nat
  BY DEF Inv, MarkType
<1>1. CASE UNCHANGED marks
  BY <1>0, <1>1
<1>2. CASE ~UNCHANGED marks
  <2>1. PICK t \in State : Step(t) \/ StackOverflow(t) \/ Fail(t)
    BY <1>2 DEF FullNext, vars
  <2>2. \/ \E f \in Code[t] : pushCallFrame(t, f)
        \/ EnterPCall(t) \/ LeavePCall(t)
    BY <1>2, <2>1 DEF Step, NewState, Return, RemoveCallerFrame, Close, StackOverflow, Fail, RaiseError
  <2>3. ~\E f \in Code[t] : pushCallFrame(t, f)
    <3> SUFFICES ASSUME NEW f \in Code[t], pushCallFrame(t, f) PROVE FALSE
      OBVIOUS
    <3>1. Len(marks'[s]) = Len(marks[s])
      BY MarksCalled DEF Inv, pushCallFrame
    <3> QED BY <1>0, <3>1
  <2>4. ~EnterPCall(t)
    <3> SUFFICES ASSUME EnterPCall(t) PROVE FALSE
      OBVIOUS
    <3>1. (s = t => Len(marks'[s]) = Len(marks[s]) + 1) /\ (s # t => marks'[s] = marks[s])
      BY MarksPushed DEF EnterPCall
    <3> QED BY <1>0, <3>1
  <2>5. s = t
    <3>1. s # t => marks'[s] = marks[s]
      BY <2>2, <2>3, <2>4 DEF LeavePCall, Inv, MarkType
    <3> QED BY <1>0, <3>1
  <2> QED BY <2>2, <2>3, <2>4, <2>5
<1> QED BY <1>1, <1>2

\* Whatever happened in the protected call, PCall's SetSp leaves the stack at the
\* depth PCall saw, in both implementations, for every segment size.
THEOREM PCallRestores == Spec => PCallRestoresDepth
<1>1. Inv /\ DepthInv /\ [Next]_vars =>
        [\A s \in State : Len(marks'[s]) < Len(marks[s]) => Sp(s)' = Floor(s)]_vars
  BY NextIsFull, MarksShorten, LeavePCallEffect
<1> QED BY <1>1, Invariant, PTL DEF Spec, PCallRestoresDepth

-----------------------------------------------------------------------------
(* Every step of CallFrameStack is a step of FrameStack on the frames       *)
(* At(0) .. At(Sp - 1), whatever the segments they are in.                  *)

\* The refinement mapping: what FrameStack sees of the stacks.
AllFrames == [t \in State |-> Frames(t)]
AllCapacity == [t \in State |-> Capacity(t)]

\* A stack that is not in use has no frames.
LEMMA ClosedSp ==
  ASSUME Inv, NEW s \in State, closed[s]
  PROVE  Sp(s) = 0
<1>1. segIdx[s] = 0 /\ segSp[s] = 0 /\ sp[s] = 0
  BY DEF Inv, UnusedEmpty
<1> QED BY <1>1, SizeAssumption DEF Sp, AutoSp

\* The frames of a stack, oldest first, are the functions of At(0) .. At(Sp - 1).
LEMMA FramesSeq ==
  ASSUME Inv, DepthInv, NEW s \in State
  PROVE  /\ Frames(s) \in Seq(Fn)
         /\ Len(Frames(s)) = Sp(s) /\ Sp(s) \in Nat
         /\ \A i \in 1 .. Sp(s) : Frames(s)[i] = At(s, i - 1).fn
<1>1. Sp(s) \in Nat
  BY SpNat
<1>2. \A i \in 1 .. Sp(s) : At(s, i - 1).fn \in Fn
  <2>1. CASE closed[s]
    <3>1. Sp(s) = 0
      BY <2>1, ClosedSp
    <3> QED BY <3>1
  <2>2. CASE ~closed[s]
    <3> SUFFICES ASSUME NEW i \in 1 .. Sp(s) PROVE At(s, i - 1).fn \in Fn
      OBVIOUS
    <3>1. i - 1 \in Nat /\ i - 1 < Sp(s)
      BY <1>1
    <3> QED BY <2>2, <3>1 DEF DepthInv, FramesKnow
  <2> QED BY <2>1, <2>2
<1>3. Frames(s) \in [1 .. Sp(s) -> Fn]
  BY <1>2 DEF Frames
<1>4. Frames(s) \in Seq(Fn) /\ Len(Frames(s)) = Sp(s)
  BY <1>1, <1>3, FunctionIsSeq
<1> QED BY <1>1, <1>4 DEF Frames

\* The frames after a step, from its effect on Sp and At.
LEMMA FramesAfter ==
  ASSUME NEW s \in State, NEW n \in Nat, Sp(s)' = n,
         NEW g, \A i \in 1 .. n : At(s, i - 1)'.fn = g[i]
  PROVE  Frames(s)' = [i \in 1 .. n |-> g[i]]
BY DEF Frames

\* A stack the step leaves alone shows the same frames and capacity.
LEMMA KeptFrames ==
  ASSUME Inv, NEW t \in State, Kept(t)
  PROVE  Frames(t)' = Frames(t) /\ Capacity(t)' = Capacity(t)
<1>1. Sp(t)' = Sp(t) /\ Sp(t) \in Nat
  BY SpNat DEF Kept
<1>2. \A i \in 1 .. Sp(t) : At(t, i - 1)' = At(t, i - 1)
  <2>1. CASE closed[t]
    <3>1. Sp(t) = 0
      BY <2>1, ClosedSp
    <3> QED BY <3>1
  <2>2. CASE ~closed[t]
    <3> SUFFICES ASSUME NEW i \in 1 .. Sp(t) PROVE At(t, i - 1)' = At(t, i - 1)
      OBVIOUS
    <3>1. i - 1 \in Nat /\ i - 1 < Sp(t)
      BY <1>1
    <3> QED BY <2>2, <3>1 DEF Kept
  <2> QED BY <2>1, <2>2
<1>3. Frames(t)' = Frames(t)
  BY <1>1, <1>2 DEF Frames
<1>4. Capacity(t)' = Capacity(t)
  BY DEF Kept, Capacity, NSegments
<1> QED BY <1>3, <1>4

\* A step on stack s alone changes one entry of AllFrames.
LEMMA AllFramesAfter ==
  ASSUME Inv, NEW s \in State, NEW q, Frames(s)' = q, \A t \in State : t # s => Kept(t)
  PROVE  AllFrames' = [AllFrames EXCEPT ![s] = q]
<1>1. \A t \in State : t # s => Frames(t)' = Frames(t)
  BY KeptFrames
<1> QED BY <1>1 DEF AllFrames

\* A step that leaves the kind of stack s leaves every capacity.
LEMMA AllCapacityAfter ==
  ASSUME UNCHANGED minimize
  PROVE  AllCapacity' = AllCapacity
BY DEF AllCapacity, Capacity, NSegments

\* Append, position by position.
LEMMA AppendIs ==
  ASSUME NEW S, NEW q \in Seq(S), NEW x \in S, NEW g, g = [i \in 1 .. Len(q) + 1 |-> g[i]],
         \A i \in 1 .. Len(q) + 1 : g[i] = IF i = Len(q) + 1 THEN x ELSE q[i]
  PROVE  g = Append(q, x)
<1> DEFINE n == Len(q) + 1
<1>1. n \in Nat /\ g \in [1 .. n -> S]
  OBVIOUS
<1>2. g \in Seq(S) /\ Len(g) = n
  BY <1>1, FunctionIsSeq
<1>3. Append(q, x) \in Seq(S) /\ Len(Append(q, x)) = n
  OBVIOUS
<1>4. \A i \in 1 .. n : Append(q, x)[i] = g[i]
  OBVIOUS
<1> HIDE DEF n
<1> QED BY <1>2, <1>3, <1>4, SeqEqual

\* A prefix, position by position.
LEMMA SubSeqIs ==
  ASSUME NEW S, NEW q \in Seq(S), NEW n \in 0 .. Len(q)
  PROVE  /\ SubSeq(q, 1, n) = [i \in 1 .. n |-> q[i]]
         /\ SubSeq(q, 1, n) \in Seq(S) /\ Len(SubSeq(q, 1, n)) = n
OBVIOUS

\* A stack that takes another frame is not deeper than its capacity: the
\* segments allocated at once hold NSegments * FramesPerSegment frames.
LEMMA PushHasRoom ==
  ASSUME Inv, NEW s \in State, NEW f \in Fn, pushCallFrame(s, f)
  PROVE  Sp(s) < Capacity(s)
<1>1. ~IsFull(s) /\ Push(s, f)
  BY DEF pushCallFrame
<1>2. CASE s \notin minimize
  BY <1>1, <1>2, SizeAssumption DEF IsFull, Sp, Capacity, Inv, FixedType, SpType
<1>3. CASE s \in minimize
  <2> DEFINE F == FramesPerSegment
             N == NSegments(s)
             r == segSp[s]
             k == segIdx[s]
  <2>1. N \in Nat \ {0} /\ F \in Nat \ {0} /\ r \in 0 .. F /\ k \in 0 .. N - 1
    BY NSegmentsNat, SizeAssumption DEF Inv, AutoInv, AutoType
  <2>2. r < F \/ k < N - 1
    BY <1>1, <1>3 DEF Push, AutoPush
  <2>3. Sp(s) = r + k * F /\ Capacity(s) = N * F
    BY <1>3 DEF Sp, AutoSp, Capacity
  <2> HIDE DEF F, N, r, k
  <2>4. \A a, b \in Nat : a < b => a * F + F <= b * F
    BY <2>1
  <2>5. CASE r < F
    BY <2>1, <2>3, <2>4, <2>5
  <2>6. CASE k < N - 1
    <3>1. (k + 1) * F + F <= N * F /\ (k + 1) * F = k * F + F
      BY <2>1, <2>4, <2>6
    <3> QED BY <2>1, <2>3, <3>1
  <2> QED BY <2>2, <2>5, <2>6
<1> QED BY <1>2, <1>3

\* newLState opens an empty stack.
LEMMA NewStateOpens ==
  ASSUME Inv, NEW s \in State, NewState(s)
  PROVE  Abstract!Open(s)
<1>1. /\ Sp(s) = 0 /\ Sp(s)' = 0 /\ \A t \in State : t # s => Kept(t)
      /\ closed[s] /\ closed' = [closed EXCEPT ![s] = FALSE] /\ UNCHANGED <<marks, raising>>
  BY NewStateEffect DEF NewState
<1>2. Frames(s)' = Frames(s)
  BY <1>1 DEF Frames
<1>3. \A t \in State : t # s => Frames(t)' = Frames(t) /\ Capacity(t)' = Capacity(t)
  BY <1>1, KeptFrames
<1>4. AllFrames' = AllFrames
  BY <1>2, <1>3 DEF AllFrames
<1>5. \A t \in State : Capacity(t)' \in Nat
  BY NSegmentsNat, SizeAssumption DEF Capacity, NSegments
<1>6. /\ AllCapacity' \in [State -> Nat]
      /\ \A t \in State \ {s} : AllCapacity'[t] = AllCapacity[t]
  BY <1>3, <1>5 DEF AllCapacity
<1> QED BY <1>1, <1>4, <1>6 DEF Abstract!Open, AllFrames, AllCapacity

\* pushCallFrame puts one function on top, below the capacity.
LEMMA PushCalls ==
  ASSUME Inv, DepthInv, NEW s \in State, NEW f \in Fn, pushCallFrame(s, f)
  PROVE  Abstract!Call(s, f)
<1>1. /\ Sp(s)' = Sp(s) + 1
      /\ \A i \in Nat : i < Sp(s) => At(s, i)' = At(s, i)
      /\ \A i \in Nat : i = Sp(s) => At(s, i)' = [fn |-> f, Idx |-> i]
      /\ \A t \in State : t # s => Kept(t)
  BY PushEffect
<1>2. /\ Frames(s) \in Seq(Fn) /\ Len(Frames(s)) = Sp(s) /\ Sp(s) \in Nat
      /\ \A i \in 1 .. Sp(s) : Frames(s)[i] = At(s, i - 1).fn
  BY FramesSeq
<1> DEFINE n == Sp(s) + 1
           g == [i \in 1 .. n |-> IF i = n THEN f ELSE Frames(s)[i]]
<1>3. ASSUME NEW i \in 1 .. n PROVE At(s, i - 1)'.fn = g[i]
  <2>1. CASE i = n
    <3>1. i - 1 \in Nat /\ i - 1 = Sp(s)
      BY <1>2, <2>1
    <3> QED BY <1>1, <2>1, <3>1
  <2>2. CASE i # n
    <3>1. i \in 1 .. Sp(s) /\ i - 1 \in Nat /\ i - 1 < Sp(s)
      BY <1>2, <2>2
    <3> QED BY <1>1, <1>2, <2>2, <3>1
  <2> QED BY <2>1, <2>2
<1>4. g = Append(Frames(s), f)
  <2>1. n = Len(Frames(s)) + 1
    BY <1>2
  <2>2. g = [i \in 1 .. n |-> g[i]] /\ \A i \in 1 .. n : g[i] = IF i = n THEN f ELSE Frames(s)[i]
    OBVIOUS
  <2> HIDE DEF n, g
  <2> QED BY <1>2, <2>1, <2>2, AppendIs, ZenonT(40)
<1>5. n \in Nat /\ Sp(s)' = n /\ g = [i \in 1 .. n |-> g[i]]
  BY <1>1, <1>2
<1> HIDE DEF g, n
<1>6. Frames(s)' = g
  BY <1>3, <1>5, FramesAfter, ZenonT(40)
<1>7. AllFrames' = [AllFrames EXCEPT ![s] = Append(Frames(s), f)]
  BY <1>1, <1>4, <1>6, AllFramesAfter
<1>8. Len(Frames(s)) < Capacity(s)
  BY <1>2, PushHasRoom
<1>9. AllFrames[s] = Frames(s) /\ AllCapacity[s] = Capacity(s)
  BY DEF AllFrames, AllCapacity
<1>10. /\ Running(s) /\ UNCHANGED <<minimize, raising, closed>>
       /\ marks' = [marks EXCEPT ![s] =
                      [i \in 1..Len(@) |-> IF i = Len(@) THEN [@[i] EXCEPT !.called = TRUE]
                                                         ELSE @[i]]]
  BY DEF pushCallFrame
<1>11. AllCapacity' = AllCapacity
  BY <1>10, AllCapacityAfter
<1> QED BY <1>7, <1>8, <1>9, <1>10, <1>11
        DEF Abstract!Call, Abstract!Running, Running, AllFrames, AllCapacity

\* A step that pops s to depth n keeping the frames below shows a prefix.
LEMMA CutFrames ==
  ASSUME Inv, DepthInv, NEW s \in State, NEW n \in Nat, n <= Sp(s), Sp(s)' = n,
         \A i \in Nat : i < n => At(s, i)' = At(s, i)
  PROVE  Frames(s)' = SubSeq(Frames(s), 1, n)
<1>1. /\ Frames(s) \in Seq(Fn) /\ Len(Frames(s)) = Sp(s) /\ Sp(s) \in Nat
      /\ \A i \in 1 .. Sp(s) : Frames(s)[i] = At(s, i - 1).fn
  BY FramesSeq
<1>2. ASSUME NEW i \in 1 .. n PROVE At(s, i - 1)'.fn = Frames(s)[i]
  <2>1. i - 1 \in Nat /\ i - 1 < n /\ i \in 1 .. Sp(s)
    BY <1>1
  <2> QED BY <1>1, <2>1
<1>3. Frames(s)' = [i \in 1 .. n |-> Frames(s)[i]]
  BY <1>2, FramesAfter
<1>4. n \in 0 .. Len(Frames(s))
  BY <1>1
<1> QED BY <1>1, <1>3, <1>4, SubSeqIs

\* A return takes the top function away.
LEMMA ReturnReturns ==
  ASSUME Inv, DepthInv, NEW s \in State, Return(s)
  PROVE  Abstract!Return(s)
<1>1. /\ Sp(s)' = Sp(s) - 1 /\ \A t \in State : t # s => Kept(t)
      /\ \A i \in Nat : i < Sp(s) - 1 => At(s, i)' = At(s, i)
  BY ReturnEffect DEF PopTo
<1>2. Running(s) /\ Sp(s) > Floor(s) /\ UNCHANGED <<minimize, marks, raising, closed>>
  BY DEF Return
<1>3. Len(Frames(s)) = Sp(s) /\ Sp(s) \in Nat /\ Floor(s) \in Nat
  BY FramesSeq, FloorNat DEF Inv
<1>4. Sp(s) - 1 \in Nat /\ Sp(s) - 1 <= Sp(s)
  BY <1>2, <1>3
<1>5. Frames(s)' = SubSeq(Frames(s), 1, Len(Frames(s)) - 1)
  BY <1>1, <1>3, <1>4, CutFrames
<1>6. AllFrames' = [AllFrames EXCEPT ![s] = SubSeq(Frames(s), 1, Len(Frames(s)) - 1)]
  BY <1>1, <1>5, AllFramesAfter
<1>7. AllFrames[s] = Frames(s)
  BY DEF AllFrames
<1>8. AllCapacity' = AllCapacity
  BY <1>2, AllCapacityAfter
<1> QED BY <1>2, <1>3, <1>6, <1>7, <1>8
        DEF Abstract!Return, Abstract!Running, Abstract!Floor, Running, Floor, Top, AllFrames, AllCapacity

\* RemoveCallerFrame puts the top function in the place of the one below it.
LEMMA RemoveCallerFrameReplaces ==
  ASSUME Inv, DepthInv, NEW s \in State, RemoveCallerFrame(s)
  PROVE  Abstract!ReplaceCaller(s)
<1>1. /\ Sp(s)' = Sp(s) - 1 /\ \A t \in State : t # s => Kept(t)
      /\ Sp(s) - 2 \in Nat
  BY RemoveCallerFrameEffect DEF PopTo
<1>2. PICK frm \in Frame :
        /\ frm.fn = At(s, Sp(s) - 1).fn /\ frm.fn \in Fn
        /\ \A i \in Nat : i < Sp(s) - 1 => At(s, i)' = IF i = Sp(s) - 2 THEN frm ELSE At(s, i)
  BY RemoveCallerFrameEffect
<1>3. Running(s) /\ Sp(s) >= Floor(s) + 2 /\ UNCHANGED <<minimize, marks, raising, closed>>
  BY DEF RemoveCallerFrame
<1>4. /\ Frames(s) \in Seq(Fn) /\ Len(Frames(s)) = Sp(s) /\ Sp(s) \in Nat
      /\ \A i \in 1 .. Sp(s) : Frames(s)[i] = At(s, i - 1).fn
  BY FramesSeq
<1> DEFINE n == Sp(s) - 1
           low == SubSeq(Frames(s), 1, Len(Frames(s)) - 2)
           top == Frames(s)[Len(Frames(s))]
           g == [i \in 1 .. n |-> IF i = n THEN top ELSE low[i]]
<1>5. top \in Fn /\ top = frm.fn
  BY <1>1, <1>2, <1>4
<1>6. low \in Seq(Fn) /\ Len(low) = n - 1 /\ low = [i \in 1 .. n - 1 |-> Frames(s)[i]] /\ n \in Nat
  <2>1. Len(Frames(s)) - 2 \in 0 .. Len(Frames(s)) /\ Len(Frames(s)) - 2 = n - 1
    BY <1>1, <1>4
  <2> QED BY <1>1, <1>4, <2>1, SubSeqIs
<1> HIDE DEF top, low
<1>7. ASSUME NEW i \in 1 .. n PROVE At(s, i - 1)'.fn = g[i]
  <2>1. CASE i = n
    <3>1. i - 1 \in Nat /\ i - 1 = Sp(s) - 2 /\ i - 1 < Sp(s) - 1
      BY <1>1, <1>4, <2>1
    <3> QED BY <1>2, <1>5, <2>1, <3>1
  <2>2. CASE i # n
    <3>1. i \in 1 .. Sp(s) /\ i \in 1 .. n - 1 /\ i - 1 \in Nat /\ i - 1 < Sp(s) - 1 /\ i - 1 # Sp(s) - 2
      BY <1>1, <1>4, <2>2
    <3>2. At(s, i - 1)' = At(s, i - 1)
      BY <1>2, <3>1
    <3> QED BY <1>4, <1>6, <2>2, <3>1, <3>2
  <2> QED BY <2>1, <2>2
<1>8. g = Append(low, top)
  <2>1. n = Len(low) + 1
    BY <1>6
  <2>2. g = [i \in 1 .. n |-> g[i]] /\ \A i \in 1 .. n : g[i] = IF i = n THEN top ELSE low[i]
    OBVIOUS
  <2>3. low \in Seq(Fn) /\ top \in Fn
    BY <1>5, <1>6
  <2> HIDE DEF n, g
  <2>4. /\ g = [i \in 1 .. Len(low) + 1 |-> g[i]]
        /\ \A i \in 1 .. Len(low) + 1 : g[i] = IF i = Len(low) + 1 THEN top ELSE low[i]
    BY <2>1, <2>2
  <2> QED BY <2>3, <2>4, AppendIs
<1>9. n \in Nat /\ Sp(s)' = n /\ g = [i \in 1 .. n |-> g[i]]
  BY <1>1, <1>6
<1> HIDE DEF g, n
<1>10. Frames(s)' = g
  BY <1>7, <1>9, FramesAfter, ZenonT(40)
<1>11. AllFrames' = [AllFrames EXCEPT ![s] = Append(low, top)]
  BY <1>1, <1>8, <1>10, AllFramesAfter
<1>12. AllFrames[s] = Frames(s)
  BY DEF AllFrames
<1>13. AllCapacity' = AllCapacity
  BY <1>3, AllCapacityAfter
<1> QED BY <1>3, <1>4, <1>11, <1>12, <1>13
        DEF Abstract!ReplaceCaller, Abstract!Running, Abstract!Floor, Running, Floor, Top,
            AllFrames, AllCapacity, low, top

\* A step that moves no stack shows the same frames and capacities.
LEMMA SameStacks ==
  ASSUME UNCHANGED <<minimize, autoVars, fixedVars>>
  PROVE  AllFrames' = AllFrames /\ AllCapacity' = AllCapacity
<1>1. \A t \in State : Frames(t)' = Frames(t)
  BY DEF Frames, Sp, AutoSp, At, autoVars, fixedVars
<1> QED BY <1>1, AllCapacityAfter DEF AllFrames

\* An error, of a full stack or of the running code, leaves the frames in place.
LEMMA ErrorRaises ==
  ASSUME NEW s \in State, StackOverflow(s) \/ Fail(s)
  PROVE  Abstract!Raise(s)
<1>1. Running(s) /\ RaiseError(s)
  BY DEF StackOverflow, Fail
<1>2. AllFrames' = AllFrames /\ AllCapacity' = AllCapacity
  BY <1>1, SameStacks DEF RaiseError
<1> QED BY <1>1, <1>2 DEF RaiseError, Abstract!Raise, Abstract!Running, Running, AllFrames, AllCapacity

\* PCall remembers the number of frames.
LEMMA EnterPCallEnters ==
  ASSUME Inv, DepthInv, NEW s \in State, EnterPCall(s)
  PROVE  Abstract!EnterPCall(s)
<1>1. /\ Running(s) /\ UNCHANGED <<minimize, autoVars, fixedVars, raising, closed>>
      /\ marks' = [marks EXCEPT ![s] = Append(@, [sp |-> Sp(s), called |-> FALSE])]
  BY DEF EnterPCall
<1>2. AllFrames' = AllFrames /\ AllCapacity' = AllCapacity
  BY <1>1, SameStacks
<1>3. AllFrames[s] = Frames(s) /\ Len(Frames(s)) = Sp(s)
  BY FramesSeq DEF AllFrames
<1> QED BY <1>1, <1>2, <1>3 DEF Abstract!EnterPCall, Abstract!Running, Running, AllFrames, AllCapacity

\* The deferred function of PCall leaves the frames that were there on entry.
LEMMA LeavePCallLeaves ==
  ASSUME Inv, DepthInv, NEW s \in State, LeavePCall(s)
  PROVE  Abstract!LeavePCall(s)
<1>1. /\ Sp(s)' = Floor(s) /\ Floor(s) <= Sp(s)
      /\ \A i \in Nat : i < Floor(s) => At(s, i)' = At(s, i)
      /\ \A t \in State : t # s => Kept(t)
  BY LeavePCallEffect
<1>2. /\ ~closed[s] /\ marks[s] # << >>
      /\ raising[s] \/ (Top(marks[s]).called /\ Sp(s) = Floor(s))
      /\ marks' = [marks EXCEPT ![s] = SubSeq(@, 1, Len(@) - 1)]
      /\ raising' = [raising EXCEPT ![s] = FALSE]
      /\ UNCHANGED <<minimize, closed>>
  BY DEF LeavePCall
<1>3. Floor(s) \in Nat /\ Len(Frames(s)) = Sp(s)
  BY FloorNat, FramesSeq DEF Inv
<1>4. Frames(s)' = SubSeq(Frames(s), 1, Floor(s))
  BY <1>1, <1>3, CutFrames
<1>5. AllFrames' = [AllFrames EXCEPT ![s] = SubSeq(Frames(s), 1, Floor(s))]
  BY <1>1, <1>4, AllFramesAfter
<1>6. AllFrames[s] = Frames(s)
  BY DEF AllFrames
<1>7. AllCapacity' = AllCapacity
  BY <1>2, AllCapacityAfter
<1> QED BY <1>2, <1>3, <1>5, <1>6, <1>7
        DEF Abstract!LeavePCall, Abstract!Floor, Floor, Top, AllFrames, AllCapacity

\* Close empties the stack.
LEMMA CloseCloses ==
  ASSUME Inv, NEW s \in State, Close(s)
  PROVE  Abstract!Close(s)
<1>1. /\ ~closed[s] /\ marks[s] = << >>
      /\ closed' = [closed EXCEPT ![s] = TRUE]
      /\ raising' = [raising EXCEPT ![s] = FALSE]
      /\ UNCHANGED <<minimize, marks>>
  BY DEF Close
<1>2. Sp(s)' = 0
  <2>1. CASE s \in minimize
    <3>1. segIdx'[s] = 0 /\ segSp'[s] = 0
      BY <2>1 DEF Close, Inv, AutoInv, AutoType
    <3> QED BY <1>1, <2>1, <3>1, SizeAssumption DEF Sp, AutoSp
  <2>2. CASE s \notin minimize
    BY <1>1, <2>2 DEF Close, Sp, Inv, FixedType, SpType
  <2> QED BY <2>1, <2>2
<1>3. Frames(s)' = << >>
  <2>1. Frames(s)' \in [1 .. 0 -> Fn]
    BY <1>2 DEF Frames
  <2>2. Frames(s)' \in Seq(Fn) /\ Len(Frames(s)') = 0
    BY <2>1, FunctionIsSeq
  <2> QED BY <2>2, EmptySeq
<1>4. AllFrames' = [AllFrames EXCEPT ![s] = << >>]
  BY <1>3, CloseEffect, AllFramesAfter
<1>5. AllCapacity' = AllCapacity
  BY <1>1, AllCapacityAfter
<1> QED BY <1>1, <1>4, <1>5 DEF Abstract!Close, AllFrames, AllCapacity

\* Every step of the two implementations is a step of FrameStack.
LEMMA StepsRefine ==
  ASSUME Inv, DepthInv, [Next]_vars
  PROVE  [Abstract!Next]_Abstract!vars
<1>1. CASE UNCHANGED vars
  <2>1. AllFrames' = AllFrames /\ AllCapacity' = AllCapacity
    BY <1>1, SameStacks DEF vars
  <2> QED BY <1>1, <2>1 DEF vars, Abstract!vars, AllFrames, AllCapacity
<1>2. ASSUME NEW s \in State, Step(s) \/ StackOverflow(s) \/ Fail(s)
      PROVE Abstract!Next
  <2>1. ASSUME NEW f \in Code[s], pushCallFrame(s, f) PROVE Abstract!Next
    <3>1. f \in Fn
      BY NameAssumption
    <3> QED BY <2>1, <3>1, PushCalls DEF Abstract!Next
  <2>2. \/ Abstract!Open(s) \/ Abstract!Return(s) \/ Abstract!ReplaceCaller(s)
        \/ Abstract!Raise(s) \/ Abstract!EnterPCall(s) \/ Abstract!LeavePCall(s)
        \/ Abstract!Close(s) \/ \E f \in Code[s] : pushCallFrame(s, f)
    BY <1>2, NewStateOpens, ReturnReturns, RemoveCallerFrameReplaces, ErrorRaises,
       EnterPCallEnters, LeavePCallLeaves, CloseCloses DEF Step
  <2> QED BY <2>1, <2>2 DEF Abstract!Next
<1> QED BY <1>1, <1>2 DEF Next

\* Before any LState exists, FrameStack has nothing on any stack.
LEMMA InitRefines == Init => Abstract!Init
<1> SUFFICES ASSUME Init PROVE Abstract!Init
  OBVIOUS
<1>1. \A t \in State : Capacity(t) \in Nat
  BY NSegmentsNat, SizeAssumption DEF Capacity
<1>2. Inv /\ \A t \in State : closed[t]
  BY InitInv DEF Init
<1>3. ASSUME NEW t \in State PROVE Frames(t) = << >>
  <2>1. Sp(t) = 0
    BY <1>2, ClosedSp
  <2>2. Frames(t) \in [1 .. 0 -> Fn]
    BY <2>1 DEF Frames
  <2>3. Frames(t) \in Seq(Fn) /\ Len(Frames(t)) = 0
    BY <2>2, FunctionIsSeq
  <2> QED BY <2>3, EmptySeq
<1>4. [t \in State |-> Capacity(t)] \in [State -> Nat] /\ [t \in State |-> Frames(t)] = [t \in State |-> << >>]
  BY <1>1, <1>3
<1> QED BY <1>4 DEF Init, Abstract!Init

\* The fixed and the segmented call stack of state.go, for every segment size,
\* every CallStackSize and any number of LStates that share the segment pool,
\* are the bounded LIFO stack FrameStack describes.
THEOREM StacksAreLIFO == Spec => ImplementsFrameStack
<1>1. Inv /\ DepthInv /\ [Next]_vars => [Abstract!Next]_Abstract!vars
  BY StepsRefine
<1> QED BY <1>1, InitRefines, Invariant, PTL DEF Spec, ImplementsFrameStack, Abstract!Spec
-----------------------------------------------------------------------------
(* Errors at any time (FullSpec).  A call that fails before it pushes a     *)
(* frame may leave a segmented stack one segment less deep than PCall saw,  *)
(* below the depths that other PCalls remember and will go back to.  The    *)
(* frames up to all these depths are still there and still know their       *)
(* depths.                                                                  *)

\* s has a place for a frame at depth i.
HasCell(s, i) ==
  IF s \in minimize THEN i \div FramesPerSegment <= segIdx[s] ELSE i < CallStackSize[s]

\* Depth i is below Sp or below a depth that a PCall in progress will go back to.
Reached(s, i) == i < Sp(s) \/ \E k \in 1 .. Len(marks[s]) : i < marks[s][k].sp

\* Every PCall but the innermost has called its function; one that has not is at
\* the depth it saw.  The depths PCalls saw nest, on a segmented stack up to a
\* segment only, and there the segment of each that has called is attached.
MarksHeld(s) ==
  LET m == marks[s] IN
  /\ \A i \in 1 .. Len(m) : i < Len(m) => m[i].called
  /\ \A i \in 1 .. Len(m) : ~m[i].called => m[i].sp = Sp(s)
  /\ s \in minimize =>
       /\ \A i \in 1 .. Len(m) : m[i].called => m[i].sp \div FramesPerSegment <= segIdx[s]
       /\ \A i, j \in 1 .. Len(m) :
            i <= j => m[i].sp \div FramesPerSegment <= m[j].sp \div FramesPerSegment
  /\ s \notin minimize =>
       /\ \A i \in 1 .. Len(m) : m[i].sp <= Sp(s)
       /\ \A i, j \in 1 .. Len(m) : i <= j => m[i].sp <= m[j].sp

ReachedKnow(s) ==
  ~closed[s] => \A i \in Nat : Reached(s, i) => At(s, i).Idx = i /\ At(s, i).fn \in Fn

ErrorInv == \A s \in State : MarksHeld(s) /\ ReachedKnow(s)

\* A depth that is not deeper is in a slot that is not later.
LEMMA DivMonotone ==
  ASSUME NEW i \in Nat, NEW j \in Nat, i <= j
  PROVE  i \div FramesPerSegment <= j \div FramesPerSegment
<1>1. /\ j \div FramesPerSegment \in Nat /\ (j % FramesPerSegment) + 1 \in 0 .. FramesPerSegment
      /\ i < ((j % FramesPerSegment) + 1) + (j \div FramesPerSegment) * FramesPerSegment
  <2> DEFINE q == j \div FramesPerSegment
             r == j % FramesPerSegment
             p == q * FramesPerSegment
  <2>1. q \in Nat /\ r \in 0 .. FramesPerSegment - 1 /\ j = r + p
    BY DivMod
  <2>2. FramesPerSegment \in Nat /\ p \in Nat
    BY <2>1, SizeAssumption
  <2> HIDE DEF q, r, p
  <2>3. r + 1 \in 0 .. FramesPerSegment /\ i < (r + 1) + p
    BY <2>1, <2>2
  <2> QED BY <2>1, <2>3 DEF q, r, p
<1> QED BY <1>1, DivBound

\* The depth of a segmented stack is in its last slot, or at the top of it.
LEMMA DepthSlot ==
  ASSUME AutoInv, NEW s \in State
  PROVE  /\ AutoSp(s) \in Nat /\ segIdx[s] \in Nat
         /\ segSp[s] < FramesPerSegment =>
              /\ AutoSp(s) \div FramesPerSegment = segIdx[s]
              /\ AutoSp(s) % FramesPerSegment = segSp[s]
         /\ ~(segSp[s] < FramesPerSegment) =>
              /\ AutoSp(s) \div FramesPerSegment = segIdx[s] + 1
              /\ AutoSp(s) % FramesPerSegment = 0
<1> DEFINE F == FramesPerSegment
<1>1. segSp[s] \in 0 .. F /\ segIdx[s] \in Nat /\ F \in Nat \ {0}
  BY SizeAssumption DEF AutoInv, AutoType
<1>2. AutoSp(s) \in Nat
  BY <1>1 DEF AutoSp
<1>3. CASE segSp[s] < F
  <2>1. segSp[s] \in 0 .. F - 1
    BY <1>1, <1>3
  <2> QED BY <1>1, <1>2, <1>3, <2>1, AutoDiv DEF AutoSp
<1>4. CASE ~(segSp[s] < F)
  <2>1. AutoSp(s) = 0 + (segIdx[s] + 1) * F /\ 0 \in 0 .. F - 1 /\ segIdx[s] + 1 \in Nat
    BY <1>1, <1>4 DEF AutoSp
  <2> QED BY <1>1, <1>2, <1>4, <2>1, AutoDiv
<1> QED BY <1>3, <1>4

\* The slot of a depth that t has a place for, and the segment in it.
LEMMA CellOf ==
  ASSUME AutoInv, NEW t \in State, t \in minimize, ~closed[t], NEW i \in Nat,
         i \div FramesPerSegment <= segIdx[t]
  PROVE  /\ i \div FramesPerSegment \in Nat
         /\ i \div FramesPerSegment \in 0 .. NSegments(t) - 1
         /\ i % FramesPerSegment \in SegSlots
         /\ segments[t][i \div FramesPerSegment] \in SegId
         /\ i = (i % FramesPerSegment) + (i \div FramesPerSegment) * FramesPerSegment
<1> DEFINE j == i \div FramesPerSegment
<1>1. segIdx[t] \in 0 .. NSegments(t) - 1
  BY DEF AutoInv, AutoType
<1>2. /\ j \in Nat /\ i % FramesPerSegment \in SegSlots
      /\ i = (i % FramesPerSegment) + j * FramesPerSegment
  BY DivMod DEF SegSlots
<1>3. j \in 0 .. NSegments(t) - 1 /\ j <= segIdx[t]
  BY <1>1, <1>2, NSegmentsNat
<1> HIDE DEF j
<1>4. segments[t][j] \in SegId \cup {nil}
  BY <1>3 DEF AutoInv, AutoType, SegmentsType
<1>5. segments[t][j] # nil
  BY <1>3 DEF AutoInv, SegmentsExact
<1> QED BY <1>2, <1>3, <1>4, <1>5 DEF j

\* The step keeps the frames of h in the segments that stay attached.
SegmentsKeep(h) ==
  \A t \in State : t \in minimize /\ ~closed[t] =>
    \A i \in Nat : i \div FramesPerSegment <= segIdx[t] /\ i \div FramesPerSegment <= segIdx'[t] =>
      heap'[segments'[t][i \div FramesPerSegment]][i % FramesPerSegment] = AutoAt(h, t, i)

\* freeCallFrameStackSegment: the frames in the segments that are not given back
\* stay.
LEMMA PutCells ==
  ASSUME AutoInv, NEW s \in State, s \in minimize, ~closed[s],
         NEW S \in Slots(s), NEW h \in Heaps,
         pool' = PoolAfterPut(s, S), segments' = Detach(s, S),
         heap' = HeapAfterPut(h, s, S),
         NEW t \in State, t \in minimize, ~closed[t],
         NEW i \in Nat, i \div FramesPerSegment <= segIdx[t],
         ~(t = s /\ i \div FramesPerSegment \in S)
  PROVE  heap'[segments'[t][i \div FramesPerSegment]][i % FramesPerSegment] = AutoAt(h, t, i)
<1> DEFINE j == i \div FramesPerSegment
<1>1. j \in 0 .. NSegments(t) - 1 /\ segments[t][j] \in SegId
  BY CellOf
<1>2. segments'[t][j] = segments[t][j]
  BY <1>1, PutOwned DEF SlotsBecome
<1>3. segments[t][j] \notin Put(s, S)
  <2> SUFFICES ASSUME NEW k \in S, segments[t][j] = segments[s][k] PROVE FALSE
    BY DEF Put
  <2>1. k \in 0 .. NSegments(s) - 1
    BY NSegmentsNat DEF Slots, AutoInv, AutoType
  <2>2. ~(t = s /\ j \in S)
    OBVIOUS
  <2> HIDE DEF j
  <2> QED BY <1>1, <2>1, <2>2, NameAssumption DEF AutoInv, SegmentsOwned
<1>4. heap'[segments[t][j]] = h[segments[t][j]]
  BY <1>1, <1>3 DEF HeapAfterPut
<1> QED BY <1>2, <1>4 DEF AutoAt

\* Cutting a segmented stack to slot k, as Pop and SetSp do, keeps the frames in
\* the slots up to k.
LEMMA DetachCells ==
  ASSUME AutoInv, NEW s \in State, s \in minimize, ~closed[s],
         NEW k \in Nat, k <= segIdx[s],
         NEW S, S = {i \in 0 .. NSegments(s) - 1 : k < i /\ i <= segIdx[s]},
         NEW h \in Heaps,
         pool' = PoolAfterPut(s, S), segments' = Detach(s, S),
         heap' = HeapAfterPut(h, s, S),
         segIdx' = [segIdx EXCEPT ![s] = k]
  PROVE  SegmentsKeep(h)
<1>1. S \in Slots(s)
  BY DEF Slots, AutoInv, AutoType
<1> SUFFICES ASSUME NEW t \in State, t \in minimize, ~closed[t], NEW i \in Nat,
                    i \div FramesPerSegment <= segIdx[t], i \div FramesPerSegment <= segIdx'[t]
             PROVE heap'[segments'[t][i \div FramesPerSegment]][i % FramesPerSegment] = AutoAt(h, t, i)
  BY DEF SegmentsKeep
<1>2. segIdx'[s] = k /\ i \div FramesPerSegment \in Nat
  BY DivMod DEF AutoInv, AutoType
<1>3. ~(t = s /\ i \div FramesPerSegment \in S)
  BY <1>2
<1> QED BY <1>1, <1>3, PutCells

\* autoGrowingCallFrameStack.Push writes the frame at depth Sp and no other.
LEMMA PushCells ==
  ASSUME AutoInv, NEW s \in State, s \in minimize, ~closed[s], NEW f \in Fn, AutoPush(s, f),
         NEW t \in State, t \in minimize, ~closed[t],
         NEW i \in Nat, i \div FramesPerSegment <= segIdx[t], ~(t = s /\ i = AutoSp(s))
  PROVE  heap'[segments'[t][i \div FramesPerSegment]][i % FramesPerSegment] = AutoAt(heap, t, i)
<1> DEFINE F == FramesPerSegment
           frm == [fn |-> f, Idx |-> AutoSp(s)]
<1>0. /\ segIdx[s] \in Nat /\ segIdx[s] \in 0 .. NSegments(s) - 1 /\ segSp[s] \in 0 .. F
      /\ F \in Nat \ {0} /\ heap \in Heaps
  BY SizeAssumption DEF AutoInv, AutoType
<1>1. /\ i \div F \in 0 .. NSegments(t) - 1 /\ i % F \in SegSlots
      /\ segments[t][i \div F] \in SegId
      /\ i = (i % F) + (i \div F) * F
  BY CellOf
<1>2. CASE segSp[s] < F
  <2>1. /\ heap' = [heap EXCEPT ![segments[s][segIdx[s]]][segSp[s]] = frm]
        /\ UNCHANGED <<segments, segIdx, pool>>
    BY <1>0, <1>2 DEF AutoPush
  <2> HIDE DEF frm
  <2>2. ~(segments[t][i \div F] = segments[s][segIdx[s]] /\ i % F = segSp[s])
    <3> SUFFICES ASSUME segments[t][i \div F] = segments[s][segIdx[s]], i % F = segSp[s] PROVE FALSE
      OBVIOUS
    <3>1. t = s /\ i \div F = segIdx[s]
      BY <1>0, <1>1, NameAssumption DEF AutoInv, SegmentsOwned
    <3> QED BY <1>1, <3>1 DEF AutoSp
  <2>3. heap'[segments[t][i \div F]][i % F] = heap[segments[t][i \div F]][i % F]
    BY <1>0, <1>1, <2>1, <2>2 DEF Heaps
  <2> QED BY <2>1, <2>3 DEF AutoAt
<1>3. CASE ~(segSp[s] < F)
  <2>1. PICK id \in SegId :
          /\ Gets(id)
          /\ heap' = [heap EXCEPT ![id][0] = [fn |-> f, Idx |-> F * (segIdx[s] + 1)]]
          /\ pool' = PoolAfterGet(id)
          /\ segments' = [segments EXCEPT ![s][segIdx[s] + 1] = id]
    BY <1>3 DEF AutoPush
  <2>2. segIdx[s] + 1 \in 0 .. NSegments(s) - 1 /\ segments[s][segIdx[s] + 1] = nil
    <3>1. segIdx[s] < NSegments(s) - 1
      BY <1>3 DEF AutoPush
    <3>2. segIdx[s] + 1 \in 0 .. NSegments(s) - 1 /\ ~(segIdx[s] + 1 <= segIdx[s])
      BY <1>0, <3>1, NSegmentsNat
    <3> QED BY <3>2 DEF AutoInv, SegmentsExact
  <2>3. ~Attached(id) /\ SlotsBecome(s, {segIdx[s] + 1}, id)
    BY <2>1, <2>2, GetOwned
  <2>4. segments'[t][i \div F] = segments[t][i \div F]
    <3>1. t = s => i \div F # segIdx[s] + 1
      BY <1>0, <1>1, NSegmentsNat
    <3> QED BY <1>1, <2>3, <3>1 DEF SlotsBecome
  <2>5. segments[t][i \div F] # id
    BY <1>1, <2>3 DEF Attached
  <2>6. heap'[segments[t][i \div F]] = heap[segments[t][i \div F]]
    BY <1>0, <1>1, <2>1, <2>5 DEF Heaps
  <2> QED BY <2>4, <2>6 DEF AutoAt
<1> QED BY <1>2, <1>3

\* autoGrowingCallFrameStack.Pop keeps the frames in the segments that stay.
LEMMA PopCells ==
  ASSUME AutoInv, NEW s \in State, s \in minimize, ~closed[s], NEW h \in Heaps, AutoPop(s, h)
  PROVE  SegmentsKeep(h)
<1>0. segIdx[s] \in Nat
  BY DEF AutoInv, AutoType
<1>1. CASE segSp[s] = 0
  <2>1. /\ segIdx[s] # 0
        /\ heap' = HeapAfterPut(h, s, {segIdx[s]})
        /\ pool' = PoolAfterPut(s, {segIdx[s]})
        /\ segments' = Detach(s, {segIdx[s]})
        /\ segIdx' = [segIdx EXCEPT ![s] = segIdx[s] - 1]
    BY <1>1 DEF AutoPop
  <2>2. /\ segIdx[s] - 1 \in Nat /\ segIdx[s] - 1 <= segIdx[s]
        /\ {segIdx[s]} = {i \in 0 .. NSegments(s) - 1 : segIdx[s] - 1 < i /\ i <= segIdx[s]}
    BY <1>0, <2>1, NSegmentsNat DEF AutoInv, AutoType
  <2> QED BY <2>1, <2>2, DetachCells
<1>2. CASE segSp[s] # 0
  <2>1. heap' = h /\ UNCHANGED <<segments, segIdx>>
    BY <1>2 DEF AutoPop
  <2> QED BY <2>1 DEF SegmentsKeep, AutoAt
<1> QED BY <1>1, <1>2

\* autoGrowingCallFrameStack.SetSp keeps the frames in the segments that stay;
\* it never attaches one.
LEMMA SetSpCells ==
  ASSUME AutoInv, NEW s \in State, s \in minimize, ~closed[s], NEW n \in Nat, AutoSetSp(s, n)
  PROVE  /\ SegmentsKeep(heap)
         /\ segSp'[s] = n % FramesPerSegment
         /\ segIdx'[s] = IF segIdx[s] <= n \div FramesPerSegment THEN segIdx[s]
                                                                 ELSE n \div FramesPerSegment
<1> DEFINE desired == n \div FramesPerSegment
           freed == {i \in 0 .. NSegments(s) - 1 : desired < i /\ i <= segIdx[s]}
           k == IF segIdx[s] <= desired THEN segIdx[s] ELSE desired
<1>1. desired \in Nat
  BY DivMod
<1>2. segIdx[s] \in Nat /\ heap \in Heaps
  BY DEF AutoInv, AutoType
<1>3. freed = {i \in 0 .. NSegments(s) - 1 : k < i /\ i <= segIdx[s]}
  BY <1>1, <1>2, NSegmentsNat
<1>4. k \in Nat /\ k <= segIdx[s]
  BY <1>1, <1>2
<1>5. /\ pool' = PoolAfterPut(s, freed)
      /\ segments' = Detach(s, freed)
      /\ segIdx' = [segIdx EXCEPT ![s] = k]
      /\ segSp' = [segSp EXCEPT ![s] = n % FramesPerSegment]
      /\ heap' = HeapAfterPut(heap, s, freed)
  BY DEF AutoSetSp
<1>6. segSp'[s] = n % FramesPerSegment /\ segIdx'[s] = k
  BY <1>5 DEF AutoInv, AutoType
<1> HIDE DEF freed, k
<1>7. SegmentsKeep(heap)
  BY <1>2, <1>3, <1>4, <1>5, DetachCells
<1> QED BY <1>6, <1>7 DEF k

\* The heap with frm at depth k of s, as RemoveCallerFrame writes it.
WithFrame(s, k, frm) ==
  [heap EXCEPT ![segments[s][k \div FramesPerSegment]][k % FramesPerSegment] = frm]

\* RemoveCallerFrame writes the frame of one stack at one depth.
LEMMA WriteCell ==
  ASSUME AutoInv, NEW s \in State, s \in minimize, ~closed[s], NEW k \in Nat,
         k \div FramesPerSegment <= segIdx[s], NEW frm \in Frame
  PROVE  /\ WithFrame(s, k, frm) \in Heaps
         /\ \A t \in State : t \in minimize /\ ~closed[t] =>
              \A i \in Nat : i \div FramesPerSegment <= segIdx[t] =>
                AutoAt(WithFrame(s, k, frm), t, i)
                  = IF t = s /\ i = k THEN frm ELSE AutoAt(heap, t, i)
<1> DEFINE F == FramesPerSegment
           seg == segments[s][k \div F]
           h == WithFrame(s, k, frm)
<1>1. /\ k \div F \in 0 .. NSegments(s) - 1 /\ k % F \in SegSlots /\ seg \in SegId
      /\ k = (k % F) + (k \div F) * F
  BY CellOf
<1>2. /\ h \in Heaps
      /\ \A id \in SegId, r \in SegSlots :
           h[id][r] = IF id = seg /\ r = k % F THEN frm ELSE heap[id][r]
  BY <1>1 DEF Heaps, AutoInv, AutoType, WithFrame
<1> HIDE DEF h
<1>3. ASSUME NEW t \in State, t \in minimize, ~closed[t], NEW i \in Nat, i \div F <= segIdx[t]
      PROVE AutoAt(h, t, i) = IF t = s /\ i = k THEN frm ELSE AutoAt(heap, t, i)
  <2>1. /\ i \div F \in 0 .. NSegments(t) - 1 /\ i % F \in SegSlots
        /\ segments[t][i \div F] \in SegId
        /\ i = (i % F) + (i \div F) * F
    BY <1>3, CellOf
  <2>2. segments[t][i \div F] = seg /\ i % F = k % F <=> t = s /\ i = k
    <3>1. segments[t][i \div F] = seg => t = s /\ i \div F = k \div F
      BY <1>1, <2>1, NameAssumption DEF AutoInv, SegmentsOwned
    <3> QED BY <1>1, <2>1, <3>1
  <2> QED BY <1>2, <2>1, <2>2 DEF AutoAt
<1> QED BY <1>2, <1>3 DEF h
-----------------------------------------------------------------------------
\* The step changes nothing that MarksHeld and ReachedKnow say of stack t.
Untouched(t) ==
  /\ t \in minimize' <=> t \in minimize
  /\ closed'[t] = closed[t] /\ marks'[t] = marks[t]
  /\ Sp(t)' = Sp(t) /\ segIdx'[t] = segIdx[t]
  /\ ~closed[t] => \A i \in Nat : HasCell(t, i) => At(t, i)' = At(t, i)

\* Every depth that s is at or will go back to has a place.
LEMMA ReachedHasCell ==
  ASSUME Inv, NEW s \in State, MarksHeld(s), ~closed[s], NEW i \in Nat, Reached(s, i)
  PROVE  HasCell(s, i)
<1>1. ASSUME i < Sp(s) PROVE HasCell(s, i)
  <2>1. CASE s \in minimize
    BY <1>1, <2>1, SlotOf DEF HasCell, Sp, Inv
  <2>2. CASE s \notin minimize
    <3>1. i < sp[s] /\ sp[s] \in 0 .. CallStackSize[s] /\ CallStackSize[s] \in Nat
      BY <1>1, <2>2, SizeAssumption DEF Sp, Inv, FixedType, SpType
    <3>2. i < CallStackSize[s]
      BY <3>1
    <3> QED BY <2>2, <3>2 DEF HasCell
  <2> QED BY <2>1, <2>2
<1>2. ASSUME NEW k \in 1 .. Len(marks[s]), i < marks[s][k].sp PROVE HasCell(s, i)
  <2>1. marks[s][k].sp \in Nat /\ Sp(s) \in Nat
    BY MarkSp, SpNat
  <2>2. CASE marks[s][k].sp <= Sp(s)
    <3>1. i < Sp(s)
      BY <1>2, <2>1, <2>2
    <3> QED BY <1>1, <3>1
  <2>3. CASE ~(marks[s][k].sp <= Sp(s))
    <3>1. s \in minimize /\ marks[s][k].sp \div FramesPerSegment <= segIdx[s]
      BY <2>1, <2>3 DEF MarksHeld
    <3>2. i \div FramesPerSegment <= marks[s][k].sp \div FramesPerSegment
      BY <1>2, <2>1, DivMonotone
    <3>3. /\ i \div FramesPerSegment \in Nat /\ marks[s][k].sp \div FramesPerSegment \in Nat
          /\ segIdx[s] \in Nat
      BY <2>1, DivMod DEF Inv, AutoInv, AutoType
    <3>4. i \div FramesPerSegment <= segIdx[s]
      BY <3>1, <3>2, <3>3
    <3> QED BY <3>1, <3>4 DEF HasCell
  <2> QED BY <2>2, <2>3
<1> QED BY <1>1, <1>2 DEF Reached

\* A stack that a step leaves alone keeps the invariant.
LEMMA UntouchedError ==
  ASSUME Inv, NEW t \in State, MarksHeld(t), ReachedKnow(t), Untouched(t)
  PROVE  MarksHeld(t)' /\ ReachedKnow(t)'
<1>1. MarksHeld(t)'
  BY DEF MarksHeld, Untouched
<1>2. ReachedKnow(t)'
  <2> SUFFICES ASSUME ~closed[t], NEW i \in Nat, Reached(t, i)'
               PROVE (At(t, i)').Idx = i /\ (At(t, i)').fn \in Fn
    BY DEF ReachedKnow, Untouched
  <2>1. Reached(t, i)
    BY DEF Reached, Untouched
  <2>2. At(t, i)' = At(t, i)
    BY <2>1, ReachedHasCell DEF Untouched
  <2> QED BY <2>1, <2>2 DEF ReachedKnow
<1> QED BY <1>1, <1>2

\* A step of stack s keeps the invariant if it does for s and keeps the rest.
LEMMA ErrorFromParts ==
  ASSUME Inv, ErrorInv, NEW s \in State, \A t \in State : t # s => Untouched(t),
         MarksHeld(s)', ReachedKnow(s)'
  PROVE  ErrorInv'
BY UntouchedError DEF ErrorInv

\* A step of segmented stack s that writes heap h, in which the other stacks are
\* as they were, leaves them alone.
LEMMA OthersUntouchedAuto ==
  ASSUME Inv, NEW s \in State, NEW h, SegmentsKeep(h),
         UNCHANGED <<minimize, closed, fixedVars>>,
         \A t \in State : t # s => /\ segIdx'[t] = segIdx[t] /\ segSp'[t] = segSp[t]
                                   /\ marks'[t] = marks[t],
         \A t \in State : t # s /\ t \in minimize /\ ~closed[t] =>
           \A i \in Nat : i \div FramesPerSegment <= segIdx[t] =>
             AutoAt(h, t, i) = AutoAt(heap, t, i)
  PROVE  \A t \in State : t # s => Untouched(t)
<1> SUFFICES ASSUME NEW t \in State, t # s PROVE Untouched(t)
  OBVIOUS
<1>1. Sp(t)' = Sp(t)
  BY DEF Sp, AutoSp, fixedVars
<1>2. ASSUME ~closed[t], NEW i \in Nat, HasCell(t, i) PROVE At(t, i)' = At(t, i)
  <2>1. CASE t \in minimize
    BY <1>2, <2>1 DEF SegmentsKeep, AutoAt, At, HasCell
  <2>2. CASE t \notin minimize
    BY <2>2 DEF At, fixedVars
  <2> QED BY <2>1, <2>2
<1> QED BY <1>1, <1>2 DEF Untouched

\* A step that leaves the segmented stacks and all but fixed stack s alone.
LEMMA OthersUntouchedFixed ==
  ASSUME Inv, NEW s \in State,
         \A t \in State : t # s => /\ t \in minimize' <=> t \in minimize
                                   /\ closed'[t] = closed[t] /\ marks'[t] = marks[t]
                                   /\ array'[t] = array[t] /\ sp'[t] = sp[t]
                                   /\ segments'[t] = segments[t],
         UNCHANGED <<segIdx, segSp, heap>>
  PROVE  \A t \in State : t # s => Untouched(t)
<1> SUFFICES ASSUME NEW t \in State, t # s PROVE Untouched(t)
  OBVIOUS
<1>1. Sp(t)' = Sp(t)
  BY DEF Sp, AutoSp
<1>2. \A i \in Nat : At(t, i)' = At(t, i)
  BY DEF At
<1> QED BY <1>1, <1>2 DEF Untouched
-----------------------------------------------------------------------------
\* pushCallFrame writes the frame at depth Sp, in a slot that it has then, and
\* no other.
LEMMA PushTouches ==
  ASSUME Inv, NEW s \in State, NEW f \in Fn, pushCallFrame(s, f)
  PROVE  /\ \A t \in State : t # s => Untouched(t)
         /\ \A i \in Nat : HasCell(s, i) /\ i # Sp(s) => At(s, i)' = At(s, i)
         /\ s \in minimize => /\ segIdx[s] <= segIdx'[s]
                              /\ Sp(s) \div FramesPerSegment <= segIdx'[s]
<1>1. ~closed[s] /\ ~IsFull(s) /\ Push(s, f) /\ UNCHANGED <<minimize, raising, closed>>
  BY DEF pushCallFrame, Running
<1>2. \A t \in State : t # s => marks'[t] = marks[t]
  BY DEF pushCallFrame, Inv, MarkType
<1>3. CASE s \in minimize
  <2>1. AutoPush(s, f) /\ UNCHANGED fixedVars /\ Sp(s) = AutoSp(s)
    BY <1>1, <1>3 DEF Push, Sp
  <2>2. \A t \in State : t # s => segIdx'[t] = segIdx[t] /\ segSp'[t] = segSp[t]
    BY <2>1 DEF AutoPush, Inv, AutoInv, AutoType
  <2>3. ASSUME NEW t \in State, t \in minimize, ~closed[t], NEW i \in Nat,
               i \div FramesPerSegment <= segIdx[t], ~(t = s /\ i = AutoSp(s))
        PROVE heap'[segments'[t][i \div FramesPerSegment]][i % FramesPerSegment] = AutoAt(heap, t, i)
    BY <1>1, <1>3, <2>1, <2>3, PushCells DEF Inv
  <2>4. ASSUME NEW t \in State, t # s PROVE Untouched(t)
    <3>1. Sp(t)' = Sp(t)
      BY <1>1, <2>1, <2>2, <2>4 DEF Sp, AutoSp, fixedVars
    <3>2. ASSUME ~closed[t], NEW i \in Nat, HasCell(t, i) PROVE At(t, i)' = At(t, i)
      <4>1. CASE t \in minimize
        BY <1>1, <2>3, <2>4, <3>2, <4>1 DEF AutoAt, At, HasCell
      <4>2. CASE t \notin minimize
        BY <1>1, <2>1, <4>2 DEF At, fixedVars
      <4> QED BY <4>1, <4>2
    <3> QED BY <1>1, <1>2, <2>2, <2>4, <3>1, <3>2 DEF Untouched
  <2>5. ASSUME NEW i \in Nat, HasCell(s, i), i # Sp(s) PROVE At(s, i)' = At(s, i)
    BY <1>1, <1>3, <2>1, <2>3, <2>5 DEF AutoAt, At, HasCell
  <2>6. segIdx[s] \in Nat /\ segIdx[s] <= segIdx'[s]
    <3>1. segIdx[s] \in Nat /\ segIdx'[s] \in {segIdx[s], segIdx[s] + 1}
      BY <2>1 DEF AutoPush, Inv, AutoInv, AutoType
    <3> QED BY <3>1
  <2>7. AutoSp(s) \div FramesPerSegment <= segIdx'[s]
    <3>1. AutoInv'
      BY <1>1, <1>3, <2>1, AutoPushInv DEF Inv
    <3>2. segIdx'[s] \in Nat /\ segSp'[s] \in 0 .. FramesPerSegment
      BY <3>1 DEF AutoInv, AutoType
    <3>3. AutoSp(s) \in Nat /\ AutoSp(s) < segSp'[s] + segIdx'[s] * FramesPerSegment
      <4>1. AutoSp(s)' = AutoSp(s) + 1
        BY <1>1, <1>3, <2>1, AutoPushKept DEF Inv
      <4>2. AutoSp(s)' = segSp'[s] + segIdx'[s] * FramesPerSegment
        BY DEF AutoSp
      <4>3. AutoSp(s) \in Nat
        BY SpNat
      <4> QED BY <4>1, <4>2, <4>3
    <3> QED BY <3>2, <3>3, DivBound
  <2> QED BY <2>1, <2>4, <2>5, <2>6, <2>7
<1>4. CASE s \notin minimize
  <2>1. FixedPush(s, f) /\ UNCHANGED autoVars /\ Sp(s) = sp[s]
    BY <1>1, <1>4 DEF Push, Sp
  <2>2. \A t \in State : t # s => array'[t] = array[t] /\ sp'[t] = sp[t]
    BY <2>1 DEF FixedPush, Inv, FixedType, SpType, ArrayType
  <2>3. \A t \in State : t # s => Untouched(t)
    BY <1>1, <1>2, <2>1, <2>2, OthersUntouchedFixed DEF autoVars
  <2>4. \A i \in 0 .. CallStackSize[s] - 1 : i # sp[s] => array'[s][i] = array[s][i]
    BY <2>1 DEF FixedPush, Inv, FixedType, ArrayType
  <2>5. ASSUME NEW i \in Nat, HasCell(s, i), i # Sp(s) PROVE At(s, i)' = At(s, i)
    <3>1. i \in 0 .. CallStackSize[s] - 1
      BY <1>4, <2>5, SizeAssumption DEF HasCell
    <3> QED BY <1>1, <1>4, <2>1, <2>4, <2>5, <3>1 DEF At
  <2> QED BY <1>4, <2>3, <2>5
<1> QED BY <1>3, <1>4

\* pushCallFrame keeps the invariant.
LEMMA PushError ==
  ASSUME Inv, ErrorInv, NEW s \in State, NEW f \in Fn, pushCallFrame(s, f)
  PROVE  ErrorInv'
<1>1. /\ \A t \in State : t # s => Untouched(t)
      /\ \A i \in Nat : HasCell(s, i) /\ i # Sp(s) => At(s, i)' = At(s, i)
      /\ s \in minimize => /\ segIdx[s] <= segIdx'[s]
                           /\ Sp(s) \div FramesPerSegment <= segIdx'[s]
  BY PushTouches
<1>2. Sp(s)' = Sp(s) + 1 /\ Sp(s) \in Nat
  BY PushEffect, SpNat
<1>3. ~closed[s] /\ UNCHANGED <<minimize, closed>>
  BY DEF pushCallFrame, Running
<1>4. /\ Len(marks'[s]) = Len(marks[s]) /\ Len(marks[s]) \in Nat
      /\ \A i \in 1 .. Len(marks[s]) :
           /\ marks'[s][i].sp = marks[s][i].sp
           /\ marks[s][i].sp \in Nat
           /\ i # Len(marks[s]) => marks'[s][i] = marks[s][i]
           /\ i = Len(marks[s]) => marks'[s][i].called
  <2>1. /\ Len(marks'[s]) = Len(marks[s])
        /\ \A i \in 1 .. Len(marks[s]) :
             /\ marks'[s][i].sp = marks[s][i].sp
             /\ i # Len(marks[s]) => marks'[s][i] = marks[s][i]
             /\ i = Len(marks[s]) => marks'[s][i].called
    BY MarksCalled DEF Inv, pushCallFrame
  <2> QED BY <2>1, MarkSp
<1>5. MarksHeld(s) /\ ReachedKnow(s)
  BY DEF ErrorInv
<1>6. \A i \in 1 .. Len(marks[s]) : marks'[s][i].called
  <2> SUFFICES ASSUME NEW i \in 1 .. Len(marks[s]) PROVE marks'[s][i].called
    OBVIOUS
  <2>1. CASE i = Len(marks[s])
    BY <1>4, <2>1
  <2>2. CASE i < Len(marks[s])
    BY <1>4, <1>5, <2>2 DEF MarksHeld
  <2> QED BY <1>4, <2>1, <2>2
<1>7. MarksHeld(s)'
  <2>1. CASE s \in minimize
    <3>1. ASSUME NEW i \in 1 .. Len(marks[s])
          PROVE marks[s][i].sp \div FramesPerSegment <= segIdx'[s]
      <4>1. CASE ~marks[s][i].called
        BY <1>1, <1>5, <2>1, <4>1 DEF MarksHeld
      <4>2. CASE marks[s][i].called
        <5>1. marks[s][i].sp \div FramesPerSegment <= segIdx[s]
          BY <1>5, <2>1, <4>2 DEF MarksHeld
        <5>2. /\ marks[s][i].sp \div FramesPerSegment \in Nat /\ segIdx[s] \in Nat
              /\ segIdx'[s] \in Nat
          <6>1. Inv'
            BY PushInv
          <6> QED BY <1>4, <6>1, DivMod DEF Inv, AutoInv, AutoType
        <5> QED BY <1>1, <2>1, <5>1, <5>2
      <4> QED BY <4>1, <4>2
    <3>2. \A i, j \in 1 .. Len(marks[s]) : i <= j =>
            marks[s][i].sp \div FramesPerSegment <= marks[s][j].sp \div FramesPerSegment
      BY <1>5, <2>1 DEF MarksHeld
    <3> QED BY <1>3, <1>4, <1>6, <2>1, <3>1, <3>2 DEF MarksHeld
  <2>2. CASE s \notin minimize
    <3>1. /\ \A i \in 1 .. Len(marks[s]) : marks[s][i].sp <= Sp(s)
          /\ \A i, j \in 1 .. Len(marks[s]) : i <= j => marks[s][i].sp <= marks[s][j].sp
      BY <1>5, <2>2 DEF MarksHeld
    <3>2. \A i \in 1 .. Len(marks[s]) : marks[s][i].sp <= Sp(s) + 1
      BY <1>2, <1>4, <3>1
    <3> QED BY <1>2, <1>3, <1>4, <1>6, <2>2, <3>1, <3>2 DEF MarksHeld
  <2> QED BY <2>1, <2>2
<1>8. ReachedKnow(s)'
  <2> SUFFICES ASSUME NEW i \in Nat, Reached(s, i)'
               PROVE (At(s, i)').Idx = i /\ (At(s, i)').fn \in Fn
    BY DEF ReachedKnow
  <2>1. CASE i = Sp(s)
    <3>1. At(s, i)' = [fn |-> f, Idx |-> i]
      BY <2>1, PushEffect
    <3> QED BY <3>1
  <2>2. CASE i # Sp(s)
    <3>1. Reached(s, i)
      <4>1. i < Sp(s) + 1 => i < Sp(s)
        BY <1>2, <2>2
      <4>2. \A k \in 1 .. Len(marks'[s]) : i < marks'[s][k].sp =>
              k \in 1 .. Len(marks[s]) /\ i < marks[s][k].sp
        BY <1>4
      <4> QED BY <1>2, <4>1, <4>2 DEF Reached
    <3>2. At(s, i)' = At(s, i)
      BY <1>1, <1>3, <1>5, <2>2, <3>1, ReachedHasCell
    <3> QED BY <1>3, <1>5, <3>1, <3>2 DEF ReachedKnow
  <2> QED BY <2>1, <2>2
<1> QED BY <1>1, <1>7, <1>8, ErrorFromParts

\* A frame above the innermost PCall is popped: the depths of the PCalls, and what
\* was below them, are still there.
LEMMA PoppedHeld ==
  ASSUME Inv, Inv', NEW s \in State, MarksHeld(s), Sp(s) > Floor(s), Sp(s)' = Sp(s) - 1,
         s \in minimize => segSp'[s] < FramesPerSegment,
         UNCHANGED <<minimize, marks, closed>>
  PROVE  /\ MarksHeld(s)'
         /\ ~closed[s] => \A i \in Nat : Reached(s, i)' =>
              Reached(s, i) /\ HasCell(s, i) /\ HasCell(s, i)'
<1> DEFINE F == FramesPerSegment
<1>1. /\ Sp(s) \in Nat /\ Sp(s) - 1 \in Nat /\ Floor(s) \in Nat /\ Floor(s) <= Sp(s) - 1
      /\ Len(marks[s]) \in Nat
      /\ \A i \in 1 .. Len(marks[s]) : marks[s][i].sp \in Nat
  <2> DEFINE floor == Floor(s)
             depth == Sp(s)
  <2>1. floor \in Nat /\ depth \in Nat /\ depth > floor
    BY SpNat, FloorNat DEF Inv
  <2> HIDE DEF floor, depth
  <2>2. depth - 1 \in Nat /\ floor <= depth - 1
    BY <2>1
  <2> QED BY <2>1, <2>2, MarkSp DEF floor, depth
<1>2. Len(marks[s]) # 0 => /\ Floor(s) = marks[s][Len(marks[s])].sp
                           /\ Len(marks[s]) \in 1 .. Len(marks[s])
  <2>1. Len(marks[s]) # 0 => marks[s] # << >>
    BY EmptySeq
  <2> QED BY <1>1, <2>1 DEF Floor, Top
<1>3. \A i \in 1 .. Len(marks[s]) : marks[s][i].called
  <2> SUFFICES ASSUME NEW i \in 1 .. Len(marks[s]), ~marks[s][i].called PROVE FALSE
    OBVIOUS
  <2>1. i = Len(marks[s]) /\ marks[s][i].sp = Sp(s)
    BY <1>1 DEF MarksHeld
  <2> QED BY <1>1, <1>2, <2>1
<1>4. CASE s \in minimize
  <2>1. /\ segIdx'[s] \in Nat /\ (Sp(s) - 1) \div F = segIdx'[s]
        /\ Sp(s)' = segSp'[s] + segIdx'[s] * F /\ segSp'[s] \in 0 .. F
    <3>1. segIdx'[s] \in Nat /\ segSp'[s] \in 0 .. F - 1 /\ segSp'[s] \in 0 .. F
      BY <1>4, SizeAssumption DEF Inv, AutoInv, AutoType
    <3>2. Sp(s)' = segSp'[s] + segIdx'[s] * F
      BY <1>4 DEF Sp, AutoSp
    <3> QED BY <3>1, <3>2, AutoDiv
  <2>2. \A i \in 1 .. Len(marks[s]) : marks[s][i].sp \div F <= segIdx'[s]
    <3> SUFFICES ASSUME NEW i \in 1 .. Len(marks[s]) PROVE marks[s][i].sp \div F <= segIdx'[s]
      OBVIOUS
    <3>1. Len(marks[s]) # 0 /\ i <= Len(marks[s])
      BY <1>1
    <3>2. marks[s][i].sp \div F <= Floor(s) \div F
      BY <1>2, <1>4, <3>1 DEF MarksHeld
    <3>3. Floor(s) \div F <= segIdx'[s]
      BY <1>1, <2>1, DivMonotone
    <3>4. marks[s][i].sp \div F \in Nat /\ Floor(s) \div F \in Nat
      BY <1>1, DivMod
    <3> QED BY <2>1, <3>2, <3>3, <3>4
  <2>3. MarksHeld(s)'
    <3>1. \A i, j \in 1 .. Len(marks[s]) : i <= j => marks[s][i].sp \div F <= marks[s][j].sp \div F
      BY <1>4 DEF MarksHeld
    <3> QED BY <1>3, <1>4, <2>2, <3>1 DEF MarksHeld
  <2>4. ASSUME ~closed[s], NEW i \in Nat, Reached(s, i)'
        PROVE Reached(s, i) /\ HasCell(s, i) /\ HasCell(s, i)'
    <3>1. Reached(s, i)
      BY <1>1, <2>4 DEF Reached
    <3>2. i \div F <= segIdx'[s]
      <4>1. ASSUME i < Sp(s)' PROVE i \div F <= segIdx'[s]
        BY <2>1, <4>1, DivBound
      <4>2. ASSUME NEW k \in 1 .. Len(marks[s]), i < marks[s][k].sp PROVE i \div F <= segIdx'[s]
        <5>1. i \div F <= marks[s][k].sp \div F
          BY <1>1, <4>2, DivMonotone
        <5>2. i \div F \in Nat /\ marks[s][k].sp \div F \in Nat
          BY <1>1, DivMod
        <5> QED BY <2>1, <2>2, <5>1, <5>2
      <4> QED BY <2>4, <4>1, <4>2 DEF Reached
    <3>3. HasCell(s, i)'
      BY <1>4, <3>2 DEF HasCell
    <3> QED BY <2>4, <3>1, <3>3, ReachedHasCell
  <2> QED BY <2>3, <2>4
<1>5. CASE s \notin minimize
  <2>1. \A i, j \in 1 .. Len(marks[s]) : i <= j => marks[s][i].sp <= marks[s][j].sp
    BY <1>5 DEF MarksHeld
  <2>2. \A i \in 1 .. Len(marks[s]) : marks[s][i].sp <= Sp(s) - 1
    <3> SUFFICES ASSUME NEW i \in 1 .. Len(marks[s]) PROVE marks[s][i].sp <= Sp(s) - 1
      OBVIOUS
    <3>1. marks[s][i].sp <= Floor(s)
      <4>1. Len(marks[s]) # 0 /\ i <= Len(marks[s])
        BY <1>1
      <4> QED BY <1>2, <2>1, <4>1
    <3>2. marks[s][i].sp \in Nat
      BY <1>1
    <3> QED BY <1>1, <3>1, <3>2
  <2>3. MarksHeld(s)'
    BY <1>3, <1>5, <2>1, <2>2 DEF MarksHeld
  <2>4. ASSUME ~closed[s], NEW i \in Nat, Reached(s, i)'
        PROVE Reached(s, i) /\ HasCell(s, i) /\ HasCell(s, i)'
    <3>1. Reached(s, i)
      BY <1>1, <2>4 DEF Reached
    <3>2. HasCell(s, i)
      BY <2>4, <3>1, ReachedHasCell
    <3> QED BY <1>5, <3>1, <3>2 DEF HasCell
  <2> QED BY <2>3, <2>4
<1> QED BY <1>4, <1>5

\* A return keeps the invariant.
LEMMA ReturnError ==
  ASSUME Inv, ErrorInv, NEW s \in State, Return(s)
  PROVE  ErrorInv'
<1>1. /\ ~closed[s] /\ Sp(s) > Floor(s) /\ Pop(s)
      /\ UNCHANGED <<minimize, marks, raising, closed>>
  BY DEF Return, Running
<1>2. /\ Inv' /\ MarksHeld(s) /\ ReachedKnow(s)
      /\ Sp(s)' = Sp(s) - 1 /\ (s \in minimize => segSp'[s] < FramesPerSegment)
  BY ReturnInv, ReturnEffect DEF ErrorInv, PopTo
<1>3. /\ MarksHeld(s)'
      /\ \A i \in Nat : Reached(s, i)' => Reached(s, i) /\ HasCell(s, i) /\ HasCell(s, i)'
  BY <1>1, <1>2, PoppedHeld
<1>4. /\ \A t \in State : t # s => Untouched(t)
      /\ \A i \in Nat : HasCell(s, i) /\ HasCell(s, i)' => At(s, i)' = At(s, i)
  <2>1. CASE s \in minimize
    <3>1. AutoPop(s, heap) /\ UNCHANGED fixedVars /\ heap \in Heaps
      BY <1>1, <2>1 DEF Pop, Inv, AutoInv, AutoType
    <3>2. SegmentsKeep(heap)
      BY <1>1, <2>1, <3>1, PopCells DEF Inv
    <3>3. \A t \in State : t # s => Untouched(t)
      BY <1>1, <3>1, <3>2, AutoPopOthers, OthersUntouchedAuto
    <3>4. \A i \in Nat : HasCell(s, i) /\ HasCell(s, i)' => At(s, i)' = At(s, i)
      BY <1>1, <2>1, <3>2 DEF SegmentsKeep, HasCell, AutoAt, At
    <3> QED BY <3>3, <3>4
  <2>2. CASE s \notin minimize
    <3>1. FixedPop(s) /\ UNCHANGED <<array, autoVars>>
      BY <1>1, <2>2 DEF Pop
    <3>2. \A t \in State : t # s => sp'[t] = sp[t]
      BY <3>1 DEF FixedPop, Inv, FixedType, SpType
    <3>3. \A t \in State : t # s => Untouched(t)
      BY <1>1, <3>1, <3>2, OthersUntouchedFixed DEF autoVars
    <3>4. \A i \in Nat : At(s, i)' = At(s, i)
      BY <1>1, <2>2, <3>1 DEF At
    <3> QED BY <3>3, <3>4
  <2> QED BY <2>1, <2>2
<1>5. ReachedKnow(s)'
  <2> SUFFICES ASSUME NEW i \in Nat, Reached(s, i)'
               PROVE (At(s, i)').Idx = i /\ (At(s, i)').fn \in Fn
    BY DEF ReachedKnow
  <2> QED BY <1>1, <1>2, <1>3, <1>4 DEF ReachedKnow
<1> QED BY <1>3, <1>4, <1>5, ErrorFromParts

\* RemoveCallerFrame keeps the invariant.
LEMMA RemoveCallerFrameError ==
  ASSUME Inv, ErrorInv, NEW s \in State, RemoveCallerFrame(s)
  PROVE  ErrorInv'
<1> DEFINE F == FramesPerSegment
           k == Sp(s) - 2
           frm == [At(s, Sp(s) - 1) EXCEPT !.Idx = Sp(s) - 2]
<1>1. /\ ~closed[s] /\ Sp(s) >= Floor(s) + 2
      /\ UNCHANGED <<minimize, marks, raising, closed>>
  BY DEF RemoveCallerFrame, Running
<1>2. Inv' /\ MarksHeld(s) /\ ReachedKnow(s)
  BY RemoveCallerFrameInv DEF ErrorInv
<1>3. Sp(s) \in Nat /\ k \in Nat /\ k < Sp(s) /\ Sp(s) - 1 \in Nat /\ Sp(s) > Floor(s)
  BY <1>1, FloorNat, SpNat DEF Inv
<1>4. frm \in Frame /\ frm.Idx = k /\ frm.fn \in Fn
  <2>1. At(s, Sp(s) - 1) \in Frame
    BY <1>1, <1>3, AtFrame
  <2>2. At(s, Sp(s) - 1).fn \in Fn
    BY <1>1, <1>2, <1>3 DEF ReachedKnow, Reached
  <2> QED BY <1>3, <2>1, <2>2 DEF Frame
<1>5. /\ Sp(s)' = Sp(s) - 1 /\ (s \in minimize => segSp'[s] < F)
      /\ \A t \in State : t # s => Untouched(t)
      /\ \A i \in Nat : HasCell(s, i) /\ HasCell(s, i)' =>
           At(s, i)' = IF i = k THEN frm ELSE At(s, i)
  <2>1. CASE s \in minimize
    <3> DEFINE h == WithFrame(s, k, frm)
    <3>1. AutoPop(s, h) /\ UNCHANGED fixedVars
      BY <2>1 DEF RemoveCallerFrame, WithFrame
    <3>2. Sp(s) = AutoSp(s) /\ Sp(s)' = AutoSp(s)'
      BY <1>1, <2>1 DEF Sp
    <3>3. k \div F <= segIdx[s]
      BY <1>1, <1>3, <2>1, <3>2, SlotOf DEF Inv
    <3> HIDE DEF frm, k
    <3>4. /\ h \in Heaps
          /\ \A t \in State : t \in minimize /\ ~closed[t] =>
               \A i \in Nat : i \div F <= segIdx[t] =>
                 AutoAt(h, t, i) = IF t = s /\ i = k THEN frm ELSE AutoAt(heap, t, i)
      BY <1>1, <1>3, <1>4, <2>1, <3>3, WriteCell DEF Inv
    <3> HIDE DEF h
    <3>5. AutoSp(s)' = AutoSp(s) - 1 /\ segSp'[s] < F /\ SegmentsKeep(h)
      BY <1>1, <2>1, <3>1, <3>4, AutoPopKept, PopCells DEF Inv
    <3>6. \A t \in State : t # s => Untouched(t)
      BY <1>1, <3>1, <3>4, <3>5, AutoPopOthers, OthersUntouchedAuto
    <3>7. \A i \in Nat : HasCell(s, i) /\ HasCell(s, i)' =>
            At(s, i)' = IF i = k THEN frm ELSE At(s, i)
      <4> SUFFICES ASSUME NEW i \in Nat, HasCell(s, i), HasCell(s, i)'
                   PROVE At(s, i)' = IF i = k THEN frm ELSE At(s, i)
        OBVIOUS
      <4>1. i \div F <= segIdx[s] /\ i \div F <= segIdx'[s]
        BY <1>1, <2>1 DEF HasCell
      <4>2. heap'[segments'[s][i \div F]][i % F] = AutoAt(h, s, i)
        BY <1>1, <2>1, <3>5, <4>1 DEF SegmentsKeep
      <4>3. AutoAt(h, s, i) = IF i = k THEN frm ELSE AutoAt(heap, s, i)
        BY <1>1, <2>1, <3>4, <4>1
      <4>4. At(s, i)' = heap'[segments'[s][i \div F]][i % F] /\ At(s, i) = AutoAt(heap, s, i)
        BY <1>1, <2>1 DEF At, AutoAt
      <4> QED BY <4>2, <4>3, <4>4
    <3> QED BY <3>2, <3>5, <3>6, <3>7
  <2>2. CASE s \notin minimize
    <3>1. array' = [array EXCEPT ![s][k] = frm] /\ FixedPop(s) /\ UNCHANGED autoVars
      BY <2>2 DEF RemoveCallerFrame
    <3>2. k \in 0 .. CallStackSize[s] - 1
      BY <1>3, <2>2, SizeAssumption DEF Sp, Inv, FixedType, SpType
    <3>3. Sp(s)' = Sp(s) - 1
      BY <1>1, <2>2, <3>1 DEF Sp, FixedPop, Inv, FixedType, SpType
    <3> HIDE DEF frm, k
    <3>4. /\ \A t \in State : t # s => array'[t] = array[t] /\ sp'[t] = sp[t]
          /\ \A i \in 0 .. CallStackSize[s] - 1 : array'[s][i] = IF i = k THEN frm ELSE array[s][i]
      BY <3>1, <3>2 DEF FixedPop, Inv, FixedType, SpType, ArrayType
    <3>5. \A t \in State : t # s => Untouched(t)
      BY <1>1, <3>1, <3>4, OthersUntouchedFixed DEF autoVars
    <3>6. \A i \in Nat : HasCell(s, i) => At(s, i)' = IF i = k THEN frm ELSE At(s, i)
      <4> SUFFICES ASSUME NEW i \in Nat, HasCell(s, i)
                   PROVE At(s, i)' = IF i = k THEN frm ELSE At(s, i)
        OBVIOUS
      <4>1. i \in 0 .. CallStackSize[s] - 1
        BY <2>2, SizeAssumption DEF HasCell
      <4>2. At(s, i)' = array'[s][i] /\ At(s, i) = array[s][i]
        BY <1>1, <2>2 DEF At
      <4> QED BY <3>4, <4>1, <4>2
    <3> QED BY <2>2, <3>3, <3>5, <3>6
  <2> QED BY <2>1, <2>2
<1> HIDE DEF frm, k
<1>6. /\ MarksHeld(s)'
      /\ \A i \in Nat : Reached(s, i)' => Reached(s, i) /\ HasCell(s, i) /\ HasCell(s, i)'
  BY <1>1, <1>2, <1>3, <1>5, PoppedHeld
<1>7. ReachedKnow(s)'
  <2> SUFFICES ASSUME NEW i \in Nat, Reached(s, i)'
               PROVE (At(s, i)').Idx = i /\ (At(s, i)').fn \in Fn
    BY DEF ReachedKnow
  <2>1. At(s, i).Idx = i /\ At(s, i).fn \in Fn
    BY <1>1, <1>2, <1>6 DEF ReachedKnow
  <2>2. At(s, i)' = IF i = k THEN frm ELSE At(s, i)
    BY <1>5, <1>6
  <2> QED BY <1>4, <2>1, <2>2
<1> QED BY <1>5, <1>6, <1>7, ErrorFromParts

\* The entry of PCall keeps the invariant: the depth it saw is in the segment of
\* every PCall around it, or deeper.
LEMMA EnterPCallError ==
  ASSUME Inv, ErrorInv, NEW s \in State, EnterPCall(s)
  PROVE  ErrorInv'
<1> DEFINE F == FramesPerSegment
           n == Len(marks[s])
<1>1. /\ ~closed[s] /\ CalleeEntered(s)
      /\ UNCHANGED <<minimize, autoVars, fixedVars, raising, closed>>
      /\ marks' = [marks EXCEPT ![s] = Append(@, [sp |-> Sp(s), called |-> FALSE])]
  BY DEF EnterPCall, Running
<1>2. /\ \A t \in State : t # s => marks'[t] = marks[t]
      /\ n \in Nat /\ Len(marks'[s]) = n + 1
      /\ \A i \in 1 .. n : marks'[s][i] = marks[s][i]
      /\ marks'[s][n + 1] = [sp |-> Sp(s), called |-> FALSE]
  BY <1>1, MarksPushed
<1>3. \A t \in State : t # s => Untouched(t)
  BY <1>1, <1>2, OthersUntouchedFixed DEF autoVars, fixedVars
<1>4. Sp(s)' = Sp(s) /\ segIdx'[s] = segIdx[s] /\ \A i \in Nat : At(s, i)' = At(s, i)
  BY <1>1 DEF Sp, AutoSp, At, autoVars, fixedVars
<1>5. MarksHeld(s) /\ ReachedKnow(s) /\ Sp(s) \in Nat
  BY SpNat DEF ErrorInv
<1>6. \A i \in 1 .. n : marks[s][i].called /\ marks[s][i].sp \in Nat
  <2> SUFFICES ASSUME NEW i \in 1 .. n PROVE marks[s][i].called
    BY MarkSp
  <2>1. CASE i < n
    BY <1>5, <2>1 DEF MarksHeld
  <2>2. CASE i = n
    <3>1. marks[s] # << >>
      BY <1>2, EmptySeq
    <3> QED BY <1>1, <2>2, <3>1 DEF CalleeEntered, Top
  <2> QED BY <1>2, <2>1, <2>2
<1>7. \A i \in 1 .. Len(marks'[s]) : i \in 1 .. n \/ i = n + 1
  BY <1>2
<1> HIDE DEF n
<1>8. MarksHeld(s)'
  <2>1. CASE s \in minimize
    <3>1. segIdx[s] \in Nat /\ Sp(s) \div F \in Nat /\ segIdx[s] <= Sp(s) \div F
      <4>1. Sp(s) = AutoSp(s)
        BY <2>1 DEF Sp
      <4> QED BY <4>1, DepthSlot DEF Inv
    <3>2. \A i \in 1 .. n : /\ marks[s][i].sp \div F <= segIdx[s]
                            /\ marks[s][i].sp \div F <= Sp(s) \div F
      <4> SUFFICES ASSUME NEW i \in 1 .. n
                   PROVE /\ marks[s][i].sp \div F <= segIdx[s]
                         /\ marks[s][i].sp \div F <= Sp(s) \div F
        OBVIOUS
      <4>1. marks[s][i].sp \div F <= segIdx[s]
        BY <1>5, <1>6, <2>1 DEF MarksHeld, n
      <4>2. marks[s][i].sp \div F \in Nat
        BY <1>6, DivMod
      <4> QED BY <3>1, <4>1, <4>2
    <3>3. ASSUME NEW i \in 1 .. Len(marks'[s]), NEW j \in 1 .. Len(marks'[s]), i <= j
          PROVE marks'[s][i].sp \div F <= marks'[s][j].sp \div F
      <4>1. CASE j \in 1 .. n
        <5>1. i \in 1 .. n
          BY <1>2, <3>3, <4>1
        <5>2. marks[s][i].sp \div F <= marks[s][j].sp \div F
          BY <1>5, <2>1, <3>3, <4>1, <5>1 DEF MarksHeld, n
        <5> QED BY <1>2, <4>1, <5>1, <5>2
      <4>2. CASE j = n + 1
        <5>1. marks'[s][j].sp = Sp(s)
          BY <1>2, <4>2
        <5>2. marks'[s][i].sp = Sp(s) \/ (i \in 1 .. n /\ marks'[s][i] = marks[s][i])
          BY <1>2, <1>7, <3>3
        <5> QED BY <3>1, <3>2, <5>1, <5>2
      <4> QED BY <1>7, <3>3, <4>1, <4>2
    <3>4. ASSUME NEW i \in 1 .. Len(marks'[s])
          PROVE /\ i < Len(marks'[s]) => marks'[s][i].called
                /\ ~marks'[s][i].called => marks'[s][i].sp = Sp(s)
                /\ marks'[s][i].called => marks'[s][i].sp \div F <= segIdx[s]
      BY <1>2, <1>6, <1>7, <3>2, <3>4
    <3> QED BY <1>1, <1>4, <2>1, <3>3, <3>4 DEF MarksHeld
  <2>2. CASE s \notin minimize
    <3>1. ASSUME NEW i \in 1 .. Len(marks'[s])
          PROVE /\ i < Len(marks'[s]) => marks'[s][i].called
                /\ ~marks'[s][i].called => marks'[s][i].sp = Sp(s)
                /\ marks'[s][i].sp <= Sp(s)
      <4>1. CASE i \in 1 .. n
        BY <1>2, <1>5, <1>6, <2>2, <4>1 DEF MarksHeld, n
      <4>2. CASE i = n + 1
        BY <1>2, <1>5, <4>2
      <4> QED BY <1>7, <3>1, <4>1, <4>2
    <3>2. ASSUME NEW i \in 1 .. Len(marks'[s]), NEW j \in 1 .. Len(marks'[s]), i <= j
          PROVE marks'[s][i].sp <= marks'[s][j].sp
      <4>1. CASE j \in 1 .. n
        <5>1. i \in 1 .. n
          BY <1>2, <3>2, <4>1
        <5>2. marks[s][i].sp <= marks[s][j].sp
          BY <1>5, <2>2, <3>2, <4>1, <5>1 DEF MarksHeld, n
        <5> QED BY <1>2, <4>1, <5>1, <5>2
      <4>2. CASE j = n + 1
        BY <1>2, <3>1, <3>2, <4>2
      <4> QED BY <1>7, <3>2, <4>1, <4>2
    <3> QED BY <1>1, <1>4, <2>2, <3>1, <3>2 DEF MarksHeld
  <2> QED BY <2>1, <2>2
<1>9. ReachedKnow(s)'
  <2> SUFFICES ASSUME NEW i \in Nat, Reached(s, i)'
               PROVE (At(s, i)').Idx = i /\ (At(s, i)').fn \in Fn
    BY DEF ReachedKnow
  <2>1. Reached(s, i)
    <3>1. ASSUME NEW j \in 1 .. Len(marks'[s]), i < marks'[s][j].sp PROVE Reached(s, i)
      <4>1. CASE j \in 1 .. n
        BY <1>2, <3>1, <4>1 DEF Reached, n
      <4>2. CASE j = n + 1
        BY <1>2, <3>1, <4>2 DEF Reached
      <4> QED BY <1>7, <3>1, <4>1, <4>2
    <3> QED BY <1>4, <3>1 DEF Reached
  <2> QED BY <1>1, <1>4, <1>5, <2>1 DEF ReachedKnow
<1> QED BY <1>3, <1>8, <1>9, ErrorFromParts

\* PCall's deferred SetSp(sp): back at depth sp or, when the call failed before
\* it pushed a frame and sp is the first depth of a segment, one segment less.
LEMMA LeavePCallTouches ==
  ASSUME Inv, NEW s \in State, MarksHeld(s), LeavePCall(s)
  PROVE  /\ \/ Sp(s)' = Floor(s)
            \/ /\ s \in minimize /\ ~Top(marks[s]).called
               /\ Floor(s) % FramesPerSegment = 0 /\ Sp(s)' = Floor(s) - FramesPerSegment
         /\ s \in minimize =>
              \A i \in 1 .. Len(marks[s]) - 1 : marks[s][i].sp \div FramesPerSegment <= segIdx'[s]
         /\ \A t \in State : t # s => Untouched(t)
         /\ \A i \in Nat : HasCell(s, i) /\ HasCell(s, i)' => At(s, i)' = At(s, i)
<1> DEFINE F == FramesPerSegment
           n == Len(marks[s])
<1>1. /\ ~closed[s] /\ marks[s] # << >> /\ SetSp(s, Floor(s)) /\ UNCHANGED <<minimize, closed>>
      /\ marks' = [marks EXCEPT ![s] = SubSeq(@, 1, Len(@) - 1)]
  BY DEF LeavePCall
<1>2. \A t \in State : t # s => marks'[t] = marks[t]
  BY <1>1 DEF Inv, MarkType
<1>3. /\ n \in Nat \ {0} /\ Floor(s) \in Nat
      /\ Floor(s) = marks[s][n].sp /\ Top(marks[s]) = marks[s][n]
  BY <1>1, FloorNat DEF Inv, Floor, Top
<1>4. CASE s \in minimize
  <2>1. AutoSetSp(s, Floor(s)) /\ UNCHANGED fixedVars /\ Sp(s) = AutoSp(s) /\ Sp(s)' = AutoSp(s)'
    BY <1>1, <1>4 DEF SetSp, Sp
  <2>2. /\ SegmentsKeep(heap)
        /\ segSp'[s] = Floor(s) % F
        /\ segIdx'[s] = IF segIdx[s] <= Floor(s) \div F THEN segIdx[s] ELSE Floor(s) \div F
    BY <1>1, <1>3, <1>4, <2>1, SetSpCells DEF Inv
  <2>3. /\ Floor(s) \div F \in Nat /\ Floor(s) % F \in 0 .. F - 1 /\ F \in Nat \ {0}
        /\ Floor(s) = (Floor(s) % F) + (Floor(s) \div F) * F
        /\ segIdx[s] \in Nat
    BY <1>3, DivMod, SizeAssumption DEF Inv, AutoInv, AutoType
  <2>4. AutoSp(s)' = segSp'[s] + segIdx'[s] * F
    BY DEF AutoSp
  <2>5. ~Top(marks[s]).called => Floor(s) = AutoSp(s)
    BY <1>3, <2>1 DEF MarksHeld
  <2>6. \/ Floor(s) \div F <= segIdx[s]
        \/ /\ ~Top(marks[s]).called /\ Floor(s) % F = 0
           /\ Floor(s) \div F = segIdx[s] + 1
    <3>1. CASE Top(marks[s]).called
      BY <1>3, <1>4, <3>1 DEF MarksHeld
    <3>2. CASE ~Top(marks[s]).called
      <4>1. CASE segSp[s] < F
        <5>1. Floor(s) \div F = segIdx[s]
          BY <2>5, <3>2, <4>1, DepthSlot DEF Inv
        <5> QED BY <2>3, <5>1
      <4>2. CASE ~(segSp[s] < F)
        BY <2>5, <3>2, <4>2, DepthSlot DEF Inv
      <4> QED BY <4>1, <4>2
    <3> QED BY <3>1, <3>2
  <2>7. \/ Sp(s)' = Floor(s)
        \/ ~Top(marks[s]).called /\ Floor(s) % F = 0 /\ Sp(s)' = Floor(s) - F
    <3>1. CASE Floor(s) \div F <= segIdx[s]
      <4>1. segIdx'[s] = Floor(s) \div F
        BY <2>2, <2>3, <3>1
      <4> QED BY <2>1, <2>2, <2>3, <2>4, <4>1
    <3>2. CASE ~(Floor(s) \div F <= segIdx[s])
      <4>1. /\ ~Top(marks[s]).called /\ Floor(s) % F = 0
            /\ Floor(s) \div F = segIdx[s] + 1
        BY <2>6, <3>2
      <4>2. segIdx'[s] = segIdx[s]
        BY <2>2, <2>3, <4>1
      <4>3. Sp(s)' = segIdx[s] * F
        BY <2>1, <2>2, <2>3, <2>4, <4>1, <4>2
      <4>4. Floor(s) = (segIdx[s] + 1) * F
        BY <2>3, <4>1
      <4>5. Sp(s)' = Floor(s) - F
        BY <2>3, <4>3, <4>4
      <4> QED BY <4>1, <4>5
    <3> QED BY <3>1, <3>2
  <2>8. ASSUME NEW i \in 1 .. n - 1 PROVE marks[s][i].sp \div F <= segIdx'[s]
    <3>1. i \in 1 .. n /\ i < n /\ n \in 1 .. n /\ i <= n
      BY <1>3
    <3>2. marks[s][i].sp \div F <= segIdx[s] /\ marks[s][i].sp \div F <= Floor(s) \div F
      BY <1>3, <1>4, <3>1 DEF MarksHeld
    <3> QED BY <2>2, <3>2
  <2>9. \A t \in State : t # s => segIdx'[t] = segIdx[t] /\ segSp'[t] = segSp[t]
    BY <2>1 DEF AutoSetSp, Inv, AutoInv, AutoType
  <2>10. \A t \in State : t # s => Untouched(t)
    BY <1>1, <1>2, <2>1, <2>2, <2>9, OthersUntouchedAuto
  <2>11. \A i \in Nat : HasCell(s, i) /\ HasCell(s, i)' => At(s, i)' = At(s, i)
    BY <1>1, <1>4, <2>2 DEF SegmentsKeep, HasCell, AutoAt, At
  <2> QED BY <1>4, <2>7, <2>8, <2>10, <2>11
<1>5. CASE s \notin minimize
  <2>1. sp' = [sp EXCEPT ![s] = Floor(s)] /\ UNCHANGED array /\ UNCHANGED autoVars
    BY <1>1, <1>5 DEF SetSp, FixedSetSp
  <2>2. sp'[s] = Floor(s) /\ \A t \in State : t # s => sp'[t] = sp[t]
    BY <2>1 DEF Inv, FixedType, SpType
  <2>3. Sp(s)' = Floor(s) /\ \A i \in Nat : At(s, i)' = At(s, i)
    BY <1>1, <1>5, <2>1, <2>2 DEF Sp, At
  <2>4. \A t \in State : t # s => Untouched(t)
    BY <1>1, <1>2, <2>1, <2>2, OthersUntouchedFixed DEF autoVars
  <2> QED BY <1>5, <2>3, <2>4
<1> QED BY <1>4, <1>5

\* The deferred function of PCall keeps the invariant.
LEMMA LeavePCallError ==
  ASSUME Inv, ErrorInv, NEW s \in State, LeavePCall(s)
  PROVE  ErrorInv'
<1> DEFINE F == FramesPerSegment
           n == Len(marks[s])
<1>1. MarksHeld(s) /\ ReachedKnow(s) /\ Inv'
  BY LeavePCallInv DEF ErrorInv
<1>2. /\ Sp(s)' = Floor(s) \/ Sp(s)' = Floor(s) - F
      /\ s \notin minimize => Sp(s)' = Floor(s)
      /\ s \in minimize =>
           \A i \in 1 .. n - 1 : marks[s][i].sp \div F <= segIdx'[s]
      /\ \A t \in State : t # s => Untouched(t)
      /\ \A i \in Nat : HasCell(s, i) /\ HasCell(s, i)' => At(s, i)' = At(s, i)
  BY <1>1, LeavePCallTouches
<1>3. /\ ~closed[s] /\ marks[s] # << >> /\ UNCHANGED <<minimize, closed>>
      /\ marks' = [marks EXCEPT ![s] = SubSeq(@, 1, Len(@) - 1)]
  BY DEF LeavePCall
<1>4. /\ Len(marks'[s]) = n - 1
      /\ \A i \in 1 .. n - 1 : marks'[s][i] = marks[s][i]
  BY <1>3, MarksPopped DEF Inv
<1>5. /\ n \in Nat \ {0} /\ Floor(s) \in Nat /\ Floor(s) = marks[s][n].sp
      /\ \A i \in 1 .. n : marks[s][i].sp \in Nat
      /\ F \in Nat /\ n \in 1 .. n
      /\ \A i \in 1 .. n - 1 : i \in 1 .. n /\ i < n
  BY <1>3, FloorNat, MarkSp, SizeAssumption DEF Inv, Floor, Top
<1> HIDE DEF n
<1>6. \A i \in 1 .. n - 1 : marks[s][i].called
  BY <1>1, <1>5 DEF MarksHeld, n
<1>7. MarksHeld(s)'
  <2>1. CASE s \in minimize
    <3>1. \A i, j \in 1 .. n - 1 : i <= j => marks[s][i].sp \div F <= marks[s][j].sp \div F
      BY <1>1, <1>5, <2>1 DEF MarksHeld, n
    <3> QED BY <1>2, <1>3, <1>4, <1>6, <2>1, <3>1 DEF MarksHeld
  <2>2. CASE s \notin minimize
    <3>1. \A i, j \in 1 .. n : i <= j => marks[s][i].sp <= marks[s][j].sp
      BY <1>1, <2>2 DEF MarksHeld, n
    <3>2. \A i \in 1 .. n - 1 : marks[s][i].sp <= Floor(s)
      BY <1>5, <3>1
    <3> QED BY <1>2, <1>3, <1>4, <1>5, <1>6, <2>2, <3>1, <3>2 DEF MarksHeld
  <2> QED BY <2>1, <2>2
<1>8. ReachedKnow(s)'
  <2> SUFFICES ASSUME NEW i \in Nat, Reached(s, i)'
               PROVE (At(s, i)').Idx = i /\ (At(s, i)').fn \in Fn
    BY DEF ReachedKnow
  <2>1. \/ i < Sp(s)'
        \/ \E j \in 1 .. n - 1 : i < marks[s][j].sp
    BY <1>4 DEF Reached
  <2>2. Reached(s, i)
    <3>1. ASSUME i < Sp(s)' PROVE i < marks[s][n].sp
      BY <1>2, <1>5, <3>1
    <3> QED BY <1>5, <2>1, <3>1 DEF Reached, n
  <2>3. HasCell(s, i)
    BY <1>1, <1>3, <2>2, ReachedHasCell
  <2>4. HasCell(s, i)'
    <3>1. CASE s \in minimize
      <4>1. segIdx'[s] \in Nat /\ segSp'[s] \in 0 .. F /\ i \div F \in Nat
        BY <1>1, DivMod DEF Inv, AutoInv, AutoType
      <4>2. ASSUME i < Sp(s)' PROVE i \div F <= segIdx'[s]
        <5>1. i < segSp'[s] + segIdx'[s] * F
          BY <1>3, <3>1, <4>2 DEF Sp, AutoSp
        <5> QED BY <4>1, <5>1, DivBound
      <4>3. ASSUME NEW j \in 1 .. n - 1, i < marks[s][j].sp PROVE i \div F <= segIdx'[s]
        <5>1. i \div F <= marks[s][j].sp \div F
          BY <1>5, <4>3, DivMonotone
        <5>2. marks[s][j].sp \div F <= segIdx'[s]
          BY <1>2, <3>1
        <5>3. marks[s][j].sp \div F \in Nat
          BY <1>5, DivMod
        <5> QED BY <4>1, <5>1, <5>2, <5>3
      <4> QED BY <1>3, <2>1, <3>1, <4>2, <4>3 DEF HasCell
    <3>2. CASE s \notin minimize
      BY <1>3, <2>3, <3>2 DEF HasCell
    <3> QED BY <3>1, <3>2
  <2> QED BY <1>1, <1>2, <1>3, <2>2, <2>3, <2>4 DEF ReachedKnow
<1> QED BY <1>2, <1>7, <1>8, ErrorFromParts

\* newLState keeps the invariant.
LEMMA NewStateError ==
  ASSUME Inv, ErrorInv, NEW s \in State, NewState(s)
  PROVE  ErrorInv'
<1>1. /\ UNCHANGED <<marks, segIdx, segSp, heap>> /\ UNCHANGED fixedVars
      /\ closed' = [closed EXCEPT ![s] = FALSE]
      /\ \A t \in State : t # s => (t \in minimize' <=> t \in minimize)
  BY DEF NewState, autoVars
<1>2. \A t \in State : t # s => closed'[t] = closed[t] /\ segments'[t] = segments[t]
  BY <1>1 DEF NewState, autoVars, Inv, AutoInv, AutoType, SegmentsType
<1>3. \A t \in State : t # s => Untouched(t)
  BY <1>1, <1>2, OthersUntouchedFixed DEF fixedVars
<1>4. Sp(s)' = 0 /\ Len(marks'[s]) = 0
  BY <1>1, NewStateEffect, EmptySeq
<1>5. MarksHeld(s)' /\ ReachedKnow(s)'
  BY <1>4 DEF MarksHeld, ReachedKnow, Reached
<1> QED BY <1>3, <1>5, ErrorFromParts

\* LState.Close keeps the invariant.
LEMMA CloseError ==
  ASSUME Inv, ErrorInv, NEW s \in State, Close(s)
  PROVE  ErrorInv'
<1>1. /\ ~closed[s] /\ marks[s] = << >> /\ UNCHANGED <<minimize, marks>>
      /\ closed' = [closed EXCEPT ![s] = TRUE]
  BY DEF Close
<1>2. closed'[s] /\ \A t \in State : t # s => closed'[t] = closed[t]
  BY <1>1 DEF Inv, AutoInv, AutoType
<1>3. \A t \in State : t # s => Untouched(t)
  <2>1. CASE s \notin minimize
    <3>1. \A t \in State : t # s => array'[t] = array[t] /\ sp'[t] = sp[t]
      BY <2>1 DEF Close, Inv, FixedType, ArrayType, SpType
    <3>2. UNCHANGED autoVars
      BY <2>1 DEF Close
    <3> QED BY <1>1, <1>2, <3>1, <3>2, OthersUntouchedFixed DEF autoVars
  <2>2. CASE s \in minimize
    <3> DEFINE S == 0 .. segIdx[s]
    <3>1. /\ pool' = PoolAfterPut(s, S) /\ heap' = HeapAfterPut(heap, s, S)
          /\ segments' = Detach(s, S) /\ UNCHANGED fixedVars
          /\ \A t \in State : t # s => segIdx'[t] = segIdx[t] /\ segSp'[t] = segSp[t]
      BY <2>2 DEF Close, Inv, AutoInv, AutoType
    <3>2. S \in Slots(s) /\ heap \in Heaps
      BY DEF Slots, Inv, AutoInv, AutoType
    <3> HIDE DEF S
    <3> SUFFICES ASSUME NEW t \in State, t # s PROVE Untouched(t)
      OBVIOUS
    <3>3. Sp(t)' = Sp(t)
      BY <1>1, <3>1 DEF Sp, AutoSp, fixedVars
    <3>4. ASSUME ~closed[t], NEW i \in Nat, HasCell(t, i) PROVE At(t, i)' = At(t, i)
      <4>1. CASE t \notin minimize
        BY <1>1, <3>1, <4>1 DEF At, fixedVars
      <4>2. CASE t \in minimize
        <5>1. i \div FramesPerSegment <= segIdx[t]
          BY <3>4, <4>2 DEF HasCell
        <5>2. heap'[segments'[t][i \div FramesPerSegment]][i % FramesPerSegment] = AutoAt(heap, t, i)
          BY <1>1, <2>2, <3>1, <3>2, <3>4, <4>2, <5>1, PutCells DEF Inv
        <5> QED BY <1>1, <4>2, <5>2 DEF At, AutoAt
      <4> QED BY <4>1, <4>2
    <3> QED BY <1>1, <1>2, <3>1, <3>3, <3>4 DEF Untouched
  <2> QED BY <2>1, <2>2
<1>4. MarksHeld(s)' /\ ReachedKnow(s)'
  <2>1. Len(marks'[s]) = 0
    BY <1>1, EmptySeq
  <2> QED BY <1>2, <2>1 DEF MarksHeld, ReachedKnow
<1> QED BY <1>3, <1>4, ErrorFromParts

\* A step that changes neither a stack nor the PCalls, as an error, keeps it.
LEMMA RaiseErrorError ==
  ASSUME Inv, ErrorInv, UNCHANGED <<minimize, autoVars, fixedVars, marks, closed>>
  PROVE  ErrorInv'
<1>1. \A t \in State : Sp(t)' = Sp(t) /\ \A i \in Nat : At(t, i)' = At(t, i)
  BY DEF Sp, AutoSp, At, autoVars, fixedVars
<1>2. \A t \in State : Untouched(t)
  BY <1>1 DEF Untouched, autoVars
<1> QED BY <1>2, UntouchedError DEF ErrorInv

\* Every step keeps the invariant, errors at any time included.
LEMMA StepError ==
  ASSUME Inv, ErrorInv, [FullNext]_vars
  PROVE  ErrorInv'
<1>1. CASE UNCHANGED vars
  BY <1>1, RaiseErrorError DEF vars
<1>2. ASSUME NEW s \in State, Step(s) \/ StackOverflow(s) \/ Fail(s)
      PROVE ErrorInv'
  <2>1. ASSUME NEW f \in Code[s], pushCallFrame(s, f) PROVE ErrorInv'
    <3>1. f \in Fn
      BY NameAssumption
    <3> QED BY <2>1, <3>1, PushError
  <2>2. StackOverflow(s) \/ Fail(s) => ErrorInv'
    BY RaiseErrorError DEF StackOverflow, Fail, RaiseError
  <2> QED BY <1>2, <2>1, <2>2, NewStateError, ReturnError, RemoveCallerFrameError,
             EnterPCallError, LeavePCallError, CloseError DEF Step
<1> QED BY <1>1, <1>2 DEF FullNext

\* The invariant holds before any LState exists.
LEMMA InitError == Init => ErrorInv
<1> SUFFICES ASSUME Init, NEW s \in State PROVE MarksHeld(s) /\ ReachedKnow(s)
  BY DEF ErrorInv
<1>1. closed[s] /\ Len(marks[s]) = 0
  BY EmptySeq DEF Init
<1> QED BY <1>1 DEF MarksHeld, ReachedKnow

\* Whenever errors strike, the frames up to every depth that a stack is at or that
\* a PCall in progress will set it to are attached and know their depths.
THEOREM ErrorInvHolds == FullSpec => [](Inv /\ ErrorInv)
<1>1. Init => Inv /\ ErrorInv
  BY InitInv, InitError
<1>2. Inv /\ ErrorInv /\ [FullNext]_vars => (Inv /\ ErrorInv)'
  BY StepInv, StepError
<1> QED BY <1>1, <1>2, PTL DEF FullSpec

\* In every stack every frame is a pushed one and knows its own depth, although a
\* call that fails before it pushes a frame may make PCall's SetSp cut a segment
\* too much (autoGrowingCallFrameStack.SetSp).
THEOREM FramesSurviveErrors == FullSpec => []FrameKnowsDepth
<1>1. Inv /\ ErrorInv => FrameKnowsDepth
  <2> SUFFICES ASSUME Inv, ErrorInv, NEW s \in State, ~closed[s], NEW i \in 0 .. Sp(s) - 1
               PROVE At(s, i).Idx = i /\ At(s, i).fn \in Fn
    BY DEF FrameKnowsDepth
  <2>1. i \in Nat /\ i < Sp(s)
    BY SpNat
  <2> QED BY <2>1 DEF ErrorInv, ReachedKnow, Reached
<1> QED BY <1>1, ErrorInvHolds, PTL

\* PCall's SetSp(sp) leaves the stack at depth sp or, only on a segmented stack,
\* only when nothing was called and only when sp is the first depth of a segment,
\* exactly one segment less deep.
PCallCutsAtMostASegment ==
  [][\A s \in State : Len(marks'[s]) < Len(marks[s]) =>
       \/ Sp(s)' = Floor(s)
       \/ /\ s \in minimize /\ ~Top(marks[s]).called
          /\ Floor(s) % FramesPerSegment = 0 /\ Sp(s)' = Floor(s) - FramesPerSegment]_vars

\* How wrong the depth after a PCall can be, whenever errors strike
\* (autoGrowingCallFrameStack.SetSp).
THEOREM PCallNearlyRestores == FullSpec => PCallCutsAtMostASegment
<1>1. Inv /\ ErrorInv /\ [FullNext]_vars =>
        [\A s \in State : Len(marks'[s]) < Len(marks[s]) =>
           \/ Sp(s)' = Floor(s)
           \/ /\ s \in minimize /\ ~Top(marks[s]).called
              /\ Floor(s) % FramesPerSegment = 0 /\ Sp(s)' = Floor(s) - FramesPerSegment]_vars
  BY MarksShorten, LeavePCallTouches DEF ErrorInv
<1> QED BY <1>1, ErrorInvHolds, PTL DEF FullSpec, PCallCutsAtMostASegment
=============================================================================
