------------------------ MODULE CallFrameStackProofs ------------------------
(***************************************************************************)
(* Ownership of the segments of the call stacks of state.go, for every     *)
(* number of LStates, segment size and stack size: the inductive invariant *)
(* Inv, kept by each operation in turn, and what follows from it.          *)
(***************************************************************************)
EXTENDS CallFrameStack, SequenceTheorems, TLAPS

\* newAutoGrowingCallFrameStack allocates at least one slot for a segment.
LEMMA NSegmentsNat ==
  ASSUME NEW s \in State
  PROVE  NSegments(s) \in Nat \ {0}
BY SizeAssumption DEF NSegments

\* Quotient and remainder of a depth given as slot and place (Sp, At, SetSp).
LEMMA AutoDiv ==
  ASSUME NEW q \in Nat, NEW r \in 0 .. FramesPerSegment - 1
  PROVE  /\ (r + q * FramesPerSegment) \div FramesPerSegment = q
         /\ (r + q * FramesPerSegment) % FramesPerSegment = r
BY SizeAssumption

\* SetSp and At: a depth is its place in the segment plus whole segments.
LEMMA DivMod ==
  ASSUME NEW n \in Nat
  PROVE  /\ n \div FramesPerSegment \in Nat
         /\ n % FramesPerSegment \in 0 .. FramesPerSegment - 1
         /\ n = (n % FramesPerSegment) + (n \div FramesPerSegment) * FramesPerSegment
BY SizeAssumption

\* At: a depth below Sp is in a slot up to segIdx, and below segSp in the last.
LEMMA DivBound ==
  ASSUME NEW q \in Nat, NEW r \in 0 .. FramesPerSegment, NEW i \in Nat,
         i < r + q * FramesPerSegment
  PROVE  /\ i \div FramesPerSegment <= q
         /\ i \div FramesPerSegment = q => i % FramesPerSegment < r
BY SizeAssumption

-----------------------------------------------------------------------------
Heaps == [SegId -> [SegSlots -> Frame]]

SegmentsType ==
  /\ segments = [s \in State |-> segments[s]]
  /\ \A s \in State : segments[s] \in [0 .. NSegments(s) - 1 -> SegId \cup {nil}]

PoolType == pool \in [SegId -> Nat]

AutoType ==
  /\ minimize \subseteq State
  /\ SegmentsType
  /\ segIdx \in [State -> Nat]
  /\ \A s \in State : segIdx[s] \in 0 .. NSegments(s) - 1
  /\ segSp \in [State -> 0 .. FramesPerSegment]
  /\ heap \in Heaps
  /\ PoolType
  /\ closed \in [State -> BOOLEAN]

\* The slots of s that may be given back.
Slots(s) == SUBSET (0 .. segIdx[s])

\* The step changes the segments of s in slots S, and no others, to id.
SlotsBecome(s, S, id) ==
  \A t \in State : \A i \in 0 .. NSegments(t) - 1 :
    segments'[t][i] = IF t = s /\ i \in S THEN id ELSE segments[t][i]

AutoInv == AutoType /\ SegmentsOwned /\ SegmentsExact

\* freeCallFrameStackSegment: segments that leave their slots for segmentPool
\* stay owned once.
LEMMA PutOwned ==
  ASSUME AutoInv, NEW s \in State, s \in minimize, ~closed[s],
         NEW S \in Slots(s), NEW h \in Heaps,
         pool' = PoolAfterPut(s, S), segments' = Detach(s, S),
         heap' = HeapAfterPut(h, s, S)
  PROVE  /\ SegmentsOwned'
         /\ PoolType' /\ SegmentsType' /\ heap' \in Heaps
         /\ SlotsBecome(s, S, nil)
<1>1. \A i \in S : i \in 0 .. NSegments(s) - 1 /\ segments[s][i] \in SegId
  BY NSegmentsNat, NameAssumption DEF AutoInv, AutoType, SegmentsType, SegmentsExact, Slots
<1>2. \A t \in State : \A i \in 0 .. NSegments(t) - 1 :
        segments'[t][i] = IF t = s /\ i \in S THEN nil ELSE segments[t][i]
  BY DEF Detach, AutoInv, AutoType, SegmentsType, PoolType
<1>3. /\ segments' = [t \in State |-> segments'[t]]
      /\ \A t \in State : segments'[t] \in [0 .. NSegments(t) - 1 -> SegId \cup {nil}]
  BY DEF Detach, AutoInv, AutoType, SegmentsType, PoolType
<1>4. pool' \in [SegId -> Nat]
  BY DEF PoolAfterPut, AutoInv, AutoType, SegmentsType, PoolType
<1>5. heap' \in Heaps
  BY DEF HeapAfterPut, Unspecified, ZeroFrame, Frame, Heaps
<1>6. SegmentsOwned'
  <2>1. \A id \in SegId : pool'[id] <= 1
    <3> SUFFICES ASSUME NEW id \in SegId PROVE pool'[id] <= 1
      OBVIOUS
    <3>1. id \in Put(s, S) => pool[id] = 0
      BY <1>1, NameAssumption DEF AutoInv, SegmentsOwned, Put
    <3> QED BY <3>1 DEF AutoInv, AutoType, SegmentsType, PoolType, SegmentsOwned, PoolAfterPut
  <2>2. \A t \in State : \A i \in 0 .. NSegments(t) - 1 :
          segments'[t][i] # nil => pool'[segments'[t][i]] = 0
    <3> SUFFICES ASSUME NEW t \in State, NEW i \in 0 .. NSegments(t) - 1, segments'[t][i] # nil
                 PROVE pool'[segments'[t][i]] = 0
      OBVIOUS
    <3>1. ~(t = s /\ i \in S) /\ segments'[t][i] = segments[t][i]
      BY <1>2
    <3>2. segments[t][i] \in SegId
      BY <3>1 DEF AutoInv, AutoType, SegmentsType, PoolType
    <3>3. segments[t][i] \notin Put(s, S)
      BY <1>1, <3>1, <3>2, NameAssumption DEF AutoInv, SegmentsOwned, Put
    <3> QED BY <3>1, <3>2, <3>3 DEF AutoInv, SegmentsOwned, PoolAfterPut
  <2>3. \A t, u \in State : \A i \in 0 .. NSegments(t) - 1, j \in 0 .. NSegments(u) - 1 :
          segments'[t][i] = segments'[u][j] /\ segments'[t][i] # nil => t = u /\ i = j
    BY <1>2 DEF AutoInv, SegmentsOwned
  <2> QED BY <2>1, <2>2, <2>3 DEF SegmentsOwned, NSegments
<1> QED BY <1>2, <1>3, <1>4, <1>5, <1>6 DEF PoolType, SegmentsType, SlotsBecome, NSegments

\* newCallFrameStackSegment: a segment taken from segmentPool or allocated is
\* attached nowhere else.
LEMMA GetOwned ==
  ASSUME AutoInv, NEW s \in State, NEW k \in 0 .. NSegments(s) - 1, segments[s][k] = nil,
         NEW id \in SegId, Gets(id),
         pool' = PoolAfterGet(id), segments' = [segments EXCEPT ![s][k] = id]
  PROVE  /\ SegmentsOwned'
         /\ PoolType' /\ SegmentsType' /\ ~Attached(id)
         /\ SlotsBecome(s, {k}, id)
<1>1. ~Attached(id)
  BY NameAssumption DEF AutoInv, AutoType, SegmentsType, PoolType, SegmentsOwned, Gets, Attached
<1>2. \A t \in State : \A i \in 0 .. NSegments(t) - 1 :
        segments'[t][i] = IF t = s /\ i = k THEN id ELSE segments[t][i]
  BY DEF AutoInv, AutoType, SegmentsType, PoolType
<1>3. /\ segments' = [t \in State |-> segments'[t]]
      /\ \A t \in State : segments'[t] \in [0 .. NSegments(t) - 1 -> SegId \cup {nil}]
  BY DEF AutoInv, AutoType, SegmentsType, PoolType
<1>4. /\ pool' \in [SegId -> Nat]
      /\ pool'[id] = 0
      /\ \A x \in SegId : x # id => pool'[x] = pool[x]
  BY DEF PoolAfterGet, AutoInv, AutoType, SegmentsType, PoolType, SegmentsOwned
<1>5. SegmentsOwned'
  <2>1. \A x \in SegId : pool'[x] <= 1
    BY <1>4 DEF AutoInv, SegmentsOwned
  <2>2. \A t \in State : \A i \in 0 .. NSegments(t) - 1 :
          segments'[t][i] # nil => pool'[segments'[t][i]] = 0
    <3> SUFFICES ASSUME NEW t \in State, NEW i \in 0 .. NSegments(t) - 1, segments'[t][i] # nil
                 PROVE pool'[segments'[t][i]] = 0
      OBVIOUS
    <3> segments'[t][i] \in SegId
      BY <1>3
    <3> QED BY <1>2, <1>4 DEF AutoInv, SegmentsOwned
  <2>3. \A t, u \in State : \A i \in 0 .. NSegments(t) - 1, j \in 0 .. NSegments(u) - 1 :
          segments'[t][i] = segments'[u][j] /\ segments'[t][i] # nil => t = u /\ i = j
    BY <1>1, <1>2 DEF AutoInv, SegmentsOwned, Attached
  <2> QED BY <2>1, <2>2, <2>3 DEF SegmentsOwned, NSegments
<1> QED BY <1>1, <1>2, <1>3, <1>4, <1>5 DEF PoolType, SegmentsType, SlotsBecome, NSegments

\* autoGrowingCallFrameStack.Push keeps the invariant of the segmented stacks.
LEMMA AutoPushInv ==
  ASSUME AutoInv, NEW s \in State, s \in minimize, ~closed[s], NEW f \in Fn,
         AutoPush(s, f), UNCHANGED <<minimize, closed>>
  PROVE  AutoInv'
<1>1. CASE segSp[s] < FramesPerSegment
  <2>1. /\ heap' = [heap EXCEPT ![segments[s][segIdx[s]]][segSp[s]] =
                                    [fn |-> f, Idx |-> AutoSp(s)]]
        /\ segSp' = [segSp EXCEPT ![s] = @ + 1]
        /\ UNCHANGED <<segments, segIdx, pool>>
    BY <1>1, SizeAssumption DEF AutoPush, AutoInv, AutoType
  <2>2. AutoSp(s) \in Nat
    BY SizeAssumption DEF AutoSp, AutoInv, AutoType
  <2>3. heap' \in Heaps
    BY <2>1, <2>2 DEF AutoInv, AutoType, Frame, Heaps
  <2>4. segSp' \in [State -> 0 .. FramesPerSegment]
    BY <1>1, <2>1, SizeAssumption DEF AutoInv, AutoType
  <2>5. AutoType'
    BY <2>1, <2>3, <2>4 DEF AutoInv, AutoType, SegmentsType, PoolType, NSegments
  <2>6. SegmentsOwned' /\ SegmentsExact'
    BY <2>1 DEF AutoInv, SegmentsOwned, SegmentsExact, NSegments
  <2> QED BY <2>5, <2>6 DEF AutoInv
<1>2. CASE ~(segSp[s] < FramesPerSegment)
  <2>1. /\ segIdx[s] < NSegments(s) - 1
        /\ segIdx' = [segIdx EXCEPT ![s] = @ + 1]
        /\ segSp' = [segSp EXCEPT ![s] = 1]
    BY <1>2 DEF AutoPush
  <2>2. PICK id \in SegId :
          /\ Gets(id)
          /\ heap' = [heap EXCEPT ![id][0] =
                        [fn |-> f, Idx |-> FramesPerSegment * (segIdx[s] + 1)]]
          /\ pool' = PoolAfterGet(id)
          /\ segments' = [segments EXCEPT ![s][segIdx[s] + 1] = id]
    BY <1>2 DEF AutoPush
  <2>3. /\ segIdx[s] \in Nat /\ segIdx[s] + 1 \in 0 .. NSegments(s) - 1
        /\ segments[s][segIdx[s] + 1] = nil
    <3>1. segIdx[s] \in Nat /\ segIdx[s] + 1 \in 0 .. NSegments(s) - 1
      BY <2>1, NSegmentsNat DEF AutoInv, AutoType
    <3>2. ~(segIdx[s] + 1 <= segIdx[s])
      BY <3>1
    <3> QED BY <3>1, <3>2 DEF AutoInv, SegmentsExact
  <2>4. /\ SegmentsOwned'
        /\ PoolType' /\ SegmentsType'
        /\ SlotsBecome(s, {segIdx[s] + 1}, id)
    BY <2>2, <2>3, GetOwned
  <2>5. heap' \in Heaps
    <3>1. FramesPerSegment * (segIdx[s] + 1) \in Nat
      BY <2>3, SizeAssumption
    <3> QED BY <2>2, <3>1 DEF AutoInv, AutoType, Frame, Heaps
  <2>6. /\ segIdx' \in [State -> Nat]
        /\ \A t \in State : segIdx'[t] \in 0 .. NSegments(t) - 1
        /\ segSp' \in [State -> 0 .. FramesPerSegment]
    BY <2>1, <2>3, SizeAssumption DEF AutoInv, AutoType
  <2>7. AutoType'
    BY <2>4, <2>5, <2>6 DEF AutoInv, AutoType, NSegments
  <2>8. SegmentsExact'
    <3> SUFFICES ASSUME NEW t \in State, NEW i \in 0 .. NSegments(t) - 1
                 PROVE segments'[t][i] # nil <=> t \in minimize /\ ~closed[t] /\ i <= segIdx'[t]
      BY DEF SegmentsExact, NSegments
    <3>1. CASE t # s
      BY <3>1, <2>1, <2>4 DEF AutoInv, AutoType, SegmentsExact, SlotsBecome
    <3>2. CASE t = s
      <4>1. segIdx'[s] = segIdx[s] + 1
        BY <2>1 DEF AutoInv, AutoType
      <4>2. i <= segIdx[s] + 1 <=> i <= segIdx[s] \/ i = segIdx[s] + 1
        BY <2>3, NSegmentsNat, <3>2
      <4> QED BY <3>2, <4>1, <4>2, <2>4, NameAssumption DEF AutoInv, SegmentsExact, SlotsBecome
    <3> QED BY <3>1, <3>2
  <2> QED BY <2>4, <2>7, <2>8 DEF AutoInv
<1> QED BY <1>1, <1>2

\* Cutting a segmented stack to slot k and place r, as Pop and SetSp do, keeps
\* the invariant of the segmented stacks.
LEMMA DetachInv ==
  ASSUME AutoInv, NEW s \in State, s \in minimize, ~closed[s],
         NEW k \in Nat, k <= segIdx[s],
         NEW S, S = {i \in 0 .. NSegments(s) - 1 : k < i /\ i <= segIdx[s]},
         NEW h \in Heaps,
         NEW r \in 0 .. FramesPerSegment,
         pool' = PoolAfterPut(s, S), segments' = Detach(s, S),
         heap' = HeapAfterPut(h, s, S),
         segIdx' = [segIdx EXCEPT ![s] = k],
         segSp' = [segSp EXCEPT ![s] = r],
         UNCHANGED <<minimize, closed>>
  PROVE  AutoInv'
<1>1. S \in Slots(s)
  BY DEF Slots, AutoInv, AutoType
<1>2. /\ SegmentsOwned'
      /\ PoolType' /\ SegmentsType' /\ heap' \in Heaps
      /\ SlotsBecome(s, S, nil)
  BY <1>1, PutOwned
<1>3. /\ segIdx' \in [State -> Nat]
      /\ \A t \in State : segIdx'[t] \in 0 .. NSegments(t) - 1
      /\ segSp' \in [State -> 0 .. FramesPerSegment]
  BY NSegmentsNat DEF AutoInv, AutoType
<1>4. AutoType'
  BY <1>2, <1>3 DEF AutoInv, AutoType, NSegments
<1>5. SegmentsExact'
  <2> SUFFICES ASSUME NEW t \in State, NEW i \in 0 .. NSegments(t) - 1
               PROVE segments'[t][i] # nil <=> t \in minimize /\ ~closed[t] /\ i <= segIdx'[t]
    BY DEF SegmentsExact, NSegments
  <2>1. CASE t # s
    <3>1. segIdx'[t] = segIdx[t]
      BY <2>1 DEF AutoInv, AutoType
    <3>2. segments'[t][i] = segments[t][i]
      BY <2>1, <1>2 DEF SlotsBecome
    <3> QED BY <3>1, <3>2 DEF AutoInv, SegmentsExact
  <2>2. CASE t = s
    <3>1. segIdx'[s] = k
      BY DEF AutoInv, AutoType
    <3>2. i <= k <=> i <= segIdx[s] /\ i \notin S
      BY <2>2, NSegmentsNat DEF AutoInv, AutoType
    <3> QED BY <2>2, <3>1, <3>2, <1>2 DEF AutoInv, SegmentsExact, SlotsBecome
  <2> QED BY <2>1, <2>2
<1> QED BY <1>2, <1>4, <1>5 DEF AutoInv

\* autoGrowingCallFrameStack.Pop keeps it.
LEMMA AutoPopInv ==
  ASSUME AutoInv, NEW s \in State, s \in minimize, ~closed[s],
         NEW h \in Heaps,
         AutoPop(s, h), UNCHANGED <<minimize, closed>>
  PROVE  AutoInv'
<1>1. CASE segSp[s] = 0
  <2>1. /\ segIdx[s] # 0
        /\ heap' = HeapAfterPut(h, s, {segIdx[s]})
        /\ pool' = PoolAfterPut(s, {segIdx[s]})
        /\ segments' = Detach(s, {segIdx[s]})
        /\ segIdx' = [segIdx EXCEPT ![s] = segIdx[s] - 1]
        /\ segSp' = [segSp EXCEPT ![s] = FramesPerSegment - 1]
    BY <1>1 DEF AutoPop
  <2>2. /\ segIdx[s] - 1 \in Nat /\ segIdx[s] - 1 <= segIdx[s]
        /\ FramesPerSegment - 1 \in 0 .. FramesPerSegment
        /\ {segIdx[s]} = {i \in 0 .. NSegments(s) - 1 : segIdx[s] - 1 < i /\ i <= segIdx[s]}
    BY <2>1, SizeAssumption, NSegmentsNat DEF AutoInv, AutoType
  <2> QED BY <2>1, <2>2, DetachInv
<1>2. CASE segSp[s] # 0
  <2>1. /\ heap' = h
        /\ segSp' = [segSp EXCEPT ![s] = @ - 1]
        /\ UNCHANGED <<segments, segIdx, pool>>
    BY <1>2 DEF AutoPop
  <2>2. segSp' \in [State -> 0 .. FramesPerSegment]
    BY <1>2, <2>1, SizeAssumption DEF AutoInv, AutoType
  <2>3. AutoType'
    BY <2>1, <2>2 DEF AutoInv, AutoType, SegmentsType, PoolType, NSegments
  <2>4. SegmentsOwned' /\ SegmentsExact'
    BY <2>1 DEF AutoInv, SegmentsOwned, SegmentsExact, NSegments
  <2> QED BY <2>3, <2>4 DEF AutoInv
<1> QED BY <1>1, <1>2

\* autoGrowingCallFrameStack.SetSp keeps it, for every depth.
LEMMA AutoSetSpInv ==
  ASSUME AutoInv, NEW s \in State, s \in minimize, ~closed[s], NEW n \in Nat,
         AutoSetSp(s, n), UNCHANGED <<minimize, closed>>
  PROVE  AutoInv'
<1> DEFINE desired == n \div FramesPerSegment
           freed == {i \in 0 .. NSegments(s) - 1 : desired < i /\ i <= segIdx[s]}
           k == IF segIdx[s] <= desired THEN segIdx[s] ELSE desired
<1>1. desired \in Nat /\ n % FramesPerSegment \in 0 .. FramesPerSegment
  BY DivMod, SizeAssumption
<1>2. segIdx[s] \in Nat
  BY DEF AutoInv, AutoType
<1>3. freed = {i \in 0 .. NSegments(s) - 1 : k < i /\ i <= segIdx[s]}
  BY <1>1, <1>2, NSegmentsNat
<1>4. k \in Nat /\ k <= segIdx[s]
  BY <1>1, <1>2
<1>5. /\ pool' = PoolAfterPut(s, freed)
      /\ segments' = Detach(s, freed)
      /\ segIdx' = [segIdx EXCEPT ![s] = k]
      /\ segSp' = [segSp EXCEPT ![s] = n % FramesPerSegment]
      /\ heap' = HeapAfterPut(heap, s, freed)
  BY DEF AutoSetSp
<1>6. heap \in Heaps
  BY DEF AutoInv, AutoType
<1> HIDE DEF desired, freed, k
<1> QED BY <1>1, <1>3, <1>4, <1>5, <1>6, DetachInv
-----------------------------------------------------------------------------
ArrayType ==
  /\ array = [s \in State |-> array[s]]
  /\ \A s \in State : array[s] \in [0 .. CallStackSize[s] - 1 -> Frame]

SpType ==
  /\ sp \in [State -> Nat]
  /\ \A s \in State : sp[s] \in 0 .. CallStackSize[s]

FixedType == ArrayType /\ SpType

MarkType ==
  /\ marks \in [State -> Seq(Mark)]
  /\ raising \in [State -> BOOLEAN]

\* A closed LState is in no PCall, and the stack an LState does not use is empty.
UnusedEmpty ==
  \A s \in State :
    /\ closed[s] => marks[s] = << >>
    /\ closed[s] \/ s \in minimize => sp[s] = 0
    /\ closed[s] \/ s \notin minimize => segIdx[s] = 0 /\ segSp[s] = 0

\* What a PCall on a fixed stack will pass to SetSp is within the array.
MarksFit ==
  \A s \in State : s \notin minimize =>
    \A i \in 1 .. Len(marks[s]) : marks[s][i].sp <= CallStackSize[s]

Inv == AutoInv /\ FixedType /\ MarkType /\ UnusedEmpty /\ MarksFit

\* The invariant in terms of the properties the runs check.
LEMMA InvTypeOK == Inv <=> TypeOK /\ SegmentsOwned /\ SegmentsExact /\ UnusedEmpty /\ MarksFit
BY DEF Inv, AutoInv, AutoType, SegmentsType, PoolType, Heaps, FixedType, ArrayType, SpType, MarkType, TypeOK

\* The depth an error unwinds to is a depth.
LEMMA FloorNat ==
  ASSUME MarkType, NEW s \in State
  PROVE  /\ Floor(s) \in Nat
         /\ Inv /\ s \notin minimize => Floor(s) \in 0 .. CallStackSize[s]
         /\ marks[s] # << >> => Len(marks[s]) \in Nat \ {0} /\ Top(marks[s]) \in Mark
<1>1. marks[s] \in Seq(Mark) /\ Len(marks[s]) \in Nat
  BY DEF MarkType
<1>2. marks[s] # << >> => Len(marks[s]) \in Nat \ {0}
  BY <1>1, EmptySeq
<1>3. marks[s] # << >> => Top(marks[s]) \in Mark
  BY <1>1, <1>2 DEF Top
<1>4. Floor(s) \in Nat
  BY <1>3 DEF Floor, Mark
<1>5. Inv /\ s \notin minimize => Floor(s) <= CallStackSize[s]
  BY <1>2, SizeAssumption DEF Inv, MarksFit, Floor, Top
<1> QED BY <1>2, <1>3, <1>4, <1>5, SizeAssumption

\* Sp is a natural number.
LEMMA SpNat ==
  ASSUME Inv, NEW s \in State
  PROVE  Sp(s) \in Nat /\ AutoSp(s) \in Nat
<1>1. segSp[s] \in Nat /\ segIdx[s] \in Nat /\ sp[s] \in Nat /\ FramesPerSegment \in Nat
  BY SizeAssumption DEF Inv, AutoInv, AutoType, FixedType, ArrayType, SpType
<1> QED BY <1>1 DEF Sp, AutoSp

\* Every depth below Sp is in a slot that exists.
LEMMA AtFrame ==
  ASSUME Inv, NEW s \in State, ~closed[s], NEW i \in Nat, i < Sp(s)
  PROVE  /\ At(s, i) \in Frame
         /\ s \in minimize => /\ i \div FramesPerSegment \in 0 .. segIdx[s]
                              /\ i \div FramesPerSegment \in 0 .. NSegments(s) - 1
                              /\ i % FramesPerSegment \in SegSlots
                              /\ segments[s][i \div FramesPerSegment] \in SegId
         /\ s \notin minimize => i \in 0 .. CallStackSize[s] - 1
<1>1. CASE s \notin minimize
  BY <1>1, SizeAssumption DEF Inv, FixedType, ArrayType, SpType, At, Sp
<1>2. CASE s \in minimize
  <2> DEFINE j == i \div FramesPerSegment
  <2>1. segIdx[s] \in Nat /\ segSp[s] \in 0 .. FramesPerSegment /\ i < segSp[s] + segIdx[s] * FramesPerSegment
    BY <1>2 DEF Inv, AutoInv, AutoType, Sp, AutoSp
  <2>2. j <= segIdx[s]
    BY <2>1, DivBound
  <2>3. j \in Nat /\ i % FramesPerSegment \in SegSlots
    BY DivMod DEF SegSlots
  <2>4. j \in 0 .. segIdx[s] /\ j \in 0 .. NSegments(s) - 1
    BY <2>1, <2>2, <2>3, NSegmentsNat DEF Inv, AutoInv, AutoType
  <2> HIDE DEF j
  <2>5. segments[s][j] \in SegId
    <3>1. segments[s][j] \in SegId \cup {nil}
      BY <2>4 DEF Inv, AutoInv, AutoType, SegmentsType
    <3>2. segments[s][j] # nil
      BY <1>2, <2>4 DEF Inv, AutoInv, SegmentsExact
    <3> QED BY <3>1, <3>2
  <2>6. heap[segments[s][j]][i % FramesPerSegment] \in Frame
    BY <2>3, <2>5 DEF Inv, AutoInv, AutoType, Heaps
  <2> QED BY <1>2, <2>3, <2>4, <2>5, <2>6 DEF At, j
<1> QED BY <1>1, <1>2
-----------------------------------------------------------------------------
\* A function on 1..n is a sequence of length n.
LEMMA FunctionIsSeq ==
  ASSUME NEW S, NEW n \in Nat, NEW g \in [1 .. n -> S]
  PROVE  g \in Seq(S) /\ Len(g) = n
OBVIOUS

\* pushCallFrame marks the innermost PCall as called and changes no depth.
LEMMA MarksCalled ==
  ASSUME MarkType, NEW s \in State,
         marks' = [marks EXCEPT ![s] =
                    [i \in 1..Len(@) |-> IF i = Len(@) THEN [@[i] EXCEPT !.called = TRUE]
                                                       ELSE @[i]]]
  PROVE  /\ marks' \in [State -> Seq(Mark)]
         /\ \A t \in State : Len(marks'[t]) = Len(marks[t])
         /\ \A t \in State : \A i \in 1 .. Len(marks[t]) :
              /\ marks'[t][i].sp = marks[t][i].sp
              /\ t # s \/ i # Len(marks[t]) => marks'[t][i] = marks[t][i]
              /\ t = s /\ i = Len(marks[t]) => marks'[t][i].called
<1>1. marks[s] \in Seq(Mark) /\ Len(marks[s]) \in Nat
  BY DEF MarkType
<1> DEFINE m == marks[s]
           new == [i \in 1..Len(m) |-> IF i = Len(m) THEN [m[i] EXCEPT !.called = TRUE] ELSE m[i]]
<1>2. \A i \in 1 .. Len(m) : m[i] \in Mark
  BY <1>1
<1>3. \A i \in 1 .. Len(m) : new[i] \in Mark /\ new[i].sp = m[i].sp
                             /\ (i = Len(m) => new[i].called) /\ (i # Len(m) => new[i] = m[i])
  BY <1>2 DEF Mark
<1>4. marks' = [marks EXCEPT ![s] = new]
  OBVIOUS
<1>5. DOMAIN new = 1 .. Len(m) /\ new = [i \in 1 .. Len(m) |-> new[i]]
  OBVIOUS
<1> HIDE DEF new
<1>6. new \in Seq(Mark) /\ Len(new) = Len(m)
  <2>1. new \in [1 .. Len(m) -> Mark]
    BY <1>3, <1>5
  <2> QED BY <1>1, <2>1, FunctionIsSeq
<1> QED BY <1>3, <1>4, <1>6 DEF MarkType

\* LeavePCall drops the innermost PCall and no other.
LEMMA MarksPopped ==
  ASSUME MarkType, NEW s \in State, marks[s] # << >>,
         marks' = [marks EXCEPT ![s] = SubSeq(@, 1, Len(@) - 1)]
  PROVE  /\ marks' \in [State -> Seq(Mark)]
         /\ \A t \in State : t # s => marks'[t] = marks[t]
         /\ Len(marks'[s]) = Len(marks[s]) - 1
         /\ \A i \in 1 .. Len(marks[s]) - 1 : marks'[s][i] = marks[s][i]
<1>1. marks[s] \in Seq(Mark) /\ Len(marks[s]) \in Nat \ {0}
  BY EmptySeq DEF MarkType
<1> DEFINE new == SubSeq(marks[s], 1, Len(marks[s]) - 1)
<1>2. /\ new \in Seq(Mark) /\ Len(new) = Len(marks[s]) - 1
      /\ \A i \in 1 .. Len(marks[s]) - 1 : new[i] = marks[s][i]
  <2>1. \A i \in 1 .. Len(marks[s]) - 1 : marks[s][i] \in Mark
    BY <1>1
  <2> QED BY <1>1, <2>1, SubSeqProperties
<1>3. marks' = [marks EXCEPT ![s] = new]
  OBVIOUS
<1> HIDE DEF new
<1> QED BY <1>2, <1>3 DEF MarkType

\* EnterPCall adds a PCall at the depth Sp and changes no other.
LEMMA MarksPushed ==
  ASSUME Inv, NEW s \in State,
         marks' = [marks EXCEPT ![s] = Append(@, [sp |-> Sp(s), called |-> FALSE])]
  PROVE  /\ marks' \in [State -> Seq(Mark)]
         /\ \A t \in State : t # s => marks'[t] = marks[t]
         /\ Len(marks[s]) \in Nat /\ Len(marks'[s]) = Len(marks[s]) + 1
         /\ \A i \in 1 .. Len(marks[s]) : marks'[s][i] = marks[s][i]
         /\ marks'[s][Len(marks[s]) + 1] = [sp |-> Sp(s), called |-> FALSE]
<1>1. marks \in [State -> Seq(Mark)] /\ marks[s] \in Seq(Mark) /\ Len(marks[s]) \in Nat
  BY DEF Inv, MarkType
<1>2. [sp |-> Sp(s), called |-> FALSE] \in Mark
  BY SpNat DEF Mark
<1> DEFINE new == Append(marks[s], [sp |-> Sp(s), called |-> FALSE])
<1>3. /\ new \in Seq(Mark) /\ Len(new) = Len(marks[s]) + 1
      /\ \A i \in 1 .. Len(marks[s]) : new[i] = marks[s][i]
      /\ new[Len(marks[s]) + 1] = [sp |-> Sp(s), called |-> FALSE]
  BY <1>1, <1>2
<1>4. marks' = [marks EXCEPT ![s] = new]
  OBVIOUS
<1> HIDE DEF new
<1> QED BY <1>1, <1>3, <1>4
-----------------------------------------------------------------------------
\* A step that leaves the segmented stacks alone keeps their invariant.
LEMMA AutoSame ==
  ASSUME AutoInv, UNCHANGED <<minimize, autoVars, closed>>
  PROVE  AutoInv'
BY DEF AutoInv, AutoType, SegmentsType, PoolType, SegmentsOwned, SegmentsExact, NSegments, autoVars

\* A step that leaves the fixed stacks alone keeps their types.
LEMMA FixedSame ==
  ASSUME FixedType, UNCHANGED fixedVars
  PROVE  FixedType'
BY DEF FixedType, ArrayType, SpType, fixedVars

\* A frame written to the array of a fixed stack keeps its type.
LEMMA FixedWrite ==
  ASSUME ArrayType, NEW s \in State, NEW i, NEW frm \in Frame,
         array' = [array EXCEPT ![s][i] = frm]
  PROVE  ArrayType'
<1>1. array[s] \in [0 .. CallStackSize[s] - 1 -> Frame]
  BY DEF ArrayType
<1> DEFINE new == [array[s] EXCEPT ![i] = frm]
<1>2. new \in [0 .. CallStackSize[s] - 1 -> Frame]
  BY <1>1
<1>3. array' = [array EXCEPT ![s] = new]
  OBVIOUS
<1> HIDE DEF new
<1> QED BY <1>2, <1>3 DEF ArrayType

\* A depth within the array, given to a fixed stack, keeps its type.
LEMMA FixedMove ==
  ASSUME SpType, NEW s \in State, NEW n \in 0 .. CallStackSize[s],
         sp' = [sp EXCEPT ![s] = n]
  PROVE  SpType'
BY SizeAssumption DEF SpType

\* newLState keeps the invariant.
LEMMA NewStateInv ==
  ASSUME Inv, NEW s \in State, NewState(s)
  PROVE  Inv'
<1>1. /\ closed[s] /\ UNCHANGED <<marks, raising>>
      /\ closed' = [closed EXCEPT ![s] = FALSE]
      /\ UNCHANGED fixedVars
  BY DEF NewState
<1>2. closed' \in [State -> BOOLEAN] /\ \A t \in State : t # s => closed'[t] = closed[t]
  BY <1>1 DEF Inv, AutoInv, AutoType
<1>3. closed'[s] = FALSE
  BY <1>1 DEF Inv, AutoInv, AutoType
<1>4. segIdx[s] = 0 /\ segSp[s] = 0 /\ marks[s] = << >> /\ 0 \in 0 .. NSegments(s) - 1
  BY <1>1, NSegmentsNat DEF Inv, UnusedEmpty
<1>5. \A i \in 0 .. NSegments(s) - 1 : segments[s][i] = nil
  BY <1>1 DEF Inv, AutoInv, SegmentsExact
<1>6. FixedType' /\ MarkType' /\ UNCHANGED <<sp, marks>>
  BY <1>1, FixedSame DEF Inv, MarkType, fixedVars
<1>7. UNCHANGED <<segIdx, segSp>>
  BY DEF NewState, autoVars
<1>8. /\ minimize' \subseteq State
      /\ \A t \in State : t # s => (t \in minimize' <=> t \in minimize)
  BY DEF NewState, Inv, AutoInv, AutoType
<1>9. UnusedEmpty'
  BY <1>1, <1>2, <1>3, <1>6, <1>7, <1>8 DEF Inv, UnusedEmpty
<1>10. MarksFit'
  <2>1. \A t \in State : t \notin minimize' => t \notin minimize \/ marks[t] = << >>
    BY <1>4, <1>8
  <2> QED BY <2>1, <1>6 DEF Inv, MarksFit
<1>11. CASE /\ minimize' = minimize \cup {s}
            /\ \E id \in SegId : /\ Gets(id)
                                 /\ pool' = PoolAfterGet(id)
                                 /\ segments' = [segments EXCEPT ![s][0] = id]
            /\ UNCHANGED heap
  <2>1. PICK id \in SegId :
          Gets(id) /\ pool' = PoolAfterGet(id) /\ segments' = [segments EXCEPT ![s][0] = id]
    BY <1>11
  <2>2. heap' = heap
    BY <1>11
  <2>3. SegmentsOwned' /\ PoolType' /\ SegmentsType' /\ SlotsBecome(s, {0}, id)
    BY <1>4, <1>5, <2>1, GetOwned DEF Inv
  <2>4. AutoType'
    BY <1>2, <1>7, <1>8, <2>2, <2>3 DEF Inv, AutoInv, AutoType, NSegments
  <2>5. SegmentsExact'
    <3> SUFFICES ASSUME NEW t \in State, NEW i \in 0 .. NSegments(t) - 1
                 PROVE segments'[t][i] # nil <=> t \in minimize' /\ ~closed'[t] /\ i <= segIdx'[t]
      BY DEF SegmentsExact, NSegments
    <3>1. CASE t # s
      BY <3>1, <1>2, <1>7, <1>8, <2>3 DEF SlotsBecome, Inv, AutoInv, SegmentsExact
    <3>2. CASE t = s
      <4>1. i <= segIdx'[s] <=> i = 0
        BY <1>4, <1>7
      <4> QED BY <3>2, <4>1, <1>3, <1>5, <1>11, <2>3, NameAssumption DEF SlotsBecome
    <3> QED BY <3>1, <3>2
  <2> QED BY <1>6, <1>9, <1>10, <2>3, <2>4, <2>5 DEF Inv, AutoInv
<1>12. CASE minimize' = minimize \ {s} /\ UNCHANGED autoVars
  <2>1. AutoType'
    BY <1>2, <1>8, <1>12 DEF Inv, AutoInv, AutoType, SegmentsType, PoolType, NSegments, autoVars
  <2>2. SegmentsOwned'
    BY <1>12 DEF Inv, AutoInv, SegmentsOwned, NSegments, autoVars
  <2>3. SegmentsExact'
    <3> SUFFICES ASSUME NEW t \in State, NEW i \in 0 .. NSegments(t) - 1
                 PROVE segments[t][i] # nil <=> t \in minimize' /\ ~closed'[t] /\ i <= segIdx[t]
      BY <1>12 DEF SegmentsExact, NSegments, autoVars
    <3>1. CASE t # s
      BY <3>1, <1>2, <1>8 DEF Inv, AutoInv, SegmentsExact
    <3>2. CASE t = s
      BY <3>2, <1>5, <1>12
    <3> QED BY <3>1, <3>2
  <2> QED BY <1>6, <1>9, <1>10, <2>1, <2>2, <2>3 DEF Inv, AutoInv
<1> QED BY <1>11, <1>12 DEF NewState

\* pushCallFrame keeps the invariant.
LEMMA PushInv ==
  ASSUME Inv, NEW s \in State, NEW f \in Fn, pushCallFrame(s, f)
  PROVE  Inv'
<1>1. /\ ~closed[s] /\ ~IsFull(s) /\ Push(s, f) /\ UNCHANGED <<minimize, raising, closed>>
  BY DEF pushCallFrame, Running
<1>2. /\ marks' \in [State -> Seq(Mark)]
      /\ \A t \in State : Len(marks'[t]) = Len(marks[t])
      /\ \A t \in State : \A i \in 1 .. Len(marks[t]) :
           /\ marks'[t][i].sp = marks[t][i].sp
           /\ t # s \/ i # Len(marks[t]) => marks'[t][i] = marks[t][i]
           /\ t = s /\ i = Len(marks[t]) => marks'[t][i].called
  BY MarksCalled DEF Inv, pushCallFrame
<1>3. MarkType' /\ MarksFit'
  BY <1>1, <1>2 DEF Inv, MarkType, MarksFit
<1>4. CASE s \in minimize
  <2>1. AutoPush(s, f) /\ UNCHANGED fixedVars
    BY <1>1, <1>4 DEF Push
  <2>2. AutoInv' /\ FixedType'
    BY <1>1, <1>4, <2>1, AutoPushInv, FixedSame DEF Inv
  <2>3. \A t \in State : t # s => marks'[t] = marks[t] /\ segIdx'[t] = segIdx[t] /\ segSp'[t] = segSp[t]
    BY <2>1 DEF AutoPush, pushCallFrame, Inv, MarkType, AutoInv, AutoType
  <2>4. UnusedEmpty'
    BY <1>1, <2>1, <2>3, <1>4 DEF Inv, UnusedEmpty, fixedVars
  <2> QED BY <1>3, <2>2, <2>4 DEF Inv
<1>5. CASE s \notin minimize
  <2>1. FixedPush(s, f) /\ UNCHANGED autoVars
    BY <1>1, <1>5 DEF Push
  <2>2. AutoInv'
    BY <1>1, <2>1, AutoSame DEF Inv
  <2>3. sp[s] \in 0 .. CallStackSize[s] - 1
    BY <1>1, <1>5, SizeAssumption DEF IsFull, Inv, FixedType, ArrayType, SpType
  <2>4. FixedType'
    <3>1. [fn |-> f, Idx |-> sp[s]] \in Frame
      BY <2>3, SizeAssumption DEF Frame
    <3>2. ArrayType'
      BY <2>1, <3>1, FixedWrite DEF FixedPush, Inv, FixedType
    <3>3. sp[s] + 1 \in 0 .. CallStackSize[s]
      BY <2>3, SizeAssumption
    <3> QED BY <2>1, <3>2, <3>3, FixedMove DEF FixedPush, Inv, FixedType
  <2>5. \A t \in State : t # s => marks'[t] = marks[t] /\ sp'[t] = sp[t]
    BY <2>1 DEF FixedPush, pushCallFrame, Inv, MarkType, FixedType, ArrayType, SpType
  <2>6. UnusedEmpty'
    BY <1>1, <2>1, <2>5, <1>5 DEF Inv, UnusedEmpty, autoVars
  <2> QED BY <1>3, <2>2, <2>4, <2>6 DEF Inv
<1> QED BY <1>4, <1>5

\* Pop leaves the depth of the other stacks alone.
LEMMA AutoPopOthers ==
  ASSUME Inv, NEW s \in State, NEW h, AutoPop(s, h)
  PROVE  \A t \in State : t # s => segIdx'[t] = segIdx[t] /\ segSp'[t] = segSp[t]
BY DEF AutoPop, Inv, AutoInv, AutoType

\* A return keeps the invariant.
LEMMA ReturnInv ==
  ASSUME Inv, NEW s \in State, Return(s)
  PROVE  Inv'
<1>1. /\ ~closed[s] /\ Sp(s) > Floor(s) /\ Pop(s) /\ UNCHANGED <<minimize, marks, raising, closed>>
  BY DEF Return, Running
<1>2. MarkType' /\ MarksFit'
  BY <1>1 DEF Inv, MarkType, MarksFit
<1>3. CASE s \in minimize
  <2>1. AutoPop(s, heap) /\ UNCHANGED fixedVars
    BY <1>1, <1>3 DEF Pop
  <2>2. heap \in Heaps
    BY DEF Inv, AutoInv, AutoType
  <2>3. AutoInv' /\ FixedType'
    BY <1>1, <1>3, <2>1, <2>2, AutoPopInv, FixedSame DEF Inv
  <2>4. UnusedEmpty'
    BY <1>1, <2>1, AutoPopOthers, <1>3 DEF Inv, UnusedEmpty, fixedVars
  <2> QED BY <1>2, <2>3, <2>4 DEF Inv
<1>4. CASE s \notin minimize
  <2>1. FixedPop(s) /\ UNCHANGED <<array, autoVars>>
    BY <1>1, <1>4 DEF Pop
  <2>2. AutoInv'
    BY <1>1, <2>1, AutoSame DEF Inv
  <2>3. sp[s] \in 1 .. CallStackSize[s]
    BY <1>1, <1>4, FloorNat DEF Sp, Inv, FixedType, ArrayType, SpType
  <2>4. FixedType'
    <3>1. sp[s] - 1 \in 0 .. CallStackSize[s]
      BY <2>3, SizeAssumption
    <3>2. SpType'
      BY <2>1, <3>1, FixedMove DEF FixedPop, Inv, FixedType
    <3> QED BY <2>1, <3>2 DEF Inv, FixedType, ArrayType
  <2>5. UnusedEmpty'
    BY <1>1, <2>1, <1>4 DEF Inv, UnusedEmpty, autoVars, FixedPop, FixedType, ArrayType, SpType
  <2> QED BY <1>2, <2>2, <2>4, <2>5 DEF Inv
<1> QED BY <1>3, <1>4

\* RemoveCallerFrame keeps the invariant.
LEMMA RemoveCallerFrameInv ==
  ASSUME Inv, NEW s \in State, RemoveCallerFrame(s)
  PROVE  Inv'
<1> DEFINE i == Sp(s) - 2
           frm == [At(s, Sp(s) - 1) EXCEPT !.Idx = Sp(s) - 2]
<1>1. ~closed[s] /\ Sp(s) >= Floor(s) + 2 /\ UNCHANGED <<minimize, marks, raising, closed>>
  BY DEF RemoveCallerFrame, Running
<1>2. i \in Nat /\ i < Sp(s) /\ Sp(s) - 1 \in Nat /\ Sp(s) - 1 < Sp(s)
  BY <1>1, FloorNat, SpNat DEF Inv
<1>3. At(s, Sp(s) - 1) \in Frame
  BY <1>1, <1>2, AtFrame
<1>4. frm \in Frame
  BY <1>2, <1>3 DEF Frame
<1>5. MarkType' /\ MarksFit'
  BY <1>1 DEF Inv, MarkType, MarksFit
<1>6. CASE s \in minimize
  <2> DEFINE h == [heap EXCEPT ![segments[s][i \div FramesPerSegment]][i % FramesPerSegment] = frm]
  <2>1. AutoPop(s, h) /\ UNCHANGED fixedVars
    BY <1>6 DEF RemoveCallerFrame
  <2>2. h \in Heaps
    <3>1. heap \in Heaps
      BY DEF Inv, AutoInv, AutoType
    <3> HIDE DEF frm, i
    <3> QED BY <1>4, <3>1 DEF Heaps
  <2> HIDE DEF h
  <2>3. AutoInv' /\ FixedType'
    BY <1>1, <1>6, <2>1, <2>2, AutoPopInv, FixedSame DEF Inv
  <2>4. UnusedEmpty'
    BY <1>1, <2>1, AutoPopOthers, <1>6 DEF Inv, UnusedEmpty, fixedVars
  <2> QED BY <1>5, <2>3, <2>4 DEF Inv
<1>7. CASE s \notin minimize
  <2>1. array' = [array EXCEPT ![s][i] = frm] /\ FixedPop(s) /\ UNCHANGED autoVars
    BY <1>7 DEF RemoveCallerFrame
  <2>2. AutoInv'
    BY <1>1, <2>1, AutoSame DEF Inv
  <2>3. sp[s] \in 1 .. CallStackSize[s]
    BY <1>1, <1>7, FloorNat DEF Sp, Inv, FixedType, ArrayType, SpType
  <2> HIDE DEF frm, i
  <2>4. FixedType'
    <3>1. sp[s] - 1 \in 0 .. CallStackSize[s]
      BY <2>3, SizeAssumption
    <3>2. SpType'
      BY <2>1, <3>1, FixedMove DEF FixedPop, Inv, FixedType
    <3>3. ArrayType'
      BY <1>4, <2>1, FixedWrite DEF Inv, FixedType
    <3> QED BY <3>2, <3>3 DEF FixedType
  <2>5. UnusedEmpty'
    BY <1>1, <2>1, <1>7 DEF Inv, UnusedEmpty, autoVars, FixedPop, FixedType, ArrayType, SpType
  <2> QED BY <1>5, <2>2, <2>4, <2>5 DEF Inv
<1> QED BY <1>6, <1>7

\* The entry of PCall keeps the invariant.
LEMMA EnterPCallInv ==
  ASSUME Inv, NEW s \in State, EnterPCall(s)
  PROVE  Inv'
<1>1. /\ ~closed[s] /\ UNCHANGED <<minimize, autoVars, fixedVars, raising, closed>>
      /\ marks' = [marks EXCEPT ![s] = Append(@, [sp |-> Sp(s), called |-> FALSE])]
  BY DEF EnterPCall, Running
<1>2. /\ marks' \in [State -> Seq(Mark)]
      /\ \A t \in State : t # s => marks'[t] = marks[t]
      /\ Len(marks[s]) \in Nat /\ Len(marks'[s]) = Len(marks[s]) + 1
      /\ \A i \in 1 .. Len(marks[s]) : marks'[s][i] = marks[s][i]
      /\ marks'[s][Len(marks[s]) + 1] = [sp |-> Sp(s), called |-> FALSE]
  BY <1>1, MarksPushed
<1>3. AutoInv' /\ FixedType'
  BY <1>1, AutoSame, FixedSame DEF Inv
<1>4. MarkType'
  BY <1>1, <1>2 DEF Inv, MarkType
<1>5. UnusedEmpty'
  BY <1>1, <1>2 DEF Inv, UnusedEmpty, autoVars, fixedVars
<1>6. MarksFit'
  <2> SUFFICES ASSUME NEW t \in State, t \notin minimize, NEW i \in 1 .. Len(marks'[t])
               PROVE marks'[t][i].sp <= CallStackSize[t]
    BY <1>1 DEF MarksFit
  <2>1. CASE t # s
    BY <1>2, <2>1 DEF Inv, MarksFit
  <2>2. CASE t = s /\ i <= Len(marks[s])
    BY <1>2, <2>2 DEF Inv, MarksFit
  <2>3. CASE t = s /\ i = Len(marks[s]) + 1
    BY <1>2, <2>3 DEF Inv, FixedType, SpType, Sp
  <2> QED BY <1>2, <2>1, <2>2, <2>3
<1> QED BY <1>3, <1>4, <1>5, <1>6 DEF Inv

\* The deferred function of PCall keeps the invariant.
LEMMA LeavePCallInv ==
  ASSUME Inv, NEW s \in State, LeavePCall(s)
  PROVE  Inv'
<1>1. /\ ~closed[s] /\ marks[s] # << >> /\ SetSp(s, Floor(s)) /\ UNCHANGED <<minimize, closed>>
      /\ marks' = [marks EXCEPT ![s] = SubSeq(@, 1, Len(@) - 1)]
      /\ raising' = [raising EXCEPT ![s] = FALSE]
  BY DEF LeavePCall
<1>2. /\ marks' \in [State -> Seq(Mark)]
      /\ \A t \in State : t # s => marks'[t] = marks[t]
      /\ Len(marks'[s]) = Len(marks[s]) - 1
      /\ \A i \in 1 .. Len(marks[s]) - 1 : marks'[s][i] = marks[s][i]
  BY <1>1, MarksPopped DEF Inv
<1>3. MarkType'
  BY <1>1, <1>2 DEF Inv, MarkType
<1>4. /\ Floor(s) \in Nat
      /\ s \notin minimize => Floor(s) \in 0 .. CallStackSize[s]
      /\ Len(marks[s]) \in Nat \ {0}
  BY <1>1, FloorNat DEF Inv
<1>5. MarksFit'
  <2> SUFFICES ASSUME NEW t \in State, t \notin minimize, NEW i \in 1 .. Len(marks'[t])
               PROVE marks'[t][i].sp <= CallStackSize[t]
    BY <1>1 DEF MarksFit
  <2>1. CASE t # s
    BY <1>2, <2>1 DEF Inv, MarksFit
  <2>2. CASE t = s
    BY <1>2, <1>4, <2>2 DEF Inv, MarksFit
  <2> QED BY <2>1, <2>2
<1>6. CASE s \in minimize
  <2>1. AutoSetSp(s, Floor(s)) /\ UNCHANGED fixedVars
    BY <1>1, <1>6 DEF SetSp
  <2>2. AutoInv' /\ FixedType'
    BY <1>1, <1>4, <1>6, <2>1, AutoSetSpInv, FixedSame DEF Inv
  <2>3. \A t \in State : t # s => segIdx'[t] = segIdx[t] /\ segSp'[t] = segSp[t]
    BY <2>1 DEF AutoSetSp, Inv, AutoInv, AutoType
  <2>4. UnusedEmpty'
    BY <1>1, <1>2, <2>1, <2>3, <1>6 DEF Inv, UnusedEmpty, fixedVars
  <2> QED BY <1>3, <1>5, <2>2, <2>4 DEF Inv
<1>7. CASE s \notin minimize
  <2>1. sp' = [sp EXCEPT ![s] = Floor(s)] /\ UNCHANGED array /\ UNCHANGED autoVars
    BY <1>1, <1>7 DEF SetSp, FixedSetSp
  <2>2. AutoInv'
    BY <1>1, <2>1, AutoSame DEF Inv
  <2>3. SpType'
    BY <1>4, <1>7, <2>1, FixedMove DEF Inv, FixedType
  <2>4. FixedType'
    BY <2>1, <2>3 DEF Inv, FixedType, ArrayType
  <2>5. UnusedEmpty'
    BY <1>1, <1>2, <2>1, <1>7 DEF Inv, UnusedEmpty, autoVars, FixedType, SpType
  <2> QED BY <1>3, <1>5, <2>2, <2>4, <2>5 DEF Inv
<1> QED BY <1>6, <1>7

\* LState.Close (FreeAll) keeps the invariant.
LEMMA CloseInv ==
  ASSUME Inv, NEW s \in State, Close(s)
  PROVE  Inv'
<1>1. /\ ~closed[s] /\ marks[s] = << >> /\ UNCHANGED <<minimize, marks>>
      /\ closed' = [closed EXCEPT ![s] = TRUE]
      /\ raising' = [raising EXCEPT ![s] = FALSE]
  BY DEF Close
<1>2. /\ closed' \in [State -> BOOLEAN] /\ closed'[s]
      /\ \A t \in State : t # s => closed'[t] = closed[t]
  BY <1>1 DEF Inv, AutoInv, AutoType
<1>3. MarkType' /\ MarksFit'
  BY <1>1 DEF Inv, MarkType, MarksFit
<1>4. CASE s \in minimize
  <2> DEFINE S == 0 .. segIdx[s]
  <2>1. /\ pool' = PoolAfterPut(s, S) /\ heap' = HeapAfterPut(heap, s, S)
        /\ segments' = Detach(s, S)
        /\ segIdx' = [segIdx EXCEPT ![s] = 0]
        /\ segSp' = [segSp EXCEPT ![s] = 0]
        /\ UNCHANGED fixedVars
    BY <1>4 DEF Close
  <2>2. S \in Slots(s) /\ heap \in Heaps
    BY DEF Slots, Inv, AutoInv, AutoType
  <2>3. /\ SegmentsOwned' /\ PoolType' /\ SegmentsType' /\ heap' \in Heaps
        /\ SlotsBecome(s, S, nil)
    <3> HIDE DEF S
    <3> QED BY <1>1, <1>4, <2>1, <2>2, PutOwned DEF Inv
  <2>4. /\ segIdx' \in [State -> Nat] /\ \A t \in State : segIdx'[t] \in 0 .. NSegments(t) - 1
        /\ segSp' \in [State -> 0 .. FramesPerSegment]
        /\ segIdx'[s] = 0 /\ segSp'[s] = 0
        /\ \A t \in State : t # s => segIdx'[t] = segIdx[t] /\ segSp'[t] = segSp[t]
    BY <2>1, NSegmentsNat, SizeAssumption DEF Inv, AutoInv, AutoType
  <2>5. AutoType'
    BY <1>1, <1>2, <2>3, <2>4 DEF Inv, AutoInv, AutoType, NSegments
  <2>6. SegmentsExact'
    <3> SUFFICES ASSUME NEW t \in State, NEW i \in 0 .. NSegments(t) - 1
                 PROVE segments'[t][i] # nil <=> t \in minimize /\ ~closed'[t] /\ i <= segIdx'[t]
      BY <1>1 DEF SegmentsExact, NSegments
    <3>1. CASE t # s
      BY <3>1, <1>2, <2>3, <2>4 DEF SlotsBecome, Inv, AutoInv, SegmentsExact
    <3>2. CASE t = s
      <4>1. segments[s][i] # nil => i \in S
        BY <3>2, NSegmentsNat DEF Inv, AutoInv, AutoType, SegmentsExact
      <4>2. segments'[s][i] = nil
        BY <3>2, <4>1, <2>3 DEF SlotsBecome
      <4> QED BY <3>2, <4>2, <1>2
    <3> QED BY <3>1, <3>2
  <2>7. sp[s] = 0 /\ sp' = sp
    BY <1>4, <2>1 DEF Inv, UnusedEmpty, fixedVars
  <2>8. UnusedEmpty'
    BY <1>1, <1>2, <2>1, <2>4, <2>7, <1>4 DEF Inv, UnusedEmpty
  <2>9. FixedType'
    BY <2>1, FixedSame DEF Inv
  <2> QED BY <1>3, <2>3, <2>5, <2>6, <2>8, <2>9 DEF Inv, AutoInv
<1>5. CASE s \notin minimize
  <2>1. /\ array' = [array EXCEPT ![s] = ZeroArray(s)]
        /\ sp' = [sp EXCEPT ![s] = 0]
        /\ UNCHANGED autoVars
    BY <1>5 DEF Close
  <2>2. ArrayType'
    BY <2>1 DEF Inv, FixedType, ArrayType, ZeroArray, ZeroFrame, Frame
  <2>3. SpType'
    <3>1. 0 \in 0 .. CallStackSize[s]
      BY SizeAssumption
    <3> QED BY <2>1, <3>1, FixedMove DEF Inv, FixedType
  <2>4. AutoType' /\ SegmentsOwned'
    BY <1>1, <1>2, <2>1 DEF Inv, AutoInv, AutoType, SegmentsType, PoolType, SegmentsOwned,
                            NSegments, autoVars
  <2>5. SegmentsExact'
    BY <1>1, <1>2, <1>5, <2>1 DEF Inv, AutoInv, SegmentsExact, NSegments, autoVars
  <2>6. UnusedEmpty'
    BY <1>1, <1>2, <1>5, <2>1 DEF Inv, UnusedEmpty, FixedType, SpType, autoVars
  <2> QED BY <1>3, <2>2, <2>3, <2>4, <2>5, <2>6 DEF Inv, AutoInv, FixedType
<1> QED BY <1>4, <1>5

\* An error that starts to propagate keeps the invariant.
LEMMA RaiseErrorInv ==
  ASSUME Inv, NEW s \in State, RaiseError(s)
  PROVE  Inv'
<1>1. AutoInv' /\ FixedType'
  BY AutoSame, FixedSame DEF Inv, RaiseError
<1>2. MarkType' /\ UnusedEmpty' /\ MarksFit'
  BY DEF Inv, RaiseError, MarkType, UnusedEmpty, MarksFit, autoVars, fixedVars
<1> QED BY <1>1, <1>2 DEF Inv

\* Every step keeps the invariant.
LEMMA StepInv ==
  ASSUME Inv, [FullNext]_vars
  PROVE  Inv'
<1>1. CASE UNCHANGED vars
  <2>1. AutoInv' /\ FixedType'
    BY <1>1, AutoSame, FixedSame DEF Inv, vars
  <2>2. MarkType' /\ UnusedEmpty' /\ MarksFit'
    BY <1>1 DEF Inv, vars, MarkType, UnusedEmpty, MarksFit, autoVars, fixedVars
  <2> QED BY <2>1, <2>2 DEF Inv
<1>2. ASSUME NEW s \in State, Step(s) \/ StackOverflow(s) \/ Fail(s)
      PROVE Inv'
  <2>1. ASSUME NEW f \in Code[s], pushCallFrame(s, f) PROVE Inv'
    <3>1. f \in Fn
      BY NameAssumption
    <3> QED BY <2>1, <3>1, PushInv
  <2>2. StackOverflow(s) \/ Fail(s) => RaiseError(s)
    BY DEF StackOverflow, Fail
  <2> QED BY <1>2, <2>1, <2>2, NewStateInv, ReturnInv, RemoveCallerFrameInv, EnterPCallInv,
             LeavePCallInv, CloseInv, RaiseErrorInv DEF Step
<1> QED BY <1>1, <1>2 DEF FullNext

\* The invariant holds before any LState exists.
LEMMA InitInv == Init => Inv
<1> SUFFICES ASSUME Init PROVE Inv
  OBVIOUS
<1>1. AutoType
  BY NSegmentsNat, SizeAssumption DEF Init, AutoType, SegmentsType, PoolType, Heaps, Unspecified,
     ZeroFrame, Frame
<1>2. SegmentsOwned /\ SegmentsExact
  BY DEF Init, SegmentsOwned, SegmentsExact
<1>3. FixedType
  BY SizeAssumption DEF Init, FixedType, ArrayType, SpType, ZeroArray, ZeroFrame, Frame
<1>4. MarkType /\ UnusedEmpty /\ MarksFit
  BY EmptySeq DEF Init, MarkType, UnusedEmpty, MarksFit
<1> QED BY <1>1, <1>2, <1>3, <1>4 DEF Inv, AutoInv

\* The ownership invariant of the call stacks: it holds whatever the programs of
\* any number of LStates do, calls that fail before they push a frame included.
THEOREM FullInvariant == FullSpec => []Inv
BY InitInv, StepInv, PTL DEF FullSpec

\* Whatever the programs of any number of LStates do, calls that fail before
\* they push a frame included, the stacks keep their types, ...
THEOREM FullTypeCorrect == FullSpec => []TypeOK
BY FullInvariant, InvTypeOK, PTL

\* ... newCallFrameStackSegment never hands a segment to two stacks, ...
THEOREM FullSegmentsOwned == FullSpec => []SegmentsOwned
BY FullInvariant, InvTypeOK, PTL

\* ... and a stack holds exactly the segments 0..segIdx, so FreeAll leaks none.
THEOREM FullSegmentsExact == FullSpec => []SegmentsExact
BY FullInvariant, InvTypeOK, PTL
=============================================================================
