----------------------------- MODULE FrameStack -----------------------------
(***************************************************************************)
(* What an LState relies on from its call stack: a bounded LIFO of frames. *)
(* A protected call (PCall) remembers the depth on entry and, on the way   *)
(* out, the stack is cut back to exactly that depth, whatever happened in  *)
(* between.  The two implementations of the interface callFrameStack are   *)
(* shown to implement this specification (module CallFrameStack).          *)
(***************************************************************************)
EXTENDS Naturals, Sequences

CONSTANTS
  State,       \* the LStates (one per contract invocation)
  Code         \* Code[s]: the functions the program of s calls

VARIABLES
  capacity,    \* capacity[s]: how many frames the stack of s can hold
  frames,      \* frames[s]: the functions on the stack of s, oldest first
  marks,       \* marks[s]: the protected calls of s in progress, innermost last
  raising,     \* raising[s]: an error is propagating in s
  closed       \* closed[s]: s is not in use (its stack was freed)

vars == <<capacity, frames, marks, raising, closed>>

Mark == [sp : Nat, called : BOOLEAN]

\* The depth below which the running code of s never returns.
Floor(s) == IF marks[s] = << >> THEN 0 ELSE marks[s][Len(marks[s])].sp

Running(s) == ~closed[s] /\ ~raising[s]

Init ==
  /\ capacity \in [State -> Nat]
  /\ frames  = [s \in State |-> << >>]
  /\ marks   = [s \in State |-> << >>]
  /\ raising = [s \in State |-> FALSE]
  /\ closed  = [s \in State |-> TRUE]

\* A new LState starts with an empty stack.
Open(s) ==
  /\ closed[s]
  /\ closed' = [closed EXCEPT ![s] = FALSE]
  /\ capacity' \in [State -> Nat]
  /\ \A t \in State \ {s} : capacity'[t] = capacity[t]
  /\ UNCHANGED <<frames, marks, raising>>

\* A function is called: the innermost protected call now has a callee.
Call(s, f) ==
  /\ Running(s)
  /\ Len(frames[s]) < capacity[s]
  /\ frames' = [frames EXCEPT ![s] = Append(@, f)]
  /\ marks' = [marks EXCEPT ![s] =
                 [i \in 1..Len(@) |-> IF i = Len(@) THEN [@[i] EXCEPT !.called = TRUE]
                                                    ELSE @[i]]]
  /\ UNCHANGED <<capacity, raising, closed>>

\* The running function returns.
Return(s) ==
  /\ Running(s)
  /\ Len(frames[s]) > Floor(s)
  /\ frames' = [frames EXCEPT ![s] = SubSeq(@, 1, Len(@) - 1)]
  /\ UNCHANGED <<capacity, marks, raising, closed>>

\* A tail-called host function replaces its caller's frame.
ReplaceCaller(s) ==
  /\ Running(s)
  /\ Len(frames[s]) >= Floor(s) + 2
  /\ frames' = [frames EXCEPT ![s] = Append(SubSeq(@, 1, Len(@) - 2), @[Len(@)])]
  /\ UNCHANGED <<capacity, marks, raising, closed>>

\* An error starts to propagate; the frames stay until a PCall recovers.
Raise(s) ==
  /\ Running(s)
  /\ raising' = [raising EXCEPT ![s] = TRUE]
  /\ UNCHANGED <<capacity, frames, marks, closed>>

EnterPCall(s) ==
  /\ Running(s)
  /\ marks' = [marks EXCEPT ![s] = Append(@, [sp |-> Len(frames[s]), called |-> FALSE])]
  /\ UNCHANGED <<capacity, frames, raising, closed>>

\* The protected call ends: the stack is what it was when the call began.
LeavePCall(s) ==
  /\ ~closed[s]
  /\ marks[s] # << >>
  /\ raising[s] \/ (marks[s][Len(marks[s])].called /\ Len(frames[s]) = Floor(s))
  /\ frames' = [frames EXCEPT ![s] = SubSeq(@, 1, Floor(s))]
  /\ marks' = [marks EXCEPT ![s] = SubSeq(@, 1, Len(@) - 1)]
  /\ raising' = [raising EXCEPT ![s] = FALSE]
  /\ UNCHANGED <<capacity, closed>>

Close(s) ==
  /\ ~closed[s]
  /\ marks[s] = << >>
  /\ closed' = [closed EXCEPT ![s] = TRUE]
  /\ frames' = [frames EXCEPT ![s] = << >>]
  /\ raising' = [raising EXCEPT ![s] = FALSE]
  /\ UNCHANGED <<capacity, marks>>

Next ==
  \E s \in State :
    \/ Open(s)
    \/ \E f \in Code[s] : Call(s, f)
    \/ Return(s)
    \/ ReplaceCaller(s)
    \/ Raise(s)
    \/ EnterPCall(s)
    \/ LeavePCall(s)
    \/ Close(s)

Spec == Init /\ [][Next]_vars
=============================================================================
