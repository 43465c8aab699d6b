---------------------------- MODULE AbstractTable ----------------------------
(***************************************************************************)
(* What a Lua program relies on from a table: a function from keys to      *)
(* values, and loops over it.  Nothing is said of an array or a hash part: *)
(* where a key lives is the business of LTable, which is shown to          *)
(* implement this specification (module LuaTable).                         *)
(***************************************************************************)
EXTENDS Naturals

CONSTANTS
  MaxInt,     \* the integer keys are 1..MaxInt
  Str,        \* the string keys
  Value, nil,
  Traversal   \* the loops that may traverse the table

IntKey == 1 .. MaxInt
Key == IntKey \cup Str

VARIABLES
  content,  \* content[k]: the value of key k, nil if it has none
  plain,    \* whether table.insert, table.remove and pairs can be relied on
  visits    \* visits[l]: the keys loop l returned (seen) and must return (owed)

vars == <<content, plain, visits>>

Live == {k \in Key : content[k] # nil}

\* What the length operator may return: it is not always a border, the next key
\* may have a value as well.
IsLength(n) == n \in 0 .. MaxInt /\ (n # 0 => content[n] # nil)

Forget == visits' = [l \in Traversal |-> [st |-> "idle", seen |-> {}, owed |-> {}]]

Init ==
  /\ content = [k \in Key |-> nil]
  /\ plain = TRUE
  /\ visits = [l \in Traversal |-> [st |-> "idle", seen |-> {}, owed |-> {}]]
-----------------------------------------------------------------------------
\* k is given the value v, and no other key another one.
Put(k, v) ==
  /\ content' = [content EXCEPT ![k] = v]
  /\ plain => plain'

\* An assignment to a key that has a value does not disturb a loop, except that a
\* loop need not return a key that is erased.
Replace(k, v) ==
  /\ content[k] # nil
  /\ Put(k, v)
  /\ visits' = [l \in Traversal |-> [visits[l] EXCEPT !.owed = @ \cap Live']]

\* Any other assignment, and one that moves the key, may disturb them.
Assign(k, v) == Put(k, v) /\ Forget

\* table.insert(t, v), for length n.
Append(n, v) ==
  /\ IsLength(n) /\ n < MaxInt
  /\ Assign(n + 1, v)

\* A table that is not plain may lose or repeat elements of its list, and nothing else.
Garble ==
  /\ ~plain
  /\ \A k \in Key \ IntKey : content'[k] = content[k]

\* table.insert(t, pos, v), for length n: the elements from pos on move up by one.
Insert(n, pos, v) ==
  /\ IsLength(n) /\ n < MaxInt
  /\ pos \in 1 .. n + 1
  /\ \/ /\ plain
        /\ content' = [k \in Key |-> IF k = pos THEN v
                                     ELSE IF k \in pos + 1 .. n + 1 THEN content[k - 1]
                                     ELSE content[k]]
     \/ Garble
  /\ Forget

\* The element at pos is taken out of a list of length n: those after it move down.
TakeOut(n, pos) ==
  content' = [k \in Key |-> IF k \notin pos .. n THEN content[k]
                            ELSE IF k = n THEN nil
                            ELSE content[k + 1]]

\* table.remove(t, pos), for length n
Remove(n, pos) ==
  /\ IsLength(n)
  /\ pos = n \/ pos \in 1 .. n + 1
  /\ \/ plain /\ plain' /\ TakeOut(n, pos)
     \/ Garble
  /\ Forget

\* table.remove(t): the last element goes, or only an empty slot behind it.
RemoveLast(n) ==
  /\ IsLength(n)
  /\ \/ plain /\ plain' /\ (TakeOut(n, n) \/ content' = content)
     \/ Garble
  /\ Forget

\* pairs(t): every key that has a value is owed to the loop.
Start(l) ==
  /\ visits[l].st # "running"
  /\ plain
  /\ visits' = [visits EXCEPT ![l] = [st |-> "running", seen |-> {}, owed |-> Live]]
  /\ UNCHANGED <<content, plain>>

\* The loop returns a key that has a value and that it did not return before.
Visit(l, k) ==
  /\ visits[l].st = "running"
  /\ content[k] # nil
  /\ k \notin visits[l].seen
  /\ visits' = [visits EXCEPT ![l].seen = @ \cup {k}]
  /\ UNCHANGED <<content, plain>>

\* The loop ends when every key that was owed to it was returned.
End(l) ==
  /\ visits[l].st = "running"
  /\ visits[l].owed \subseteq visits[l].seen
  /\ visits' = [visits EXCEPT ![l].st = "done"]
  /\ UNCHANGED <<content, plain>>

Next ==
  \/ \E k \in Key, v \in Value \cup {nil} : Replace(k, v) \/ Assign(k, v)
  \/ \E n \in 0 .. MaxInt :
       \/ \E v \in Value : Append(n, v)
       \/ \E pos \in IntKey, v \in Value : Insert(n, pos, v)
       \/ \E pos \in 0 .. MaxInt + 1 : Remove(n, pos)
       \/ RemoveLast(n)
  \/ \E l \in Traversal : Start(l) \/ End(l) \/ \E k \in Key : Visit(l, k)

Spec == Init /\ [][Next]_vars
=============================================================================
