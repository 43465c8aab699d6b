------------------------------ MODULE LuaTable ------------------------------
(***************************************************************************)
(* LTable (table.go) with the library functions that reach it: rawset,     *)
(* table.insert, table.remove, next and pairs.  A table has an array part  *)
(* and a hash part; an integer key may live in either and moves from the   *)
(* hash to the array when the array grows over it.  The hash part is       *)
(* traversed in insertion order (keys, k2i), and a key that was erased     *)
(* after a traversal returned it stays in keys until a traversal ends, so  *)
(* that it can still be a cursor (nextIterated).                           *)
(*                                                                         *)
(* dict and strdict are one function hash: they are used alike and hold    *)
(* disjoint keys.  nil is LNil, and stands for an absent entry.            *)
(***************************************************************************)
EXTENDS Naturals, FiniteSets, Sequences, SequencesExt

CONSTANTS
  MaxArrayIndex, MaxArrayHoleGrowth,  \* limits of the array part (config.go)
  MaxInt,     \* bound: the integer keys are 1..MaxInt
  Str,        \* the string keys
  Value, nil,
  Traversal   \* the loops that may traverse the table at the same time

ASSUME TableAssumption ==
  /\ MaxArrayIndex \in Nat \ {0}
  /\ MaxArrayHoleGrowth \in Nat
  /\ MaxInt \in Nat \ {0}
  /\ nil \notin Value \cup Str \cup Nat
  /\ Str \cap Nat = {}

IntKey == 1 .. MaxInt
Key == IntKey \cup Str

VARIABLES
  tb,    \* the table: [array, hash, keys, k2i, nextIterated]
  loop   \* loop[t]: the state of traversal t

vars == <<tb, loop>>

Idle == [cur |-> nil, seen |-> {}, owed |-> {}, dup |-> FALSE, st |-> "idle"]
-----------------------------------------------------------------------------
(* Reading *)

\* The array part's value at i, nil outside it.
Elem(t, i) == IF i \in DOMAIN t.array THEN t.array[i] ELSE nil

RawGet(t, k) ==
  IF k \in IntKey /\ k < MaxArrayIndex /\ Elem(t, k) # nil THEN Elem(t, k) ELSE t.hash[k]

LiveKeys(t) == {k \in Key : RawGet(t, k) # nil}

\* LenWithCost and MaxNWithCost: the last index of the array part that is not empty.
TableLen(t) == LET S == {i \in DOMAIN t.array : t.array[i] # nil}
               IN IF S = {} THEN 0 ELSE CHOOSE i \in S : \A j \in S : j <= i

shouldStoreArrayIndex(t, i) ==
  /\ 1 <= i /\ i < MaxArrayIndex
  /\ i <= Len(t.array) + 1 + MaxArrayHoleGrowth
-----------------------------------------------------------------------------
(* Writing.  Each operator is the table after the method.  A definition     *)
(* named ...Without..., ...Overwriting and the like is a wrong form of the  *)
(* one it precedes, used to see that the properties notice it.              *)

\* The keys of ks that are not in gone, in their order.
Without(ks, gone) ==
  LET F[i \in 0 .. Len(ks)] ==
        IF i = 0 THEN << >> ELSE IF ks[i] \in gone THEN F[i - 1] ELSE Append(F[i - 1], ks[i])
  IN F[Len(ks)]

EraseHWithoutReindex(t, S) ==
  LET gone == (S \ t.nextIterated) \cap DOMAIN t.k2i
  IN [t EXCEPT !.hash = [k \in Key |-> IF k \in S THEN nil ELSE @[k]],
               !.keys = Without(@, gone),
               !.k2i  = [k \in DOMAIN @ \ gone |-> @[k]]]

EraseHForgettingCursors(t, S) ==
  LET gone == S \cap DOMAIN t.k2i
  IN [t EXCEPT !.hash = [k \in Key |-> IF k \in S THEN nil ELSE @[k]],
               !.keys = Without(@, gone),
               !.nextIterated = @ \ gone,
               !.k2i  = [k \in DOMAIN @ \ gone |->
                           @[k] - Cardinality({g \in gone : @[g] < @[k]})]]

\* Value nil of RawSetH/RawSetString, for each key of S: the entry goes, and its
\* place in keys too unless a traversal returned the key (removeHashKeyMetadata).
EraseH(t, S) ==
  LET gone == (S \ t.nextIterated) \cap DOMAIN t.k2i
  IN [t EXCEPT
       !.hash = [k \in Key |-> IF k \in S THEN nil ELSE @[k]],
       !.keys = Without(@, gone),
       !.k2i  = [k \in DOMAIN @ \ gone |->
                   @[k] - Cardinality({g \in gone : @[g] < @[k]})]]

SetH(t, k, v) ==
  [t EXCEPT
    !.hash[k] = v,
    !.keys = IF k \in DOMAIN t.k2i THEN @ ELSE Append(@, k),
    !.k2i  = IF k \in DOMAIN @ THEN @
             ELSE [x \in DOMAIN @ \cup {k} |-> IF x = k THEN Len(t.keys) + 1 ELSE @[x]]]

RawSetH(t, k, v) == IF v = nil THEN EraseH(t, {k}) ELSE SetH(t, k, v)

MigrateWithoutCopy(t, S) == EraseH(t, {i \in S : t.hash[i] # nil})

\* The hash entries of S move to their place in the (grown) array.
migrateNumericHashRangeToArray(t, S) ==
  LET live == {i \in S : t.hash[i] # nil}
  IN EraseH([t EXCEPT !.array = [i \in DOMAIN @ |-> IF i \in live THEN t.hash[i] ELSE @[i]]],
            live)

GrowArrayWithoutMigrate(t, n) ==
  [t EXCEPT !.array = @ \o [i \in 1 .. n - Len(@) |-> nil]]

GrowArray(t, n) ==
  migrateNumericHashRangeToArray(
    [t EXCEPT !.array = @ \o [i \in 1 .. n - Len(@) |-> nil]], Len(t.array) + 1 .. n)

setArrayValueAt(t, i, v) ==
  IF i >= MaxArrayIndex THEN RawSetH(t, i, v)
  ELSE IF v = nil /\ i > Len(t.array) THEN EraseH(t, {i})
  ELSE LET g == IF i > Len(t.array) THEN GrowArray(t, i) ELSE t
       IN EraseH([g EXCEPT !.array[i] = v], {i})

RawSet(t, k, v) ==
  IF k \in IntKey /\ shouldStoreArrayIndex(t, k) THEN setArrayValueAt(t, k, v)
                                               ELSE RawSetH(t, k, v)

\* LTable.Append
AppendValue(t, v) ==
  IF v = nil THEN t
  ELSE IF t.array = << >> \/ Elem(t, Len(t.array)) # nil
       THEN setArrayValueAt(t, Len(t.array) + 1, v)
       ELSE EraseH([t EXCEPT !.array[TableLen(t) + 1] = v], {TableLen(t) + 1})

InsertOverwriting(t, i, v) ==
  IF i > Len(t.array) THEN RawSet(t, i, v)
  ELSE EraseH([t EXCEPT !.array = [Append(@, nil) EXCEPT ![i] = v]], {i})

InsertWithCost(t, i, v) ==
  IF i > Len(t.array) THEN RawSet(t, i, v)
  ELSE EraseH([t EXCEPT !.array = InsertAt(@, i, v)], {i})

RemoveLeavingHole(t, pos) ==
  IF pos > Len(t.array) \/ t.array = << >> THEN t
  ELSE [t EXCEPT !.array[IF pos = 0 THEN Len(t.array) ELSE pos] = nil]

\* RemoveWithCost; -1, the default of table.remove, is written 0.
RemoveWithCost(t, pos) ==
  IF pos > Len(t.array) \/ t.array = << >> THEN t
  ELSE [t EXCEPT !.array = RemoveAt(@, IF pos = 0 THEN Len(@) ELSE pos)]

compactNextIterationState(t) ==
  IF t.nextIterated = {} THEN t
  ELSE LET ks == Without(t.keys, {k \in DOMAIN t.k2i : t.hash[k] = nil})
       IN [t EXCEPT !.keys = ks, !.nextIterated = {},
                    !.k2i = [k \in ToSet(ks) |-> CHOOSE i \in DOMAIN ks : ks[i] = k]]
-----------------------------------------------------------------------------
(* next and pairs *)

InArray(t, k) == k \in IntKey /\ k < MaxArrayIndex /\ k <= Len(t.array)

isValidNextKey(t, k) == k = nil \/ InArray(t, k) \/ k \in DOMAIN t.k2i

\* The first live hash key at or after place p of keys; nil if none.
HashFrom(t, p) ==
  LET S == {i \in p .. Len(t.keys) : t.hash[t.keys[i]] # nil}
  IN IF S = {} THEN nil ELSE t.keys[CHOOSE i \in S : \A j \in S : i <= j]

\* The array indices after cursor k that are not empty.
ArrayAfter(t, k) ==
  LET i == IF k = nil THEN 0 ELSE IF InArray(t, k) THEN k ELSE Len(t.array)
  IN {j \in i + 1 .. Len(t.array) : t.array[j] # nil}

NextKeyRepeating(t, k) ==
  IF ArrayAfter(t, k) # {} THEN CHOOSE j \in ArrayAfter(t, k) : \A x \in ArrayAfter(t, k) : j <= x
  ELSE HashFrom(t, IF k = nil \/ InArray(t, k) THEN 1 ELSE t.k2i[k])

\* nextAfterArrayIndex, firstHashNext and nextHashAfter: the array part in order,
\* then the hash part in insertion order.
NextKey(t, k) ==
  IF ArrayAfter(t, k) # {} THEN CHOOSE j \in ArrayAfter(t, k) : \A x \in ArrayAfter(t, k) : j <= x
  ELSE HashFrom(t, IF k = nil \/ InArray(t, k) THEN 1 ELSE t.k2i[k] + 1)

\* The table after Next: a hash key that is returned is remembered
\* (markNextHashKey), and the end of a traversal forgets them all.
AfterNext(t, k) ==
  IF NextKey(t, k) = nil THEN compactNextIterationState(t)
  ELSE IF ArrayAfter(t, k) # {} THEN t
  ELSE [t EXCEPT !.nextIterated = @ \cup {NextKey(t, k)}]
-----------------------------------------------------------------------------
(* Programs that use one table *)

Running(l) == loop[l].st = "running"

\* A legal change during a traversal: the keys that are gone are no longer owed.
Allowed(t) == loop' = [l \in Traversal |-> [loop[l] EXCEPT !.owed = @ \cap LiveKeys(t)]]

\* Any other change makes the traversals under way undefined in Lua: forget them.
Abandon == loop' = [l \in Traversal |-> Idle]

\* The key is in the hash part and an assignment moves it to the array.
Migrates(k) == k \in IntKey /\ tb.hash[k] # nil /\ shouldStoreArrayIndex(tb, k)

\* t[k] = v for a key that has a value (v = nil erases it).  A traversal is not
\* followed beyond an assignment that moves the key: it may miss it.
Assign(k, v) ==
  /\ RawGet(tb, k) # nil
  /\ tb' = RawSet(tb, k, v)
  /\ IF v # nil /\ Migrates(k) THEN Abandon ELSE Allowed(tb')

\* t[k] = v for a key without a value.
AddKey(k, v) ==
  /\ RawGet(tb, k) = nil
  /\ tb' = RawSet(tb, k, v)
  /\ Abandon

tableAppend(v) ==
  /\ TableLen(tb) < MaxInt
  /\ tb' = AppendValue(tb, v)
  /\ Abandon

tableInsert(pos, v) ==
  /\ pos <= TableLen(tb) + 1
  /\ Len(tb.array) < MaxInt
  /\ tb' = InsertWithCost(tb, pos, v)
  /\ Abandon

tableRemove(pos) ==
  /\ pos = TableLen(tb) \/ (1 <= pos /\ pos <= TableLen(tb) + 1)
  /\ tb' = RemoveWithCost(tb, pos)
  /\ Abandon

tableRemoveDefault == tb' = RemoveWithCost(tb, 0) /\ Abandon

\* An integer key of the hash part has a slot of the array part as well.
TwoHomes(t) == \E k \in IntKey : t.hash[k] # nil /\ k <= Len(t.array)

\* pairs(t): a loop starts; every key that has a value is owed to it.  A loop over
\* a table with a key that has two homes is not followed: it may return it twice.
StartLoop(l) ==
  /\ ~Running(l)
  /\ ~TwoHomes(tb)
  /\ loop' = [loop EXCEPT ![l] = [Idle EXCEPT !.st = "running", !.owed = LiveKeys(tb)]]
  /\ UNCHANGED tb

\* Loop r after a round that returned n.
Returned(r, n) ==
  IF n = nil THEN [r EXCEPT !.st = "done"]
  ELSE [r EXCEPT !.cur = n, !.seen = @ \cup {n}, !.dup = @ \/ n \in r.seen]

\* pairsaux, baseNext: one round of the loop.
Next1(l) ==
  LET cur == loop[l].cur
      n   == NextKey(tb, cur)
  IN /\ Running(l)
     /\ \/ /\ ~isValidNextKey(tb, cur)   \* RaiseError("invalid key to 'next'")
           /\ loop' = [loop EXCEPT ![l].st = "invalid"]
           /\ UNCHANGED tb
        \/ /\ isValidNextKey(tb, cur)
           /\ tb' = AfterNext(tb, cur)
           /\ loop' = [loop EXCEPT ![l] = Returned(@, n)]

Init ==
  /\ tb = [array |-> << >>, hash |-> [k \in Key |-> nil], keys |-> << >>,
           k2i |-> << >>, nextIterated |-> {}]
  /\ loop = [l \in Traversal |-> Idle]

Next ==
  \/ \E k \in Key, v \in Value \cup {nil} :
       \/ Assign(k, v)
       \/ v # nil /\ AddKey(k, v)
  \/ \E v \in Value : tableAppend(v)
  \/ \E pos \in 1 .. MaxInt, v \in Value : tableInsert(pos, v)
  \/ \E pos \in 0 .. MaxInt + 1 : tableRemove(pos)
  \/ tableRemoveDefault
  \/ \E l \in Traversal : StartLoop(l) \/ Next1(l)

Spec == Init /\ [][Next]_vars

-----------------------------------------------------------------------------
\* Types of the variables (struct LTable, and the loops of the programs).
TypeOK ==
  /\ tb.array \in Seq(Value \cup {nil})
  /\ tb.hash \in [Key -> Value \cup {nil}]
  /\ tb.keys \in Seq(Key)
  /\ DOMAIN tb.k2i \subseteq Key
  /\ tb.nextIterated \subseteq Key
  /\ \A l \in Traversal :
       /\ loop[l].cur \in Key \cup {nil}
       /\ loop[l].st \in {"idle", "running", "done", "invalid"}

\* RawSetH, removeHashKeyMetadata, compactNextIterationState: k2i is the inverse
\* of keys, every hash entry has its place in keys, and a key without an entry
\* keeps its place only because a traversal returned it.
KeysIndexed ==
  /\ \A k \in DOMAIN tb.k2i : tb.k2i[k] \in DOMAIN tb.keys /\ tb.keys[tb.k2i[k]] = k
  /\ \A i \in DOMAIN tb.keys : tb.keys[i] \in DOMAIN tb.k2i /\ tb.k2i[tb.keys[i]] = i
  /\ \A k \in Key : tb.hash[k] # nil => k \in DOMAIN tb.k2i
  /\ \A k \in DOMAIN tb.k2i : tb.hash[k] = nil => k \in tb.nextIterated
  /\ tb.nextIterated \subseteq DOMAIN tb.k2i

\* migrateNumericHashRangeToArray: when the array grows over an integer key of the
\* hash part the entry moves.  Only InsertWithCost, which appends a slot in place,
\* gives a key of the hash part a second home.
OneHome ==
  [][~TwoHomes(tb) /\ TwoHomes(tb') =>
       \E pos \in DOMAIN tb.array, v \in Value : tableInsert(pos, v)]_vars

\* RawSet gives the key its value and no other key another one, whichever part
\* the key is in, is moved to or is erased from.
RawSetChangesOneKey ==
  [][\A k \in Key, v \in Value \cup {nil} :
       Assign(k, v) \/ AddKey(k, v) =>
         \A x \in Key : RawGet(tb', x) = IF x = k THEN v ELSE RawGet(tb, x)]_vars

\* table.insert(t, pos, v): the elements from pos to #t move up by one, v is at
\* pos and everything else is as it was (in a table where no key has two homes).
InsertShifts ==
  [][\A pos \in 1 .. MaxInt, v \in Value : tableInsert(pos, v) /\ ~TwoHomes(tb) =>
       \A x \in Key : RawGet(tb', x) =
         IF x = pos THEN v
         ELSE IF x \in IntKey /\ pos < x /\ x <= TableLen(tb) + 1 THEN RawGet(tb, x - 1)
         ELSE RawGet(tb, x)]_vars

\* next and pairs: a traversal whose table is only changed by assigning to keys
\* that have a value returns every key that keeps its value, and none twice
\* ("This function is equivalent to lua_next").
LoopVisitsOnce ==
  \A l \in Traversal :
    /\ ~loop[l].dup
    /\ loop[l].st = "done" => loop[l].owed \subseteq loop[l].seen

\* isValidNextKey "intentionally accepts stale keys that were previously returned
\* by iteration and later deleted": such a traversal never fails.
LoopNeverFails == \A l \in Traversal : loop[l].st # "invalid"

\* The table as AbstractTable has it: what each key reads as, whichever part it is in.
Abstract == INSTANCE AbstractTable WITH
  content <- [k \in Key |-> RawGet(tb, k)],
  plain   <- ~TwoHomes(tb),
  visits  <- [l \in Traversal |->
                [st |-> loop[l].st, seen |-> loop[l].seen, owed |-> loop[l].owed]]

\* RawSet, Append, InsertWithCost, RemoveWithCost, Next: a program sees one function
\* from keys to values and each operation is the operation of that name on it, for
\* the length that LenWithCost returns.
ImplementsTable ==
  /\ Abstract!Spec
  /\ [][/\ \A k \in Key, v \in Value \cup {nil} :
             /\ Assign(k, v) => Abstract!Replace(k, v) \/ Abstract!Assign(k, v)
             /\ AddKey(k, v) => Abstract!Assign(k, v)
        /\ \A v \in Value : tableAppend(v) => Abstract!Append(TableLen(tb), v)
        /\ \A pos \in 1 .. MaxInt, v \in Value :
             tableInsert(pos, v) => Abstract!Insert(TableLen(tb), pos, v)
        /\ \A pos \in 0 .. MaxInt + 1 :
             tableRemove(pos) => Abstract!Remove(TableLen(tb), pos)
        /\ tableRemoveDefault => Abstract!RemoveLast(TableLen(tb))]_vars
=============================================================================
