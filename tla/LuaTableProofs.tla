-------------------------- MODULE LuaTableProofs --------------------------
(***************************************************************************)
(* Proofs about LuaTable: the index of the hash part (KeysIndexed), what   *)
(* an assignment, an insertion and a growing array do to the other keys    *)
(* (RawSetChangesOneKey, InsertShifts, OneHome), and a traversal under     *)
(* assignments (LoopVisitsOnce, LoopNeverFails).  Together they show that  *)
(* the table is a function from keys to values (ImplementsTable).          *)
(***************************************************************************)
EXTENDS LuaTable, InductionLemmas, SequenceTheorems

\* ks and ix are inverse to each other.
Indexes(ks, ix) ==
  /\ \A k \in DOMAIN ix : ix[k] \in DOMAIN ks /\ ks[ix[k]] = k
  /\ \A i \in DOMAIN ks : ks[i] \in DOMAIN ix /\ ix[ks[i]] = i

\* KeysIndexed, of a table.
Indexed(t) ==
  /\ Indexes(t.keys, t.k2i)
  /\ \A k \in Key : t.hash[k] # nil => k \in DOMAIN t.k2i
  /\ \A k \in DOMAIN t.k2i : t.hash[k] = nil => k \in t.nextIterated
  /\ t.nextIterated \subseteq DOMAIN t.k2i

Places == UNION {[D -> Nat] : D \in SUBSET Key}

\* A table, and a table whose index is right.
Table == [array : Seq(Value \cup {nil}), hash : [Key -> Value \cup {nil}], keys : Seq(Key),
          k2i : Places, nextIterated : SUBSET Key]

Good(t) == t \in Table /\ Indexed(t)

\* A traversal.
LoopState == [cur : Key \cup {nil}, seen : SUBSET Key, owed : SUBSET Key, dup : BOOLEAN,
              st : {"idle", "running", "done", "invalid"}]

\* The inductive invariant.
Inv ==
  /\ Good(tb)
  /\ Len(tb.array) <= MaxInt
  /\ loop \in [Traversal -> LoopState]

\* The keys a traversal with cursor c has come past: the array part up to c, or all
\* of it and the hash part up to the place of c.
Passed(t, c) ==
  IF c = nil THEN {}
  ELSE IF InArray(t, c) THEN 1 .. c
  ELSE (1 .. Len(t.array)) \cup {k \in DOMAIN t.k2i : t.k2i[k] <= t.k2i[c]}

\* What is true of traversal r of table t between two rounds of the loop.
Underway(t, r) ==
  /\ ~TwoHomes(t)
  /\ r.cur = nil \/ InArray(t, r.cur) \/ r.cur \in t.nextIterated
  /\ r.seen \subseteq Passed(t, r.cur)
  /\ \A k \in r.seen : InArray(t, k) \/ k \in t.nextIterated
  /\ r.owed \subseteq LiveKeys(t)
  /\ r.owed \cap Passed(t, r.cur) \subseteq r.seen

\* What is true of a traversal in each of its states.
LoopOK(t, r) ==
  /\ ~r.dup
  /\ r.st # "invalid"
  /\ r.st = "done" => r.owed \subseteq r.seen
  /\ r.st = "running" => Underway(t, r)

LoopInv == \A l \in Traversal : LoopOK(tb, loop[l])
-----------------------------------------------------------------------------
(* Taking keys out of the index.                                           *)

\* Without, as the last of its prefixes.
LEMMA WithoutPrefixes ==
  ASSUME NEW ks \in Seq(Key), NEW gone
  PROVE  \E F : /\ F = [i \in 0 .. Len(ks) |->
                          IF i = 0 THEN << >>
                          ELSE IF ks[i] \in gone THEN F[i - 1] ELSE Append(F[i - 1], ks[i])]
                /\ Without(ks, gone) = F[Len(ks)]
<1> DEFINE Body(F, i) == IF i = 0 THEN << >>
                         ELSE IF ks[i] \in gone THEN F[i - 1] ELSE Append(F[i - 1], ks[i])
           S == {n \in 0 .. Len(ks) : \E F : F = [i \in 0 .. n |-> Body(F, i)]}
<1>0. Len(ks) \in Nat
  OBVIOUS
<1>1. 0 \in S
  <2> DEFINE G == [i \in 0 .. 0 |-> << >>]
  <2>1. G = [i \in 0 .. 0 |-> Body(G, i)]
    OBVIOUS
  <2>2. \E F : F = [i \in 0 .. 0 |-> Body(F, i)]
    <3> HIDE DEF G, Body
    <3> QED BY <2>1
  <2> QED BY <2>2, <1>0
<1>2. ASSUME NEW n \in 0 .. Len(ks) - 1, n \in S PROVE n + 1 \in S
  <2>1. PICK F : F = [i \in 0 .. n |-> Body(F, i)]
    BY <1>2
  <2> DEFINE G == [i \in 0 .. n + 1 |-> IF i <= n THEN F[i] ELSE Body(F, i)]
  <2>2. ASSUME NEW i \in 0 .. n + 1 PROVE G[i] = Body(G, i)
    <3>1. CASE i = 0
      BY <3>1, <2>1, <1>0
    <3>2. CASE i \in 1 .. n
      <4>1. i - 1 \in 0 .. n /\ i - 1 \in 0 .. n + 1 /\ i \in 0 .. n
        BY <3>2, <1>0
      <4>2. G[i - 1] = F[i - 1]
        BY <4>1
      <4>3. G[i] = F[i]
        BY <4>1
      <4> QED BY <2>1, <4>1, <4>2, <4>3
    <3>3. CASE i = n + 1
      <4>1. G[i - 1] = F[i - 1]
        BY <3>3, <1>0
      <4> QED BY <3>3, <4>1, <1>0
    <3> QED BY <3>1, <3>2, <3>3, <1>0
  <2>3. G = [i \in 0 .. n + 1 |-> Body(G, i)]
    BY <2>2
  <2>4. \E f : f = [i \in 0 .. n + 1 |-> Body(f, i)]
    <3> HIDE DEF G, Body
    <3> QED BY <2>3
  <2>5. n + 1 \in 0 .. Len(ks)
    BY <1>0
  <2> HIDE DEF Body
  <2> QED BY <2>4, <2>5
<1>3. Len(ks) \in S
  <2> HIDE DEF S
  <2>1. 0 .. Len(ks) \subseteq S
    BY <1>0, <1>1, <1>2, IntervalInduction
  <2> QED BY <2>1, <1>0
<1>4. \E F : F = [i \in 0 .. Len(ks) |-> Body(F, i)]
  BY <1>3
<1> QED BY <1>4 DEF Without

\* Places, without the union.
LEMMA PlacesDef ==
  ASSUME NEW f
  PROVE  f \in Places <=> DOMAIN f \subseteq Key /\ f \in [DOMAIN f -> Nat]
BY DEF Places

\* The index after keys were taken out: the rest keeps its order.
Reindexed(ix, gone) ==
  [k \in DOMAIN ix \ gone |-> ix[k] - Cardinality({g \in gone : ix[g] < ix[k]})]

\* compactNextIterationState: leaving keys out of the list and renumbering the others
\* keeps list and index inverse of each other, and the order of the keys that stay.
LEMMA Reindexing ==
  ASSUME NEW ks \in Seq(Key), NEW ix \in Places, Indexes(ks, ix),
         NEW gone \in SUBSET DOMAIN ix, NEW jx, jx = Reindexed(ix, gone)
  PROVE  /\ Without(ks, gone) \in Seq(Key)
         /\ jx \in Places
         /\ Indexes(Without(ks, gone), jx)
         /\ \A a, b \in DOMAIN jx : jx[a] < jx[b] <=> ix[a] < ix[b]
<1> DEFINE n == Len(ks)
           B(i) == {g \in gone : ix[g] <= i}
<1>1. n \in Nat /\ DOMAIN ks = 1 .. n
  OBVIOUS
<1>2. DOMAIN ix \subseteq Key /\ \A k \in DOMAIN ix : ix[k] \in 1 .. n /\ ks[ix[k]] = k
  BY <1>1, PlacesDef DEF Indexes
<1>3. \A i \in 1 .. n : ks[i] \in DOMAIN ix /\ ix[ks[i]] = i
  BY <1>1 DEF Indexes
<1>4. PICK F : /\ F = [i \in 0 .. n |->
                        IF i = 0 THEN << >>
                        ELSE IF ks[i] \in gone THEN F[i - 1] ELSE Append(F[i - 1], ks[i])]
               /\ Without(ks, gone) = F[n]
  BY WithoutPrefixes
<1>5. F[0] = << >>
  BY <1>1, <1>4
<1>6. \A i \in 0 .. n - 1 :
        F[i + 1] = IF ks[i + 1] \in gone THEN F[i] ELSE Append(F[i], ks[i + 1])
  <2> SUFFICES ASSUME NEW i \in 0 .. n - 1
               PROVE  F[i + 1] = IF ks[i + 1] \in gone THEN F[i] ELSE Append(F[i], ks[i + 1])
    OBVIOUS
  <2>1. i + 1 \in 0 .. n /\ i + 1 # 0 /\ (i + 1) - 1 = i
    BY <1>1
  <2> QED BY <1>4, <2>1
<1>7. B(0) = {}
  BY <1>2
<1>8. ASSUME NEW i \in 0 .. n - 1
      PROVE  B(i + 1) = IF ks[i + 1] \in gone THEN B(i) \cup {ks[i + 1]} ELSE B(i)
  <2>1. i + 1 \in 1 .. n
    BY <1>1
  <2>2. \A g \in gone : ix[g] <= i + 1 <=> ix[g] <= i \/ g = ks[i + 1]
    BY <2>1, <1>1, <1>2, <1>3
  <2> QED BY <2>2, <2>1, <1>3, <1>1
<1>9. \A i \in 0 .. n - 1 : ks[i + 1] \notin B(i)
  BY <1>1, <1>3
<1>10. \A j \in 1 .. n : ks[j] \notin gone =>
         ks[j] \in DOMAIN jx /\ jx[ks[j]] = j - Cardinality(B(j - 1))
  <2> SUFFICES ASSUME NEW j \in 1 .. n, ks[j] \notin gone
               PROVE  ks[j] \in DOMAIN jx /\ jx[ks[j]] = j - Cardinality(B(j - 1))
    OBVIOUS
  <2>1. {g \in gone : ix[g] < j} = B(j - 1)
    BY <1>1, <1>2
  <2>2. ks[j] \in DOMAIN ix \ gone /\ ix[ks[j]] = j
    BY <1>3
  <2> QED BY <2>1, <2>2 DEF Reindexed
<1> HIDE DEF B
<1> DEFINE P(i) ==
      /\ IsFiniteSet(B(i))
      /\ F[i] \in Seq(Key)
      /\ Len(F[i]) = i - Cardinality(B(i))
      /\ \A j \in 1 .. i : ks[j] \notin gone =>
           jx[ks[j]] \in 1 .. Len(F[i]) /\ F[i][jx[ks[j]]] = ks[j]
      /\ \A p \in 1 .. Len(F[i]) : \E j \in 1 .. i :
           ks[j] \notin gone /\ F[i][p] = ks[j] /\ jx[ks[j]] = p
<1>11. P(0)
  <2>1. IsFiniteSet({}) /\ Cardinality({}) = 0
    BY FS_EmptySet
  <2>2. Len(F[0]) = 0 /\ F[0] \in Seq(Key)
    BY <1>5
  <2>3. IsFiniteSet(B(0)) /\ Len(F[0]) = 0 - Cardinality(B(0))
    <3>1. IsFiniteSet(B(0)) /\ Cardinality(B(0)) = 0
      BY <2>1, <1>7, Zenon
    <3> QED BY <3>1, <2>2
  <2>4. 1 .. 0 = {} /\ 1 .. Len(F[0]) = {}
    BY <2>2
  <2> QED BY <2>2, <2>3, <2>4
<1>12. ASSUME NEW i \in 0 .. n - 1, P(i) PROVE P(i + 1)
  <2>1. i \in Nat /\ i + 1 \in 1 .. n /\ (i + 1) - 1 = i
    BY <1>1
  <2>2. Cardinality(B(i)) \in Nat
    BY <1>12, FS_CardinalityType
  <2>3. ks[i + 1] \in Key
    BY <2>1, <1>1
  <2>4. CASE ks[i + 1] \in gone
    <3>1. B(i + 1) = B(i) \cup {ks[i + 1]} /\ F[i + 1] = F[i]
      BY <2>4, <1>6, <1>8
    <3>2. IsFiniteSet(B(i + 1)) /\ Cardinality(B(i + 1)) = Cardinality(B(i)) + 1
      <4>1. IsFiniteSet(B(i)) /\ ks[i + 1] \notin B(i)
        BY <1>12, <1>9
      <4> HIDE DEF P
      <4> QED BY <3>1, <4>1, FS_AddElement
    <3>3. Len(F[i + 1]) = (i + 1) - Cardinality(B(i + 1))
      BY <3>1, <3>2, <2>1, <2>2, <1>12
    <3>4. \A j \in 1 .. i + 1 : ks[j] \notin gone => j \in 1 .. i
      BY <2>1, <2>4
    <3>5. \A j \in 1 .. i : j \in 1 .. i + 1
      BY <2>1
    <3> QED BY <3>1, <3>2, <3>3, <3>4, <3>5, <1>12
  <2>5. CASE ks[i + 1] \notin gone
    <3>1. B(i + 1) = B(i) /\ F[i + 1] = Append(F[i], ks[i + 1])
      BY <2>5, <1>6, <1>8
    <3>2. F[i + 1] \in Seq(Key) /\ Len(F[i + 1]) = Len(F[i]) + 1 /\ Len(F[i]) \in Nat
      BY <3>1, <2>3, <1>12
    <3>3. \A p \in 1 .. Len(F[i]) : F[i + 1][p] = F[i][p]
      BY <3>1, <2>3, <1>12
    <3>4. F[i + 1][Len(F[i]) + 1] = ks[i + 1]
      BY <3>1, <2>3, <1>12
    <3>5. Len(F[i + 1]) = (i + 1) - Cardinality(B(i + 1))
      BY <3>1, <3>2, <2>1, <2>2, <1>12
    <3>6. jx[ks[i + 1]] = Len(F[i]) + 1
      BY <1>10, <2>5, <2>1, <2>2, <1>12
    <3>7. ASSUME NEW j \in 1 .. i + 1, ks[j] \notin gone
          PROVE  jx[ks[j]] \in 1 .. Len(F[i + 1]) /\ F[i + 1][jx[ks[j]]] = ks[j]
      <4>1. CASE j = i + 1
        BY <4>1, <3>2, <3>4, <3>6
      <4>2. CASE j \in 1 .. i
        <5>1. jx[ks[j]] \in 1 .. Len(F[i]) /\ F[i][jx[ks[j]]] = ks[j]
          BY <4>2, <3>7, <1>12
        <5> QED BY <5>1, <3>2, <3>3
      <4> QED BY <4>1, <4>2, <2>1
    <3>8. ASSUME NEW p \in 1 .. Len(F[i + 1])
          PROVE  \E j \in 1 .. i + 1 : ks[j] \notin gone /\ F[i + 1][p] = ks[j] /\ jx[ks[j]] = p
      <4>1. CASE p = Len(F[i]) + 1
        BY <4>1, <3>4, <3>6, <2>5, <2>1
      <4>2. CASE p \in 1 .. Len(F[i])
        <5>1. PICK j \in 1 .. i : ks[j] \notin gone /\ F[i][p] = ks[j] /\ jx[ks[j]] = p
          BY <4>2, <1>12
        <5>2. j \in 1 .. i + 1
          BY <2>1
        <5> QED BY <5>1, <5>2, <4>2, <3>3
      <4> QED BY <4>1, <4>2, <3>2
    <3>9. IsFiniteSet(B(i + 1))
      BY <3>1, <1>12
    <3> QED BY <3>2, <3>5, <3>7, <3>8, <3>9
  <2> QED BY <2>4, <2>5
<1>13. \A i \in 0 .. n : P(i)
  <2> DEFINE S == {i \in 0 .. n : P(i)}
  <2> HIDE DEF P
  <2>1. 0 \in S
    BY <1>1, <1>11
  <2>2. \A i \in 0 .. n - 1 : i \in S => i + 1 \in S
    BY <1>1, <1>12
  <2> HIDE DEF S
  <2>3. 0 .. n \subseteq S
    BY <1>1, <2>1, <2>2, IntervalInduction
  <2> QED BY <2>3 DEF S
<1>14. P(n)
  <2> HIDE DEF P
  <2> QED BY <1>13, <1>1
<1>15. ASSUME NEW k \in DOMAIN jx
       PROVE  /\ k \in DOMAIN ix /\ k \notin gone
              /\ jx[k] \in 1 .. Len(F[n]) /\ F[n][jx[k]] = k
  <2>1. k \in DOMAIN ix /\ k \notin gone
    BY DEF Reindexed
  <2>2. ix[k] \in 1 .. n /\ ks[ix[k]] = k
    BY <2>1, <1>2
  <2> QED BY <2>1, <2>2, <1>14
<1>16. ASSUME NEW a \in DOMAIN jx, NEW b \in DOMAIN jx, ix[a] < ix[b]
       PROVE  jx[a] < jx[b]
  <2>1. /\ ix[a] \in 1 .. n /\ ks[ix[a]] = a /\ ks[ix[a]] \notin gone
        /\ ix[b] \in 1 .. n /\ ks[ix[b]] = b /\ ks[ix[b]] \notin gone
    BY <1>2, <1>15
  <2>2. PICK m \in 0 .. n : m = ix[b] - 1 /\ ix[a] \in 1 .. m
    BY <2>1, <1>1, <1>16
  <2>3. P(m)
    <3> HIDE DEF P
    <3> QED BY <1>13
  <2>4. jx[a] \in 1 .. Len(F[m])
    BY <2>1, <2>2, <2>3
  <2>5. jx[b] = ix[b] - Cardinality(B(m))
    BY <2>1, <2>2, <1>10
  <2>6. Cardinality(B(m)) \in Nat
    BY <2>3, FS_CardinalityType
  <2> QED BY <2>1, <2>2, <2>3, <2>4, <2>5, <2>6, SMTT(20)
<1>17. Len(F[n]) \in Nat /\ DOMAIN F[n] = 1 .. Len(F[n]) /\ F[n] \in Seq(Key)
  BY <1>14
<1>18. jx \in Places
  <2>1. DOMAIN jx \subseteq Key
    BY <1>2, <1>15
  <2>2. \A k \in DOMAIN jx : jx[k] \in Nat
    BY <1>15, <1>17
  <2>3. jx = [k \in DOMAIN jx |-> jx[k]]
    BY DEF Reindexed
  <2> QED BY <2>1, <2>2, <2>3, PlacesDef
<1>19. Indexes(F[n], jx)
  <2>1. \A k \in DOMAIN jx : jx[k] \in DOMAIN F[n] /\ F[n][jx[k]] = k
    BY <1>15, <1>17
  <2>2. ASSUME NEW p \in DOMAIN F[n] PROVE F[n][p] \in DOMAIN jx /\ jx[F[n][p]] = p
    <3>1. PICK j \in 1 .. n : ks[j] \notin gone /\ F[n][p] = ks[j] /\ jx[ks[j]] = p
      BY <1>14, <1>17
    <3> QED BY <3>1, <1>10
  <2> QED BY <2>1, <2>2 DEF Indexes
<1>20. ASSUME NEW a \in DOMAIN jx, NEW b \in DOMAIN jx
       PROVE  jx[a] < jx[b] <=> ix[a] < ix[b]
  <2>1. ix[a] \in Nat /\ ix[b] \in Nat /\ jx[a] \in Nat /\ jx[b] \in Nat
    BY <1>1, <1>2, <1>15, <1>17
  <2>2. ix[a] = ix[b] => a = b
    BY <1>2, <1>15
  <2>3. ix[a] < ix[b] => jx[a] < jx[b]
    BY <1>16
  <2>4. ix[b] < ix[a] => jx[b] < jx[a]
    BY <1>16
  <2> QED BY <2>1, <2>2, <2>3, <2>4
<1> QED BY <1>4, <1>17, <1>18, <1>19, <1>20
-----------------------------------------------------------------------------
(* What the methods of the hash part do to a table.                        *)

\* The fields of a table.
LEMMA TableFields ==
  ASSUME NEW t \in Table
  PROVE  /\ t.array \in Seq(Value \cup {nil})
         /\ t.hash \in [Key -> Value \cup {nil}]
         /\ t.keys \in Seq(Key)
         /\ t.k2i \in Places
         /\ DOMAIN t.k2i \subseteq Key
         /\ t.k2i \in [DOMAIN t.k2i -> Nat]
         /\ t.nextIterated \subseteq Key
<1>1. t.k2i \in Places
  BY DEF Table
<1> QED BY <1>1, PlacesDef DEF Table

\* The hash part, its index and the cursors are the same.
SameHash(t, u) ==
  u.hash = t.hash /\ u.keys = t.keys /\ u.k2i = t.k2i /\ u.nextIterated = t.nextIterated

\* Storing in the array part leaves the hash part alone.
LEMMA WithArray ==
  ASSUME NEW t, Good(t), NEW a \in Seq(Value \cup {nil})
  PROVE  /\ Good([t EXCEPT !.array = a])
         /\ [t EXCEPT !.array = a].array = a
         /\ SameHash(t, [t EXCEPT !.array = a])
<1> DEFINE u == [t EXCEPT !.array = a]
<1>1. t \in Table
  BY DEF Good
<1>2. u \in Table /\ u.array = a
  BY <1>1 DEF Table
<1>3. SameHash(t, u)
  BY <1>1 DEF Table, SameHash
<1>4. Indexed(u)
  BY <1>3 DEF Good, Indexed, SameHash
<1> QED BY <1>2, <1>3, <1>4 DEF Good

\* u is t after the entries of S were erased.
Erased(t, u, S) ==
  /\ Good(u)
  /\ u.array = t.array
  /\ u.hash = [k \in Key |-> IF k \in S THEN nil ELSE t.hash[k]]
  /\ u.nextIterated = t.nextIterated
  /\ DOMAIN u.k2i = DOMAIN t.k2i \ (S \ t.nextIterated)
  /\ \A a, b \in DOMAIN u.k2i : u.k2i[a] < u.k2i[b] <=> t.k2i[a] < t.k2i[b]

\* Erasing keys from the hash part changes nothing else, and forgets them unless a
\* traversal needs their place.
LEMMA EraseHErases ==
  ASSUME NEW t, Good(t), NEW S
  PROVE  Erased(t, EraseH(t, S), S)
<1>1. t \in Table
  BY DEF Good
<1> DEFINE gone == (S \ t.nextIterated) \cap DOMAIN t.k2i
           h == [k \in Key |-> IF k \in S THEN nil ELSE t.hash[k]]
           jx == Reindexed(t.k2i, gone)
           ks == Without(t.keys, gone)
           u == [t EXCEPT !.hash = h, !.keys = ks, !.k2i = jx]
<1>2. EraseH(t, S) = u
  BY <1>1 DEF EraseH, Reindexed, Table
<1>3. Indexes(t.keys, t.k2i)
  BY DEF Good, Indexed
<1>4. /\ ks \in Seq(Key) /\ jx \in Places /\ Indexes(ks, jx)
      /\ \A a, b \in DOMAIN jx : jx[a] < jx[b] <=> t.k2i[a] < t.k2i[b]
  <2>1. PICK x : x = jx
    OBVIOUS
  <2>2. gone \in SUBSET DOMAIN t.k2i
    OBVIOUS
  <2> HIDE DEF gone
  <2> QED BY <1>1, <1>3, <2>1, <2>2, TableFields, Reindexing
<1>5. h \in [Key -> Value \cup {nil}]
  BY <1>1, TableFields
<1>6. DOMAIN jx = DOMAIN t.k2i \ (S \ t.nextIterated)
  BY DEF Reindexed
<1> HIDE DEF h, jx, ks
<1>7. u \in Table /\ u.hash = h /\ u.keys = ks /\ u.k2i = jx
      /\ u.array = t.array /\ u.nextIterated = t.nextIterated
  BY <1>1, <1>4, <1>5 DEF Table
<1> HIDE DEF u
<1>8. Indexed(u)
  <2>1. \A k \in Key : u.hash[k] # nil => k \in DOMAIN u.k2i
    <3> SUFFICES ASSUME NEW k \in Key, u.hash[k] # nil PROVE k \in DOMAIN u.k2i
      OBVIOUS
    <3>1. k \notin S /\ t.hash[k] # nil
      BY <1>7 DEF h
    <3>2. k \in DOMAIN t.k2i
      BY <3>1 DEF Good, Indexed
    <3> QED BY <3>1, <3>2, <1>6, <1>7
  <2>2. \A k \in DOMAIN u.k2i : u.hash[k] = nil => k \in u.nextIterated
    <3> SUFFICES ASSUME NEW k \in DOMAIN u.k2i, u.hash[k] = nil PROVE k \in u.nextIterated
      OBVIOUS
    <3>1. k \in DOMAIN t.k2i /\ (k \in S => k \in t.nextIterated)
      BY <1>6, <1>7
    <3>2. k \in Key
      BY <3>1, <1>1, TableFields
    <3>3. k \notin S => t.hash[k] = nil
      BY <3>2, <1>7 DEF h
    <3> QED BY <3>1, <3>3, <1>7 DEF Good, Indexed
  <2>3. u.nextIterated \subseteq DOMAIN u.k2i
    BY <1>6, <1>7 DEF Good, Indexed
  <2> QED BY <1>4, <1>7, <2>1, <2>2, <2>3 DEF Indexed
<1> QED BY <1>2, <1>4, <1>6, <1>7, <1>8 DEF Erased, Good, h

\* A value stored in the hash part: a new key goes to the end of keys.
LEMMA SetHSets ==
  ASSUME NEW t, Good(t), NEW k \in Key, NEW v \in Value
  PROVE  /\ Good(SetH(t, k, v))
         /\ SetH(t, k, v).array = t.array
         /\ SetH(t, k, v).hash = [t.hash EXCEPT ![k] = v]
         /\ SetH(t, k, v).nextIterated = t.nextIterated
         /\ k \in DOMAIN t.k2i => SetH(t, k, v).k2i = t.k2i
<1>1. t \in Table
  BY DEF Good
<1>2. v # nil
  BY TableAssumption
<1> DEFINE new == k \notin DOMAIN t.k2i
           h == [t.hash EXCEPT ![k] = v]
           ks == IF new THEN Append(t.keys, k) ELSE t.keys
           jx == IF new THEN [x \in DOMAIN t.k2i \cup {k} |->
                                IF x = k THEN Len(t.keys) + 1 ELSE t.k2i[x]] ELSE t.k2i
           u == [t EXCEPT !.hash = h, !.keys = ks, !.k2i = jx]
<1>3. SetH(t, k, v) = u
  BY <1>1 DEF SetH, Table
<1>4. h \in [Key -> Value \cup {nil}] /\ ks \in Seq(Key)
  BY <1>1, TableFields
<1>5. jx \in Places
  <2>1. CASE new
    <3>1. Len(t.keys) + 1 \in Nat
      BY <1>1, TableFields
    <3>2. DOMAIN jx = DOMAIN t.k2i \cup {k}
      BY <2>1
    <3>3. \A x \in DOMAIN jx : jx[x] \in Nat
      BY <2>1, <3>1, <3>2, <1>1, TableFields
    <3>4. jx = [x \in DOMAIN jx |-> jx[x]]
      BY <2>1
    <3>5. DOMAIN jx \subseteq Key
      BY <3>2, <1>1, TableFields
    <3> HIDE DEF jx
    <3> QED BY <3>3, <3>4, <3>5, PlacesDef
  <2>2. CASE ~new
    BY <2>2, <1>1, TableFields
  <2> QED BY <2>1, <2>2
<1>6. Indexes(ks, jx)
  <2>1. CASE new
    <3>1. /\ Indexes(t.keys, t.k2i) /\ DOMAIN t.keys = 1 .. Len(t.keys) /\ Len(t.keys) \in Nat
      BY <1>1, TableFields DEF Good, Indexed
    <3>2. DOMAIN ks = 1 .. Len(t.keys) + 1 /\ ks[Len(t.keys) + 1] = k
          /\ \A i \in 1 .. Len(t.keys) : ks[i] = t.keys[i]
      BY <2>1, <1>1, TableFields
    <3>3. DOMAIN jx = DOMAIN t.k2i \cup {k} /\ jx[k] = Len(t.keys) + 1
          /\ \A x \in DOMAIN t.k2i : jx[x] = t.k2i[x]
      BY <2>1
    <3> HIDE DEF jx, ks
    <3>4. ASSUME NEW x \in DOMAIN jx PROVE jx[x] \in DOMAIN ks /\ ks[jx[x]] = x
      <4>1. CASE x = k
        BY <4>1, <3>1, <3>2, <3>3
      <4>2. CASE x # k
        BY <4>2, <3>1, <3>2, <3>3 DEF Indexes
      <4> QED BY <4>1, <4>2
    <3>5. ASSUME NEW i \in DOMAIN ks PROVE ks[i] \in DOMAIN jx /\ jx[ks[i]] = i
      <4>1. CASE i = Len(t.keys) + 1
        BY <4>1, <3>2, <3>3
      <4>2. CASE i \in 1 .. Len(t.keys)
        BY <4>2, <3>1, <3>2, <3>3 DEF Indexes
      <4> QED BY <4>1, <4>2, <3>1, <3>2
    <3> QED BY <3>4, <3>5 DEF Indexes
  <2>2. CASE ~new
    BY <2>2 DEF Good, Indexed
  <2> QED BY <2>1, <2>2
<1>7. DOMAIN jx = DOMAIN t.k2i \cup {k} /\ (~new => jx = t.k2i)
  OBVIOUS
<1> HIDE DEF jx, ks, h
<1>8. u \in Table /\ u.hash = h /\ u.keys = ks /\ u.k2i = jx
      /\ u.array = t.array /\ u.nextIterated = t.nextIterated
  BY <1>1, <1>4, <1>5 DEF Table
<1> HIDE DEF u
<1>9. h[k] = v /\ \A x \in Key : x # k => h[x] = t.hash[x]
  BY <1>1, TableFields DEF h
<1>10. Indexed(u)
  <2>1. \A x \in Key : u.hash[x] # nil => x \in DOMAIN u.k2i
    BY <1>7, <1>8, <1>9 DEF Good, Indexed
  <2>2. \A x \in DOMAIN u.k2i : u.hash[x] = nil => x \in u.nextIterated
    BY <1>1, <1>2, <1>7, <1>8, <1>9, TableFields DEF Good, Indexed
  <2>3. u.nextIterated \subseteq DOMAIN u.k2i
    BY <1>7, <1>8 DEF Good, Indexed
  <2> QED BY <1>6, <1>8, <2>1, <2>2, <2>3 DEF Indexed
<1> QED BY <1>3, <1>7, <1>8, <1>10 DEF Good, h
-----------------------------------------------------------------------------
(* What the methods that reach the array part do to a table.               *)

\* v was stored at place i of the array part.
Stored(t, u, i, v) == Erased([t EXCEPT !.array = [@ EXCEPT ![i] = v]], u, {i})

\* An assignment to a slot of the array part, with the erasure of the hash entry.
LEMMA StoresInArray ==
  ASSUME NEW t, Good(t), NEW i \in 1 .. Len(t.array), NEW v \in Value \cup {nil}
  PROVE  Stored(t, EraseH([t EXCEPT !.array[i] = v], {i}), i, v)
<1>1. t.array \in Seq(Value \cup {nil}) /\ t \in Table
  BY TableFields DEF Good
<1>2. [t.array EXCEPT ![i] = v] \in Seq(Value \cup {nil})
  BY <1>1
<1>3. [t EXCEPT !.array[i] = v] = [t EXCEPT !.array = [t.array EXCEPT ![i] = v]]
  OBVIOUS
<1>4. Good([t EXCEPT !.array = [t.array EXCEPT ![i] = v]])
  BY <1>2, WithArray
<1> QED BY <1>3, <1>4, EraseHErases DEF Stored

\* The table after v was stored at place i.
StoredIs(t, u, i, v) ==
  /\ Good(u)
  /\ u.array = [t.array EXCEPT ![i] = v]
  /\ Len(u.array) = Len(t.array)
  /\ u.hash = [k \in Key |-> IF k = i THEN nil ELSE t.hash[k]]
  /\ u.nextIterated = t.nextIterated
  /\ DOMAIN u.k2i = DOMAIN t.k2i \ ({i} \ t.nextIterated)
  /\ \A a, b \in DOMAIN u.k2i : u.k2i[a] < u.k2i[b] <=> t.k2i[a] < t.k2i[b]

\* What such an assignment leaves in the array part and the hash part.
LEMMA StoredArray ==
  ASSUME NEW t, Good(t), NEW i \in 1 .. Len(t.array), NEW v \in Value \cup {nil}, NEW u,
         Stored(t, u, i, v)
  PROVE  StoredIs(t, u, i, v)
<1> DEFINE a == [t.array EXCEPT ![i] = v]
           t1 == [t EXCEPT !.array = a]
<1>1. t.array \in Seq(Value \cup {nil})
  BY TableFields DEF Good
<1>2. a \in Seq(Value \cup {nil}) /\ Len(a) = Len(t.array)
  BY <1>1
<1>3. t1.array = a /\ SameHash(t, t1)
  <2> HIDE DEF a
  <2> QED BY <1>2, WithArray
<1>4. Erased(t1, u, {i})
  BY DEF Stored
<1> HIDE DEF t1
<1>5. u.hash = [k \in Key |-> IF k = i THEN nil ELSE t.hash[k]]
  BY <1>3, <1>4 DEF Erased, SameHash
<1> QED BY <1>2, <1>3, <1>4, <1>5 DEF Erased, SameHash, StoredIs

\* g is t with an array part of length n, the entries for its new places moved.
Grown(t, g, n) ==
  /\ Good(g)
  /\ Len(g.array) = n
  /\ \A i \in 1 .. Len(t.array) : g.array[i] = t.array[i]
  /\ \A i \in Len(t.array) + 1 .. n : g.array[i] = t.hash[i]
  /\ g.hash = [k \in Key |-> IF k \in Len(t.array) + 1 .. n THEN nil ELSE t.hash[k]]

\* growArray and migrateNumericHashRangeToArray: the array part gets length n, and the
\* hash entries it now covers move into it.
LEMMA GrowArrayGrows ==
  ASSUME NEW t, Good(t), NEW n \in IntKey, Len(t.array) < n
  PROVE  Grown(t, GrowArray(t, n), n)
<1> DEFINE m == Len(t.array)
           a0 == t.array \o [i \in 1 .. n - m |-> nil]
           t0 == [t EXCEPT !.array = a0]
           live == {i \in m + 1 .. n : t.hash[i] # nil}
           a1 == [i \in DOMAIN a0 |-> IF i \in live THEN t.hash[i] ELSE a0[i]]
           t1 == [t0 EXCEPT !.array = a1]
           g == EraseH(t1, live)
<1>1. /\ t.array \in Seq(Value \cup {nil}) /\ t.hash \in [Key -> Value \cup {nil}]
      /\ t \in Table /\ m \in Nat /\ n \in Nat
  BY TableFields, TableAssumption DEF Good, IntKey
<1>2. /\ a0 \in Seq(Value \cup {nil}) /\ Len(a0) = n /\ DOMAIN a0 = 1 .. n
      /\ \A i \in 1 .. m : a0[i] = t.array[i]
      /\ \A i \in m + 1 .. n : a0[i] = nil
  <2> DEFINE pad == [i \in 1 .. n - m |-> nil]
  <2>1. n - m \in Nat
    BY <1>1
  <2>2. pad \in Seq(Value \cup {nil}) /\ Len(pad) = n - m
    BY <2>1
  <2>3. \A i \in 1 .. n - m : pad[i] = nil
    OBVIOUS
  <2> HIDE DEF pad
  <2>4. a0 \in Seq(Value \cup {nil}) /\ Len(a0) = n
    BY <1>1, <2>2 DEF pad
  <2>5. \A i \in 1 .. m : a0[i] = t.array[i]
    BY <1>1, <2>2 DEF pad
  <2>6. ASSUME NEW i \in m + 1 .. n PROVE a0[i] = nil
    <3>1. i - m \in 1 .. n - m
      BY <1>1
    <3>2. (t.array \o pad)[i] = pad[i - m]
      BY <1>1, <2>2, <3>1
    <3> QED BY <3>1, <3>2, <2>3 DEF pad
  <2> HIDE DEF a0
  <2> QED BY <2>4, <2>5, <2>6, <1>1
<1> HIDE DEF a0
<1>3. Good(t0) /\ t0.array = a0 /\ SameHash(t, t0)
  BY <1>2, WithArray
<1>4. /\ a1 \in Seq(Value \cup {nil}) /\ Len(a1) = n
      /\ \A i \in 1 .. m : a1[i] = t.array[i]
      /\ \A i \in m + 1 .. n : a1[i] = t.hash[i]
  <2>1. \A i \in 1 .. n : i \in Key
    BY TableAssumption DEF IntKey, Key
  <2>2. ASSUME NEW i \in 1 .. n PROVE a1[i] \in Value \cup {nil}
    BY <2>1, <1>1, <1>2
  <2>3. DOMAIN a1 = 1 .. n
    BY <1>2
  <2>4. a1 = [i \in 1 .. n |-> a1[i]]
    BY <1>2
  <2>5. a1 \in Seq(Value \cup {nil}) /\ Len(a1) = n
    <3> HIDE DEF a1
    <3> QED BY <2>2, <2>3, <2>4, <1>1
  <2>6. ASSUME NEW i \in 1 .. m PROVE a1[i] = t.array[i]
    <3>1. i \in 1 .. n /\ i \notin live
      BY <1>1
    <3> QED BY <3>1, <1>2
  <2>7. ASSUME NEW i \in m + 1 .. n PROVE a1[i] = t.hash[i]
    <3>1. i \in 1 .. n
      BY <1>1
    <3> QED BY <3>1, <1>2
  <2> QED BY <2>5, <2>6, <2>7
<1> HIDE DEF a1, t0
<1>5. Good(t1) /\ t1.array = a1 /\ SameHash(t0, t1)
  BY <1>3, <1>4, WithArray
<1>6. GrowArray(t, n) = g
  <2>1. GrowArray(t, n) = migrateNumericHashRangeToArray(t0, m + 1 .. n)
    BY DEF GrowArray, t0, a0
  <2>2. t0.hash = t.hash /\ t0.array = a0
    BY <1>3 DEF SameHash
  <2>3. migrateNumericHashRangeToArray(t0, m + 1 .. n) = g
    BY <2>2 DEF migrateNumericHashRangeToArray, a1
  <2> QED BY <2>1, <2>3
<1> HIDE DEF t1
<1>7. Erased(t1, g, live)
  BY <1>5, EraseHErases
<1>8. g.hash = [k \in Key |-> IF k \in m + 1 .. n THEN nil ELSE t.hash[k]]
  <2>1. g.hash = [k \in Key |-> IF k \in live THEN nil ELSE t.hash[k]]
    BY <1>3, <1>5, <1>7 DEF SameHash, Erased
  <2> QED BY <2>1
<1>9. Good(g) /\ g.array = a1
  BY <1>5, <1>7 DEF Erased
<1>10. Grown(t, g, n)
  <2> HIDE DEF g
  <2> QED BY <1>4, <1>8, <1>9 DEF Grown
<1> QED BY <1>6, <1>10

\* The ways setArrayValueAt can go.
LEMMA SetArrayCases ==
  ASSUME NEW t, Good(t), NEW i \in IntKey, NEW v \in Value \cup {nil}
  PROVE  LET u == setArrayValueAt(t, i, v)
             m == Len(t.array)
         IN \/ i >= MaxArrayIndex /\ v = nil /\ Erased(t, u, {i})
            \/ i >= MaxArrayIndex /\ v # nil /\ u = SetH(t, i, v)
            \/ i < MaxArrayIndex /\ m < i /\ v = nil /\ Erased(t, u, {i})
            \/ i < MaxArrayIndex /\ i \in 1 .. m /\ Stored(t, u, i, v)
            \/ i < MaxArrayIndex /\ m < i /\ v # nil
               /\ \E g : Grown(t, g, i) /\ Stored(g, u, i, v)
<1> DEFINE u == setArrayValueAt(t, i, v)
           m == Len(t.array)
<1>1. i \in Nat /\ m \in Nat /\ MaxArrayIndex \in Nat /\ i >= 1
  BY TableFields, TableAssumption DEF IntKey, Good
<1>2. CASE i >= MaxArrayIndex
  BY <1>2, EraseHErases DEF setArrayValueAt, RawSetH
<1>3. CASE i < MaxArrayIndex /\ m < i /\ v = nil
  <2>1. u = EraseH(t, {i})
    BY <1>1, <1>3 DEF setArrayValueAt
  <2> QED BY <1>3, <2>1, EraseHErases
<1>4. CASE i < MaxArrayIndex /\ i <= m
  <2>1. ~(i >= MaxArrayIndex) /\ ~(i > Len(t.array))
    BY <1>1, <1>4
  <2>2. u = EraseH([t EXCEPT !.array[i] = v], {i})
    BY <2>1, Zenon DEF setArrayValueAt
  <2> QED BY <1>1, <1>4, <2>2, StoresInArray
<1>5. CASE i < MaxArrayIndex /\ m < i /\ v # nil
  <2>1. PICK g : g = GrowArray(t, i)
    OBVIOUS
  <2>2. u = EraseH([g EXCEPT !.array[i] = v], {i})
    BY <1>1, <1>5, <2>1 DEF setArrayValueAt
  <2>3. Grown(t, g, i)
    BY <1>5, <2>1, GrowArrayGrows
  <2>4. i \in 1 .. Len(g.array) /\ Good(g)
    BY <2>3, <1>1 DEF Grown
  <2>5. Stored(g, u, i, v)
    BY <2>2, <2>4, StoresInArray
  <2> QED BY <1>5, <2>3, <2>5
<1> QED BY <1>1, <1>2, <1>3, <1>4, <1>5

\* The ways RawSet can go: erase from the hash, set in the hash, set in the array, or grow
\* the array and set there.
LEMMA RawSetCases ==
  ASSUME NEW t, Good(t), NEW k \in Key, NEW v \in Value \cup {nil}
  PROVE  LET u == RawSet(t, k, v)
             m == Len(t.array)
         IN \/ v = nil /\ ~InArray(t, k) /\ Erased(t, u, {k})
            \/ v # nil /\ ~InArray(t, k) /\ ~(k \in IntKey /\ shouldStoreArrayIndex(t, k))
               /\ u = SetH(t, k, v)
            \/ InArray(t, k) /\ k \in 1 .. m /\ Stored(t, u, k, v)
            \/ k \in IntKey /\ shouldStoreArrayIndex(t, k) /\ m < k /\ v # nil
               /\ \E g : Grown(t, g, k) /\ Stored(g, u, k, v)
<1> DEFINE u == RawSet(t, k, v)
           m == Len(t.array)
<1>1. m \in Nat /\ MaxArrayIndex \in Nat /\ MaxArrayHoleGrowth \in Nat
      /\ \A i \in IntKey : i \in Nat /\ i >= 1
  BY TableFields, TableAssumption DEF IntKey, Good
<1>2. CASE k \in IntKey /\ shouldStoreArrayIndex(t, k)
  <2>1. u = setArrayValueAt(t, k, v) /\ k < MaxArrayIndex
    BY <1>2 DEF RawSet, shouldStoreArrayIndex
  <2>2. ~(k >= MaxArrayIndex)
    BY <2>1, <1>1, <1>2
  <2>3. \/ m < k /\ v = nil /\ Erased(t, u, {k})
        \/ k \in 1 .. m /\ Stored(t, u, k, v)
        \/ m < k /\ v # nil /\ \E g : Grown(t, g, k) /\ Stored(g, u, k, v)
    BY <1>2, <2>1, <2>2, SetArrayCases
  <2>4. InArray(t, k) <=> k <= m
    BY <1>2, <2>1 DEF InArray
  <2> QED BY <1>1, <1>2, <2>3, <2>4
<1>3. CASE ~(k \in IntKey /\ shouldStoreArrayIndex(t, k))
  <2>1. u = RawSetH(t, k, v)
    BY <1>3 DEF RawSet
  <2>2. ~InArray(t, k)
    BY <1>1, <1>3 DEF InArray, shouldStoreArrayIndex
  <2> QED BY <1>3, <2>1, <2>2, EraseHErases DEF RawSetH
<1> QED BY <1>2, <1>3

\* RawSetH keeps the index right.
LEMMA SetHGood ==
  ASSUME NEW t, Good(t), NEW k \in Key, NEW v \in Value
  PROVE  Good(SetH(t, k, v)) /\ SetH(t, k, v).array = t.array
BY SetHSets

\* An assignment to a slot keeps the index right.
LEMMA StoredGood ==
  ASSUME NEW t, Good(t), NEW i \in 1 .. Len(t.array), NEW v \in Value \cup {nil}, NEW u,
         Stored(t, u, i, v)
  PROVE  Good(u) /\ Len(u.array) = Len(t.array)
<1>1. StoredIs(t, u, i, v)
  BY StoredArray
<1> QED BY <1>1 DEF StoredIs

\* RawSet keeps the index right and the array part within the bound.
LEMMA RawSetGood ==
  ASSUME NEW t, Good(t), Len(t.array) <= MaxInt, NEW k \in Key, NEW v \in Value \cup {nil}
  PROVE  Good(RawSet(t, k, v)) /\ Len(RawSet(t, k, v).array) <= MaxInt
<1> DEFINE u == RawSet(t, k, v)
           m == Len(t.array)
<1>1. MaxInt \in Nat /\ m \in Nat
  BY TableAssumption, TableFields DEF Good
<1>2. CASE Erased(t, u, {k})
  BY <1>2 DEF Erased
<1>3. CASE v # nil /\ u = SetH(t, k, v)
  BY <1>3, SetHGood
<1>4. CASE k \in 1 .. m /\ Stored(t, u, k, v)
  BY <1>4, StoredGood
<1>5. ASSUME NEW g, k \in IntKey, Grown(t, g, k), Stored(g, u, k, v)
      PROVE  Good(u) /\ Len(u.array) <= MaxInt
  <2>1. Good(g) /\ k \in 1 .. Len(g.array) /\ Len(g.array) <= MaxInt
    BY <1>5, <1>1 DEF Grown, IntKey
  <2> QED BY <1>5, <2>1, StoredGood
<1> QED BY <1>2, <1>3, <1>4, <1>5, RawSetCases

\* The length of a table is the last place of the array part that is not empty.
LEMMA TableLenIs ==
  ASSUME NEW t, Good(t)
  PROVE  /\ TableLen(t) \in 0 .. Len(t.array)
         /\ TableLen(t) # 0 => t.array[TableLen(t)] # nil
         /\ \A i \in TableLen(t) + 1 .. Len(t.array) : t.array[i] = nil
<1> DEFINE m == Len(t.array)
           S == {i \in DOMAIN t.array : t.array[i] # nil}
<1>1. m \in Nat /\ DOMAIN t.array = 1 .. m
  BY TableFields DEF Good
<1>2. CASE S = {}
  <2>1. TableLen(t) = 0
    BY <1>2 DEF TableLen
  <2> QED BY <1>1, <1>2, <2>1
<1>3. CASE S # {}
  <2>1. S \in SUBSET (0 .. m)
    BY <1>1
  <2>2. \E x \in S : \A y \in S : y <= x
    <3> HIDE DEF S
    <3> QED BY <1>1, <1>3, <2>1, MaxNat
  <2>3. TableLen(t) \in S /\ \A y \in S : y <= TableLen(t)
    BY <1>3, <2>2 DEF TableLen
  <2> QED BY <1>1, <2>3
<1> QED BY <1>2, <1>3

\* The ways Append can go: to the hash at the limit, one slot more, or the slot after the
\* last value.
LEMMA AppendCases ==
  ASSUME NEW t, Good(t), Len(t.array) <= MaxInt, TableLen(t) < MaxInt, NEW v \in Value
  PROVE  LET u == AppendValue(t, v)
             m == Len(t.array)
         IN \/ m + 1 \in IntKey /\ u = SetH(t, m + 1, v)
            \/ m + 1 \in IntKey /\ \E g : Grown(t, g, m + 1) /\ Stored(g, u, m + 1, v)
            \/ TableLen(t) + 1 \in 1 .. m /\ Stored(t, u, TableLen(t) + 1, v)
<1> DEFINE u == AppendValue(t, v)
           m == Len(t.array)
<1>1. m \in Nat /\ MaxInt \in Nat /\ MaxInt # 0 /\ DOMAIN t.array = 1 .. m /\ v # nil
  BY TableFields, TableAssumption DEF Good
<1>2. CASE t.array = << >> \/ Elem(t, m) # nil
  <2>1. PICK i : i = m + 1
    OBVIOUS
  <2>2. u = setArrayValueAt(t, i, v)
    BY <1>1, <1>2, <2>1 DEF AppendValue
  <2>3. t.array = << >> => m = 0
    OBVIOUS
  <2>4. Elem(t, m) # nil => TableLen(t) = m
    BY <1>1, TableLenIs DEF Elem
  <2>5. i \in IntKey
    BY <1>1, <1>2, <2>1, <2>3, <2>4 DEF IntKey
  <2>6. ~(i \in 1 .. m)
    BY <1>1, <2>1
  <2>7. \/ u = SetH(t, i, v)
        \/ \E g : Grown(t, g, i) /\ Stored(g, u, i, v)
    BY <1>1, <2>2, <2>5, <2>6, SetArrayCases
  <2> QED BY <2>1, <2>5, <2>7
<1>3. CASE ~(t.array = << >> \/ Elem(t, m) # nil)
  <2>1. PICK i : i = TableLen(t) + 1
    OBVIOUS
  <2>2. u = EraseH([t EXCEPT !.array[i] = v], {i})
    BY <1>1, <1>3, <2>1 DEF AppendValue
  <2>3. m # 0
    BY <1>3, <1>1, TableFields, EmptySeq DEF Good
  <2>4. m \in DOMAIN t.array /\ t.array[m] = nil
    BY <1>1, <1>3, <2>3 DEF Elem
  <2>5. i \in 1 .. m
    BY <1>1, <2>1, <2>4, TableLenIs
  <2>6. Stored(t, u, i, v)
    BY <2>2, <2>5, StoresInArray
  <2> QED BY <2>1, <2>5, <2>6
<1> QED BY <1>2, <1>3

\* Append keeps the index right and the array part within the bound.
LEMMA AppendGood ==
  ASSUME NEW t, Good(t), Len(t.array) <= MaxInt, TableLen(t) < MaxInt, NEW v \in Value
  PROVE  Good(AppendValue(t, v)) /\ Len(AppendValue(t, v).array) <= MaxInt
<1> DEFINE u == AppendValue(t, v)
           m == Len(t.array)
<1>1. MaxInt \in Nat /\ m \in Nat
  BY TableAssumption, TableFields DEF Good
<1>2. CASE m + 1 \in IntKey /\ u = SetH(t, m + 1, v)
  <2>1. PICK k \in Key : k = m + 1
    BY <1>2 DEF Key
  <2> QED BY <1>2, <2>1, SetHGood
<1>3. ASSUME m + 1 \in IntKey, NEW g, Grown(t, g, m + 1), Stored(g, u, m + 1, v)
      PROVE  Good(u) /\ Len(u.array) <= MaxInt
  <2>1. PICK k : k = m + 1
    OBVIOUS
  <2>2. Good(g) /\ k \in 1 .. Len(g.array) /\ Len(g.array) <= MaxInt
    BY <1>1, <1>3, <2>1 DEF Grown, IntKey
  <2> QED BY <1>3, <2>1, <2>2, StoredGood
<1>4. CASE TableLen(t) + 1 \in 1 .. m /\ Stored(t, u, TableLen(t) + 1, v)
  <2>1. PICK k : k = TableLen(t) + 1
    OBVIOUS
  <2> QED BY <1>4, <2>1, StoredGood
<1> QED BY <1>2, <1>3, <1>4, AppendCases

\* The sequence with e put in before its element i.
LEMMA InsertAtIs ==
  ASSUME NEW T, NEW s \in Seq(T), NEW i \in 1 .. Len(s), NEW e \in T
  PROVE  /\ InsertAt(s, i, e) \in Seq(T)
         /\ Len(InsertAt(s, i, e)) = Len(s) + 1
         /\ \A j \in 1 .. Len(s) + 1 :
              InsertAt(s, i, e)[j] = IF j < i THEN s[j] ELSE IF j = i THEN e ELSE s[j - 1]
<1> DEFINE a == SubSeq(s, 1, i - 1)
           c == SubSeq(s, i, Len(s))
           b == Append(a, e)
<1>3. a \in Seq(T) /\ Len(a) = i - 1 /\ \A j \in 1 .. i - 1 : a[j] = s[j]
  OBVIOUS
<1>4. c \in Seq(T) /\ Len(c) = Len(s) - i + 1 /\ \A j \in 1 .. Len(s) - i + 1 : c[j] = s[i + j - 1]
  OBVIOUS
<1> HIDE DEF a, c
<1>6. b \in Seq(T) /\ Len(b) = i /\ b[i] = e /\ \A j \in 1 .. i - 1 : b[j] = s[j]
  BY <1>3
<1>7. InsertAt(s, i, e) = b \o c
  BY <1>3, <1>4 DEF InsertAt, a, c
<1> HIDE DEF b
<1>8. b \o c \in Seq(T) /\ Len(b \o c) = Len(s) + 1
  <2>1. b \o c \in Seq(T) /\ Len(b \o c) = Len(b) + Len(c)
    <3>1. b \in Seq(T) /\ c \in Seq(T)
      BY <1>4, <1>6
    <3> QED BY <3>1, ConcatProperties, Zenon
  <2> QED BY <2>1, <1>4, <1>6
<1>9. ASSUME NEW j \in 1 .. Len(s) + 1
      PROVE  (b \o c)[j] = IF j < i THEN s[j] ELSE IF j = i THEN e ELSE s[j - 1]
  <2>0. j \in Nat /\ i \in Nat
    OBVIOUS
  <2>1. CASE j <= i
    <3>1. (b \o c)[j] = b[j]
      BY <2>1, <1>6
    <3> QED BY <3>1, <2>1, <1>6
  <2>2. CASE j > i
    <3>1. j - i \in 1 .. Len(s) - i + 1 /\ i + (j - i) - 1 = j - 1
      BY <2>2
    <3>2. (b \o c)[j] = c[j - i]
      BY <2>2, <3>1, <1>4, <1>6
    <3> QED BY <2>2, <3>1, <3>2, <1>4
  <2>3. j <= i \/ j > i
    BY <2>0
  <2> QED BY <2>1, <2>2, <2>3, Zenon
<1> QED BY <1>7, <1>8, <1>9

\* InsertWithCost in the array part: shift in place, then erase the key from the hash.
LEMMA InsertCases ==
  ASSUME NEW t, Good(t), NEW i \in 1 .. Len(t.array), NEW v \in Value
  PROVE  LET a == InsertAt(t.array, i, v)
         IN /\ Erased([t EXCEPT !.array = a], InsertWithCost(t, i, v), {i})
            /\ Good([t EXCEPT !.array = a]) /\ [t EXCEPT !.array = a].array = a
            /\ SameHash(t, [t EXCEPT !.array = a])
<1>1. PICK a : a = InsertAt(t.array, i, v)
  OBVIOUS
<1>2. t.array \in Seq(Value \cup {nil})
  BY TableFields DEF Good
<1>3. a \in Seq(Value \cup {nil})
  BY <1>1, <1>2, InsertAtIs
<1>4. Good([t EXCEPT !.array = a]) /\ [t EXCEPT !.array = a].array = a
      /\ SameHash(t, [t EXCEPT !.array = a])
  BY <1>3, WithArray
<1>5. InsertWithCost(t, i, v) = EraseH([t EXCEPT !.array = a], {i})
  <2>1. ~(i > Len(t.array))
    BY <1>2
  <2> QED BY <1>1, <2>1 DEF InsertWithCost
<1> QED BY <1>1, <1>4, <1>5, EraseHErases

\* InsertWithCost keeps the index right and the array part within the bound.
LEMMA InsertGood ==
  ASSUME NEW t, Good(t), Len(t.array) < MaxInt, NEW i \in 1 .. MaxInt, NEW v \in Value
  PROVE  Good(InsertWithCost(t, i, v)) /\ Len(InsertWithCost(t, i, v).array) <= MaxInt
<1>1. MaxInt \in Nat /\ Len(t.array) \in Nat /\ t.array \in Seq(Value \cup {nil})
  BY TableAssumption, TableFields DEF Good
<1>2. CASE i > Len(t.array)
  <2>1. InsertWithCost(t, i, v) = RawSet(t, i, v)
    BY <1>2 DEF InsertWithCost
  <2>2. i \in Key /\ Len(t.array) <= MaxInt
    BY <1>1 DEF Key, IntKey
  <2> QED BY <2>1, <2>2, RawSetGood
<1>3. CASE i \in 1 .. Len(t.array)
  <2>1. PICK a : a = InsertAt(t.array, i, v)
    OBVIOUS
  <2>2. Len(a) = Len(t.array) + 1
    BY <2>1, <1>1, <1>3, InsertAtIs
  <2>3. Good(InsertWithCost(t, i, v)) /\ InsertWithCost(t, i, v).array = a
    <3>1. Erased([t EXCEPT !.array = a], InsertWithCost(t, i, v), {i})
          /\ [t EXCEPT !.array = a].array = a
      BY <2>1, <1>3, InsertCases
    <3> QED BY <3>1 DEF Erased
  <2> QED BY <2>2, <2>3, <1>1
<1> QED BY <1>1, <1>2, <1>3

\* RemoveWithCost leaves the hash part alone and does not lengthen the array.
LEMMA RemoveGood ==
  ASSUME NEW t, Good(t), NEW pos \in 0 .. MaxInt + 1
  PROVE  /\ Good(RemoveWithCost(t, pos))
         /\ Len(RemoveWithCost(t, pos).array) <= Len(t.array)
         /\ SameHash(t, RemoveWithCost(t, pos))
<1>1. MaxInt \in Nat /\ Len(t.array) \in Nat /\ t.array \in Seq(Value \cup {nil})
  BY TableAssumption, TableFields DEF Good
<1>2. CASE pos > Len(t.array) \/ t.array = << >>
  <2>1. RemoveWithCost(t, pos) = t
    BY <1>2 DEF RemoveWithCost
  <2> QED BY <2>1, <1>1 DEF SameHash
<1>3. CASE ~(pos > Len(t.array) \/ t.array = << >>)
  <2>1. PICK i : i = IF pos = 0 THEN Len(t.array) ELSE pos
    OBVIOUS
  <2>2. PICK a : a = RemoveAt(t.array, i)
    OBVIOUS
  <2>3. RemoveWithCost(t, pos) = [t EXCEPT !.array = a]
    BY <1>3, <2>1, <2>2 DEF RemoveWithCost
  <2>4. Len(t.array) # 0
    BY <1>1, <1>3, EmptySeq
  <2>5. i \in 1 .. Len(t.array)
    BY <1>1, <1>3, <2>1, <2>4
  <2>6. a \in Seq(Value \cup {nil})
    BY <1>1, <2>2, <2>5 DEF RemoveAt
  <2>7. Len(a) <= Len(t.array)
    <3> DEFINE x == SubSeq(t.array, 1, i - 1)
               y == SubSeq(t.array, i + 1, Len(t.array))
    <3>1. x \in Seq(Value \cup {nil}) /\ Len(x) = i - 1
      BY <1>1, <2>5
    <3>2. y \in Seq(Value \cup {nil}) /\ Len(y) = Len(t.array) - i
      BY <1>1, <2>5
    <3>3. a = x \o y
      BY <2>2 DEF RemoveAt
    <3> HIDE DEF x, y
    <3> QED BY <3>1, <3>2, <3>3, <2>5, <1>1
  <2> QED BY <2>3, <2>6, <2>7, WithArray
<1> QED BY <1>2, <1>3
-----------------------------------------------------------------------------
(* Traversal: the key after a cursor, and the table after it was returned. *)

\* compactNextIterationState rebuilds the index from the keys that have a value.
LEMMA CompactGood ==
  ASSUME NEW t, Good(t)
  PROVE  /\ Good(compactNextIterationState(t))
         /\ compactNextIterationState(t).array = t.array
         /\ compactNextIterationState(t).hash = t.hash
<1>1. t \in Table
  BY DEF Good
<1>2. CASE t.nextIterated = {}
  BY <1>2 DEF compactNextIterationState
<1>3. CASE t.nextIterated # {}
  <2> DEFINE gone == {k \in DOMAIN t.k2i : t.hash[k] = nil}
             ks == Without(t.keys, gone)
             ix == Reindexed(t.k2i, gone)
             jx == [k \in ToSet(ks) |-> CHOOSE i \in DOMAIN ks : ks[i] = k]
             u == [t EXCEPT !.keys = ks, !.nextIterated = {}, !.k2i = jx]
  <2>1. compactNextIterationState(t) = u
    BY <1>3 DEF compactNextIterationState
  <2>2. ks \in Seq(Key) /\ ix \in Places /\ Indexes(ks, ix)
    <3>1. PICK x : x = ix
      OBVIOUS
    <3>2. gone \in SUBSET DOMAIN t.k2i /\ Indexes(t.keys, t.k2i)
      BY DEF Good, Indexed
    <3> HIDE DEF gone
    <3> QED BY <1>1, <3>1, <3>2, TableFields, Reindexing
  <2>3. DOMAIN ix = DOMAIN t.k2i \ gone
    BY DEF Reindexed
  <2> HIDE DEF ix, ks
  <2>4. ToSet(ks) = DOMAIN ix
    <3>1. \A k \in DOMAIN ix : \E i \in DOMAIN ks : k = ks[i]
      BY <2>2 DEF Indexes
    <3>2. \A i \in DOMAIN ks : ks[i] \in DOMAIN ix
      BY <2>2 DEF Indexes
    <3> QED BY <3>1, <3>2 DEF ToSet
  <2>5. jx = ix
    <3>1. ix = [k \in DOMAIN ix |-> ix[k]]
      BY <2>2, PlacesDef
    <3>2. ASSUME NEW k \in DOMAIN ix PROVE jx[k] = ix[k]
      <4>1. ix[k] \in DOMAIN ks /\ ks[ix[k]] = k
        BY <2>2 DEF Indexes
      <4>2. \A i \in DOMAIN ks : ks[i] = k => i = ix[k]
        BY <2>2 DEF Indexes
      <4>3. (CHOOSE i \in DOMAIN ks : ks[i] = k) = ix[k]
        BY <4>1, <4>2
      <4> QED BY <4>3, <2>4
    <3> QED BY <3>1, <3>2, <2>4
  <2> HIDE DEF jx
  <2>6. u \in Table /\ u.keys = ks /\ u.k2i = ix /\ u.nextIterated = {}
        /\ u.array = t.array /\ u.hash = t.hash
    BY <1>1, <2>2, <2>5 DEF Table
  <2> HIDE DEF u
  <2>7. Indexed(u)
    <3>1. \A k \in Key : u.hash[k] # nil => k \in DOMAIN u.k2i
      BY <2>3, <2>6 DEF Good, Indexed
    <3>2. \A k \in DOMAIN u.k2i : u.hash[k] # nil
      BY <2>3, <2>6
    <3> QED BY <3>1, <3>2, <2>2, <2>6 DEF Indexed
  <2> QED BY <2>1, <2>6, <2>7 DEF Good
<1> QED BY <1>2, <1>3

\* The loop of Next over keys: the first live key from place p on, if there is one.
LEMMA HashFromIs ==
  ASSUME NEW t, Good(t), NEW p \in Nat, p >= 1
  PROVE  \/ /\ HashFrom(t, p) = nil
            /\ \A k \in Key : t.hash[k] # nil => t.k2i[k] < p
         \/ /\ HashFrom(t, p) \in DOMAIN t.k2i
            /\ t.hash[HashFrom(t, p)] # nil
            /\ p <= t.k2i[HashFrom(t, p)]
            /\ \A k \in Key : t.hash[k] # nil =>
                 t.k2i[k] < p \/ t.k2i[HashFrom(t, p)] <= t.k2i[k]
<1> DEFINE S == {i \in p .. Len(t.keys) : t.hash[t.keys[i]] # nil}
<1>1. /\ t.keys \in Seq(Key) /\ Len(t.keys) \in Nat /\ DOMAIN t.keys = 1 .. Len(t.keys)
      /\ t.k2i \in [DOMAIN t.k2i -> Nat] /\ Indexes(t.keys, t.k2i)
  BY TableFields DEF Good, Indexed
<1>2. ASSUME NEW k \in Key, t.hash[k] # nil
      PROVE  /\ k \in DOMAIN t.k2i /\ t.k2i[k] \in Nat
             /\ t.k2i[k] < p \/ t.k2i[k] \in S
  <2>1. k \in DOMAIN t.k2i
    BY <1>2 DEF Good, Indexed
  <2>2. t.k2i[k] \in 1 .. Len(t.keys) /\ t.keys[t.k2i[k]] = k
    BY <2>1, <1>1 DEF Indexes
  <2> QED BY <1>1, <1>2, <2>1, <2>2
<1>3. CASE S = {}
  BY <1>2, <1>3 DEF HashFrom
<1>4. CASE S # {}
  <2>1. S \in SUBSET Nat
    OBVIOUS
  <2>2. \E i \in S : \A j \in S : i <= j
    <3> HIDE DEF S
    <3> QED BY <1>4, <2>1, MinNat
  <2>3. PICK i : i = CHOOSE x \in S : \A j \in S : x <= j
    OBVIOUS
  <2>4. i \in S /\ \A j \in S : i <= j
    <3> HIDE DEF S
    <3> QED BY <2>2, <2>3
  <2>5. HashFrom(t, p) = t.keys[i]
    BY <1>4, <2>3 DEF HashFrom
  <2>6. i \in DOMAIN t.keys /\ i >= p
    BY <1>1, <2>4
  <2>7. t.keys[i] \in DOMAIN t.k2i /\ t.k2i[t.keys[i]] = i /\ t.hash[t.keys[i]] # nil
    BY <1>1, <2>4, <2>6 DEF Indexes
  <2> HIDE DEF S
  <2> QED BY <1>2, <2>4, <2>5, <2>6, <2>7
<1> QED BY <1>3, <1>4

\* The cursor is a key of the hash part.
HashCursor(t, c) == c # nil /\ ~InArray(t, c)

\* The key that follows cursor c.
FollowsInArray(t, c, n) ==
  /\ n \in ArrayAfter(t, c)
  /\ \A x \in ArrayAfter(t, c) : n <= x

FollowsInHash(t, c, n) ==
  /\ ArrayAfter(t, c) = {}
  /\ n \in DOMAIN t.k2i
  /\ t.hash[n] # nil
  /\ HashCursor(t, c) => t.k2i[c] < t.k2i[n]
  /\ \A k \in Key : t.hash[k] # nil =>
       (HashCursor(t, c) /\ t.k2i[k] <= t.k2i[c]) \/ t.k2i[n] <= t.k2i[k]

\* No live key comes after the cursor.
NoneFollows(t, c) ==
  /\ ArrayAfter(t, c) = {}
  /\ \A k \in Key : t.hash[k] # nil => HashCursor(t, c) /\ t.k2i[k] <= t.k2i[c]

\* The array slots after a cursor are slots of the array.
LEMMA ArrayAfterNat ==
  ASSUME NEW t, Good(t), NEW c \in Key \cup {nil}
  PROVE  ArrayAfter(t, c) \subseteq 1 .. Len(t.array)
<1>1. Len(t.array) \in Nat
  BY TableFields DEF Good
<1>2. PICK i : i = IF c = nil THEN 0 ELSE IF InArray(t, c) THEN c ELSE Len(t.array)
  OBVIOUS
<1>3. i \in Nat
  BY <1>1, <1>2, TableAssumption DEF InArray, IntKey
<1>4. ArrayAfter(t, c) = {j \in i + 1 .. Len(t.array) : t.array[j] # nil}
  BY <1>2 DEF ArrayAfter
<1> QED BY <1>1, <1>3, <1>4

\* Next returns the first live key after a valid cursor: in the array part, else in the
\* hash part, else nil.
LEMMA NextKeyIs ==
  ASSUME NEW t, Good(t), NEW c \in Key \cup {nil}, isValidNextKey(t, c), NEW n, n = NextKey(t, c)
  PROVE  \/ FollowsInArray(t, c, n)
         \/ FollowsInHash(t, c, n)
         \/ n = nil /\ NoneFollows(t, c)
<1>1. CASE ArrayAfter(t, c) # {}
  <2>1. ArrayAfter(t, c) \in SUBSET Nat
    <3>1. Len(t.array) \in Nat
      BY TableFields DEF Good
    <3> QED BY <3>1, ArrayAfterNat
  <2>2. \E i \in ArrayAfter(t, c) : \A j \in ArrayAfter(t, c) : i <= j
    BY <1>1, <2>1, MinNat
  <2> QED BY <1>1, <2>2 DEF NextKey, FollowsInArray
<1>2. CASE ArrayAfter(t, c) = {}
  <2>1. PICK p : p = IF c = nil \/ InArray(t, c) THEN 1 ELSE t.k2i[c] + 1
    OBVIOUS
  <2>2. n = HashFrom(t, p)
    BY <1>2, <2>1 DEF NextKey
  <2>3. HashCursor(t, c) => c \in DOMAIN t.k2i /\ t.k2i[c] \in Nat /\ p = t.k2i[c] + 1
    BY <2>1, TableFields DEF HashCursor, isValidNextKey, Good
  <2>4. ~HashCursor(t, c) => p = 1
    BY <2>1 DEF HashCursor
  <2>5. p \in Nat /\ p >= 1
    BY <2>3, <2>4
  <2>6. \A k \in DOMAIN t.k2i : t.k2i[k] \in Nat /\ t.k2i[k] >= 1
    <3>1. DOMAIN t.keys = 1 .. Len(t.keys)
      BY TableFields DEF Good
    <3> QED BY <3>1 DEF Good, Indexed, Indexes
  <2>7. \A k \in Key : t.hash[k] # nil => k \in DOMAIN t.k2i
    BY DEF Good, Indexed
  <2>8. CASE /\ HashFrom(t, p) = nil
             /\ \A k \in Key : t.hash[k] # nil => t.k2i[k] < p
    BY <1>2, <2>2, <2>3, <2>4, <2>5, <2>6, <2>7, <2>8 DEF NoneFollows
  <2>9. CASE /\ HashFrom(t, p) \in DOMAIN t.k2i
             /\ t.hash[HashFrom(t, p)] # nil
             /\ p <= t.k2i[HashFrom(t, p)]
             /\ \A k \in Key : t.hash[k] # nil =>
                  t.k2i[k] < p \/ t.k2i[HashFrom(t, p)] <= t.k2i[k]
    BY <1>2, <2>2, <2>3, <2>4, <2>5, <2>6, <2>7, <2>9 DEF FollowsInHash
  <2> QED BY <2>5, <2>8, <2>9, HashFromIs
<1> QED BY <1>1, <1>2

\* Next returns a key or nil, and keeps the parts of the table.
LEMMA AfterNextGood ==
  ASSUME NEW t, Good(t), Len(t.array) <= MaxInt, NEW c \in Key \cup {nil}, isValidNextKey(t, c)
  PROVE  /\ Good(AfterNext(t, c))
         /\ AfterNext(t, c).array = t.array
         /\ AfterNext(t, c).hash = t.hash
         /\ NextKey(t, c) \in Key \cup {nil}
<1>1. t \in Table /\ Len(t.array) \in Nat /\ DOMAIN t.k2i \subseteq Key
  BY TableFields DEF Good
<1>2. PICK n : n = NextKey(t, c)
  OBVIOUS
<1>3. n \in ArrayAfter(t, c) => n \in Key
  <2>1. ArrayAfter(t, c) \subseteq 1 .. Len(t.array)
    BY ArrayAfterNat
  <2> QED BY <1>1, <2>1, TableAssumption DEF Key, IntKey
<1>4. n \in Key \cup {nil} /\ (n # nil /\ ArrayAfter(t, c) = {} => n \in DOMAIN t.k2i)
  BY <1>1, <1>2, <1>3, NextKeyIs DEF FollowsInArray, FollowsInHash, NoneFollows
<1>5. CASE n = nil
  BY <1>2, <1>5, CompactGood DEF AfterNext
<1>6. CASE n # nil /\ ArrayAfter(t, c) # {}
  BY <1>2, <1>4, <1>6 DEF AfterNext
<1>7. CASE n # nil /\ ArrayAfter(t, c) = {}
  <2> DEFINE u == [t EXCEPT !.nextIterated = t.nextIterated \cup {n}]
  <2>1. AfterNext(t, c) = u
    BY <1>2, <1>7 DEF AfterNext
  <2>2. u \in Table /\ u.nextIterated = t.nextIterated \cup {n} /\ u.array = t.array
        /\ u.hash = t.hash /\ u.keys = t.keys /\ u.k2i = t.k2i
    BY <1>1, <1>4, <1>7 DEF Table
  <2> HIDE DEF u
  <2>3. Indexed(u)
    BY <2>2, <1>4, <1>7 DEF Good, Indexed
  <2> QED BY <2>1, <2>2, <2>3, <1>2, <1>4 DEF Good
<1> QED BY <1>4, <1>5, <1>6, <1>7
-----------------------------------------------------------------------------
(* The invariant.                                                          *)

\* An empty table is well indexed.
LEMMA InitInv == Init => Inv
<1> SUFFICES ASSUME Init PROVE Inv
  OBVIOUS
<1> DEFINE h == [k \in Key |-> nil]
<1>1. tb = [array |-> << >>, hash |-> h, keys |-> << >>, k2i |-> << >>, nextIterated |-> {}]
  BY DEF Init
<1>2. << >> \in Places
  <2>1. DOMAIN << >> = {}
    OBVIOUS
  <2>2. << >> \in [{} -> Nat]
    OBVIOUS
  <2> QED BY <2>1, <2>2, PlacesDef
<1>3. << >> \in Seq(Value \cup {nil}) /\ << >> \in Seq(Key) /\ h \in [Key -> Value \cup {nil}]
  OBVIOUS
<1>4. tb \in Table
  <2> HIDE DEF h
  <2> QED BY <1>1, <1>2, <1>3 DEF Table
<1>5. Indexed(tb)
  <2>1. tb.keys = << >> /\ tb.k2i = << >> /\ tb.hash = h /\ tb.nextIterated = {}
    BY <1>1
  <2>2. DOMAIN << >> = {}
    OBVIOUS
  <2>3. Indexes(tb.keys, tb.k2i)
    BY <2>1, <2>2 DEF Indexes
  <2>4. \A k \in Key : tb.hash[k] = nil
    BY <2>1
  <2> QED BY <2>1, <2>2, <2>3, <2>4 DEF Indexed
<1>6. Len(tb.array) <= MaxInt
  <2>1. Len(tb.array) = 0
    BY <1>1
  <2> QED BY <2>1, TableAssumption
<1>7. loop \in [Traversal -> LoopState]
  BY DEF Init, Idle, LoopState
<1> QED BY <1>4, <1>5, <1>6, <1>7 DEF Inv, Good

\* Forgetting the traversals keeps their types.
LEMMA AbandonTypes ==
  ASSUME Abandon
  PROVE  loop' \in [Traversal -> LoopState]
<1>1. Idle \in LoopState
  BY DEF Idle, LoopState
<1> QED BY <1>1 DEF Abandon

\* An assignment during a traversal keeps the types of the traversals.
LEMMA AllowedTypes ==
  ASSUME loop \in [Traversal -> LoopState], NEW t, Allowed(t)
  PROVE  loop' \in [Traversal -> LoopState]
<1>1. ASSUME NEW l \in Traversal
      PROVE  [loop[l] EXCEPT !.owed = @ \cap LiveKeys(t)] \in LoopState
  <2>1. loop[l] \in LoopState
    OBVIOUS
  <2>2. PICK r : r = loop[l]
    OBVIOUS
  <2>3. PICK L : L = LiveKeys(t)
    OBVIOUS
  <2>4. [r EXCEPT !.owed = @ \cap L] \in LoopState
    BY <2>1, <2>2 DEF LoopState
  <2> QED BY <2>2, <2>3, <2>4
<1> QED BY <1>1 DEF Allowed

\* A round of the loop with a valid cursor, without the case distinction.
LEMMA Rounds ==
  ASSUME NEW l \in Traversal, Next1(l), isValidNextKey(tb, loop[l].cur)
  PROVE  /\ tb' = AfterNext(tb, loop[l].cur)
         /\ loop' = [loop EXCEPT ![l] = Returned(loop[l], NextKey(tb, loop[l].cur))]
<1>1. tb' = AfterNext(tb, loop[l].cur)
  BY DEF Next1
<1>2. loop' = [loop EXCEPT ![l] = Returned(loop[l], NextKey(tb, loop[l].cur))]
  BY DEF Next1
<1> QED BY <1>1, <1>2

\* A round keeps the type of its traversal.
LEMMA ReturnedTypes ==
  ASSUME NEW r \in LoopState, NEW n \in Key \cup {nil}
  PROVE  Returned(r, n) \in LoopState
<1>1. CASE n = nil
  BY <1>1 DEF LoopState, Returned
<1>2. CASE n # nil
  <2>1. r.seen \cup {n} \in SUBSET Key
    BY <1>2 DEF LoopState
  <2>2. (r.dup \/ n \in r.seen) \in BOOLEAN
    OBVIOUS
  <2>3. PICK d \in BOOLEAN : d = (r.dup \/ n \in r.seen)
    BY <2>2
  <2>4. Returned(r, n) = [r EXCEPT !.cur = n, !.seen = r.seen \cup {n}, !.dup = d]
    BY <1>2, <2>3 DEF Returned
  <2> QED BY <1>2, <2>1, <2>4 DEF LoopState
<1> QED BY <1>1, <1>2

\* next, with the end of a traversal that compacts the list, keeps the invariant.
LEMMA RoundInv ==
  ASSUME Inv, NEW l \in Traversal, Next1(l)
  PROVE  Inv'
<1>1. loop[l] \in LoopState /\ loop \in [Traversal -> LoopState]
  BY DEF Inv
<1>2. loop[l].cur \in Key \cup {nil}
  BY <1>1 DEF LoopState
<1>3. CASE ~isValidNextKey(tb, loop[l].cur)
  <2>1. tb' = tb /\ loop' = [loop EXCEPT ![l] = [loop[l] EXCEPT !.st = "invalid"]]
    BY <1>3 DEF Next1
  <2>2. [loop[l] EXCEPT !.st = "invalid"] \in LoopState
    BY <1>1 DEF LoopState
  <2>3. loop' \in [Traversal -> LoopState]
    BY <1>1, <2>1, <2>2
  <2> QED BY <2>1, <2>3 DEF Inv, Good
<1>4. CASE isValidNextKey(tb, loop[l].cur)
  <2>1. PICK n : n = NextKey(tb, loop[l].cur)
    OBVIOUS
  <2>2. tb' = AfterNext(tb, loop[l].cur) /\ loop' = [loop EXCEPT ![l] = Returned(loop[l], n)]
    BY <1>4, <2>1, Rounds
  <2>3. Good(tb') /\ tb'.array = tb.array /\ n \in Key \cup {nil}
    BY <1>2, <1>4, <2>1, <2>2, AfterNextGood DEF Inv
  <2>4. loop' \in [Traversal -> LoopState]
    BY <1>1, <2>2, <2>3, ReturnedTypes
  <2> QED BY <2>3, <2>4 DEF Inv, Good
<1> QED BY <1>3, <1>4

\* Every step keeps the invariant.
LEMMA NextInv ==
  ASSUME Inv, [Next]_vars
  PROVE  Inv'
<1>1. Good(tb) /\ Len(tb.array) <= MaxInt /\ loop \in [Traversal -> LoopState]
  BY DEF Inv
<1>2. MaxInt \in Nat /\ MaxInt # 0 /\ Len(tb.array) \in Nat /\ nil \notin Value
  BY <1>1, TableAssumption, TableFields DEF Good
<1>3. ASSUME NEW k \in Key, NEW v \in Value \cup {nil}, Assign(k, v) PROVE Inv'
  <2>1. Good(tb') /\ Len(tb'.array) <= MaxInt
    BY <1>1, <1>3, RawSetGood DEF Assign
  <2>2. Abandon \/ Allowed(tb')
    BY <1>3 DEF Assign
  <2>3. loop' \in [Traversal -> LoopState]
    <3>1. PICK t : t = tb'
      OBVIOUS
    <3>2. Abandon \/ Allowed(t)
      BY <2>2, <3>1 DEF Allowed
    <3> QED BY <1>1, <3>2, AbandonTypes, AllowedTypes
  <2> QED BY <2>1, <2>3 DEF Inv, Good
<1>4. ASSUME NEW k \in Key, NEW v \in Value, AddKey(k, v) PROVE Inv'
  <2>1. Good(tb') /\ Len(tb'.array) <= MaxInt
    BY <1>1, <1>4, RawSetGood DEF AddKey
  <2> QED BY <1>4, <2>1, AbandonTypes DEF Inv, Good, AddKey
<1>5. ASSUME NEW v \in Value, tableAppend(v) PROVE Inv'
  <2>1. Good(tb') /\ Len(tb'.array) <= MaxInt
    BY <1>1, <1>5, AppendGood DEF tableAppend
  <2> QED BY <1>5, <2>1, AbandonTypes DEF Inv, Good, tableAppend
<1>6. ASSUME NEW pos \in 1 .. MaxInt, NEW v \in Value, tableInsert(pos, v) PROVE Inv'
  <2>1. Good(tb') /\ Len(tb'.array) <= MaxInt
    BY <1>1, <1>6, InsertGood DEF tableInsert
  <2> QED BY <1>6, <2>1, AbandonTypes DEF Inv, Good, tableInsert
<1>7. ASSUME NEW pos \in 0 .. MaxInt + 1, tb' = RemoveWithCost(tb, pos), Abandon PROVE Inv'
  <2>1. Good(tb') /\ Len(tb'.array) <= Len(tb.array)
    BY <1>1, <1>7, RemoveGood
  <2>2. Len(tb'.array) \in Nat
    BY <2>1, TableFields DEF Good
  <2>3. Len(tb'.array) <= MaxInt
    BY <1>1, <1>2, <2>1, <2>2
  <2> QED BY <1>7, <2>1, <2>3, AbandonTypes DEF Inv, Good
<1>8. ASSUME NEW l \in Traversal, StartLoop(l) PROVE Inv'
  <2> DEFINE r == [Idle EXCEPT !.st = "running", !.owed = LiveKeys(tb)]
  <2>1. LiveKeys(tb) \subseteq Key
    BY DEF LiveKeys
  <2>2. r \in LoopState
    BY <2>1 DEF Idle, LoopState
  <2>3. tb' = tb /\ loop' = [loop EXCEPT ![l] = r]
    BY <1>8 DEF StartLoop
  <2> HIDE DEF r
  <2>4. loop' \in [Traversal -> LoopState]
    BY <1>1, <2>2, <2>3
  <2> QED BY <2>3, <2>4 DEF Inv, Good
<1>9. CASE UNCHANGED vars
  BY <1>9 DEF vars, Inv, Good
<1>10. ASSUME NEW k \in Key, NEW v \in Value \cup {nil}, v # nil, AddKey(k, v) PROVE Inv'
  BY <1>4, <1>10
<1>11. ASSUME NEW pos \in 0 .. MaxInt + 1, tableRemove(pos) PROVE Inv'
  BY <1>7, <1>11 DEF tableRemove
<1>12. CASE tableRemoveDefault
  <2>1. 0 \in 0 .. MaxInt + 1
    BY <1>2
  <2> QED BY <1>7, <1>12, <2>1 DEF tableRemoveDefault
<1> QED BY <1>3, <1>5, <1>6, <1>8, <1>9, <1>10, <1>11, <1>12, RoundInv DEF Next

\* The inductive invariant: whatever keys, values and sizes, the index is right and the
\* array part within the bound.
THEOREM InvHolds == Spec => []Inv
<1>1. Init => Inv
  BY InitInv
<1>2. Inv /\ [Next]_vars => Inv'
  BY NextInv
<1> QED BY <1>1, <1>2, PTL DEF Spec

\* RawSetH, removeHashKeyMetadata, compactNextIterationState: whatever is assigned,
\* erased, moved to the array or traversed, in whatever order, k2i stays the inverse
\* of keys, every hash entry is in both, and a key that lost its entry is in them
\* only while a traversal needs it.
THEOREM KeysStayIndexed == Spec => []KeysIndexed
<1>1. Inv => KeysIndexed
  BY DEF Inv, Good, Indexed, Indexes, KeysIndexed
<1> QED BY <1>1, InvHolds, PTL

\* The variables keep their types (struct LTable).
THEOREM TypesHold == Spec => []TypeOK
<1>1. ASSUME Inv PROVE TypeOK
  <2>1. tb \in Table
    BY <1>1 DEF Inv, Good
  <2>2. \A l \in Traversal : loop[l] \in LoopState
    BY <1>1 DEF Inv
  <2>3. \A l \in Traversal : /\ loop[l].cur \in Key \cup {nil}
                             /\ loop[l].st \in {"idle", "running", "done", "invalid"}
    BY <2>2 DEF LoopState
  <2> QED BY <2>1, <2>3, TableFields DEF TypeOK
<1> QED BY <1>1, InvHolds, PTL
-----------------------------------------------------------------------------
(* An assignment changes one key.                                          *)

\* The value of a key, by the part that holds it.
LEMMA RawGetIs ==
  ASSUME NEW t, Good(t), NEW x \in Key
  PROVE  /\ InArray(t, x) => /\ x \in 1 .. Len(t.array)
                             /\ RawGet(t, x) = IF t.array[x] # nil THEN t.array[x] ELSE t.hash[x]
         /\ ~InArray(t, x) => RawGet(t, x) = t.hash[x]
<1>1. Len(t.array) \in Nat /\ DOMAIN t.array = 1 .. Len(t.array)
  BY TableFields DEF Good
<1>2. CASE InArray(t, x)
  <2>1. x \in DOMAIN t.array /\ x \in IntKey /\ x < MaxArrayIndex
    BY <1>1, <1>2, TableAssumption DEF InArray, IntKey
  <2>2. Elem(t, x) = t.array[x]
    BY <2>1 DEF Elem
  <2> QED BY <1>1, <1>2, <2>1, <2>2 DEF RawGet
<1>3. CASE ~InArray(t, x)
  <2>1. x \in IntKey /\ x < MaxArrayIndex => Elem(t, x) = nil
    BY <1>1, <1>3 DEF InArray, Elem, IntKey
  <2> QED BY <1>3, <2>1 DEF RawGet
<1> QED BY <1>2, <1>3

\* Growing the array part changes no value: the entries move.
LEMMA GrownGet ==
  ASSUME NEW t, Good(t), NEW n \in IntKey, Len(t.array) < n, n < MaxArrayIndex, NEW g,
         Grown(t, g, n), NEW x \in Key
  PROVE  RawGet(g, x) = RawGet(t, x)
<1> DEFINE m == Len(t.array)
<1>1. m \in Nat /\ n \in Nat /\ MaxArrayIndex \in Nat /\ n <= MaxInt /\ MaxInt \in Nat
  BY TableFields, TableAssumption DEF Good, IntKey
<1>2. Good(g) /\ Len(g.array) = n
  BY DEF Grown
<1>3. g.hash[x] = IF x \in m + 1 .. n THEN nil ELSE t.hash[x]
  BY DEF Grown
<1>4. CASE x \in 1 .. m
  <2>1. x \in IntKey /\ x < MaxArrayIndex
    BY <1>1, <1>4 DEF IntKey
  <2>2. InArray(t, x) /\ InArray(g, x)
    BY <1>1, <1>2, <1>4, <2>1 DEF InArray
  <2>3. g.array[x] = t.array[x] /\ g.hash[x] = t.hash[x]
    BY <1>1, <1>3, <1>4 DEF Grown
  <2> QED BY <1>2, <2>2, <2>3, RawGetIs
<1>5. CASE x \in m + 1 .. n
  <2>1. x \in IntKey /\ x < MaxArrayIndex
    BY <1>1, <1>5 DEF IntKey
  <2>2. ~InArray(t, x) /\ InArray(g, x)
    BY <1>1, <1>2, <1>5, <2>1 DEF InArray
  <2>3. g.array[x] = t.hash[x] /\ g.hash[x] = nil
    BY <1>1, <1>3, <1>5 DEF Grown
  <2> QED BY <1>2, <2>2, <2>3, RawGetIs
<1>6. CASE x \notin 1 .. m /\ x \notin m + 1 .. n
  <2>1. ~InArray(t, x) /\ ~InArray(g, x)
    BY <1>1, <1>2, <1>6 DEF InArray, IntKey
  <2> QED BY <1>2, <1>3, <1>6, <2>1, RawGetIs
<1> QED BY <1>4, <1>5, <1>6

\* u is t with value v for k and the same for every other key.
Changed(t, u, k, v) == \A x \in Key : RawGet(u, x) = IF x = k THEN v ELSE RawGet(t, x)

\* Reading after an assignment to a slot of the array part.
LEMMA StoredGet ==
  ASSUME NEW t, Good(t), NEW i \in 1 .. Len(t.array), InArray(t, i),
         NEW v \in Value \cup {nil}, NEW u, Stored(t, u, i, v)
  PROVE  Changed(t, u, i, v)
<1> SUFFICES ASSUME NEW x \in Key PROVE RawGet(u, x) = IF x = i THEN v ELSE RawGet(t, x)
  BY DEF Changed
<1>1. Good(u) /\ u.array = [t.array EXCEPT ![i] = v] /\ Len(u.array) = Len(t.array)
      /\ u.hash = [k \in Key |-> IF k = i THEN nil ELSE t.hash[k]]
  <2>1. StoredIs(t, u, i, v)
    BY StoredArray
  <2> QED BY <2>1 DEF StoredIs
<1>2. InArray(u, x) <=> InArray(t, x)
  BY <1>1 DEF InArray
<1>3. CASE x = i
  <2>1. InArray(u, x) /\ u.array[x] = v /\ u.hash[x] = nil
    <3>1. DOMAIN t.array = 1 .. Len(t.array)
      BY TableFields DEF Good
    <3> QED BY <1>1, <1>2, <1>3, <3>1
  <2> QED BY <1>1, <1>3, <2>1, RawGetIs
<1>4. CASE x # i
  <2>1. u.hash[x] = t.hash[x] /\ u.array[x] = t.array[x]
    BY <1>1, <1>4
  <2> QED BY <1>1, <1>2, <1>4, <2>1, RawGetIs
<1> QED BY <1>3, <1>4

\* Reading after RawSet: the key has the value, every other key what it had.
LEMMA RawSetGet ==
  ASSUME NEW t, Good(t), NEW k \in Key, NEW v \in Value \cup {nil}, NEW u, u = RawSet(t, k, v)
  PROVE  Changed(t, u, k, v)
<1>1. CASE v = nil /\ ~InArray(t, k) /\ Erased(t, u, {k})
  <2> SUFFICES ASSUME NEW x \in Key PROVE RawGet(u, x) = IF x = k THEN v ELSE RawGet(t, x)
    BY DEF Changed
  <2>1. Good(u) /\ u.array = t.array /\ u.hash[x] = IF x = k THEN nil ELSE t.hash[x]
    BY <1>1 DEF Erased
  <2>2. InArray(u, x) <=> InArray(t, x)
    BY <2>1 DEF InArray
  <2> QED BY <1>1, <2>1, <2>2, RawGetIs
<1>2. CASE v # nil /\ ~InArray(t, k) /\ u = SetH(t, k, v)
  <2> SUFFICES ASSUME NEW x \in Key PROVE RawGet(u, x) = IF x = k THEN v ELSE RawGet(t, x)
    BY DEF Changed
  <2>1. Good(u) /\ u.array = t.array /\ u.hash = [t.hash EXCEPT ![k] = v]
    BY <1>2, SetHSets
  <2>2. u.hash[x] = IF x = k THEN v ELSE t.hash[x]
    BY <2>1, TableFields DEF Good
  <2>3. InArray(u, x) <=> InArray(t, x)
    BY <2>1 DEF InArray
  <2>4. CASE InArray(t, x)
    <3>1. x # k
      BY <1>2, <2>4
    <3>2. Good(u) /\ u.array = t.array /\ u.hash[x] = t.hash[x]
      BY <2>1, <2>2, <3>1
    <3> QED BY <2>3, <2>4, <3>1, <3>2, RawGetIs
  <2>5. CASE ~InArray(t, x)
    BY <2>1, <2>2, <2>3, <2>5, RawGetIs
  <2> QED BY <2>4, <2>5
<1>3. CASE InArray(t, k) /\ k \in 1 .. Len(t.array) /\ Stored(t, u, k, v)
  BY <1>3, StoredGet
<1>4. ASSUME k \in IntKey, shouldStoreArrayIndex(t, k), Len(t.array) < k,
             NEW g, Grown(t, g, k), Stored(g, u, k, v)
      PROVE  Changed(t, u, k, v)
  <2>1. k < MaxArrayIndex /\ k \in Nat /\ k >= 1
    BY <1>4, TableAssumption DEF shouldStoreArrayIndex, IntKey
  <2>2. Good(g) /\ Len(g.array) = k /\ k \in 1 .. Len(g.array)
    BY <1>4, <2>1 DEF Grown
  <2>3. InArray(g, k)
    BY <1>4, <2>1, <2>2 DEF InArray
  <2>4. Changed(g, u, k, v)
    BY <1>4, <2>2, <2>3, StoredGet
  <2>5. \A x \in Key : RawGet(g, x) = RawGet(t, x)
    BY <1>4, <2>1, GrownGet
  <2> QED BY <2>4, <2>5 DEF Changed
<1> QED BY <1>1, <1>2, <1>3, <1>4, RawSetCases

\* RawSet: an assignment gives the key its value and no other key another one, also
\* when the key is erased from one part, or the array grows over keys of the hash.
THEOREM AssignmentIsLocal == Spec => RawSetChangesOneKey
<1> DEFINE One == \A k \in Key, v \in Value \cup {nil} :
                    Assign(k, v) \/ AddKey(k, v) =>
                      \A x \in Key : RawGet(tb', x) = IF x = k THEN v ELSE RawGet(tb, x)
<1>1. Inv /\ [Next]_vars => One
  <2> SUFFICES ASSUME Inv, NEW k \in Key, NEW v \in Value \cup {nil},
                      Assign(k, v) \/ AddKey(k, v), NEW x \in Key
               PROVE  RawGet(tb', x) = IF x = k THEN v ELSE RawGet(tb, x)
    OBVIOUS
  <2>1. tb' = RawSet(tb, k, v)
    BY DEF Assign, AddKey
  <2>2. PICK u : u = tb'
    OBVIOUS
  <2>3. Changed(tb, u, k, v)
    BY <2>1, <2>2, RawSetGet DEF Inv
  <2> QED BY <2>2, <2>3 DEF Changed
<1>2. Spec => [][One]_vars
  <2> HIDE DEF One
  <2> QED BY <1>1, InvHolds, PTL DEF Spec
<1> QED BY <1>2 DEF RawSetChangesOneKey
-----------------------------------------------------------------------------
(* Below the limit of the array part.  table.insert does not look at       *)
(* MaxArrayIndex when it shifts the array part, so what follows is for     *)
(* tables whose integer keys stay below it.                                *)

\* The integer keys are below the limit of the array part.
Below == MaxInt < MaxArrayIndex

\* Below the limit the slots of the array part are the integer keys up to its length.
LEMMA ArrayKeys ==
  ASSUME Below, NEW t, Good(t), Len(t.array) <= MaxInt
  PROVE  /\ Len(t.array) \in Nat /\ MaxInt \in Nat
         /\ 1 .. Len(t.array) \subseteq IntKey
         /\ \A k \in Key : InArray(t, k) <=> k \in 1 .. Len(t.array)
         /\ TwoHomes(t) <=> \E k \in 1 .. Len(t.array) : t.hash[k] # nil
<1>1. Len(t.array) \in Nat /\ MaxInt \in Nat /\ MaxArrayIndex \in Nat
  BY TableFields, TableAssumption DEF Good
<1>2. 1 .. Len(t.array) \subseteq IntKey
  BY <1>1 DEF IntKey
<1>3. ASSUME NEW k \in Key PROVE InArray(t, k) <=> k \in 1 .. Len(t.array)
  <2>1. CASE k \in IntKey
    BY <1>1, <2>1 DEF Below, InArray, IntKey
  <2>2. CASE k \notin IntKey
    BY <1>2, <2>2 DEF InArray
  <2> QED BY <2>1, <2>2
<1>4. TwoHomes(t) <=> \E k \in 1 .. Len(t.array) : t.hash[k] # nil
  <2>1. TwoHomes(t) => \E k \in 1 .. Len(t.array) : t.hash[k] # nil
    BY <1>1 DEF TwoHomes, IntKey
  <2>2. ASSUME NEW k \in 1 .. Len(t.array), t.hash[k] # nil PROVE TwoHomes(t)
    BY <1>1, <1>2, <2>2 DEF TwoHomes
  <2> QED BY <2>1, <2>2
<1> QED BY <1>1, <1>2, <1>3, <1>4

\* u has the array part of t, or a shorter one, and no new hash entry.
LEMMA StillOneHome ==
  ASSUME Below, NEW t, Good(t), Len(t.array) <= MaxInt, ~TwoHomes(t), NEW u, Good(u),
         Len(u.array) <= Len(t.array), \A k \in Key : u.hash[k] # nil => t.hash[k] # nil
  PROVE  ~TwoHomes(u)
<1>1. Len(t.array) \in Nat /\ Len(u.array) \in Nat /\ MaxInt \in Nat
  BY TableFields, TableAssumption DEF Good
<1>2. Len(u.array) <= MaxInt
  BY <1>1
<1>3. 1 .. Len(u.array) \subseteq 1 .. Len(t.array) /\ 1 .. Len(u.array) \subseteq Key
  BY <1>1 DEF Key, IntKey
<1>4. \A k \in 1 .. Len(t.array) : t.hash[k] = nil
  BY ArrayKeys
<1>5. \A k \in 1 .. Len(u.array) : u.hash[k] = nil
  BY <1>3, <1>4
<1> QED BY <1>2, <1>5, ArrayKeys

\* v was stored in the hash part, for a key beyond the array part.
LEMMA SetHOneHome ==
  ASSUME Below, NEW t, Good(t), Len(t.array) <= MaxInt, ~TwoHomes(t), NEW k \in Key,
         NEW v \in Value, k \notin 1 .. Len(t.array), NEW u, u = SetH(t, k, v)
  PROVE  ~TwoHomes(u)
<1>1. Good(u) /\ u.array = t.array /\ u.hash = [t.hash EXCEPT ![k] = v]
  BY SetHSets
<1>2. \A x \in 1 .. Len(t.array) : u.hash[x] = t.hash[x]
  BY <1>1
<1>3. \A x \in 1 .. Len(t.array) : t.hash[x] = nil
  BY ArrayKeys
<1>4. Len(u.array) = Len(t.array)
  BY <1>1
<1>5. \A x \in 1 .. Len(u.array) : u.hash[x] = nil
  BY <1>2, <1>3, <1>4
<1> QED BY <1>1, <1>4, <1>5, ArrayKeys

\* The array part was grown to n and v stored there.
LEMMA GrownOneHome ==
  ASSUME Below, NEW t, Good(t), Len(t.array) <= MaxInt, ~TwoHomes(t), NEW n \in IntKey,
         Len(t.array) < n, NEW v \in Value, NEW g, Grown(t, g, n), NEW u, Stored(g, u, n, v)
  PROVE  ~TwoHomes(u)
<1>1. Len(t.array) \in Nat /\ n \in Nat /\ n >= 1 /\ n <= MaxInt /\ MaxInt \in Nat
  BY TableFields, TableAssumption DEF Good, IntKey
<1>2. Good(g) /\ Len(g.array) = n /\ n \in 1 .. Len(g.array)
  BY <1>1 DEF Grown
<1>3. Good(u) /\ Len(u.array) = n /\ u.hash = [k \in Key |-> IF k = n THEN nil ELSE g.hash[k]]
  <2>1. StoredIs(g, u, n, v)
    BY <1>2, StoredArray
  <2> QED BY <1>2, <2>1 DEF StoredIs
<1>4. \A x \in 1 .. Len(t.array) : t.hash[x] = nil
  BY ArrayKeys
<1>5. \A x \in 1 .. n : x \in Key
  BY <1>1 DEF Key, IntKey
<1>6. \A x \in 1 .. n : g.hash[x] = nil
  <2>1. g.hash = [k \in Key |-> IF k \in Len(t.array) + 1 .. n THEN nil ELSE t.hash[k]]
    BY DEF Grown
  <2> QED BY <1>1, <1>4, <1>5, <2>1
<1>7. \A x \in 1 .. n : u.hash[x] = nil
  BY <1>3, <1>5, <1>6
<1> QED BY <1>1, <1>3, <1>7, ArrayKeys

\* An assignment to a slot gives no key a second home.
LEMMA StoredOneHome ==
  ASSUME Below, NEW t, Good(t), Len(t.array) <= MaxInt, ~TwoHomes(t),
         NEW i \in 1 .. Len(t.array), NEW v \in Value \cup {nil}, NEW u, Stored(t, u, i, v)
  PROVE  ~TwoHomes(u)
<1>1. Good(u) /\ Len(u.array) = Len(t.array)
      /\ u.hash = [k \in Key |-> IF k = i THEN nil ELSE t.hash[k]]
  <2>1. StoredIs(t, u, i, v)
    BY StoredArray
  <2> QED BY <2>1 DEF StoredIs
<1>2. \A k \in Key : u.hash[k] # nil => t.hash[k] # nil
  BY <1>1
<1>3. Len(u.array) <= Len(t.array)
  BY <1>1, TableFields DEF Good
<1> QED BY <1>1, <1>2, <1>3, StillOneHome

\* RawSet gives no key a second home.
LEMMA RawSetOneHome ==
  ASSUME Below, NEW t, Good(t), Len(t.array) <= MaxInt, ~TwoHomes(t), NEW k \in Key,
         NEW v \in Value \cup {nil}, NEW u, u = RawSet(t, k, v)
  PROVE  ~TwoHomes(u)
<1>1. CASE Erased(t, u, {k})
  <2>1. Good(u) /\ Len(u.array) = Len(t.array)
    BY <1>1 DEF Erased
  <2>2. \A x \in Key : u.hash[x] # nil => t.hash[x] # nil
    BY <1>1 DEF Erased
  <2>3. Len(u.array) <= Len(t.array)
    BY <2>1, TableFields DEF Good
  <2> QED BY <2>1, <2>2, <2>3, StillOneHome
<1>2. CASE v # nil /\ ~InArray(t, k) /\ u = SetH(t, k, v)
  <2>1. k \notin 1 .. Len(t.array) /\ v \in Value
    BY <1>2, ArrayKeys
  <2> QED BY <1>2, <2>1, SetHOneHome
<1>3. CASE k \in 1 .. Len(t.array) /\ Stored(t, u, k, v)
  BY <1>3, StoredOneHome
<1>4. ASSUME k \in IntKey, Len(t.array) < k, v # nil, NEW g, Grown(t, g, k), Stored(g, u, k, v)
      PROVE  ~TwoHomes(u)
  <2>1. v \in Value
    BY <1>4
  <2> QED BY <1>4, <2>1, GrownOneHome
<1> QED BY <1>1, <1>2, <1>3, <1>4, RawSetCases

\* Append gives no key a second home.
LEMMA AppendOneHome ==
  ASSUME Below, NEW t, Good(t), Len(t.array) <= MaxInt, ~TwoHomes(t), TableLen(t) < MaxInt,
         NEW v \in Value, NEW u, u = AppendValue(t, v)
  PROVE  ~TwoHomes(u)
<1>1. Len(t.array) \in Nat
  BY TableFields DEF Good
<1>2. PICK n : n = Len(t.array) + 1
  OBVIOUS
<1>3. PICK i : i = TableLen(t) + 1
  OBVIOUS
<1>4. n \notin 1 .. Len(t.array) /\ Len(t.array) < n
  BY <1>1, <1>2
<1>5. CASE n \in IntKey /\ u = SetH(t, n, v)
  <2>1. n \in Key
    BY <1>5 DEF Key
  <2> QED BY <1>4, <1>5, <2>1, SetHOneHome
<1>6. ASSUME n \in IntKey, NEW g, Grown(t, g, n), Stored(g, u, n, v)
      PROVE  ~TwoHomes(u)
  BY <1>4, <1>6, GrownOneHome
<1>7. CASE i \in 1 .. Len(t.array) /\ Stored(t, u, i, v)
  BY <1>7, StoredOneHome
<1> QED BY <1>2, <1>3, <1>5, <1>6, <1>7, AppendCases

\* migrateNumericHashRangeToArray: below the limit, no operation but a table.insert
\* that shifts the array part in place gives an integer key a second home.
THEOREM OneHomeEach == Below => (Spec => OneHome)
<1> DEFINE A == ~TwoHomes(tb) /\ TwoHomes(tb') =>
                  \E pos \in DOMAIN tb.array, v \in Value : tableInsert(pos, v)
<1>1. ASSUME Below, Inv, [Next]_vars PROVE A
  <2> SUFFICES ASSUME ~TwoHomes(tb), TwoHomes(tb')
               PROVE  \E pos \in DOMAIN tb.array, v \in Value : tableInsert(pos, v)
    OBVIOUS
  <2>1. Good(tb) /\ Len(tb.array) <= MaxInt /\ loop \in [Traversal -> LoopState]
    BY <1>1 DEF Inv
  <2>2. Len(tb.array) \in Nat /\ DOMAIN tb.array = 1 .. Len(tb.array) /\ nil \notin Value
        /\ MaxInt \in Nat
    BY <2>1, TableFields, TableAssumption DEF Good
  <2>3. PICK u : u = tb'
    OBVIOUS
  <2>4. TwoHomes(u)
    BY <2>3 DEF TwoHomes
  <2>5. ASSUME NEW k \in Key, NEW v \in Value \cup {nil}, u = RawSet(tb, k, v) PROVE FALSE
    BY <1>1, <2>1, <2>4, <2>5, RawSetOneHome
  <2>6. ASSUME NEW v \in Value, tableAppend(v) PROVE FALSE
    BY <1>1, <2>1, <2>3, <2>4, <2>6, AppendOneHome DEF tableAppend
  <2>7. ASSUME NEW pos \in 1 .. MaxInt, NEW v \in Value, tableInsert(pos, v)
        PROVE  pos \in DOMAIN tb.array
    <3> SUFFICES ASSUME pos \notin DOMAIN tb.array PROVE FALSE
      OBVIOUS
    <3>1. pos > Len(tb.array) /\ pos \in Key
      BY <2>2 DEF Key, IntKey
    <3>2. u = RawSet(tb, pos, v)
      BY <2>3, <2>7, <3>1 DEF tableInsert, InsertWithCost
    <3> QED BY <2>5, <3>1, <3>2
  <2>8. ASSUME Good(u), Len(u.array) <= Len(tb.array), u.hash = tb.hash PROVE FALSE
    BY <1>1, <2>1, <2>4, <2>8, StillOneHome
  <2>9. ASSUME NEW pos \in 0 .. MaxInt + 1, u = RemoveWithCost(tb, pos) PROVE FALSE
    BY <2>1, <2>8, <2>9, RemoveGood DEF SameHash
  <2>10. CASE tb' = tb
    BY <2>1, <2>2, <2>3, <2>8, <2>10
  <2>11. ASSUME NEW l \in Traversal, Next1(l) PROVE FALSE
    <3>1. loop[l].cur \in Key \cup {nil}
      BY <2>1 DEF LoopState
    <3>2. CASE ~isValidNextKey(tb, loop[l].cur)
      BY <3>2, <2>10, <2>11 DEF Next1
    <3>3. CASE isValidNextKey(tb, loop[l].cur)
      <4>1. u = AfterNext(tb, loop[l].cur)
        BY <2>3, <2>11, <3>3, Rounds
      <4>2. Good(u) /\ u.array = tb.array /\ u.hash = tb.hash
        BY <2>1, <3>1, <3>3, <4>1, AfterNextGood
      <4>3. Len(u.array) <= Len(tb.array)
        BY <2>2, <4>2
      <4> QED BY <2>8, <4>2, <4>3
    <3> QED BY <3>2, <3>3
  <2>12. ASSUME NEW k \in Key, NEW v \in Value \cup {nil}, Assign(k, v) \/ AddKey(k, v)
         PROVE  FALSE
    BY <2>3, <2>5, <2>12 DEF Assign, AddKey
  <2>13. ASSUME NEW pos \in 0 .. MaxInt + 1, tableRemove(pos) PROVE FALSE
    BY <2>3, <2>9, <2>13 DEF tableRemove
  <2>14. CASE tableRemoveDefault
    <3>1. 0 \in 0 .. MaxInt + 1
      BY <2>2
    <3> QED BY <2>3, <2>9, <2>14, <3>1 DEF tableRemoveDefault
  <2>15. ASSUME NEW l \in Traversal, StartLoop(l) PROVE FALSE
    BY <2>10, <2>15 DEF StartLoop
  <2>16. CASE UNCHANGED vars
    BY <2>10, <2>16 DEF vars
  <2> QED BY <1>1, <2>6, <2>7, <2>11, <2>12, <2>13, <2>14, <2>15, <2>16 DEF Next
<1>2. Below => (Spec => [][A]_vars)
  <2> SUFFICES ASSUME Below PROVE Spec => [][A]_vars
    OBVIOUS
  <2>1. Inv /\ [Next]_vars => A
    BY <1>1
  <2> HIDE DEF A
  <2> QED BY <2>1, InvHolds, PTL DEF Spec
<1> QED BY <1>2 DEF OneHome

\* Reading after InsertWithCost: the keys from pos to the end of the list moved up by one.
LEMMA InsertGet ==
  ASSUME Below, NEW t, Good(t), Len(t.array) < MaxInt, ~TwoHomes(t), NEW pos \in 1 .. MaxInt,
         pos <= TableLen(t) + 1, NEW v \in Value, NEW u, u = InsertWithCost(t, pos, v),
         NEW x \in Key
  PROVE  RawGet(u, x) = IF x = pos THEN v
                        ELSE IF x \in IntKey /\ pos < x /\ x <= TableLen(t) + 1
                             THEN RawGet(t, x - 1)
                             ELSE RawGet(t, x)
<1> DEFINE m == Len(t.array)
           n == TableLen(t)
<1>1. m \in Nat /\ MaxInt \in Nat /\ n \in 0 .. m /\ pos \in Nat /\ v # nil /\ pos \in Key
      /\ t.array \in Seq(Value \cup {nil})
  BY TableFields, TableAssumption, TableLenIs DEF Good, Key, IntKey
<1>2. m <= MaxInt
  BY <1>1
<1>3. \A i \in n + 1 .. m : t.array[i] = nil
  BY TableLenIs
<1>4. \A i \in 1 .. m : i \in Key /\ t.hash[i] = nil
  BY <1>2, ArrayKeys DEF Key
<1>5. \A i \in 1 .. m : RawGet(t, i) = t.array[i]
  BY <1>2, <1>4, ArrayKeys, RawGetIs
<1>6. \A i \in Key : i \notin 1 .. m => RawGet(t, i) = t.hash[i]
  BY <1>2, ArrayKeys, RawGetIs
<1>7. CASE pos > m
  <2>1. u = RawSet(t, pos, v)
    BY <1>7 DEF InsertWithCost
  <2>2. Changed(t, u, pos, v)
    BY <1>1, <2>1, RawSetGet
  <2>3. ~(x \in IntKey /\ pos < x /\ x <= n + 1)
    BY <1>1, <1>7 DEF IntKey
  <2> QED BY <2>2, <2>3 DEF Changed
<1>8. CASE pos \in 1 .. m
  <2>1. PICK a : a = InsertAt(t.array, pos, v)
    OBVIOUS
  <2>2. /\ Len(a) = m + 1
        /\ \A j \in 1 .. m + 1 :
             a[j] = IF j < pos THEN t.array[j] ELSE IF j = pos THEN v ELSE t.array[j - 1]
    <3>1. PICK T : T = Value \cup {nil}
      OBVIOUS
    <3>2. PICK s : s = t.array
      OBVIOUS
    <3>3. s \in Seq(T) /\ v \in T /\ pos \in 1 .. Len(s) /\ a = InsertAt(s, pos, v)
      BY <1>1, <1>8, <2>1, <3>1, <3>2
    <3>4. Len(a) = Len(s) + 1
      BY <3>3, InsertAtIs
    <3>5. \A j \in 1 .. Len(s) + 1 :
            a[j] = IF j < pos THEN s[j] ELSE IF j = pos THEN v ELSE s[j - 1]
      BY <3>3, InsertAtIs
    <3> QED BY <3>2, <3>4, <3>5
  <2>3. Good(u) /\ u.array = a /\ u.hash = [k \in Key |-> IF k \in {pos} THEN nil ELSE t.hash[k]]
    <3>1. PICK w : w = [t EXCEPT !.array = a]
      OBVIOUS
    <3>2. Erased(w, u, {pos}) /\ w.array = a /\ SameHash(t, w)
      BY <1>8, <2>1, <3>1, InsertCases
    <3> QED BY <3>2 DEF Erased, SameHash
  <2>4. Len(u.array) <= MaxInt /\ Len(u.array) = m + 1
    BY <1>1, <2>2, <2>3
  <2>5. \A i \in Key : /\ i \in 1 .. m + 1 =>
                           RawGet(u, i) = IF a[i] # nil THEN a[i] ELSE u.hash[i]
                       /\ i \notin 1 .. m + 1 => RawGet(u, i) = u.hash[i]
    BY <2>3, <2>4, ArrayKeys, RawGetIs
  <2>6. u.hash[x] = IF x = pos THEN nil ELSE t.hash[x]
    BY <2>3
  <2>7. CASE x = pos
    <3>1. x \in 1 .. m + 1 /\ a[x] = v
      BY <1>1, <1>8, <2>2, <2>7
    <3> QED BY <1>1, <2>5, <2>7, <3>1
  <2>8. CASE x \in 1 .. m + 1 /\ x < pos
    <3>1. x \in 1 .. m /\ x # pos /\ ~(pos < x) /\ a[x] = t.array[x] /\ u.hash[x] = t.hash[x]
      BY <1>1, <1>8, <2>2, <2>6, <2>8
    <3>2. RawGet(u, x) = t.array[x]
      BY <1>4, <2>5, <2>8, <3>1
    <3> QED BY <1>5, <3>1, <3>2
  <2>9. CASE x \in 1 .. m + 1 /\ pos < x
    <3>1. x \in IntKey /\ x - 1 \in 1 .. m /\ a[x] = t.array[x - 1] /\ x # pos
      BY <1>1, <1>8, <2>2, <2>9 DEF IntKey
    <3>2. RawGet(u, x) = IF t.array[x - 1] # nil THEN t.array[x - 1] ELSE t.hash[x]
      BY <2>5, <2>6, <2>9, <3>1
    <3>3. RawGet(t, x - 1) = t.array[x - 1]
      BY <1>5, <3>1
    <3>4. CASE x <= n + 1
      <4>1. t.array[x - 1] = nil => t.hash[x] = nil
        <5>1. CASE x \in 1 .. m
          BY <5>1, <1>4
        <5>2. CASE x = m + 1
          <6>1. n = m /\ n # 0 /\ x - 1 = n
            BY <1>1, <1>8, <3>4, <5>2
          <6> QED BY <6>1, TableLenIs
        <5> QED BY <5>1, <5>2, <2>9, <1>1
      <4>2. RawGet(u, x) = t.array[x - 1]
        BY <3>2, <4>1
      <4> QED BY <2>9, <3>1, <3>3, <3>4, <4>2
    <3>5. CASE ~(x <= n + 1)
      <4>1. x - 1 \in n + 1 .. m
        BY <1>1, <2>9, <3>1, <3>5
      <4>2. RawGet(u, x) = t.hash[x]
        BY <3>2, <4>1, <1>3
      <4>3. RawGet(t, x) = t.hash[x]
        <5>1. CASE x \in 1 .. m
          <6>1. x \in n + 1 .. m
            BY <1>1, <3>5, <5>1
          <6> QED BY <6>1, <5>1, <1>3, <1>4, <1>5
        <5>2. CASE x \notin 1 .. m
          BY <5>2, <1>6
        <5> QED BY <5>1, <5>2
      <4> QED BY <3>1, <3>5, <4>2, <4>3
    <3> QED BY <3>4, <3>5
  <2>10. CASE x \notin 1 .. m + 1
    <3>1. x \notin 1 .. m /\ x # pos
      BY <1>1, <1>8, <2>10
    <3>2. ~(x \in IntKey /\ pos < x /\ x <= n + 1)
      BY <1>1, <1>8, <2>10 DEF IntKey
    <3>3. RawGet(u, x) = t.hash[x] /\ RawGet(t, x) = t.hash[x]
      BY <1>6, <2>5, <2>6, <2>10, <3>1
    <3> QED BY <3>1, <3>2, <3>3
  <2>11. x \in 1 .. m + 1 => x = pos \/ x < pos \/ pos < x
    BY <1>1
  <2> QED BY <2>7, <2>8, <2>9, <2>10, <2>11
<1> QED BY <1>1, <1>7, <1>8

\* InsertWithCost: below the limit, table.insert moves the elements from pos to the
\* end of the list up by one and changes no other key, holes in the list included.
THEOREM InsertionShifts == Below => (Spec => InsertShifts)
<1> DEFINE A == \A pos \in 1 .. MaxInt, v \in Value : tableInsert(pos, v) /\ ~TwoHomes(tb) =>
                  \A x \in Key : RawGet(tb', x) =
                    IF x = pos THEN v
                    ELSE IF x \in IntKey /\ pos < x /\ x <= TableLen(tb) + 1
                         THEN RawGet(tb, x - 1)
                    ELSE RawGet(tb, x)
<1>1. ASSUME Below, Inv PROVE A
  <2> SUFFICES ASSUME NEW pos \in 1 .. MaxInt, NEW v \in Value, tableInsert(pos, v),
                      ~TwoHomes(tb), NEW x \in Key
               PROVE  RawGet(tb', x) =
                        IF x = pos THEN v
                        ELSE IF x \in IntKey /\ pos < x /\ x <= TableLen(tb) + 1
                             THEN RawGet(tb, x - 1)
                        ELSE RawGet(tb, x)
    OBVIOUS
  <2>1. PICK u : u = tb'
    OBVIOUS
  <2>2. u = InsertWithCost(tb, pos, v) /\ pos <= TableLen(tb) + 1 /\ Len(tb.array) < MaxInt
    BY <2>1 DEF tableInsert
  <2>3. RawGet(u, x) = IF x = pos THEN v
                       ELSE IF x \in IntKey /\ pos < x /\ x <= TableLen(tb) + 1
                            THEN RawGet(tb, x - 1)
                       ELSE RawGet(tb, x)
    BY <1>1, <2>2, InsertGet DEF Inv
  <2> QED BY <2>1, <2>3
<1>2. Below => (Spec => [][A]_vars)
  <2> SUFFICES ASSUME Below PROVE Spec => [][A]_vars
    OBVIOUS
  <2>1. Inv => A
    BY <1>1
  <2> HIDE DEF A
  <2> QED BY <2>1, InvHolds, PTL DEF Spec
<1> QED BY <1>2 DEF InsertShifts
-----------------------------------------------------------------------------
(* One traversal at a time, below the limit.                               *)

\* There is at most one traversal at a time.
Alone == \A l, m \in Traversal : l = m

\* A live key is in one part, and its value is not nil there.
LEMMA LiveIs ==
  ASSUME Below, NEW t, Good(t), Len(t.array) <= MaxInt, ~TwoHomes(t), NEW k \in LiveKeys(t)
  PROVE  /\ k \in Key
         /\ \/ k \in 1 .. Len(t.array) /\ t.array[k] # nil /\ t.hash[k] = nil
            \/ k \notin 1 .. Len(t.array) /\ t.hash[k] # nil
<1>1. k \in Key /\ RawGet(t, k) # nil
  BY DEF LiveKeys
<1>2. InArray(t, k) <=> k \in 1 .. Len(t.array)
  BY <1>1, ArrayKeys
<1>3. k \in 1 .. Len(t.array) => t.hash[k] = nil
  BY ArrayKeys
<1> QED BY <1>1, <1>2, <1>3, RawGetIs

\* The array part: what the traversal has not passed is still to come.
LEMMA ArrayAfterIs ==
  ASSUME Below, NEW t, Good(t), Len(t.array) <= MaxInt, NEW c \in Key \cup {nil},
         NEW x \in 1 .. Len(t.array)
  PROVE  /\ t.array[x] # nil => x \in ArrayAfter(t, c) \/ x \in Passed(t, c)
         /\ x \in ArrayAfter(t, c) => ~HashCursor(t, c) /\ x \notin Passed(t, c)
         /\ x \in ArrayAfter(t, c) => c = nil \/ (c \in 1 .. Len(t.array) /\ c < x)
<1>1. Len(t.array) \in Nat /\ x \in Nat /\ nil \notin Key
  BY TableFields, TableAssumption DEF Good, Key, IntKey
<1>2. CASE c = nil
  BY <1>1, <1>2 DEF ArrayAfter, Passed, HashCursor
<1>3. CASE c # nil /\ InArray(t, c)
  <2>1. c \in 1 .. Len(t.array)
    BY <1>3, ArrayKeys
  <2>2. ArrayAfter(t, c) = {j \in c + 1 .. Len(t.array) : t.array[j] # nil} /\ Passed(t, c) = 1 .. c
    BY <1>3 DEF ArrayAfter, Passed
  <2> QED BY <1>1, <1>3, <2>1, <2>2 DEF HashCursor
<1>4. CASE HashCursor(t, c)
  <2>1. ArrayAfter(t, c) = {} /\ 1 .. Len(t.array) \subseteq Passed(t, c)
    BY <1>1, <1>4 DEF ArrayAfter, Passed, HashCursor
  <2> QED BY <2>1
<1> QED BY <1>2, <1>3, <1>4 DEF HashCursor

\* An assignment to a key that has a value and stays where it is: places may shift,
\* but what is left keeps its order, and a returned key keeps its place.
Stable(t, u) ==
  /\ Good(u)
  /\ Len(u.array) = Len(t.array)
  /\ u.nextIterated = t.nextIterated
  /\ DOMAIN u.k2i \subseteq DOMAIN t.k2i
  /\ \A a, b \in DOMAIN u.k2i : u.k2i[a] < u.k2i[b] <=> t.k2i[a] < t.k2i[b]

\* RawSetH of a key in the list leaves every key at its place.
LEMMA SetHKeepsPlace ==
  ASSUME NEW t, Good(t), NEW k \in DOMAIN t.k2i, NEW v
  PROVE  SetH(t, k, v).k2i = t.k2i /\ SetH(t, k, v).nextIterated = t.nextIterated
BY DEF Good, Table, SetH

\* An assignment to a key that has a value moves no key that a traversal has to come past.
LEMMA AssignStable ==
  ASSUME Below, NEW t, Good(t), Len(t.array) <= MaxInt, NEW k \in Key,
         NEW v \in Value \cup {nil}, NEW u, u = RawSet(t, k, v), RawGet(t, k) # nil,
         v = nil \/ ~(k \in IntKey /\ t.hash[k] # nil /\ shouldStoreArrayIndex(t, k))
  PROVE  Stable(t, u)
<1>1. CASE Erased(t, u, {k})
  BY <1>1 DEF Erased, Stable
<1>2. CASE v # nil /\ ~InArray(t, k) /\ u = SetH(t, k, v)
  <2>1. t.hash[k] # nil /\ v \in Value
    BY <1>2, RawGetIs
  <2>2. k \in DOMAIN t.k2i
    BY <2>1 DEF Good, Indexed
  <2>3. Good(u) /\ u.array = t.array /\ u.nextIterated = t.nextIterated /\ u.k2i = t.k2i
    <3>1. Good(u) /\ u.array = t.array
      BY <1>2, <2>1, SetHGood
    <3> QED BY <3>1, <1>2, <2>2, SetHKeepsPlace
  <2> QED BY <2>3 DEF Stable
<1>3. CASE k \in 1 .. Len(t.array) /\ Stored(t, u, k, v)
  <2>1. StoredIs(t, u, k, v)
    BY <1>3, StoredArray
  <2> QED BY <2>1 DEF StoredIs, Stable
<1>4. ASSUME k \in IntKey, shouldStoreArrayIndex(t, k), Len(t.array) < k, v # nil PROVE FALSE
  <2>1. ~InArray(t, k)
    BY <1>4, TableFields DEF InArray, IntKey, Good
  <2>2. t.hash[k] # nil
    BY <2>1, RawGetIs
  <2> QED BY <1>4, <2>2
<1> QED BY <1>1, <1>2, <1>3, <1>4, RawSetCases

\* A traversal goes on correctly in a table that changed in this way.
LEMMA StableUnderway ==
  ASSUME Below, NEW t, Good(t), Len(t.array) <= MaxInt, NEW u, Stable(t, u), ~TwoHomes(u),
         NEW r \in LoopState, Underway(t, r), NEW q,
         q = [r EXCEPT !.owed = r.owed \cap LiveKeys(u)]
  PROVE  Underway(u, q)
<1>1. q.cur = r.cur /\ q.seen = r.seen /\ q.owed = r.owed \cap LiveKeys(u)
  BY DEF LoopState
<1>2. PICK c : c = r.cur
  OBVIOUS
<1>3. c \in Key \cup {nil} /\ r.seen \subseteq Key
  BY <1>2 DEF LoopState
<1>4. Len(u.array) = Len(t.array) /\ u.nextIterated = t.nextIterated
      /\ DOMAIN u.k2i \subseteq DOMAIN t.k2i
  BY DEF Stable
<1>5. \A k : InArray(u, k) <=> InArray(t, k)
  BY <1>4 DEF InArray
<1>6. t.nextIterated \subseteq DOMAIN u.k2i
  BY <1>4 DEF Stable, Good, Indexed
<1>7. c = nil \/ InArray(u, c) \/ c \in u.nextIterated
  BY <1>2, <1>4, <1>5 DEF Underway
<1>8. ASSUME HashCursor(t, c)
      PROVE  \A k \in DOMAIN u.k2i : u.k2i[k] <= u.k2i[c] <=> t.k2i[k] <= t.k2i[c]
  <2>1. c \in DOMAIN u.k2i
    BY <1>4, <1>5, <1>6, <1>7, <1>8 DEF HashCursor
  <2>2. \A k \in DOMAIN u.k2i : u.k2i[k] \in Nat /\ t.k2i[k] \in Nat
    BY <1>4, TableFields DEF Stable, Good
  <2>3. \A k \in DOMAIN u.k2i : u.k2i[c] < u.k2i[k] <=> t.k2i[c] < t.k2i[k]
    BY <2>1 DEF Stable
  <2> QED BY <2>1, <2>2, <2>3
<1>9. Passed(u, c) \subseteq Passed(t, c)
  <2>1. CASE HashCursor(t, c)
    <3>1. c # nil /\ ~InArray(t, c) /\ ~InArray(u, c)
      BY <2>1, <1>5 DEF HashCursor
    <3> QED BY <2>1, <3>1, <1>4, <1>8 DEF Passed
  <2>2. CASE ~HashCursor(t, c)
    BY <2>2, <1>5 DEF Passed, HashCursor
  <2> QED BY <2>1, <2>2
<1>10. r.seen \subseteq Passed(u, c)
  <2>1. r.seen \subseteq Passed(t, c)
    BY <1>2 DEF Underway
  <2>2. CASE HashCursor(t, c)
    <3>1. c # nil /\ ~InArray(t, c) /\ ~InArray(u, c)
      BY <2>2, <1>5 DEF HashCursor
    <3>2. ASSUME NEW k \in r.seen PROVE k \in Passed(u, c)
      <4>1. InArray(t, k) \/ k \in t.nextIterated
        BY DEF Underway
      <4>2. CASE InArray(t, k)
        <5>1. k \in 1 .. Len(u.array)
          BY <4>2, <1>3, <1>4, ArrayKeys
        <5> QED BY <5>1, <3>1 DEF Passed
      <4>3. CASE k \notin 1 .. Len(t.array) /\ k \in t.nextIterated
        <5>1. k \in DOMAIN u.k2i
          BY <4>3, <1>6
        <5>2. t.k2i[k] <= t.k2i[c]
          BY <4>3, <2>1, <3>1 DEF Passed
        <5> QED BY <5>1, <5>2, <3>1, <2>2, <1>8 DEF Passed
      <4>4. k \in 1 .. Len(t.array) => k \in Passed(u, c)
        BY <3>1, <1>4 DEF Passed
      <4> QED BY <4>1, <4>2, <4>3, <4>4
    <3> QED BY <3>2
  <2>3. CASE ~HashCursor(t, c)
    BY <2>1, <2>3, <1>5 DEF Passed, HashCursor
  <2> QED BY <2>2, <2>3
<1>11. \A k \in r.seen : InArray(u, k) \/ k \in u.nextIterated
  BY <1>4, <1>5 DEF Underway
<1>12. q.owed \subseteq LiveKeys(u) /\ q.owed \cap Passed(u, c) \subseteq r.seen
  BY <1>1, <1>2, <1>9 DEF Underway
<1> QED BY <1>1, <1>2, <1>7, <1>10, <1>11, <1>12 DEF Underway

\* The first round, or the next one, ends the traversal: every owed key was seen.
LEMMA DoneSawAll ==
  ASSUME Below, NEW t, Good(t), Len(t.array) <= MaxInt, NEW r \in LoopState, Underway(t, r),
         NoneFollows(t, r.cur)
  PROVE  r.owed \subseteq r.seen
<1>1. PICK c : c = r.cur
  OBVIOUS
<1>2. c \in Key \cup {nil}
  BY <1>1 DEF LoopState
<1>3. ASSUME NEW k \in r.owed PROVE k \in r.seen
  <2>1. k \in LiveKeys(t) /\ ~TwoHomes(t)
    BY DEF Underway
  <2>2. CASE k \in 1 .. Len(t.array) /\ t.array[k] # nil
    <3>1. k \in Passed(t, c)
      BY <1>1, <1>2, <2>2, ArrayAfterIs DEF NoneFollows
    <3> QED BY <1>1, <3>1 DEF Underway
  <2>3. CASE t.hash[k] # nil
    <3>1. k \in Key
      BY <2>1, LiveIs
    <3>2. HashCursor(t, c) /\ t.k2i[k] <= t.k2i[c] /\ k \in DOMAIN t.k2i
      BY <1>1, <2>3, <3>1 DEF NoneFollows, Good, Indexed
    <3>3. k \in Passed(t, c)
      BY <3>2 DEF Passed, HashCursor
    <3> QED BY <1>1, <3>3 DEF Underway
  <2> QED BY <2>1, <2>2, <2>3, LiveIs
<1> QED BY <1>3

\* A round that returned an element of the array part.
LEMMA ArrayRound ==
  ASSUME Below, NEW t, Good(t), Len(t.array) <= MaxInt, NEW r \in LoopState, Underway(t, r),
         NEW n, FollowsInArray(t, r.cur, n)
  PROVE  /\ n \in 1 .. Len(t.array) /\ n \notin r.seen
         /\ Underway(t, Returned(r, n))
<1>1. PICK c : c = r.cur
  OBVIOUS
<1>2. c \in Key \cup {nil} /\ r.seen \subseteq Key
  BY <1>1 DEF LoopState
<1>3. Len(t.array) \in Nat /\ MaxInt \in Nat /\ nil \notin Nat
  BY TableFields, TableAssumption DEF Good
<1>4. n \in 1 .. Len(t.array) /\ n \in ArrayAfter(t, c) /\ \A x \in ArrayAfter(t, c) : n <= x
  BY <1>1, <1>2, ArrayAfterNat DEF FollowsInArray
<1>5. n \in Nat /\ n # nil /\ n \in Key
  BY <1>3, <1>4, ArrayKeys DEF Key
<1>6. n \notin Passed(t, c) /\ ~HashCursor(t, c) /\ (c = nil \/ (c \in 1 .. Len(t.array) /\ c < n))
  BY <1>2, <1>4, ArrayAfterIs
<1>7. InArray(t, n) /\ Passed(t, n) = 1 .. n
  BY <1>4, <1>5, ArrayKeys DEF Passed
<1>8. Passed(t, c) \subseteq 1 .. n
  <2>1. CASE c = nil
    BY <2>1 DEF Passed
  <2>2. CASE c # nil
    <3>1. Passed(t, c) = 1 .. c /\ c \in Nat /\ c < n
      BY <2>2, <1>3, <1>6 DEF Passed, HashCursor
    <3> QED BY <3>1, <1>5
  <2> QED BY <2>1, <2>2
<1>9. n \notin r.seen
  BY <1>1, <1>6 DEF Underway
<1>10. PICK q : q = Returned(r, n)
  OBVIOUS
<1>11. q.cur = n /\ q.seen = r.seen \cup {n} /\ q.owed = r.owed
  BY <1>5, <1>10 DEF Returned, LoopState
<1>12. q.seen \subseteq Passed(t, n)
  <2>1. r.seen \subseteq Passed(t, c)
    BY <1>1 DEF Underway
  <2>2. n \in 1 .. n
    BY <1>3, <1>4
  <2> QED BY <2>1, <2>2, <1>7, <1>8, <1>11
<1>13. \A k \in q.seen : InArray(t, k) \/ k \in t.nextIterated
  BY <1>7, <1>11 DEF Underway
<1>14. ASSUME NEW k \in q.owed, k \in 1 .. n PROVE k \in q.seen
  <2>1. k \in LiveKeys(t) /\ ~TwoHomes(t) /\ k \in r.owed
    BY <1>11 DEF Underway
  <2>2. k \in 1 .. Len(t.array)
    BY <1>3, <1>4, <1>14
  <2>3. t.array[k] # nil
    BY <2>1, <2>2, LiveIs
  <2>4. CASE k \in ArrayAfter(t, c)
    <3>1. n <= k
      BY <1>4, <2>4
    <3>2. k = n
      BY <3>1, <1>5, <1>14
    <3> QED BY <3>2, <1>11
  <2>5. CASE k \in Passed(t, c)
    BY <2>1, <2>5, <1>1, <1>11 DEF Underway
  <2> QED BY <1>2, <2>2, <2>3, <2>4, <2>5, ArrayAfterIs
<1>15. ~TwoHomes(t) /\ q.owed \subseteq LiveKeys(t)
  BY <1>11 DEF Underway
<1>16. q.owed \cap Passed(t, q.cur) \subseteq q.seen
  BY <1>7, <1>11, <1>14
<1>17. Underway(t, q)
  BY <1>7, <1>11, <1>12, <1>13, <1>15, <1>16 DEF Underway
<1> QED BY <1>4, <1>9, <1>10, <1>17

\* A round that returned a key of the hash part, which markNextHashKey remembers.
LEMMA HashRound ==
  ASSUME Below, NEW t, Good(t), Len(t.array) <= MaxInt, NEW r \in LoopState, Underway(t, r),
         NEW n, FollowsInHash(t, r.cur, n), NEW u,
         u = [t EXCEPT !.nextIterated = t.nextIterated \cup {n}]
  PROVE  n \in Key /\ n \notin r.seen /\ Underway(u, Returned(r, n))
<1>1. PICK c : c = r.cur
  OBVIOUS
<1>2. c \in Key \cup {nil}
  BY <1>1 DEF LoopState
<1>3. /\ t.k2i \in [DOMAIN t.k2i -> Nat] /\ nil \notin Key
      /\ DOMAIN t.k2i \subseteq Key /\ Indexes(t.keys, t.k2i)
  BY TableFields, TableAssumption DEF Good, Indexed, Key, IntKey
<1>4. n \in DOMAIN t.k2i /\ n \in Key /\ n # nil /\ t.hash[n] # nil
      /\ (HashCursor(t, c) => t.k2i[c] < t.k2i[n])
  BY <1>1, <1>3 DEF FollowsInHash
<1>5. ~TwoHomes(t) /\ n \notin 1 .. Len(t.array) /\ ~InArray(t, n)
  BY <1>4, ArrayKeys DEF Underway
<1>6. u.array = t.array /\ u.hash = t.hash /\ u.k2i = t.k2i /\ u.nextIterated = t.nextIterated \cup {n}
  BY DEF Good, Table
<1>7. /\ \A k : InArray(u, k) <=> InArray(t, k)
      /\ ~TwoHomes(u) /\ LiveKeys(u) = LiveKeys(t)
  BY <1>5, <1>6 DEF InArray, TwoHomes, LiveKeys, RawGet, Elem
<1>8. Passed(u, n) = (1 .. Len(t.array)) \cup {k \in DOMAIN t.k2i : t.k2i[k] <= t.k2i[n]}
  BY <1>4, <1>5, <1>6, <1>7 DEF Passed
<1>9. c # nil /\ InArray(t, c) => Passed(t, c) \subseteq 1 .. Len(t.array)
  <2> SUFFICES ASSUME c # nil, InArray(t, c) PROVE Passed(t, c) \subseteq 1 .. Len(t.array)
    OBVIOUS
  <2>1. c \in 1 .. Len(t.array) /\ Passed(t, c) = 1 .. c /\ Len(t.array) \in Nat
    BY <1>2, ArrayKeys DEF Passed
  <2> QED BY <2>1
<1>10. HashCursor(t, c) => c \in DOMAIN t.k2i
  BY <1>1 DEF Underway, HashCursor, Good, Indexed
<1>11. Passed(t, c) \subseteq Passed(u, n) /\ n \notin Passed(t, c)
  <2>1. CASE c = nil
    BY <2>1 DEF Passed
  <2>2. CASE c # nil /\ InArray(t, c)
    BY <2>2, <1>5, <1>8, <1>9
  <2>3. CASE HashCursor(t, c)
    <3>1. Passed(t, c) = (1 .. Len(t.array)) \cup {k \in DOMAIN t.k2i : t.k2i[k] <= t.k2i[c]}
      BY <2>3 DEF Passed, HashCursor
    <3>2. t.k2i[c] < t.k2i[n] /\ t.k2i[c] \in Nat /\ t.k2i[n] \in Nat
      BY <2>3, <1>3, <1>4, <1>10
    <3>3. \A k \in DOMAIN t.k2i : t.k2i[k] \in Nat
      BY <1>3
    <3>4. ~(t.k2i[n] <= t.k2i[c])
      BY <3>2
    <3>5. \A k \in DOMAIN t.k2i : t.k2i[k] <= t.k2i[c] => t.k2i[k] <= t.k2i[n]
      BY <3>2, <3>3
    <3>6. n \notin Passed(t, c)
      BY <3>1, <3>4, <1>5
    <3>7. Passed(t, c) \subseteq Passed(u, n)
      BY <3>1, <3>5, <1>8
    <3> QED BY <3>6, <3>7
  <2> QED BY <2>1, <2>2, <2>3 DEF HashCursor
<1>12. n \notin r.seen
  BY <1>1, <1>11 DEF Underway
<1>13. PICK q : q = Returned(r, n)
  OBVIOUS
<1>14. q.cur = n /\ q.seen = r.seen \cup {n} /\ q.owed = r.owed
  BY <1>4, <1>13 DEF Returned, LoopState
<1>15. q.seen \subseteq Passed(u, n)
  <2>1. n \in Passed(u, n)
    <3>1. t.k2i[n] \in Nat
      BY <1>3, <1>4
    <3>2. t.k2i[n] <= t.k2i[n]
      BY <3>1
    <3> QED BY <3>2, <1>4, <1>8
  <2> QED BY <2>1, <1>1, <1>11, <1>14 DEF Underway
<1>16. \A k \in q.seen : InArray(u, k) \/ k \in u.nextIterated
  BY <1>6, <1>7, <1>14 DEF Underway
<1>17. ASSUME NEW k \in q.owed, k \in Passed(u, n) PROVE k \in q.seen
  <2>1. k \in LiveKeys(t) /\ k \in r.owed
    BY <1>14 DEF Underway
  <2>2. CASE k \in Passed(t, c)
    BY <2>1, <2>2, <1>1, <1>14 DEF Underway
  <2>3. CASE k \in 1 .. Len(t.array) /\ t.array[k] # nil
    <3>1. k \in Passed(t, c)
      BY <1>1, <1>2, <2>3, ArrayAfterIs DEF FollowsInHash
    <3> QED BY <3>1, <2>2
  <2>4. CASE k \notin 1 .. Len(t.array) /\ t.hash[k] # nil
    <3>1. k \in DOMAIN t.k2i /\ k \in Key /\ t.k2i[k] <= t.k2i[n]
      <4>1. k \in Key
        BY <2>1 DEF LiveKeys
      <4>2. k \in {x \in DOMAIN t.k2i : t.k2i[x] <= t.k2i[n]}
        BY <2>4, <1>8, <1>17
      <4> QED BY <4>1, <4>2
    <3>2. CASE HashCursor(t, c) /\ t.k2i[k] <= t.k2i[c]
      <4>1. k \in Passed(t, c)
        BY <3>1, <3>2 DEF Passed, HashCursor
      <4> QED BY <4>1, <2>2
    <3>3. CASE t.k2i[n] <= t.k2i[k]
      <4>1. t.k2i[n] = t.k2i[k]
        BY <3>1, <3>3, <1>3, <1>4
      <4>2. k = n
        BY <4>1, <3>1, <1>3, <1>4 DEF Indexes
      <4> QED BY <4>2, <1>14
    <3> QED BY <3>1, <3>2, <3>3, <2>4, <1>1 DEF FollowsInHash
  <2> QED BY <1>5, <2>1, <2>3, <2>4, LiveIs
<1>18. q.owed \subseteq LiveKeys(u)
  BY <1>7, <1>14 DEF Underway
<1>19. Underway(u, q)
  BY <1>4, <1>6, <1>7, <1>14, <1>15, <1>16, <1>17, <1>18 DEF Underway
<1> QED BY <1>4, <1>12, <1>13, <1>19

\* No traversal is running at first.
LEMMA LoopInvInit == Init => LoopInv
BY DEF Init, LoopInv, LoopOK, Idle

\* A traversal that is forgotten is idle.
LEMMA AbandonOK ==
  ASSUME Abandon
  PROVE  LoopInv'
BY DEF Abandon, LoopInv, LoopOK, Idle

\* Assignments during a traversal keep what is true of it.
LEMMA AllowedOK ==
  ASSUME Below, Inv, LoopInv, NEW k \in Key, NEW v \in Value \cup {nil}, Assign(k, v)
  PROVE  LoopInv'
<1>1. CASE v # nil /\ Migrates(k)
  BY <1>1, AbandonOK DEF Assign
<1>2. CASE ~(v # nil /\ Migrates(k))
  <2>1. PICK u : u = tb'
    OBVIOUS
  <2>2. u = RawSet(tb, k, v) /\ RawGet(tb, k) # nil
    BY <2>1 DEF Assign
  <2>3. Good(tb) /\ Len(tb.array) <= MaxInt /\ loop \in [Traversal -> LoopState]
    BY DEF Inv
  <2>4. Stable(tb, u)
    BY <1>2, <2>2, <2>3, AssignStable DEF Migrates
  <2>5. ~TwoHomes(tb) => ~TwoHomes(u)
    BY <2>2, <2>3, RawSetOneHome
  <2>6. loop' = [l \in Traversal |-> [loop[l] EXCEPT !.owed = @ \cap LiveKeys(u)]]
    <3>1. Allowed(tb')
      BY <1>2 DEF Assign
    <3> QED BY <3>1, <2>1 DEF Allowed
  <2>7. ASSUME NEW l \in Traversal PROVE LoopOK(u, loop'[l])
    <3>1. PICK r : r = loop[l]
      OBVIOUS
    <3>2. PICK q : q = [r EXCEPT !.owed = r.owed \cap LiveKeys(u)]
      OBVIOUS
    <3>3. loop'[l] = q
      BY <2>6, <3>1, <3>2
    <3>4. r \in LoopState /\ LoopOK(tb, r)
      BY <2>3, <3>1 DEF LoopInv
    <3>5. /\ q.dup = r.dup /\ q.st = r.st /\ q.seen = r.seen
          /\ q.owed = r.owed \cap LiveKeys(u)
      BY <3>2, <3>4 DEF LoopState
    <3>6. q.st = "running" => Underway(u, q)
      <4>1. r.st = "running" => Underway(tb, r) /\ ~TwoHomes(tb)
        BY <3>4 DEF LoopOK, Underway
      <4> QED BY <4>1, <2>3, <2>4, <2>5, <3>2, <3>4, <3>5, StableUnderway
    <3>7. q.st = "done" => q.owed \subseteq q.seen
      BY <3>4, <3>5 DEF LoopOK
    <3>8. LoopOK(u, q)
      BY <3>4, <3>5, <3>6, <3>7 DEF LoopOK
    <3> QED BY <3>3, <3>8
  <2> QED BY <2>1, <2>7 DEF LoopInv
<1> QED BY <1>1, <1>2

\* A traversal starts with every live key ahead of it.
LEMMA StartOK ==
  ASSUME Alone, Inv, NEW l \in Traversal, StartLoop(l)
  PROVE  LoopInv'
<1> DEFINE r == [Idle EXCEPT !.st = "running", !.owed = LiveKeys(tb)]
<1>1. tb' = tb /\ ~TwoHomes(tb) /\ loop' = [loop EXCEPT ![l] = r]
  BY DEF StartLoop
<1>2. r.cur = nil /\ r.seen = {} /\ r.owed = LiveKeys(tb) /\ r.st = "running" /\ r.dup = FALSE
  BY DEF Idle
<1> HIDE DEF r
<1>3. Underway(tb, r)
  BY <1>1, <1>2 DEF Underway, Passed
<1>4. LoopOK(tb, r)
  BY <1>2, <1>3 DEF LoopOK
<1>5. \A m \in Traversal : loop'[m] = r
  BY <1>1 DEF Alone, Inv
<1> QED BY <1>1, <1>4, <1>5 DEF LoopInv

\* A round returns a key not seen before, and the last one leaves no key out.
LEMMA RoundOK ==
  ASSUME Below, Alone, Inv, LoopInv, NEW l \in Traversal, Next1(l)
  PROVE  LoopInv'
<1>1. Good(tb) /\ Len(tb.array) <= MaxInt /\ loop \in [Traversal -> LoopState]
  BY DEF Inv
<1>2. PICK r : r = loop[l]
  OBVIOUS
<1>3. r \in LoopState /\ LoopOK(tb, r) /\ r.st = "running"
  BY <1>1, <1>2 DEF LoopInv, Next1, Running
<1>4. Underway(tb, r) /\ r.dup = FALSE
  BY <1>3 DEF LoopOK, LoopState
<1>5. r.cur \in Key \cup {nil}
  BY <1>3 DEF LoopState
<1>6. isValidNextKey(tb, r.cur)
  BY <1>1, <1>4 DEF Underway, isValidNextKey, Good, Indexed
<1>7. PICK n : n = NextKey(tb, r.cur)
  OBVIOUS
<1>8. PICK u : u = tb'
  OBVIOUS
<1>9. u = AfterNext(tb, r.cur) /\ loop' = [loop EXCEPT ![l] = Returned(r, n)]
  BY <1>2, <1>6, <1>7, <1>8, Rounds
<1>10. PICK q : q = Returned(r, n)
  OBVIOUS
<1>11. \A m \in Traversal : loop'[m] = q
  BY <1>1, <1>9, <1>10 DEF Alone
<1>12. nil \notin Key /\ nil \notin Nat
  BY TableAssumption DEF Key, IntKey
<1>13. LoopOK(u, q)
  <2>1. CASE n = nil /\ NoneFollows(tb, r.cur)
    <3>1. r.owed \subseteq r.seen
      BY <1>1, <1>3, <1>4, <2>1, DoneSawAll
    <3>2. q.st = "done" /\ q.dup = FALSE /\ q.owed = r.owed /\ q.seen = r.seen
      BY <1>3, <1>4, <1>10, <2>1 DEF Returned, LoopState
    <3> QED BY <3>1, <3>2 DEF LoopOK
  <2>2. ASSUME n # nil, n \notin r.seen, Underway(u, q) PROVE LoopOK(u, q)
    <3>1. q.st = "running" /\ ~q.dup
      <4>1. q = [r EXCEPT !.cur = n, !.seen = r.seen \cup {n}, !.dup = r.dup \/ n \in r.seen]
        BY <1>10, <2>2 DEF Returned
      <4>2. q.st = r.st
        BY <4>1, <1>3 DEF LoopState
      <4>3. q.dup = (r.dup \/ n \in r.seen)
        BY <4>1, <1>3 DEF LoopState
      <4> QED BY <4>2, <4>3, <1>3, <1>4, <2>2
    <3> QED BY <2>2, <3>1 DEF LoopOK
  <2>3. CASE FollowsInArray(tb, r.cur, n)
    <3>1. n \in 1 .. Len(tb.array) /\ n \notin r.seen /\ Underway(tb, q)
      BY <1>1, <1>3, <1>4, <1>10, <2>3, ArrayRound
    <3>2. n # nil
      BY <3>1, <1>1, <1>12, ArrayKeys DEF Key
    <3>3. u = tb
      BY <1>7, <1>9, <2>3, <3>2 DEF AfterNext, FollowsInArray
    <3> QED BY <2>2, <3>1, <3>2, <3>3
  <2>4. CASE FollowsInHash(tb, r.cur, n)
    <3>1. n # nil
      BY <1>1, <1>12, <2>4, TableFields DEF FollowsInHash, Good
    <3>2. u = [tb EXCEPT !.nextIterated = tb.nextIterated \cup {n}]
      BY <1>7, <1>9, <2>4, <3>1 DEF AfterNext, FollowsInHash
    <3>3. n \notin r.seen /\ Underway(u, q)
      BY <1>1, <1>3, <1>4, <1>10, <2>4, <3>2, HashRound
    <3> QED BY <2>2, <3>1, <3>3
  <2> QED BY <1>1, <1>5, <1>6, <1>7, <2>1, <2>3, <2>4, NextKeyIs
<1> QED BY <1>8, <1>11, <1>13 DEF LoopInv

\* Every step keeps what is true of the traversal.
LEMMA LoopInvNext ==
  ASSUME Below, Alone, Inv, LoopInv, [Next]_vars
  PROVE  LoopInv'
<1>1. CASE UNCHANGED vars
  BY <1>1 DEF vars, LoopInv
<1>2. ASSUME NEW k \in Key, NEW v \in Value \cup {nil}, AddKey(k, v) PROVE LoopInv'
  BY <1>2, AbandonOK DEF AddKey
<1>3. ASSUME NEW v \in Value, tableAppend(v) PROVE LoopInv'
  BY <1>3, AbandonOK DEF tableAppend
<1>4. ASSUME NEW pos \in 1 .. MaxInt, NEW v \in Value, tableInsert(pos, v) PROVE LoopInv'
  BY <1>4, AbandonOK DEF tableInsert
<1>5. ASSUME NEW pos \in 0 .. MaxInt + 1, tableRemove(pos) PROVE LoopInv'
  BY <1>5, AbandonOK DEF tableRemove
<1>6. CASE tableRemoveDefault
  BY <1>6, AbandonOK DEF tableRemoveDefault
<1> QED BY <1>1, <1>2, <1>3, <1>4, <1>5, <1>6, AllowedOK, StartOK, RoundOK DEF Next

\* What is true of a traversal between two rounds, always.
LEMMA LoopInvHolds == Below /\ Alone => (Spec => []LoopInv)
<1> SUFFICES ASSUME Below, Alone PROVE Spec => []LoopInv
  OBVIOUS
<1>1. Init => LoopInv
  BY LoopInvInit
<1>2. Inv /\ LoopInv /\ [Next]_vars => LoopInv'
  BY LoopInvNext
<1> QED BY <1>1, <1>2, InvHolds, PTL DEF Spec

\* next and pairs: below the limit, one traversal at a time, whatever is assigned to
\* or erased from the keys that have a value, returns every key that keeps its value
\* and no key twice.
THEOREM TraversalVisitsOnce == Below /\ Alone => (Spec => []LoopVisitsOnce)
<1> SUFFICES ASSUME Below, Alone PROVE Spec => []LoopVisitsOnce
  OBVIOUS
<1>1. LoopInv => LoopVisitsOnce
  BY DEF LoopInv, LoopOK, LoopVisitsOnce
<1>2. Spec => []LoopInv
  BY LoopInvHolds
<1> QED BY <1>1, <1>2, PTL

\* isValidNextKey: such a traversal never fails, because a key it returned keeps its
\* place in keys until it ends.
THEOREM TraversalNeverFails == Below /\ Alone => (Spec => []LoopNeverFails)
<1> SUFFICES ASSUME Below, Alone PROVE Spec => []LoopNeverFails
  OBVIOUS
<1>1. LoopInv => LoopNeverFails
  BY DEF LoopInv, LoopOK, LoopNeverFails
<1>2. Spec => []LoopInv
  BY LoopInvHolds
<1> QED BY <1>1, <1>2, PTL
-----------------------------------------------------------------------------
(* The table is the one of AbstractTable.                                  *)

\* Loops that are abandoned are forgotten.
LEMMA AbandonForgets ==
  ASSUME Abandon
  PROVE  Abstract!Forget
BY DEF Abandon, Idle, Abstract!Forget

\* A change of one key is the abstract one.
LEMMA ChangedPuts ==
  ASSUME NEW k \in Key, NEW v, NEW u, u = tb', Changed(tb, u, k, v),
         ~TwoHomes(tb) => ~TwoHomes(u)
  PROVE  Abstract!Put(k, v)
<1>1. [x \in Key |-> RawGet(u, x)] = [[x \in Key |-> RawGet(tb, x)] EXCEPT ![k] = v]
  BY DEF Changed
<1>2. [x \in Key |-> RawGet(tb, x)]' = [[x \in Key |-> RawGet(tb, x)] EXCEPT ![k] = v]
  BY <1>1
<1>3. ~TwoHomes(tb) => (~TwoHomes(tb))'
  BY DEF TwoHomes
<1> QED BY <1>2, <1>3 DEF Abstract!Put

\* Reading after Append: the key after the length has the value, every other key what
\* it had.
LEMMA AppendGet ==
  ASSUME Below, NEW t, Good(t), Len(t.array) <= MaxInt, TableLen(t) < MaxInt, NEW v \in Value,
         NEW u, u = AppendValue(t, v)
  PROVE  Changed(t, u, TableLen(t) + 1, v)
<1> DEFINE m == Len(t.array)
<1>1. m \in Nat /\ MaxInt \in Nat /\ MaxArrayIndex \in Nat /\ DOMAIN t.array = 1 .. m
  BY TableFields, TableAssumption DEF Good
<1>2. TableLen(t) \in 0 .. m
  BY TableLenIs
<1>3. CASE t.array = << >> \/ Elem(t, m) # nil
  <2>1. PICK i : i = m + 1
    OBVIOUS
  <2>2. TableLen(t) = m
    <3>1. t.array = << >> => m = 0
      OBVIOUS
    <3>2. Elem(t, m) # nil => TableLen(t) = m
      BY <1>1, TableLenIs DEF Elem
    <3> QED BY <1>1, <1>2, <1>3, <3>1, <3>2
  <2>3. i \in IntKey /\ i < MaxArrayIndex /\ m < i
    BY <1>1, <2>1, <2>2 DEF IntKey, Below
  <2>4. u = setArrayValueAt(t, i, v)
    BY <1>3, <2>1, TableAssumption DEF AppendValue
  <2>5. PICK g : Grown(t, g, i) /\ Stored(g, u, i, v)
    <3>1. ~(i \in 1 .. m) /\ ~(i >= MaxArrayIndex) /\ v # nil
      BY <1>1, <2>1, <2>3, TableAssumption
    <3>2. v \in Value \cup {nil}
      OBVIOUS
    <3> QED BY <2>3, <2>4, <3>1, <3>2, SetArrayCases
  <2>6. Good(g) /\ Len(g.array) = i /\ i \in 1 .. Len(g.array)
    BY <1>1, <2>1, <2>5 DEF Grown
  <2>7. InArray(g, i)
    BY <1>1, <2>1, <2>3, <2>6 DEF InArray
  <2>8. Changed(g, u, i, v)
    BY <2>5, <2>6, <2>7, StoredGet
  <2>9. \A x \in Key : RawGet(g, x) = RawGet(t, x)
    BY <2>3, <2>5, GrownGet
  <2> QED BY <2>1, <2>2, <2>8, <2>9 DEF Changed
<1>4. CASE ~(t.array = << >> \/ Elem(t, m) # nil)
  <2>1. PICK i : i = TableLen(t) + 1
    OBVIOUS
  <2>2. u = EraseH([t EXCEPT !.array[i] = v], {i})
    BY <1>4, <2>1, TableAssumption DEF AppendValue
  <2>3. m # 0
    BY <1>1, <1>4, TableFields, EmptySeq DEF Good
  <2>4. m \in DOMAIN t.array /\ t.array[m] = nil
    BY <1>1, <1>4, <2>3 DEF Elem
  <2>5. i \in 1 .. m
    BY <1>1, <2>1, <2>4, TableLenIs
  <2>6. Stored(t, u, i, v)
    BY <2>2, <2>5, StoresInArray
  <2>7. InArray(t, i)
    BY <1>1, <2>5 DEF InArray, IntKey, Below
  <2> QED BY <2>1, <2>5, <2>6, <2>7, StoredGet
<1> QED BY <1>3, <1>4

\* t[k] = v is the abstract assignment, which a loop survives unless the key moves.
LEMMA AssignIsAbstract ==
  ASSUME Below, Inv, NEW k \in Key, NEW v \in Value \cup {nil}, Assign(k, v) \/ AddKey(k, v)
  PROVE  /\ Abstract!Put(k, v)
         /\ Assign(k, v) => Abstract!Replace(k, v) \/ Abstract!Assign(k, v)
         /\ AddKey(k, v) => Abstract!Assign(k, v)
<1>1. Good(tb) /\ Len(tb.array) <= MaxInt /\ loop \in [Traversal -> LoopState]
  BY DEF Inv
<1>2. PICK u : u = tb'
  OBVIOUS
<1>3. u = RawSet(tb, k, v)
  BY <1>2 DEF Assign, AddKey
<1>4. Abstract!Put(k, v)
  <2>1. Changed(tb, u, k, v)
    BY <1>1, <1>3, RawSetGet
  <2>2. ~TwoHomes(tb) => ~TwoHomes(u)
    BY <1>1, <1>3, RawSetOneHome
  <2> QED BY <1>2, <2>1, <2>2, ChangedPuts
<1>5. Abandon => Abstract!Assign(k, v)
  BY <1>4, AbandonForgets DEF Abstract!Assign
<1>6. ASSUME Assign(k, v), Allowed(tb') PROVE Abstract!Replace(k, v)
  <2>1. [x \in Key |-> RawGet(tb, x)][k] # nil
    BY <1>6 DEF Assign
  <2>2. Abstract!Live' = LiveKeys(u)
    <3>1. Abstract!Live' = {x \in Key : [y \in Key |-> RawGet(u, y)][x] # nil}
      BY <1>2 DEF Abstract!Live, Abstract!Key, Abstract!IntKey, Key, IntKey
    <3> QED BY <3>1 DEF LiveKeys
  <2>3. ASSUME NEW l \in Traversal
        PROVE  /\ loop'[l].st = loop[l].st /\ loop'[l].seen = loop[l].seen
               /\ loop'[l].owed = loop[l].owed \cap LiveKeys(u)
    <3>1. loop[l] \in LoopState
      BY <1>1
    <3>2. loop'[l] = [loop[l] EXCEPT !.owed = loop[l].owed \cap LiveKeys(u)]
      BY <1>2, <1>6 DEF Allowed
    <3> QED BY <3>1, <3>2 DEF LoopState
  <2>4. [l \in Traversal |->
           [st |-> loop[l].st, seen |-> loop[l].seen, owed |-> loop[l].owed]]' =
        [l \in Traversal |->
           [[st |-> loop[l].st, seen |-> loop[l].seen, owed |-> loop[l].owed]
              EXCEPT !.owed = @ \cap Abstract!Live']]
    BY <2>2, <2>3
  <2> QED BY <1>4, <2>1, <2>4 DEF Abstract!Replace
<1>7. Assign(k, v) => Abandon \/ Allowed(tb')
  BY DEF Assign
<1>8. AddKey(k, v) => Abandon
  BY DEF AddKey
<1> QED BY <1>4, <1>5, <1>6, <1>7, <1>8

\* The length that the length operator returns is one of the abstract lengths.
LEMMA LengthIsAbstract ==
  ASSUME Below, Inv
  PROVE  Abstract!IsLength(TableLen(tb)) /\ TableLen(tb) \in 0 .. MaxInt
<1>1. Good(tb) /\ Len(tb.array) <= MaxInt
  BY DEF Inv
<1>2. Len(tb.array) \in Nat /\ MaxInt \in Nat /\ 1 .. Len(tb.array) \subseteq IntKey
      /\ \A k \in Key : InArray(tb, k) <=> k \in 1 .. Len(tb.array)
  BY <1>1, ArrayKeys
<1>3. PICK n : n = TableLen(tb)
  OBVIOUS
<1>4. n \in 0 .. Len(tb.array) /\ (n # 0 => tb.array[n] # nil)
  BY <1>1, <1>3, TableLenIs
<1>5. n # 0 => n \in Key /\ RawGet(tb, n) # nil
  <2> SUFFICES ASSUME n # 0 PROVE n \in Key /\ RawGet(tb, n) # nil
    OBVIOUS
  <2>1. n \in 1 .. Len(tb.array)
    BY <1>2, <1>4
  <2>2. n \in Key /\ InArray(tb, n)
    BY <1>2, <2>1 DEF Key
  <2> QED BY <1>1, <1>4, <2>2, RawGetIs
<1>6. n \in 0 .. MaxInt
  BY <1>1, <1>2, <1>4
<1> QED BY <1>3, <1>5, <1>6 DEF Abstract!IsLength

\* table.insert(t, v) gives the key after the length its value.
LEMMA AppendIsAbstract ==
  ASSUME Below, Inv, NEW v \in Value, tableAppend(v)
  PROVE  Abstract!Append(TableLen(tb), v)
<1>1. Good(tb) /\ Len(tb.array) <= MaxInt
  BY DEF Inv
<1>2. Len(tb.array) \in Nat /\ MaxInt \in Nat /\ TableLen(tb) \in Nat
      /\ 1 .. Len(tb.array) \subseteq IntKey
      /\ \A k \in Key : InArray(tb, k) <=> k \in 1 .. Len(tb.array)
  BY <1>1, ArrayKeys, TableLenIs
<1>3. PICK u : u = tb'
  OBVIOUS
<1>4. u = AppendValue(tb, v) /\ TableLen(tb) < MaxInt /\ Abandon
  BY <1>3 DEF tableAppend
<1>5. PICK i : i = TableLen(tb) + 1
  OBVIOUS
<1>6. i \in Key
  BY <1>2, <1>4, <1>5 DEF Key, IntKey
<1>7. Changed(tb, u, i, v)
  BY <1>1, <1>4, <1>5, AppendGet
<1>8. ~TwoHomes(tb) => ~TwoHomes(u)
  BY <1>1, <1>4, AppendOneHome
<1>9. Abstract!Put(i, v)
  BY <1>3, <1>6, <1>7, <1>8, ChangedPuts
<1>10. Abstract!Assign(TableLen(tb) + 1, v)
  BY <1>4, <1>5, <1>9, AbandonForgets DEF Abstract!Assign
<1> QED BY <1>4, <1>10, LengthIsAbstract DEF Abstract!Append

\* A string key reads as before, whatever happens to the list.
LEMMA StringsStay ==
  ASSUME NEW t, Good(t), NEW u, Good(u), NEW x \in Key, x \notin IntKey, u.hash[x] = t.hash[x]
  PROVE  RawGet(u, x) = RawGet(t, x)
<1>1. ~InArray(t, x) /\ ~InArray(u, x)
  BY DEF InArray
<1> QED BY <1>1, RawGetIs

\* In a table with two homes for a key, a change of the list is one the abstract table
\* does not describe.
LEMMA Garbles ==
  ASSUME TwoHomes(tb), NEW u, u = tb', \A x \in Key : x \notin IntKey => RawGet(u, x) = RawGet(tb, x)
  PROVE  Abstract!Garble
<1>1. \A x \in Abstract!Key \ Abstract!IntKey :
        [k \in Key |-> RawGet(u, k)][x] = [k \in Key |-> RawGet(tb, k)][x]
  BY DEF Abstract!Key, Abstract!IntKey, Key, IntKey
<1>2. \A x \in Abstract!Key \ Abstract!IntKey :
        ([k \in Key |-> RawGet(tb, k)]')[x] = [k \in Key |-> RawGet(tb, k)][x]
  BY <1>1
<1> QED BY <1>2 DEF Abstract!Garble

\* table.insert(t, pos, v) is the abstract insertion.
LEMMA InsertIsAbstract ==
  ASSUME Below, Inv, NEW pos \in 1 .. MaxInt, NEW v \in Value, tableInsert(pos, v)
  PROVE  Abstract!Insert(TableLen(tb), pos, v)
<1>1. Good(tb) /\ Len(tb.array) <= MaxInt
  BY DEF Inv
<1>2. PICK u : u = tb'
  OBVIOUS
<1>3. u = InsertWithCost(tb, pos, v) /\ pos <= TableLen(tb) + 1 /\ Len(tb.array) < MaxInt /\ Abandon
  BY <1>2 DEF tableInsert
<1>4. PICK n : n = TableLen(tb)
  OBVIOUS
<1>5. n \in 0 .. Len(tb.array) /\ Len(tb.array) \in Nat /\ MaxInt \in Nat
  BY <1>1, <1>4, TableLenIs, ArrayKeys
<1>6. n < MaxInt /\ pos \in 1 .. n + 1
  BY <1>3, <1>4, <1>5
<1>7. CASE ~TwoHomes(tb)
  <2>1. ASSUME NEW x \in Key
        PROVE  RawGet(u, x) = IF x = pos THEN v
                              ELSE IF x \in pos + 1 .. n + 1
                                   THEN [k \in Key |-> RawGet(tb, k)][x - 1]
                              ELSE RawGet(tb, x)
    <3>1. RawGet(u, x) = IF x = pos THEN v
                         ELSE IF x \in IntKey /\ pos < x /\ x <= n + 1 THEN RawGet(tb, x - 1)
                         ELSE RawGet(tb, x)
      BY <1>1, <1>3, <1>4, <1>7, InsertGet
    <3>2. x \in pos + 1 .. n + 1 <=> x \in IntKey /\ pos < x /\ x <= n + 1
      BY <1>5, <1>6 DEF IntKey
    <3>3. x \in pos + 1 .. n + 1 => x - 1 \in Key
      BY <1>5, <1>6 DEF Key, IntKey
    <3> QED BY <3>1, <3>2, <3>3
  <2>2. [k \in Key |-> RawGet(u, k)] =
          [x \in Abstract!Key |-> IF x = pos THEN v
                                  ELSE IF x \in pos + 1 .. n + 1
                                       THEN [k \in Key |-> RawGet(tb, k)][x - 1]
                                  ELSE [k \in Key |-> RawGet(tb, k)][x]]
    BY <2>1 DEF Abstract!Key, Abstract!IntKey, Key, IntKey
  <2>3. [k \in Key |-> RawGet(tb, k)]' = [k \in Key |-> RawGet(u, k)]
    BY <1>2
  <2> QED BY <1>3, <1>4, <1>6, <1>7, <2>2, <2>3, AbandonForgets, LengthIsAbstract
          DEF Abstract!Insert
<1>8. CASE TwoHomes(tb)
  <2>1. ASSUME NEW x \in Key, x \notin IntKey PROVE RawGet(u, x) = RawGet(tb, x)
    <3>1. CASE pos > Len(tb.array)
      <4>1. u = RawSet(tb, pos, v) /\ pos \in Key /\ x # pos
        BY <1>3, <2>1, <3>1 DEF InsertWithCost, Key, IntKey
      <4>2. Changed(tb, u, pos, v)
        BY <1>1, <4>1, RawSetGet
      <4> QED BY <2>1, <4>1, <4>2 DEF Changed
    <3>2. CASE pos \in 1 .. Len(tb.array)
      <4>1. PICK a : a = InsertAt(tb.array, pos, v)
        OBVIOUS
      <4>2. PICK w : w = [tb EXCEPT !.array = a]
        OBVIOUS
      <4>3. Erased(w, u, {pos}) /\ SameHash(tb, w)
        BY <1>1, <1>3, <3>2, <4>1, <4>2, InsertCases
      <4>4. Good(u) /\ u.hash[x] = tb.hash[x]
        BY <2>1, <4>3 DEF Erased, SameHash, IntKey
      <4> QED BY <1>1, <2>1, <4>4, StringsStay
    <3> QED BY <1>5, <3>1, <3>2
  <2>2. Abstract!Garble
    BY <1>2, <1>8, <2>1, Garbles
  <2> QED BY <1>3, <1>4, <1>6, <2>2, AbandonForgets, LengthIsAbstract DEF Abstract!Insert
<1> QED BY <1>7, <1>8

\* RemoveAt: the elements after place i move down by one.
LEMMA RemoveAtIs ==
  ASSUME NEW T, NEW s \in Seq(T), NEW i \in 1 .. Len(s)
  PROVE  /\ RemoveAt(s, i) \in Seq(T)
         /\ Len(RemoveAt(s, i)) = Len(s) - 1
         /\ \A j \in 1 .. Len(s) - 1 : RemoveAt(s, i)[j] = IF j < i THEN s[j] ELSE s[j + 1]
<1> DEFINE a == SubSeq(s, 1, i - 1)
           c == SubSeq(s, i + 1, Len(s))
<1>1. a \in Seq(T) /\ Len(a) = i - 1 /\ \A j \in 1 .. i - 1 : a[j] = s[j]
  OBVIOUS
<1>2. c \in Seq(T) /\ Len(c) = Len(s) - i /\ \A j \in 1 .. Len(s) - i : c[j] = s[i + j]
  OBVIOUS
<1>3. RemoveAt(s, i) = a \o c
  BY DEF RemoveAt
<1> HIDE DEF a, c
<1>4. a \o c \in Seq(T) /\ Len(a \o c) = Len(s) - 1
  <2>1. a \in Seq(T) /\ c \in Seq(T)
    BY <1>1, <1>2
  <2>2. a \o c \in Seq(T) /\ Len(a \o c) = Len(a) + Len(c)
    BY <2>1, ConcatProperties
  <2> QED BY <1>1, <1>2, <2>2
<1>5. ASSUME NEW j \in 1 .. Len(s) - 1
      PROVE  (a \o c)[j] = IF j < i THEN s[j] ELSE s[j + 1]
  <2>1. CASE j < i
    BY <1>1, <1>2, <2>1
  <2>2. CASE ~(j < i)
    <3>1. (a \o c)[j] = c[j - Len(a)] /\ j - Len(a) \in 1 .. Len(s) - i
      BY <1>1, <1>2, <2>2
    <3>2. c[j - Len(a)] = s[j + 1]
      BY <1>1, <1>2, <3>1
    <3> QED BY <2>2, <3>1, <3>2
  <2> QED BY <2>1, <2>2
<1> QED BY <1>3, <1>4, <1>5

\* Reading after place p of the array part was removed.
LEMMA RemovedGet ==
  ASSUME Below, NEW t, Good(t), Len(t.array) <= MaxInt, ~TwoHomes(t),
         NEW p \in 1 .. Len(t.array), NEW u, Good(u), u.array = RemoveAt(t.array, p),
         u.hash = t.hash, NEW x \in Key
  PROVE  RawGet(u, x) = IF x \in p .. Len(t.array) - 1 THEN RawGet(t, x + 1)
                        ELSE IF x = Len(t.array) THEN nil
                        ELSE RawGet(t, x)
<1> DEFINE m == Len(t.array)
<1>1. m \in Nat /\ MaxInt \in Nat /\ 1 .. m \subseteq IntKey
      /\ t.array \in Seq(Value \cup {nil})
      /\ (\A k \in Key : InArray(t, k) <=> k \in 1 .. m)
      /\ (\A k \in 1 .. m : t.hash[k] = nil)
  BY ArrayKeys, TableFields DEF Good
<1>2. Len(u.array) = m - 1
      /\ \A j \in 1 .. m - 1 : u.array[j] = IF j < p THEN t.array[j] ELSE t.array[j + 1]
  BY <1>1, RemoveAtIs
<1>3. Len(u.array) <= MaxInt
  BY <1>1, <1>2
<1>4. InArray(u, x) <=> x \in 1 .. m - 1
  BY <1>2, <1>3, ArrayKeys
<1>5. \A k \in 1 .. m : k \in Key /\ RawGet(t, k) = t.array[k]
  <2> SUFFICES ASSUME NEW k \in 1 .. m PROVE k \in Key /\ RawGet(t, k) = t.array[k]
    OBVIOUS
  <2>1. k \in Key
    BY <1>1 DEF Key
  <2>2. InArray(t, k) /\ t.hash[k] = nil
    BY <1>1, <2>1
  <2> QED BY <2>1, <2>2, RawGetIs
<1>6. CASE x \in 1 .. m - 1
  <2>1. u.hash[x] = nil
    BY <1>1, <1>6
  <2>2. RawGet(u, x) = u.array[x]
    BY <1>4, <1>6, <2>1, RawGetIs
  <2>3. x \in 1 .. m /\ x + 1 \in 1 .. m /\ x # m
    BY <1>1, <1>6
  <2>4. x \in p .. m - 1 <=> ~(x < p)
    BY <1>1, <1>6
  <2>5. u.array[x] = IF x < p THEN t.array[x] ELSE t.array[x + 1]
    BY <1>2, <1>6
  <2> QED BY <1>5, <2>2, <2>3, <2>4, <2>5
<1>7. CASE x \notin 1 .. m - 1
  <2>1. RawGet(u, x) = t.hash[x]
    BY <1>4, <1>7, RawGetIs
  <2>2. x \notin p .. m - 1
    BY <1>1, <1>7
  <2>3. CASE x = m
    <3>1. x \in 1 .. m
      BY <1>1, <2>3
    <3>2. t.hash[x] = nil
      BY <1>1, <3>1
    <3> QED BY <2>1, <2>2, <2>3, <3>2
  <2>4. CASE x # m
    <3>1. x \notin 1 .. m
      BY <1>1, <1>7, <2>4
    <3>2. RawGet(t, x) = t.hash[x]
      BY <1>1, <3>1, RawGetIs
    <3> QED BY <2>1, <2>2, <2>4, <3>2
  <2> QED BY <2>3, <2>4
<1> QED BY <1>6, <1>7

\* Reading after RemoveWithCost: the keys after pos moved down by one and the last one
\* is gone; past the end of the list nothing happened.  With no position (0) the last
\* slot of the array part is removed, with the last element only if that is in it.
LEMMA RemoveGet ==
  ASSUME Below, NEW t, Good(t), Len(t.array) <= MaxInt, ~TwoHomes(t),
         NEW pos \in 0 .. MaxInt + 1, pos <= TableLen(t) + 1, NEW u, u = RemoveWithCost(t, pos),
         NEW n, n = TableLen(t)
  PROVE  LET Taken(p) == \A x \in Key :
                            RawGet(u, x) = IF x \notin p .. n THEN RawGet(t, x)
                                           ELSE IF x = n THEN nil
                                           ELSE RawGet(t, x + 1)
         IN /\ pos # 0 => Taken(pos)
            /\ pos = 0 => Taken(n) \/ \A x \in Key : RawGet(u, x) = RawGet(t, x)
            /\ ~TwoHomes(u)
<1> DEFINE m == Len(t.array)
           Taken(p) == \A x \in Key :
                          RawGet(u, x) = IF x \notin p .. n THEN RawGet(t, x)
                                         ELSE IF x = n THEN nil
                                         ELSE RawGet(t, x + 1)
<1>1. m \in Nat /\ MaxInt \in Nat /\ m <= MaxInt /\ n \in 0 .. m
      /\ t.array \in Seq(Value \cup {nil}) /\ 1 .. m \subseteq Key
      /\ \A k \in Key : k \in Nat => k \in 1 .. MaxInt
  <2>1. m \in Nat /\ MaxInt \in Nat /\ 1 .. m \subseteq IntKey
    BY ArrayKeys
  <2>2. \A k \in Key : k \in Nat => k \in 1 .. MaxInt
    BY TableAssumption DEF Key, IntKey
  <2> QED BY <2>1, <2>2, TableLenIs, TableFields DEF Good, Key
<1>2. \A k \in n + 1 .. m : k \in Key /\ RawGet(t, k) = nil
  <2> SUFFICES ASSUME NEW k \in n + 1 .. m PROVE k \in Key /\ RawGet(t, k) = nil
    OBVIOUS
  <2>1. k \in 1 .. m /\ k \in Key /\ t.array[k] = nil
    BY <1>1, TableLenIs
  <2>2. InArray(t, k) /\ t.hash[k] = nil
    BY <2>1, ArrayKeys
  <2> QED BY <2>1, <2>2, RawGetIs
<1>3. ~TwoHomes(u)
  <2>1. Good(u) /\ Len(u.array) <= m /\ u.hash = t.hash
    BY RemoveGood DEF SameHash
  <2> QED BY <2>1, StillOneHome
<1>4. CASE pos > m \/ t.array = << >>
  <2>1. u = t
    BY <1>4 DEF RemoveWithCost
  <2>2. t.array = << >> => m = 0
    OBVIOUS
  <2>3. ASSUME pos # 0 PROVE Taken(pos)
    <3>1. n < pos
      BY <1>1, <1>4, <2>2, <2>3
    <3>2. \A x : x \notin pos .. n
      BY <1>1, <3>1
    <3> QED BY <2>1, <3>2
  <2> HIDE DEF Taken
  <2> QED BY <1>3, <2>1, <2>3 DEF Taken
<1>5. CASE ~(pos > m \/ t.array = << >>)
  <2>1. PICK p : p = IF pos = 0 THEN m ELSE pos
    OBVIOUS
  <2>2. u = [t EXCEPT !.array = RemoveAt(t.array, p)]
    BY <1>5, <2>1 DEF RemoveWithCost
  <2>3. m # 0
    BY <1>1, <1>5, EmptySeq
  <2>4. p \in 1 .. m
    BY <1>1, <1>5, <2>1, <2>3
  <2>5. RemoveAt(t.array, p) \in Seq(Value \cup {nil})
    BY <1>1, <2>4, RemoveAtIs
  <2>6. Good(u) /\ u.array = RemoveAt(t.array, p) /\ u.hash = t.hash
    <3>1. PICK a : a = RemoveAt(t.array, p)
      OBVIOUS
    <3>2. u = [t EXCEPT !.array = a] /\ a \in Seq(Value \cup {nil})
      BY <2>2, <2>5, <3>1
    <3>3. Good(u) /\ u.array = a /\ SameHash(t, u)
      BY <3>2, WithArray
    <3> QED BY <3>1, <3>3 DEF SameHash
  <2>7. \A x \in Key : RawGet(u, x) = IF x \in p .. m - 1 THEN RawGet(t, x + 1)
                                      ELSE IF x = m THEN nil
                                      ELSE RawGet(t, x)
    BY <2>4, <2>6, RemovedGet
  <2>8. ASSUME p <= n + 1 PROVE Taken(p)
    <3> SUFFICES ASSUME NEW x \in Key
                 PROVE  RawGet(u, x) = IF x \notin p .. n THEN RawGet(t, x)
                                       ELSE IF x = n THEN nil
                                       ELSE RawGet(t, x + 1)
      OBVIOUS
    <3>1. CASE x \in p .. m - 1
      <4>1. RawGet(u, x) = RawGet(t, x + 1)
        BY <2>7, <3>1
      <4>2. CASE x < n
        BY <1>1, <2>4, <3>1, <4>1, <4>2
      <4>3. CASE x = n
        <5>1. x + 1 \in n + 1 .. m /\ x \in p .. n
          BY <1>1, <2>4, <3>1, <4>3
        <5> QED BY <1>2, <4>1, <4>3, <5>1
      <4>4. CASE x > n
        <5>1. x + 1 \in n + 1 .. m /\ x \in n + 1 .. m /\ x \notin p .. n
          BY <1>1, <2>4, <3>1, <4>4
        <5> QED BY <1>2, <4>1, <5>1
      <4> QED BY <1>1, <2>4, <3>1, <4>2, <4>3, <4>4
    <3>2. CASE x = m
      <4>1. x \notin p .. m - 1
        BY <1>1, <2>4, <3>2
      <4>2. RawGet(u, x) = nil
        BY <2>7, <3>2, <4>1
      <4>3. CASE n = m
        BY <1>1, <2>4, <3>2, <4>2, <4>3
      <4>4. CASE n # m
        <5>1. x \in n + 1 .. m /\ x \notin p .. n
          BY <1>1, <2>4, <3>2, <4>4
        <5> QED BY <1>2, <4>2, <5>1
      <4> QED BY <4>3, <4>4
    <3>3. CASE x \notin p .. m - 1 /\ x # m
      <4>1. x \notin p .. n
        BY <1>1, <2>4, <3>3
      <4> QED BY <2>7, <3>3, <4>1
    <3> QED BY <3>1, <3>2, <3>3
  <2>9. ASSUME n < m, pos = 0 PROVE \A x \in Key : RawGet(u, x) = RawGet(t, x)
    <3>1. \A x \in Key : x \notin p .. m - 1
      BY <1>1, <2>1, <2>9
    <3>2. m \in n + 1 .. m
      BY <1>1, <2>9
    <3> QED BY <1>2, <2>7, <3>1, <3>2
  <2> HIDE DEF Taken
  <2>10. pos # 0 => Taken(pos)
    BY <2>1, <2>8
  <2>11. ASSUME pos = 0, n = m PROVE Taken(n)
    BY <1>1, <2>1, <2>8, <2>11
  <2> QED BY <1>1, <1>3, <2>9, <2>10, <2>11 DEF Taken
<1> QED BY <1>4, <1>5

\* table.remove is the abstract removal.
LEMMA RemoveIsAbstract ==
  ASSUME Below, Inv, NEW pos \in 0 .. MaxInt + 1, tb' = RemoveWithCost(tb, pos), Abandon
  PROVE  /\ tableRemove(pos) => Abstract!Remove(TableLen(tb), pos)
         /\ pos = 0 => Abstract!RemoveLast(TableLen(tb))
<1>1. Good(tb) /\ Len(tb.array) <= MaxInt
  BY DEF Inv
<1>2. PICK u : u = tb'
  OBVIOUS
<1>3. u = RemoveWithCost(tb, pos)
  BY <1>2
<1>4. PICK n : n = TableLen(tb)
  OBVIOUS
<1>5. n \in 0 .. Len(tb.array) /\ Len(tb.array) \in Nat /\ MaxInt \in Nat
  BY <1>1, <1>4, TableLenIs, ArrayKeys
<1>6. [k \in Key |-> RawGet(tb, k)]' = [k \in Key |-> RawGet(u, k)]
  BY <1>2
<1>7. ASSUME NEW p \in Nat,
             \A x \in Key : RawGet(u, x) = IF x \notin p .. n THEN RawGet(tb, x)
                                           ELSE IF x = n THEN nil
                                           ELSE RawGet(tb, x + 1)
      PROVE  Abstract!TakeOut(n, p)
  <2>1. ASSUME NEW x \in Key, x \in p .. n, x # n
        PROVE  RawGet(tb, x + 1) = [k \in Key |-> RawGet(tb, k)][x + 1]
    <3>1. x \in IntKey /\ x + 1 \in IntKey
      BY <1>1, <1>5, <2>1, TableAssumption DEF Key, IntKey
    <3> QED BY <3>1 DEF Key
  <2>2. [k \in Key |-> RawGet(u, k)] =
          [x \in Abstract!Key |-> IF x \notin p .. n THEN [k \in Key |-> RawGet(tb, k)][x]
                                  ELSE IF x = n THEN nil
                                  ELSE [k \in Key |-> RawGet(tb, k)][x + 1]]
    BY <1>7, <2>1 DEF Abstract!Key, Abstract!IntKey, Key, IntKey
  <2> QED BY <1>6, <2>2 DEF Abstract!TakeOut
<1>8. tableRemove(pos) => pos = n \/ pos \in 1 .. n + 1
  BY <1>4, <1>5 DEF tableRemove
<1>9. CASE ~TwoHomes(tb)
  <2>1. (~TwoHomes(tb))' <=> ~TwoHomes(u)
    BY <1>2 DEF TwoHomes
  <2>2. ASSUME tableRemove(pos) PROVE Abstract!Remove(n, pos)
    <3>1. pos <= n + 1 /\ pos \in Nat
      BY <1>5, <1>8, <2>2
    <3>2. ~TwoHomes(u) /\ (pos # 0 => Abstract!TakeOut(n, pos))
      BY <1>1, <1>3, <1>4, <1>7, <1>9, <3>1, RemoveGet
    <3>3. ASSUME pos = 0 PROVE Abstract!TakeOut(n, pos)
      <4>1. n = 0
        BY <1>5, <1>8, <2>2, <3>3
      <4>2. \A x \in Key : x \notin 0 .. 0
        BY <1>5, TableAssumption DEF Key, IntKey
      <4>3. \/ \A x \in Key : RawGet(u, x) = IF x \notin n .. n THEN RawGet(tb, x)
                                              ELSE IF x = n THEN nil
                                              ELSE RawGet(tb, x + 1)
            \/ \A x \in Key : RawGet(u, x) = RawGet(tb, x)
        BY <1>1, <1>3, <1>4, <1>9, <3>1, <3>3, RemoveGet
      <4>4. \A x \in Key : RawGet(u, x) = RawGet(tb, x)
        BY <4>1, <4>2, <4>3
      <4> QED BY <1>5, <1>7, <3>3, <4>1, <4>2, <4>4
    <3> QED BY <1>4, <1>8, <1>9, <2>1, <2>2, <3>2, <3>3, AbandonForgets, LengthIsAbstract
            DEF Abstract!Remove
  <2>3. ASSUME pos = 0 PROVE Abstract!RemoveLast(n)
    <3>1. pos <= n + 1 /\ n \in Nat
      BY <1>5, <2>3
    <3>2. ~TwoHomes(u)
      BY <1>1, <1>3, <1>4, <1>9, <3>1, RemoveGet
    <3>3. Abstract!TakeOut(n, n) \/ \A x \in Key : RawGet(u, x) = RawGet(tb, x)
      BY <1>1, <1>3, <1>4, <1>7, <1>9, <2>3, <3>1, RemoveGet
    <3>4. (\A x \in Key : RawGet(u, x) = RawGet(tb, x)) =>
            [k \in Key |-> RawGet(tb, k)]' = [k \in Key |-> RawGet(tb, k)]
      BY <1>6
    <3> QED BY <1>4, <1>9, <2>1, <3>2, <3>3, <3>4, AbandonForgets, LengthIsAbstract
            DEF Abstract!RemoveLast
  <2> QED BY <1>4, <2>2, <2>3
<1>10. CASE TwoHomes(tb)
  <2>1. ASSUME NEW x \in Key, x \notin IntKey PROVE RawGet(u, x) = RawGet(tb, x)
    <3>1. Good(u) /\ u.hash = tb.hash
      BY <1>1, <1>3, RemoveGood DEF SameHash
    <3> QED BY <1>1, <2>1, <3>1, StringsStay
  <2>2. Abstract!Garble
    BY <1>2, <1>10, <2>1, Garbles
  <2> QED BY <1>4, <1>8, <2>2, AbandonForgets, LengthIsAbstract
          DEF Abstract!Remove, Abstract!RemoveLast
<1> QED BY <1>9, <1>10

\* A loop starts with every live key owed to it.
LEMMA StartIsAbstract ==
  ASSUME Inv, NEW l \in Traversal, StartLoop(l)
  PROVE  Abstract!Start(l)
<1>1. loop \in [Traversal -> LoopState]
  BY DEF Inv
<1>2. tb' = tb /\ ~TwoHomes(tb) /\ loop[l].st # "running"
      /\ loop' = [loop EXCEPT ![l] = [Idle EXCEPT !.st = "running", !.owed = LiveKeys(tb)]]
  BY DEF StartLoop, Running
<1>3. Abstract!Live = LiveKeys(tb)
  BY DEF Abstract!Live, Abstract!Key, Abstract!IntKey, Key, IntKey, LiveKeys
<1>4. loop'[l].st = "running" /\ loop'[l].seen = {} /\ loop'[l].owed = LiveKeys(tb)
      /\ \A m \in Traversal : m # l => loop'[m] = loop[m]
  BY <1>1, <1>2 DEF Idle
<1>5. [m \in Traversal |->
         [st |-> loop[m].st, seen |-> loop[m].seen, owed |-> loop[m].owed]]' =
      [[m \in Traversal |-> [st |-> loop[m].st, seen |-> loop[m].seen, owed |-> loop[m].owed]]
         EXCEPT ![l] = [st |-> "running", seen |-> {}, owed |-> Abstract!Live]]
  BY <1>3, <1>4
<1>6. [k \in Key |-> RawGet(tb, k)]' = [k \in Key |-> RawGet(tb, k)]
      /\ (~TwoHomes(tb))' = ~TwoHomes(tb)
  BY <1>2
<1> QED BY <1>2, <1>5, <1>6 DEF Abstract!Start

\* A round returns a live key that the loop did not return before, or ends the loop when
\* nothing is owed to it; the table reads as before.
LEMMA RoundIsAbstract ==
  ASSUME Below, Inv, LoopInv, LoopInv', NEW l \in Traversal, Next1(l)
  PROVE  Abstract!End(l) \/ \E k \in Abstract!Key : Abstract!Visit(l, k)
<1>1. Good(tb) /\ Len(tb.array) <= MaxInt /\ loop \in [Traversal -> LoopState]
  BY DEF Inv
<1>2. PICK r : r = loop[l]
  OBVIOUS
<1>3. r \in LoopState /\ r.st = "running" /\ ~r.dup
  BY <1>1, <1>2 DEF Next1, Running, LoopInv, LoopOK
<1>4. PICK q : q = loop'[l]
  OBVIOUS
<1>5. ~q.dup /\ q.st # "invalid" /\ (q.st = "done" => q.owed \subseteq q.seen)
  BY <1>4 DEF LoopInv, LoopOK
<1>6. r.cur \in Key \cup {nil}
  BY <1>3 DEF LoopState
<1>7. isValidNextKey(tb, r.cur)
  <2> SUFFICES ASSUME ~isValidNextKey(tb, r.cur) PROVE FALSE
    OBVIOUS
  <2>1. loop' = [loop EXCEPT ![l] = [r EXCEPT !.st = "invalid"]]
    BY <1>2 DEF Next1
  <2>2. q = [r EXCEPT !.st = "invalid"]
    BY <1>1, <1>4, <2>1
  <2> QED BY <1>3, <1>5, <2>2 DEF LoopState
<1>8. PICK n : n = NextKey(tb, r.cur)
  OBVIOUS
<1>9. PICK u : u = tb'
  OBVIOUS
<1>10. u = AfterNext(tb, r.cur) /\ loop' = [loop EXCEPT ![l] = Returned(r, n)]
  BY <1>2, <1>7, <1>8, <1>9, Rounds
<1>11. q = Returned(r, n) /\ \A m \in Traversal : m # l => loop'[m] = loop[m]
  BY <1>1, <1>4, <1>10
<1>12. Good(u) /\ u.array = tb.array /\ u.hash = tb.hash /\ n \in Key \cup {nil}
  BY <1>1, <1>6, <1>7, <1>8, <1>10, AfterNextGood
<1>13. /\ [k \in Key |-> RawGet(tb, k)]' = [k \in Key |-> RawGet(tb, k)]
       /\ (~TwoHomes(tb))' = ~TwoHomes(tb)
  <2>1. \A k \in Key : RawGet(u, k) = RawGet(tb, k)
    BY <1>12 DEF RawGet, Elem
  <2>2. TwoHomes(u) <=> TwoHomes(tb)
    BY <1>12 DEF TwoHomes
  <2>3. (~TwoHomes(tb))' <=> ~TwoHomes(u)
    BY <1>9 DEF TwoHomes
  <2> QED BY <1>9, <2>1, <2>2, <2>3
<1>14. CASE n = nil
  <2>1. q.st = "done" /\ q.seen = r.seen /\ q.owed = r.owed
    BY <1>3, <1>11, <1>14 DEF Returned, LoopState
  <2>2. [m \in Traversal |->
           [st |-> loop[m].st, seen |-> loop[m].seen, owed |-> loop[m].owed]]' =
        [[m \in Traversal |-> [st |-> loop[m].st, seen |-> loop[m].seen, owed |-> loop[m].owed]]
           EXCEPT ![l].st = "done"]
    BY <1>2, <1>4, <1>11, <2>1
  <2> QED BY <1>2, <1>3, <1>5, <1>13, <2>1, <2>2 DEF Abstract!End
<1>15. CASE n # nil
  <2>1. n \in Key
    BY <1>12, <1>15
  <2>2. q = [r EXCEPT !.cur = n, !.seen = r.seen \cup {n}, !.dup = r.dup \/ n \in r.seen]
    BY <1>11, <1>15 DEF Returned
  <2>3. q.st = r.st /\ q.owed = r.owed /\ q.seen = r.seen \cup {n}
    BY <1>3, <2>2 DEF LoopState
  <2>4. q.dup = (r.dup \/ n \in r.seen)
    BY <1>3, <2>2 DEF LoopState
  <2>5. n \notin r.seen
    BY <1>5, <2>4
  <2>6. RawGet(tb, n) # nil
    <3>1. CASE FollowsInArray(tb, r.cur, n)
      <4>1. n \in 1 .. Len(tb.array) /\ tb.array[n] # nil
        BY <1>1, <1>6, <3>1, ArrayAfterNat DEF FollowsInArray, ArrayAfter
      <4>2. InArray(tb, n)
        BY <1>1, <2>1, <4>1, ArrayKeys
      <4> QED BY <1>1, <2>1, <4>1, <4>2, RawGetIs
    <3>2. CASE FollowsInHash(tb, r.cur, n)
      <4>1. tb.hash[n] # nil
        BY <3>2 DEF FollowsInHash
      <4> QED BY <1>1, <2>1, <4>1, RawGetIs
    <3> QED BY <1>1, <1>6, <1>7, <1>8, <1>15, <3>1, <3>2, NextKeyIs
  <2>7. [m \in Traversal |->
           [st |-> loop[m].st, seen |-> loop[m].seen, owed |-> loop[m].owed]]' =
        [[m \in Traversal |-> [st |-> loop[m].st, seen |-> loop[m].seen, owed |-> loop[m].owed]]
           EXCEPT ![l].seen = @ \cup {n}]
    BY <1>2, <1>4, <1>11, <2>3
  <2>8. Abstract!Visit(l, n)
    BY <1>2, <1>3, <1>13, <2>1, <2>5, <2>6, <2>7 DEF Abstract!Visit
  <2> QED BY <2>1, <2>8 DEF Abstract!Key, Abstract!IntKey, Key, IntKey
<1> QED BY <1>14, <1>15

\* The conjuncts of ImplementsTable that are about one operation each.
Operations ==
  /\ \A k \in Key, v \in Value \cup {nil} :
       /\ Assign(k, v) => Abstract!Replace(k, v) \/ Abstract!Assign(k, v)
       /\ AddKey(k, v) => Abstract!Assign(k, v)
  /\ \A v \in Value : tableAppend(v) => Abstract!Append(TableLen(tb), v)
  /\ \A pos \in 1 .. MaxInt, v \in Value :
       tableInsert(pos, v) => Abstract!Insert(TableLen(tb), pos, v)
  /\ \A pos \in 0 .. MaxInt + 1 :
       tableRemove(pos) => Abstract!Remove(TableLen(tb), pos)
  /\ tableRemoveDefault => Abstract!RemoveLast(TableLen(tb))

\* Every operation is the abstract operation of its name.
LEMMA OperationsRefine ==
  ASSUME Below, Inv
  PROVE  Operations
<1>1. ASSUME NEW k \in Key, NEW v \in Value \cup {nil}
      PROVE  /\ Assign(k, v) => Abstract!Replace(k, v) \/ Abstract!Assign(k, v)
             /\ AddKey(k, v) => Abstract!Assign(k, v)
  BY AssignIsAbstract
<1>2. ASSUME NEW pos \in 0 .. MaxInt + 1, tableRemove(pos)
      PROVE  Abstract!Remove(TableLen(tb), pos)
  <2>1. tb' = RemoveWithCost(tb, pos) /\ Abandon
    BY <1>2 DEF tableRemove
  <2> QED BY <1>2, <2>1, RemoveIsAbstract
<1>3. ASSUME tableRemoveDefault PROVE Abstract!RemoveLast(TableLen(tb))
  <2>1. tb' = RemoveWithCost(tb, 0) /\ Abandon
    BY <1>3 DEF tableRemoveDefault
  <2>2. 0 \in 0 .. MaxInt + 1
    BY TableAssumption
  <2> QED BY <2>1, <2>2, RemoveIsAbstract
<1> QED BY <1>1, <1>2, <1>3, AppendIsAbstract, InsertIsAbstract DEF Operations

\* Every step is a step of the abstract table.
LEMMA StepsRefine ==
  ASSUME Below, Inv, LoopInv, LoopInv', [Next]_vars
  PROVE  [Abstract!Next]_Abstract!vars
<1>1. Operations
  BY OperationsRefine
<1>2. TableLen(tb) \in 0 .. MaxInt
  BY LengthIsAbstract
<1>3. PICK n \in 0 .. MaxInt : n = TableLen(tb)
  BY <1>2
<1>4. ASSUME NEW k \in Key, NEW v \in Value \cup {nil}, Assign(k, v) \/ AddKey(k, v)
      PROVE  Abstract!Next
  <2>1. Abstract!Replace(k, v) \/ Abstract!Assign(k, v)
    BY <1>1, <1>4 DEF Operations
  <2>2. k \in Abstract!Key
    BY DEF Abstract!Key, Abstract!IntKey, Key, IntKey
  <2> QED BY <2>1, <2>2 DEF Abstract!Next
<1>5. ASSUME NEW v \in Value, tableAppend(v) PROVE Abstract!Next
  <2>1. Abstract!Append(n, v)
    BY <1>1, <1>3, <1>5 DEF Operations
  <2> QED BY <2>1 DEF Abstract!Next
<1>6. ASSUME NEW pos \in 1 .. MaxInt, NEW v \in Value, tableInsert(pos, v) PROVE Abstract!Next
  <2>1. Abstract!Insert(n, pos, v)
    BY <1>1, <1>3, <1>6 DEF Operations
  <2>2. pos \in Abstract!IntKey
    BY DEF Abstract!IntKey
  <2> QED BY <2>1, <2>2 DEF Abstract!Next
<1>7. ASSUME NEW pos \in 0 .. MaxInt + 1, tableRemove(pos) PROVE Abstract!Next
  <2>1. Abstract!Remove(n, pos)
    BY <1>1, <1>3, <1>7 DEF Operations
  <2> QED BY <2>1 DEF Abstract!Next
<1>8. ASSUME tableRemoveDefault PROVE Abstract!Next
  <2>1. Abstract!RemoveLast(n)
    BY <1>1, <1>3, <1>8 DEF Operations
  <2> QED BY <2>1 DEF Abstract!Next
<1>9. ASSUME NEW l \in Traversal, StartLoop(l) \/ Next1(l) PROVE Abstract!Next
  <2>1. Abstract!Start(l) \/ Abstract!End(l) \/ \E k \in Abstract!Key : Abstract!Visit(l, k)
    BY <1>9, StartIsAbstract, RoundIsAbstract
  <2> QED BY <2>1 DEF Abstract!Next
<1>10. ASSUME UNCHANGED vars PROVE UNCHANGED Abstract!vars
  <2>1. tb' = tb /\ loop' = loop
    BY <1>10 DEF vars
  <2> QED BY <2>1 DEF Abstract!vars
<1> QED BY <1>4, <1>5, <1>6, <1>7, <1>8, <1>9, <1>10 DEF Next

\* An empty table is an empty abstract table.
LEMMA InitRefines == Init => Abstract!Init
<1> SUFFICES ASSUME Init PROVE Abstract!Init
  OBVIOUS
<1>1. tb.array = << >> /\ tb.hash = [k \in Key |-> nil] /\ loop = [l \in Traversal |-> Idle]
  BY DEF Init
<1>2. \A k \in Key : RawGet(tb, k) = nil
  BY <1>1 DEF RawGet, Elem
<1>3. ~TwoHomes(tb)
  BY <1>1 DEF TwoHomes, Key
<1>4. [k \in Key |-> RawGet(tb, k)] = [k \in Abstract!Key |-> nil]
  BY <1>2 DEF Abstract!Key, Abstract!IntKey, Key, IntKey
<1>5. [l \in Traversal |-> [st |-> loop[l].st, seen |-> loop[l].seen, owed |-> loop[l].owed]] =
      [l \in Traversal |-> [st |-> "idle", seen |-> {}, owed |-> {}]]
  BY <1>1 DEF Idle
<1> QED BY <1>3, <1>4, <1>5 DEF Abstract!Init

\* RawSet, Append, InsertWithCost, RemoveWithCost, Next: below the limit, one traversal
\* at a time, a program sees a function from keys to values.  Each operation changes it
\* as the operation of that name of AbstractTable, whichever part of the table holds a
\* key, wherever the array part ends and however many holes it has.
THEOREM TableIsAFunction == Below /\ Alone => (Spec => ImplementsTable)
<1> SUFFICES ASSUME Below, Alone PROVE Spec => ImplementsTable
  OBVIOUS
<1>1. Inv /\ LoopInv /\ LoopInv' /\ [Next]_vars => [Abstract!Next]_Abstract!vars
  BY StepsRefine
<1>2. Inv => Operations
  BY OperationsRefine
<1>3. Spec => []LoopInv
  BY LoopInvHolds
<1>4. Spec => Abstract!Spec
  BY <1>1, <1>3, InvHolds, InitRefines, PTL DEF Spec, Abstract!Spec
<1>5. Spec => [][Operations]_vars
  BY <1>2, InvHolds, PTL DEF Spec
<1> QED BY <1>4, <1>5 DEF ImplementsTable, Operations
=============================================================================
