------------------------ MODULE TaskSettlementProofs ------------------------
(***************************************************************************)
(* The settlement contract (TaskSettlement), for every number of agents,   *)
(* tasks, milestones and receipts and every reward and bond.  The escrow   *)
(* is a sum over the tasks: the first lemmas are about sums over finite    *)
(* sets, the next about what one transaction does to one task and to the   *)
(* sum, and the theorems state the properties the runs check.              *)
(***************************************************************************)
EXTENDS TaskSettlement, InductionLemmas

-----------------------------------------------------------------------------
(* Sums over finite sets.                                                  *)

\* The sum of g over a finite set.
Sum(g, S) == MapThenSumSet(LAMBDA t : g[t], S)

\* The element a fold takes next.
Pick(s) == CHOOSE x \in s : TRUE

\* f[s] is the sum of g over s, for every subset s of S.
Sums(f, g, S) ==
  /\ f \in [SUBSET S -> Int]
  /\ f[{}] = 0
  /\ \A s \in SUBSET S : s # {} => f[s] = g[Pick(s)] + f[s \ {Pick(s)}]

\* Pick chooses a member.
LEMMA PickIn == \A s : s # {} => Pick(s) \in s
BY Zenon DEF Pick

\* The recursive function behind Sum exists for every finite set.
LEMMA SumsExist ==
  ASSUME NEW S, IsFiniteSet(S), NEW g \in [S -> Int]
  PROVE  \E f : Sums(f, g, S)
<1> DEFINE D(m) == {s \in SUBSET S : Cardinality(s) <= m}
           OK(f, m) == /\ f \in [D(m) -> Int]
                       /\ f[{}] = 0
                       /\ \A s \in D(m) : s # {} => f[s] = g[Pick(s)] + f[s \ {Pick(s)}]
           M == {m \in Nat : \E f : OK(f, m)}
<1>0. \A s \in SUBSET S : IsFiniteSet(s) /\ Cardinality(s) \in Nat /\ (s # {} => Cardinality(s) # 0)
  BY FS_Subset, FS_CardinalityType, FS_EmptySet
<1>1. 0 \in M
  <2>1. D(0) = {{}}
    <3>1. {} \in D(0)
      BY FS_EmptySet
    <3>2. \A s \in D(0) : s = {}
      BY <1>0
    <3> QED BY <3>1, <3>2
  <2>2. OK([s \in D(0) |-> 0], 0)
    BY <2>1
  <2> QED BY <2>2
<1>2. ASSUME NEW m \in Nat, m \in M PROVE m + 1 \in M
  <2>1. PICK f : OK(f, m)
    BY <1>2
  <2> DEFINE h == [s \in D(m + 1) |-> IF s = {} THEN 0 ELSE g[Pick(s)] + f[s \ {Pick(s)}]]
  <2>2. {} \in D(m) /\ {} \in D(m + 1)
    BY FS_EmptySet
  <2>3. \A s \in D(m + 1) : s # {} => Pick(s) \in S /\ s \ {Pick(s)} \in D(m)
    <3> SUFFICES ASSUME NEW s \in D(m + 1), s # {} PROVE Pick(s) \in S /\ s \ {Pick(s)} \in D(m)
      OBVIOUS
    <3>1. Pick(s) \in s /\ IsFiniteSet(s) /\ Cardinality(s) \in Nat
      BY PickIn, <1>0
    <3>2. Cardinality(s \ {Pick(s)}) = Cardinality(s) - 1
      BY <3>1, FS_RemoveElement
    <3> QED BY <3>1, <3>2
  <2>4. \A s \in D(m) : s \in D(m + 1) /\ f[s] \in Int
    BY <1>0, <2>1
  <2>5. \A s \in D(m) : h[s] = f[s]
    <3> SUFFICES ASSUME NEW s \in D(m) PROVE h[s] = f[s]
      OBVIOUS
    <3>1. CASE s = {}
      BY <3>1, <2>1, <2>2
    <3>2. CASE s # {}
      <4>1. h[s] = g[Pick(s)] + f[s \ {Pick(s)}]
        BY <2>4, <3>2
      <4> QED BY <4>1, <2>1, <3>2
    <3> QED BY <3>1, <3>2
  <2>6. h \in [D(m + 1) -> Int]
    <3> SUFFICES ASSUME NEW s \in D(m + 1) PROVE (IF s = {} THEN 0 ELSE g[Pick(s)] + f[s \ {Pick(s)}]) \in Int
      OBVIOUS
    <3>1. CASE s = {}
      BY <3>1
    <3>2. CASE s # {}
      <4>1. g[Pick(s)] \in Int /\ f[s \ {Pick(s)}] \in Int
        BY <3>2, <2>3, <2>4
      <4> QED BY <3>2, <4>1
    <3> QED BY <3>1, <3>2
  <2>7. \A s \in D(m + 1) : s # {} => h[s] = g[Pick(s)] + h[s \ {Pick(s)}]
    BY <2>3, <2>5
  <2>8. OK(h, m + 1)
    <3>1. h[{}] = 0
      BY <2>2
    <3> HIDE DEF h, D
    <3> QED BY <2>6, <2>7, <3>1
  <2>9. \E e : OK(e, m + 1)
    <3> HIDE DEF h, OK
    <3> QED BY <2>8
  <2> HIDE DEF OK
  <2> QED BY <2>9
<1>3. Nat \subseteq M
  <2> HIDE DEF M
  <2> QED BY <1>1, <1>2, Induction
<1>4. Cardinality(S) \in Nat
  BY FS_CardinalityType
<1>5. PICK f : OK(f, Cardinality(S))
  BY <1>3, <1>4
<1>6. D(Cardinality(S)) = SUBSET S
  BY FS_Subset
<1>7. Sums(f, g, S)
  BY <1>5, <1>6 DEF Sums
<1> QED BY <1>7

\* Sum is the value at S of a function that satisfies its recursion.
LEMMA SumIs ==
  ASSUME NEW S, IsFiniteSet(S), NEW g \in [S -> Int]
  PROVE  \E f : Sums(f, g, S) /\ Sum(g, S) = f[S]
<1> DEFINE Body(f) == [s \in SUBSET S |-> IF s = {} THEN 0 ELSE g[Pick(s)] + f[s \ {Pick(s)}]]
           it == CHOOSE f : f = Body(f)
<1>1. PICK f : Sums(f, g, S)
  BY SumsExist
<1>2. f = Body(f)
  <2>1. \A s \in SUBSET S : f[s] = Body(f)[s]
    BY <1>1 DEF Sums
  <2> QED BY <1>1, <2>1 DEF Sums
<1>3. it = Body(it)
  <2> HIDE DEF Body
  <2> QED BY <1>2, Zenon
<1>4. Sum(g, S) = it[S]
  BY Zenon DEF Sum, MapThenSumSet, MapThenFoldSet, Pick
<1> HIDE DEF it
<1>5. \A s \in SUBSET S : it[s] = IF s = {} THEN 0 ELSE g[Pick(s)] + it[s \ {Pick(s)}]
  <2> SUFFICES ASSUME NEW s \in SUBSET S
               PROVE it[s] = IF s = {} THEN 0 ELSE g[Pick(s)] + it[s \ {Pick(s)}]
    OBVIOUS
  <2>1. it[s] = Body(it)[s]
    BY <1>3
  <2> QED BY <2>1
<1>6. DOMAIN it = SUBSET S
  BY <1>3
<1>7. \A s \in SUBSET S : it[s] \in Int
  <2> DEFINE P == {s \in SUBSET S : it[s] \in Int}
  <2>1. ASSUME NEW T \in SUBSET S, \A x \in T : T \ {x} \in P PROVE T \in P
    <3>1. CASE T = {}
      <4>1. it[T] = 0
        BY <3>1, <1>5
      <4> QED BY <4>1
    <3>2. CASE T # {}
      <4>1. Pick(T) \in T
        BY <3>2, PickIn
      <4>2. it[T \ {Pick(T)}] \in Int /\ g[Pick(T)] \in Int
        BY <4>1, <2>1
      <4>3. it[T] = g[Pick(T)] + it[T \ {Pick(T)}]
        BY <3>2, <1>5
      <4>4. it[T] \in Int
        BY <4>2, <4>3
      <4> QED BY <4>4
    <3> QED BY <3>1, <3>2
  <2>2. SUBSET S \subseteq P
    <3> HIDE DEF P
    <3> QED BY <2>1, SubsetInduction
  <2> QED BY <2>2
<1>8. it \in [SUBSET S -> Int]
  <2>1. it = [s \in SUBSET S |-> it[s]]
    BY <1>3
  <2> QED BY <1>7, <2>1
<1>9. Sums(it, g, S)
  BY <1>5, <1>8 DEF Sums
<1> QED BY <1>4, <1>9

\* Sums over a set do not depend on what the function is elsewhere.
LEMMA SumsAgree ==
  ASSUME NEW S, IsFiniteSet(S), NEW S2, S \subseteq S2, NEW g, NEW g2,
         \A x \in S : g[x] = g2[x], NEW f, Sums(f, g, S), NEW f2, Sums(f2, g2, S2)
  PROVE  \A s \in SUBSET S : f[s] = f2[s]
<1> DEFINE P == {s \in SUBSET S : f[s] = f2[s]}
<1>1. ASSUME NEW T \in SUBSET S, \A x \in T : T \ {x} \in P PROVE T \in P
  <2>1. CASE T = {}
    <3>1. f[{}] = 0 /\ f2[{}] = 0
      BY DEF Sums
    <3> QED BY <2>1, <3>1
  <2>2. CASE T # {}
    <3>1. Pick(T) \in T
      BY <2>2, PickIn
    <3>2. f[T \ {Pick(T)}] = f2[T \ {Pick(T)}] /\ g[Pick(T)] = g2[Pick(T)]
      BY <3>1, <1>1
    <3>3. f[T] = g[Pick(T)] + f[T \ {Pick(T)}]
      BY <2>2 DEF Sums
    <3>4. f2[T] = g2[Pick(T)] + f2[T \ {Pick(T)}]
      <4>1. T \in SUBSET S2
        OBVIOUS
      <4> QED BY <2>2, <4>1 DEF Sums
    <3>5. f[T] = f2[T]
      BY <3>2, <3>3, <3>4
    <3> QED BY <3>5
  <2> QED BY <2>1, <2>2
<1>2. SUBSET S \subseteq P
  <2> HIDE DEF P
  <2> QED BY <1>1, SubsetInduction
<1> QED BY <1>2

\* The order in which a fold takes the elements does not matter.
LEMMA SumsAnyFirst ==
  ASSUME NEW S, IsFiniteSet(S), NEW g \in [S -> Int], NEW f, Sums(f, g, S)
  PROVE  \A s \in SUBSET S : \A x \in s : f[s] = g[x] + f[s \ {x}]
<1> DEFINE P == {s \in SUBSET S : \A x \in s : f[s] = g[x] + f[s \ {x}]}
<1>1. ASSUME NEW T \in SUBSET S, \A x \in T : T \ {x} \in P PROVE T \in P
  <2> SUFFICES ASSUME NEW x \in T PROVE f[T] = g[x] + f[T \ {x}]
    OBVIOUS
  <2> DEFINE c == Pick(T)
  <2>1. c \in T /\ f[T] = g[c] + f[T \ {c}]
    BY PickIn DEF Sums
  <2> HIDE DEF c
  <2>2. CASE x = c
    BY <2>1, <2>2
  <2>3. CASE x # c
    <3>1. x \in T \ {c} /\ T \ {c} \in P /\ c \in T \ {x} /\ T \ {x} \in P
      BY <1>1, <2>1, <2>3
    <3>2. f[T \ {c}] = g[x] + f[(T \ {c}) \ {x}] /\ f[T \ {x}] = g[c] + f[(T \ {x}) \ {c}]
      BY <3>1
    <3>3. (T \ {c}) \ {x} = (T \ {x}) \ {c} /\ (T \ {x}) \ {c} \in SUBSET S
      OBVIOUS
    <3>4. g[x] \in Int /\ g[c] \in Int /\ f[(T \ {x}) \ {c}] \in Int
      BY <2>1, <3>3 DEF Sums
    <3>5. f[T \ {c}] = g[x] + f[(T \ {x}) \ {c}]
      BY <3>2, <3>3
    <3> DEFINE rest == f[(T \ {x}) \ {c}]
    <3>6. f[T] = g[c] + (g[x] + rest) /\ f[T \ {x}] = g[c] + rest /\ rest \in Int
      BY <2>1, <3>2, <3>4, <3>5
    <3> HIDE DEF rest
    <3> QED BY <3>4, <3>6
  <2> QED BY <2>2, <2>3
<1>2. SUBSET S \subseteq P
  <2> HIDE DEF P
  <2> QED BY <1>1, SubsetInduction
<1> QED BY <1>2

\* One element is added to the sum of the others, whatever their order.
LEMMA SumSplit ==
  ASSUME NEW S, IsFiniteSet(S), NEW g \in [S -> Int], NEW x \in S,
         NEW g2 \in [S \ {x} -> Int], \A y \in S \ {x} : g2[y] = g[y]
  PROVE  Sum(g, S) = g[x] + Sum(g2, S \ {x}) /\ Sum(g2, S \ {x}) \in Int
<1>1. PICK f : Sums(f, g, S) /\ Sum(g, S) = f[S]
  BY SumIs
<1>2. IsFiniteSet(S \ {x})
  BY FS_RemoveElement
<1>3. PICK f2 : Sums(f2, g2, S \ {x}) /\ Sum(g2, S \ {x}) = f2[S \ {x}]
  BY <1>2, SumIs
<1>4. f2[S \ {x}] = f[S \ {x}]
  <2>1. S \ {x} \subseteq S /\ S \ {x} \in SUBSET (S \ {x})
    OBVIOUS
  <2> QED BY <1>1, <1>2, <1>3, <2>1, SumsAgree
<1>5. f[S] = g[x] + f[S \ {x}]
  BY <1>1, SumsAnyFirst
<1>6. f2[S \ {x}] \in Int
  BY <1>3 DEF Sums
<1> QED BY <1>1, <1>3, <1>4, <1>5, <1>6

\* A sum in which one term changes.
LEMMA SumChange ==
  ASSUME NEW S, IsFiniteSet(S), NEW g \in [S -> Int], NEW g2 \in [S -> Int], NEW x \in S,
         \A y \in S \ {x} : g2[y] = g[y]
  PROVE  Sum(g2, S) = Sum(g, S) - g[x] + g2[x] /\ Sum(g, S) \in Int
<1> DEFINE r == [y \in S \ {x} |-> g[y]]
<1>1. r \in [S \ {x} -> Int]
  OBVIOUS
<1>2. \A y \in S \ {x} : r[y] = g[y] /\ r[y] = g2[y]
  OBVIOUS
<1> HIDE DEF r
<1>3. Sum(g, S) = g[x] + Sum(r, S \ {x}) /\ Sum(r, S \ {x}) \in Int
  BY <1>1, <1>2, SumSplit
<1>4. Sum(g2, S) = g2[x] + Sum(r, S \ {x})
  BY <1>1, <1>2, SumSplit
<1>5. g[x] \in Int /\ g2[x] \in Int
  OBVIOUS
<1> QED BY <1>3, <1>4, <1>5

\* The empty sum.
LEMMA SumEmpty == ASSUME NEW g \in [{} -> Int] PROVE Sum(g, {}) = 0
BY SumIs, FS_EmptySet DEF Sums
-----------------------------------------------------------------------------
(* The invariant.                                                          *)

\* A task, what it paid, and the states of a receipt.
TaskRecord ==
  [poster : Agent, worker : Agent \cup {NoAgent}, reward : Nat \ {0}, deadline : Nat,
   ref : Receipt \cup {ZeroRef}, bond : Nat, slash : 0 .. 100, count : Nat,
   done : SUBSET Nat, status : Status]

PaidRecord == [poster : Nat, worker : Nat]

ReceiptStatus == {"none", "open", "success", "failure"}

\* Types of the variables, every field of a task included.
Types ==
  /\ now \in 0 .. MaxTime
  /\ task \in Seq(TaskRecord) /\ paid \in Seq(PaidRecord) /\ Len(paid) = Len(task)
  /\ book \in BOOLEAN
  /\ receipt \in [Receipt -> ReceiptStatus]
  /\ busReceipt \in [Receipt -> {"none", "open", "success"}]
  /\ held \in Nat

\* Milestones are completed, and a bond is posted, only on the paths that allow it.
Progress(k) ==
  /\ k.done \subseteq 0 .. k.count - 1
  /\ k.status \in {"OPEN", "ACCEPTED", "SUBMITTED", "REJECTED", "DISPUTED", "RESOLVED"} => k.done = {}
  /\ k.status \notin {"DISPUTED", "RESOLVED"} => k.bond = 0

\* Unreleased, of a task record.
Left(k) == IF k.count = 0 THEN k.reward
           ELSE k.reward - (k.reward \div k.count) * Cardinality(k.done)

\* What the escrow holds for a task.
OwedFor(k) == IF k.status \in Terminal THEN 0 ELSE Left(k) + k.bond

\* PaysInFull, of one task.
Settles(k, p) ==
  /\ k.status \in Terminal => p.poster + p.worker = k.reward + k.bond
  /\ k.status = "APPROVED" => p.worker = k.reward
  /\ k.status = "CANCELLED" => p.worker = k.reward - Left(k)
  /\ k.status \notin Terminal => p.poster = 0 /\ p.worker = k.reward - Left(k)

\* A task that ended so, and was paid so, is a success or a failure.
Succeeded(k, p) == k.status \in {"APPROVED", "RESOLVED"} /\ p.worker = k.reward + k.bond
Failed(k, p) == k.status \in {"CANCELLED", "RESOLVED"} /\ p.poster + p.worker = k.reward + k.bond

\* What each task can still pay.
Owed == [t \in Tasks |-> OwedFor(task[t])]

\* The inductive invariant: the escrow is the sum of what the tasks owe, each task is
\* settled as far as its status says, and the receipts agree.
Inv ==
  /\ Types
  /\ \A t \in Tasks : Progress(task[t]) /\ Settles(task[t], paid[t])
  /\ held = Sum(Owed, Tasks)
  /\ ReceiptAgrees

\* The property of the run in terms of Owed and Sum.
LEMMA EscrowIsSum == EscrowCoversTasks <=> held = Sum(Owed, Tasks)
BY Zenon DEF EscrowCoversTasks, Owed, Sum, OwedFor, Left, Unreleased, PerMilestone

\* The property of the run task by task.
LEMMA SettlesAll == PaysInFull <=> \A t \in Tasks : Settles(task[t], paid[t])
BY Zenon DEF PaysInFull, Settles, Left, Unreleased, PerMilestone

\* The types of the tasks and of what they paid.
LEMMA TaskTypes ==
  ASSUME Types
  PROVE  /\ Len(task) \in Nat /\ Tasks = 1 .. Len(task) /\ DOMAIN paid = Tasks
         /\ \A t \in Tasks : task[t] \in TaskRecord /\ paid[t] \in PaidRecord
<1>1. task \in Seq(TaskRecord) /\ paid \in Seq(PaidRecord) /\ Len(paid) = Len(task)
  BY DEF Types
<1>2. Len(task) \in Nat /\ Tasks = 1 .. Len(task) /\ DOMAIN paid = 1 .. Len(paid)
  BY <1>1 DEF Tasks
<1> QED BY <1>1, <1>2

\* The milestones that are done, and what their share leaves of the reward.
LEMMA LeftType ==
  ASSUME NEW k \in TaskRecord, Progress(k)
  PROVE  /\ IsFiniteSet(k.done) /\ Cardinality(k.done) \in 0 .. k.count
         /\ Left(k) \in Nat /\ Left(k) <= k.reward
         /\ k.done = {} => Left(k) = k.reward
         /\ k.count # 0 => /\ k.reward \div k.count \in Nat
                           /\ (k.reward \div k.count) * k.count <= k.reward
<1>1. k.reward \in Nat \ {0} /\ k.count \in Nat /\ k.done \subseteq 0 .. k.count - 1
  BY DEF TaskRecord, Progress
<1>2. IsFiniteSet(k.done) /\ Cardinality(k.done) \in Nat /\ Cardinality(k.done) <= k.count
  <2>1. IsFiniteSet(0 .. k.count - 1) /\ Cardinality(0 .. k.count - 1) = k.count
    <3>1. 0 \in Int /\ k.count - 1 \in Int
      BY <1>1
    <3>2. /\ IsFiniteSet(0 .. k.count - 1)
          /\ Cardinality(0 .. k.count - 1) = IF 0 > k.count - 1 THEN 0 ELSE (k.count - 1) - 0 + 1
      BY <3>1, FS_Interval
    <3> QED BY <3>2, <1>1
  <2> QED BY <1>1, <2>1, FS_Subset, FS_CardinalityType
<1>3. CASE k.count = 0
  BY <1>1, <1>2, <1>3 DEF Left
<1>4. CASE k.count # 0
  <2> DEFINE q == k.reward \div k.count
             c == Cardinality(k.done)
  <2>1. q \in Nat /\ q * k.count <= k.reward
    BY <1>1, <1>4
  <2> HIDE DEF q
  <2>2. q * c <= q * k.count /\ q * c \in Nat
    BY <1>1, <1>2, <2>1
  <2>3. Left(k) = k.reward - q * c
    BY <1>4 DEF Left, q
  <2>4. k.done = {} => c = 0 /\ q * c = 0
    BY <2>1, FS_EmptySet
  <2>5. Left(k) \in Nat /\ Left(k) <= k.reward /\ (k.done = {} => Left(k) = k.reward)
    BY <1>1, <2>1, <2>2, <2>3, <2>4
  <2> QED BY <1>1, <1>2, <2>1, <2>5 DEF q
<1> QED BY <1>3, <1>4
-----------------------------------------------------------------------------
(* A transaction on one task.                                              *)

\* Only task t changes, to k, and what it was paid, to p.
OnlyTask(t, k, p) ==
  /\ task' = [task EXCEPT ![t] = k] /\ paid' = [paid EXCEPT ![t] = p]
  /\ k \in TaskRecord /\ p \in PaidRecord

\* A receipt changes only if it is not final, and then as task record k, paid p, ended.
ReceiptFollows(k, p) ==
  \A r \in Receipt :
    \/ receipt'[r] = receipt[r]
    \/ /\ receipt[r] \in {"none", "open"}
       /\ \/ receipt'[r] = "open"
          \/ r = k.ref /\ receipt'[r] = "success" /\ Succeeded(k, p)
          \/ r = k.ref /\ receipt'[r] = "failure" /\ Failed(k, p)

\* What every transaction on a task does.
TaskStep(t, k, p) ==
  /\ task[t].status \notin Terminal
  /\ OnlyTask(t, k, p)
  /\ Progress(k) /\ Settles(k, p) /\ k.ref = task[t].ref
  /\ held' \in Nat /\ held' = held - OwedFor(task[t]) + OwedFor(k)
  /\ task[t].status \in {"SUBMITTED", "REJECTED", "DISPUTED"} =>
       k.slash = task[t].slash /\ (p.poster > paid[t].poster => task[t].status = "DISPUTED")
  /\ receipt' \in [Receipt -> ReceiptStatus] /\ ReceiptFollows(k, p)
  /\ busReceipt' \in [Receipt -> {"none", "open", "success"}]
  /\ UNCHANGED <<now, book>>

\* A call about task t changes no other task.
LEMMA OnlyTaskEffect ==
  ASSUME Types, NEW t \in Tasks, NEW k, NEW p, OnlyTask(t, k, p)
  PROVE  /\ task' \in Seq(TaskRecord) /\ paid' \in Seq(PaidRecord) /\ Len(paid') = Len(task')
         /\ Tasks' = Tasks /\ task'[t] = k /\ paid'[t] = p
         /\ \A u \in Tasks : u # t => task'[u] = task[u] /\ paid'[u] = paid[u]
<1>1. /\ Len(task) \in Nat /\ Tasks = 1 .. Len(task) /\ DOMAIN paid = Tasks
      /\ \A u \in Tasks : task[u] \in TaskRecord /\ paid[u] \in PaidRecord
  BY TaskTypes
<1>2. task \in Seq(TaskRecord) /\ paid \in Seq(PaidRecord) /\ Len(paid) = Len(task)
  BY DEF Types
<1>3. k \in TaskRecord /\ p \in PaidRecord /\ task' = [task EXCEPT ![t] = k] /\ paid' = [paid EXCEPT ![t] = p]
  BY DEF OnlyTask
<1>4. task' \in Seq(TaskRecord) /\ Len(task') = Len(task) /\ DOMAIN task' = Tasks
  BY <1>1, <1>2, <1>3 DEF Tasks
<1>5. paid' \in Seq(PaidRecord) /\ Len(paid') = Len(paid)
  BY <1>1, <1>2, <1>3
<1>6. task'[t] = k /\ paid'[t] = p
  BY <1>1, <1>2, <1>3
<1>7. \A u \in Tasks : u # t => task'[u] = task[u] /\ paid'[u] = paid[u]
  BY <1>1, <1>2, <1>3
<1> QED BY <1>2, <1>4, <1>5, <1>6, <1>7 DEF Tasks

\* Terms of the sum are numbers.
LEMMA OwedType ==
  ASSUME NEW k \in TaskRecord, Progress(k)
  PROVE  OwedFor(k) \in Nat
<1>1. Left(k) \in Nat /\ k.bond \in Nat
  BY LeftType DEF TaskRecord
<1> QED BY <1>1 DEF OwedFor

\* A call that moves task t as TaskStep allows, with escrow and payouts that match,
\* keeps the invariant.
LEMMA TaskStepKeepsInv ==
  ASSUME Inv, NEW t \in Tasks, NEW k, NEW p, TaskStep(t, k, p)
  PROVE  Inv'
<1>1. /\ task' \in Seq(TaskRecord) /\ paid' \in Seq(PaidRecord) /\ Len(paid') = Len(task')
      /\ Tasks' = Tasks /\ task'[t] = k /\ paid'[t] = p
      /\ \A u \in Tasks : u # t => task'[u] = task[u] /\ paid'[u] = paid[u]
  BY OnlyTaskEffect DEF Inv, TaskStep
<1>2. Types'
  BY <1>1 DEF Inv, Types, TaskStep
<1>3. \A u \in Tasks' : Progress(task'[u]) /\ Settles(task'[u], paid'[u])
  BY <1>1 DEF Inv, TaskStep
<1>4. /\ \A u \in Tasks : task[u] \in TaskRecord
      /\ Tasks = 1 .. Len(task) /\ Len(task) \in Nat /\ k \in TaskRecord
  BY TaskTypes DEF Inv, TaskStep, OnlyTask
<1>5. IsFiniteSet(Tasks)
  BY <1>4, FS_Interval
<1>6. Owed \in [Tasks -> Int] /\ \A u \in Tasks : Owed[u] = OwedFor(task[u])
  <2>1. \A u \in Tasks : OwedFor(task[u]) \in Int
    BY <1>4, OwedType DEF Inv
  <2> QED BY <2>1 DEF Owed
<1>7. Owed' \in [Tasks -> Int] /\ \A u \in Tasks : Owed'[u] = OwedFor(task'[u])
  <2>1. \A u \in Tasks : task'[u] \in TaskRecord /\ Progress(task'[u])
    BY <1>1, <1>3, <1>4
  <2>2. \A u \in Tasks : OwedFor(task'[u]) \in Int
    BY <2>1, OwedType
  <2>3. Owed' = [u \in Tasks |-> OwedFor(task'[u])]
    BY <1>1 DEF Owed
  <2> QED BY <2>2, <2>3
<1>8. \A u \in Tasks \ {t} : Owed'[u] = Owed[u]
  BY <1>1, <1>6, <1>7
<1>9. held' = Sum(Owed', Tasks')
  <2>1. Sum(Owed', Tasks) = Sum(Owed, Tasks) - Owed[t] + Owed'[t] /\ Sum(Owed, Tasks) \in Int
    BY <1>5, <1>6, <1>7, <1>8, SumChange
  <2>2. Owed[t] = OwedFor(task[t]) /\ Owed'[t] = OwedFor(k)
    BY <1>1, <1>6, <1>7
  <2>3. held' = held - OwedFor(task[t]) + OwedFor(k) /\ held = Sum(Owed, Tasks)
    BY DEF TaskStep, Inv
  <2> QED BY <1>1, <2>1, <2>2, <2>3
<1>10. ReceiptAgrees'
  <2> SUFFICES ASSUME NEW r \in Receipt
               PROVE /\ receipt'[r] = "success" =>
                          \E u \in Tasks : task'[u].ref = r /\ Succeeded(task'[u], paid'[u])
                     /\ receipt'[r] = "failure" =>
                          \E u \in Tasks : task'[u].ref = r /\ Failed(task'[u], paid'[u])
    BY <1>1 DEF ReceiptAgrees, Succeeded, Failed
  <2>1. ASSUME receipt[r] = "success"
        PROVE  \E u \in Tasks : task'[u].ref = r /\ Succeeded(task'[u], paid'[u])
    <3>1. PICK u \in Tasks : task[u].ref = r /\ Succeeded(task[u], paid[u])
      BY <2>1 DEF Inv, ReceiptAgrees, Succeeded
    <3>2. u # t
      BY <3>1 DEF Succeeded, TaskStep, Terminal
    <3> QED BY <1>1, <3>1, <3>2
  <2>2. ASSUME receipt[r] = "failure"
        PROVE  \E u \in Tasks : task'[u].ref = r /\ Failed(task'[u], paid'[u])
    <3>1. PICK u \in Tasks : task[u].ref = r /\ Failed(task[u], paid[u])
      BY <2>2 DEF Inv, ReceiptAgrees, Failed
    <3>2. u # t
      BY <3>1 DEF Failed, TaskStep, Terminal
    <3> QED BY <1>1, <3>1, <3>2
  <2>3. CASE receipt'[r] = receipt[r]
    BY <2>1, <2>2, <2>3
  <2>4. CASE receipt'[r] # receipt[r]
    BY <2>4, <1>1 DEF TaskStep, ReceiptFollows
  <2> QED BY <2>3, <2>4
<1> QED BY <1>2, <1>3, <1>9, <1>10 DEF Inv

\* OutcomeIsFair and ReceiptFinal, of one step.
Fair ==
  \A t \in Tasks :
    /\ task[t].status \in Terminal => task'[t] = task[t] /\ paid'[t] = paid[t]
    /\ task[t].status \in {"SUBMITTED", "REJECTED", "DISPUTED"} =>
         /\ task'[t].slash = task[t].slash
         /\ paid'[t].poster > paid[t].poster => task[t].status = "DISPUTED"
\* No final receipt changes in this step.
Final == \A r \in Receipt : receipt[r] \in {"success", "failure"} => receipt'[r] = receipt[r]

\* Such a call is fair and changes no final receipt.
LEMMA TaskStepIsFair ==
  ASSUME Inv, NEW t \in Tasks, NEW k, NEW p, TaskStep(t, k, p)
  PROVE  Fair /\ Final
<1>1. /\ task'[t] = k /\ paid'[t] = p
      /\ \A u \in Tasks : u # t => task'[u] = task[u] /\ paid'[u] = paid[u]
  BY OnlyTaskEffect DEF Inv, TaskStep
<1>2. Final
  BY DEF TaskStep, ReceiptFollows, Final
<1>3. ASSUME NEW u \in Tasks
      PROVE  /\ task[u].status \in Terminal => task'[u] = task[u] /\ paid'[u] = paid[u]
             /\ task[u].status \in {"SUBMITTED", "REJECTED", "DISPUTED"} =>
                  /\ task'[u].slash = task[u].slash
                  /\ paid'[u].poster > paid[u].poster => task[u].status = "DISPUTED"
  <2>1. CASE u = t
    BY <2>1, <1>1 DEF TaskStep
  <2>2. CASE u # t
    <3>1. paid[u].poster \in Nat
      BY TaskTypes DEF Inv, PaidRecord
    <3>2. ~(paid'[u].poster > paid[u].poster)
      BY <1>1, <2>2, <3>1
    <3> QED BY <1>1, <2>2, <3>2
  <2> QED BY <2>1, <2>2
<1> QED BY <1>2, <1>3 DEF Fair
-----------------------------------------------------------------------------
(* The transactions.                                                       *)

\* A step that pays nothing and keeps the reward, the milestones and the bond of the task.
LEMMA QuietStep ==
  ASSUME Inv, NEW t \in Tasks, NEW k \in TaskRecord, task' = [task EXCEPT ![t] = k],
         UNCHANGED <<now, book, held, paid>>,
         task[t].status \notin Terminal, k.status \notin Terminal,
         k.reward = task[t].reward, k.count = task[t].count, k.done = task[t].done,
         k.bond = task[t].bond, k.ref = task[t].ref, Progress(k),
         task[t].status \in {"SUBMITTED", "REJECTED", "DISPUTED"} => k.slash = task[t].slash,
         receipt' \in [Receipt -> ReceiptStatus],
         \A r \in Receipt : receipt'[r] = receipt[r] \/ (receipt[r] = "none" /\ receipt'[r] = "open"),
         busReceipt' \in [Receipt -> {"none", "open", "success"}]
  PROVE  TaskStep(t, k, paid[t])
<1>1. task[t] \in TaskRecord /\ paid[t] \in PaidRecord /\ DOMAIN paid = Tasks /\ held \in Nat
  BY TaskTypes DEF Inv, Types
<1>2. paid' = [paid EXCEPT ![t] = paid[t]]
  BY <1>1 DEF Inv, Types
<1>3. Left(k) = Left(task[t])
  BY DEF Left
<1>4. OwedFor(k) = OwedFor(task[t]) /\ OwedFor(k) \in Nat
  BY <1>3, OwedType DEF OwedFor
<1>5. Settles(k, paid[t])
  BY <1>3 DEF Inv, Settles, Terminal
<1>6. held' = held - OwedFor(task[t]) + OwedFor(k) /\ held' \in Nat
  BY <1>1, <1>4
<1>7. ~(paid[t].poster > paid[t].poster)
  BY <1>1 DEF PaidRecord
<1>8. ReceiptFollows(k, paid[t])
  BY DEF ReceiptFollows
<1>9. OnlyTask(t, k, paid[t])
  BY <1>1, <1>2 DEF OnlyTask
<1> QED BY <1>5, <1>6, <1>7, <1>8, <1>9 DEF TaskStep

\* The receipts that a step leaves alone.
LEMMA SameReceipts ==
  ASSUME Inv, UNCHANGED <<receipt, busReceipt>>
  PROVE  /\ receipt' \in [Receipt -> ReceiptStatus]
         /\ \A r \in Receipt : receipt'[r] = receipt[r] \/ (receipt[r] = "none" /\ receipt'[r] = "open")
         /\ busReceipt' \in [Receipt -> {"none", "open", "success"}]
BY DEF Inv, Types

\* acceptTask is such a call.
LEMMA AcceptStep ==
  ASSUME Inv, NEW t \in Tasks, NEW a \in Agent, acceptTask(t, a)
  PROVE  \E k, p : TaskStep(t, k, p)
<1> DEFINE k == [task[t] EXCEPT !.worker = a, !.status = "ACCEPTED"]
<1>1. /\ task[t] \in TaskRecord /\ Progress(task[t]) /\ task[t].status = "OPEN"
      /\ task' = [task EXCEPT ![t].worker = a, ![t].status = "ACCEPTED"]
      /\ UNCHANGED <<now, book, receipt, busReceipt, held, paid>>
  BY TaskTypes DEF Inv, acceptTask
<1>2. task' = [task EXCEPT ![t] = k]
  BY <1>1, Zenon
<1>3. /\ k \in TaskRecord /\ k.status = "ACCEPTED" /\ k.ref = task[t].ref
      /\ k.reward = task[t].reward /\ k.count = task[t].count /\ k.done = task[t].done
      /\ k.bond = task[t].bond /\ k.slash = task[t].slash
  BY <1>1 DEF TaskRecord, Status
<1> HIDE DEF k
<1>4. Progress(k)
  BY <1>1, <1>3 DEF Progress
<1> QED BY <1>1, <1>2, <1>3, <1>4, QuietStep, SameReceipts DEF Terminal

\* submitTask moves no value.
LEMMA SubmitStep ==
  ASSUME Inv, NEW t \in Tasks, NEW a \in Agent, submitTask(t, a)
  PROVE  \E k, p : TaskStep(t, k, p)
<1> DEFINE k == [task[t] EXCEPT !.status = "SUBMITTED"]
<1>1. /\ task[t] \in TaskRecord /\ Progress(task[t]) /\ task[t].status = "ACCEPTED"
      /\ task' = [task EXCEPT ![t].status = "SUBMITTED"]
      /\ UNCHANGED <<now, book, receipt, busReceipt, held, paid>>
  BY TaskTypes DEF Inv, submitTask
<1>2. task' = [task EXCEPT ![t] = k]
  BY <1>1, Zenon
<1>3. /\ k \in TaskRecord /\ k.status = "SUBMITTED" /\ k.ref = task[t].ref
      /\ k.reward = task[t].reward /\ k.count = task[t].count /\ k.done = task[t].done
      /\ k.bond = task[t].bond /\ k.slash = task[t].slash
  BY <1>1 DEF TaskRecord, Status
<1> HIDE DEF k
<1>4. Progress(k)
  BY <1>1, <1>3 DEF Progress
<1> QED BY <1>1, <1>2, <1>3, <1>4, QuietStep, SameReceipts DEF Terminal

\* setSlashPolicy changes the policy only, before the submission.
LEMMA SlashStep ==
  ASSUME Inv, NEW t \in Tasks, NEW a \in Agent, NEW pct \in Pct, setSlashPolicy(t, a, pct)
  PROVE  \E k, p : TaskStep(t, k, p)
<1> DEFINE k == [task[t] EXCEPT !.slash = pct]
<1>1. /\ task[t] \in TaskRecord /\ Progress(task[t]) /\ task[t].status \in {"OPEN", "ACCEPTED"}
      /\ task' = [task EXCEPT ![t].slash = pct] /\ pct \in 0 .. 100
      /\ UNCHANGED <<now, book, receipt, busReceipt, held, paid>>
  <2>1. pct \in Nat /\ pct <= 100
    BY SettlementAssumption DEF setSlashPolicy
  <2>2. pct \in 0 .. 100
    BY <2>1
  <2> QED BY <2>2, TaskTypes DEF Inv, setSlashPolicy
<1>2. task' = [task EXCEPT ![t] = k]
  BY <1>1, Zenon
<1>3. /\ k \in TaskRecord /\ k.status = task[t].status /\ k.ref = task[t].ref
      /\ k.reward = task[t].reward /\ k.count = task[t].count /\ k.done = task[t].done
      /\ k.bond = task[t].bond
  BY <1>1 DEF TaskRecord
<1> HIDE DEF k
<1>4. Progress(k)
  BY <1>1, <1>3 DEF Progress
<1> QED BY <1>1, <1>2, <1>3, <1>4, QuietStep, SameReceipts DEF Terminal

\* rejectTask moves no value.
LEMMA RejectStep ==
  ASSUME Inv, NEW t \in Tasks, NEW a \in Agent, rejectTask(t, a)
  PROVE  \E k, p : TaskStep(t, k, p)
<1> DEFINE k == [task[t] EXCEPT !.status = "REJECTED"]
<1>1. /\ task[t] \in TaskRecord /\ Progress(task[t]) /\ task[t].status = "SUBMITTED"
      /\ task' = [task EXCEPT ![t].status = "REJECTED"]
      /\ openBusReceipt(task[t].ref) /\ openReceipt(task[t].ref)
      /\ UNCHANGED <<now, book, held, paid>>
  BY TaskTypes DEF Inv, rejectTask
<1>2. task' = [task EXCEPT ![t] = k]
  BY <1>1, Zenon
<1>3. /\ k \in TaskRecord /\ k.status = "REJECTED" /\ k.ref = task[t].ref
      /\ k.reward = task[t].reward /\ k.count = task[t].count /\ k.done = task[t].done
      /\ k.bond = task[t].bond /\ k.slash = task[t].slash
  BY <1>1 DEF TaskRecord, Status
<1> HIDE DEF k
<1>4. Progress(k)
  BY <1>1, <1>3 DEF Progress
<1>5. task[t].ref \in Receipt \cup {ZeroRef}
  BY <1>1 DEF TaskRecord
<1>6. /\ receipt' \in [Receipt -> ReceiptStatus]
      /\ \A r \in Receipt : receipt'[r] = receipt[r] \/ (receipt[r] = "none" /\ receipt'[r] = "open")
  BY <1>1, <1>5 DEF openReceipt, Binds, Inv, Types, ReceiptStatus
<1>7. busReceipt' \in [Receipt -> {"none", "open", "success"}]
  BY <1>1, <1>5 DEF openBusReceipt, Inv, Types
<1> QED BY <1>1, <1>2, <1>3, <1>4, <1>6, <1>7, QuietStep DEF Terminal

\* disputeTask adds the bond to the escrow and to what the task owes.
LEMMA DisputeStep ==
  ASSUME Inv, NEW t \in Tasks, NEW a \in Agent, NEW value \in Value, disputeTask(t, a, value)
  PROVE  \E k, p : TaskStep(t, k, p)
<1> DEFINE k == [task[t] EXCEPT !.status = "DISPUTED", !.bond = value]
<1>1. /\ task[t] \in TaskRecord /\ paid[t] \in PaidRecord /\ DOMAIN paid = Tasks
      /\ Progress(task[t]) /\ Settles(task[t], paid[t]) /\ task[t].status = "REJECTED"
      /\ task' = [task EXCEPT ![t].status = "DISPUTED", ![t].bond = value]
      /\ value \in Nat /\ held \in Nat /\ held' = held + value
      /\ UNCHANGED <<now, book, receipt, busReceipt, paid>>
  BY TaskTypes, SettlementAssumption DEF Inv, Types, disputeTask, escrow
<1>2. task' = [task EXCEPT ![t] = k]
  BY <1>1, Zenon
<1>3. /\ k \in TaskRecord /\ k.status = "DISPUTED" /\ k.ref = task[t].ref
      /\ k.reward = task[t].reward /\ k.count = task[t].count /\ k.done = task[t].done
      /\ k.bond = value /\ k.slash = task[t].slash
  BY <1>1 DEF TaskRecord, Status
<1> HIDE DEF k
<1>4. Progress(k) /\ task[t].bond = 0
  BY <1>1, <1>3 DEF Progress
<1>5. Left(k) = Left(task[t]) /\ Left(k) \in Nat
  BY <1>3, <1>4, LeftType DEF Left
<1>6. Settles(k, paid[t])
  BY <1>1, <1>3, <1>5 DEF Settles, Terminal
<1>7. OwedFor(k) = Left(k) + value /\ OwedFor(task[t]) = Left(k)
  BY <1>1, <1>3, <1>4, <1>5 DEF OwedFor, Terminal
<1>8. held' \in Nat /\ held' = held - OwedFor(task[t]) + OwedFor(k)
  BY <1>1, <1>5, <1>7
<1>9. OnlyTask(t, k, paid[t])
  <2>1. paid' = [paid EXCEPT ![t] = paid[t]]
    BY <1>1 DEF Inv, Types
  <2> QED BY <1>1, <1>2, <1>3, <2>1 DEF OnlyTask
<1>10. ReceiptFollows(k, paid[t]) /\ ~(paid[t].poster > paid[t].poster)
  BY <1>1 DEF ReceiptFollows, PaidRecord
<1>11. receipt' \in [Receipt -> ReceiptStatus] /\ busReceipt' \in [Receipt -> {"none", "open", "success"}]
  BY <1>1, SameReceipts
<1>12. TaskStep(t, k, paid[t])
  BY <1>1, <1>3, <1>4, <1>6, <1>8, <1>9, <1>10, <1>11 DEF TaskStep, Terminal
<1> QED BY <1>12
-----------------------------------------------------------------------------
(* The transactions that pay.                                              *)

\* Pay, of the record of one task.
LEMMA PayIs ==
  ASSUME Types, NEW t \in Tasks, NEW m \in Nat, NEW w \in Nat, Pay(t, m, w)
  PROVE  \E p \in PaidRecord : /\ paid' = [paid EXCEPT ![t] = p]
                               /\ p.poster = paid[t].poster + m /\ p.worker = paid[t].worker + w
<1>1. paid[t] \in PaidRecord /\ paid[t].poster + m \in Nat /\ paid[t].worker + w \in Nat
  BY TaskTypes DEF PaidRecord
<1>2. PICK x \in Nat, y \in Nat : x = paid[t].poster + m /\ y = paid[t].worker + w
  BY <1>1
<1> DEFINE p == [paid[t] EXCEPT !.poster = x, !.worker = y]
<1>3. paid' = [paid EXCEPT ![t] = p]
  BY <1>2, Zenon DEF Pay
<1>4. p \in PaidRecord
  BY <1>1 DEF PaidRecord
<1>5. p.poster = x
  BY <1>1 DEF PaidRecord
<1>6. p.worker = y
  BY <1>1 DEF PaidRecord
<1> HIDE DEF p
<1> QED BY <1>2, <1>3, <1>4, <1>5, <1>6

\* The receipts that the end of a task changes.
LEMMA FinalizeIs ==
  ASSUME Inv, NEW k \in TaskRecord, NEW p, NEW outcome \in {"success", "failure"},
         finalize(k.ref, outcome),
         outcome = "success" => Succeeded(k, p), outcome = "failure" => Failed(k, p)
  PROVE  receipt' \in [Receipt -> ReceiptStatus] /\ ReceiptFollows(k, p)
<1>1. k.ref \in Receipt \cup {ZeroRef} /\ receipt \in [Receipt -> ReceiptStatus]
  BY DEF TaskRecord, Inv, Types
<1>2. receipt' \in [Receipt -> ReceiptStatus]
  BY <1>1 DEF finalize, Binds, ReceiptStatus
<1>3. ReceiptFollows(k, p)
  BY <1>1 DEF finalize, Binds, ReceiptFollows
<1> QED BY <1>2, <1>3

\* A release takes exactly its amount from the escrow.
LEMMA ReleaseIs ==
  ASSUME Inv, NEW k \in TaskRecord, NEW r \in {k.ref, ZeroRef}, NEW amount \in Nat,
         releaseEscrowPublic(r, amount)
  PROVE  /\ held' \in Nat /\ held' = held - amount /\ held \in Nat
         /\ busReceipt' \in [Receipt -> {"none", "open", "success"}]
<1>1. r \in Receipt \cup {ZeroRef} /\ held \in Nat
  BY DEF TaskRecord, Inv, Types
<1> QED BY <1>1 DEF releaseEscrowPublic, Inv, Types

\* A step that ends a task as record k: all that the escrow holds for it is paid, m to the
\* poster and w to the worker.
Ends(t, k, m, w, outcome) ==
  /\ task' = [task EXCEPT ![t] = k]
  /\ k \in TaskRecord /\ Progress(k)
  /\ task[t].status \notin Terminal /\ k.status \in Terminal
  /\ k.reward = task[t].reward /\ k.bond = task[t].bond
  /\ k.ref = task[t].ref /\ k.slash = task[t].slash
  /\ m \in Nat /\ w \in Nat /\ Pay(t, m, w) /\ m + w = Left(task[t]) + task[t].bond
  /\ held' \in Nat /\ held' = held - (m + w)
  /\ k.status = "APPROVED" => m = 0 /\ task[t].bond = 0
  /\ k.status = "CANCELLED" => w = 0 /\ Left(k) = Left(task[t])
  /\ outcome \in {"success", "failure"} /\ finalize(k.ref, outcome)
  /\ outcome = "success" => m = 0 /\ k.status \in {"APPROVED", "RESOLVED"}
  /\ outcome = "failure" => k.status \in {"CANCELLED", "RESOLVED"}
  /\ task[t].status \in {"SUBMITTED", "REJECTED"} => m = 0
  /\ busReceipt' \in [Receipt -> {"none", "open", "success"}]
  /\ UNCHANGED <<now, book>>

\* A call that ends a task releases all that is left, with the receipt of its outcome.
LEMMA EndStep ==
  ASSUME Inv, NEW t \in Tasks, NEW k, NEW m, NEW w, NEW outcome, Ends(t, k, m, w, outcome)
  PROVE  \E p : TaskStep(t, k, p)
<1> USE DEF Ends
<1>1. /\ task[t] \in TaskRecord /\ paid[t] \in PaidRecord /\ held \in Nat
      /\ Progress(task[t]) /\ Settles(task[t], paid[t])
  BY TaskTypes DEF Inv, Types
<1>2. PICK p \in PaidRecord : /\ paid' = [paid EXCEPT ![t] = p]
                              /\ p.poster = paid[t].poster + m /\ p.worker = paid[t].worker + w
  BY PayIs DEF Inv
<1>3. paid[t].poster = 0 /\ paid[t].worker = task[t].reward - Left(task[t])
  BY <1>1 DEF Settles
<1>4. /\ Left(task[t]) \in Nat /\ Left(k) \in Nat /\ task[t].reward \in Nat /\ task[t].bond \in Nat
      /\ p.poster \in Nat /\ p.worker \in Nat
  BY <1>1, LeftType DEF TaskRecord, PaidRecord
<1>5. p.poster = m /\ p.worker = task[t].reward - Left(task[t]) + w
  BY <1>2, <1>3, <1>4
<1>6. p.poster + p.worker = k.reward + k.bond
  BY <1>4, <1>5
<1>7. m = 0 => p.worker = k.reward + k.bond
  BY <1>4, <1>5
<1>8. Settles(k, p)
  <2>1. k.status = "APPROVED" => p.worker = k.reward
    BY <1>4, <1>7
  <2>2. k.status = "CANCELLED" => p.worker = k.reward - Left(k)
    BY <1>4, <1>5
  <2> QED BY <1>6, <2>1, <2>2 DEF Settles
<1>9. OwedFor(k) = 0 /\ OwedFor(task[t]) = m + w
  BY DEF OwedFor
<1>10. held' = held - OwedFor(task[t]) + OwedFor(k)
  BY <1>1, <1>9
<1>11. receipt' \in [Receipt -> ReceiptStatus] /\ ReceiptFollows(k, p)
  BY <1>6, <1>7, FinalizeIs DEF Succeeded, Failed
<1>12. OnlyTask(t, k, p)
  BY <1>2 DEF OnlyTask
<1>13. task[t].status \in {"SUBMITTED", "REJECTED"} => ~(p.poster > paid[t].poster)
  BY <1>3, <1>5
<1>14. TaskStep(t, k, p)
  BY <1>8, <1>10, <1>11, <1>12, <1>13 DEF TaskStep
<1> QED BY <1>14

\* approveTask ends the task and pays the worker.
LEMMA ApproveStep ==
  ASSUME Inv, NEW t \in Tasks, NEW a \in Agent, approveTask(t, a)
  PROVE  \E k, p : TaskStep(t, k, p)
<1> DEFINE k == [task[t] EXCEPT !.status = "APPROVED"]
<1>1. /\ task[t] \in TaskRecord /\ Progress(task[t]) /\ task[t].status = "SUBMITTED"
      /\ task' = [task EXCEPT ![t].status = "APPROVED"]
      /\ releaseEscrowPublic(task[t].ref, task[t].reward)
      /\ finalize(task[t].ref, "success") /\ Pay(t, 0, task[t].reward)
      /\ UNCHANGED <<now, book>>
  BY TaskTypes DEF Inv, approveTask
<1>2. task' = [task EXCEPT ![t] = k]
  BY <1>1, Zenon
<1>3. /\ k \in TaskRecord /\ k.status = "APPROVED" /\ k.ref = task[t].ref
      /\ k.reward = task[t].reward /\ k.count = task[t].count /\ k.done = task[t].done
      /\ k.bond = task[t].bond /\ k.slash = task[t].slash
  BY <1>1 DEF TaskRecord, Status, Terminal
<1> HIDE DEF k
<1>4. Progress(k) /\ task[t].bond = 0 /\ task[t].done = {}
  BY <1>1, <1>3 DEF Progress
<1>5. Left(task[t]) = task[t].reward /\ task[t].reward \in Nat
  BY <1>1, <1>4, LeftType DEF TaskRecord
<1>6. /\ held' \in Nat /\ held' = held - task[t].reward
      /\ busReceipt' \in [Receipt -> {"none", "open", "success"}]
  BY <1>1, <1>5, ReleaseIs
<1>7. 0 + task[t].reward = Left(task[t]) + task[t].bond /\ held' = held - (0 + task[t].reward)
  BY <1>4, <1>5, <1>6
<1>8. Ends(t, k, 0, task[t].reward, "success")
  BY <1>1, <1>2, <1>3, <1>4, <1>5, <1>6, <1>7 DEF Ends, Terminal
<1> QED BY <1>8, EndStep

\* cancelTask ends the task and pays the poster.
LEMMA CancelStep ==
  ASSUME Inv, NEW t \in Tasks, NEW a \in Agent, cancelTask(t, a)
  PROVE  \E k, p : TaskStep(t, k, p)
<1> DEFINE k == [task[t] EXCEPT !.status = "CANCELLED"]
<1>1. /\ task[t] \in TaskRecord /\ Progress(task[t]) /\ task[t].status = "OPEN"
      /\ task' = [task EXCEPT ![t].status = "CANCELLED"]
      /\ releaseEscrowPublic(task[t].ref, task[t].reward)
      /\ finalize(task[t].ref, "failure") /\ Pay(t, task[t].reward, 0)
      /\ UNCHANGED <<now, book>>
  BY TaskTypes DEF Inv, cancelTask
<1>2. task' = [task EXCEPT ![t] = k]
  BY <1>1, Zenon
<1>3. /\ k \in TaskRecord /\ k.status = "CANCELLED" /\ k.ref = task[t].ref
      /\ k.reward = task[t].reward /\ k.count = task[t].count /\ k.done = task[t].done
      /\ k.bond = task[t].bond /\ k.slash = task[t].slash
  BY <1>1 DEF TaskRecord, Status, Terminal
<1> HIDE DEF k
<1>4. Progress(k) /\ task[t].bond = 0 /\ task[t].done = {}
  BY <1>1, <1>3 DEF Progress
<1>5. Left(task[t]) = task[t].reward /\ task[t].reward \in Nat /\ Left(k) = Left(task[t])
  BY <1>1, <1>3, <1>4, LeftType DEF TaskRecord, Left
<1>6. /\ held' \in Nat /\ held' = held - task[t].reward
      /\ busReceipt' \in [Receipt -> {"none", "open", "success"}]
  BY <1>1, <1>5, ReleaseIs
<1>7. task[t].reward + 0 = Left(task[t]) + task[t].bond /\ held' = held - (task[t].reward + 0)
  BY <1>4, <1>5, <1>6
<1>8. Ends(t, k, task[t].reward, 0, "failure")
  BY <1>1, <1>2, <1>3, <1>4, <1>5, <1>6, <1>7 DEF Ends, Terminal
<1> QED BY <1>8, EndStep

\* reclaimExpired pays the poster what the approved milestones left.
LEMMA ReclaimStep ==
  ASSUME Inv, NEW t \in Tasks, NEW a \in Agent, reclaimExpired(t, a)
  PROVE  \E k, p : TaskStep(t, k, p)
<1> DEFINE k == [task[t] EXCEPT !.status = "CANCELLED"]
           m == Left(task[t])
<1>0. Unreleased(t) = m
  BY DEF Unreleased, PerMilestone, Left
<1>1. /\ task[t] \in TaskRecord /\ Progress(task[t]) /\ task[t].status \in {"OPEN", "ACCEPTED", "PARTIAL"}
      /\ task' = [task EXCEPT ![t].status = "CANCELLED"]
      /\ \/ m > 0 /\ releaseEscrowPublic(task[t].ref, m)
         \/ m = 0 /\ UNCHANGED <<busReceipt, held>>
      /\ finalize(task[t].ref, "failure") /\ Pay(t, m, 0)
      /\ UNCHANGED <<now, book>>
  BY <1>0, TaskTypes DEF Inv, reclaimExpired
<1>2. task' = [task EXCEPT ![t] = k]
  BY <1>1, Zenon
<1>3. /\ k \in TaskRecord /\ k.status = "CANCELLED" /\ k.ref = task[t].ref
      /\ k.reward = task[t].reward /\ k.count = task[t].count /\ k.done = task[t].done
      /\ k.bond = task[t].bond /\ k.slash = task[t].slash
  BY <1>1 DEF TaskRecord, Status, Terminal
<1>4. Progress(k) /\ task[t].bond = 0
  BY <1>1, <1>3 DEF Progress
<1>5. m \in Nat /\ Left(k) = m
  BY <1>1, <1>3, LeftType DEF Left
<1> HIDE DEF k, m
<1>6. /\ held' \in Nat /\ held' = held - m
      /\ busReceipt' \in [Receipt -> {"none", "open", "success"}]
  <2>1. CASE releaseEscrowPublic(task[t].ref, m)
    BY <1>1, <1>5, <2>1, ReleaseIs
  <2>2. CASE m = 0 /\ UNCHANGED <<busReceipt, held>>
    BY <2>2 DEF Inv, Types
  <2> QED BY <1>1, <2>1, <2>2
<1>7. m + 0 = Left(task[t]) + task[t].bond /\ held' = held - (m + 0) /\ Left(k) = Left(task[t])
  BY <1>4, <1>5, <1>6 DEF m
<1>8. Ends(t, k, m, 0, "failure")
  BY <1>1, <1>2, <1>3, <1>4, <1>5, <1>6, <1>7 DEF Ends, Terminal
<1> QED BY <1>8, EndStep

\* A share of at most 100 percent.
LEMMA ShareIs ==
  ASSUME NEW reward \in Nat, NEW pct \in 0 .. 100
  PROVE  (reward * pct) \div 100 \in 0 .. reward
<1>1. reward * pct <= reward * 100 /\ reward * pct \in Nat
  OBVIOUS
<1>2. PICK x \in Nat : x = reward * pct
  BY <1>1
<1>3. x <= reward * 100
  BY <1>1, <1>2
<1>4. x \div 100 \in 0 .. reward
  BY <1>3
<1> QED BY <1>2, <1>4

\* resolveDispute pays reward and bond to the two parties, rounding included.
LEMMA ResolveStep ==
  ASSUME Inv, NEW t \in Tasks, NEW a \in Agent, NEW wins \in BOOLEAN, resolveDispute(t, a, wins)
  PROVE  \E k, p : TaskStep(t, k, p)
<1> DEFINE k == [task[t] EXCEPT !.status = "RESOLVED"]
           reward == task[t].reward
           bond == task[t].bond
           share == (reward * task[t].slash) \div 100
<1>1. /\ task[t] \in TaskRecord /\ Progress(task[t]) /\ task[t].status = "DISPUTED"
      /\ task' = [task EXCEPT ![t].status = "RESOLVED"]
      /\ releaseEscrowPublic(task[t].ref, reward + bond)
      /\ finalize(task[t].ref, IF wins THEN "success" ELSE "failure")
      /\ IF wins THEN Pay(t, 0, reward + bond) ELSE Pay(t, (reward - share) + bond, share)
      /\ UNCHANGED <<now, book>>
  BY TaskTypes DEF Inv, resolveDispute
<1>2. task' = [task EXCEPT ![t] = k]
  BY <1>1, Zenon
<1>3. /\ k \in TaskRecord /\ k.status = "RESOLVED" /\ k.ref = task[t].ref
      /\ k.reward = task[t].reward /\ k.count = task[t].count /\ k.done = task[t].done
      /\ k.bond = task[t].bond /\ k.slash = task[t].slash
  BY <1>1 DEF TaskRecord, Status, Terminal
<1> HIDE DEF k
<1>4. Progress(k) /\ task[t].done = {}
  BY <1>1, <1>3 DEF Progress
<1>5. Left(task[t]) = reward /\ reward \in Nat /\ bond \in Nat /\ share \in 0 .. reward
  BY <1>1, <1>4, LeftType, ShareIs DEF TaskRecord
<1>6. /\ held' \in Nat /\ held' = held - (reward + bond)
      /\ busReceipt' \in [Receipt -> {"none", "open", "success"}]
  <2>1. PICK x \in Nat : x = reward + bond
    BY <1>5
  <2>2. releaseEscrowPublic(task[t].ref, x)
    BY <1>1, <2>1
  <2> QED BY <1>1, <2>1, <2>2, ReleaseIs
<1> HIDE DEF share
<1>7. CASE wins
  <2>1. /\ Pay(t, 0, reward + bond) /\ finalize(k.ref, "success") /\ reward + bond \in Nat
        /\ 0 + (reward + bond) = Left(task[t]) + task[t].bond
        /\ held' = held - (0 + (reward + bond))
    BY <1>1, <1>3, <1>5, <1>6, <1>7
  <2>2. Ends(t, k, 0, reward + bond, "success")
    BY <1>1, <1>2, <1>3, <1>4, <1>5, <1>6, <2>1 DEF Ends, Terminal
  <2> QED BY <2>2, EndStep
<1>8. CASE ~wins
  <2>1. /\ Pay(t, (reward - share) + bond, share) /\ finalize(k.ref, "failure")
        /\ (reward - share) + bond \in Nat /\ share \in Nat
        /\ ((reward - share) + bond) + share = Left(task[t]) + task[t].bond
        /\ held' = held - (((reward - share) + bond) + share)
    BY <1>1, <1>3, <1>5, <1>6, <1>8
  <2>2. Ends(t, k, (reward - share) + bond, share, "failure")
    BY <1>1, <1>2, <1>3, <1>4, <1>5, <1>6, <2>1 DEF Ends, Terminal
  <2> QED BY <2>2, EndStep
<1> QED BY <1>7, <1>8

\* One more milestone done.
LEMMA OneMoreDone ==
  ASSUME NEW k \in TaskRecord, Progress(k), NEW i \in Nat, i < k.count, i \notin k.done
  PROVE  /\ k.done \cup {i} \subseteq 0 .. k.count - 1
         /\ Cardinality(k.done \cup {i}) = Cardinality(k.done) + 1
         /\ Cardinality(k.done) + 1 <= k.count
<1>1. k.done \cup {i} \subseteq 0 .. k.count - 1 /\ k.count \in Nat
  BY DEF Progress, TaskRecord
<1>2. IsFiniteSet(k.done)
  BY LeftType
<1>3. Cardinality(k.done \cup {i}) = Cardinality(k.done) + 1
  BY <1>2, FS_AddElement
<1>4. IsFiniteSet(0 .. k.count - 1) /\ Cardinality(0 .. k.count - 1) = k.count
  <2>1. 0 \in Int /\ k.count - 1 \in Int
    BY <1>1
  <2>2. /\ IsFiniteSet(0 .. k.count - 1)
        /\ Cardinality(0 .. k.count - 1) = IF 0 > k.count - 1 THEN 0 ELSE (k.count - 1) - 0 + 1
    BY <2>1, FS_Interval
  <2> QED BY <2>2, <1>1
<1>5. Cardinality(k.done \cup {i}) <= k.count
  BY <1>1, <1>4, FS_Subset
<1> QED BY <1>1, <1>3, <1>5

\* The last milestone: the worker gets its share and the remainder.
LEMMA LastMilestoneStep ==
  ASSUME Inv, NEW t \in Tasks, NEW a \in Agent, NEW i \in Nat, completeMilestone(t, a, i),
         Cardinality(task[t].done) + 1 = task[t].count
  PROVE  \E k, p : TaskStep(t, k, p)
<1> DEFINE k == [task[t] EXCEPT !.done = task[t].done \cup {i}, !.status = "APPROVED"]
           q == task[t].reward \div task[t].count
           w == q + (task[t].reward - q * task[t].count)
<1>1. /\ task[t] \in TaskRecord /\ Progress(task[t]) /\ task[t].status \in {"ACCEPTED", "PARTIAL"}
      /\ i < task[t].count /\ i \notin task[t].done /\ task[t].count > 0
      /\ task' = [task EXCEPT ![t].done = @ \cup {i}, ![t].status = "APPROVED"]
      /\ releaseEscrowPublic(task[t].ref, w)
      /\ finalize(task[t].ref, "success") /\ Pay(t, 0, w)
      /\ UNCHANGED <<now, book>>
  BY TaskTypes DEF Inv, completeMilestone, PerMilestone
<1>2. task' = [task EXCEPT ![t] = k]
  BY <1>1, Zenon
<1>3. k.ref = task[t].ref /\ k.reward = task[t].reward /\ k.bond = task[t].bond /\ k.slash = task[t].slash
  BY <1>1 DEF TaskRecord
<1>4. k.status = "APPROVED" /\ k.count = task[t].count /\ k.done = task[t].done \cup {i}
  BY <1>1 DEF TaskRecord
<1>5. k \in TaskRecord
  BY <1>1 DEF TaskRecord, Status, Terminal
<1> HIDE DEF k
<1>6. /\ task[t].done \cup {i} \subseteq 0 .. task[t].count - 1
      /\ Cardinality(task[t].done) \in Nat /\ task[t].count \in Nat /\ task[t].reward \in Nat
  <2>1. task[t].count \in Nat /\ task[t].reward \in Nat
    BY <1>1 DEF TaskRecord
  <2>2. Cardinality(task[t].done) \in 0 .. task[t].count
    BY <1>1, LeftType
  <2>3. task[t].done \cup {i} \subseteq 0 .. task[t].count - 1
    BY <1>1, OneMoreDone
  <2> QED BY <2>1, <2>2, <2>3
<1>7. Progress(k) /\ task[t].bond = 0
  BY <1>1, <1>3, <1>4, <1>6 DEF Progress
<1>8. q \in Nat /\ q * task[t].count <= task[t].reward /\ task[t].count # 0
  BY <1>1, <1>6, LeftType
<1>9. w \in Nat /\ w = Left(task[t])
  <2>1. Left(task[t]) = task[t].reward - q * Cardinality(task[t].done)
    BY <1>8 DEF Left
  <2> HIDE DEF q
  <2>2. q * task[t].count = q * Cardinality(task[t].done) + q
    <3>1. \A x, c \in Nat : x * (c + 1) = x * c + x
      OBVIOUS
    <3> QED BY <3>1, <1>6, <1>8
  <2>3. q * task[t].count \in Nat /\ q * Cardinality(task[t].done) \in Nat
    BY <1>6, <1>8
  <2> QED BY <1>6, <1>8, <2>1, <2>2, <2>3
<1> HIDE DEF w
<1>10. /\ held' \in Nat /\ held' = held - w
       /\ busReceipt' \in [Receipt -> {"none", "open", "success"}]
  BY <1>1, <1>9, ReleaseIs
<1>11. 0 + w = Left(task[t]) + task[t].bond /\ held' = held - (0 + w)
  BY <1>7, <1>9, <1>10
<1>12. Ends(t, k, 0, w, "success")
  BY <1>1, <1>2, <1>3, <1>4, <1>5, <1>7, <1>9, <1>10, <1>11 DEF Ends, Terminal
<1> QED BY <1>12, EndStep

\* Any other milestone: the worker gets its share and the task goes on.
LEMMA MilestoneStep ==
  ASSUME Inv, NEW t \in Tasks, NEW a \in Agent, NEW i \in Nat, completeMilestone(t, a, i),
         Cardinality(task[t].done) + 1 # task[t].count
  PROVE  \E k, p : TaskStep(t, k, p)
<1> DEFINE k == [task[t] EXCEPT !.done = task[t].done \cup {i}, !.status = "PARTIAL"]
           q == task[t].reward \div task[t].count
           c == Cardinality(task[t].done)
<1>1. /\ task[t] \in TaskRecord /\ Progress(task[t]) /\ task[t].status \in {"ACCEPTED", "PARTIAL"}
      /\ i < task[t].count /\ i \notin task[t].done /\ task[t].count > 0
      /\ task' = [task EXCEPT ![t].done = @ \cup {i}, ![t].status = "PARTIAL"]
      /\ releaseEscrowPublic(ZeroRef, q) /\ Pay(t, 0, q)
      /\ UNCHANGED <<now, book, receipt>> /\ Settles(task[t], paid[t])
  BY TaskTypes DEF Inv, completeMilestone, PerMilestone
<1>2. task' = [task EXCEPT ![t] = k]
  BY <1>1, Zenon
<1>3. k.ref = task[t].ref /\ k.reward = task[t].reward /\ k.bond = task[t].bond /\ k.slash = task[t].slash
  BY <1>1 DEF TaskRecord
<1>4. k.status = "PARTIAL" /\ k.count = task[t].count /\ k.done = task[t].done \cup {i}
  BY <1>1 DEF TaskRecord
<1>5. k \in TaskRecord
  BY <1>1 DEF TaskRecord, Status, Terminal
<1> HIDE DEF k
<1>6. /\ task[t].done \cup {i} \subseteq 0 .. task[t].count - 1
      /\ Cardinality(k.done) = c + 1
      /\ c \in Nat /\ task[t].count \in Nat /\ task[t].reward \in Nat
  BY <1>1, <1>4, OneMoreDone, LeftType DEF TaskRecord
<1>7. Progress(k) /\ task[t].bond = 0
  BY <1>1, <1>3, <1>4, <1>6 DEF Progress
<1>8. q \in Nat /\ task[t].count # 0
  BY <1>1, <1>6, LeftType
<1>9. Left(task[t]) = task[t].reward - q * c /\ Left(k) = task[t].reward - q * (c + 1)
  BY <1>3, <1>4, <1>6, <1>8 DEF Left
<1> HIDE DEF q, c
<1>10. q * (c + 1) = q * c + q /\ q * c \in Nat
  BY <1>6, <1>8
<1>11. Left(k) = Left(task[t]) - q /\ Left(task[t]) \in Nat /\ Left(k) \in Nat
  <2>1. Left(k) \in Nat /\ Left(task[t]) \in Nat
    BY <1>1, <1>5, <1>7, LeftType
  <2> QED BY <2>1, <1>6, <1>8, <1>9, <1>10
<1>12. /\ held' \in Nat /\ held' = held - q /\ held \in Nat
       /\ busReceipt' \in [Receipt -> {"none", "open", "success"}]
  BY <1>1, <1>8, ReleaseIs
<1>13. PICK p \in PaidRecord : /\ paid' = [paid EXCEPT ![t] = p]
                               /\ p.poster = paid[t].poster + 0 /\ p.worker = paid[t].worker + q
  BY <1>1, <1>8, PayIs DEF Inv
<1>14. paid[t].poster = 0 /\ paid[t].worker = task[t].reward - Left(task[t])
  BY <1>1 DEF Settles, Terminal
<1>15. p.poster = 0 /\ p.worker = k.reward - Left(k)
  BY <1>3, <1>6, <1>8, <1>11, <1>13, <1>14
<1>16. Settles(k, p)
  BY <1>4, <1>15 DEF Settles, Terminal
<1>17. OwedFor(task[t]) = Left(task[t]) + 0 /\ OwedFor(k) = Left(k) + 0
  BY <1>1, <1>3, <1>4, <1>7 DEF OwedFor, Terminal
<1>18. held' = held - OwedFor(task[t]) + OwedFor(k)
  BY <1>8, <1>11, <1>12, <1>17
<1>19. OnlyTask(t, k, p)
  BY <1>2, <1>5, <1>13 DEF OnlyTask
<1>20. ReceiptFollows(k, p) /\ receipt' \in [Receipt -> ReceiptStatus]
  BY <1>1 DEF ReceiptFollows, Inv, Types
<1>21. TaskStep(t, k, p)
  BY <1>1, <1>3, <1>7, <1>12, <1>16, <1>18, <1>19, <1>20 DEF TaskStep, Terminal
<1> QED BY <1>21

\* Every call about a task is such a call.
LEMMA OnTaskStep ==
  ASSUME Inv, NEW t \in Tasks, NEW a \in Agent, OnTask(t, a)
  PROVE  \E k, p : TaskStep(t, k, p)
<1>1. ASSUME NEW i \in 0 .. task[t].count, completeMilestone(t, a, i)
      PROVE  \E k, p : TaskStep(t, k, p)
  <2>1. i \in Nat
    BY TaskTypes DEF Inv, TaskRecord
  <2> QED BY <1>1, <2>1, LastMilestoneStep, MilestoneStep
<1> QED BY <1>1, AcceptStep, SubmitStep, ApproveStep, RejectStep, CancelStep, ReclaimStep,
           DisputeStep, ResolveStep, SlashStep DEF OnTask
-----------------------------------------------------------------------------
(* The other steps, and the theorems.                                      *)

\* No task, nothing in the escrow.
LEMMA InitInv == Init => Inv
<1> SUFFICES ASSUME Init PROVE Inv
  OBVIOUS
<1>1. Types
  <2>1. now \in 0 .. MaxTime
    BY SettlementAssumption DEF Init
  <2>2. task = << >> /\ paid = << >>
    BY DEF Init
  <2>3. task \in Seq(TaskRecord)
    BY <2>2
  <2>4. paid \in Seq(PaidRecord)
    BY <2>2
  <2>5. Len(paid) = Len(task)
    BY <2>2
  <2>6. receipt \in [Receipt -> ReceiptStatus]
    BY DEF Init, ReceiptStatus
  <2>7. busReceipt \in [Receipt -> {"none", "open", "success"}]
    BY DEF Init
  <2>8. held \in Nat /\ book \in BOOLEAN
    BY DEF Init
  <2> QED BY <2>1, <2>3, <2>4, <2>5, <2>6, <2>7, <2>8 DEF Types
<1>2. Tasks = {}
  BY DEF Init, Tasks
<1>3. Owed \in [{} -> Int]
  BY <1>2 DEF Owed
<1>4. held = Sum(Owed, Tasks)
  BY <1>2, <1>3, SumEmpty DEF Init
<1>5. ReceiptAgrees
  BY DEF Init, ReceiptAgrees
<1> QED BY <1>1, <1>2, <1>4, <1>5 DEF Inv

\* A step that touches no task, no escrow and no receipt.
LEMMA SameTasks ==
  ASSUME Inv, UNCHANGED <<task, paid, held, receipt, busReceipt>>,
         now' \in 0 .. MaxTime, book' \in BOOLEAN
  PROVE  Inv' /\ Fair /\ Final
<1>1. Tasks' = Tasks /\ Owed' = Owed
  BY DEF Tasks, Owed
<1>2. Types'
  BY DEF Inv, Types
<1>3. ReceiptAgrees'
  BY <1>1 DEF Inv, ReceiptAgrees
<1>4. Fair
  <2>1. \A t \in Tasks : paid[t].poster \in Nat
    BY TaskTypes DEF Inv, PaidRecord
  <2>2. \A t \in Tasks : ~(paid[t].poster > paid[t].poster)
    BY <2>1
  <2> QED BY <2>2 DEF Fair
<1>5. Final
  BY DEF Final
<1> QED BY <1>1, <1>2, <1>3, <1>4, <1>5 DEF Inv

\* open adds a task and what it owes to the escrow.
LEMMA OpenInv ==
  ASSUME Inv, NEW a \in Agent, NEW value \in Value, NEW count \in Count,
         NEW deadline \in 0 .. MaxTime, NEW r \in Receipt \cup {ZeroRef},
         open(a, value, count, deadline, r)
  PROVE  Inv' /\ Fair /\ Final
<1> DEFINE n == Len(task)
           k == [poster |-> a, worker |-> NoAgent, reward |-> value, deadline |-> deadline,
                 ref |-> r, bond |-> 0, slash |-> 0, count |-> count, done |-> {}, status |-> "OPEN"]
           p == [poster |-> 0, worker |-> 0]
<1>1. /\ task' = Append(task, k) /\ paid' = Append(paid, p) /\ held' = held + value
      /\ UNCHANGED <<now, book, receipt, busReceipt>> /\ value > 0
  BY DEF open, escrow
<1>2. value \in Nat \ {0} /\ count \in Nat /\ deadline \in Nat
  BY <1>1, SettlementAssumption
<1>3. k \in TaskRecord /\ p \in PaidRecord
  BY <1>2 DEF TaskRecord, PaidRecord, Status
<1>4. k.status = "OPEN" /\ k.reward = value /\ k.bond = 0 /\ k.count = count /\ k.done = {} /\ k.ref = r
  OBVIOUS
<1>5. p.poster = 0 /\ p.worker = 0
  OBVIOUS
<1> HIDE DEF k, p
<1>6. /\ n \in Nat /\ Tasks = 1 .. n /\ DOMAIN paid = Tasks
      /\ \A t \in Tasks : task[t] \in TaskRecord /\ paid[t] \in PaidRecord
      /\ task \in Seq(TaskRecord) /\ paid \in Seq(PaidRecord) /\ Len(paid) = n /\ held \in Nat
  BY TaskTypes DEF Inv, Types
<1>7. /\ task' \in Seq(TaskRecord) /\ Len(task') = n + 1 /\ Tasks' = 1 .. n + 1
      /\ task'[n + 1] = k /\ \A t \in Tasks : task'[t] = task[t]
  BY <1>1, <1>3, <1>6 DEF Tasks
<1>8. /\ paid' \in Seq(PaidRecord) /\ Len(paid') = n + 1
      /\ paid'[n + 1] = p /\ \A t \in Tasks : paid'[t] = paid[t]
  BY <1>1, <1>3, <1>6
<1>9. Types'
  BY <1>1, <1>2, <1>6, <1>7, <1>8 DEF Inv, Types
<1>10. Progress(k)
  BY <1>4 DEF Progress
<1>11. Left(k) = value
  BY <1>3, <1>4, <1>10, LeftType
<1>12. Settles(k, p)
  BY <1>2, <1>4, <1>5, <1>11 DEF Settles, Terminal
<1>13. \A t \in Tasks' : t \in Tasks \/ t = n + 1
  BY <1>6, <1>7
<1>14. \A t \in Tasks' : Progress(task'[t]) /\ Settles(task'[t], paid'[t])
  BY <1>7, <1>8, <1>10, <1>12, <1>13 DEF Inv
<1>15. held' = Sum(Owed', Tasks')
  <2>1. Owed' = [t \in Tasks' |-> OwedFor(task'[t])]
    BY DEF Owed
  <2>2. \A t \in Tasks' : task'[t] \in TaskRecord
    BY <1>3, <1>6, <1>7, <1>13
  <2>3. Owed' \in [Tasks' -> Int] /\ Owed \in [Tasks -> Int]
    <3>1. \A t \in Tasks' : OwedFor(task'[t]) \in Int
      BY <2>2, <1>14, OwedType
    <3>2. \A t \in Tasks : OwedFor(task[t]) \in Int
      BY <1>6, OwedType DEF Inv
    <3> QED BY <2>1, <3>1, <3>2 DEF Owed
  <2>4. Tasks' \ {n + 1} = Tasks /\ n + 1 \in Tasks' /\ IsFiniteSet(Tasks')
    <3>1. IsFiniteSet(1 .. n + 1)
      BY <1>6, FS_Interval
    <3> QED BY <1>6, <1>7, <3>1
  <2>5. \A t \in Tasks : Owed[t] = Owed'[t]
    BY <1>6, <1>7, <2>1, <2>4 DEF Owed
  <2>6. Sum(Owed', Tasks') = Owed'[n + 1] + Sum(Owed, Tasks) /\ Sum(Owed, Tasks) \in Int
    BY <2>3, <2>4, <2>5, SumSplit
  <2>7. Owed'[n + 1] = OwedFor(k)
    BY <1>7, <2>1, <2>4
  <2>8. OwedFor(k) = value
    BY <1>2, <1>4, <1>11 DEF OwedFor, Terminal
  <2>9. held = Sum(Owed, Tasks)
    BY DEF Inv
  <2> QED BY <1>1, <1>2, <2>6, <2>7, <2>8, <2>9
<1>16. ReceiptAgrees'
  <2> SUFFICES ASSUME NEW s \in Receipt
               PROVE /\ receipt[s] = "success" =>
                          \E u \in Tasks' : task'[u].ref = s /\ Succeeded(task'[u], paid'[u])
                     /\ receipt[s] = "failure" =>
                          \E u \in Tasks' : task'[u].ref = s /\ Failed(task'[u], paid'[u])
    BY <1>1 DEF ReceiptAgrees, Succeeded, Failed
  <2>1. Tasks \subseteq Tasks'
    BY <1>6, <1>7
  <2>2. ASSUME receipt[s] = "success"
        PROVE  \E u \in Tasks' : task'[u].ref = s /\ Succeeded(task'[u], paid'[u])
    <3>1. PICK u \in Tasks : task[u].ref = s /\ Succeeded(task[u], paid[u])
      BY <2>2 DEF Inv, ReceiptAgrees, Succeeded
    <3> QED BY <1>7, <1>8, <2>1, <3>1
  <2>3. ASSUME receipt[s] = "failure"
        PROVE  \E u \in Tasks' : task'[u].ref = s /\ Failed(task'[u], paid'[u])
    <3>1. PICK u \in Tasks : task[u].ref = s /\ Failed(task[u], paid[u])
      BY <2>3 DEF Inv, ReceiptAgrees, Failed
    <3> QED BY <1>7, <1>8, <2>1, <3>1
  <2> QED BY <2>2, <2>3
<1>17. Fair
  <2>1. \A t \in Tasks : paid[t].poster \in Nat
    BY <1>6 DEF PaidRecord
  <2>2. \A t \in Tasks : ~(paid[t].poster > paid[t].poster)
    BY <2>1
  <2> QED BY <1>7, <1>8, <2>2 DEF Fair
<1>18. Final
  BY <1>1 DEF Final
<1> QED BY <1>9, <1>14, <1>15, <1>16, <1>17, <1>18 DEF Inv

\* Every transaction keeps the invariant, is fair and changes no final receipt.
LEMMA NextInv ==
  ASSUME Inv, [Next]_vars
  PROVE  Inv' /\ Fair /\ Final
<1>1. now \in 0 .. MaxTime /\ book \in BOOLEAN /\ MaxTime \in Nat
  BY SettlementAssumption DEF Inv, Types
<1>2. CASE Tick
  <2>1. now' \in 0 .. MaxTime /\ book' \in BOOLEAN
    BY <1>1, <1>2 DEF Tick
  <2> QED BY <1>2, <2>1, SameTasks DEF Tick
<1>3. ASSUME NEW a \in Agent, NEW b \in BOOLEAN, setReceiptBook(a, b)
      PROVE  Inv' /\ Fair /\ Final
  <2>1. now' \in 0 .. MaxTime /\ book' \in BOOLEAN
    BY <1>1, <1>3 DEF setReceiptBook
  <2> QED BY <1>3, <2>1, SameTasks DEF setReceiptBook
<1>4. ASSUME NEW a \in Agent, NEW value \in Value, NEW count \in Count,
             NEW deadline \in 0 .. MaxTime, NEW r \in Receipt \cup {ZeroRef},
             open(a, value, count, deadline, r)
      PROVE  Inv' /\ Fair /\ Final
  BY <1>4, OpenInv
<1>5. ASSUME NEW a \in Agent, NEW t \in Tasks, OnTask(t, a)
      PROVE  Inv' /\ Fair /\ Final
  BY <1>5, OnTaskStep, TaskStepKeepsInv, TaskStepIsFair
<1>6. CASE UNCHANGED vars
  BY <1>1, <1>6, SameTasks DEF vars
<1> QED BY <1>2, <1>3, <1>4, <1>5, <1>6 DEF Next

\* The inductive invariant: every task is settled or owed in the escrow, whatever the
\* number of tasks, the rewards, the bonds and the milestones.
THEOREM InvHolds == Spec => []Inv
<1>1. Init => Inv
  BY InitInv
<1>2. Inv /\ [Next]_vars => Inv'
  BY NextInv
<1> QED BY <1>1, <1>2, PTL DEF Spec

\* Types of the variables, as the model states them.
THEOREM TypesHold == Spec => []TypeOK
<1>1. Inv => TypeOK
  <2> SUFFICES ASSUME Inv PROVE TypeOK
    OBVIOUS
  <2>1. \A t \in Tasks : task[t] \in TaskRecord
    BY TaskTypes DEF Inv
  <2>2. \A t \in Tasks : /\ task[t].status \in Status
                         /\ task[t].reward \in Nat \ {0} /\ task[t].bond \in Nat
                         /\ task[t].slash \in 0 .. 100
    BY <2>1 DEF TaskRecord
  <2> QED BY <2>2 DEF Inv, Types, TypeOK, ReceiptStatus
<1> QED BY <1>1, InvHolds, PTL

\* The contract's solvency: the escrow the host holds is exactly the sum of what the open
\* tasks can still pay, so every release the contract makes is covered.
THEOREM EscrowIsExact == Spec => []EscrowCoversTasks
<1>1. Inv => EscrowCoversTasks
  BY EscrowIsSum DEF Inv
<1> QED BY <1>1, InvHolds, PTL

\* A task that ended paid out its reward and its bond to the last unit.
THEOREM TasksPayInFull == Spec => []PaysInFull
<1>1. Inv => PaysInFull
  BY SettlesAll DEF Inv
<1> QED BY <1>1, InvHolds, PTL

\* The canonical receipt tells how a task that carries it ended.
THEOREM ReceiptsAgree == Spec => []ReceiptAgrees
<1>1. Inv => ReceiptAgrees
  BY DEF Inv
<1> QED BY <1>1, InvHolds, PTL

\* A terminal status and what was paid are final, submitted work is only taken from the
\* worker by the resolver, and the slash policy is frozen from the submission on.
THEOREM OutcomesAreFair == Spec => OutcomeIsFair
<1>1. Inv /\ [Next]_vars => [Fair]_vars
  BY NextInv
<1>2. OutcomeIsFair <=> [][Fair]_vars
  BY DEF OutcomeIsFair, Fair
<1> QED BY <1>1, <1>2, InvHolds, PTL DEF Spec

\* ReceiptBook: success and failure are final.
THEOREM ReceiptsAreFinal == Spec => ReceiptFinal
<1>1. Inv /\ [Next]_vars => [Final]_vars
  BY NextInv
<1>2. ReceiptFinal <=> [][Final]_vars
  BY DEF ReceiptFinal, Final
<1> QED BY <1>1, <1>2, InvHolds, PTL DEF Spec
=============================================================================
