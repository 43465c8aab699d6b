--------------------------- MODULE TaskSettlement ---------------------------
(***************************************************************************)
(* The contract openlib/settlement/TaskSettlement.tol with the ReceiptBook *)
(* it writes to.  A poster escrows a reward for a task, a worker accepts   *)
(* and submits, and the reward leaves the escrow by exactly one of several *)
(* paths: approval, milestones, a dispute the resolver settles, a          *)
(* cancellation, a reclaim after the deadline.                             *)
(*                                                                         *)
(* A transaction is one action: one that fails a require, or a call it     *)
(* makes fails, is rolled back by the host and is a step that does not     *)
(* happen.  The escrow, and the receipts of the host's settlement bus,     *)
(* belong to the host (external); they are modelled from how the contract  *)
(* and the lowered helpers use them: escrow adds to what the contract      *)
(* holds, a release that it cannot cover fails.                            *)
(***************************************************************************)
EXTENDS Integers, Sequences, FiniteSets, FiniteSetsExt

CONSTANTS
  Agent, resolver,
  NoAgent,             \* agent(0)
  Receipt, ZeroRef,    \* receipt references and bytes32(0)
  Value,               \* what posters and workers escrow (msg.value)
  Count,               \* milestone counts; 0 is a task without milestones
  Pct,                 \* the slash percentages posters ask for
  MaxTasks, MaxTime    \* bounds

ASSUME SettlementAssumption ==
  /\ NoAgent \notin Agent /\ resolver \in Agent
  /\ ZeroRef \notin Receipt
  /\ Value \subseteq Nat /\ Count \subseteq Nat /\ Pct \subseteq Nat
  /\ MaxTasks \in Nat /\ MaxTime \in Nat

VARIABLES
  now,        \* block.timestamp_ms
  task,       \* the task_... mappings, by task id
  book,       \* task_receipt_book is set
  receipt,    \* receipt_status of ReceiptBook
  busReceipt, \* receipts of the host's settlement bus
  held,       \* what the host holds in escrow for this contract
  paid        \* history: paid[t], what the poster and the worker of t received

vars == <<now, task, book, receipt, busReceipt, held, paid>>

Tasks == DOMAIN task
Terminal == {"APPROVED", "RESOLVED", "CANCELLED"}
Status == Terminal \cup {"OPEN", "ACCEPTED", "SUBMITTED", "REJECTED", "DISPUTED", "PARTIAL"}

PerMilestone(t) == task[t].reward \div task[t].count
-----------------------------------------------------------------------------
(* The calls a transaction makes *)

\* settlement.openReceipt (__tol_settlement_open_receipt)
openBusReceipt(r) ==
  busReceipt' = IF r = ZeroRef \/ busReceipt[r] # "none" THEN busReceipt
                ELSE [busReceipt EXCEPT ![r] = "open"]

\* settlement.releaseEscrowPublic (__tol_settlement_release_escrow_public); amount is
\* what leaves the escrow in the whole transaction.
releaseEscrowPublic(r, amount) ==
  /\ amount <= held
  /\ held' = held - amount
  /\ busReceipt' = IF r = ZeroRef THEN busReceipt ELSE [busReceipt EXCEPT ![r] = "success"]

escrow(amount) == held' = held + amount

Binds(r) == book /\ r # ZeroRef

\* ReceiptBook.openReceipt, when the receipt does not exist yet.
openReceipt(r) ==
  receipt' = IF Binds(r) /\ receipt[r] = "none" THEN [receipt EXCEPT ![r] = "open"] ELSE receipt

FinalizeAgain(r, outcome) ==
  receipt' = IF Binds(r) THEN [receipt EXCEPT ![r] = outcome] ELSE receipt

\* ReceiptBook.openReceipt and then finalizeSuccess or finalizeFailure, when the
\* receipt is not final yet.
finalize(r, outcome) ==
  receipt' = IF Binds(r) /\ receipt[r] \in {"none", "open"}
             THEN [receipt EXCEPT ![r] = outcome] ELSE receipt

Pay(t, toPoster, toWorker) ==
  paid' = [paid EXCEPT ![t].poster = @ + toPoster, ![t].worker = @ + toWorker]
-----------------------------------------------------------------------------
Init ==
  /\ now = 0
  /\ task = << >>
  /\ book = FALSE
  /\ receipt = [r \in Receipt |-> "none"]
  /\ busReceipt = [r \in Receipt |-> "none"]
  /\ held = 0
  /\ paid = << >>

Tick == now < MaxTime /\ now' = now + 1
        /\ UNCHANGED <<task, book, receipt, busReceipt, held, paid>>

\* openTask (count = 0) and openMilestoneTask.  A definition named ...Without..., ...
\* Again and the like is a wrong form of the one it precedes, used to see that the
\* properties notice it.
open(sender, value, count, deadline, r) ==
  /\ Len(task) < MaxTasks
  /\ value > 0
  /\ deadline > now
  /\ task' = Append(task, [poster |-> sender, worker |-> NoAgent, reward |-> value,
                           deadline |-> deadline, ref |-> r, bond |-> 0, slash |-> 0,
                           count |-> count, done |-> {}, status |-> "OPEN"])
  /\ escrow(value)
  /\ paid' = Append(paid, [poster |-> 0, worker |-> 0])
  /\ UNCHANGED <<now, book, receipt, busReceipt>>

acceptTask(t, sender) ==
  /\ task[t].status = "OPEN"
  /\ now < task[t].deadline
  /\ sender # task[t].poster
  /\ task' = [task EXCEPT ![t].worker = sender, ![t].status = "ACCEPTED"]
  /\ UNCHANGED <<now, book, receipt, busReceipt, held, paid>>

submitTaskPartial(t, sender) ==
  /\ task[t].status \in {"ACCEPTED", "PARTIAL"}
  /\ sender = task[t].worker
  /\ task' = [task EXCEPT ![t].status = "SUBMITTED"]
  /\ UNCHANGED <<now, book, receipt, busReceipt, held, paid>>

submitTask(t, sender) ==
  /\ task[t].status = "ACCEPTED"
  /\ sender = task[t].worker
  /\ task' = [task EXCEPT ![t].status = "SUBMITTED"]
  /\ UNCHANGED <<now, book, receipt, busReceipt, held, paid>>

approveTask(t, sender) ==
  /\ task[t].status = "SUBMITTED"
  /\ sender = task[t].poster
  /\ task' = [task EXCEPT ![t].status = "APPROVED"]
  /\ releaseEscrowPublic(task[t].ref, task[t].reward)
  /\ finalize(task[t].ref, "success")
  /\ Pay(t, 0, task[t].reward)
  /\ UNCHANGED <<now, book>>

rejectTask(t, sender) ==
  /\ task[t].status = "SUBMITTED"
  /\ sender = task[t].poster
  /\ openBusReceipt(task[t].ref)
  /\ openReceipt(task[t].ref)
  /\ task' = [task EXCEPT ![t].status = "REJECTED"]
  /\ UNCHANGED <<now, book, held, paid>>

disputeTask(t, sender, value) ==
  /\ task[t].status = "REJECTED"
  /\ sender = task[t].worker
  /\ value > 0
  /\ task' = [task EXCEPT ![t].status = "DISPUTED", ![t].bond = value]
  /\ escrow(value)
  /\ UNCHANGED <<now, book, receipt, busReceipt, paid>>

\* The winner gets the bond; a worker who loses gets the share of the slash policy.
resolveDispute(t, sender, worker_wins) ==
  LET reward == task[t].reward
      bond   == task[t].bond
      worker_share == (reward * task[t].slash) \div 100
      poster_share == reward - worker_share
  IN /\ task[t].status = "DISPUTED"
     /\ sender = resolver
     /\ task' = [task EXCEPT ![t].status = "RESOLVED"]
     /\ releaseEscrowPublic(task[t].ref, reward + bond)
     /\ finalize(task[t].ref, IF worker_wins THEN "success" ELSE "failure")
     /\ IF worker_wins THEN Pay(t, 0, reward + bond)
                       ELSE Pay(t, poster_share + bond, worker_share)
     /\ UNCHANGED <<now, book>>

setSlashPolicy(t, sender, pct) ==
  /\ sender = task[t].poster
  /\ task[t].status \in {"OPEN", "ACCEPTED"}
  /\ pct <= 100
  /\ task' = [task EXCEPT ![t].slash = pct]
  /\ UNCHANGED <<now, book, receipt, busReceipt, held, paid>>

setReceiptBook(sender, b) ==
  /\ sender = resolver
  /\ book' = b
  /\ UNCHANGED <<now, task, receipt, busReceipt, held, paid>>

cancelTaskAsSuccess(t, sender) ==
  /\ task[t].status = "OPEN"
  /\ sender = task[t].poster
  /\ task' = [task EXCEPT ![t].status = "CANCELLED"]
  /\ releaseEscrowPublic(task[t].ref, task[t].reward)
  /\ finalize(task[t].ref, "success")
  /\ Pay(t, task[t].reward, 0)
  /\ UNCHANGED <<now, book>>

cancelTask(t, sender) ==
  /\ task[t].status = "OPEN"
  /\ sender = task[t].poster
  /\ task' = [task EXCEPT ![t].status = "CANCELLED"]
  /\ releaseEscrowPublic(task[t].ref, task[t].reward)
  /\ finalize(task[t].ref, "failure")
  /\ Pay(t, task[t].reward, 0)
  /\ UNCHANGED <<now, book>>

\* What has not been released of the reward of t.
Unreleased(t) ==
  IF task[t].count = 0 THEN task[t].reward
  ELSE task[t].reward - PerMilestone(t) * Cardinality(task[t].done)

reclaimAnytime(t, sender) ==
  /\ task[t].status \in {"OPEN", "ACCEPTED", "SUBMITTED", "PARTIAL"}
  /\ now >= task[t].deadline
  /\ sender = task[t].poster
  /\ task' = [task EXCEPT ![t].status = "CANCELLED"]
  /\ releaseEscrowPublic(task[t].ref, Unreleased(t))
  /\ finalize(task[t].ref, "failure")
  /\ Pay(t, Unreleased(t), 0)
  /\ UNCHANGED <<now, book>>

reclaimExpired(t, sender) ==
  /\ task[t].status \in {"OPEN", "ACCEPTED", "PARTIAL"}
  /\ now >= task[t].deadline
  /\ sender = task[t].poster
  /\ task' = [task EXCEPT ![t].status = "CANCELLED"]
  /\ \/ Unreleased(t) > 0 /\ releaseEscrowPublic(task[t].ref, Unreleased(t))
     \/ Unreleased(t) = 0 /\ UNCHANGED <<busReceipt, held>>
  /\ finalize(task[t].ref, "failure")
  /\ Pay(t, Unreleased(t), 0)
  /\ UNCHANGED <<now, book>>

completeMilestoneWithoutRemainder(t, sender, i) ==
  LET done == Cardinality(task[t].done) + 1
  IN /\ sender = task[t].poster
     /\ i < task[t].count
     /\ i \notin task[t].done
     /\ task[t].status \in {"ACCEPTED", "PARTIAL"}
     /\ task' = [task EXCEPT ![t].done = @ \cup {i},
                             ![t].status = IF done = task[t].count THEN "APPROVED" ELSE "PARTIAL"]
     /\ releaseEscrowPublic(ZeroRef, PerMilestone(t))
     /\ Pay(t, 0, PerMilestone(t))
     /\ UNCHANGED <<now, book, receipt>>

\* The last milestone also releases what the division of the reward left over.
completeMilestone(t, sender, i) ==
  LET done == Cardinality(task[t].done) + 1
      remainder == task[t].reward - PerMilestone(t) * task[t].count
  IN /\ sender = task[t].poster
     /\ task[t].count > 0
     /\ i < task[t].count
     /\ i \notin task[t].done
     /\ task[t].status \in {"ACCEPTED", "PARTIAL"}
     /\ task[t].worker # NoAgent
     /\ \/ /\ done = task[t].count
           /\ task' = [task EXCEPT ![t].done = @ \cup {i}, ![t].status = "APPROVED"]
           /\ releaseEscrowPublic(task[t].ref, PerMilestone(t) + remainder)
           /\ finalize(task[t].ref, "success")
           /\ Pay(t, 0, PerMilestone(t) + remainder)
        \/ /\ done # task[t].count
           /\ task' = [task EXCEPT ![t].done = @ \cup {i}, ![t].status = "PARTIAL"]
           /\ releaseEscrowPublic(ZeroRef, PerMilestone(t))
           /\ Pay(t, 0, PerMilestone(t))
           /\ UNCHANGED receipt
     /\ UNCHANGED <<now, book>>

OnTask(t, a) ==
  \/ acceptTask(t, a) \/ submitTask(t, a) \/ approveTask(t, a) \/ rejectTask(t, a)
  \/ cancelTask(t, a) \/ reclaimExpired(t, a)
  \/ \E value \in Value : disputeTask(t, a, value)
  \/ \E wins \in BOOLEAN : resolveDispute(t, a, wins)
  \/ \E pct \in Pct : setSlashPolicy(t, a, pct)
  \/ \E i \in 0 .. task[t].count : completeMilestone(t, a, i)

Next ==
  \/ Tick
  \/ \E a \in Agent :
       \/ \E value \in Value, count \in Count, deadline \in 0 .. MaxTime, r \in Receipt \cup {ZeroRef} :
            open(a, value, count, deadline, r)
       \/ \E b \in BOOLEAN : setReceiptBook(a, b)
       \/ \E t \in Tasks : OnTask(t, a)

Spec == Init /\ [][Next]_vars
-----------------------------------------------------------------------------
\* Types of the variables.
TypeOK ==
  /\ now \in 0 .. MaxTime
  /\ \A t \in Tasks : /\ task[t].status \in Status
                      /\ task[t].reward \in Nat \ {0} /\ task[t].bond \in Nat
                      /\ task[t].slash \in 0 .. 100
  /\ receipt \in [Receipt -> {"none", "open", "success", "failure"}]
  /\ busReceipt \in [Receipt -> {"none", "open", "success"}]
  /\ held \in Nat /\ Len(paid) = Len(task)

\* The escrow holds, for every task, exactly what its poster or worker can still
\* get: nothing once its status is terminal, all that was not released before
\* ("escrowed reward must map to exactly one terminal payout path").
EscrowCoversTasks ==
  LET owed == [t \in Tasks |-> IF task[t].status \in Terminal THEN 0
                               ELSE Unreleased(t) + task[t].bond]
  IN held = MapThenSumSet(LAMBDA t : owed[t], Tasks)

\* A task that ended paid out its reward and its bond to the last unit, and to
\* nobody before: the worker is paid in full (approveTask, the last milestone), or
\* what the milestones and the slash policy give it, and the poster the rest.
PaysInFull ==
  \A t \in Tasks :
    LET k == task[t]
        total == k.reward + k.bond
    IN /\ k.status \in Terminal => paid[t].poster + paid[t].worker = total
       /\ k.status = "APPROVED" => paid[t].worker = k.reward
       /\ k.status = "CANCELLED" => paid[t].worker = k.reward - Unreleased(t)
       /\ k.status \notin Terminal => paid[t].poster = 0 /\ paid[t].worker = k.reward - Unreleased(t)

\* A terminal status, and what was paid, is final; work that was submitted is only
\* paid back to the poster by the resolver; the slash policy is frozen from the
\* submission on (setSlashPolicy: "POLICY_FROZEN").
OutcomeIsFair ==
  [][\A t \in Tasks :
       /\ task[t].status \in Terminal => task'[t] = task[t] /\ paid'[t] = paid[t]
       /\ task[t].status \in {"SUBMITTED", "REJECTED", "DISPUTED"} =>
            /\ task'[t].slash = task[t].slash
            /\ paid'[t].poster > paid[t].poster => task[t].status = "DISPUTED"]_vars

\* The canonical receipt agrees with how a task that carries it ended: it is a
\* success only if such a task paid its worker all there was, and a failure only if
\* the poster of such a task got the reward, or the rest of it, back.  (Nothing keeps
\* two tasks from naming the same receipt; the first one to end decides.)
ReceiptAgrees ==
  \A r \in Receipt :
    /\ receipt[r] = "success" =>
         \E t \in Tasks : /\ task[t].ref = r /\ task[t].status \in {"APPROVED", "RESOLVED"}
                          /\ paid[t].worker = task[t].reward + task[t].bond
    /\ receipt[r] = "failure" =>
         \E t \in Tasks : task[t].ref = r /\ task[t].status \in {"CANCELLED", "RESOLVED"}
                          /\ paid[t].poster + paid[t].worker = task[t].reward + task[t].bond

\* ReceiptBook: success and failure are final.
ReceiptFinal ==
  [][\A r \in Receipt : receipt[r] \in {"success", "failure"} => receipt'[r] = receipt[r]]_vars
=============================================================================
