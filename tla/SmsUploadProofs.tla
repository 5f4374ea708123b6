---------------------------- MODULE SmsUploadProofs ----------------------------
(***************************************************************************)
(* Theorems about SmsUpload for any number of SMS rows, tasks, queue items, *)
(* retries and faults.                                                     *)
(***************************************************************************)
EXTENDS SmsUpload, NaturalsInduction, WellFoundedInduction, TLAPS

(* The inductive invariant, in parts. *)

\* The poller knows its task and its SMS; the queue has room for the item it
\* may have to add; what it is about to mark as uploaded has been accepted.
PollInv ==
    /\ poll.pc \in {"find", "post", "mark", "enqueue", "done"} => poll.task \in Task
    /\ poll.pc \in {"post", "mark", "enqueue"} =>
          /\ poll.sms \in Sms
          /\ \E i \in Item : queue[i].state = "unused"
    /\ poll.pc = "mark" /\ poll.out = "ok" => poll.sms \in accepted

\* A queue row keeps the SMS it was made for, and is not used before.
QueueInv == \A i \in Item :
    /\ queue[i].state # "unused" => queue[i].sms \in Sms
    /\ queue[i].state = "unused" => attempts[i] = 0

\* Only the worker counts retries: the counts in its snapshot are those of the
\* rows, and the item it is working on is not in the batch any more.
WorkInv ==
    /\ \A entry \in work.batch :
          /\ queue[entry[1]].state # "unused"
          /\ entry[2] = queue[entry[1]].count /\ entry[2] < MaxRetries
          /\ work.pc \in {"post", "delete", "mark", "update"} => entry[1] # work.item
    /\ work.pc = "sleep" => work.batch = {}
    /\ work.pc \in {"post", "delete", "mark", "update"} =>
          /\ work.item \in Item
          /\ queue[work.item].state # "unused"
          /\ work.count = queue[work.item].count /\ work.count < MaxRetries
    /\ work.pc = "delete" => work.out = "ok"
    /\ work.pc \in {"delete", "mark"} /\ work.out = "ok" => WorkSms \in accepted

\* An attempt has been made and is not counted yet.
Uncounted(i) == work.pc \in {"delete", "mark", "update"} /\ work.item = i
\* The item has left the queue, and the worker's snapshot too.
Gone(i) == /\ queue[i].state = "deleted"
           /\ \A entry \in work.batch : entry[1] # i
           /\ ~(work.pc = "post" /\ work.item = i)

\* Every attempt is counted, on the item or as a fault, but for the one under
\* way and the one that took the item off the queue.
CountInv ==
    /\ \A i \in Item :
          \/ attempts[i] <= queue[i].count + faults
          \/ /\ Uncounted(i) \/ Gone(i)
             /\ queue[i].count < MaxRetries
             /\ attempts[i] <= queue[i].count + faults + 1
    /\ work.pc = "mark" /\ work.out = "ok" =>
          \/ queue[work.item].state = "deleted"
          \/ attempts[work.item] <= queue[work.item].count + faults

IInv == TypeOK /\ PollInv /\ QueueInv /\ WorkInv /\ UploadedIsAccepted /\ CountInv

-----------------------------------------------------------------------------
(* Facts about types. *)

Pollers == [pc : {"sleep", "walk", "find", "post", "mark", "enqueue", "done"},
            todo : SUBSET Task, task : Task \cup {NoTask},
            sms : Sms \cup {NoSms}, viaList : BOOLEAN, out : Outcome]
Workers == [pc : {"sleep", "walk", "post", "delete", "mark", "update"},
            batch : SUBSET (Item \X Nat), item : Item \cup {0}, count : Nat,
            out : Outcome]
Busy == {"post", "delete", "mark", "update"}

LEMMA IdleTypes == IdlePoll \in Pollers /\ IdleWork \in Workers
BY DEF IdlePoll, IdleWork, Pollers, Workers, NoSms, Outcome

LEMMA PollTypes == TypeOK => poll \in Pollers
BY DEF TypeOK, Pollers

LEMMA WorkTypes == TypeOK => work \in Workers
BY DEF TypeOK, Workers

\* The type of the data, and of the two actors apart.
DataOK ==
    /\ arrived \subseteq Sms
    /\ uploaded \in [Sms -> BOOLEAN]
    /\ itemOf \in [Sms -> Task \cup {NoTask}]
    /\ queue \in [Item -> QueueRow]
    /\ \A i \in Item : queue[i].count <= MaxRetries
    /\ processed \subseteq Task
    /\ held \subseteq Task
    /\ accepted \subseteq Sms
    /\ attempts \in [Item -> Nat]
    /\ faults \in 0..MaxFaults

LEMMA TypeParts ==
    /\ TypeOK <=> DataOK /\ poll \in Pollers /\ work \in Workers
    /\ TypeOK' <=> DataOK' /\ poll' \in Pollers /\ work' \in Workers
BY DEF TypeOK, DataOK, Pollers, Workers

LEMMA EntryTypes ==
    ASSUME TypeOK, NEW entry \in work.batch
    PROVE  entry[1] \in Item /\ entry[2] \in Nat
<1>1. work.batch \subseteq Item \X Nat
  BY WorkTypes DEF Workers
<1>2. QED
  BY <1>1

LEMMA RowTypes ==
    ASSUME TypeOK, NEW i \in Item
    PROVE  /\ queue[i] \in QueueRow /\ queue[i].count \in Nat /\ queue[i].count <= MaxRetries
           /\ attempts[i] \in Nat /\ faults \in Nat
BY SmsAssumption DEF TypeOK, QueueRow

LEMMA MinFact ==
    ASSUME NEW S, S \subseteq Nat, S # {}
    PROVE  Min(S) \in S
<1>1. PICK m \in S : \A y \in S : ~(<<y, m>> \in OpToRel(<, Nat))
  BY NatLessThanWellFounded, WFMin
<1>2. ASSUME NEW y \in S PROVE m =< y
  <2>1. y \in Nat /\ m \in Nat
    OBVIOUS
  <2>2. ~(y < m)
    BY <1>1, <2>1 DEF OpToRel
  <2>3. QED
    BY <2>1, <2>2
<1>3. QED
  BY <1>2 DEF Min

LEMMA MaxFact ==
    ASSUME NEW n \in Nat, NEW S, S \subseteq 1..n, S # {}
    PROVE  Max(S) \in S
<1> DEFINE T == {n - x : x \in S}
<1>1. T \subseteq Nat /\ T # {}
  <2>1. \A x \in S : n - x \in Nat
    OBVIOUS
  <2>2. PICK x \in S : TRUE
    OBVIOUS
  <2>3. QED
    BY <2>1, <2>2
<1>2. PICK m \in T : \A y \in T : ~(<<y, m>> \in OpToRel(<, Nat))
  BY <1>1, NatLessThanWellFounded, WFMin
<1>3. PICK x \in S : m = n - x
  OBVIOUS
<1>4. ASSUME NEW y \in S PROVE x >= y
  <2>1. n - y \in T /\ n - y \in Nat /\ m \in Nat
    BY <1>1
  <2>2. ~(n - y < m)
    BY <1>2, <2>1 DEF OpToRel
  <2>3. QED
    BY <1>3, <2>1, <2>2
<1>5. QED
  BY <1>4 DEF Max

-----------------------------------------------------------------------------
(* What the steps of one actor leave to the other. *)

\* Rows that are in use stay so, with their SMS and their count.
RowsKept == \A i \in Item :
    /\ queue[i].state # "unused" => /\ queue'[i].state # "unused"
                                    /\ queue'[i].sms = queue[i].sms
                                    /\ queue'[i].count = queue[i].count
    /\ queue[i].state = "deleted" => queue'[i].state = "deleted"

FaultsGrow == faults' \in Nat /\ faults <= faults'

\* A step that is not the worker's keeps what the worker knows.
LEMMA WorkKept ==
    ASSUME IInv, UNCHANGED <<work, attempts>>, accepted \subseteq accepted',
           RowsKept
    PROVE  WorkInv'
<1>1. \A entry \in work.batch : entry[1] \in Item
  BY EntryTypes DEF IInv
<1>2. \A entry \in work.batch :
         /\ queue'[entry[1]].state # "unused"
         /\ entry[2] = queue'[entry[1]].count
  BY <1>1 DEF IInv, WorkInv, RowsKept
<1>3. work.pc \in Busy =>
         /\ queue'[work.item].state # "unused"
         /\ work.count = queue'[work.item].count
         /\ queue'[work.item].sms = queue[work.item].sms
  BY DEF IInv, WorkInv, RowsKept, Busy
<1>4. QED
  BY <1>2, <1>3 DEF IInv, WorkInv, WorkSms, Busy

LEMMA CountKept ==
    ASSUME IInv, UNCHANGED <<work, attempts>>, RowsKept, FaultsGrow,
           queue' \in [Item -> QueueRow],
           \A i \in Item : queue[i].state = "unused" => queue'[i].count \in Nat
    PROVE  CountInv'
<1>1. ASSUME NEW i \in Item
      PROVE  \/ attempts'[i] <= queue'[i].count + faults'
             \/ /\ Uncounted(i)' \/ Gone(i)'
                /\ queue'[i].count < MaxRetries
                /\ attempts'[i] <= queue'[i].count + faults' + 1
  <2>1. /\ queue[i].count \in Nat /\ faults \in Nat /\ faults' \in Nat /\ faults <= faults'
        /\ attempts'[i] = attempts[i] /\ attempts[i] \in Nat
    BY RowTypes DEF IInv, FaultsGrow
  <2>2. CASE queue[i].state = "unused"
    <3>1. attempts[i] = 0
      BY <2>2 DEF IInv, QueueInv
    <3>2. QED
      BY <2>1, <2>2, <3>1
  <2>3. CASE queue[i].state # "unused"
    <3>1. queue'[i].count = queue[i].count
      BY <2>3 DEF RowsKept
    <3>2. Uncounted(i) => Uncounted(i)'
      BY DEF Uncounted
    <3>3. Gone(i) => Gone(i)'
      BY DEF Gone, RowsKept
    <3>4. QED
      BY <2>1, <3>1, <3>2, <3>3 DEF IInv, CountInv
  <2>4. QED
    BY <2>2, <2>3
<1>2. ASSUME work.pc = "mark", work.out = "ok"
      PROVE  \/ queue'[work.item].state = "deleted"
             \/ attempts'[work.item] <= queue'[work.item].count + faults'
  <2>1. work.item \in Item /\ queue[work.item].state # "unused"
    BY <1>2 DEF IInv, WorkInv
  <2>2. queue[work.item].count \in Nat /\ faults \in Nat /\ attempts[work.item] \in Nat
    BY <2>1, RowTypes DEF IInv
  <2>3. QED
    BY <1>2, <2>1, <2>2 DEF IInv, CountInv, RowsKept, FaultsGrow
<1>3. QED
  BY <1>1, <1>2 DEF CountInv

\* A step that is not the poller's keeps what the poller knows.
LEMMA PollKept ==
    ASSUME IInv, UNCHANGED poll, accepted \subseteq accepted',
           \A i \in Item : queue[i].state = "unused" => queue'[i].state = "unused"
    PROVE  PollInv'
BY DEF IInv, PollInv

\* A step that leaves queue, worker and attempts alone.
LEMMA PollSide ==
    ASSUME IInv, UNCHANGED <<queue, work, attempts>>, accepted \subseteq accepted', FaultsGrow
    PROVE  QueueInv' /\ WorkInv' /\ CountInv'
<1>1. RowsKept
  BY DEF RowsKept
<1>2. \A i \in Item : queue'[i].count \in Nat
  BY RowTypes DEF IInv
<1>3. queue' \in [Item -> QueueRow]
  BY DEF IInv, TypeOK
<1>4. QED
  BY <1>1, <1>2, <1>3, WorkKept, CountKept DEF IInv, QueueInv

\* The platform only ever accepts more.
LEMMA UploadFacts ==
    ASSUME TypeOK, NEW s \in Sms, NEW out \in Outcome, Upload(s, out)
    PROVE  /\ accepted \subseteq accepted' /\ accepted' \subseteq Sms
           /\ out = "ok" => s \in accepted'
BY DEF Upload, Outcome, TypeOK

LEMMA FaultFacts ==
    ASSUME TypeOK, Fault \/ UNCHANGED faults
    PROVE  /\ FaultsGrow /\ faults' \in 0..MaxFaults
           /\ Fault => faults' = faults + 1
BY SmsAssumption DEF TypeOK, Fault, FaultsGrow

\* A mark is only set for what has been accepted.
LEMMA MarkFacts ==
    ASSUME TypeOK, UploadedIsAccepted, NEW s \in Sms, NEW t \in Task \cup {NoTask}, NEW ok \in BOOLEAN,
           MarkAttempt(s, t, ok), ok => s \in accepted, UNCHANGED accepted
    PROVE  /\ uploaded' \in [Sms -> BOOLEAN] /\ itemOf' \in [Sms -> Task \cup {NoTask}]
           /\ UploadedIsAccepted'
BY DEF TypeOK, MarkAttempt, UploadedIsAccepted

-----------------------------------------------------------------------------
(* The poller's steps. *)

LEMMA FetchWaitListStep == ASSUME IInv, FetchWaitList PROVE IInv'
<1> USE DEF FetchWaitList
<1>1. poll' \in Pollers /\ poll'.pc = "walk"
  BY IdleTypes DEF Pollers, IdlePoll
<1>2. TypeOK'
  BY <1>1, TypeParts DEF IInv, DataOK, dbVars
<1>3. PollInv' /\ UploadedIsAccepted'
  BY <1>1 DEF PollInv, IInv, UploadedIsAccepted, dbVars
<1>4. FaultsGrow
  BY FaultFacts DEF IInv
<1>5. QED
  BY <1>2, <1>3, <1>4, PollSide DEF IInv, dbVars

LEMMA TakeTaskStep == ASSUME IInv, NEW t \in Task, TakeTask(t) PROVE IInv'
<1> USE DEF TakeTask
<1>1. poll' \in Pollers /\ poll'.pc \in {"walk", "find"}
      /\ (poll'.pc = "find" => poll'.task = t)
  BY PollTypes DEF IInv, Pollers
<1>2. itemOf' \in [Sms -> Task \cup {NoTask}] /\ processed' \subseteq Task
  <2>1. itemOf \in [Sms -> Task \cup {NoTask}] /\ processed \subseteq Task
    BY DEF IInv, TypeOK
  <2>2. QED
    BY <2>1
<1>3. TypeOK'
  BY <1>1, <1>2, TypeParts DEF IInv, DataOK
<1>4. PollInv' /\ UploadedIsAccepted'
  BY <1>1 DEF PollInv, IInv, UploadedIsAccepted
<1>5. FaultsGrow
  BY FaultFacts DEF IInv
<1>6. QED
  BY <1>3, <1>4, <1>5, PollSide DEF IInv

LEMMA EndWalkStep == ASSUME IInv, EndWalk PROVE IInv'
<1> USE DEF EndWalk
<1>1. poll' \in Pollers /\ poll'.pc = "sleep"
  BY IdleTypes DEF IdlePoll
<1>2. TypeOK'
  BY <1>1, TypeParts DEF IInv, DataOK, dbVars
<1>3. PollInv' /\ UploadedIsAccepted'
  BY <1>1 DEF PollInv, IInv, UploadedIsAccepted, dbVars
<1>4. FaultsGrow
  BY FaultFacts DEF IInv
<1>5. QED
  BY <1>2, <1>3, <1>4, PollSide DEF IInv, dbVars

\* What FindSms finds is an SMS, and the queue has room for it.
LEMMA FindSmsStep == ASSUME IInv, FindSms PROVE IInv'
<1> USE DEF FindSms
<1>1. Unsent # {} => Max(Unsent) \in Sms
  <2>1. Unsent \subseteq 1..NumSms
    BY DEF IInv, TypeOK, Unsent, Sms
  <2>2. Unsent # {} => Max(Unsent) \in Unsent
    BY <2>1, MaxFact, SmsAssumption
  <2>3. QED
    BY <2>1, <2>2 DEF Sms
<1>2. /\ poll' \in Pollers /\ poll'.pc \in {"walk", "post"} /\ poll'.task = poll.task
      /\ poll'.pc = "post" => /\ poll'.sms \in Sms
                              /\ \E i \in Item : queue[i].state = "unused"
  <2>1. poll \in Pollers /\ accepted \subseteq Sms
    BY PollTypes DEF IInv, TypeOK
  <2>2. QED
    BY <1>1, <2>1 DEF Pollers
<1>3. poll.task \in Task
  BY DEF IInv, PollInv
<1>4. (Fault \/ UNCHANGED faults) /\ held' \subseteq Task
  BY <1>3 DEF IInv, TypeOK
<1>5. FaultsGrow /\ faults' \in 0..MaxFaults
  BY <1>4, FaultFacts DEF IInv
<1>6. TypeOK'
  BY <1>2, <1>4, <1>5, TypeParts DEF IInv, DataOK, dbVars
<1>7. PollInv' /\ UploadedIsAccepted'
  BY <1>2, <1>3 DEF PollInv, IInv, UploadedIsAccepted, dbVars
<1>8. QED
  BY <1>5, <1>6, <1>7, PollSide DEF IInv, dbVars

LEMMA PostFromPollStep == ASSUME IInv, PostFromPoll PROVE IInv'
<1>1. PICK out \in Outcome : /\ Upload(poll.sms, out)
                             /\ poll' = [poll EXCEPT !.pc = "mark", !.out = out]
  BY DEF PostFromPoll
<1> USE DEF PostFromPoll
<1>2. poll.sms \in Sms /\ poll.task \in Task /\ \E i \in Item : queue[i].state = "unused"
  BY DEF IInv, PollInv
<1>3. /\ accepted \subseteq accepted' /\ accepted' \subseteq Sms
      /\ out = "ok" => poll.sms \in accepted'
  BY <1>1, <1>2, UploadFacts DEF IInv
<1>4. /\ poll' \in Pollers /\ poll'.pc = "mark" /\ poll'.out = out
      /\ poll'.sms = poll.sms /\ poll'.task = poll.task
  BY <1>1, PollTypes DEF IInv, Pollers
<1>5. TypeOK'
  BY <1>3, <1>4, TypeParts DEF IInv, DataOK, dbVars
<1>6. PollInv' /\ UploadedIsAccepted'
  BY <1>2, <1>3, <1>4 DEF PollInv, IInv, UploadedIsAccepted, dbVars
<1>7. FaultsGrow
  BY FaultFacts DEF IInv
<1>8. QED
  BY <1>3, <1>5, <1>6, <1>7, PollSide DEF IInv, dbVars

LEMMA MarkFromPollStep == ASSUME IInv, MarkFromPoll PROVE IInv'
<1> USE DEF MarkFromPoll
<1>1. poll.sms \in Sms /\ poll.task \in Task /\ \E i \in Item : queue[i].state = "unused"
  BY DEF IInv, PollInv
<1>2. poll.out = "ok" => poll.sms \in accepted
  BY DEF IInv, PollInv
<1>3. /\ uploaded' \in [Sms -> BOOLEAN] /\ itemOf' \in [Sms -> Task \cup {NoTask}]
      /\ UploadedIsAccepted'
  <2>1. CASE UNCHANGED <<uploaded, itemOf>>
    BY <2>1 DEF IInv, TypeOK, UploadedIsAccepted
  <2>2. CASE MarkAttempt(poll.sms, poll.task, poll.out = "ok")
    BY <1>1, <1>2, <2>2, MarkFacts DEF IInv
  <2>3. QED
    BY <2>1, <2>2
<1>4. /\ poll' \in Pollers /\ poll'.pc \in {"enqueue", "done"}
      /\ poll'.sms = poll.sms /\ poll'.task = poll.task
  BY PollTypes DEF IInv, Pollers, Outcome
<1>5. FaultsGrow /\ faults' \in 0..MaxFaults
  BY FaultFacts DEF IInv
<1>6. TypeOK'
  BY <1>3, <1>4, <1>5, TypeParts DEF IInv, DataOK
<1>7. PollInv'
  BY <1>1, <1>4 DEF PollInv
<1>8. QED
  BY <1>3, <1>5, <1>6, <1>7, PollSide DEF IInv

\* The row it takes was unused, so nobody else knows it.
LEMMA EnqueueStep == ASSUME IInv, Enqueue PROVE IInv'
<1> USE DEF Enqueue
<1> DEFINE Free == {j \in Item : queue[j].state = "unused"}
           Row == [state |-> "queued", sms |-> poll.sms, count |-> 0, due |-> FALSE]
<1>1. poll.sms \in Sms /\ poll.task \in Task /\ Free # {}
  BY DEF IInv, PollInv
<1>2. Min(Free) \in Free
  BY <1>1, MinFact, SmsAssumption DEF Item
<1>3. Row \in QueueRow /\ queue \in [Item -> QueueRow]
  BY <1>1 DEF QueueRow, QueueState, IInv, TypeOK
<1>4. PICK i \in Free : queue' = [queue EXCEPT ![i] = Row] \/ queue' = queue
  BY <1>2
<1>5. /\ queue' \in [Item -> QueueRow]
      /\ \A j \in Item : queue'[j] = queue[j] \/ (j = i /\ queue'[j] = Row)
  BY <1>3, <1>4
<1>6. RowsKept /\ \A j \in Item : queue'[j].count \in Nat /\ queue'[j].count <= MaxRetries
  BY <1>5, RowTypes, RetriesAssumption DEF RowsKept, IInv
<1>7. QueueInv'
  BY <1>1, <1>5 DEF IInv, QueueInv
<1>8. /\ poll' \in Pollers /\ poll'.pc = "done" /\ poll'.task = poll.task
  BY PollTypes DEF IInv, Pollers
<1>9. FaultsGrow /\ faults' \in 0..MaxFaults
  BY FaultFacts DEF IInv
<1>10. TypeOK'
  BY <1>5, <1>6, <1>8, <1>9, TypeParts DEF IInv, DataOK
<1>11. PollInv' /\ UploadedIsAccepted'
  BY <1>1, <1>8 DEF PollInv, IInv, UploadedIsAccepted
<1>12. WorkInv' /\ CountInv'
  BY <1>5, <1>6, <1>9, WorkKept, CountKept
<1>13. QED
  BY <1>7, <1>10, <1>11, <1>12 DEF IInv

LEMMA FinishTaskStep == ASSUME IInv, FinishTask PROVE IInv'
<1> USE DEF FinishTask
<1>1. poll.task \in Task
  BY DEF IInv, PollInv
<1>2. held' \subseteq Task /\ processed' \subseteq Task
  BY <1>1 DEF IInv, TypeOK
<1>3. poll' \in Pollers /\ poll'.pc = "walk"
  BY PollTypes, IdleTypes DEF IInv, Pollers, IdlePoll
<1>4. TypeOK'
  BY <1>2, <1>3, TypeParts DEF IInv, DataOK, dbVars
<1>5. PollInv' /\ UploadedIsAccepted'
  BY <1>3 DEF PollInv, IInv, UploadedIsAccepted, dbVars
<1>6. FaultsGrow
  BY FaultFacts DEF IInv
<1>7. QED
  BY <1>4, <1>5, <1>6, PollSide DEF IInv, dbVars

LEMMA BackoffOverStep == ASSUME IInv, NEW t \in Task, BackoffOver(t) PROVE IInv'
<1> USE DEF BackoffOver
<1>1. TypeOK'
  BY TypeParts DEF IInv, DataOK, dbVars
<1>2. PollInv' /\ UploadedIsAccepted'
  BY DEF PollInv, IInv, UploadedIsAccepted, dbVars
<1>3. FaultsGrow
  BY FaultFacts DEF IInv
<1>4. QED
  BY <1>1, <1>2, <1>3, PollSide DEF IInv, dbVars

-----------------------------------------------------------------------------
(* The worker's steps. *)

LEMMA FetchBatchStep == ASSUME IInv, FetchBatch PROVE IInv'
<1> USE DEF FetchBatch, workRest, dbVars, pollVars
<1> DEFINE Batch == {<<i, queue[i].count>> : i \in Ready}
<1>1. \A i \in Ready : i \in Item /\ queue[i].count \in Nat /\ queue[i].count < MaxRetries
                       /\ queue[i].state = "queued"
  BY RowTypes DEF IInv, Ready
<1>2. /\ work' \in Workers /\ work'.pc = "walk" /\ work'.batch = Batch
  <2>1. Batch \subseteq Item \X Nat
    BY <1>1
  <2>2. QED
    BY <2>1, IdleTypes DEF Workers, IdleWork
<1>3. TypeOK'
  BY <1>2, TypeParts DEF IInv, DataOK
<1>4. PollInv' /\ UploadedIsAccepted' /\ QueueInv'
  BY PollKept DEF IInv, UploadedIsAccepted, QueueInv
<1>5. WorkInv'
  <2>1. ASSUME NEW entry \in Batch
        PROVE  /\ queue[entry[1]].state # "unused"
               /\ entry[2] = queue[entry[1]].count /\ entry[2] < MaxRetries
    BY <1>1
  <2>2. QED
    BY <1>2, <2>1 DEF WorkInv
<1>6. CountInv'
  <2>1. ASSUME NEW i \in Item, Gone(i) PROVE Gone(i)'
    BY <1>1, <1>2, <2>1 DEF Gone
  <2>2. \A i \in Item : ~Uncounted(i)
    BY DEF Uncounted
  <2>3. QED
    BY <1>2, <2>1, <2>2 DEF IInv, CountInv
<1>7. QED
  BY <1>3, <1>4, <1>5, <1>6 DEF IInv

\* The batch holds an item once: only its current count is there.
LEMMA TakeItemStep == ASSUME IInv, NEW entry \in work.batch, TakeItem(entry) PROVE IInv'
<1> USE DEF TakeItem, workRest, dbVars, pollVars
<1>1. /\ work \in Workers /\ entry[1] \in Item /\ entry[2] \in Nat
      /\ entry = <<entry[1], entry[2]>>
  <2>1. work \in Workers
    BY WorkTypes DEF IInv
  <2>2. QED
    BY <2>1 DEF Workers
<1>2. /\ work' \in Workers /\ work'.pc = "post" /\ work'.item = entry[1]
      /\ work'.count = entry[2] /\ work'.batch = work.batch \ {entry}
  BY <1>1 DEF Workers
<1>3. TypeOK'
  BY <1>2, TypeParts DEF IInv, DataOK
<1>4. PollInv' /\ UploadedIsAccepted' /\ QueueInv'
  BY PollKept DEF IInv, UploadedIsAccepted, QueueInv
<1>5. \A other \in work.batch :
         other = <<other[1], other[2]>> /\ other[2] = queue[other[1]].count
  BY <1>1 DEF IInv, WorkInv, Workers
<1>6. \A other \in work.batch : other # entry => other[1] # entry[1]
  BY <1>1, <1>5
<1>7. WorkInv'
  BY <1>1, <1>2, <1>6 DEF IInv, WorkInv
<1>8. CountInv'
  <2>1. \A i \in Item : Gone(i) => Gone(i)'
    BY <1>2 DEF Gone
  <2>2. \A i \in Item : ~Uncounted(i)
    BY DEF Uncounted
  <2>3. QED
    BY <1>2, <2>1, <2>2 DEF IInv, CountInv
<1>9. QED
  BY <1>3, <1>4, <1>7, <1>8 DEF IInv

LEMMA EndBatchStep == ASSUME IInv, EndBatch PROVE IInv'
<1> USE DEF EndBatch, workRest, dbVars, pollVars
<1>1. work' \in Workers /\ work'.pc = "sleep" /\ work'.batch = {}
  BY IdleTypes DEF IdleWork
<1>2. TypeOK'
  BY <1>1, TypeParts DEF IInv, DataOK
<1>3. PollInv' /\ UploadedIsAccepted' /\ QueueInv'
  BY PollKept DEF IInv, UploadedIsAccepted, QueueInv
<1>4. WorkInv'
  BY <1>1 DEF WorkInv
<1>5. CountInv'
  <2>1. \A i \in Item : Gone(i) => Gone(i)'
    BY <1>1 DEF Gone
  <2>2. \A i \in Item : ~Uncounted(i)
    BY DEF Uncounted
  <2>3. QED
    BY <1>1, <2>1, <2>2 DEF IInv, CountInv
<1>6. QED
  BY <1>2, <1>3, <1>4, <1>5 DEF IInv
LEMMA PostFromWorkerStep == ASSUME IInv, PostFromWorker PROVE IInv'
<1> USE DEF workRest, dbVars, pollVars
<1>1. PICK out \in Outcome :
         /\ Upload(WorkSms, out)
         /\ work' = [work EXCEPT !.pc = IF out = "ok" THEN "delete" ELSE "mark",
                                 !.out = out]
  BY DEF PostFromWorker
<1>2. /\ attempts' = [attempts EXCEPT ![work.item] = @ + 1] /\ work.pc = "post"
      /\ UNCHANGED <<workRest, dbVars, faults, poll>>
  BY DEF PostFromWorker
<1>3. /\ work.item \in Item /\ queue[work.item].state # "unused" /\ WorkSms \in Sms
      /\ work.count = queue[work.item].count /\ work.count < MaxRetries
  BY <1>2 DEF IInv, WorkInv, QueueInv, WorkSms
<1>4. /\ accepted \subseteq accepted' /\ accepted' \subseteq Sms
      /\ out = "ok" => WorkSms \in accepted'
  BY <1>1, <1>3, UploadFacts DEF IInv
<1>5. /\ work' \in Workers /\ work'.pc = (IF out = "ok" THEN "delete" ELSE "mark")
      /\ work'.out = out /\ work'.item = work.item /\ work'.count = work.count
      /\ work'.batch = work.batch
  BY <1>1, WorkTypes DEF IInv, Workers
<1>6. attempts' \in [Item -> Nat] /\ attempts'[work.item] = attempts[work.item] + 1
      /\ \A i \in Item : i # work.item => attempts'[i] = attempts[i]
  BY <1>2, <1>3 DEF IInv, TypeOK
<1>7. TypeOK'
  BY <1>2, <1>4, <1>5, <1>6, TypeParts DEF IInv, DataOK
<1>8. PollInv' /\ UploadedIsAccepted'
  BY <1>2, <1>4, PollKept DEF IInv, UploadedIsAccepted
<1>9. QueueInv'
  BY <1>2, <1>3, <1>6 DEF IInv, QueueInv
<1>10. WorkInv'
  BY <1>2, <1>3, <1>4, <1>5 DEF IInv, WorkInv, WorkSms
<1>11. CountInv'
  <2>1. ASSUME NEW i \in Item
        PROVE  \/ attempts'[i] <= queue'[i].count + faults'
               \/ /\ Uncounted(i)' \/ Gone(i)'
                  /\ queue'[i].count < MaxRetries
                  /\ attempts'[i] <= queue'[i].count + faults' + 1
    <3>1. CASE i = work.item
      <4>1. ~Uncounted(i) /\ ~Gone(i)
        BY <1>2, <3>1 DEF Uncounted, Gone
      <4>2. attempts[i] <= queue[i].count + faults
        BY <4>1 DEF IInv, CountInv
      <4>3. Uncounted(i)'
        BY <1>5, <3>1 DEF Uncounted
      <4>4. queue[i].count \in Nat /\ faults \in Nat /\ attempts[i] \in Nat
        BY RowTypes DEF IInv
      <4>5. QED
        BY <1>2, <1>3, <1>6, <3>1, <4>2, <4>3, <4>4
    <3>2. CASE i # work.item
      <4>1. ~Uncounted(i)
        BY <3>2 DEF Uncounted
      <4>2. Gone(i) => Gone(i)'
        BY <1>2, <1>5 DEF Gone
      <4>3. QED
        BY <1>2, <1>6, <3>2, <4>1, <4>2 DEF IInv, CountInv
    <3>3. QED
      BY <3>1, <3>2
  <2>2. ~(work'.pc = "mark" /\ work'.out = "ok")
    BY <1>5
  <2>3. QED
    BY <2>1, <2>2 DEF CountInv
<1>12. QED
  BY <1>7, <1>8, <1>9, <1>10, <1>11 DEF IInv

LEMMA DeleteItemStep == ASSUME IInv, DeleteItem PROVE IInv'
<1> USE DEF DeleteItem, workRest, pollVars
<1> DEFINE Lost == /\ Fault /\ UNCHANGED queue
           Taken == /\ queue' = [queue EXCEPT ![work.item].state = "deleted"]
                    /\ UNCHANGED faults
<1>1. /\ work.item \in Item /\ queue[work.item].state # "unused" /\ work.out = "ok"
      /\ work.count = queue[work.item].count /\ work.count < MaxRetries
      /\ WorkSms \in accepted
  BY DEF IInv, WorkInv
<1>2. queue[work.item] \in QueueRow /\ queue \in [Item -> QueueRow]
  BY <1>1, RowTypes DEF IInv, TypeOK
<1>3. /\ queue' \in [Item -> QueueRow]
      /\ \A i \in Item : i # work.item => queue'[i] = queue[i]
      /\ queue'[work.item].sms = queue[work.item].sms
      /\ queue'[work.item].count = queue[work.item].count
      /\ queue'[work.item].state # "unused"
      /\ queue[work.item].state = "deleted" => queue'[work.item].state = "deleted"
      /\ Taken => queue'[work.item].state = "deleted"
  BY <1>1, <1>2 DEF QueueRow, QueueState
<1>4. /\ work' \in Workers /\ work'.pc = "mark" /\ work'.out = "ok"
      /\ work'.item = work.item /\ work'.count = work.count /\ work'.batch = work.batch
  BY <1>1, WorkTypes DEF IInv, Workers
<1>5. FaultsGrow /\ faults' \in 0..MaxFaults /\ (Fault => faults' = faults + 1)
  BY FaultFacts DEF IInv
<1>6. RowsKept /\ \A i \in Item : queue'[i].count <= MaxRetries
  BY <1>3, RowTypes DEF IInv, RowsKept
<1>7. TypeOK'
  BY <1>3, <1>4, <1>5, <1>6, TypeParts DEF IInv, DataOK
<1>8. PollInv' /\ UploadedIsAccepted'
  BY <1>1, <1>3, PollKept DEF IInv, UploadedIsAccepted
<1>9. QueueInv'
  BY <1>1, <1>3 DEF IInv, QueueInv
<1>10. WorkInv'
  <2>1. ASSUME NEW entry \in work.batch
        PROVE  /\ queue'[entry[1]].state # "unused"
               /\ entry[2] = queue'[entry[1]].count /\ entry[2] < MaxRetries
               /\ entry[1] # work.item
    <3>1. entry[1] \in Item
      BY EntryTypes DEF IInv
    <3>2. QED
      BY <1>3, <3>1 DEF IInv, WorkInv
  <2>2. WorkSms' \in accepted'
    BY <1>1, <1>3, <1>4 DEF WorkSms
  <2>3. QED
    BY <1>1, <1>3, <1>4, <2>1, <2>2 DEF WorkInv
<1>11. CountInv'
  <2>1. ASSUME NEW i \in Item
        PROVE  \/ attempts'[i] <= queue'[i].count + faults'
               \/ /\ Uncounted(i)' \/ Gone(i)'
                  /\ queue'[i].count < MaxRetries
                  /\ attempts'[i] <= queue'[i].count + faults' + 1
    <3>1. Uncounted(i) => Uncounted(i)'
      BY <1>4 DEF Uncounted
    <3>2. Gone(i) => Gone(i)'
      BY <1>4, <1>6 DEF Gone, RowsKept
    <3>3. /\ queue'[i].count = queue[i].count /\ attempts'[i] = attempts[i]
          /\ queue[i].count \in Nat /\ attempts[i] \in Nat /\ faults \in Nat
          /\ faults' \in Nat /\ faults <= faults'
      BY <1>3, <1>5, RowTypes DEF IInv, FaultsGrow
    <3>4. QED
      BY <3>1, <3>2, <3>3 DEF IInv, CountInv
  <2>2. \/ queue'[work.item].state = "deleted"
        \/ attempts'[work.item] <= queue'[work.item].count + faults'
    <3>1. CASE Taken
      BY <1>3, <3>1
    <3>2. CASE Lost
      <4>1. attempts[work.item] <= queue[work.item].count + faults + 1
        BY <1>1, RowTypes DEF IInv, CountInv
      <4>2. QED
        BY <1>1, <1>5, <3>2, <4>1, RowTypes DEF IInv
    <3>3. QED
      BY <3>1, <3>2
  <2>3. QED
    BY <1>4, <2>1, <2>2 DEF CountInv
<1>12. QED
  BY <1>7, <1>8, <1>9, <1>10, <1>11 DEF IInv

\* NextItem leaves the item: whatever is not counted by now is a fault, or the
\* item has left the queue.
LEMMA MarkFromWorkerStep == ASSUME IInv, MarkFromWorker PROVE IInv'
<1> USE DEF MarkFromWorker, workRest, pollVars
<1>1. /\ work.item \in Item /\ queue[work.item].state # "unused"
      /\ work.count = queue[work.item].count /\ work.count < MaxRetries
      /\ WorkSms \in Sms
      /\ work.out = "ok" => WorkSms \in accepted
  BY DEF IInv, WorkInv, QueueInv, WorkSms
<1>2. /\ uploaded' \in [Sms -> BOOLEAN] /\ itemOf' \in [Sms -> Task \cup {NoTask}]
      /\ UploadedIsAccepted'
  <2>1. CASE UNCHANGED <<uploaded, itemOf>>
    BY <2>1 DEF IInv, TypeOK, UploadedIsAccepted
  <2>2. ASSUME NEW t \in IF itemOf[WorkSms] # NoTask THEN {itemOf[WorkSms]} ELSE Task,
               MarkAttempt(WorkSms, t, work.out = "ok")
        PROVE  /\ uploaded' \in [Sms -> BOOLEAN] /\ itemOf' \in [Sms -> Task \cup {NoTask}]
               /\ UploadedIsAccepted'
    <3>1. t \in Task \cup {NoTask}
      BY <1>1, <2>2 DEF IInv, TypeOK
    <3>2. QED
      BY <1>1, <2>2, <3>1, MarkFacts DEF IInv
  <2>3. QED
    BY <2>1, <2>2
<1>3. FaultsGrow /\ faults' \in 0..MaxFaults
  BY FaultFacts DEF IInv
<1>4. /\ work' \in Workers /\ work'.batch = work.batch
      /\ \/ work.out = "ok" /\ work'.pc = "walk"
         \/ /\ work.out # "ok" /\ work'.pc = "update"
            /\ work'.item = work.item /\ work'.count = work.count
  BY WorkTypes, IdleTypes DEF IInv, Workers, NextItem, IdleWork
<1>5. TypeOK'
  BY <1>2, <1>3, <1>4, TypeParts DEF IInv, DataOK
<1>6. PollInv' /\ QueueInv'
  BY PollKept DEF IInv, QueueInv
<1>7. WorkInv'
  BY <1>1, <1>4 DEF IInv, WorkInv
<1>8. CountInv'
  <2>1. ASSUME NEW i \in Item
        PROVE  \/ attempts'[i] <= queue'[i].count + faults'
               \/ /\ Uncounted(i)' \/ Gone(i)'
                  /\ queue'[i].count < MaxRetries
                  /\ attempts'[i] <= queue'[i].count + faults' + 1
    <3>1. Gone(i) => Gone(i)'
      BY <1>4 DEF Gone
    <3>2. /\ queue'[i].count = queue[i].count /\ attempts'[i] = attempts[i]
          /\ queue[i].count \in Nat /\ attempts[i] \in Nat /\ faults \in Nat
          /\ faults' \in Nat /\ faults <= faults'
      BY <1>3, RowTypes DEF IInv, FaultsGrow
    <3>3. CASE Uncounted(i)
      <4>1. CASE work.out = "ok"
        <5>1. queue[i].state = "deleted" => Gone(i)'
          BY <1>4, <3>3, <4>1 DEF Gone, Uncounted, IInv, WorkInv
        <5>2. QED
          BY <3>2, <3>3, <4>1, <5>1 DEF Uncounted, IInv, CountInv
      <4>2. CASE work.out # "ok"
        <5>1. Uncounted(i)'
          BY <1>4, <3>3, <4>2 DEF Uncounted
        <5>2. QED
          BY <3>2, <5>1 DEF IInv, CountInv
      <4>3. QED
        BY <4>1, <4>2
    <3>4. CASE ~Uncounted(i)
      BY <3>1, <3>2, <3>4 DEF IInv, CountInv
    <3>5. QED
      BY <3>3, <3>4
  <2>2. work'.pc # "mark"
    BY <1>4
  <2>3. QED
    BY <2>1, <2>2 DEF CountInv
<1>9. QED
  BY <1>2, <1>5, <1>6, <1>7, <1>8 DEF IInv

\* A failed attempt counts at least once, and never beyond the maximum.
LEMMA RescheduleFacts ==
    ASSUME NEW row \in QueueRow, NEW count \in Nat, count < MaxRetries, NEW out,
           count = row.count
    PROVE  LET new == Reschedule(row, count, out)
           IN  /\ new \in QueueRow /\ new.sms = row.sms /\ new.state = row.state
               /\ new.count <= MaxRetries /\ new.count >= row.count + 1
<1>1. MaxRetries \in Nat
  BY RetriesAssumption
<1>2. CASE out = "final"
  BY <1>1, <1>2 DEF Reschedule, QueueRow
<1>3. CASE out # "final"
  <2> DEFINE new == Reschedule(row, count, out)
  <2>1. new = [state |-> row.state, sms |-> row.sms, count |-> count + 1, due |-> FALSE]
    BY <1>3 DEF Reschedule, QueueRow
  <2>2. row.state \in QueueState /\ row.sms \in Sms \cup {NoSms} /\ count + 1 \in Nat
    BY DEF QueueRow
  <2>3. new \in QueueRow
    BY <2>1, <2>2 DEF QueueRow
  <2>4. QED
    BY <1>1, <2>1, <2>3
<1>4. QED
  BY <1>2, <1>3

\* The attempt is counted on the row, or as a fault.
LEMMA UpdateItemStep == ASSUME IInv, UpdateItem PROVE IInv'
<1> USE DEF UpdateItem, workRest, pollVars
<1>1. /\ work.item \in Item /\ queue[work.item].state # "unused"
      /\ work.count = queue[work.item].count /\ work.count < MaxRetries
      /\ \A entry \in work.batch : entry[1] # work.item
  BY DEF IInv, WorkInv
<1>2. queue[work.item] \in QueueRow /\ queue \in [Item -> QueueRow] /\ MaxRetries \in Nat
  BY <1>1, RowTypes, RetriesAssumption DEF IInv, TypeOK
<1>3. /\ queue' \in [Item -> QueueRow]
      /\ \A i \in Item : i # work.item => queue'[i] = queue[i]
      /\ queue'[work.item].sms = queue[work.item].sms
      /\ queue'[work.item].state = queue[work.item].state
      /\ queue'[work.item].count <= MaxRetries
      /\ queue'[work.item].count >= queue[work.item].count + 1
         \/ (Fault /\ queue'[work.item].count = queue[work.item].count)
  <2> DEFINE row == queue[work.item]
             new == Reschedule(row, work.count, work.out)
  <2>1. row.count \in Nat
    BY <1>2 DEF QueueRow
  <2>2. /\ new \in QueueRow /\ new.sms = row.sms /\ new.state = row.state
        /\ new.count <= MaxRetries /\ new.count >= row.count + 1
    BY <1>1, <1>2, <2>1, RescheduleFacts
  <2>3. queue[work.item].count <= MaxRetries
    BY <1>1, RowTypes DEF IInv
  <2>4. CASE queue' = [queue EXCEPT ![work.item] = Reschedule(@, work.count, work.out)]
    BY <1>1, <1>2, <2>2, <2>4
  <2>5. CASE Fault /\ UNCHANGED queue
    BY <1>2, <2>3, <2>5
  <2>6. QED
    BY <2>4, <2>5
<1>4. /\ work' \in Workers /\ work'.batch = work.batch /\ work'.pc = "walk"
  BY WorkTypes, IdleTypes DEF IInv, Workers, NextItem, IdleWork
<1>5. FaultsGrow /\ faults' \in 0..MaxFaults /\ (Fault => faults' = faults + 1)
  BY FaultFacts DEF IInv
<1>6. TypeOK'
  <2>1. \A i \in Item : queue'[i].count <= MaxRetries
    BY <1>3, RowTypes DEF IInv
  <2>2. QED
    BY <1>3, <1>4, <1>5, <2>1, TypeParts DEF IInv, DataOK
<1>7. PollInv' /\ UploadedIsAccepted'
  BY <1>1, <1>3, PollKept DEF IInv, UploadedIsAccepted
<1>8. QueueInv'
  BY <1>1, <1>3 DEF IInv, QueueInv
<1>9. WorkInv'
  <2>1. ASSUME NEW entry \in work.batch
        PROVE  /\ queue'[entry[1]].state # "unused"
               /\ entry[2] = queue'[entry[1]].count /\ entry[2] < MaxRetries
    <3>1. entry[1] \in Item /\ entry[1] # work.item
      BY <1>1, EntryTypes DEF IInv
    <3>2. QED
      BY <1>3, <3>1 DEF IInv, WorkInv
  <2>2. QED
    BY <1>4, <2>1 DEF WorkInv
<1>10. CountInv'
  <2>1. ASSUME NEW i \in Item
        PROVE  \/ attempts'[i] <= queue'[i].count + faults'
               \/ /\ Uncounted(i)' \/ Gone(i)'
                  /\ queue'[i].count < MaxRetries
                  /\ attempts'[i] <= queue'[i].count + faults' + 1
    <3>1. /\ queue[i].count \in Nat /\ attempts[i] \in Nat /\ faults \in Nat
          /\ queue'[i].count \in Nat /\ attempts'[i] = attempts[i]
          /\ faults' \in Nat /\ faults <= faults'
      BY <1>3, <1>5, RowTypes DEF IInv, FaultsGrow, QueueRow
    <3>2. CASE i = work.item
      <4>1. attempts[i] <= queue[i].count + faults + 1
        BY <3>1 DEF IInv, CountInv
      <4>2. QED
        BY <1>3, <1>5, <3>1, <3>2, <4>1
    <3>3. CASE i # work.item
      <4>1. ~Uncounted(i)
        BY <3>3 DEF Uncounted
      <4>2. Gone(i) => Gone(i)'
        BY <1>3, <1>4, <3>3 DEF Gone
      <4>3. QED
        BY <1>3, <3>1, <3>3, <4>1, <4>2 DEF IInv, CountInv
    <3>4. QED
      BY <3>2, <3>3
  <2>2. work'.pc # "mark"
    BY <1>4
  <2>3. QED
    BY <2>1, <2>2 DEF CountInv
<1>11. QED
  BY <1>6, <1>7, <1>8, <1>9, <1>10 DEF IInv

-----------------------------------------------------------------------------
(* The operator, time, a crash and a new SMS. *)

\* A step that only moves the due time of an item, or takes it off the queue.
LEMMA QueueSide ==
    ASSUME IInv, NEW i \in Item, queue[i].state = "queued",
           NEW row \in QueueRow, row.state # "unused", row.sms = queue[i].sms,
           row.count = queue[i].count,
           queue' = [queue EXCEPT ![i] = row],
           UNCHANGED <<workRest, uploaded, itemOf, work, accepted, attempts, faults>>
    PROVE  IInv'
<1> USE DEF workRest, pollVars
<1>1. /\ queue' \in [Item -> QueueRow] /\ queue'[i] = row
      /\ \A j \in Item : j # i => queue'[j] = queue[j]
  BY DEF IInv, TypeOK
<1>2. RowsKept /\ \A j \in Item : queue'[j].count \in Nat /\ queue'[j].count <= MaxRetries
  BY <1>1, RowTypes DEF IInv, RowsKept
<1>3. QueueInv'
  BY <1>1 DEF IInv, QueueInv
<1>4. FaultsGrow /\ accepted \subseteq accepted'
  BY FaultFacts DEF IInv
<1>5. TypeOK'
  BY <1>1, <1>2, TypeParts DEF IInv, DataOK
<1>6. PollInv' /\ UploadedIsAccepted'
  BY <1>1, PollKept DEF IInv, UploadedIsAccepted
<1>7. WorkInv' /\ CountInv'
  BY <1>1, <1>2, <1>4, WorkKept, CountKept
<1>8. QED
  BY <1>3, <1>5, <1>6, <1>7 DEF IInv

LEMMA OperatorStep ==
    ASSUME IInv, NEW i \in Item, RetryDue(i) \/ ManualRetry(i) \/ ManualDelete(i)
    PROVE  IInv'
<1>1. queue[i] \in QueueRow
  BY RowTypes DEF IInv
<1>2. CASE RetryDue(i) \/ ManualRetry(i)
  <2> DEFINE row == [queue[i] EXCEPT !.due = TRUE]
  <2>1. /\ row \in QueueRow /\ row.state = queue[i].state /\ row.sms = queue[i].sms
        /\ row.count = queue[i].count
    BY <1>1 DEF QueueRow
  <2>2. queue' = [queue EXCEPT ![i] = row] /\ queue[i].state = "queued"
    BY <1>2 DEF RetryDue, ManualRetry
  <2>3. QED
    BY <1>2, <2>1, <2>2, QueueSide DEF RetryDue, ManualRetry
<1>3. CASE ManualDelete(i)
  <2> DEFINE row == [queue[i] EXCEPT !.state = "deleted"]
  <2>1. /\ row \in QueueRow /\ row.state # "unused" /\ row.sms = queue[i].sms
        /\ row.count = queue[i].count
    BY <1>1 DEF QueueRow, QueueState
  <2>2. queue' = [queue EXCEPT ![i] = row] /\ queue[i].state = "queued"
    BY <1>3 DEF ManualDelete
  <2>3. QED
    BY <1>3, <2>1, <2>2, QueueSide DEF ManualDelete
<1>4. QED
  BY <1>2, <1>3

\* What the worker had not counted is covered by the fault that the crash is.
LEMMA CrashStep == ASSUME IInv, Crash PROVE IInv'
<1> USE DEF Crash, dbVars
<1>1. /\ poll' \in Pollers /\ poll'.pc = "sleep" /\ work' \in Workers
      /\ work'.pc = "sleep" /\ work'.batch = {}
  BY IdleTypes DEF IdlePoll, IdleWork
<1>2. faults' \in 0..MaxFaults /\ faults' = faults + 1
  BY FaultFacts DEF IInv
<1>3. TypeOK'
  BY <1>1, <1>2, TypeParts DEF IInv, DataOK
<1>4. PollInv' /\ QueueInv' /\ WorkInv' /\ UploadedIsAccepted'
  BY <1>1 DEF IInv, PollInv, QueueInv, WorkInv, UploadedIsAccepted
<1>5. CountInv'
  <2>1. ASSUME NEW i \in Item PROVE attempts'[i] <= queue'[i].count + faults'
    <3>1. attempts[i] <= queue[i].count + faults + 1
      BY RowTypes DEF IInv, CountInv
    <3>2. QED
      BY <1>2, <3>1, RowTypes DEF IInv
  <2>2. QED
    BY <1>1, <2>1 DEF CountInv
<1>6. QED
  BY <1>3, <1>4, <1>5 DEF IInv

LEMMA ReceiveSmsStep == ASSUME IInv, NEW s \in Sms, ReceiveSms(s) PROVE IInv'
<1> USE DEF ReceiveSms, dbVars, pollVars
<1>1. TypeOK'
  BY TypeParts DEF IInv, DataOK
<1>2. PollInv' /\ UploadedIsAccepted'
  BY DEF IInv, PollInv, UploadedIsAccepted
<1>3. FaultsGrow
  BY FaultFacts DEF IInv
<1>4. QED
  BY <1>1, <1>2, <1>3, PollSide DEF IInv

-----------------------------------------------------------------------------
(* The theorems. *)

LEMMA InitIInv == Init => IInv
<1> SUFFICES ASSUME Init PROVE IInv
  OBVIOUS
<1> USE DEF Init
<1>1. /\ poll \in Pollers /\ poll.pc = "sleep" /\ work \in Workers
      /\ work.pc = "sleep" /\ work.batch = {}
  BY IdleTypes DEF IdlePoll, IdleWork
<1>2. queue \in [Item -> QueueRow] /\ \A i \in Item : queue[i].count = 0 /\ queue[i].state = "unused"
  BY DEF QueueRow, QueueState, NoSms
<1>3. TypeOK
  <2>1. 0 \in 0..MaxFaults /\ 0 <= MaxRetries
    BY RetriesAssumption, SmsAssumption
  <2>2. DataOK
    BY <1>2, <2>1 DEF DataOK
  <2>3. QED
    BY <1>1, <2>2, TypeParts
<1>4. PollInv /\ QueueInv /\ WorkInv /\ UploadedIsAccepted
  BY <1>1, <1>2 DEF PollInv, QueueInv, WorkInv, UploadedIsAccepted
<1>5. CountInv
  BY <1>1, <1>2 DEF CountInv
<1>6. QED
  BY <1>3, <1>4, <1>5 DEF IInv

LEMMA EveryStep == IInv /\ [Next]_vars => IInv'
<1> SUFFICES ASSUME IInv, [Next]_vars PROVE IInv'
  OBVIOUS
<1>1. CASE PollStep
  BY <1>1, FetchWaitListStep, EndWalkStep, FindSmsStep, PostFromPollStep,
     MarkFromPollStep, EnqueueStep, FinishTaskStep, TakeTaskStep DEF PollStep
<1>2. CASE WorkStep
  BY <1>2, FetchBatchStep, EndBatchStep, PostFromWorkerStep, DeleteItemStep,
     MarkFromWorkerStep, UpdateItemStep, TakeItemStep DEF WorkStep
<1>3. CASE \E i \in Item : RetryDue(i) \/ ManualRetry(i) \/ ManualDelete(i)
  BY <1>3, OperatorStep
<1>4. CASE Crash
  BY <1>4, CrashStep
<1>5. CASE \E s \in Sms : ReceiveSms(s)
  BY <1>5, ReceiveSmsStep
<1>6. CASE \E t \in Task : BackoffOver(t)
  BY <1>6, BackoffOverStep
<1>7. CASE UNCHANGED vars
  BY <1>7 DEF vars, IInv, TypeOK, PollInv, QueueInv, WorkInv, WorkSms, CountInv,
              Uncounted, Gone, UploadedIsAccepted
<1>8. QED
  BY <1>1, <1>2, <1>3, <1>4, <1>5, <1>6, <1>7 DEF Next

\* The invariant holds of poller, worker, operator and crashes together.
THEOREM Invariance == Spec => []IInv
<1>1. QED
  BY InitIInv, EveryStep, PTL DEF Spec

\* The sms table, the retry queue and the state of poller and worker
\* (firefox_poll.rs, firefox_upload_retry_worker.rs) keep their types, and no
\* retry count exceeds max_retries.
THEOREM TypeCorrect == Spec => []TypeOK
<1>1. IInv => TypeOK
  BY DEF IInv
<1>2. QED
  BY <1>1, Invariance, PTL

\* sms.uploaded_to_platform is TRUE only for an SMS that the platform has
\* accepted, whoever of poller and worker wrote it last, crashes included.
THEOREM NoFalseUpload == Spec => []UploadedIsAccepted
<1>1. IInv => UploadedIsAccepted
  BY DEF IInv
<1>2. QED
  BY <1>1, Invariance, PTL

\* The worker uploads an item at most max_retries times, plus one for each
\* crash or failed statement: the count it writes back comes from a snapshot,
\* and is right because nobody else writes it.
THEOREM BoundedAttempts == Spec => []AttemptsBounded
<1>1. ASSUME IInv PROVE AttemptsBounded
  <2>1. ASSUME NEW i \in Item PROVE attempts[i] <= MaxRetries + faults
    BY <1>1, RowTypes, RetriesAssumption DEF IInv, CountInv
  <2>2. QED
    BY <2>1 DEF AttemptsBounded
<1>2. QED
  BY <1>1, Invariance, PTL

-----------------------------------------------------------------------------
(* The refinement: every step is a step of UploadQueue or leaves it alone. *)

\* The queue as UploadQueue sees it, row by row.
StageOf(row) == CASE row.state = "unused"  -> "new"
                  [] row.state = "queued"  -> "queued"
                  [] row.state = "deleted" -> "gone"
LeftOf(row) == IF row.state = "queued" THEN MaxRetries - row.count ELSE 0
Stages == [i \in Item |-> StageOf(queue[i])]
Lefts == [i \in Item |-> LeftOf(queue[i])]
Contents == [i \in Item |-> queue[i].sms]

\* The three functions of the mapping are these.
LEMMA Mapping ==
    /\ Contract!queueVars = <<accepted, uploaded, Stages, Lefts, Contents, attempts>>
    /\ Contract!queueVars' = <<accepted', uploaded', Stages', Lefts', Contents', attempts'>>
BY DEF Contract!queueVars, Stages, Lefts, Contents, StageOf, LeftOf, Queued

Promised == [Contract!QueueNext]_(Contract!queueVars)

LEMMA ItemPromised ==
    ASSUME NEW i \in Item,
           \/ Contract!Attempt(i) \/ Contract!Count(i) \/ Contract!Remove(i)
           \/ \E s \in Sms : Contract!Queue(i, s)
    PROVE  Promised
BY DEF Promised, Contract!QueueNext

\* Neither the queue nor the marks nor the platform change.
LEMMA NothingPromised ==
    ASSUME UNCHANGED <<accepted, uploaded, queue, attempts>>
    PROVE  Promised
BY Mapping DEF Promised, Stages, Lefts, Contents, StageOf, LeftOf

LEMMA MarkPromised ==
    ASSUME NEW s \in Sms, NEW t, NEW ok \in BOOLEAN,
           MarkAttempt(s, t, ok), ok => s \in accepted,
           UNCHANGED <<accepted, queue, attempts>>
    PROVE  Promised
<1>1. UNCHANGED <<accepted, Stages, Lefts, Contents, attempts>>
  BY DEF Stages, Lefts, Contents, StageOf, LeftOf
<1>2. \/ s \in accepted /\ uploaded' = [uploaded EXCEPT ![s] = TRUE]
      \/ uploaded' = [uploaded EXCEPT ![s] = FALSE]
  <2>1. CASE ok = TRUE
    BY <2>1 DEF MarkAttempt
  <2>2. CASE ok = FALSE
    BY <2>2 DEF MarkAttempt
  <2>3. QED
    BY <2>1, <2>2
<1>3. Contract!Mark(s)
  BY <1>1, <1>2 DEF Contract!Mark, Stages, Lefts, Contents, StageOf, LeftOf, Queued
<1>4. QED
  BY <1>3 DEF Promised, Contract!QueueNext

\* One row of the queue changes.
LEMMA RowMapped ==
    ASSUME NEW i \in Item, queue \in [Item -> QueueRow], NEW row \in QueueRow,
           queue' = [queue EXCEPT ![i] = row]
    PROVE  /\ Stages' = [Stages EXCEPT ![i] = StageOf(row)]
           /\ Lefts' = [Lefts EXCEPT ![i] = LeftOf(row)]
           /\ Contents' = [Contents EXCEPT ![i] = row.sms]
           /\ Stages[i] = StageOf(queue[i]) /\ Lefts[i] = LeftOf(queue[i])
           /\ Contents[i] = queue[i].sms
BY DEF Stages, Lefts, Contents

\* A row that looks the same to UploadQueue: its due time has changed, or it
\* was off the queue and still is.
LEMMA RowPromised ==
    ASSUME NEW i \in Item, queue \in [Item -> QueueRow], NEW row \in QueueRow,
           queue' = [queue EXCEPT ![i] = row],
           row.state = queue[i].state, row.sms = queue[i].sms,
           row.state = "queued" => row.count = queue[i].count,
           UNCHANGED <<accepted, uploaded, attempts>>
    PROVE  Promised
<1>1. StageOf(row) = StageOf(queue[i]) /\ LeftOf(row) = LeftOf(queue[i])
  BY DEF StageOf, LeftOf
<1>2. Stages' = Stages /\ Lefts' = Lefts /\ Contents' = Contents
  BY <1>1, RowMapped DEF Stages, Lefts, Contents
<1>3. QED
  BY <1>2, Mapping DEF Promised

LEMMA RemovePromised ==
    ASSUME NEW i \in Item, queue \in [Item -> QueueRow], queue[i].state = "queued",
           queue' = [queue EXCEPT ![i].state = "deleted"],
           UNCHANGED <<accepted, uploaded, attempts>>
    PROVE  Promised
<1> DEFINE row == [queue[i] EXCEPT !.state = "deleted"]
<1>1. row \in QueueRow /\ row.state = "deleted" /\ row.sms = queue[i].sms
  BY DEF QueueRow, QueueState
<1>2. queue' = [queue EXCEPT ![i] = row]
  OBVIOUS
<1> HIDE DEF row
<1>3. /\ Stages' = [Stages EXCEPT ![i] = "gone"] /\ Lefts' = [Lefts EXCEPT ![i] = 0]
      /\ Stages[i] = "queued" /\ Contents' = Contents
  <2>1. StageOf(row) = "gone" /\ LeftOf(row) = 0 /\ StageOf(queue[i]) = "queued"
    BY <1>1 DEF StageOf, LeftOf
  <2>2. Contents' = Contents
    BY <1>1, <1>2, RowMapped DEF Contents
  <2>3. /\ Stages' = [Stages EXCEPT ![i] = StageOf(row)]
        /\ Lefts' = [Lefts EXCEPT ![i] = LeftOf(row)] /\ Stages[i] = StageOf(queue[i])
    BY <1>1, <1>2, RowMapped
  <2>4. QED
    BY <2>1, <2>2, <2>3
<1>4. Contract!Remove(i)
  BY <1>3 DEF Contract!Remove, Stages, Lefts, Contents, StageOf, LeftOf, Queued
<1>5. QED
  BY <1>4, ItemPromised

\* The poller's upload is no attempt of an item.
LEMMA PostFromPollPromised == ASSUME IInv, PostFromPoll PROVE Promised
<1>1. PICK out \in Outcome : Upload(poll.sms, out)
  BY DEF PostFromPoll
<1>2. poll.sms \in Sms /\ UNCHANGED <<uploaded, queue, attempts>>
  BY DEF PostFromPoll, dbVars, IInv, PollInv
<1>3. CASE UNCHANGED accepted
  BY <1>2, <1>3, NothingPromised
<1>4. CASE accepted' = accepted \cup {poll.sms}
  <2>1. Contract!Accept(poll.sms)
    BY <1>2, <1>4 DEF Contract!Accept, Queued
  <2>2. QED
    BY <1>2, <2>1 DEF Promised, Contract!QueueNext
<1>5. QED
  BY <1>1, <1>3, <1>4 DEF Upload

LEMMA MarkFromPollPromised == ASSUME IInv, MarkFromPoll PROVE Promised
<1>1. /\ poll.sms \in Sms /\ (poll.out = "ok" => poll.sms \in accepted)
      /\ UNCHANGED <<queue, accepted, attempts>>
      /\ UNCHANGED uploaded \/ MarkAttempt(poll.sms, poll.task, poll.out = "ok")
  BY DEF MarkFromPoll, IInv, PollInv
<1>2. QED
  BY <1>1, NothingPromised, MarkPromised

LEMMA EnqueuePromised == ASSUME IInv, Enqueue PROVE Promised
<1> DEFINE Free == {j \in Item : queue[j].state = "unused"}
           Row == [state |-> "queued", sms |-> poll.sms, count |-> 0, due |-> FALSE]
<1>1. /\ poll.sms \in Sms /\ Free # {} /\ UNCHANGED <<accepted, uploaded, attempts>>
      /\ queue' = [queue EXCEPT ![Min(Free)] = Row] \/ UNCHANGED queue
  BY DEF Enqueue, IInv, PollInv
<1>2. Min(Free) \in Free
  BY <1>1, MinFact, SmsAssumption DEF Item
<1>3. queue \in [Item -> QueueRow] /\ Row \in QueueRow
  BY <1>1 DEF QueueRow, QueueState, IInv, TypeOK
<1>4. CASE UNCHANGED queue
  BY <1>1, <1>4, NothingPromised
<1>5. CASE queue' = [queue EXCEPT ![Min(Free)] = Row]
  <2>1. PICK i \in Item : queue[i].state = "unused" /\ queue' = [queue EXCEPT ![i] = Row]
    BY <1>2, <1>5
  <2>2. StageOf(Row) = "queued" /\ LeftOf(Row) = MaxRetries /\ StageOf(queue[i]) = "new"
    BY <2>1, RetriesAssumption DEF StageOf, LeftOf
  <2>3. /\ Stages' = [Stages EXCEPT ![i] = "queued"] /\ Lefts' = [Lefts EXCEPT ![i] = MaxRetries]
        /\ Stages[i] = "new" /\ Contents' = [Contents EXCEPT ![i] = poll.sms]
    BY <1>3, <2>1, <2>2, RowMapped
  <2> PICK s \in Sms : s = poll.sms
    BY <1>1
  <2>4. Contract!Queue(i, s)
    BY <1>1, <2>3 DEF Contract!Queue, Stages, Lefts, Contents, StageOf, LeftOf, Queued
  <2>5. QED
    BY <2>4, ItemPromised
<1>6. QED
  BY <1>1, <1>4, <1>5

\* What the worker uploads is in its batch: it has been queued, and is no dead
\* letter, for its count is still what it was.
LEMMA PostFromWorkerPromised == ASSUME IInv, PostFromWorker PROVE Promised
<1> DEFINE i == work.item
<1>1. PICK out \in Outcome : Upload(WorkSms, out)
  BY DEF PostFromWorker
<1>2. /\ work.pc = "post" /\ attempts' = [attempts EXCEPT ![i] = @ + 1]
      /\ UNCHANGED <<uploaded, queue>>
  BY DEF PostFromWorker, dbVars
<1>3. /\ i \in Item /\ queue[i].state \in {"queued", "deleted"} /\ queue[i].count < MaxRetries
      /\ queue[i].count \in Nat
  <2>1. /\ i \in Item /\ queue[i].state # "unused" /\ queue[i].count < MaxRetries
    BY <1>2 DEF IInv, WorkInv
  <2>2. queue[i] \in QueueRow
    BY <2>1, RowTypes DEF IInv
  <2>3. QED
    BY <2>1, <2>2 DEF QueueRow, QueueState
<1>4. accepted' \in {accepted, accepted \cup {queue[i].sms}}
  BY <1>1 DEF Upload, WorkSms
<1>5. /\ Stages[i] = "queued" => Lefts[i] > 0
      /\ Stages[i] # "new" /\ Contents[i] = queue[i].sms
  BY <1>3, RetriesAssumption DEF Stages, Lefts, Contents, StageOf, LeftOf
<1>6. Contract!Attempt(i)
  BY <1>2, <1>3, <1>4, <1>5 DEF Contract!Attempt, Stages, Lefts, Contents, StageOf, LeftOf, Queued
<1>7. QED
  BY <1>3, <1>6, ItemPromised

LEMMA DeleteItemPromised == ASSUME IInv, DeleteItem PROVE Promised
<1> DEFINE i == work.item
           row == [queue[i] EXCEPT !.state = "deleted"]
<1>1. /\ UNCHANGED <<accepted, uploaded, attempts>>
      /\ queue' = [queue EXCEPT ![i].state = "deleted"] \/ UNCHANGED queue
  BY DEF DeleteItem
<1>2. i \in Item /\ queue \in [Item -> QueueRow] /\ queue[i].state \in {"queued", "deleted"}
  <2>1. /\ i \in Item /\ queue[i].state # "unused"
    BY DEF DeleteItem, IInv, WorkInv
  <2>2. queue[i] \in QueueRow
    BY <2>1, RowTypes DEF IInv
  <2>3. QED
    BY <2>1, <2>2 DEF QueueRow, QueueState, IInv, TypeOK
<1>3. CASE UNCHANGED queue
  BY <1>1, <1>3, NothingPromised
<1>4. CASE queue' = [queue EXCEPT ![i].state = "deleted"] /\ queue[i].state = "queued"
  BY <1>1, <1>2, <1>4, RemovePromised
<1>5. CASE queue' = [queue EXCEPT ![i].state = "deleted"] /\ queue[i].state = "deleted"
  <2>1. row \in QueueRow /\ row.state = "deleted" /\ row.sms = queue[i].sms
    BY <1>2 DEF QueueRow, QueueState
  <2>2. queue' = [queue EXCEPT ![i] = row]
    BY <1>5
  <2> HIDE DEF row
  <2>3. QED
    BY <1>1, <1>2, <1>5, <2>1, <2>2, RowPromised
<1>6. QED
  BY <1>1, <1>2, <1>3, <1>4, <1>5

LEMMA MarkFromWorkerPromised == ASSUME IInv, MarkFromWorker PROVE Promised
<1>1. /\ WorkSms \in Sms /\ (work.out = "ok" => WorkSms \in accepted)
      /\ UNCHANGED <<queue, accepted, attempts>>
      /\ UNCHANGED uploaded \/ \E t : MarkAttempt(WorkSms, t, work.out = "ok")
  BY DEF MarkFromWorker, IInv, WorkInv, QueueInv, WorkSms
<1>2. QED
  BY <1>1, NothingPromised, MarkPromised

\* A failure is counted, once, on an item that is still queued.
LEMMA UpdateItemPromised == ASSUME IInv, UpdateItem PROVE Promised
<1> DEFINE i == work.item
           row == Reschedule(queue[i], work.count, work.out)
<1>1. /\ UNCHANGED <<accepted, uploaded, attempts>>
      /\ queue' = [queue EXCEPT ![i] = row] \/ UNCHANGED queue
  BY DEF UpdateItem
<1>2. /\ i \in Item /\ queue \in [Item -> QueueRow] /\ queue[i] \in QueueRow
      /\ work.count = queue[i].count /\ work.count < MaxRetries /\ work.count \in Nat
  <2>1. /\ i \in Item /\ work.count = queue[i].count /\ work.count < MaxRetries
    BY DEF UpdateItem, IInv, WorkInv
  <2>2. QED
    BY <2>1, RowTypes DEF IInv, TypeOK
<1>3. row \in QueueRow /\ row.sms = queue[i].sms /\ row.state = queue[i].state
  BY <1>2, RescheduleFacts
<1>4. row.count \in {MaxRetries, work.count + 1}
  BY <1>2 DEF Reschedule, QueueRow
<1> HIDE DEF row
<1>5. CASE UNCHANGED queue
  BY <1>1, <1>5, NothingPromised
<1>6. CASE queue' = [queue EXCEPT ![i] = row] /\ row.state # "queued"
  BY <1>1, <1>2, <1>3, <1>6, RowPromised
<1>7. CASE queue' = [queue EXCEPT ![i] = row] /\ row.state = "queued"
  <2>1. /\ StageOf(row) = StageOf(queue[i]) /\ StageOf(queue[i]) = "queued"
        /\ LeftOf(queue[i]) > 0 /\ LeftOf(row) \in {LeftOf(queue[i]) - 1, 0}
    BY <1>2, <1>3, <1>4, <1>7, RetriesAssumption DEF StageOf, LeftOf
  <2>2. /\ Stages' = Stages /\ Contents' = Contents /\ Stages[i] = "queued"
        /\ Lefts[i] > 0 /\ Lefts' = [Lefts EXCEPT ![i] = LeftOf(row)]
        /\ LeftOf(row) \in {Lefts[i] - 1, 0}
    <3>1. /\ Stages' = [Stages EXCEPT ![i] = StageOf(row)]
          /\ Lefts' = [Lefts EXCEPT ![i] = LeftOf(row)]
          /\ Contents' = [Contents EXCEPT ![i] = row.sms]
          /\ Stages[i] = StageOf(queue[i]) /\ Lefts[i] = LeftOf(queue[i])
          /\ Contents[i] = queue[i].sms
      BY <1>2, <1>3, <1>7, RowMapped
    <3>2. Stages' = Stages /\ Contents' = Contents
      BY <1>3, <2>1, <3>1 DEF Stages, Contents
    <3>3. QED
      BY <2>1, <3>1, <3>2
  <2> PICK j \in Item : j = i
    BY <1>2
  <2>3. Contract!Count(j)
    BY <1>1, <2>2 DEF Contract!Count, Stages, Lefts, Contents, StageOf, LeftOf, Queued
  <2>4. QED
    BY <2>3, ItemPromised
<1>8. QED
  BY <1>1, <1>5, <1>6, <1>7

LEMMA OperatorPromised ==
    ASSUME IInv, NEW i \in Item, RetryDue(i) \/ ManualRetry(i) \/ ManualDelete(i)
    PROVE  Promised
<1>1. queue \in [Item -> QueueRow] /\ queue[i] \in QueueRow
  BY RowTypes DEF IInv, TypeOK
<1>2. CASE RetryDue(i) \/ ManualRetry(i)
  <2> DEFINE row == [queue[i] EXCEPT !.due = TRUE]
  <2>1. /\ row \in QueueRow /\ row.state = queue[i].state /\ row.sms = queue[i].sms
        /\ row.count = queue[i].count
    BY <1>1 DEF QueueRow
  <2>2. queue' = [queue EXCEPT ![i] = row] /\ UNCHANGED <<accepted, uploaded, attempts>>
    BY <1>2 DEF RetryDue, ManualRetry
  <2> HIDE DEF row
  <2>3. QED
    BY <1>1, <2>1, <2>2, RowPromised
<1>3. CASE ManualDelete(i)
  BY <1>1, <1>3, RemovePromised DEF ManualDelete
<1>4. QED
  BY <1>2, <1>3

LEMMA PromisedStep == IInv /\ [Next]_vars => Promised
<1> SUFFICES ASSUME IInv, [Next]_vars PROVE Promised
  OBVIOUS
<1>1. CASE PollStep
  <2>1. CASE PostFromPoll \/ MarkFromPoll \/ Enqueue
    BY <2>1, PostFromPollPromised, MarkFromPollPromised, EnqueuePromised
  <2>2. CASE \/ FetchWaitList \/ EndWalk \/ FindSms \/ FinishTask
             \/ \E t \in Task : TakeTask(t)
    BY <2>2, NothingPromised DEF FetchWaitList, EndWalk, FindSms, FinishTask, TakeTask, dbVars
  <2>3. QED
    BY <1>1, <2>1, <2>2 DEF PollStep
<1>2. CASE WorkStep
  <2>1. CASE PostFromWorker \/ DeleteItem \/ MarkFromWorker \/ UpdateItem
    BY <2>1, PostFromWorkerPromised, DeleteItemPromised, MarkFromWorkerPromised,
       UpdateItemPromised
  <2>2. CASE FetchBatch \/ EndBatch \/ \E entry \in work.batch : TakeItem(entry)
    BY <2>2, NothingPromised DEF FetchBatch, EndBatch, TakeItem, dbVars
  <2>3. QED
    BY <1>2, <2>1, <2>2 DEF WorkStep
<1>3. CASE \E i \in Item : RetryDue(i) \/ ManualRetry(i) \/ ManualDelete(i)
  BY <1>3, OperatorPromised
<1>4. CASE Crash \/ (\E s \in Sms : ReceiveSms(s)) \/ (\E t \in Task : BackoffOver(t))
  BY <1>4, NothingPromised DEF Crash, ReceiveSms, BackoffOver, dbVars
<1>5. CASE UNCHANGED vars
  BY <1>5, NothingPromised DEF vars
<1>6. QED
  BY <1>1, <1>2, <1>3, <1>4, <1>5 DEF Next

\* Poller, worker and operator keep the contract of UploadQueue: each of their
\* steps is one of its steps or changes nothing it speaks of; in particular no
\* dead letter is ever given another attempt.
THEOREM Refinement == Spec => ImplementsQueue
<1>1. Init => Contract!QueueInit
  BY DEF Init, Contract!QueueInit, Queued
<1>2. IInv /\ [Next]_vars => [Contract!QueueNext]_(Contract!queueVars)
  BY PromisedStep DEF Promised
<1>3. QED
  BY Invariance, <1>1, <1>2, PTL DEF Spec, ImplementsQueue, Contract!QueueSpec
=============================================================================
