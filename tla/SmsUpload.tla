------------------------------ MODULE SmsUpload ------------------------------
(***************************************************************************)
(* The received SMS of one SIM on their way to the SMS-receiving platform  *)
(* ("Firefox").  Three actors share the sms table and the retry queue:     *)
(*   - the poller (firefox_poll.rs) walks the platform's wait list and     *)
(*     uploads the latest SMS that is not marked uploaded;                 *)
(*   - the retry worker (firefox_upload_retry_worker.rs) works through     *)
(*     firefox_upload_retry_queue in batches;                              *)
(*   - the operator retries or deletes queue items (api/firefox.rs).       *)
(* The process may crash and restart between any two statements; a         *)
(* statement may fail; an answer of the platform may be lost.              *)
(*                                                                         *)
(* Timers only ever run out: a due time and a back-off are one bit each.   *)
(***************************************************************************)
EXTENDS Naturals, FiniteSets, FiniteSetsExt

CONSTANTS NumSms,       \* SMS rows, in the order of their timestamps
          Task,         \* wait-list entries (country | phone | item)
          NoTask,
          MaxRetries,   \* max_retries of a queue item
          MaxItems,     \* bound: queue items ever inserted
          MaxFaults     \* bound: crashes and failed statements

ASSUME SmsAssumption == NumSms \in Nat /\ MaxItems \in Nat /\ MaxFaults \in Nat
ASSUME TaskAssumption == NoTask \notin Task
ASSUME RetriesAssumption == MaxRetries \in Nat \ {0}

Sms   == 1..NumSms
NoSms == 0
Item  == 1..MaxItems

VARIABLES
    arrived,    \* SMS rows in the table
    uploaded,   \* sms.uploaded_to_platform
    itemOf,     \* sms.platform_item_id
    queue,      \* firefox_upload_retry_queue, by row id
    processed,  \* poller: processed_tasks
    held,       \* poller: tasks in no_sms_backoff_until
    poll,       \* poller: what it is doing
    work,       \* worker: what it is doing
    accepted,   \* platform: SMS whose content it has accepted
    attempts,   \* uploads the worker has made for each queue item
    faults

dbVars       == <<uploaded, itemOf, queue>>
pollVars     == <<processed, held, poll>>
vars == <<arrived, uploaded, itemOf, queue, processed, held, poll, work,
          accepted, attempts, faults>>

\* Code "1"; a rejection worth a retry; one that is not; no usable answer.
Outcome == {"ok", "rejected", "final", "error"}

QueueState == {"unused", "queued", "deleted"}
QueueRow == [state : QueueState, sms : Sms \cup {NoSms}, count : Nat, due : BOOLEAN]

IdlePoll == [pc |-> "sleep", todo |-> {}, task |-> NoTask, sms |-> NoSms,
             viaList |-> FALSE, out |-> "ok"]
IdleWork == [pc |-> "sleep", batch |-> {}, item |-> 0, count |-> 0, out |-> "ok"]

TypeOK ==
    /\ arrived \subseteq Sms
    /\ uploaded \in [Sms -> BOOLEAN]
    /\ itemOf \in [Sms -> Task \cup {NoTask}]
    /\ queue \in [Item -> QueueRow]
    /\ \A i \in Item : queue[i].count <= MaxRetries
    /\ processed \subseteq Task
    /\ held \subseteq Task
    /\ poll \in [pc : {"sleep", "walk", "find", "post", "mark", "enqueue", "done"},
                 todo : SUBSET Task, task : Task \cup {NoTask},
                 sms : Sms \cup {NoSms}, viaList : BOOLEAN, out : Outcome]
    /\ work \in [pc : {"sleep", "walk", "post", "delete", "mark", "update"},
                 batch : SUBSET (Item \X Nat), item : Item \cup {0}, count : Nat,
                 out : Outcome]
    /\ accepted \subseteq Sms
    /\ attempts \in [Item -> Nat]
    /\ faults \in 0..MaxFaults

Init ==
    /\ arrived = {}
    /\ uploaded = [s \in Sms |-> FALSE]
    /\ itemOf = [s \in Sms |-> NoTask]
    /\ queue = [i \in Item |-> [state |-> "unused", sms |-> NoSms, count |-> 0,
                                due |-> FALSE]]
    /\ processed = {}
    /\ held = {}
    /\ poll = IdlePoll
    /\ work = IdleWork
    /\ accepted = {}
    /\ attempts = [i \in Item |-> 0]
    /\ faults = 0

-----------------------------------------------------------------------------
\* UploadSms: the platform accepts and answers, or accepts and the answer is
\* lost, or rejects, or is not reached.
Upload(s, out) ==
    \/ out = "ok" /\ accepted' = accepted \cup {s}
    \/ out \in {"rejected", "final"} /\ UNCHANGED accepted
    \/ out = "error" /\ accepted' \in {accepted, accepted \cup {s}}

Fault == faults < MaxFaults /\ faults' = faults + 1

\* Mutant of MarkAttempt: marked as uploaded whatever the platform said.
BugMarkAll(s, t, ok) ==
    /\ uploaded' = [uploaded EXCEPT ![s] = TRUE]
    /\ itemOf' = [itemOf EXCEPT ![s] = t]

\* Sms::mark_platform_attempt overwrites what was there.
MarkAttempt(s, t, ok) ==
    /\ uploaded' = [uploaded EXCEPT ![s] = ok]
    /\ itemOf' = [itemOf EXCEPT ![s] = t]

-----------------------------------------------------------------------------
(* The poller. *)

\* The wait list is whatever the platform says at this moment.
FetchWaitList ==
    /\ poll.pc = "sleep"
    /\ \E list \in (SUBSET Task) \ {{}} :
          poll' = [IdlePoll EXCEPT !.pc = "walk", !.todo = list]
    /\ UNCHANGED <<arrived, dbVars, processed, held, work, accepted,
                   attempts, faults>>

\* One wait-list entry: in back-off, already processed (still so, or released
\* according to the result list), without a SIM (processed from now on), or
\* to be looked at.
TakeTask(t) ==
    /\ poll.pc = "walk"
    /\ t \in poll.todo
    /\ \/ /\ t \in held
          /\ poll' = [poll EXCEPT !.todo = @ \ {t}]
          /\ UNCHANGED <<processed, itemOf>>
       \/ /\ t \notin held
          /\ t \in processed
          /\ processed' \in {processed, processed \ {t}}
          /\ poll' = [poll EXCEPT !.todo = @ \ {t}]
          /\ UNCHANGED itemOf
       \/ /\ t \notin held \cup processed
          /\ processed' = processed \cup {t}
          /\ poll' = [poll EXCEPT !.todo = @ \ {t}]
          /\ UNCHANGED itemOf
       \/ /\ t \notin held \cup processed
          /\ poll' = [poll EXCEPT !.todo = @ \ {t}, !.task = t, !.pc = "find"]
          \* normalize_failed_item_mapping_for_phone, where the texts match
          /\ \E S \in SUBSET {s \in arrived : ~uploaded[s] /\ itemOf[s] # NoTask} :
                itemOf' = [s \in Sms |-> IF s \in S THEN t ELSE itemOf[s]]
          /\ UNCHANGED processed
    /\ UNCHANGED <<arrived, uploaded, queue, held, work, accepted, attempts,
                   faults>>

EndWalk ==
    /\ poll.pc = "walk"
    /\ poll.todo = {}
    /\ poll' = IdlePoll
    /\ UNCHANGED <<arrived, dbVars, processed, held, work, accepted,
                   attempts, faults>>

Unsent == {s \in arrived : ~uploaded[s]}

\* The latest SMS not marked uploaded; without one, the text that the platform
\* itself lists for the task, if any; else back off.  A query may fail too.
FindSms ==
    /\ poll.pc = "find"
    /\ \/ /\ Unsent # {}
          /\ \E i \in Item : queue[i].state = "unused"   \* bound MaxItems
          /\ poll' = [poll EXCEPT !.pc = "post", !.sms = Max(Unsent)]
          /\ UNCHANGED <<held, faults>>
       \/ /\ Unsent = {}
          /\ \E i \in Item : queue[i].state = "unused"   \* bound MaxItems
          /\ \E s \in accepted : poll' = [poll EXCEPT !.pc = "post", !.sms = s,
                                                      !.viaList = TRUE]
          /\ UNCHANGED <<held, faults>>
       \/ /\ Unsent = {}
          /\ held' = held \cup {poll.task}
          /\ poll' = [poll EXCEPT !.pc = "walk"]
          /\ UNCHANGED faults
       \/ /\ Fault
          /\ held' = held \cup {poll.task}
          /\ poll' = [poll EXCEPT !.pc = "walk"]
    /\ UNCHANGED <<arrived, dbVars, processed, work, accepted, attempts>>

PostFromPoll ==
    /\ poll.pc = "post"
    /\ \E out \in Outcome : /\ Upload(poll.sms, out)
                            /\ poll' = [poll EXCEPT !.pc = "mark", !.out = out]
    /\ UNCHANGED <<arrived, dbVars, processed, held, work, attempts, faults>>

\* The attempt is recorded before the item is queued.  The text from the list
\* finds its row only under no item or this one.  An error is only logged.
MarkFromPoll ==
    /\ poll.pc = "mark"
    /\ \/ /\ ~poll.viaList \/ itemOf[poll.sms] \in {NoTask, poll.task}
          /\ MarkAttempt(poll.sms, poll.task, poll.out = "ok")
          /\ UNCHANGED faults
       \/ /\ poll.viaList /\ itemOf[poll.sms] \notin {NoTask, poll.task}
          /\ UNCHANGED <<uploaded, itemOf, faults>>
       \/ /\ Fault
          /\ UNCHANGED <<uploaded, itemOf>>
    /\ poll' = [poll EXCEPT !.pc = IF poll.out \in {"rejected", "error"}
                                   THEN "enqueue" ELSE "done", !.out = "ok"]
    /\ UNCHANGED <<arrived, queue, processed, held, work, accepted, attempts>>

Enqueue ==
    /\ poll.pc = "enqueue"
    /\ \/ /\ LET i == Min({j \in Item : queue[j].state = "unused"})
             IN  queue' = [queue EXCEPT ![i] = [state |-> "queued", sms |-> poll.sms,
                                                count |-> 0, due |-> FALSE]]
          /\ UNCHANGED faults
       \/ /\ Fault
          /\ UNCHANGED queue
    /\ poll' = [poll EXCEPT !.pc = "done"]
    /\ UNCHANGED <<arrived, uploaded, itemOf, processed, held, work, accepted,
                   attempts>>

FinishTask ==
    /\ poll.pc = "done"
    /\ IF poll.viaList
       THEN held' = held \cup {poll.task} /\ UNCHANGED processed
       ELSE processed' = processed \cup {poll.task} /\ held' = held \ {poll.task}
    /\ poll' = [IdlePoll EXCEPT !.pc = "walk", !.todo = poll.todo]
    /\ UNCHANGED <<arrived, dbVars, work, accepted, attempts, faults>>

BackoffOver(t) ==
    /\ t \in held
    /\ held' = held \ {t}
    /\ UNCHANGED <<arrived, dbVars, processed, poll, work, accepted,
                   attempts, faults>>

-----------------------------------------------------------------------------
(* The retry worker. *)

workRest == <<arrived, pollVars>>

\* get_ready_for_retry.
Ready == {i \in Item : /\ queue[i].state = "queued"
                       /\ queue[i].due
                       /\ queue[i].count < MaxRetries}

\* The batch is a snapshot: rows as they were when it was fetched.
FetchBatch ==
    /\ work.pc = "sleep"
    /\ Ready # {}
    /\ work' = [IdleWork EXCEPT !.pc = "walk",
                                !.batch = {<<i, queue[i].count>> : i \in Ready}]
    /\ UNCHANGED <<workRest, dbVars, accepted, attempts, faults>>

TakeItem(entry) ==
    /\ work.pc = "walk"
    /\ entry \in work.batch
    /\ work' = [work EXCEPT !.batch = @ \ {entry}, !.item = entry[1],
                            !.count = entry[2], !.pc = "post"]
    /\ UNCHANGED <<workRest, dbVars, accepted, attempts, faults>>

EndBatch ==
    /\ work.pc = "walk"
    /\ work.batch = {}
    /\ work' = IdleWork
    /\ UNCHANGED <<workRest, dbVars, accepted, attempts, faults>>

WorkSms == queue[work.item].sms
NextItem == [IdleWork EXCEPT !.pc = "walk", !.batch = work.batch]

PostFromWorker ==
    /\ work.pc = "post"
    /\ \E out \in Outcome :
          /\ Upload(WorkSms, out)
          /\ work' = [work EXCEPT !.pc = IF out = "ok" THEN "delete" ELSE "mark",
                                  !.out = out]
    /\ attempts' = [attempts EXCEPT ![work.item] = @ + 1]
    /\ UNCHANGED <<workRest, dbVars, faults>>

\* mark_success; when it fails the row stays and will be uploaded again.
DeleteItem ==
    /\ work.pc = "delete"
    /\ \/ /\ queue' = [queue EXCEPT ![work.item].state = "deleted"]
          /\ UNCHANGED faults
       \/ /\ Fault
          /\ UNCHANGED queue
    /\ work' = [work EXCEPT !.pc = "mark"]
    /\ UNCHANGED <<workRest, uploaded, itemOf, accepted, attempts>>

\* mark_retry_sms_attempt keeps the item id of the row; without one it takes
\* the latest item known for the phone.
MarkFromWorker ==
    /\ work.pc = "mark"
    /\ \/ /\ \E t \in IF itemOf[WorkSms] # NoTask THEN {itemOf[WorkSms]} ELSE Task :
                MarkAttempt(WorkSms, t, work.out = "ok")
          /\ UNCHANGED faults
       \/ /\ Fault
          /\ UNCHANGED <<uploaded, itemOf>>
    /\ work' = IF work.out = "ok" THEN NextItem ELSE [work EXCEPT !.pc = "update"]
    /\ UNCHANGED <<workRest, queue, accepted, attempts>>

\* Mutant of Reschedule: only the due time is moved.
BugNoCount(row, count, out) == [row EXCEPT !.due = FALSE]

\* mark_dead_letter, or update_after_retry from the snapshot's count.
Reschedule(row, count, out) ==
    IF out = "final"
    THEN [row EXCEPT !.count = MaxRetries]
    ELSE [row EXCEPT !.count = count + 1, !.due = FALSE]

UpdateItem ==
    /\ work.pc = "update"
    /\ \/ /\ queue' = [queue EXCEPT ![work.item] = Reschedule(@, work.count, work.out)]
          /\ UNCHANGED faults
       \/ /\ Fault
          /\ UNCHANGED queue
    /\ work' = NextItem
    /\ UNCHANGED <<workRest, uploaded, itemOf, accepted, attempts>>

\* Mutant of RetryDue: a failed attempt leaves next_retry_at NULL.
BugNullDue(i) ==
    /\ queue[i].count = 0
    /\ queue[i].state = "queued"
    /\ ~queue[i].due
    /\ queue' = [queue EXCEPT ![i].due = TRUE]
    /\ UNCHANGED <<workRest, uploaded, itemOf, work, accepted, attempts, faults>>

\* The due time comes.  (Nothing reads the due time of a dead letter.)
RetryDue(i) ==
    /\ queue[i].state = "queued"
    /\ queue[i].count < MaxRetries
    /\ ~queue[i].due
    /\ queue' = [queue EXCEPT ![i].due = TRUE]
    /\ UNCHANGED <<workRest, uploaded, itemOf, work, accepted, attempts, faults>>

-----------------------------------------------------------------------------
(* The operator, crashes, and the world outside. *)

\* Mutant of ManualRetry: the operator's retry counts from nothing.
BugRevive(i) ==
    /\ queue[i].state = "queued"
    /\ queue' = [queue EXCEPT ![i].due = TRUE, ![i].count = 0]
    /\ UNCHANGED <<workRest, uploaded, itemOf, work, accepted, attempts, faults>>

\* firefox_upload_retry_manual: only next_retry_at is set.
ManualRetry(i) ==
    /\ queue[i].state = "queued"
    /\ queue' = [queue EXCEPT ![i].due = TRUE]
    /\ UNCHANGED <<workRest, uploaded, itemOf, work, accepted, attempts, faults>>

ManualDelete(i) ==
    /\ queue[i].state = "queued"
    /\ queue' = [queue EXCEPT ![i].state = "deleted"]
    /\ UNCHANGED <<workRest, uploaded, itemOf, work, accepted, attempts, faults>>

\* Only the database survives.
Crash ==
    /\ Fault
    /\ poll' = IdlePoll
    /\ processed' = {}
    /\ held' = {}
    /\ work' = IdleWork
    /\ UNCHANGED <<arrived, dbVars, accepted, attempts>>

ReceiveSms(s) ==
    /\ s \notin arrived
    /\ \A r \in Sms : r < s => r \in arrived
    /\ arrived' = arrived \cup {s}
    /\ UNCHANGED <<dbVars, pollVars, work, accepted, attempts, faults>>

-----------------------------------------------------------------------------
PollStep == \/ FetchWaitList \/ EndWalk \/ FindSms \/ PostFromPoll \/ MarkFromPoll
            \/ Enqueue \/ FinishTask \/ \E t \in Task : TakeTask(t)

WorkStep == \/ FetchBatch \/ EndBatch \/ PostFromWorker \/ DeleteItem
            \/ MarkFromWorker \/ UpdateItem
            \/ \E entry \in work.batch : TakeItem(entry)

Next == \/ PollStep
        \/ WorkStep
        \/ \E i \in Item : RetryDue(i) \/ ManualRetry(i) \/ ManualDelete(i)
        \/ Crash
        \/ \E s \in Sms : ReceiveSms(s)
        \/ \E t \in Task : BackoffOver(t)

\* The worker's interval keeps ticking and time passes; its upload has a
\* timeout, so every outcome, an error included, comes back.
Fairness == WF_vars(WorkStep) /\ \A i \in Item : WF_vars(RetryDue(i))

Spec == Init /\ [][Next]_vars /\ Fairness

-----------------------------------------------------------------------------
(* Properties. *)

Queued(i) == queue[i].state = "queued"
Dead(i)   == Queued(i) /\ queue[i].count >= MaxRetries

\* The table never claims an upload that the platform does not have, whichever
\* of the two actors wrote last and however their steps interleave.
UploadedIsAccepted == \A s \in Sms : uploaded[s] => s \in accepted

\* An item is uploaded at most max_retries times, plus one for each crash or
\* failed statement that kept an attempt from being counted.
AttemptsBounded == \A i \in Item : attempts[i] <= MaxRetries + faults

\* Every queued item is eventually uploaded, declared dead or deleted, with the
\* crashes that MaxFaults allows and an operator who keeps pressing retry.
ItemSettles == \A i \in Item : Queued(i) ~> (Dead(i) \/ ~Queued(i))

\* However poller, worker and operator interleave, and whatever a crash takes
\* from them, they keep the contract of UploadQueue: above all, no snapshot and
\* no manual retry gives a dead letter another attempt.
Contract == INSTANCE UploadQueue WITH
    stage <- [i \in Item |-> CASE queue[i].state = "unused"  -> "new"
                               [] queue[i].state = "queued"  -> "queued"
                               [] queue[i].state = "deleted" -> "gone"],
    left <- [i \in Item |-> IF Queued(i) THEN MaxRetries - queue[i].count ELSE 0],
    content <- [i \in Item |-> queue[i].sms]
ImplementsQueue == Contract!QueueSpec
=============================================================================
