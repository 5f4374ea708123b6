----------------------------- MODULE UploadQueue -----------------------------
(***************************************************************************)
(* What the retry queue and the upload marks promise the operator, with no *)
(* poller, batch, statement or crash in sight: an SMS is marked uploaded   *)
(* only after the platform has accepted it; a queue item has a budget of   *)
(* attempts that is given to it once and never again; an item that has     *)
(* used it up (a dead letter) is not uploaded any more, and stays in the   *)
(* queue until it is deleted.                                              *)
(*                                                                         *)
(* An attempt may go uncounted, after a crash; and an item that is deleted *)
(* may still be uploaded, by a worker that already holds it.               *)
(***************************************************************************)
EXTENDS Naturals

CONSTANTS Sms, NoSms,   \* SMS rows; no row
          Item,         \* queue items
          MaxRetries    \* the budget of an item

VARIABLES accepted,     \* SMS that the platform has accepted
          uploaded,     \* SMS marked uploaded
          stage,        \* where each item is: "new", "queued", "gone"
          left,         \* attempts each item has left
          content,      \* the SMS that each item uploads
          attempts      \* uploads made for each item

queueVars == <<accepted, uploaded, stage, left, content, attempts>>

QueueInit ==
    /\ accepted = {}
    /\ uploaded = [s \in Sms |-> FALSE]
    /\ stage = [i \in Item |-> "new"]
    /\ left = [i \in Item |-> 0]
    /\ content = [i \in Item |-> NoSms]
    /\ attempts = [i \in Item |-> 0]

\* The platform takes a text that does not come from the queue.
Accept(s) ==
    /\ accepted' = accepted \cup {s}
    /\ UNCHANGED <<uploaded, stage, left, content, attempts>>

Mark(s) ==
    /\ \/ s \in accepted /\ uploaded' = [uploaded EXCEPT ![s] = TRUE]
       \/ uploaded' = [uploaded EXCEPT ![s] = FALSE]
    /\ UNCHANGED <<accepted, stage, left, content, attempts>>

Queue(i, s) ==
    /\ stage[i] = "new"
    /\ stage' = [stage EXCEPT ![i] = "queued"]
    /\ left' = [left EXCEPT ![i] = MaxRetries]
    /\ content' = [content EXCEPT ![i] = s]
    /\ UNCHANGED <<accepted, uploaded, attempts>>

\* Not of a dead letter.
Attempt(i) ==
    /\ stage[i] = "queued" => left[i] > 0
    /\ stage[i] # "new"
    /\ accepted' \in {accepted, accepted \cup {content[i]}}
    /\ attempts' = [attempts EXCEPT ![i] = @ + 1]
    /\ UNCHANGED <<uploaded, stage, left, content>>

\* An attempt has failed; a final failure takes the rest of the budget.
Count(i) ==
    /\ stage[i] = "queued" /\ left[i] > 0
    /\ \E n \in {left[i] - 1, 0} : left' = [left EXCEPT ![i] = n]
    /\ UNCHANGED <<accepted, uploaded, stage, content, attempts>>

\* Uploaded, or deleted by hand.
Remove(i) ==
    /\ stage[i] = "queued"
    /\ stage' = [stage EXCEPT ![i] = "gone"]
    /\ left' = [left EXCEPT ![i] = 0]
    /\ UNCHANGED <<accepted, uploaded, content, attempts>>

QueueNext ==
    \/ \E s \in Sms : Accept(s) \/ Mark(s)
    \/ \E i \in Item : Attempt(i) \/ Count(i) \/ Remove(i) \/ \E s \in Sms : Queue(i, s)

QueueSpec == QueueInit /\ [][QueueNext]_queueVars
=============================================================================
