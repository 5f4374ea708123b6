------------------------------- MODULE Webhooks -------------------------------
(***************************************************************************)
(* webhook.rs: the dispatcher of WebhookManager.  One receiver loop takes  *)
(* the notices of received SMS from an unbounded channel, spawns one task  *)
(* per configured webhook, and waits for all of them before it takes the   *)
(* next notice.  The tasks share a semaphore; each request is made once.   *)
(***************************************************************************)
EXTENDS Naturals, Sequences, FiniteSets

CONSTANTS Hook,           \* configured webhooks
          Notice,         \* SMS that are announced
          NoNotice,       \* not one of them
          MaxConcurrent   \* webhooks_max_concurrent, a natural number

VARIABLES
    inbox,      \* the channel
    current,    \* the notice that the receiver loop is busy with
    request,    \* the task of each webhook for the current notice
    permits,    \* free permits of the semaphore
    started     \* the notice that each webhook was last called with

hookVars == <<inbox, current, request, permits, started>>

HookTypeOK ==
    /\ inbox \in Seq(Notice)
    /\ current \in Notice \cup {NoNotice}
    /\ request \in [Hook -> {"none", "wait", "post"}]
    /\ permits \in 0..MaxConcurrent
    /\ started \in [Hook -> Notice \cup {NoNotice}]

HookInit ==
    /\ inbox = <<>>
    /\ current = NoNotice
    /\ request = [h \in Hook |-> "none"]
    /\ permits = MaxConcurrent
    /\ started = [h \in Hook |-> NoNotice]

-----------------------------------------------------------------------------
\* WebhookManager::send: never blocks, never refuses.
Announce(n) ==
    /\ inbox' = Append(inbox, n)
    /\ UNCHANGED <<current, request, permits, started>>

Idle == \A h \in Hook : request[h] = "none"

\* receiver_loop: all tasks of the last notice have been joined.  Each task
\* first asks passes_filters, which says what the configuration says.
Receive ==
    /\ current = NoNotice
    /\ inbox # <<>>
    /\ current' = Head(inbox)
    /\ inbox' = Tail(inbox)
    /\ request' \in [Hook -> {"none", "wait"}]
    /\ UNCHANGED <<permits, started>>

\* The task holds a permit and sends its request.
Post(h) ==
    /\ request[h] = "wait"
    /\ permits > 0
    /\ permits' = permits - 1
    /\ request' = [request EXCEPT ![h] = "post"]
    /\ started' = [started EXCEPT ![h] = current]
    /\ UNCHANGED <<inbox, current>>

\* Mutant of Finish: the permit is not given back.
BugLeakPermit(h) ==
    /\ request[h] = "post"
    /\ request' = [request EXCEPT ![h] = "none"]
    /\ UNCHANGED <<inbox, current, permits, started>>

\* Mutant of Finish: a failed request is queued again behind the others.
BugRequeue(h) ==
    /\ request[h] = "post"
    /\ request' = [request EXCEPT ![h] = "none"]
    /\ permits' = permits + 1
    /\ inbox' \in {inbox, Append(inbox, current)}
    /\ UNCHANGED <<current, started>>

\* A response, an error or the timeout: logged, and never tried again.
Finish(h) ==
    /\ request[h] = "post"
    /\ request' = [request EXCEPT ![h] = "none"]
    /\ permits' = permits + 1
    /\ UNCHANGED <<inbox, current, started>>

Join ==
    /\ current # NoNotice
    /\ Idle
    /\ current' = NoNotice
    /\ UNCHANGED <<inbox, request, permits, started>>

\* The process dies: what had not been sent is forgotten.  (started is history.)
Forget ==
    /\ inbox' = <<>>
    /\ current' = NoNotice
    /\ request' = [h \in Hook |-> "none"]
    /\ permits' = MaxConcurrent
    /\ UNCHANGED started

HookStep == Receive \/ Join \/ \E h \in Hook : Post(h) \/ Finish(h)

\* The loop and the tasks keep being polled; a request has a timeout, 10 s
\* unless configured, so it ends.
HookFairness == WF_hookVars(HookStep)

-----------------------------------------------------------------------------
Pending(n) == current = n \/ \E k \in 1..Len(inbox) : inbox[k] = n
=============================================================================
