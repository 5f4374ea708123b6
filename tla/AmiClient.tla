------------------------------ MODULE AmiClient ------------------------------
(***************************************************************************)
(* modem/ami/mod.rs: one AMI connection to an Asterisk container, shared   *)
(* by any number of concurrent callers of action_with_timeout.             *)
(*                                                                         *)
(* Three kinds of process interleave at every await of the code:           *)
(*   - the supervisor task (connect, log in, publish the write half, read  *)
(*     until EOF, withdraw the write half, drain, back off, again);        *)
(*   - the callers (register a oneshot, write, wait for it or time out);   *)
(*   - Asterisk, at the other end of the socket (external).                *)
(*                                                                         *)
(* A call owns the ActionID that fetch_add gave it, so Call stands for     *)
(* both.  The bytes of a packet are abstracted to its kind and ActionID.   *)
(***************************************************************************)
EXTENDS Naturals, Sequences

CONSTANTS Call,         \* calls of action_with_timeout, one per ActionID
          NoCall,       \* the ActionID of a packet that carries none
          MaxBackoff,   \* MAX_BACKOFF, in units of the first back-off
          MaxInbound    \* bound: packets Asterisk has in flight to the client

ASSUME CallAssumption == NoCall \notin Call
ASSUME BackoffAssumption == MaxBackoff \in Nat \ {0}

VARIABLES
    sup,        \* where the supervisor task stands
    backoff,    \* how long it sleeps after the next disconnect
    shutdown,   \* the owner has dropped (or used) the shutdown sender
    writer,     \* the write half is published in the writer slot
    pending,    \* ActionIDs that have an entry in the pending map
    call,       \* where each caller stands, or the result it returned
    slot,       \* the oneshot channel of each call
    link,       \* the TCP connection: "none", "open" or "closed" by the peer
    authed,     \* Asterisk has accepted Login on this connection
    inbound,    \* packets sent by Asterisk and not yet read
    accepted,   \* actions Asterisk has read on this connection, unanswered
    orphaned,   \* actions that an earlier connection carried, still unexecuted
    executed    \* actions Asterisk has dealt with, for better or worse

supVars  == <<sup, backoff, shutdown>>
linkVars == <<link, authed, inbound, accepted, orphaned, executed>>
vars == <<sup, backoff, shutdown, writer, pending, call, slot, link, authed,
          inbound, accepted, orphaned, executed>>

InRunOnce == {"connecting", "login", "publish", "reading", "closing"}
Stage     == {"idle", "registered", "waiting", "expired"}
Failure   == {"not_connected", "write_failed", "dropped", "timeout", "cancelled"}
Result    == Failure \cup {"ok"}

Packet == [kind : {"response", "event"}, id : Call \cup {NoCall}]
Response(c) == [kind |-> "response", id |-> c]
Event(c)    == [kind |-> "event", id |-> c]

TypeOK ==
    /\ sup \in InRunOnce \cup {"drain", "backoff", "stopped"}
    /\ backoff \in 1..MaxBackoff
    /\ shutdown \in BOOLEAN
    /\ writer \in BOOLEAN
    /\ pending \subseteq Call
    /\ call \in [Call -> Stage \cup Result]
    /\ slot \in [Call -> {"none", "open", "closed", "response", "event"}]
    /\ link \in {"none", "open", "closed"}
    /\ authed \in BOOLEAN
    /\ inbound \in Seq(Packet)
    /\ accepted \subseteq Call
    /\ orphaned \subseteq Call
    /\ executed \subseteq Call

Init ==
    /\ sup = "connecting"
    /\ backoff = 1
    /\ shutdown = FALSE
    /\ writer = FALSE
    /\ pending = {}
    /\ call = [c \in Call |-> "idle"]
    /\ slot = [c \in Call |-> "none"]
    /\ link = "none"
    /\ authed = FALSE
    /\ inbound = <<>>
    /\ accepted = {}
    /\ orphaned = {}
    /\ executed = {}

-----------------------------------------------------------------------------
(* The callers: action_with_timeout, one action per stretch between awaits. *)

\* The entry goes into the pending map under its own short lock.
Register(c) ==
    /\ call[c] = "idle"
    /\ call' = [call EXCEPT ![c] = "registered"]
    /\ slot' = [slot EXCEPT ![c] = "open"]
    /\ pending' = pending \cup {c}
    /\ UNCHANGED <<supVars, writer, linkVars>>

\* No writer published: return at once.  The pending entry stays behind.
SendUnconnected(c) ==
    /\ call[c] = "registered"
    /\ ~writer
    /\ call' = [call EXCEPT ![c] = "not_connected"]
    /\ UNCHANGED <<supVars, writer, pending, slot, linkVars>>

\* write_all succeeds.  On a connection that the peer has closed the bytes
\* only reach the local socket buffer.
SendWritten(c) ==
    /\ call[c] = "registered"
    /\ writer
    /\ call' = [call EXCEPT ![c] = "waiting"]
    /\ accepted' = IF link = "open" THEN accepted \cup {c} ELSE accepted
    /\ UNCHANGED <<supVars, writer, pending, slot, link, authed, inbound,
                   orphaned, executed>>

\* write_all fails on a broken socket.  Again the pending entry stays.
SendFailed(c) ==
    /\ call[c] = "registered"
    /\ writer
    /\ link = "closed"
    /\ call' = [call EXCEPT ![c] = "write_failed"]
    /\ UNCHANGED <<supVars, writer, pending, slot, linkVars>>

\* Mutant of AwaitResolved: a dropped sender is taken for an answer.
BugDropIsAnswer(c) ==
    /\ call[c] = "waiting"
    /\ slot[c] \in {"response", "event", "closed"}
    /\ call' = [call EXCEPT ![c] = "ok"]
    /\ UNCHANGED <<supVars, writer, pending, slot, linkVars>>

\* The awaited oneshot holds a packet, or its sender has been dropped.
AwaitResolved(c) ==
    /\ call[c] = "waiting"
    /\ \/ /\ slot[c] \in {"response", "event"}
          /\ call' = [call EXCEPT ![c] = "ok"]
       \/ /\ slot[c] = "closed"
          /\ call' = [call EXCEPT ![c] = "dropped"]
    /\ UNCHANGED <<supVars, writer, pending, slot, linkVars>>

\* Mutant of AwaitExpired: the oneshot is awaited without a timeout.
BugNoTimeout(c) == FALSE /\ call' = call

\* The timer fires on an empty channel; the receiver is dropped here ...
AwaitExpired(c) ==
    /\ call[c] = "waiting"
    /\ slot[c] = "open"
    /\ call' = [call EXCEPT ![c] = "expired"]
    /\ UNCHANGED <<supVars, writer, pending, slot, linkVars>>

\* Mutant of ReturnTimeout: the timeout arm forgets its entry.
BugKeepEntry(c) ==
    /\ call[c] = "expired"
    /\ call' = [call EXCEPT ![c] = "timeout"]
    /\ UNCHANGED <<supVars, writer, pending, slot, linkVars>>

\* ... and the entry is removed once the pending lock has been taken.
ReturnTimeout(c) ==
    /\ call[c] = "expired"
    /\ call' = [call EXCEPT ![c] = "timeout"]
    /\ pending' = pending \ {c}
    /\ slot' = IF c \in pending THEN [slot EXCEPT ![c] = "closed"] ELSE slot
    /\ UNCHANGED <<supVars, writer, linkVars>>

\* The future is dropped at an await (an HTTP client that went away).
Cancel(c) ==
    /\ call[c] \in {"registered", "waiting", "expired"}
    /\ call' = [call EXCEPT ![c] = "cancelled"]
    /\ UNCHANGED <<supVars, writer, pending, slot, linkVars>>

-----------------------------------------------------------------------------
(* The supervisor task. *)

Connect ==
    /\ sup = "connecting"
    /\ \/ /\ sup' = "login"
          /\ link' = "open"
          /\ inbound' = <<>>
          /\ authed' = FALSE
       \/ /\ sup' = "drain"
          /\ UNCHANGED <<link, inbound, authed>>
    /\ UNCHANGED <<backoff, shutdown, writer, pending, call, slot, accepted,
                   orphaned, executed>>

\* Login accepted; anything else (rejection, EOF) ends run_once with the
\* socket dropped.
Login ==
    /\ sup = "login"
    /\ \/ /\ link = "open"
          /\ sup' = "publish"
          /\ authed' = TRUE
          /\ UNCHANGED <<link, inbound>>
       \/ /\ sup' = "drain"
          /\ link' = "none"
          /\ inbound' = <<>>
          /\ UNCHANGED authed
    /\ UNCHANGED <<backoff, shutdown, writer, pending, call, slot, accepted,
                   orphaned, executed>>

\* Mutant of PublishWriter: published without waiting for the Login response.
BugPublishEarly ==
    /\ sup = "login"
    /\ sup' = "reading"
    /\ writer' = TRUE
    /\ UNCHANGED <<backoff, shutdown, pending, call, slot, linkVars>>

PublishWriter ==
    /\ sup = "publish"
    /\ sup' = "reading"
    /\ writer' = TRUE
    /\ UNCHANGED <<backoff, shutdown, pending, call, slot, linkVars>>

\* Mutant of Deliver: get instead of remove on the pending map.
BugPeek(pkt) ==
    IF pkt.id \in pending
    THEN /\ slot' = [slot EXCEPT ![pkt.id] = pkt.kind]
         /\ UNCHANGED pending
    ELSE UNCHANGED <<pending, slot>>

\* read_loop: a packet whose ActionID is pending goes to that waiter, be it a
\* Response or an Event; every other packet is broadcast or logged.
Deliver(pkt) ==
    IF pkt.id \in pending
    THEN /\ pending' = pending \ {pkt.id}
         /\ slot' = [slot EXCEPT ![pkt.id] = pkt.kind]
    ELSE UNCHANGED <<pending, slot>>

ReadPacket ==
    /\ sup = "reading"
    /\ inbound # <<>>
    /\ Deliver(Head(inbound))
    /\ inbound' = Tail(inbound)
    /\ UNCHANGED <<supVars, writer, call, link, authed, accepted, orphaned,
                   executed>>

ReadEof ==
    /\ sup = "reading"
    /\ inbound = <<>>
    /\ link = "closed"
    /\ sup' = "closing"
    /\ UNCHANGED <<backoff, shutdown, writer, pending, call, slot, linkVars>>

\* run_once withdraws the writer and returns what read_loop returned, which
\* is never Ok(()): the supervisor's branch that resets backoff is not taken.
WithdrawWriter ==
    /\ sup = "closing"
    /\ sup' = "drain"
    /\ writer' = FALSE
    /\ link' = "none"
    /\ UNCHANGED <<backoff, shutdown, pending, call, slot, authed, inbound,
                   accepted, orphaned, executed>>

\* Mutant of Drain: no drain between two connections.
BugNoDrain ==
    /\ sup = "drain"
    /\ sup' = "backoff"
    /\ UNCHANGED <<backoff, shutdown, writer, pending, call, slot, linkVars>>

\* pend.clear() drops every sender that is still in the map.
Drain ==
    /\ sup = "drain"
    /\ sup' = "backoff"
    /\ pending' = {}
    /\ slot' = [c \in Call |-> IF c \in pending THEN "closed" ELSE slot[c]]
    /\ UNCHANGED <<backoff, shutdown, writer, call, linkVars>>

\* Mutant of Wake: doubled without the cap.
BugUncapped ==
    /\ sup = "backoff"
    /\ sup' = "connecting"
    /\ backoff' = 2 * backoff
    /\ UNCHANGED <<shutdown, writer, pending, call, slot, linkVars>>

Wake ==
    /\ sup = "backoff"
    /\ sup' = "connecting"
    /\ backoff' = IF 2 * backoff < MaxBackoff THEN 2 * backoff ELSE MaxBackoff
    /\ UNCHANGED <<shutdown, writer, pending, call, slot, linkVars>>

\* The biased select drops the run_once future wherever it stands, or the
\* back-off select ends: no drain, and a published writer stays published.
Stop ==
    /\ shutdown
    /\ sup \in InRunOnce \cup {"backoff"}
    /\ sup' = "stopped"
    /\ link' = IF writer THEN link ELSE "none"
    /\ UNCHANGED <<backoff, shutdown, writer, pending, call, slot, authed,
                   inbound, accepted, orphaned, executed>>

\* The owner of the client drops its end of the shutdown channel.
RequestShutdown ==
    /\ ~shutdown
    /\ shutdown' = TRUE
    /\ UNCHANGED <<sup, backoff, writer, pending, call, slot, linkVars>>

-----------------------------------------------------------------------------
(* Asterisk (external). *)

\* It carries an action out and answers on the connection it came from: a
\* Response, which for list actions and asynchronous ones is followed by
\* Events that repeat the ActionID.
Execute(c) ==
    /\ c \in accepted
    /\ Len(inbound) + 2 <= MaxInbound
    /\ accepted' = accepted \ {c}
    /\ executed' = executed \cup {c}
    /\ \/ inbound' = Append(inbound, Response(c))
       \/ inbound' = Append(Append(inbound, Response(c)), Event(c))
    /\ UNCHANGED <<supVars, writer, pending, call, slot, link, authed, orphaned>>

\* The connection is gone but the action had been read: nobody to answer.
ExecuteOrphan(c) ==
    /\ c \in orphaned
    /\ orphaned' = orphaned \ {c}
    /\ executed' = executed \cup {c}
    /\ UNCHANGED <<supVars, writer, pending, call, slot, link, authed, inbound,
                   accepted>>

EmitEvent ==
    /\ link = "open"
    /\ authed
    /\ Len(inbound) < MaxInbound
    /\ inbound' = Append(inbound, Event(NoCall))
    /\ UNCHANGED <<supVars, writer, pending, call, slot, link, authed, accepted,
                   orphaned, executed>>

\* Asterisk closes or crashes: a suffix of what it had sent may be lost.
PeerClose ==
    /\ link = "open"
    /\ link' = "closed"
    /\ \E n \in 0..Len(inbound) : inbound' = SubSeq(inbound, 1, n)
    /\ orphaned' = orphaned \cup accepted
    /\ accepted' = {}
    /\ UNCHANGED <<supVars, writer, pending, call, slot, authed, executed>>

-----------------------------------------------------------------------------
CallerStep(c) == \/ Register(c) \/ SendUnconnected(c) \/ SendWritten(c)
                 \/ SendFailed(c) \/ AwaitResolved(c) \/ AwaitExpired(c)
                 \/ ReturnTimeout(c) \/ Cancel(c)

SupervisorStep == \/ Connect \/ Login \/ PublishWriter \/ ReadPacket \/ ReadEof
                  \/ WithdrawWriter \/ Drain \/ Wake \/ Stop

AsteriskStep == \/ \E c \in Call : Execute(c) \/ ExecuteOrphan(c)
                \/ EmitEvent \/ PeerClose

Next == \/ \E c \in Call : CallerStep(c)
        \/ SupervisorStep
        \/ RequestShutdown
        \/ AsteriskStep

\* The runtime polls every ready task: a caller whose writer lock, oneshot or
\* pending lock is ready moves, and so does the supervisor.  Nothing is assumed
\* of Asterisk, of who starts calls, or (here) of the callers' timers.
Fairness ==
    /\ WF_vars(SupervisorStep)
    /\ \A c \in Call : WF_vars(\/ SendUnconnected(c) \/ SendWritten(c)
                               \/ SendFailed(c) \/ AwaitResolved(c)
                               \/ ReturnTimeout(c))

Spec == Init /\ [][Next]_vars /\ Fairness

-----------------------------------------------------------------------------
(* Properties. *)

\* A call that reports success was read and answered by Asterisk (with Success
\* or Error, which action does not tell apart), and what the caller got is the
\* Response, not one of the Events that repeat its ActionID:
\* late answers, reconnections and drains never resolve a call with another
\* call's packet (read_loop's correlation by ActionID).
AnsweredTruly == \A c \in Call : call[c] = "ok" =>
                                     c \in executed /\ slot[c] = "response"

\* A returned call leaves an entry in the pending map only where the code
\* returns (or is dropped) between registering and the timeout arm; answered,
\* drained and timed-out calls never do.
LeaksOnlyUnsent == \A c \in pending :
    call[c] \in Result => call[c] \in {"not_connected", "write_failed", "cancelled"}

\* No action reaches Asterisk on a connection that has not logged in, whatever
\* the order of reconnections and of callers that are already waiting to write.
LoginFirst == accepted # {} => authed

\* Callers can write only while the read loop of that same connection will
\* still deliver or drain their answer, or after the client was shut down.
WriterHasReader == writer => sup \in {"reading", "closing"} \/ (sup = "stopped" /\ shutdown)

\* The drain alone (no timer) wakes every caller of a lost connection, unless
\* the client is shut down first.
DropWakesWaiters == \A c \in Call :
    (sup = "closing" /\ call[c] = "waiting") ~> (call[c] # "waiting" \/ shutdown)

\* With timers that fire, every call returns, even after the supervisor has
\* stopped with the writer still published.
TimersFire == \A c \in Call : WF_vars(AwaitExpired(c))
EveryCallReturns == TimersFire =>
    \A c \in Call : (call[c] = "registered") ~> (call[c] \in Result)

\* The client implements the request/response contract of AmiRpc.
Rpc == INSTANCE AmiRpc WITH
    status <- [c \in Call |-> IF call[c] = "idle" THEN "unused"
                              ELSE IF call[c] = "ok" THEN "answered"
                              ELSE IF call[c] \in Failure THEN "failed"
                              ELSE "open"],
    performed <- executed
ImplementsRpc == Rpc!RpcSpec
=============================================================================
