------------------------------ MODULE SmsInbound ------------------------------
(***************************************************************************)
(* Received SMS of one SIM, from Asterisk to the sms table and the         *)
(* webhooks (modem/ami_transport.rs, modem/manager.rs, db.rs, webhook.rs). *)
(*                                                                         *)
(* Asterisk reports every SIP MESSAGE twice, natively (MessageReceived)    *)
(* and through the dialplan (UserEvent SmsReceived).  The event pump       *)
(* stamps each report with the time at which it translates it; the one     *)
(* consumer drops a report if the table has a row with the same text whose *)
(* stamp is recent.  Otherwise it announces the SMS, then inserts it.      *)
(***************************************************************************)
EXTENDS Naturals, Sequences, FiniteSets

CONSTANTS Msg,            \* SIP MESSAGEs
          Text,           \* message texts
          Noise,          \* texts that are dropped: empty, carrier reports
          Window,         \* the five seconds of exists_recent
          MaxTime,        \* bound: ticks of the clock
          MaxFaults,      \* bound: lost packets, failed statements, crashes, deletions
          Hook, MaxConcurrent, NoNotice

ASSUME TimeAssumption == Window \in Nat /\ MaxTime \in Nat /\ MaxFaults \in Nat
ASSUME NoiseAssumption == Noise \subseteq Text

VARIABLES
    now,        \* the clock
    text,       \* the text of each message
    reports,    \* how often Asterisk has reported each message
    since,      \* when it reported it first
    ami,        \* reports not yet translated
    events,     \* ModemEvent::SmsReceived not yet consumed
    hand,       \* the event that the consumer has announced and is inserting
    sms,        \* the sms table
    ever,       \* all rows that were ever in it
    announced,  \* notices given to the webhooks, in order
    faults,
    inbox, current, request, permits, started   \* the dispatcher

Time   == 0..MaxTime
Report == Msg \X {1, 2}
Event  == [report : Report, stamp : Time]

\* The webhooks are given the SMS with its stamp.
Hooks == INSTANCE Webhooks WITH Notice <- Event

ASSUME NoticeAssumption == NoNotice \notin Event
ASSUME PermitAssumption == MaxConcurrent \in Nat

dispatch == <<inbox, current, request, permits, started>>
asterisk == <<text, reports, since>>
vars == <<now, asterisk, ami, events, hand, sms, ever, announced, faults, dispatch>>

Row   == [report : Report, stamp : Time, checked : Time]
Hand  == [event : Event, checked : Time]
NoHand == <<>>

TypeOK ==
    /\ now \in Time
    /\ text \in [Msg -> Text]
    /\ reports \in [Msg -> 0..2]
    /\ since \in [Msg -> Time]
    /\ ami \in Seq(Report)
    /\ events \in Seq(Event)
    /\ hand \in Hand \cup {NoHand}
    /\ sms \subseteq Row
    /\ ever \subseteq Row
    /\ announced \in Seq(Event)
    /\ faults \in 0..MaxFaults
    /\ Hooks!HookTypeOK

Init ==
    /\ now = 0
    /\ text \in [Msg -> Text]
    /\ reports = [m \in Msg |-> 0]
    /\ since = [m \in Msg |-> 0]
    /\ ami = <<>>
    /\ events = <<>>
    /\ hand = NoHand
    /\ sms = {}
    /\ ever = {}
    /\ announced = <<>>
    /\ faults = 0
    /\ Hooks!HookInit

Fault == faults < MaxFaults /\ faults' = faults + 1

TextOf(report) == text[report[1]]

-----------------------------------------------------------------------------
(* Asterisk and the event pump. *)

\* The first report of a message ...
ReportFirst(m) ==
    /\ reports[m] = 0
    /\ reports' = [reports EXCEPT ![m] = 1]
    /\ since' = [since EXCEPT ![m] = now]
    /\ ami' = Append(ami, <<m, 1>>)
    /\ UNCHANGED <<now, text, events, hand, sms, ever, announced, faults, dispatch>>

\* ... and, in the same breath or after other packets, the second.
ReportAgain(m) ==
    /\ reports[m] = 1
    /\ reports' = [reports EXCEPT ![m] = 2]
    /\ ami' = Append(ami, <<m, 2>>)
    /\ UNCHANGED <<now, text, since, events, hand, sms, ever, announced, faults,
                   dispatch>>

\* translate_event: Utc::now() is taken here.
Translate ==
    /\ ami # <<>>
    /\ ami' = Tail(ami)
    /\ events' = Append(events, [report |-> Head(ami), stamp |-> now])
    /\ UNCHANGED <<now, asterisk, hand, sms, ever, announced, faults, dispatch>>

\* The broadcast channel lagged.
LosePacket ==
    /\ ami # <<>>
    /\ Fault
    /\ ami' = Tail(ami)
    /\ UNCHANGED <<now, asterisk, events, hand, sms, ever, announced, dispatch>>

-----------------------------------------------------------------------------
(* The consumer: handle_modem_event, SmsReceived. *)

\* Mutant of ExistsRecent: a row of any age counts.
BugAnyAge(t) == \E r \in sms : TextOf(r.report) = t

\* Mutant of ExistsRecent: strictly newer than the window.
BugStrictWindow(t) == \E r \in sms : TextOf(r.report) = t /\ r.stamp + Window > now

\* ModemSMS::exists_recent: the stamp of the row against the present time.
ExistsRecent(t) == \E r \in sms : TextOf(r.report) = t /\ r.stamp + Window >= now

\* Noise is dropped before the table is looked at, a duplicate after.
Drop ==
    /\ hand = NoHand
    /\ events # <<>>
    /\ LET t == TextOf(Head(events).report) IN t \in Noise \/ ExistsRecent(t)
    /\ events' = Tail(events)
    /\ UNCHANGED <<now, asterisk, ami, hand, sms, ever, announced, faults, dispatch>>

\* Not a duplicate, or the query failed (unwrap_or(false)): the webhooks are
\* told first.
Accept ==
    /\ hand = NoHand
    /\ events # <<>>
    /\ LET e == Head(events)
       IN  /\ TextOf(e.report) \notin Noise
           /\ \/ ~ExistsRecent(TextOf(e.report)) /\ UNCHANGED faults
              \/ Fault
           /\ events' = Tail(events)
           /\ hand' = [event |-> e, checked |-> now]
           /\ announced' = Append(announced, e)
           /\ Hooks!Announce(e)
    /\ UNCHANGED <<now, asterisk, ami, sms, ever>>

\* The row that the consumer wants to insert.
RowInHand == [report |-> hand.event.report, stamp |-> hand.event.stamp,
              checked |-> hand.checked]

\* The unique index idx_sms_dedup: a row with the same text and stamp.
InTheWay(r) == \E o \in sms : TextOf(o.report) = TextOf(r.report) /\ o.stamp = r.stamp

\* Mutant of Insert: an index without the stamp, and INSERT OR IGNORE.
BugUnique ==
    /\ hand # NoHand
    /\ hand' = NoHand
    /\ LET new == IF \E o \in sms : TextOf(o.report) = TextOf(RowInHand.report)
                  THEN {} ELSE {RowInHand}
       IN  /\ sms' = sms \cup new
           /\ ever' = ever \cup new
    /\ UNCHANGED <<now, asterisk, ami, events, announced, faults, dispatch>>

\* The transaction commits, or fails and is only logged.  A row in the way makes
\* it fail if the senders and the stamps, of less than a tick, agree as well.
Insert ==
    /\ hand # NoHand
    /\ hand' = NoHand
    /\ \/ /\ sms' = sms \cup {RowInHand}
          /\ ever' = ever \cup {RowInHand}
          /\ UNCHANGED faults
       \/ InTheWay(RowInHand) /\ UNCHANGED <<sms, ever, faults>>
       \/ Fault /\ UNCHANGED <<sms, ever>>
    /\ UNCHANGED <<now, asterisk, ami, events, announced, dispatch>>

-----------------------------------------------------------------------------
(* The dispatcher, the operator, crashes and the clock. *)

gateway == <<now, asterisk, ami, events, hand, sms, ever, announced, faults>>

Dispatch == Hooks!HookStep /\ UNCHANGED gateway

\* The operator deletes the conversation.
DeleteRows ==
    /\ sms # {}
    /\ Fault
    /\ sms' = {}
    /\ UNCHANGED <<now, asterisk, ami, events, hand, ever, announced, dispatch>>

\* Events in memory, the consumer's hand and the webhook channel are gone.
Crash ==
    /\ Fault
    /\ ami' = <<>>
    /\ events' = <<>>
    /\ hand' = NoHand
    /\ Hooks!Forget
    /\ UNCHANGED <<now, asterisk, sms, ever, announced>>

Tick ==
    /\ now < MaxTime
    /\ now' = now + 1
    /\ UNCHANGED <<asterisk, ami, events, hand, sms, ever, announced, faults, dispatch>>

-----------------------------------------------------------------------------
Next == \/ \E m \in Msg : ReportFirst(m) \/ ReportAgain(m)
        \/ Translate \/ LosePacket
        \/ Drop \/ Accept \/ Insert
        \/ Dispatch
        \/ DeleteRows \/ Crash \/ Tick

\* The pump, the consumer and the dispatcher keep being polled.  Nothing is
\* assumed of Asterisk, the operator, or how long anything takes.
Fairness == /\ WF_vars(Translate)
            /\ WF_vars(Drop \/ Accept \/ Insert)
            /\ WF_vars(Dispatch)

Spec == Init /\ [][Next]_vars /\ Fairness

-----------------------------------------------------------------------------
(* Properties. *)

\* No text is stored a second time unless the later report was looked at more
\* than the window after the earlier one was stamped: the check and the insert
\* are separate statements, and only the single consumer keeps the second
\* report of a message from passing the check before the first is inserted.
RepeatsAreLate == \A q, r \in sms :
    (q # r /\ TextOf(q.report) = TextOf(r.report) /\ faults = 0) =>
        \/ r.checked > q.stamp + Window
        \/ q.checked > r.stamp + Window

\* No message is swallowed by an old row: whatever is reported, lost reports,
\* failures and crashes aside, ends up as a row of its text that was stamped no
\* earlier than the window before the report.
MessageIsKept == \A m \in Msg :
    (reports[m] > 0 /\ text[m] \notin Noise) ~>
        \/ faults > 0
        \/ \E r \in ever : TextOf(r.report) = text[m] /\ r.stamp + Window >= since[m]

\* The webhooks are told of the SMS that are stored, and of no other: a row is
\* of an announced SMS, whatever failed or crashed; and unless something did, an
\* announced SMS has got its row, or one that the index cannot tell from it, but
\* for the last while it is inserted.
AnnouncedIsStored ==
    /\ \A r \in ever : \E k \in 1..Len(announced) :
          announced[k] = [report |-> r.report, stamp |-> r.stamp]
    /\ faults = 0 =>
          \A k \in 1..Len(announced) :
              \/ \E r \in ever : /\ TextOf(r.report) = TextOf(announced[k].report)
                               /\ r.stamp = announced[k].stamp
              \/ k = Len(announced) /\ hand # NoHand

\* Every webhook is called with the SMS in the order in which they came in,
\* whatever the filters let through and however slow other webhooks are.
Before(m, n) == \E i, j \in 1..Len(announced) :
                    i < j /\ announced[i] = m /\ announced[j] = n
HooksInOrder ==
    [][\A h \in Hook : started'[h] # started[h] /\ started[h] # NoNotice =>
                           Before(started[h], started'[h])]_vars

\* No notice stays with the dispatcher, so one slow or failing webhook never
\* blocks the notices behind it for good.
NoticeIsServed == \A n \in Event : Hooks!Pending(n) ~> ~Hooks!Pending(n)
=============================================================================
