--------------------------- MODULE SmsInboundProofs ---------------------------
(***************************************************************************)
(* Theorems about SmsInbound, and the dispatcher of Webhooks in it, for any *)
(* set of messages, texts and webhooks, any window, any number of permits.  *)
(***************************************************************************)
EXTENDS SmsInbound, FiniteSetTheorems, SequenceTheorems, TLAPS

(* The inductive invariant, in parts. *)

\* What the consumer has in hand was looked at after every row of its text had
\* left the window, and nobody else inserts rows: it is still so.
HandInv ==
    hand # NoHand /\ faults = 0 =>
        \A q \in sms : TextOf(q.report) = TextOf(hand.event.report) =>
                           hand.checked > q.stamp + Window

\* Without a notice there are no tasks, and every task that is making its
\* request holds a permit.
Posting == {h \in Hook : request[h] = "post"}
PermitInv ==
    /\ current = NoNotice => Hooks!Idle
    /\ IsFiniteSet(Posting)
    /\ permits + Cardinality(Posting) = MaxConcurrent

\* How many of the notices the dispatcher has taken or lost in a crash.
Taken == Len(announced) - Len(inbox)

\* The channel holds the last notices; the current one is the last taken; a
\* webhook was called with a taken one, earlier than the one it waits to get.
OrderInv ==
    /\ Taken \in Nat
    /\ \A k \in 1..Len(inbox) : inbox[k] = announced[Taken + k]
    /\ current # NoNotice => Taken # 0 /\ current = announced[Taken]
    /\ \A h \in Hook : started[h] # NoNotice =>
          \E k \in 1..Taken : /\ started[h] = announced[k]
                              /\ request[h] = "wait" => k # Taken

\* What the consumer has in hand is the SMS that it announced last, and what may
\* be in its way was stored once.
StoredInv ==
    /\ hand # NoHand => /\ Len(announced) # 0
                        /\ hand \in Hand
                        /\ hand.event = announced[Len(announced)]
    /\ sms \subseteq ever
    /\ AnnouncedIsStored

IInv == TypeOK /\ HandInv /\ RepeatsAreLate /\ PermitInv /\ OrderInv

-----------------------------------------------------------------------------
(* What a step leaves alone. *)

asteriskOK ==
    /\ now \in Time
    /\ text \in [Msg -> Text]
    /\ reports \in [Msg -> 0..2]
    /\ since \in [Msg -> Time]
    /\ ami \in Seq(Report)
    /\ events \in Seq(Event)

gatewayOK ==
    /\ hand \in Hand \cup {NoHand}
    /\ sms \subseteq Row
    /\ ever \subseteq Row
    /\ announced \in Seq(Event)
    /\ faults \in 0..MaxFaults

LEMMA TypeParts ==
    /\ TypeOK <=> asteriskOK /\ gatewayOK /\ Hooks!HookTypeOK
    /\ TypeOK' <=> asteriskOK' /\ gatewayOK' /\ Hooks!HookTypeOK'
BY DEF TypeOK, asteriskOK, gatewayOK

LEMMA FaultFacts ==
    ASSUME TypeOK, Fault
    PROVE  faults' \in 0..MaxFaults /\ faults' # 0
BY TimeAssumption DEF TypeOK, Fault

LEMMA HookKept ==
    ASSUME IInv, UNCHANGED dispatch
    PROVE  Hooks!HookTypeOK' /\ PermitInv'
BY DEF IInv, TypeOK, Hooks!HookTypeOK, PermitInv, Posting, Hooks!Idle, dispatch

\* A step that leaves the dispatcher and what was announced alone.
LEMMA OrderKept ==
    ASSUME IInv, UNCHANGED <<dispatch, announced>>
    PROVE  OrderInv'
BY DEF IInv, OrderInv, Taken, dispatch

\* A step that leaves the table and the consumer alone.
LEMMA RowsKept ==
    ASSUME IInv, UNCHANGED <<text, sms, hand, faults>>
    PROVE  HandInv' /\ RepeatsAreLate'
BY DEF IInv, HandInv, RepeatsAreLate, TextOf

\* After a fault, nothing is claimed about repeats.
LEMMA FaultyRows ==
    ASSUME faults' # 0
    PROVE  HandInv' /\ RepeatsAreLate'
BY DEF HandInv, RepeatsAreLate

LEMMA RestTypes ==
    ASSUME IInv, UNCHANGED <<hand, sms, ever, announced, faults>>
    PROVE  gatewayOK'
BY DEF IInv, TypeOK, gatewayOK

-----------------------------------------------------------------------------
(* Asterisk, the pump, the clock. *)

LEMMA ReportStep ==
    ASSUME IInv, NEW m \in Msg, ReportFirst(m) \/ ReportAgain(m)
    PROVE  IInv'
<1> USE DEF ReportFirst, ReportAgain
<1>1. asteriskOK'
  <2>1. <<m, 1>> \in Report /\ <<m, 2>> \in Report
    BY DEF Report
  <2>2. ami \in Seq(Report) /\ reports \in [Msg -> 0..2] /\ since \in [Msg -> Time]
        /\ now \in Time
    BY DEF IInv, TypeOK
  <2>3. /\ ami' \in Seq(Report) /\ reports' \in [Msg -> 0..2]
        /\ since' \in [Msg -> Time]
    <3>1. CASE ReportFirst(m)
      BY <2>1, <2>2, <3>1 DEF ReportFirst
    <3>2. CASE ReportAgain(m)
      BY <2>1, <2>2, <3>2 DEF ReportAgain
    <3>3. QED
      BY <3>1, <3>2
  <2>4. QED
    BY <2>3 DEF IInv, TypeOK, asteriskOK
<1>2. QED
  BY <1>1, TypeParts, RestTypes, HookKept, OrderKept, RowsKept DEF IInv

LEMMA TranslateStep == ASSUME IInv, Translate PROVE IInv'
<1> USE DEF Translate
<1>1. asteriskOK'
  <2>1. Head(ami) \in Report /\ Tail(ami) \in Seq(Report)
    BY HeadTailProperties DEF IInv, TypeOK
  <2>2. [report |-> Head(ami), stamp |-> now] \in Event
    BY <2>1 DEF Event, IInv, TypeOK
  <2>3. events' \in Seq(Event)
    BY <2>2 DEF IInv, TypeOK
  <2>4. QED
    BY <2>1, <2>3 DEF IInv, TypeOK, asteriskOK, asterisk
<1>2. QED
  BY <1>1, TypeParts, RestTypes, HookKept, OrderKept, RowsKept DEF IInv, asterisk

LEMMA LosePacketStep == ASSUME IInv, LosePacket PROVE IInv'
<1> USE DEF LosePacket, asterisk
<1>1. asteriskOK'
  BY HeadTailProperties DEF IInv, TypeOK, asteriskOK
<1>2. gatewayOK' /\ faults' # 0
  BY FaultFacts DEF IInv, TypeOK, gatewayOK
<1>3. QED
  BY <1>1, <1>2, TypeParts, HookKept, OrderKept, FaultyRows DEF IInv

LEMMA TickStep == ASSUME IInv, Tick PROVE IInv'
<1> USE DEF Tick, asterisk
<1>1. asteriskOK'
  BY TimeAssumption DEF IInv, TypeOK, asteriskOK, Time
<1>2. QED
  BY <1>1, TypeParts, RestTypes, HookKept, OrderKept, RowsKept DEF IInv

-----------------------------------------------------------------------------
(* The consumer. *)

LEMMA EventTypes ==
    ASSUME TypeOK, events # <<>>
    PROVE  /\ Head(events) \in Event /\ Tail(events) \in Seq(Event)
           /\ Head(events).report \in Report
<1>1. events \in Seq(Event)
  BY DEF TypeOK
<1>2. Head(events) \in Event /\ Tail(events) \in Seq(Event)
  BY <1>1, HeadTailProperties
<1>3. QED
  BY <1>2 DEF Event

LEMMA DropStep == ASSUME IInv, Drop PROVE IInv'
<1> USE DEF Drop, asterisk
<1>1. asteriskOK'
  BY EventTypes DEF IInv, TypeOK, asteriskOK
<1>2. QED
  BY <1>1, TypeParts, RestTypes, HookKept, OrderKept, RowsKept DEF IInv

\* The notice goes to the end of what was announced and of the channel at once.
LEMMA AcceptStep == ASSUME IInv, Accept PROVE IInv'
<1> DEFINE e == Head(events)
<1>1. e \in Event /\ Tail(events) \in Seq(Event) /\ e.report \in Report
  BY EventTypes DEF IInv, Accept
<1>2. /\ hand' = [event |-> e, checked |-> now] /\ events' = Tail(events)
      /\ UNCHANGED <<now, text, reports, since, ami, sms, ever>>
      /\ announced' = Append(announced, e)
      /\ inbox' = Append(inbox, e)
      /\ UNCHANGED <<current, request, permits, started>>
      /\ (~ExistsRecent(TextOf(e.report)) /\ UNCHANGED faults) \/ Fault
  BY DEF Accept, asterisk, Hooks!Announce
<1> HIDE DEF e
<1>3. asteriskOK'
  BY <1>1, <1>2 DEF IInv, TypeOK, asteriskOK
<1>4. gatewayOK'
  <2>1. hand' \in Hand
    BY <1>1, <1>2 DEF Hand, IInv, TypeOK
  <2>2. faults' \in 0..MaxFaults
    BY <1>2, FaultFacts DEF IInv, TypeOK
  <2>3. announced' \in Seq(Event)
    BY <1>1, <1>2 DEF IInv, TypeOK
  <2>4. QED
    BY <1>2, <2>1, <2>2, <2>3 DEF IInv, TypeOK, gatewayOK
<1>5. Hooks!HookTypeOK' /\ PermitInv'
  BY <1>1, <1>2 DEF IInv, TypeOK, Hooks!HookTypeOK, PermitInv, Posting, Hooks!Idle
<1>6. HandInv' /\ RepeatsAreLate'
  <2>1. CASE Fault
    BY <2>1, FaultFacts, FaultyRows DEF IInv
  <2>2. CASE ~ExistsRecent(TextOf(e.report)) /\ UNCHANGED faults
    <3>1. hand'.checked = now /\ hand'.event.report = e.report
      BY <1>2
    <3>2. ASSUME NEW q \in sms, TextOf(q.report) = TextOf(e.report)
          PROVE  now > q.stamp + Window
      <4>1. ~(q.stamp + Window >= now)
        BY <2>2, <3>2 DEF ExistsRecent
      <4>2. q.stamp \in Nat /\ now \in Nat /\ Window \in Nat
        BY TimeAssumption DEF IInv, TypeOK, Row, Time
      <4>3. QED
        BY <4>1, <4>2
    <3>3. HandInv'
      BY <1>2, <3>1, <3>2 DEF HandInv, TextOf
    <3>4. RepeatsAreLate'
      BY <1>2, <2>2 DEF IInv, RepeatsAreLate, TextOf
    <3>5. QED
      BY <3>3, <3>4
  <2>3. QED
    BY <1>2, <2>1, <2>2
<1>7. OrderInv'
  <2>1. /\ announced \in Seq(Event) /\ inbox \in Seq(Event)
        /\ Len(announced) \in Nat /\ Len(inbox) \in Nat
    BY LenProperties DEF IInv, TypeOK, Hooks!HookTypeOK
  <2>2. /\ Len(announced') = Len(announced) + 1 /\ Len(inbox') = Len(inbox) + 1
        /\ \A k \in 1..Len(announced) : announced'[k] = announced[k]
        /\ \A k \in 1..Len(inbox) : inbox'[k] = inbox[k]
        /\ announced'[Len(announced) + 1] = e
        /\ inbox'[Len(inbox) + 1] = e
    BY <1>1, <1>2, <2>1, AppendProperties
  <2>3. Taken \in Nat /\ Taken' = Taken /\ Taken + Len(inbox) = Len(announced)
    BY <2>1, <2>2 DEF IInv, OrderInv, Taken
  <2>4. \A k \in 1..Taken : announced'[k] = announced[k]
    BY <2>1, <2>2, <2>3
  <2>5. ASSUME NEW k \in 1..Len(inbox') PROVE inbox'[k] = announced'[Taken + k]
    <3>1. CASE k \in 1..Len(inbox)
      <4>1. Taken + k \in 1..Len(announced)
        BY <2>1, <2>3, <3>1
      <4>2. QED
        BY <2>2, <3>1, <4>1 DEF IInv, OrderInv
    <3>2. CASE k = Len(inbox) + 1
      <4>1. Taken + k = Len(announced) + 1
        BY <2>1, <2>3, <3>2
      <4>2. QED
        BY <2>2, <3>2, <4>1
    <3>3. k \in Nat /\ 1 <= k /\ k <= Len(inbox) + 1
      BY <2>1, <2>2
    <3>4. k \in 1..Len(inbox) \/ k = Len(inbox) + 1
      BY <2>1, <3>3
    <3>5. QED
      BY <3>1, <3>2, <3>4
  <2>6. current' # NoNotice => Taken' # 0 /\ current' = announced'[Taken']
    <3>1. SUFFICES ASSUME current # NoNotice PROVE Taken # 0 /\ current = announced'[Taken]
      BY <1>2, <2>3
    <3>2. Taken # 0 /\ current = announced[Taken]
      BY <3>1 DEF IInv, OrderInv
    <3>3. Taken \in 1..Taken
      BY <2>3, <3>2
    <3>4. QED
      BY <2>4, <3>2, <3>3
  <2>7. ASSUME NEW h \in Hook, started'[h] # NoNotice
        PROVE  \E k \in 1..Taken' : /\ started'[h] = announced'[k]
                                    /\ request'[h] = "wait" => k # Taken'
    BY <1>2, <2>3, <2>4, <2>7 DEF IInv, OrderInv
  <2>8. QED
    BY <2>3, <2>5, <2>6, <2>7 DEF OrderInv
<1>8. QED
  BY <1>3, <1>4, <1>5, <1>6, <1>7, TypeParts DEF IInv

\* The new row is late for every other row of its text.
LEMMA InsertStep == ASSUME IInv, Insert PROVE IInv'
<1> USE DEF Insert, asterisk
<1> DEFINE r == RowInHand
<1>1. hand \in Hand /\ r \in Row
  BY DEF IInv, TypeOK, Hand, Event, Row, RowInHand
<1>2. asteriskOK'
  BY DEF IInv, TypeOK, asteriskOK
<1>3. \/ sms' = sms \cup {r} /\ ever' = ever \cup {r} /\ UNCHANGED faults
      \/ UNCHANGED <<sms, ever, faults>>
      \/ Fault /\ UNCHANGED <<sms, ever>>
  OBVIOUS
<1> HIDE DEF r
<1>4. gatewayOK'
  BY <1>1, <1>3, FaultFacts DEF IInv, TypeOK, gatewayOK
<1>5. HandInv'
  BY DEF HandInv
<1>6. RepeatsAreLate'
  <2>1. CASE Fault
    BY <2>1, FaultFacts, FaultyRows DEF IInv
  <2>2. CASE sms' = sms \cup {r} /\ UNCHANGED faults
    <3>1. ASSUME faults = 0, NEW q \in sms, TextOf(q.report) = TextOf(r.report)
          PROVE  r.checked > q.stamp + Window
      BY <3>1 DEF IInv, HandInv, r, RowInHand
    <3>2. QED
      BY <2>2, <3>1 DEF IInv, RepeatsAreLate, TextOf
  <2>3. CASE UNCHANGED <<sms, ever, faults>>
    BY <2>3 DEF IInv, RepeatsAreLate, TextOf
  <2>4. QED
    BY <1>3, <2>1, <2>2, <2>3
<1>7. QED
  BY <1>2, <1>4, <1>5, <1>6, TypeParts, HookKept, OrderKept DEF IInv

-----------------------------------------------------------------------------
(* The operator and crashes. *)

LEMMA DeleteRowsStep == ASSUME IInv, DeleteRows PROVE IInv'
<1> USE DEF DeleteRows, asterisk
<1>1. asteriskOK'
  BY DEF IInv, TypeOK, asteriskOK
<1>2. gatewayOK' /\ faults' # 0
  BY FaultFacts DEF IInv, TypeOK, gatewayOK
<1>3. QED
  BY <1>1, <1>2, TypeParts, HookKept, OrderKept, FaultyRows DEF IInv

\* What the channel held is lost; the webhooks keep what they were called with.
LEMMA CrashStep == ASSUME IInv, Crash PROVE IInv'
<1> USE DEF Crash, asterisk, Hooks!Forget
<1>1. asteriskOK'
  BY DEF IInv, TypeOK, asteriskOK
<1>2. gatewayOK' /\ faults' # 0
  BY FaultFacts DEF IInv, TypeOK, gatewayOK
<1>3. Hooks!HookTypeOK'
  BY PermitAssumption DEF IInv, TypeOK, Hooks!HookTypeOK
<1>4. PermitInv'
  <2>1. Posting' = {}
    BY DEF Posting
  <2>2. QED
    BY <2>1, FS_EmptySet, PermitAssumption DEF PermitInv, Hooks!Idle
<1>5. OrderInv'
  <2>1. Len(announced) \in Nat /\ Len(inbox) \in Nat
    BY LenProperties DEF IInv, TypeOK, Hooks!HookTypeOK
  <2>2. Taken' = Len(announced) /\ Taken \in Nat /\ Taken <= Taken' /\ Len(inbox') = 0
    BY <2>1 DEF Taken, IInv, OrderInv
  <2>3. ASSUME NEW h \in Hook, started[h] # NoNotice
        PROVE  \E k \in 1..Taken' : started[h] = announced[k]
    BY <2>1, <2>2, <2>3 DEF IInv, OrderInv
  <2>4. QED
    BY <2>1, <2>2, <2>3 DEF OrderInv
<1>6. QED
  BY <1>1, <1>2, <1>3, <1>4, <1>5, TypeParts, FaultyRows DEF IInv

-----------------------------------------------------------------------------
(* The dispatcher. *)

LEMMA PermitTypes ==
    ASSUME IInv
    PROVE  permits \in Nat /\ permits <= MaxConcurrent /\ Cardinality(Posting) \in Nat
BY PermitAssumption, FS_CardinalityType DEF IInv, TypeOK, Hooks!HookTypeOK, PermitInv

\* Taking a notice off the channel makes it the last taken, which no webhook
\* was called with yet.
LEMMA ReceiveStep ==
    ASSUME IInv, Hooks!Receive, UNCHANGED announced
    PROVE  Hooks!HookTypeOK' /\ PermitInv' /\ OrderInv'
<1>1. /\ inbox \in Seq(Event) /\ inbox # <<>> /\ current = NoNotice
      /\ inbox' = Tail(inbox) /\ current' = Head(inbox)
      /\ request' \in [Hook -> {"none", "wait"}] /\ UNCHANGED <<permits, started>>
  BY DEF Hooks!Receive, IInv, TypeOK, Hooks!HookTypeOK
<1>2. /\ Len(inbox) \in Nat /\ Len(announced) \in Nat /\ Len(inbox) # 0
      /\ Head(inbox) \in Event /\ Tail(inbox) \in Seq(Event)
      /\ Head(inbox) = inbox[1] /\ Len(Tail(inbox)) = Len(inbox) - 1
      /\ \A k \in 1..Len(Tail(inbox)) : Tail(inbox)[k] = inbox[k + 1]
  BY <1>1, HeadTailProperties, LenProperties, EmptySeq DEF IInv, TypeOK
<1>3. Hooks!HookTypeOK'
  BY <1>1, <1>2 DEF IInv, TypeOK, Hooks!HookTypeOK
<1>4. PermitInv'
  <2>1. Posting = {} /\ Posting' = {}
    BY <1>1 DEF Posting, IInv, PermitInv, Hooks!Idle
  <2>2. current' # NoNotice
    BY <1>1, <1>2, NoticeAssumption
  <2>3. QED
    BY <1>1, <2>1, <2>2 DEF IInv, PermitInv
<1>5. OrderInv'
  <2>1. /\ Taken \in Nat /\ Taken' = Taken + 1
        /\ \A k \in 1..Len(inbox) : inbox[k] = announced[Taken + k]
    BY <1>1, <1>2 DEF Taken, IInv, OrderInv
  <2>2. ASSUME NEW k \in 1..Len(inbox') PROVE inbox'[k] = announced[Taken' + k]
    <3>1. k + 1 \in 1..Len(inbox) /\ inbox'[k] = inbox[k + 1]
      BY <1>1, <1>2
    <3>2. Taken' + k = Taken + (k + 1)
      BY <1>1, <1>2, <2>1
    <3>3. QED
      BY <2>1, <3>1, <3>2
  <2>3. Taken' # 0 /\ current' = announced[Taken']
    BY <1>1, <1>2, <2>1
  <2>4. ASSUME NEW h \in Hook, started'[h] # NoNotice
        PROVE  \E k \in 1..Taken' : started'[h] = announced'[k] /\ k # Taken'
    <3>1. PICK k \in 1..Taken : started'[h] = announced'[k]
      BY <1>1, <2>4 DEF IInv, OrderInv
    <3>2. k \in 1..Taken' /\ k # Taken'
      BY <2>1
    <3>3. QED
      BY <3>1, <3>2
  <2>5. Taken' \in Nat
    BY <2>1
  <2>6. QED
    BY <2>2, <2>3, <2>4, <2>5 DEF OrderInv
<1>6. QED
  BY <1>3, <1>4, <1>5

\* The webhook's earlier notice lies before the one that it gets now.
LEMMA PostStep ==
    ASSUME IInv, NEW h \in Hook, Hooks!Post(h), UNCHANGED announced
    PROVE  /\ Hooks!HookTypeOK' /\ PermitInv' /\ OrderInv'
           /\ started[h] # NoNotice => Before(started[h], started'[h])
<1>1. /\ request[h] = "wait" /\ permits > 0 /\ permits' = permits - 1
      /\ request' = [request EXCEPT ![h] = "post"]
      /\ started' = [started EXCEPT ![h] = current] /\ UNCHANGED <<inbox, current>>
      /\ request \in [Hook -> {"none", "wait", "post"}]
      /\ started \in [Hook -> Event \cup {NoNotice}]
      /\ current \in Event \cup {NoNotice} /\ inbox \in Seq(Event)
  BY DEF Hooks!Post, IInv, TypeOK, Hooks!HookTypeOK
<1>2. /\ current # NoNotice /\ Taken \in Nat /\ Taken # 0 /\ current = announced[Taken]
      /\ Taken' = Taken
  BY <1>1 DEF IInv, PermitInv, Hooks!Idle, OrderInv, Taken
<1>3. permits' \in 0..MaxConcurrent
  BY <1>1, PermitTypes, PermitAssumption
<1>4. Hooks!HookTypeOK'
  BY <1>1, <1>3 DEF Hooks!HookTypeOK
<1>5. PermitInv'
  <2>1. Posting' = Posting \cup {h} /\ h \notin Posting
    BY <1>1 DEF Posting
  <2>2. IsFiniteSet(Posting') /\ Cardinality(Posting') = Cardinality(Posting) + 1
    BY <2>1, FS_AddElement DEF IInv, PermitInv
  <2>3. permits' + Cardinality(Posting') = MaxConcurrent
    BY <1>1, <2>2, PermitTypes DEF IInv, PermitInv
  <2>4. QED
    BY <1>1, <1>2, <2>2, <2>3 DEF PermitInv
<1>6. OrderInv'
  <2>1. ASSUME NEW g \in Hook, started'[g] # NoNotice
        PROVE  \E k \in 1..Taken : /\ started'[g] = announced[k]
                                   /\ request'[g] = "wait" => k # Taken
    <3>1. CASE g = h
      <4>1. started'[g] = current /\ request'[g] = "post" /\ Taken \in 1..Taken
        BY <1>1, <1>2, <3>1
      <4>2. QED
        BY <1>2, <4>1
    <3>2. CASE g # h
      BY <1>1, <2>1, <3>2 DEF IInv, OrderInv
    <3>3. QED
      BY <3>1, <3>2
  <2>2. QED
    BY <1>1, <1>2, <2>1 DEF IInv, OrderInv
<1>7. ASSUME started[h] # NoNotice PROVE Before(started[h], started'[h])
  <2>1. PICK k \in 1..Taken : started[h] = announced[k] /\ k # Taken
    BY <1>1, <1>7 DEF IInv, OrderInv
  <2>2. Len(inbox) \in Nat /\ Len(announced) \in Nat
    BY <1>1, LenProperties DEF IInv, TypeOK
  <2>3. k \in 1..Len(announced) /\ Taken \in 1..Len(announced) /\ k < Taken
    BY <1>2, <2>1, <2>2 DEF Taken
  <2>4. started'[h] = announced[Taken]
    BY <1>1, <1>2
  <2>5. QED
    BY <2>1, <2>3, <2>4 DEF Before
<1>8. QED
  BY <1>4, <1>5, <1>6, <1>7

LEMMA FinishStep ==
    ASSUME IInv, NEW h \in Hook, Hooks!Finish(h), UNCHANGED announced
    PROVE  Hooks!HookTypeOK' /\ PermitInv' /\ OrderInv'
<1>1. /\ request[h] = "post" /\ permits' = permits + 1
      /\ request' = [request EXCEPT ![h] = "none"]
      /\ UNCHANGED <<inbox, current, started>>
      /\ request \in [Hook -> {"none", "wait", "post"}]
  BY DEF Hooks!Finish, IInv, TypeOK, Hooks!HookTypeOK
<1>2. Posting' = Posting \ {h} /\ h \in Posting
  BY <1>1 DEF Posting
<1>3. IsFiniteSet(Posting') /\ Cardinality(Posting') = Cardinality(Posting) - 1
  BY <1>2, FS_RemoveElement DEF IInv, PermitInv
<1>4. Cardinality(Posting') \in Nat /\ permits' + Cardinality(Posting') = MaxConcurrent
  BY <1>1, <1>3, PermitTypes, FS_CardinalityType DEF IInv, PermitInv
<1>5. permits' \in 0..MaxConcurrent
  BY <1>1, <1>4, PermitTypes, PermitAssumption
<1>6. Hooks!HookTypeOK'
  BY <1>1, <1>5 DEF IInv, TypeOK, Hooks!HookTypeOK
<1>7. PermitInv'
  BY <1>1, <1>3, <1>4 DEF IInv, PermitInv, Hooks!Idle
<1>8. OrderInv'
  <2>1. \A g \in Hook : request'[g] = "wait" => request[g] = "wait"
    BY <1>1
  <2>2. QED
    BY <1>1, <2>1 DEF IInv, OrderInv, Taken
<1>9. QED
  BY <1>6, <1>7, <1>8

LEMMA JoinStep ==
    ASSUME IInv, Hooks!Join, UNCHANGED announced
    PROVE  Hooks!HookTypeOK' /\ PermitInv' /\ OrderInv'
<1> USE DEF Hooks!Join
<1>1. Hooks!HookTypeOK'
  BY DEF IInv, TypeOK, Hooks!HookTypeOK
<1>2. PermitInv'
  BY DEF IInv, PermitInv, Posting, Hooks!Idle
<1>3. OrderInv'
  BY DEF IInv, OrderInv, Taken
<1>4. QED
  BY <1>1, <1>2, <1>3

LEMMA DispatchStep == ASSUME IInv, Dispatch PROVE IInv'
<1>1. UNCHANGED gateway /\ UNCHANGED announced
  BY DEF Dispatch, gateway
<1>2. Hooks!HookTypeOK' /\ PermitInv' /\ OrderInv'
  BY <1>1, ReceiveStep, JoinStep, PostStep, FinishStep DEF Dispatch, Hooks!HookStep
<1>3. asteriskOK' /\ HandInv' /\ RepeatsAreLate' /\ gatewayOK'
  BY <1>1, RowsKept, RestTypes DEF gateway, asterisk, asteriskOK, IInv, TypeOK
<1>4. QED
  BY <1>2, <1>3, TypeParts DEF IInv

-----------------------------------------------------------------------------
(* The theorems. *)

LEMMA InitIInv == Init => IInv
<1> SUFFICES ASSUME Init PROVE IInv
  OBVIOUS
<1> USE DEF Init, Hooks!HookInit
<1>1. asteriskOK /\ gatewayOK
  BY TimeAssumption DEF asteriskOK, gatewayOK, Time
<1>2. Hooks!HookTypeOK
  BY PermitAssumption DEF Hooks!HookTypeOK
<1>3. PermitInv
  <2>1. Posting = {}
    BY DEF Posting
  <2>2. QED
    BY <2>1, FS_EmptySet, PermitAssumption DEF PermitInv, Hooks!Idle
<1>4. HandInv /\ RepeatsAreLate
  BY DEF HandInv, RepeatsAreLate
<1>5. OrderInv
  <2>1. Len(inbox) = 0 /\ Len(announced) = 0 /\ Taken = 0
    BY DEF Taken
  <2>2. QED
    BY <2>1 DEF OrderInv
<1>6. QED
  BY <1>1, <1>2, <1>3, <1>4, <1>5, TypeParts DEF IInv

LEMMA EveryStep == IInv /\ [Next]_vars => IInv'
<1> SUFFICES ASSUME IInv, [Next]_vars PROVE IInv'
  OBVIOUS
<1>1. CASE \E m \in Msg : ReportFirst(m) \/ ReportAgain(m)
  BY <1>1, ReportStep
<1>2. CASE Translate \/ LosePacket \/ Tick
  BY <1>2, TranslateStep, LosePacketStep, TickStep
<1>3. CASE Drop \/ Accept \/ Insert
  BY <1>3, DropStep, AcceptStep, InsertStep
<1>4. CASE Dispatch
  BY <1>4, DispatchStep
<1>5. CASE DeleteRows \/ Crash
  BY <1>5, DeleteRowsStep, CrashStep
<1>6. CASE UNCHANGED vars
  <2>1. asteriskOK'
    BY <1>6 DEF vars, asterisk, asteriskOK, IInv, TypeOK
  <2>2. QED
    BY <1>6, <2>1, TypeParts, RestTypes, HookKept, OrderKept, RowsKept
    DEF vars, asterisk, IInv
<1>7. QED
  BY <1>1, <1>2, <1>3, <1>4, <1>5, <1>6 DEF Next

-----------------------------------------------------------------------------
(* What is announced and what is stored. *)

\* A row that stands for an SMS: of its text, with its stamp.
StandsFor(r, e) == TextOf(r.report) = TextOf(e.report) /\ r.stamp = e.stamp

\* A step that leaves what was stored and announced and the consumer alone.
LEMMA StoredKept ==
    ASSUME StoredInv, UNCHANGED <<text, ever, announced, hand>>, sms' \subseteq sms,
           faults' = faults \/ faults' # 0
    PROVE  StoredInv'
BY DEF StoredInv, AnnouncedIsStored, TextOf

LEMMA StoredStep ==
    ASSUME IInv, StoredInv, [Next]_vars
    PROVE  StoredInv'
<1>1. announced \in Seq(Event) /\ Len(announced) \in Nat
  BY LenProperties DEF IInv, TypeOK
<1>2. CASE Accept
  <2> DEFINE n == Head(events)
  <2>1. n \in Event /\ announced' = Append(announced, n) /\ UNCHANGED <<text, sms, ever>>
        /\ hand = NoHand /\ hand' = [event |-> n, checked |-> now] /\ now \in Time
        /\ (faults' = faults \/ faults' # 0)
    BY <1>2, EventTypes, FaultFacts DEF Accept, IInv, TypeOK, NoHand, asterisk
  <2> HIDE DEF n
  <2>2. /\ Len(announced') = Len(announced) + 1
        /\ \A k \in 1..Len(announced) : announced'[k] = announced[k]
        /\ announced'[Len(announced) + 1] = n
    BY <1>1, <2>1, AppendProperties
  <2>3. \A r \in ever : \E k \in 1..Len(announced') :
            announced'[k] = [report |-> r.report, stamp |-> r.stamp]
    <3>1. TAKE r \in ever
    <3>2. PICK k \in 1..Len(announced) :
              announced[k] = [report |-> r.report, stamp |-> r.stamp]
      BY <3>1 DEF StoredInv, AnnouncedIsStored
    <3>3. k \in 1..Len(announced') /\ announced'[k] = announced[k]
      BY <1>1, <2>2, <3>2
    <3>4. QED
      BY <3>2, <3>3
  <2>4. ASSUME faults' = 0, NEW k \in 1..Len(announced')
        PROVE  (\E r \in ever : StandsFor(r, announced'[k])) \/ k = Len(announced')
    <3>1. CASE k = Len(announced) + 1
      BY <2>2, <3>1
    <3>2. CASE k # Len(announced) + 1
      <4>1. k \in 1..Len(announced) /\ faults = 0
        BY <1>1, <2>1, <2>2, <2>4, <3>2
      <4>2. \E r \in ever : StandsFor(r, announced[k])
        BY <2>1, <4>1 DEF StoredInv, AnnouncedIsStored, StandsFor
      <4>3. QED
        BY <2>2, <4>1, <4>2
    <3>3. QED
      BY <3>1, <3>2
  <2>5. /\ Len(announced') # 0 /\ hand' \in Hand /\ hand'.event = announced'[Len(announced')]
        /\ hand' # NoHand
    BY <1>1, <2>1, <2>2 DEF Hand, NoHand
  <2>6. sms' \subseteq ever'
    BY <2>1 DEF StoredInv
  <2>7. AnnouncedIsStored'
    BY <2>1, <2>3, <2>4, <2>5 DEF AnnouncedIsStored, StandsFor, TextOf
  <2>8. QED
    BY <2>5, <2>6, <2>7 DEF StoredInv
<1>3. CASE Insert
  <2> DEFINE last == announced[Len(announced)]
  <2>1. /\ hand # NoHand /\ hand' = NoHand /\ UNCHANGED <<announced, text>>
        /\ Len(announced) \in 1..Len(announced) /\ last \in Event
        /\ hand.event = last
    BY <1>1, <1>3 DEF Insert, StoredInv, asterisk
  <2>2. RowInHand.report = last.report /\ RowInHand.stamp = last.stamp
        /\ last = [report |-> RowInHand.report, stamp |-> RowInHand.stamp]
    BY <2>1 DEF RowInHand, Event
  <2> HIDE DEF last
  <2>3. ASSUME ever \subseteq ever', \A r \in ever' \ ever : r = RowInHand,
               UNCHANGED faults, \E r \in ever' : StandsFor(r, last)
        PROVE  AnnouncedIsStored'
    <3>1. ASSUME NEW r \in ever'
          PROVE  \E k \in 1..Len(announced) :
                     announced[k] = [report |-> r.report, stamp |-> r.stamp]
      BY <2>1, <2>2, <2>3 DEF StoredInv, AnnouncedIsStored, last
    <3>2. ASSUME faults = 0, NEW k \in 1..Len(announced)
          PROVE  \E r \in ever' : StandsFor(r, announced[k])
      BY <2>1, <2>3, <3>2 DEF StoredInv, AnnouncedIsStored, StandsFor, last
    <3>3. QED
      BY <2>1, <2>3, <3>1, <3>2 DEF AnnouncedIsStored, StandsFor, TextOf
  <2>4. CASE sms' = sms \cup {RowInHand} /\ ever' = ever \cup {RowInHand} /\ UNCHANGED faults
    <3>1. StandsFor(RowInHand, last)
      BY <2>2 DEF StandsFor
    <3>2. AnnouncedIsStored'
      BY <2>3, <2>4, <3>1
    <3>3. QED
      BY <2>1, <2>4, <3>2 DEF StoredInv
  <2>5. CASE InTheWay(RowInHand) /\ UNCHANGED <<sms, ever, faults>>
    <3>1. \E r \in ever : StandsFor(r, last)
      BY <2>2, <2>5 DEF InTheWay, StandsFor, StoredInv
    <3>2. AnnouncedIsStored'
      BY <2>3, <2>5, <3>1
    <3>3. QED
      BY <2>1, <2>5, <3>2 DEF StoredInv
  <2>6. CASE Fault /\ UNCHANGED <<sms, ever>>
    BY <2>1, <2>6, FaultFacts DEF StoredInv, AnnouncedIsStored, IInv
  <2>7. QED
    BY <1>3, <2>4, <2>5, <2>6 DEF Insert
<1>4. CASE Crash
  BY <1>4, FaultFacts DEF Crash, StoredInv, AnnouncedIsStored, IInv
<1>5. CASE ~(Accept \/ Insert \/ Crash)
  <2>1. UNCHANGED <<text, ever, announced, hand>> /\ sms' \subseteq sms
    BY <1>5 DEF Next, vars, asterisk, ReportFirst, ReportAgain, Translate, LosePacket, Drop,
       Tick, DeleteRows, Dispatch, gateway
  <2>2. faults' = faults \/ Fault
    BY <1>5 DEF Next, vars, ReportFirst, ReportAgain, Translate, LosePacket, Drop, Tick,
       DeleteRows, Dispatch, gateway
  <2>3. QED
    BY <2>1, <2>2, StoredKept, FaultFacts DEF IInv
<1>6. QED
  BY <1>2, <1>3, <1>4, <1>5

\* A step calls a webhook only with a notice that was announced after the one
\* it was called with last.
LEMMA StepInOrder ==
    ASSUME IInv, [Next]_vars, NEW h \in Hook, started'[h] # started[h],
           started[h] # NoNotice
    PROVE  Before(started[h], started'[h])
<1>1. ~(UNCHANGED started)
  OBVIOUS
<1>2. CASE Dispatch
  <2>1. PICK g \in Hook : Hooks!Post(g)
    BY <1>1, <1>2 DEF Dispatch, Hooks!HookStep, Hooks!Receive, Hooks!Join, Hooks!Finish
  <2>2. UNCHANGED announced /\ started \in [Hook -> Event \cup {NoNotice}]
    BY <1>2 DEF Dispatch, gateway, IInv, TypeOK, Hooks!HookTypeOK
  <2>3. g = h
    BY <2>1, <2>2 DEF Hooks!Post
  <2>4. QED
    BY <2>1, <2>2, <2>3, PostStep
<1>3. CASE ~Dispatch
  BY <1>1, <1>3 DEF Next, vars, dispatch, ReportFirst, ReportAgain, Translate, LosePacket,
     Drop, Accept, Insert, DeleteRows, Crash, Tick, Hooks!Announce, Hooks!Forget
<1>4. QED
  BY <1>2, <1>3

\* The invariant holds of Asterisk, pump, consumer, dispatcher and crashes.
THEOREM Invariance == Spec => []IInv
<1>1. QED
  BY InitIInv, EveryStep, PTL DEF Spec

\* The channels, the sms table and the dispatcher keep their types, and no more
\* permits are free than webhooks_max_concurrent (webhook.rs).
THEOREM TypeCorrect == Spec => []TypeOK
<1>1. IInv => TypeOK
  BY DEF IInv
<1>2. QED
  BY <1>1, Invariance, PTL

\* Without faults, a text is stored twice only if the later report was checked
\* more than the window after the earlier one was stamped (exists_recent and
\* the insert of manager.rs are two statements, with an await between them).
THEOREM DuplicatesAreLate == Spec => []RepeatsAreLate
<1>1. IInv => RepeatsAreLate
  BY DEF IInv
<1>2. QED
  BY <1>1, Invariance, PTL

\* The webhooks have been told of every SMS that was ever stored, also after
\* crashes; and without faults every SMS that they were told of is stored, or a
\* row of its text and stamp keeps it out (idx_sms_dedup), but for the one that
\* handle_modem_event (manager.rs) is inserting.
THEOREM HooksAndTableAgree == Spec => []AnnouncedIsStored
<1>1. Init => StoredInv
  BY DEF Init, StoredInv, AnnouncedIsStored
<1>2. StoredInv => AnnouncedIsStored
  BY DEF StoredInv
<1>3. QED
  BY <1>1, <1>2, StoredStep, Invariance, PTL DEF Spec

\* Every webhook gets its notices in the order of their announcement, through
\* the channel, the semaphore and crashes (receiver_loop of webhook.rs).
THEOREM WebhooksInOrder == Spec => HooksInOrder
<1>1. IInv /\ [Next]_vars =>
        [\A h \in Hook : started'[h] # started[h] /\ started[h] # NoNotice =>
                             Before(started[h], started'[h])]_vars
  BY StepInOrder
<1>2. QED
  BY <1>1, Invariance, PTL DEF Spec, HooksInOrder
===============================================================================
