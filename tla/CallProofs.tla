----------------------------- MODULE CallProofs -----------------------------
(***************************************************************************)
(* Theorems about calls.  First CallRecording, for any set of calls and any *)
(* number of packets and events on their way; then Originate, at the end.   *)
(***************************************************************************)
EXTENDS CallRecording, Originate, SequenceTheorems, TLAPS

(* The inductive invariant, in parts. *)

\* Where a packet of a call stands in the first queue, and an event of a call
\* in the second.
Sent(n, c) == {i \in 1..Len(ami) : ami[i] = Pkt(n, c)}
Due(k, c)  == {i \in 1..Len(events) : events[i].kind = k /\ events[i].id = c}

Ended(c) == row[c].status = "ended"
Begun(c) == row[c].status # "none"

\* Along the two queues and the row, the answer of a call never comes after
\* its end; and once the end is on its way, the dialplan has reached it.
OrderInv == \A c \in Call :
    /\ Sent("CallEnded", c) # {} \/ Due("CallEnded", c) # {} \/ Ended(c) =>
          leg[c] \in {"finished", "gone"}
    /\ \A i \in Sent("CallEnded", c), j \in Sent("CallAnswered", c) : j < i
    /\ \A i \in Due("CallEnded", c), j \in Due("CallAnswered", c) : j < i
    /\ Due("CallEnded", c) # {} \/ Ended(c) => Sent("CallAnswered", c) = {}
    /\ Ended(c) => Due("CallAnswered", c) = {}

\* With nothing lost, the end of a call finds its row, or follows the event
\* that inserts it.
StartInv == ~lost => \A c \in Call :
    /\ leg[c] # "none" =>
          Begun(c) \/ Due("CallRinging", c) # {} \/ Sent("CallStarted", c) # {}
    /\ \A i \in Sent("CallEnded", c) :
          \/ Begun(c) \/ Due("CallRinging", c) # {}
          \/ \E j \in Sent("CallStarted", c) : j < i
    /\ \A i \in Due("CallEnded", c) :
          Begun(c) \/ \E j \in Due("CallRinging", c) : j < i

\* With nothing lost, what knows the id of a call for a recording comes after
\* the end of the call.
PathInv == ~lost => \A c \in Call :
    /\ c \in pathOf => Ended(c) \/ Due("CallEnded", c) # {}
    /\ \A i \in Due("RecordingDone", c) :
          Ended(c) \/ \E j \in Due("CallEnded", c) : j < i
    /\ \A t \in Task : task[t].id = c /\ task[t].pc \in {"check", "read", "save"} => Ended(c)

IInv == TypeOK /\ OrderInv /\ StartInv /\ PathInv /\ RecordedWhenEnded
-----------------------------------------------------------------------------
(* Positions in the queues. *)

Dial == leg \in [Call -> {"none", "started", "up", "finished", "gone"}]
Desk == row \in [Key -> Row] /\ task \in [Task -> TaskState]
World == file \in [Call -> Audio] /\ mapped \in BOOLEAN /\ lost \in BOOLEAN
Ways == ami \in Seq(Packet) /\ events \in Seq(ModemEvent) /\ pathOf \subseteq Call

LEMMA TypeParts ==
    /\ TypeOK <=> Dial /\ Desk /\ World /\ Ways
    /\ TypeOK' <=> Dial' /\ Desk' /\ World' /\ Ways'
BY DEF TypeOK, Dial, Desk, World, Ways

LEMMA QueueLengths ==
    ASSUME TypeOK
    PROVE  /\ Len(ami) \in Nat /\ Len(events) \in Nat
           /\ ami \in Seq(Packet) /\ events \in Seq(ModemEvent)
BY LenProperties DEF TypeOK

LEMMA PktTypes == ASSUME NEW c \in Call PROVE
    \A n \in {"CallStarted", "CallAnswered", "CallEnded", "Newchannel", "Newstate",
              "Hangup", "MixMonitorStop"} : Pkt(n, c) \in Packet
BY DEF Pkt, Packet

\* What Emit does to the positions of the packets (n, c).
LEMMA EmitPositions ==
    ASSUME TypeOK, NEW packets \in Seq(Packet), ami' = ami \o packets,
           NEW n, NEW c
    PROVE  /\ \A i \in Sent(n, c) : i \in Sent(n, c)' /\ i \in Nat /\ i <= Len(ami)
           /\ \A i \in Sent(n, c)' :
                 \/ i \in Sent(n, c)
                 \/ /\ i \in Nat /\ i > Len(ami)
                    /\ \E k \in 1..Len(packets) : packets[k] = Pkt(n, c)
           /\ (\E k \in 1..Len(packets) : packets[k] = Pkt(n, c)) => Sent(n, c)' # {}
<1>1. Len(ami) \in Nat /\ Len(packets) \in Nat
  BY QueueLengths, LenProperties
<1>2. /\ Len(ami') = Len(ami) + Len(packets)
      /\ \A i \in 1..Len(ami) + Len(packets) :
            ami'[i] = IF i <= Len(ami) THEN ami[i] ELSE packets[i - Len(ami)]
  BY ConcatProperties, QueueLengths
<1>3. \A i \in Sent(n, c) : i \in Sent(n, c)' /\ i \in Nat /\ i <= Len(ami)
  <2>1. TAKE i \in Sent(n, c)
  <2>2. i \in 1..Len(ami) /\ ami[i] = Pkt(n, c)
    BY <2>1 DEF Sent
  <2>3. i \in 1..Len(ami) + Len(packets) /\ i <= Len(ami)
    BY <1>1, <2>2
  <2>4. QED
    BY <1>2, <2>2, <2>3 DEF Sent, Pkt
<1>4. ASSUME NEW i \in Sent(n, c)'
      PROVE  \/ i \in Sent(n, c)
             \/ /\ i \in Nat /\ i > Len(ami)
                /\ \E k \in 1..Len(packets) : packets[k] = Pkt(n, c)
  <2>1. i \in 1..Len(ami) + Len(packets) /\ ami'[i] = Pkt(n, c)
    BY <1>2 DEF Sent, Pkt
  <2>2. CASE i <= Len(ami)
    <3>1. ami'[i] = ami[i] /\ i \in 1..Len(ami)
      BY <1>1, <1>2, <2>1, <2>2
    <3>2. QED
      BY <2>1, <3>1 DEF Sent
  <2>3. CASE ~(i <= Len(ami))
    <3>1. i - Len(ami) \in 1..Len(packets) /\ packets[i - Len(ami)] = Pkt(n, c)
      BY <1>1, <1>2, <2>1, <2>3
    <3>2. i \in Nat /\ i > Len(ami)
      BY <1>1, <2>1, <2>3
    <3>3. QED
      BY <3>1, <3>2
  <2>4. QED
    BY <2>2, <2>3
<1>5. ASSUME NEW k \in 1..Len(packets), packets[k] = Pkt(n, c) PROVE Sent(n, c)' # {}
  <2>1. /\ Len(ami) + k \in 1..Len(ami) + Len(packets) /\ ~(Len(ami) + k <= Len(ami))
        /\ (Len(ami) + k) - Len(ami) = k
    BY <1>1
  <2>2. ami'[Len(ami) + k] = Pkt(n, c)
    BY <1>2, <1>5, <2>1
  <2>3. Len(ami) + k \in Sent(n, c)'
    BY <1>2, <2>1, <2>2 DEF Sent, Pkt
  <2>4. QED
    BY <2>3
<1>6. QED
  BY <1>3, <1>4, <1>5

LEMMA EmitOthers ==
    ASSUME TypeOK, NEW packets \in Seq(Packet), ami' = ami \o packets, NEW n, NEW c,
           ~\E k \in 1..Len(packets) : packets[k] = Pkt(n, c)
    PROVE  Sent(n, c)' = Sent(n, c)
<1>1. Sent(n, c)' \subseteq Sent(n, c)
  BY EmitPositions
<1>2. Sent(n, c) \subseteq Sent(n, c)'
  BY EmitPositions
<1>3. QED
  BY <1>1, <1>2

\* Taking the first packet off moves the others one place forward.
LEMMA TailPositions ==
    ASSUME TypeOK, ami # <<>>, ami' = Tail(ami), NEW n, NEW c
    PROVE  /\ Head(ami) \in Packet
           /\ \A i \in Sent(n, c)' : i \in Nat /\ i + 1 \in Sent(n, c)
           /\ \A i \in Sent(n, c) : i = 1 \/ i - 1 \in Sent(n, c)'
           /\ \A i \in Sent(n, c) : i \in Nat /\ i >= 1
           /\ Head(ami) = Pkt(n, c) => 1 \in Sent(n, c)
           /\ 1 \in Sent(n, c) => Head(ami) = Pkt(n, c)
<1>1. /\ Len(ami) \in Nat /\ Len(ami) # 0 /\ Head(ami) \in Packet /\ Head(ami) = ami[1]
      /\ Len(ami') = Len(ami) - 1 /\ \A i \in 1..Len(ami') : ami'[i] = ami[i + 1]
  BY QueueLengths, HeadTailProperties, EmptySeq
<1>2. ASSUME NEW i \in Sent(n, c)' PROVE i \in Nat /\ i + 1 \in Sent(n, c)
  <2>1. i \in 1..Len(ami') /\ ami'[i] = Pkt(n, c)
    BY DEF Sent, Pkt
  <2>2. i \in Nat /\ i + 1 \in 1..Len(ami) /\ ami[i + 1] = Pkt(n, c)
    BY <1>1, <2>1
  <2>3. QED
    BY <2>2 DEF Sent
<1>3. ASSUME NEW i \in Sent(n, c) PROVE i \in Nat /\ i >= 1 /\ (i = 1 \/ i - 1 \in Sent(n, c)')
  <2>1. i \in 1..Len(ami) /\ ami[i] = Pkt(n, c)
    BY DEF Sent
  <2>2. i # 1 => i - 1 \in 1..Len(ami') /\ ami'[i - 1] = ami[i]
    BY <1>1, <2>1
  <2>3. i # 1 => i - 1 \in Sent(n, c)'
    BY <2>1, <2>2 DEF Sent, Pkt
  <2>4. QED
    BY <1>1, <2>1, <2>3
<1>4. 1 \in Sent(n, c) <=> Head(ami) = Pkt(n, c)
  BY <1>1 DEF Sent
<1>5. QED
  BY <1>1, <1>2, <1>3, <1>4

LEMMA TailEvents ==
    ASSUME TypeOK, events # <<>>, events' = Tail(events), NEW k, NEW c
    PROVE  /\ Head(events) \in ModemEvent /\ events' \in Seq(ModemEvent)
           /\ \A i \in Due(k, c)' : i \in Nat /\ i + 1 \in Due(k, c)
           /\ \A i \in Due(k, c) : i = 1 \/ i - 1 \in Due(k, c)'
           /\ \A i \in Due(k, c) : i \in Nat /\ i >= 1
           /\ Head(events).kind = k /\ Head(events).id = c => 1 \in Due(k, c)
           /\ 1 \in Due(k, c) => Head(events).kind = k /\ Head(events).id = c
<1>1. /\ Len(events) \in Nat /\ Len(events) # 0 /\ Head(events) \in ModemEvent
      /\ Head(events) = events[1] /\ events' \in Seq(ModemEvent)
      /\ Len(events') = Len(events) - 1
      /\ \A i \in 1..Len(events') : events'[i] = events[i + 1]
  BY QueueLengths, HeadTailProperties, EmptySeq
<1>2. ASSUME NEW i \in Due(k, c)' PROVE i \in Nat /\ i + 1 \in Due(k, c)
  <2>1. i \in 1..Len(events') /\ events'[i].kind = k /\ events'[i].id = c
    BY DEF Due
  <2>2. i \in Nat /\ i + 1 \in 1..Len(events) /\ events[i + 1] = events'[i]
    BY <1>1, <2>1
  <2>3. QED
    BY <2>1, <2>2 DEF Due
<1>3. ASSUME NEW i \in Due(k, c) PROVE i \in Nat /\ i >= 1 /\ (i = 1 \/ i - 1 \in Due(k, c)')
  <2>1. i \in 1..Len(events) /\ events[i].kind = k /\ events[i].id = c
    BY DEF Due
  <2>2. i # 1 => i - 1 \in 1..Len(events') /\ events'[i - 1] = events[i]
    BY <1>1, <2>1
  <2>3. i # 1 => i - 1 \in Due(k, c)'
    BY <2>1, <2>2 DEF Due
  <2>4. QED
    BY <1>1, <2>1, <2>3
<1>4. 1 \in Due(k, c) <=> Head(events).kind = k /\ Head(events).id = c
  BY <1>1 DEF Due
<1>5. QED
  BY <1>1, <1>2, <1>3, <1>4

LEMMA AppendEvents ==
    ASSUME TypeOK, NEW ev \in ModemEvent, events' = Append(events, ev), NEW k, NEW c
    PROVE  /\ \A i \in Due(k, c) : i \in Due(k, c)' /\ i \in Nat /\ i <= Len(events)
           /\ \A i \in Due(k, c)' : \/ i \in Due(k, c)
                                    \/ i = Len(events) + 1 /\ ev.kind = k /\ ev.id = c
           /\ ev.kind = k /\ ev.id = c => Len(events) + 1 \in Due(k, c)'
           /\ Len(events) \in Nat
<1>1. /\ Len(events) \in Nat /\ Len(events') = Len(events) + 1
      /\ \A i \in 1..Len(events) : events'[i] = events[i]
      /\ events'[Len(events) + 1] = ev
  BY QueueLengths, AppendProperties
<1>2. \A i : i \in 1..Len(events') <=> i \in 1..Len(events) \/ i = Len(events) + 1
  BY <1>1
<1>3. ASSUME NEW i \in Due(k, c) PROVE i \in Due(k, c)' /\ i \in Nat /\ i <= Len(events)
  <2>1. i \in 1..Len(events) /\ events[i].kind = k /\ events[i].id = c
    BY DEF Due
  <2>2. i \in 1..Len(events') /\ events'[i] = events[i]
    BY <1>1, <1>2, <2>1
  <2>3. QED
    BY <1>1, <2>1, <2>2 DEF Due
<1>4. ASSUME NEW i \in Due(k, c)'
      PROVE  i \in Due(k, c) \/ (i = Len(events) + 1 /\ ev.kind = k /\ ev.id = c)
  <2>1. i \in 1..Len(events') /\ events'[i].kind = k /\ events'[i].id = c
    BY DEF Due
  <2>2. QED
    BY <1>1, <1>2, <2>1 DEF Due
<1>5. ev.kind = k /\ ev.id = c => Len(events) + 1 \in Due(k, c)'
  BY <1>1, <1>2 DEF Due
<1>6. QED
  BY <1>1, <1>3, <1>4, <1>5

-----------------------------------------------------------------------------
(* The dialplan. *)

\* A step of the dialplan of one call: it emits packets of its call only, the
\* first one first, the answer before the end, and the end when it is over.
LEMMA DialplanStep ==
    ASSUME IInv, NEW c \in Call, NEW stage \in {"started", "up", "finished", "gone"},
           NEW packets \in Seq(Packet), ami' = ami \o packets,
           leg' = [leg EXCEPT ![c] = stage], UNCHANGED gatewayVars,
           file' \in [Call -> Audio],
           \A k \in 1..Len(packets) : packets[k].call = c,
           leg[c] = "none" => \E k \in 1..Len(packets) : packets[k] = Pkt("CallStarted", c),
           leg[c] \in {"finished", "gone"} => stage = "gone",
           (\E k \in 1..Len(packets) : packets[k] = Pkt("CallAnswered", c))
              => leg[c] = "started" /\ stage = "up",
           (\E k \in 1..Len(packets) : packets[k] = Pkt("CallEnded", c))
              => leg[c] # "none" /\ stage = "finished"
    PROVE  IInv'
<1>1. TypeOK /\ leg \in [Call -> {"none", "started", "up", "finished", "gone"}]
  BY DEF IInv, TypeOK
<1>2. /\ leg'[c] = stage /\ \A d \in Call : d # c => leg'[d] = leg[d]
      /\ UNCHANGED <<pathOf, events, mapped, row, task, lost>>
  BY <1>1 DEF gatewayVars
<1>3. TypeOK'
  <2>1. ami' \in Seq(Packet)
    BY <1>1, QueueLengths, ConcatProperties
  <2>2. QED
    BY <1>1, <1>2, <2>1 DEF TypeOK
<1>4. \A k, d : Due(k, d)' = Due(k, d)
  BY <1>2 DEF Due
<1>5. \A d \in Call : Ended(d)' = Ended(d) /\ Begun(d)' = Begun(d)
  BY <1>2 DEF Ended, Begun
<1>6. ASSUME NEW d \in Call, d # c, NEW n PROVE Sent(n, d)' = Sent(n, d)
  <2>1. ~\E k \in 1..Len(packets) : packets[k] = Pkt(n, d)
    BY <1>6 DEF Pkt
  <2>2. QED
    BY <1>1, <2>1, EmitOthers
<1>7. OrderInv'
  <2>1. ASSUME NEW d \in Call
        PROVE  /\ Sent("CallEnded", d)' # {} \/ Due("CallEnded", d)' # {} \/ Ended(d)' =>
                     leg'[d] \in {"finished", "gone"}
               /\ \A i \in Sent("CallEnded", d)', j \in Sent("CallAnswered", d)' : j < i
               /\ \A i \in Due("CallEnded", d)', j \in Due("CallAnswered", d)' : j < i
               /\ Due("CallEnded", d)' # {} \/ Ended(d)' => Sent("CallAnswered", d)' = {}
               /\ Ended(d)' => Due("CallAnswered", d)' = {}
    <3>1. CASE d # c
      BY <1>2, <1>4, <1>5, <1>6, <3>1 DEF IInv, OrderInv
    <3>2. CASE d = c /\ leg[c] \in {"finished", "gone"}
      <4>1. Sent("CallAnswered", c)' = Sent("CallAnswered", c)
        <5>1. ~\E k \in 1..Len(packets) : packets[k] = Pkt("CallAnswered", c)
          BY <3>2
        <5>2. QED
          BY <1>1, <5>1, EmitOthers
      <4>2. Sent("CallEnded", c)' = Sent("CallEnded", c)
        <5>1. ~\E k \in 1..Len(packets) : packets[k] = Pkt("CallEnded", c)
          BY <3>2
        <5>2. QED
          BY <1>1, <5>1, EmitOthers
      <4>3. QED
        BY <1>2, <1>4, <1>5, <3>2, <4>1, <4>2 DEF IInv, OrderInv
    <3>3. CASE d = c /\ leg[c] \notin {"finished", "gone"}
      <4>1. Sent("CallEnded", c) = {} /\ Due("CallEnded", c) = {} /\ ~Ended(c)
        BY <3>3 DEF IInv, OrderInv
      <4>2. Sent("CallEnded", c)' # {} => stage = "finished"
        <5>1. (~\E k \in 1..Len(packets) : packets[k] = Pkt("CallEnded", c)) =>
                 Sent("CallEnded", c)' = Sent("CallEnded", c)
          BY <1>1, EmitOthers
        <5>2. QED
          BY <4>1, <5>1
      <4>3. Sent("CallEnded", c)' # {} => Sent("CallAnswered", c)' = Sent("CallAnswered", c)
        <5>1. stage = "finished" => ~\E k \in 1..Len(packets) : packets[k] = Pkt("CallAnswered", c)
          OBVIOUS
        <5>2. stage = "finished" => Sent("CallAnswered", c)' = Sent("CallAnswered", c)
          BY <1>1, <5>1, EmitOthers
        <5>3. QED
          BY <4>2, <5>2
      <4>4. ASSUME NEW i \in Sent("CallEnded", c)', NEW j \in Sent("CallAnswered", c)'
            PROVE  j < i
        <5>1. j \in Sent("CallAnswered", c)
          BY <4>3
        <5>2. i \in Nat /\ i > Len(ami)
          BY <1>1, <4>1, EmitPositions
        <5>3. j \in Nat /\ j <= Len(ami)
          BY <1>1, <5>1, EmitPositions
        <5>4. Len(ami) \in Nat
          BY <1>1, QueueLengths
        <5>5. QED
          BY <5>2, <5>3, <5>4
      <4>5. QED
        BY <1>2, <1>4, <1>5, <3>3, <4>1, <4>2, <4>4
    <3>4. QED
      BY <3>1, <3>2, <3>3
  <2>2. QED
    BY <2>1 DEF OrderInv
<1>8. StartInv'
  <2>1. ASSUME ~lost, NEW d \in Call
        PROVE  /\ leg'[d] # "none" =>
                     \/ Begun(d)' \/ Due("CallRinging", d)' # {}
                     \/ Sent("CallStarted", d)' # {}
               /\ \A i \in Sent("CallEnded", d)' :
                     \/ Begun(d)' \/ Due("CallRinging", d)' # {}
                     \/ \E j \in Sent("CallStarted", d)' : j < i
               /\ \A i \in Due("CallEnded", d)' :
                     Begun(d)' \/ \E j \in Due("CallRinging", d)' : j < i
    <3>1. CASE d # c
      BY <1>2, <1>4, <1>5, <1>6, <2>1, <3>1 DEF IInv, StartInv
    <3>2. CASE d = c
      <4>1. Sent("CallStarted", c) # {} => Sent("CallStarted", c)' # {}
        BY <1>1, EmitPositions
      <4>2. \/ Begun(c) \/ Due("CallRinging", c) # {} \/ Sent("CallStarted", c)' # {}
        <5>1. CASE leg[c] = "none"
          <6>1. \E k \in 1..Len(packets) : packets[k] = Pkt("CallStarted", c)
            BY <5>1
          <6>2. QED
            BY <1>1, <6>1, EmitPositions
        <5>2. CASE leg[c] # "none"
          BY <2>1, <4>1, <5>2 DEF IInv, StartInv
        <5>3. QED
          BY <5>1, <5>2
      <4>3. ASSUME NEW i \in Sent("CallEnded", c)', ~Begun(c), Due("CallRinging", c) = {}
            PROVE  \E j \in Sent("CallStarted", c)' : j < i
        <5>1. CASE i \in Sent("CallEnded", c)
          <6>1. PICK j \in Sent("CallStarted", c) : j < i
            BY <2>1, <4>3, <5>1 DEF IInv, StartInv
          <6>2. j \in Sent("CallStarted", c)'
            BY <1>1, <6>1, EmitPositions
          <6>3. QED
            BY <6>1, <6>2
        <5>2. CASE i \notin Sent("CallEnded", c)
          <6>1. i \in Nat /\ i > Len(ami) /\ leg[c] # "none"
            <7>1. /\ i \in Nat /\ i > Len(ami)
                  /\ \E k \in 1..Len(packets) : packets[k] = Pkt("CallEnded", c)
              BY <1>1, <5>2, EmitPositions
            <7>2. QED
              BY <7>1
          <6>2. PICK j \in Sent("CallStarted", c) : TRUE
            BY <2>1, <4>3, <6>1 DEF IInv, StartInv
          <6>3. j \in Sent("CallStarted", c)' /\ j \in Nat /\ j <= Len(ami)
            BY <1>1, <6>2, EmitPositions
          <6>4. Len(ami) \in Nat
            BY <1>1, QueueLengths
          <6>5. QED
            BY <6>1, <6>3, <6>4
        <5>3. QED
          BY <5>1, <5>2
      <4>4. QED
        BY <1>4, <1>5, <2>1, <3>2, <4>2, <4>3 DEF IInv, StartInv
    <3>3. QED
      BY <3>1, <3>2
  <2>2. QED
    BY <1>2, <2>1 DEF StartInv
<1>9. PathInv' /\ RecordedWhenEnded'
  BY <1>2, <1>4, <1>5 DEF IInv, PathInv, RecordedWhenEnded
<1>10. QED
  BY <1>3, <1>7, <1>8, <1>9 DEF IInv
LEMMA CallStep ==
    ASSUME IInv, NEW c \in Call,
           StartCall(c) \/ AnswerCall(c) \/ FinishCall(c) \/ HangUp(c)
    PROVE  IInv'
<1>1. file \in [Call -> Audio] /\ leg[c] \in {"none", "started", "up", "finished", "gone"}
  BY DEF IInv, TypeOK
<1>2. \A n \in {"CallStarted", "CallAnswered", "CallEnded", "Newchannel", "Newstate",
                "Hangup", "MixMonitorStop"} : Pkt(n, c) \in Packet /\ Pkt(n, c).call = c
  BY PktTypes DEF Pkt
<1>3. \A n, m : Pkt(n, c) = Pkt(m, c) => n = m
  <2>1. \A n : Pkt(n, c).name = n
    BY DEF Pkt
  <2>2. QED
    BY <2>1
<1>4. CASE StartCall(c)
  <2>1. /\ leg' = [leg EXCEPT ![c] = "started"] /\ leg[c] = "none"
        /\ file' \in [Call -> Audio] /\ UNCHANGED gatewayVars
    BY <1>1, <1>4 DEF StartCall
  <2>2. CASE Emit(<<Pkt("CallStarted", c)>>)
    <3> DEFINE packets == <<Pkt("CallStarted", c)>>
    <3>1. /\ packets \in Seq(Packet) /\ Len(packets) = 1
          /\ packets[1] = Pkt("CallStarted", c) /\ ami' = ami \o packets
      BY <1>2, <2>2 DEF Emit
    <3> HIDE DEF packets
    <3>2. 1 \in 1..Len(packets) /\ \A k \in 1..Len(packets) : k = 1
      BY <3>1
    <3>3. \A k \in 1..Len(packets) : /\ packets[k].call = c
                                     /\ packets[k] # Pkt("CallAnswered", c)
                                     /\ packets[k] # Pkt("CallEnded", c)
      BY <1>2, <1>3, <3>1, <3>2
    <3>4. QED
      BY <2>1, <3>1, <3>2, <3>3, DialplanStep
  <2>3. CASE Emit(<<Pkt("Newchannel", c), Pkt("CallStarted", c)>>)
    <3> DEFINE packets == <<Pkt("Newchannel", c), Pkt("CallStarted", c)>>
    <3>1. /\ packets \in Seq(Packet) /\ Len(packets) = 2
          /\ packets[1] = Pkt("Newchannel", c) /\ packets[2] = Pkt("CallStarted", c)
          /\ ami' = ami \o packets
      BY <1>2, <2>3 DEF Emit
    <3> HIDE DEF packets
    <3>2. 2 \in 1..Len(packets) /\ \A k \in 1..Len(packets) : k = 1 \/ k = 2
      BY <3>1
    <3>3. \A k \in 1..Len(packets) : /\ packets[k].call = c
                                     /\ packets[k] # Pkt("CallAnswered", c)
                                     /\ packets[k] # Pkt("CallEnded", c)
      BY <1>2, <1>3, <3>1, <3>2
    <3>4. QED
      BY <2>1, <3>1, <3>2, <3>3, DialplanStep
  <2>4. QED
    BY <1>4, <2>2, <2>3 DEF StartCall
<1>5. CASE AnswerCall(c)
  <2>1. /\ leg' = [leg EXCEPT ![c] = "up"] /\ leg[c] = "started"
        /\ file' \in [Call -> Audio] /\ UNCHANGED gatewayVars
    BY <1>1, <1>5 DEF AnswerCall, Audio
  <2>2. CASE Emit(<<Pkt("Newstate", c), Pkt("CallAnswered", c)>>)
    <3> DEFINE packets == <<Pkt("Newstate", c), Pkt("CallAnswered", c)>>
    <3>1. /\ packets \in Seq(Packet) /\ Len(packets) = 2 /\ packets[1] = Pkt("Newstate", c)
          /\ packets[2] = Pkt("CallAnswered", c) /\ ami' = ami \o packets
      BY <1>2, <2>2 DEF Emit
    <3> HIDE DEF packets
    <3>2. \A k \in 1..Len(packets) : k = 1 \/ k = 2
      BY <3>1
    <3>3. QED
      BY <1>1, <1>2, <1>3, <2>1, <3>1, <3>2, DialplanStep
  <2>3. CASE Emit(<<Pkt("Newstate", c)>>)
    <3> DEFINE packets == <<Pkt("Newstate", c)>>
    <3>1. /\ packets \in Seq(Packet) /\ Len(packets) = 1 /\ packets[1] = Pkt("Newstate", c)
          /\ ami' = ami \o packets
      BY <1>2, <2>3 DEF Emit
    <3> HIDE DEF packets
    <3>2. \A k \in 1..Len(packets) : k = 1
      BY <3>1
    <3>3. QED
      BY <1>1, <1>2, <1>3, <2>1, <3>1, <3>2, DialplanStep
  <2>4. QED
    BY <1>5, <2>2, <2>3 DEF AnswerCall
<1>6. CASE FinishCall(c)
  <2> DEFINE packets == <<Pkt("CallEnded", c)>>
  <2>1. packets \in Seq(Packet) /\ Len(packets) = 1 /\ packets[1] = Pkt("CallEnded", c)
    BY <1>2
  <2>2. /\ ami' = ami \o packets /\ leg' = [leg EXCEPT ![c] = "finished"]
        /\ leg[c] \in {"started", "up"} /\ file' \in [Call -> Audio] /\ UNCHANGED gatewayVars
    BY <1>1, <1>6 DEF FinishCall, Emit, Audio
  <2> HIDE DEF packets
  <2>3. \A k \in 1..Len(packets) : k = 1
    BY <2>1
  <2>4. QED
    BY <1>1, <1>2, <1>3, <2>1, <2>2, <2>3, DialplanStep
<1>7. CASE HangUp(c)
  <2>1. /\ leg' = [leg EXCEPT ![c] = "gone"] /\ leg[c] # "none"
        /\ file' \in [Call -> Audio] /\ UNCHANGED gatewayVars
    BY <1>1, <1>7 DEF HangUp
  <2>2. CASE Emit(<<Pkt("MixMonitorStop", c), Pkt("Hangup", c)>>)
    <3> DEFINE packets == <<Pkt("MixMonitorStop", c), Pkt("Hangup", c)>>
    <3>1. /\ packets \in Seq(Packet) /\ Len(packets) = 2
          /\ packets[1] = Pkt("MixMonitorStop", c)
          /\ packets[2] = Pkt("Hangup", c) /\ ami' = ami \o packets
      BY <1>2, <2>2 DEF Emit
    <3> HIDE DEF packets
    <3>2. \A k \in 1..Len(packets) : k = 1 \/ k = 2
      BY <3>1
    <3>3. \A k \in 1..Len(packets) : /\ packets[k].call = c
                                     /\ packets[k] # Pkt("CallAnswered", c)
                                     /\ packets[k] # Pkt("CallEnded", c)
      BY <1>2, <1>3, <3>1, <3>2
    <3>4. QED
      BY <1>1, <2>1, <3>1, <3>3, DialplanStep
  <2>3. CASE Emit(<<Pkt("Hangup", c)>>)
    <3> DEFINE packets == <<Pkt("Hangup", c)>>
    <3>1. /\ packets \in Seq(Packet) /\ Len(packets) = 1 /\ packets[1] = Pkt("Hangup", c)
          /\ ami' = ami \o packets
      BY <1>2, <2>3 DEF Emit
    <3> HIDE DEF packets
    <3>2. \A k \in 1..Len(packets) : k = 1
      BY <3>1
    <3>3. QED
      BY <1>1, <1>2, <1>3, <2>1, <3>1, <3>2, DialplanStep
  <2>4. QED
    BY <1>7, <2>2, <2>3 DEF HangUp
<1>8. QED
  BY <1>4, <1>5, <1>6, <1>7

\* What the parts below the types depend on.
LEMMA PartsKept ==
    ASSUME IInv, UNCHANGED <<leg, ami, pathOf, events, row, task, lost>>
    PROVE  OrderInv' /\ StartInv' /\ PathInv' /\ RecordedWhenEnded'
BY DEF IInv, OrderInv, StartInv, PathInv, RecordedWhenEnded, Sent, Due, Ended, Begun, Pkt

LEMMA OtherStep ==
    ASSUME IInv, (\E c \in Call : WriteAudio(c)) \/ Rescan
    PROVE  IInv'
<1>1. TypeOK'
  BY DEF IInv, TypeOK, WriteAudio, Rescan, gatewayVars, Audio
<1>2. UNCHANGED <<leg, ami, pathOf, events, row, task, lost>>
  BY DEF WriteAudio, Rescan, gatewayVars
<1>3. QED
  BY <1>1, <1>2, PartsKept DEF IInv

-----------------------------------------------------------------------------
(* The pump. *)

\* Only the UserEvents name the call in the event; a recording event does when
\* the path is remembered.
LEMMA TranslateFacts ==
    ASSUME NEW p \in Packet, pathOf \subseteq Call
    PROVE  /\ Translate(p) \in ModemEvent
           /\ \A c \in Call :
                 /\ Translate(p).kind = "CallRinging" /\ Translate(p).id = c <=>
                       p = Pkt("CallStarted", c)
                 /\ Translate(p).kind = "CallAnswered" /\ Translate(p).id = c <=>
                       p = Pkt("CallAnswered", c)
                 /\ Translate(p).kind = "CallEnded" /\ Translate(p).id = c <=>
                       p = Pkt("CallEnded", c)
                 /\ Translate(p).kind = "RecordingDone" /\ Translate(p).id = c =>
                       c \in pathOf
           /\ Remember(p) \subseteq Call
           /\ \A c \in Call : c \in Remember(p) => c \in pathOf \/ p = Pkt("CallEnded", c)
<1>1. /\ p = Pkt(p.name, p.call) /\ p.call \in Call /\ p.call \in Key
      /\ ChannelOf(p.call) \in Key /\ ChannelOf(p.call) \notin Call /\ NoRow \notin Call
  BY CallAssumption DEF Packet, Pkt, Key, Channel
<1>2. CASE p.name = "CallStarted"
  <2>1. Translate(p) = Ev("CallRinging", p.call, NoRow) /\ Remember(p) = pathOf
    BY <1>2 DEF Translate, Remember
  <2>2. QED
    BY <1>1, <1>2, <2>1 DEF Ev, Pkt, ModemEvent, Id
<1>3. CASE p.name = "CallAnswered"
  <2>1. Translate(p) = Ev("CallAnswered", p.call, NoRow) /\ Remember(p) = pathOf
    BY <1>3 DEF Translate, Remember
  <2>2. QED
    BY <1>1, <1>3, <2>1 DEF Ev, Pkt, ModemEvent, Id
<1>4. CASE p.name = "CallEnded"
  <2>1. Translate(p) = Ev("CallEnded", p.call, p.call)
        /\ Remember(p) = pathOf \cup {p.call}
    BY <1>4 DEF Translate, Remember
  <2>2. QED
    BY <1>1, <1>4, <2>1 DEF Ev, Pkt, ModemEvent, Id
<1>5. CASE p.name = "Newstate"
  <2>1. Translate(p) = Ev("CallAnswered", ChannelOf(p.call), NoRow) /\ Remember(p) = pathOf
    BY <1>5 DEF Translate, Remember
  <2>2. QED
    BY <1>1, <1>5, <2>1 DEF Ev, Pkt, ModemEvent, Id
<1>6. CASE p.name = "Hangup"
  <2>1. Translate(p) = Ev("CallEnded", ChannelOf(p.call), NoRow) /\ Remember(p) = pathOf
    BY <1>6 DEF Translate, Remember
  <2>2. QED
    BY <1>1, <1>6, <2>1 DEF Ev, Pkt, ModemEvent, Id
<1>8. CASE p.name = "Newchannel"
  <2>1. Translate(p) = Ev("CallRinging", ChannelOf(p.call), NoRow) /\ Remember(p) = pathOf
    BY <1>8 DEF Translate, Remember
  <2>2. QED
    BY <1>1, <1>8, <2>1 DEF Ev, Pkt, ModemEvent, Id
<1>7. CASE p.name = "MixMonitorStop"
  <2>1. /\ Translate(p) =
              Ev("RecordingDone", IF p.call \in pathOf THEN p.call ELSE NoRow, p.call)
        /\ Remember(p) = pathOf \ {p.call}
    BY <1>7 DEF Translate, Remember
  <2>2. QED
    BY <1>1, <1>7, <2>1 DEF Ev, Pkt, ModemEvent, Id
<1>9. QED
  BY <1>2, <1>3, <1>4, <1>5, <1>6, <1>7, <1>8 DEF Packet

\* A packet becomes the last event: what was before it in the first queue is
\* before it in the second.
LEMMA PumpStep == ASSUME IInv, Pump PROVE IInv'
<1> DEFINE p == Head(ami)
           ev == Translate(p)
           last == Len(events) + 1
<1>1. /\ ami # <<>> /\ ami' = Tail(ami) /\ pathOf' = Remember(p)
      /\ events' = Append(events, ev)
      /\ UNCHANGED <<leg, file, mapped, row, task, lost>>
  BY DEF Pump
<1>2. TypeOK /\ pathOf \subseteq Call
  BY DEF IInv, TypeOK
<1>3. p \in Packet
  BY <1>1, <1>2, QueueLengths, HeadTailProperties
<1>4. /\ ev \in ModemEvent /\ Remember(p) \subseteq Call
      /\ \A c \in Call :
            /\ ev.kind = "CallRinging" /\ ev.id = c <=> p = Pkt("CallStarted", c)
            /\ ev.kind = "CallAnswered" /\ ev.id = c <=> p = Pkt("CallAnswered", c)
            /\ ev.kind = "CallEnded" /\ ev.id = c <=> p = Pkt("CallEnded", c)
            /\ ev.kind = "RecordingDone" /\ ev.id = c => c \in pathOf
            /\ c \in Remember(p) => c \in pathOf \/ p = Pkt("CallEnded", c)
  BY <1>2, <1>3, TranslateFacts
<1>5. TypeOK'
  <2>1. ami' \in Seq(Packet) /\ events' \in Seq(ModemEvent)
    BY <1>1, <1>2, <1>4, QueueLengths, HeadTailProperties, AppendProperties
  <2>2. QED
    BY <1>1, <1>4, <2>1 DEF IInv, TypeOK
<1> HIDE DEF ev, p
<1>6. \A n, c : /\ \A i \in Sent(n, c)' : i \in Nat /\ i + 1 \in Sent(n, c)
                /\ \A i \in Sent(n, c) : i = 1 \/ i - 1 \in Sent(n, c)'
                /\ \A i \in Sent(n, c) : i \in Nat /\ i >= 1
                /\ p = Pkt(n, c) <=> 1 \in Sent(n, c)
  BY <1>1, <1>2, TailPositions DEF p
<1>7. \A k, c : /\ \A i \in Due(k, c) : i \in Due(k, c)' /\ i \in Nat /\ i < last
                /\ \A i \in Due(k, c)' : \/ i \in Due(k, c)
                                         \/ i = last /\ ev.kind = k /\ ev.id = c
                /\ ev.kind = k /\ ev.id = c => last \in Due(k, c)'
  BY <1>1, <1>2, <1>4, AppendEvents
<1>8. last \in Nat
  BY <1>2, QueueLengths
<1> HIDE DEF last
<1>9. \A c : Ended(c)' = Ended(c) /\ Begun(c)' = Begun(c)
  BY <1>1 DEF Ended, Begun
<1>10. ASSUME NEW c \in Call
       PROVE  /\ Sent("CallEnded", c)' # {} \/ Due("CallEnded", c)' # {} \/ Ended(c)' =>
                    leg'[c] \in {"finished", "gone"}
              /\ \A i \in Sent("CallEnded", c)', j \in Sent("CallAnswered", c)' : j < i
              /\ \A i \in Due("CallEnded", c)', j \in Due("CallAnswered", c)' : j < i
              /\ Due("CallEnded", c)' # {} \/ Ended(c)' => Sent("CallAnswered", c)' = {}
              /\ Ended(c)' => Due("CallAnswered", c)' = {}
  <2>1. Due("CallEnded", c)' # {} => Due("CallEnded", c) # {} \/ 1 \in Sent("CallEnded", c)
    BY <1>4, <1>6, <1>7
  <2>2. Sent("CallEnded", c)' # {} => Sent("CallEnded", c) # {}
    BY <1>6
  <2>3. Sent("CallEnded", c)' # {} \/ Due("CallEnded", c)' # {} \/ Ended(c)' =>
            leg'[c] \in {"finished", "gone"}
    BY <1>1, <1>9, <2>1, <2>2 DEF IInv, OrderInv
  <2>4. ASSUME NEW i \in Sent("CallEnded", c)', NEW j \in Sent("CallAnswered", c)'
        PROVE  j < i
    <3>1. i + 1 \in Sent("CallEnded", c) /\ j + 1 \in Sent("CallAnswered", c)
          /\ i \in Nat /\ j \in Nat
      BY <1>6
    <3>2. j + 1 < i + 1
      BY <3>1 DEF IInv, OrderInv
    <3>3. QED
      BY <3>1, <3>2
  <2>5. ASSUME NEW i \in Due("CallEnded", c)', NEW j \in Due("CallAnswered", c)'
        PROVE  j < i
    <3>1. CASE i \in Due("CallEnded", c) /\ j \in Due("CallAnswered", c)
      BY <3>1 DEF IInv, OrderInv
    <3>2. CASE i \notin Due("CallEnded", c)
      <4>1. i = last /\ ev.kind = "CallEnded"
        BY <1>7, <3>2
      <4>2. j \in Due("CallAnswered", c)
        BY <1>7, <4>1
      <4>3. QED
        BY <1>7, <4>1, <4>2
    <3>3. CASE i \in Due("CallEnded", c) /\ j \notin Due("CallAnswered", c)
      <4>1. 1 \in Sent("CallAnswered", c)
        BY <1>4, <1>6, <1>7, <3>3
      <4>2. QED
        BY <3>3, <4>1 DEF IInv, OrderInv
    <3>4. QED
      BY <3>1, <3>2, <3>3
  <2>6. ASSUME Due("CallEnded", c)' # {} \/ Ended(c)', NEW j \in Sent("CallAnswered", c)'
        PROVE  FALSE
    <3>1. j \in Nat /\ j + 1 \in Sent("CallAnswered", c)
      BY <1>6
    <3>2. 1 \in Sent("CallEnded", c)
      BY <1>9, <2>1, <2>6, <3>1 DEF IInv, OrderInv
    <3>3. j + 1 < 1
      BY <3>1, <3>2 DEF IInv, OrderInv
    <3>4. QED
      BY <3>1, <3>3
  <2>7. ASSUME Ended(c)', NEW j \in Due("CallAnswered", c)' PROVE FALSE
    <3>1. 1 \in Sent("CallAnswered", c)
      BY <1>4, <1>6, <1>7, <1>9, <2>7 DEF IInv, OrderInv
    <3>2. QED
      BY <1>9, <2>7, <3>1 DEF IInv, OrderInv
  <2>8. QED
    BY <2>3, <2>4, <2>5, <2>6, <2>7
<1>11. ASSUME ~lost, NEW c \in Call
       PROVE  /\ leg'[c] # "none" =>
                    \/ Begun(c)' \/ Due("CallRinging", c)' # {}
                    \/ Sent("CallStarted", c)' # {}
              /\ \A i \in Sent("CallEnded", c)' :
                    \/ Begun(c)' \/ Due("CallRinging", c)' # {}
                    \/ \E j \in Sent("CallStarted", c)' : j < i
              /\ \A i \in Due("CallEnded", c)' :
                    Begun(c)' \/ \E j \in Due("CallRinging", c)' : j < i
  <2>1. Due("CallRinging", c) # {} \/ 1 \in Sent("CallStarted", c) =>
           Due("CallRinging", c)' # {}
    BY <1>4, <1>6, <1>7
  <2>2. leg'[c] # "none" => \/ Begun(c)' \/ Due("CallRinging", c)' # {}
                            \/ Sent("CallStarted", c)' # {}
    BY <1>1, <1>6, <1>9, <1>11, <2>1 DEF IInv, StartInv
  <2>3. ASSUME NEW i \in Sent("CallEnded", c)', ~Begun(c), Due("CallRinging", c)' = {}
        PROVE  \E j \in Sent("CallStarted", c)' : j < i
    <3>1. i \in Nat /\ i + 1 \in Sent("CallEnded", c)
      BY <1>6
    <3>2. PICK j \in Sent("CallStarted", c) : j < i + 1
      BY <1>11, <2>1, <2>3, <3>1 DEF IInv, StartInv
    <3>3. j \in Nat /\ j - 1 \in Sent("CallStarted", c)'
      BY <1>6, <2>1, <2>3
    <3>4. j - 1 < i
      BY <3>1, <3>2, <3>3
    <3>5. QED
      BY <3>3, <3>4
  <2>4. ASSUME NEW i \in Due("CallEnded", c)', ~Begun(c)
        PROVE  \E j \in Due("CallRinging", c)' : j < i
    <3>1. CASE i \in Due("CallEnded", c)
      <4>1. PICK j \in Due("CallRinging", c) : j < i
        BY <1>11, <2>4, <3>1 DEF IInv, StartInv
      <4>2. j \in Due("CallRinging", c)'
        BY <1>7
      <4>3. QED
        BY <4>1, <4>2
    <3>2. CASE i \notin Due("CallEnded", c)
      <4>1. i = last /\ 1 \in Sent("CallEnded", c)
        BY <1>4, <1>6, <1>7, <3>2
      <4>2. ASSUME NEW j \in Sent("CallStarted", c) PROVE ~(j < 1)
        BY <1>6
      <4>3. PICK j \in Due("CallRinging", c) : TRUE
        BY <1>11, <2>4, <4>1, <4>2 DEF IInv, StartInv
      <4>4. j \in Due("CallRinging", c)' /\ j < last
        BY <1>7, <4>3
      <4>5. QED
        BY <4>1, <4>4
    <3>3. QED
      BY <3>1, <3>2
  <2>5. QED
    BY <1>9, <2>2, <2>3, <2>4
<1>12. ASSUME ~lost, NEW c \in Call
       PROVE  /\ c \in pathOf' => Ended(c)' \/ Due("CallEnded", c)' # {}
              /\ \A i \in Due("RecordingDone", c)' :
                    Ended(c)' \/ \E j \in Due("CallEnded", c)' : j < i
  <2>1. ASSUME c \in pathOf' PROVE Ended(c) \/ Due("CallEnded", c)' # {}
    <3>1. CASE c \in pathOf
      BY <1>7, <1>12, <3>1 DEF IInv, PathInv
    <3>2. CASE p = Pkt("CallEnded", c)
      BY <1>4, <1>7, <3>2
    <3>3. QED
      BY <1>1, <1>4, <2>1, <3>1, <3>2
  <2>2. ASSUME NEW i \in Due("RecordingDone", c)', ~Ended(c)
        PROVE  \E j \in Due("CallEnded", c)' : j < i
    <3>1. CASE i \in Due("RecordingDone", c)
      <4>1. PICK j \in Due("CallEnded", c) : j < i
        BY <1>12, <2>2, <3>1 DEF IInv, PathInv
      <4>2. QED
        BY <1>7, <4>1
    <3>2. CASE i \notin Due("RecordingDone", c)
      <4>1. i = last /\ c \in pathOf
        BY <1>4, <1>7, <3>2
      <4>2. PICK j \in Due("CallEnded", c) : TRUE
        BY <1>12, <2>2, <4>1 DEF IInv, PathInv
      <4>3. QED
        BY <1>7, <4>1, <4>2
    <3>3. QED
      BY <3>1, <3>2
  <2>3. QED
    BY <1>9, <2>1, <2>2
<1>13. OrderInv'
  BY <1>10 DEF OrderInv
<1>14. StartInv'
  BY <1>1, <1>11 DEF StartInv
<1>15. PathInv'
  BY <1>1, <1>9, <1>12 DEF IInv, PathInv
<1>16. RecordedWhenEnded'
  BY <1>1 DEF IInv, RecordedWhenEnded
<1>17. QED
  BY <1>5, <1>13, <1>14, <1>15, <1>16 DEF IInv

\* A packet is lost: the order of the others is as it was.
LEMMA LosePacketStep == ASSUME IInv, LosePacket PROVE IInv'
<1>1. /\ ami # <<>> /\ ami' = Tail(ami) /\ lost' = TRUE
      /\ UNCHANGED <<leg, file, pathOf, events, mapped, row, task>>
  BY DEF LosePacket
<1>2. TypeOK
  BY DEF IInv
<1>3. TypeOK'
  BY <1>1, <1>2, QueueLengths, HeadTailProperties DEF TypeOK
<1>4. \A n, c : \A i \in Sent(n, c)' : i \in Nat /\ i + 1 \in Sent(n, c)
  BY <1>1, <1>2, TailPositions
<1>5. \A k, c : Due(k, c)' = Due(k, c) /\ Ended(c)' = Ended(c)
  BY <1>1 DEF Due, Ended
<1>6. OrderInv'
  <2>1. ASSUME NEW c \in Call, NEW i \in Sent("CallEnded", c)',
               NEW j \in Sent("CallAnswered", c)'
        PROVE  j < i
    <3>1. /\ i + 1 \in Sent("CallEnded", c) /\ j + 1 \in Sent("CallAnswered", c)
          /\ i \in Nat /\ j \in Nat
      BY <1>4
    <3>2. j + 1 < i + 1
      BY <3>1 DEF IInv, OrderInv
    <3>3. QED
      BY <3>1, <3>2
  <2>2. \A n, c : Sent(n, c)' # {} => Sent(n, c) # {}
    BY <1>4
  <2>3. QED
    BY <1>1, <1>5, <2>1, <2>2 DEF IInv, OrderInv
<1>7. StartInv' /\ PathInv' /\ RecordedWhenEnded'
  BY <1>1 DEF StartInv, PathInv, RecordedWhenEnded
<1>8. QED
  BY <1>3, <1>6, <1>7 DEF IInv
-----------------------------------------------------------------------------
(* The consumer. *)

\* What one event does to the rows: it changes statuses only, of its own call.
LEMMA HandleRow ==
    ASSUME TypeOK, NEW ev \in ModemEvent, Handle(ev)
    PROVE  /\ row' \in [Key -> Row] /\ lost' \in BOOLEAN /\ (lost => lost')
           /\ \A c \in Call :
                 /\ row'[c].recording = row[c].recording
                 /\ Begun(c) => Begun(c)'
                 /\ Ended(c) /\ ~(ev.kind = "CallAnswered" /\ ev.id = c) => Ended(c)'
                 /\ Ended(c)' /\ ~Ended(c) => ev.kind = "CallEnded" /\ ev.id = c
                 /\ ~lost' /\ ev.kind = "CallRinging" /\ ev.id = c => Begun(c)'
                 /\ ~lost' /\ ev.kind = "CallEnded" /\ ev.id = c /\ Begun(c) => Ended(c)'
<1>1. row \in [Key -> Row] /\ lost \in BOOLEAN /\ Call \subseteq Key
  BY DEF TypeOK, Key
<1>2. CASE UNCHANGED row
  <2>1. \A c \in Call : Ended(c)' = Ended(c) /\ Begun(c)' = Begun(c)
    BY <1>2 DEF Ended, Begun
  <2>2. lost' \in BOOLEAN /\ (lost => lost')
    BY <1>1 DEF Handle, InsertRinging, SetStatus
  <2>3. ASSUME NEW c \in Call, ~lost', ev.kind = "CallRinging", ev.id = c PROVE Begun(c)
    <3>1. row' = IF row[c].status = "none"
                 THEN [row EXCEPT ![c].status = "ringing"] ELSE row
      BY <2>3 DEF Handle, InsertRinging
    <3>2. QED
      BY <1>1, <1>2, <3>1 DEF Begun, Row
  <2>4. ASSUME NEW c \in Call, ~lost', ev.kind = "CallEnded", ev.id = c, Begun(c)
        PROVE  Ended(c)
    <3>1. row' = [row EXCEPT ![c].status = "ended"]
      BY <1>1, <2>4 DEF Handle, SetStatus, Begun
    <3>2. QED
      BY <1>1, <1>2, <3>1 DEF Ended, Row
  <2>5. QED
    BY <1>1, <1>2, <2>1, <2>2, <2>3, <2>4
<1>3. ASSUME NEW d \in Key, NEW st \in {"ringing", "active", "ended"}, ev.id = d,
             row' = [row EXCEPT ![d].status = st], UNCHANGED lost,
             st = "ringing" => ev.kind = "CallRinging" /\ ~Begun(d),
             st = "active" => ev.kind = "CallAnswered",
             st = "ended" => ev.kind = "CallEnded"
      PROVE  /\ row' \in [Key -> Row] /\ lost' \in BOOLEAN /\ (lost => lost')
             /\ \A c \in Call :
                   /\ row'[c].recording = row[c].recording
                   /\ Begun(c) => Begun(c)'
                   /\ Ended(c) /\ ~(ev.kind = "CallAnswered" /\ ev.id = c) => Ended(c)'
                   /\ Ended(c)' /\ ~Ended(c) => ev.kind = "CallEnded" /\ ev.id = c
                   /\ ~lost' /\ ev.kind = "CallRinging" /\ ev.id = c => Begun(c)'
                   /\ ~lost' /\ ev.kind = "CallEnded" /\ ev.id = c /\ Begun(c) => Ended(c)'
  <2>1. /\ row' \in [Key -> Row] /\ row'[d].status = st
        /\ row'[d].recording = row[d].recording
        /\ \A c \in Key : c # d => row'[c] = row[c]
    BY <1>1, <1>3 DEF Row
  <2>2. ASSUME NEW c \in Call, c # d
        PROVE  /\ row'[c].recording = row[c].recording /\ ev.id # c
               /\ Begun(c)' = Begun(c) /\ Ended(c)' = Ended(c)
    BY <1>1, <1>3, <2>1, <2>2 DEF Begun, Ended
  <2>3. /\ Begun(d)' /\ (Ended(d)' <=> st = "ended") /\ (Ended(d) => Begun(d))
        /\ row'[d].recording = row[d].recording
    BY <2>1 DEF Begun, Ended
  <2>4. lost' \in BOOLEAN /\ (lost => lost')
    BY <1>1, <1>3
  <2>5. QED
    BY <1>3, <2>1, <2>2, <2>3, <2>4
<1>4. CASE ~UNCHANGED row
  <2>1. CASE ev.kind = "CallRinging" /\ InsertRinging(ev.id)
    <3>1. /\ row[ev.id].status = "none" /\ row' = [row EXCEPT ![ev.id].status = "ringing"]
          /\ UNCHANGED lost
      BY <1>4, <2>1 DEF InsertRinging
    <3>2. ev.id \in Key
      BY <1>1, <1>4, <3>1
    <3>3. QED
      BY <1>3, <2>1, <3>1, <3>2 DEF Begun
  <2>2. CASE ev.kind = "CallAnswered" /\ SetStatus(ev.id, "active")
    BY <1>3, <1>4, <2>2 DEF SetStatus
  <2>3. CASE ev.kind = "CallEnded" /\ SetStatus(ev.id, "ended")
    BY <1>3, <1>4, <2>3 DEF SetStatus
  <2>4. QED
    BY <1>4, <2>1, <2>2, <2>3 DEF Handle
<1>5. QED
  BY <1>2, <1>4

\* A task is spawned with the id that the event carries, for the end of a call
\* or of its recording.
LEMMA HandleTask ==
    ASSUME TypeOK, NEW ev \in ModemEvent, Handle(ev)
    PROVE  /\ task' \in [Task -> TaskState]
           /\ \A t \in Task :
                 \/ task'[t] = task[t]
                 \/ task'[t].id = ev.id /\ ev.kind \in {"CallEnded", "RecordingDone"}
<1>1. task \in [Task -> TaskState] /\ ev.id \in Id
  BY DEF TypeOK, ModemEvent
<1>2. CASE UNCHANGED task
  BY <1>1, <1>2
<1>3. CASE ~UNCHANGED task
  <2> DEFINE fresh == [pc |-> "check", id |-> ev.id, data |-> "none"]
  <2>1. /\ ev.kind \in {"CallEnded", "RecordingDone"} /\ ev.path \in Call
        /\ task' = [task EXCEPT ![<<ev.path, ev.kind>>] = fresh]
    BY <1>3 DEF Handle, SpawnIngest
  <2>2. fresh \in TaskState /\ fresh.id = ev.id
    BY <1>1 DEF TaskState, Audio
  <2>3. QED
    BY <1>1, <2>1, <2>2
<1>4. QED
  BY <1>2, <1>3

\* The first event is consumed: what came after it is now first.
LEMMA ConsumeStep ==
    ASSUME IInv, Consume
    PROVE  IInv' /\ \A c \in Call : Ended(c) => Ended(c)'
<1> DEFINE ev == Head(events)
<1>1. /\ events # <<>> /\ events' = Tail(events) /\ Handle(ev)
      /\ UNCHANGED <<leg, file, ami, pathOf, mapped>>
  BY DEF Consume
<1>2. TypeOK
  BY DEF IInv
<1>3. ev \in ModemEvent /\ events' \in Seq(ModemEvent)
  BY <1>1, <1>2, TailEvents
<1>4. /\ row' \in [Key -> Row] /\ lost' \in BOOLEAN /\ (lost => lost')
      /\ \A c \in Call :
            /\ row'[c].recording = row[c].recording
            /\ Begun(c) => Begun(c)'
            /\ Ended(c) /\ ~(ev.kind = "CallAnswered" /\ ev.id = c) => Ended(c)'
            /\ Ended(c)' /\ ~Ended(c) => ev.kind = "CallEnded" /\ ev.id = c
            /\ ~lost' /\ ev.kind = "CallRinging" /\ ev.id = c => Begun(c)'
            /\ ~lost' /\ ev.kind = "CallEnded" /\ ev.id = c /\ Begun(c) => Ended(c)'
  BY <1>1, <1>2, <1>3, HandleRow
<1>5. /\ task' \in [Task -> TaskState]
      /\ \A t \in Task :
            \/ task'[t] = task[t]
            \/ task'[t].id = ev.id /\ ev.kind \in {"CallEnded", "RecordingDone"}
  BY <1>1, <1>2, <1>3, HandleTask
<1> HIDE DEF ev
<1>6. \A k, c : /\ \A i \in Due(k, c)' : i \in Nat /\ i + 1 \in Due(k, c)
                /\ \A i \in Due(k, c) : i = 1 \/ i - 1 \in Due(k, c)'
                /\ \A i \in Due(k, c) : i \in Nat /\ i >= 1
                /\ ev.kind = k /\ ev.id = c <=> 1 \in Due(k, c)
  BY <1>1, <1>2, TailEvents DEF ev
<1>7. \A n, c : Sent(n, c)' = Sent(n, c)
  BY <1>1 DEF Sent, Pkt
<1>8. \A c \in Call : Ended(c) => Ended(c)'
  <2>1. \A c \in Call : Ended(c) => ~(ev.kind = "CallAnswered" /\ ev.id = c)
    BY <1>6 DEF IInv, OrderInv
  <2>2. QED
    BY <1>4, <2>1
<1>9. TypeOK'
  BY <1>1, <1>2, <1>3, <1>4, <1>5 DEF TypeOK
<1>10. ASSUME NEW c \in Call
       PROVE  /\ Sent("CallEnded", c)' # {} \/ Due("CallEnded", c)' # {} \/ Ended(c)' =>
                    leg'[c] \in {"finished", "gone"}
              /\ \A i \in Sent("CallEnded", c)', j \in Sent("CallAnswered", c)' : j < i
              /\ \A i \in Due("CallEnded", c)', j \in Due("CallAnswered", c)' : j < i
              /\ Due("CallEnded", c)' # {} \/ Ended(c)' => Sent("CallAnswered", c)' = {}
              /\ Ended(c)' => Due("CallAnswered", c)' = {}
  <2>1. Due("CallEnded", c)' # {} \/ Ended(c)' => Due("CallEnded", c) # {} \/ Ended(c)
    BY <1>4, <1>6
  <2>2. ASSUME NEW i \in Due("CallEnded", c)', NEW j \in Due("CallAnswered", c)'
        PROVE  j < i
    <3>1. i + 1 \in Due("CallEnded", c) /\ j + 1 \in Due("CallAnswered", c)
          /\ i \in Nat /\ j \in Nat
      BY <1>6
    <3>2. j + 1 < i + 1
      BY <3>1 DEF IInv, OrderInv
    <3>3. QED
      BY <3>1, <3>2
  <2>3. ASSUME Ended(c)', NEW j \in Due("CallAnswered", c)' PROVE FALSE
    <3>1. j \in Nat /\ j + 1 \in Due("CallAnswered", c)
      BY <1>6
    <3>2. 1 \in Due("CallEnded", c)
      BY <1>4, <1>6, <2>3, <3>1 DEF IInv, OrderInv
    <3>3. j + 1 < 1
      BY <3>1, <3>2 DEF IInv, OrderInv
    <3>4. QED
      BY <3>1, <3>3
  <2>4. QED
    BY <1>1, <1>7, <2>1, <2>2, <2>3 DEF IInv, OrderInv
<1>11. ASSUME ~lost', NEW c \in Call
       PROVE  /\ leg'[c] # "none" =>
                    \/ Begun(c)' \/ Due("CallRinging", c)' # {}
                    \/ Sent("CallStarted", c)' # {}
              /\ \A i \in Sent("CallEnded", c)' :
                    \/ Begun(c)' \/ Due("CallRinging", c)' # {}
                    \/ \E j \in Sent("CallStarted", c)' : j < i
              /\ \A i \in Due("CallEnded", c)' :
                    Begun(c)' \/ \E j \in Due("CallRinging", c)' : j < i
  <2>1. ~lost
    BY <1>4, <1>11
  <2>2. Begun(c) \/ Due("CallRinging", c) # {} => Begun(c)' \/ Due("CallRinging", c)' # {}
    BY <1>4, <1>6, <1>11
  <2>3. ASSUME NEW i \in Due("CallEnded", c)', ~Begun(c)'
        PROVE  \E j \in Due("CallRinging", c)' : j < i
    <3>1. i \in Nat /\ i + 1 \in Due("CallEnded", c)
      BY <1>6
    <3>2. PICK j \in Due("CallRinging", c) : j < i + 1
      BY <1>4, <2>1, <2>3, <3>1 DEF IInv, StartInv
    <3>3. j # 1
      BY <1>4, <1>6, <1>11, <2>3, <3>2
    <3>4. j \in Nat /\ j - 1 \in Due("CallRinging", c)'
      BY <1>6, <3>3
    <3>5. j - 1 < i
      BY <3>1, <3>2, <3>4
    <3>6. QED
      BY <3>4, <3>5
  <2>4. QED
    BY <1>1, <1>7, <2>1, <2>2, <2>3 DEF IInv, StartInv
<1>12. ASSUME ~lost', NEW c \in Call
       PROVE  /\ c \in pathOf' => Ended(c)' \/ Due("CallEnded", c)' # {}
              /\ \A i \in Due("RecordingDone", c)' :
                    Ended(c)' \/ \E j \in Due("CallEnded", c)' : j < i
              /\ \A t \in Task : task'[t].id = c /\ task'[t].pc \in {"check", "read", "save"}
                                    => Ended(c)'
  <2>1. ~lost
    BY <1>4, <1>12
  <2>2. 1 \in Due("CallEnded", c) => Ended(c)'
    <3>1. SUFFICES ASSUME 1 \in Due("CallEnded", c) PROVE Ended(c)'
      OBVIOUS
    <3>2. \A j \in Due("CallRinging", c) : ~(j < 1)
      BY <1>6
    <3>3. Begun(c)
      BY <2>1, <3>1, <3>2 DEF IInv, StartInv
    <3>4. QED
      BY <1>4, <1>6, <1>12, <3>1, <3>3
  <2>3. ASSUME c \in pathOf', ~Ended(c)' PROVE Due("CallEnded", c)' # {}
    <3>1. PICK j \in Due("CallEnded", c) : TRUE
      BY <1>1, <1>8, <2>1, <2>3 DEF IInv, PathInv
    <3>2. QED
      BY <1>6, <2>2, <2>3, <3>1
  <2>4. ASSUME NEW i \in Due("RecordingDone", c)', ~Ended(c)'
        PROVE  \E j \in Due("CallEnded", c)' : j < i
    <3>1. i \in Nat /\ i + 1 \in Due("RecordingDone", c)
      BY <1>6
    <3>2. PICK j \in Due("CallEnded", c) : j < i + 1
      BY <1>8, <2>1, <2>4, <3>1 DEF IInv, PathInv
    <3>3. j \in Nat /\ j - 1 \in Due("CallEnded", c)'
      BY <1>6, <2>2, <2>4, <3>2
    <3>4. j - 1 < i
      BY <3>1, <3>2, <3>3
    <3>5. QED
      BY <3>3, <3>4
  <2>5. ASSUME NEW t \in Task, task'[t].id = c, task'[t].pc \in {"check", "read", "save"}
        PROVE  Ended(c)'
    <3>1. CASE task'[t] = task[t]
      BY <1>8, <2>1, <2>5, <3>1 DEF IInv, PathInv
    <3>2. CASE ev.id = c /\ ev.kind = "CallEnded"
      BY <1>6, <2>2, <3>2
    <3>3. CASE ev.id = c /\ ev.kind = "RecordingDone"
      <4>1. 1 \in Due("RecordingDone", c)
        BY <1>6, <3>3
      <4>2. \A j \in Due("CallEnded", c) : ~(j < 1)
        BY <1>6
      <4>3. Ended(c)
        BY <2>1, <4>1, <4>2 DEF IInv, PathInv
      <4>4. QED
        BY <1>8, <4>3
    <3>4. QED
      BY <1>5, <2>5, <3>1, <3>2, <3>3
  <2>6. QED
    BY <2>3, <2>4, <2>5
<1>13. OrderInv'
  BY <1>10 DEF OrderInv
<1>14. StartInv'
  BY <1>11 DEF StartInv
<1>15. PathInv'
  BY <1>12 DEF PathInv
<1>16. RecordedWhenEnded'
  BY <1>4, <1>8 DEF IInv, RecordedWhenEnded, Ended
<1>17. QED
  BY <1>8, <1>9, <1>13, <1>14, <1>15, <1>16 DEF IInv

-----------------------------------------------------------------------------
(* The ingest tasks. *)

\* A step of one task writes the bytes it has read to the row of its call.
LEMMA IngestRow ==
    ASSUME TypeOK, NEW t \in Task, Ingest(t)
    PROVE  /\ row' \in [Key -> Row] /\ lost' \in BOOLEAN /\ (lost => lost')
           /\ task' \in [Task -> TaskState]
           /\ \A c \in Call :
                 /\ row'[c].status = row[c].status
                 /\ \/ row'[c].recording = row[c].recording
                    \/ task[t].pc = "save" /\ task[t].id = c
           /\ \A u \in Task : /\ task'[u].id = task[u].id
                              /\ \/ task'[u].pc = task[u].pc
                                 \/ task[u].pc \in {"check", "read"}
                                 \/ task'[u].pc \in {"transcribe", "done"}
<1>1. /\ row \in [Key -> Row] /\ lost \in BOOLEAN /\ task \in [Task -> TaskState]
      /\ file \in [Call -> Audio] /\ Call \subseteq Key
  BY DEF TypeOK, Key
<1>2. task[t] \in TaskState /\ t[1] \in Call
  BY <1>1 DEF Task
<1>3. file[t[1]] \in Audio
  BY <1>1, <1>2
<1>4. CASE CheckRecording(t)
  BY <1>1, <1>2, <1>4 DEF CheckRecording, TaskState
<1>5. CASE ReadFile(t)
  <2> DEFINE new == [task[t] EXCEPT !.pc = IF file[t[1]] = "none" THEN "done" ELSE "save",
                                    !.data = file[t[1]]]
  <2>1. task' = [task EXCEPT ![t] = new] /\ task[t].pc = "read" /\ UNCHANGED <<row, lost>>
    BY <1>1, <1>5 DEF ReadFile
  <2>2. new \in TaskState /\ new.id = task[t].id
    BY <1>2, <1>3 DEF TaskState
  <2> HIDE DEF new
  <2>3. QED
    BY <1>1, <2>1, <2>2
<1>6. CASE SaveRecording(t)
  <2>1. PICK next \in {"transcribe", "done"} : task' = [task EXCEPT ![t].pc = next]
    BY <1>6 DEF SaveRecording
  <2>2. /\ task' \in [Task -> TaskState]
        /\ \A u \in Task : /\ task'[u].id = task[u].id
                           /\ task'[u].pc = task[u].pc \/ task'[u].pc \in {"transcribe", "done"}
    BY <1>1, <2>1 DEF TaskState
  <2>3. lost' \in BOOLEAN /\ (lost => lost')
    BY <1>1, <1>6 DEF SaveRecording
  <2>4. /\ row' \in [Key -> Row]
        /\ \A c \in Call : /\ row'[c].status = row[c].status
                           /\ \/ row'[c].recording = row[c].recording
                              \/ task[t].pc = "save" /\ task[t].id = c
    <3>1. CASE UNCHANGED row
      BY <1>1, <3>1
    <3>2. CASE ~UNCHANGED row
      <4> DEFINE d == task[t].id
                 data == task[t].data
      <4>1. d \in Key /\ row' = [row EXCEPT ![d].recording = data]
        BY <1>6, <3>2 DEF SaveRecording
      <4>2. data \in Audio
        BY <1>2 DEF TaskState
      <4>3. task[t].pc = "save"
        BY <1>6 DEF SaveRecording
      <4>4. QED
        BY <1>1, <4>1, <4>2, <4>3 DEF Row
    <3>3. QED
      BY <3>1, <3>2
  <2>5. QED
    BY <2>2, <2>3, <2>4
<1>7. CASE SaveTranscript(t)
  <2>1. task' = [task EXCEPT ![t].pc = "done"] /\ UNCHANGED lost
    BY <1>7 DEF SaveTranscript
  <2>2. /\ task' \in [Task -> TaskState]
        /\ \A u \in Task : /\ task'[u].id = task[u].id
                           /\ task'[u].pc = task[u].pc \/ task'[u].pc \in {"transcribe", "done"}
    BY <1>1, <2>1 DEF TaskState
  <2>3. /\ row' \in [Key -> Row]
        /\ \A c \in Call : /\ row'[c].status = row[c].status
                           /\ row'[c].recording = row[c].recording
    <3>1. CASE UNCHANGED row
      BY <1>1, <3>1
    <3>2. CASE ~UNCHANGED row
      <4> DEFINE d == task[t].id
                 data == task[t].data
      <4>1. d \in Key /\ row' = [row EXCEPT ![d].transcript = data]
        BY <1>7, <3>2 DEF SaveTranscript
      <4>2. data \in Audio
        BY <1>2 DEF TaskState
      <4>3. QED
        BY <1>1, <4>1, <4>2 DEF Row
    <3>3. QED
      BY <3>1, <3>2
  <2>4. QED
    BY <1>1, <2>1, <2>2, <2>3
<1>8. QED
  BY <1>4, <1>5, <1>6, <1>7 DEF Ingest

LEMMA IngestStep == ASSUME IInv, NEW t \in Task, Ingest(t) PROVE IInv'
<1>1. TypeOK
  BY DEF IInv
<1>2. UNCHANGED <<leg, file, ami, pathOf, events, mapped>>
  BY DEF Ingest, CheckRecording, ReadFile, SaveRecording, SaveTranscript, ingestVars
<1>3. /\ row' \in [Key -> Row] /\ lost' \in BOOLEAN /\ (lost => lost')
      /\ task' \in [Task -> TaskState]
      /\ \A c \in Call :
            /\ row'[c].status = row[c].status
            /\ \/ row'[c].recording = row[c].recording
               \/ task[t].pc = "save" /\ task[t].id = c
      /\ \A u \in Task : /\ task'[u].id = task[u].id
                         /\ \/ task'[u].pc = task[u].pc
                            \/ task[u].pc \in {"check", "read"}
                            \/ task'[u].pc \in {"transcribe", "done"}
  BY <1>1, IngestRow
<1>4. TypeOK'
  BY <1>1, <1>2, <1>3 DEF TypeOK
<1>5. /\ \A k, c : Due(k, c)' = Due(k, c) /\ Sent(k, c)' = Sent(k, c)
      /\ \A c \in Call : Ended(c)' = Ended(c) /\ Begun(c)' = Begun(c)
  BY <1>2, <1>3 DEF Due, Sent, Pkt, Ended, Begun
<1>6. OrderInv'
  BY <1>2, <1>5 DEF IInv, OrderInv
<1>7. StartInv'
  BY <1>2, <1>3, <1>5 DEF IInv, StartInv
<1>8. PathInv'
  <2>1. ASSUME ~lost, NEW u \in Task, task'[u].pc \in {"check", "read", "save"}
        PROVE  task[u].pc \in {"check", "read", "save"}
    BY <1>3, <2>1
  <2>2. QED
    BY <1>2, <1>3, <1>5, <2>1 DEF IInv, PathInv
<1>9. RecordedWhenEnded'
  <2>1. ASSUME ~lost, NEW c \in Call, row'[c].recording # "none" PROVE Ended(c)
    <3>1. CASE row'[c].recording = row[c].recording
      BY <2>1, <3>1 DEF IInv, RecordedWhenEnded, Ended
    <3>2. CASE task[t].pc = "save" /\ task[t].id = c
      BY <2>1, <3>2 DEF IInv, PathInv
    <3>3. QED
      BY <1>3, <3>1, <3>2
  <2>2. QED
    BY <1>3, <2>1 DEF RecordedWhenEnded, Ended
<1>10. QED
  BY <1>4, <1>6, <1>7, <1>8, <1>9 DEF IInv

-----------------------------------------------------------------------------
(* The theorems. *)

LEMMA InitIInv == Init => IInv
<1> SUFFICES ASSUME Init PROVE IInv
  OBVIOUS
<1> USE DEF Init
<1>1. TypeOK
  <2>1. leg \in [Call -> {"none", "started", "up", "finished", "gone"}]
        /\ file \in [Call -> Audio]
    BY DEF Audio
  <2>2. row \in [Key -> Row]
    BY DEF Row, Audio
  <2>3. task \in [Task -> TaskState]
    BY DEF TaskState, Audio, Id
  <2>4. ami \in Seq(Packet) /\ events \in Seq(ModemEvent)
    OBVIOUS
  <2>5. QED
    BY <2>1, <2>2, <2>3, <2>4 DEF TypeOK
<1>2. \A n, c : Sent(n, c) = {} /\ Due(n, c) = {}
  <2>1. ami = <<>> /\ events = <<>> /\ Len(<<>>) = 0 /\ 1..0 = {}
    BY EmptySeq
  <2>2. 1..Len(ami) = {} /\ 1..Len(events) = {}
    BY <2>1
  <2>3. QED
    BY <2>2 DEF Sent, Due
<1>3. \A c \in Call : ~Ended(c) /\ row[c].recording = "none" /\ leg[c] = "none"
  BY DEF Ended, Key
<1>4. \A t \in Task : task[t].pc = "none"
  OBVIOUS
<1>5. OrderInv /\ StartInv
  BY <1>2, <1>3 DEF OrderInv, StartInv
<1>6. PathInv /\ RecordedWhenEnded
  BY <1>2, <1>3, <1>4 DEF PathInv, RecordedWhenEnded
<1>7. QED
  BY <1>1, <1>5, <1>6 DEF IInv

LEMMA EveryStep == IInv /\ [Next]_vars => IInv'
<1> SUFFICES ASSUME IInv, [Next]_vars PROVE IInv'
  OBVIOUS
<1>1. CASE \E c \in Call : Dialplan(c)
  BY <1>1, CallStep, OtherStep DEF Dialplan
<1>2. CASE Pump \/ LosePacket
  BY <1>2, PumpStep, LosePacketStep
<1>3. CASE Consume
  BY <1>3, ConsumeStep
<1>4. CASE Rescan
  BY <1>4, OtherStep
<1>5. CASE \E t \in Task : Ingest(t)
  BY <1>5, IngestStep
<1>6. CASE UNCHANGED vars
  BY <1>6, PartsKept DEF vars, IInv, TypeOK
<1>7. QED
  BY <1>1, <1>2, <1>3, <1>4, <1>5, <1>6 DEF Next

\* No step takes a row out of the status "ended".
LEMMA StepKeepsEnd ==
    ASSUME IInv, [Next]_vars, NEW c \in Call, Ended(c)
    PROVE  Ended(c)'
<1>1. CASE UNCHANGED row
  BY <1>1 DEF Ended
<1>2. CASE Consume
  BY <1>2, ConsumeStep
<1>3. CASE \E t \in Task : Ingest(t)
  BY <1>3, IngestRow DEF IInv, Ended
<1>4. CASE \/ \E d \in Call : Dialplan(d)
           \/ Pump \/ LosePacket \/ Rescan \/ UNCHANGED vars
  <2>1. UNCHANGED row
    BY <1>4 DEF Dialplan, StartCall, AnswerCall, FinishCall, HangUp, WriteAudio, gatewayVars,
                Pump, LosePacket, Rescan, vars
  <2>2. QED
    BY <1>1, <2>1
<1>5. QED
  BY <1>2, <1>3, <1>4 DEF Next

\* The invariant holds of dialplan, pump, consumer and ingest tasks together.
THEOREM Invariance == Spec => []IInv
<1>1. QED
  BY InitIInv, EveryStep, PTL DEF Spec

\* The queues, the calls table and the ingest tasks keep their types
\* (ami_transport.rs, manager.rs).
THEOREM TypeCorrect == Spec => []TypeOK
<1>1. IInv => TypeOK
  BY DEF IInv
<1>2. QED
  BY <1>1, Invariance, PTL

\* With nothing lost, only a call that is over has a recording: the id reaches
\* ingest_recording through CallEnded, or through the entry that CallEnded left
\* in pending_originates, and by then the row has ended.
THEOREM RecordingFollowsEnd == Spec => []RecordedWhenEnded
<1>1. IInv => RecordedWhenEnded
  BY DEF IInv
<1>2. QED
  BY <1>1, Invariance, PTL

\* update_status of db.rs has no guard, yet an ended call never comes back to
\* life, packets lost or not: both queues are in order and the consumer is one.
THEOREM EndIsFinal == Spec => EndedIsFinal
<1>1. IInv /\ [Next]_vars =>
        [\A c \in Call : row[c].status = "ended" => row'[c].status = "ended"]_vars
  BY StepKeepsEnd DEF Ended
<1>2. QED
  BY <1>1, Invariance, PTL DEF Spec, EndedIsFinal
-----------------------------------------------------------------------------
(***************************************************************************)
(* Outgoing calls: theorems about Originate for any numbers, any number of *)
(* concurrent requests and any number of calls.                            *)
(***************************************************************************)

(* The inductive invariant of Originate, in parts. *)

\* The numbers that are kept are those of the calls they are kept for, and a
\* call that is about to be forgotten is not up.
NumberInv ==
    /\ pending # None => newest \in Made /\ pending = dialled[newest]
    /\ \A t \in Request :
          /\ job[t].pc = "dialled" => dialled[job[t].call] = job[t].phone
          /\ Hanging(t) => /\ dialled[job[t].on] = job[t].phone
                           /\ job[t].late \/ job[t].on = newest
          /\ job[t].pc \in {"hangup", "forget"} => dialled[job[t].call] = job[t].phone
          /\ job[t].pc = "forget" => job[t].call \notin live

\* A call whose answer is still on its way has not been remembered, by this
\* request or another.
NewInv ==
    \A t \in Request : job[t].pc = "dialled" =>
        /\ job[t].call # newest
        /\ \A h \in hung : h[1] # job[t].call
        /\ \A u \in Request : Hanging(u) => job[u].on # job[t].call
        /\ \A u \in Request : job[u].pc = "dialled" /\ job[u].call = job[t].call => u = t

\* A call without doubts is hung up by one request at a time, and when it has
\* been, its number is gone, or about to go, or another's.
AloneInv ==
    /\ \A t, u \in Request :
          Hanging(t) /\ Hanging(u) /\ job[t].on = job[u].on /\ job[t].on \notin doubtful => t = u
    /\ \A h \in hung : h[1] \in doubtful \/
          /\ \A t \in Request : job[t].pc \in {"list", "hangup"} => job[t].on # h[1]
          /\ \/ h[1] # newest
             \/ pending = None
             \/ \E t \in Request : job[t].pc = "forget" /\ job[t].on = h[1]

OnceInv == NewInv /\ AloneInv /\ HungUpOnce

OutInv == CallsTypeOK /\ NumberInv /\ NewestIsReachable /\ OnceInv

-----------------------------------------------------------------------------
(* Types. *)

\* What a request is doing.
Job == {Idle} \cup Dials \cup Hangs

\* The fields that a job has by its place in the code.
LEMMA JobFields ==
    ASSUME NEW j \in Job
    PROVE  /\ j.pc \in {"idle", "dial", "dialled", "list", "hangup", "forget"}
           /\ j.pc = "idle" => j = Idle
           /\ j.pc \in {"dial", "dialled"} => j.phone \in Phone
           /\ j.pc = "dialled" => j.call \in Made
           /\ j.pc \in {"list", "hangup", "forget"} =>
                 j.phone \in Phone /\ j.on \in Made /\ j.late \in BOOLEAN
           /\ j.pc \in {"hangup", "forget"} => j.call \in Made
BY DEF Job, Idle, Dials, Hangs

\* One more call leaves the others what they were.
LEMMA RingFacts ==
    ASSUME CallsTypeOK, NEW n \in Phone, Ring(n)
    PROVE  /\ dialled' \in Seq(Phone) /\ Len(dialled') = Len(dialled) + 1
           /\ Made' = Made \cup {Len(dialled) + 1} /\ Len(dialled) + 1 \notin Made
           /\ dialled'[Len(dialled) + 1] = n
           /\ \A c \in Made : c \in Made' /\ dialled'[c] = dialled[c]
           /\ 0 \notin Made
<1>1. dialled \in Seq(Phone) /\ dialled' = Append(dialled, n)
  BY DEF CallsTypeOK, Ring
<1>2. /\ dialled' \in Seq(Phone) /\ Len(dialled') = Len(dialled) + 1
      /\ dialled'[Len(dialled) + 1] = n
      /\ \A c \in 1..Len(dialled) : dialled'[c] = dialled[c]
  BY <1>1, AppendProperties
<1>3. Made = 1..Len(dialled) /\ Made' = 1..Len(dialled') /\ Len(dialled) \in Nat
  BY <1>1, <1>2, LenProperties DEF Made
<1>4. QED
  BY <1>2, <1>3

\* Jobs stay jobs when calls are added.
LEMMA JobGrows ==
    ASSUME Made \subseteq Made'
    PROVE  Job \subseteq Job'
BY DEF Job, Idle, Dials, Hangs

\* The initial state satisfies every part of the inductive invariant.
LEMMA OutInit == CallsInit => OutInv
<1> SUFFICES ASSUME CallsInit PROVE OutInv
  OBVIOUS
<1>1. dialled \in Seq(Phone) /\ Len(dialled) = 0 /\ Made = {}
  BY EmptySeq DEF CallsInit, Made
<1>2. \A t \in Request : job[t] = Idle /\ job[t].pc = "idle"
  BY DEF CallsInit, Idle
<1>3. CallsTypeOK
  <2>1. job \in [Request -> {Idle} \cup Dials \cup Hangs]
    BY DEF CallsInit
  <2>2. ops \in 0..MaxOps
    BY Domains DEF CallsInit
  <2>3. QED
    BY <1>1, <2>1, <2>2 DEF CallsInit, CallsTypeOK
<1>4. NumberInv /\ NewestIsReachable /\ NewInv /\ AloneInv /\ HungUpOnce
  BY <1>1, <1>2 DEF CallsInit, NumberInv, NewestIsReachable, NewInv, AloneInv, HungUpOnce, Hanging
<1>5. QED
  BY <1>3, <1>4 DEF OutInv, OnceInv


-----------------------------------------------------------------------------
\* A request becomes what it becomes, and the others stay.
LEMMA BecomeFacts ==
    ASSUME job \in [Request -> Job], NEW t \in Request, NEW next \in Job', Made \subseteq Made',
           Become(t, next)
    PROVE  /\ job' \in [Request -> Job']
           /\ job'[t] = next
           /\ \A u \in Request \ {t} : job'[u] = job[u]
BY JobGrows DEF Become

\* Every step keeps the types.
LEMMA OutTypes == CallsTypeOK /\ NumberInv /\ [CallsNext]_callVars => CallsTypeOK'
<1> SUFFICES ASSUME CallsTypeOK, NumberInv, [CallsNext]_callVars PROVE CallsTypeOK'
  OBVIOUS
<1>0. /\ job \in [Request -> Job]
      /\ \A u \in Request : job[u] \in Job
  BY DEF CallsTypeOK, Job
<1>a. ASSUME UNCHANGED dialled PROVE Made' = Made /\ Job' = Job
  BY <1>a DEF Made, Job, Idle, Dials, Hangs
<1>b. ops > 0 /\ ops' = ops - 1 => ops' \in 0..MaxOps
  BY Domains DEF CallsTypeOK
<1>c. Idle \in Job /\ Idle \in Job'
  BY DEF Job
\* A step that adds no call keeps the types if the new job is one.
<1>d. ASSUME NEW t \in Request, NEW next \in Job, Become(t, next), UNCHANGED dialled
      PROVE  job' \in [Request -> {Idle} \cup Dials \cup Hangs]'
  BY <1>d, <1>a, <1>0, BecomeFacts DEF Job
<1>1. ASSUME NEW t \in Request, NEW n \in Phone, MakeCall(t, n) PROVE CallsTypeOK'
  <2>1. [pc |-> "dial", phone |-> n] \in Job
    BY DEF Job, Dials
  <2>2. job' \in [Request -> {Idle} \cup Dials \cup Hangs]'
    BY <1>1, <1>d, <2>1 DEF MakeCall
  <2>3. QED
    BY <1>1, <1>a, <1>b, <2>2 DEF MakeCall, CallsTypeOK, History
<1>2. ASSUME NEW t \in Request, HangUpCall(t) PROVE CallsTypeOK'
  <2>1. newest \in Made /\ pending \in Phone
    BY <1>2 DEF HangUpCall, CallsTypeOK, NumberInv
  <2>2. [pc |-> "list", phone |-> pending, on |-> newest, late |-> FALSE] \in Job
    BY <2>1 DEF Job, Hangs
  <2>3. job' \in [Request -> {Idle} \cup Dials \cup Hangs]'
    BY <1>2, <1>d, <2>2 DEF HangUpCall
  <2>4. doubtful' \subseteq Made
    BY <1>2, <2>1 DEF HangUpCall, CallsTypeOK
  <2>5. QED
    BY <1>2, <1>a, <1>b, <2>3, <2>4 DEF HangUpCall, CallsTypeOK
<1>3. ASSUME NEW t \in Request, Place(t) PROVE CallsTypeOK'
  <2>1. job[t].phone \in Phone /\ Ring(job[t].phone)
    BY <1>0, <1>3, JobFields DEF Place
  <2>2. /\ dialled' \in Seq(Phone) /\ Made \subseteq Made'
        /\ Made' = Made \cup {Len(dialled) + 1}
    BY <2>1, RingFacts
  <2>3. [pc |-> "dialled", phone |-> job[t].phone, call |-> Len(dialled) + 1] \in Job'
    BY <2>1, <2>2 DEF Job, Dials
  <2>4. job' \in [Request -> Job']
    BY <1>0, <1>3, <2>2, <2>3, BecomeFacts DEF Place
  <2>5. live' \subseteq Made'
    BY <2>1, <2>2 DEF Ring, CallsTypeOK
  <2>6. QED
    BY <1>3, <2>2, <2>4, <2>5 DEF Place, CallsTypeOK, History, Job
<1>4. ASSUME NEW t \in Request, DialFails(t) PROVE CallsTypeOK'
  <2>1. CASE UNCHANGED <<dialled, live>>
    <3>1. job' \in [Request -> {Idle} \cup Dials \cup Hangs]'
      BY <1>4, <2>1, <1>c, <1>d DEF DialFails
    <3>2. QED
      BY <1>4, <2>1, <1>a, <3>1 DEF DialFails, CallsTypeOK, History
  <2>2. CASE job[t].pc = "dial" /\ Ring(job[t].phone)
    <3>1. job[t].phone \in Phone
      BY <1>0, <2>2, JobFields
    <3>2. /\ dialled' \in Seq(Phone) /\ Made \subseteq Made'
          /\ Made' = Made \cup {Len(dialled) + 1}
      BY <2>2, <3>1, RingFacts
    <3>3. job' \in [Request -> Job']
      BY <1>0, <1>4, <1>c, <3>2, BecomeFacts DEF DialFails
    <3>4. live' \subseteq Made'
      BY <2>2, <3>2 DEF Ring, CallsTypeOK
    <3>5. QED
      BY <1>4, <3>2, <3>3, <3>4 DEF DialFails, CallsTypeOK, History, Job
  <2>3. QED
    BY <1>4, <2>1, <2>2 DEF DialFails
<1>5. ASSUME NEW t \in Request, RememberNumber(t) PROVE CallsTypeOK'
  <2>1. job[t].phone \in Phone /\ job[t].call \in Made
    BY <1>0, <1>5, JobFields DEF RememberNumber
  <2>2. ASSUME NEW u \in Request, Hanging(u) PROVE [job[u] EXCEPT !.late = TRUE] \in Job
    <3>1. job[u] \in Hangs
      BY <1>0, <2>2 DEF Hanging, Job, Idle, Dials, Hangs
    <3>2. QED
      BY <3>1 DEF Job, Hangs
  <2>3. job' \in [Request -> Job]
    BY <1>0, <1>5, <1>c, <2>2 DEF RememberNumber
  <2>4. QED
    BY <1>5, <1>a, <2>1, <2>3 DEF RememberNumber, CallsTypeOK, Job
<1>6. ASSUME NEW t \in Request, Find(t) PROVE CallsTypeOK'
  <2>1. /\ job[t].phone \in Phone /\ job[t].on \in Made /\ job[t].late \in BOOLEAN
    BY <1>0, <1>6, JobFields DEF Find
  <2>2. PICK c \in live : Become(t, [pc |-> "hangup", phone |-> job[t].phone, on |-> job[t].on,
                                     late |-> job[t].late, call |-> c])
    BY <1>6 DEF Find
  <2>3. [pc |-> "hangup", phone |-> job[t].phone, on |-> job[t].on,
         late |-> job[t].late, call |-> c] \in Job
    BY <2>1 DEF Job, Hangs, CallsTypeOK
  <2>4. job' \in [Request -> {Idle} \cup Dials \cup Hangs]'
    BY <1>6, <1>d, <2>2, <2>3 DEF Find
  <2>5. QED
    BY <1>6, <1>a, <2>4 DEF Find, CallsTypeOK, History
<1>7. ASSUME NEW t \in Request, NotFound(t) PROVE CallsTypeOK'
  <2>1. job' \in [Request -> {Idle} \cup Dials \cup Hangs]'
    BY <1>7, <1>c, <1>d DEF NotFound
  <2>2. QED
    BY <1>7, <1>a, <2>1 DEF NotFound, CallsTypeOK, History
<1>8. ASSUME NEW t \in Request, job[t].pc = "hangup", Cut(t) PROVE live' \subseteq Made /\ hung' \subseteq Made \X Made
  BY <1>0, <1>8, JobFields DEF Cut, CallsTypeOK
<1>9. ASSUME NEW t \in Request, HungUp(t) PROVE CallsTypeOK'
  <2>1. [job[t] EXCEPT !.pc = "forget"] \in Job
    <3>1. job[t] \in Hangs
      BY <1>0, <1>9 DEF HungUp, Job, Idle, Dials, Hangs
    <3>2. QED
      BY <1>9, <3>1 DEF HungUp, Job, Hangs
  <2>2. job' \in [Request -> {Idle} \cup Dials \cup Hangs]'
    BY <1>9, <1>d, <2>1 DEF HungUp
  <2>3. live' \subseteq Made /\ hung' \subseteq Made \X Made
    BY <1>8, <1>9 DEF HungUp
  <2>4. QED
    BY <1>9, <1>a, <2>2, <2>3 DEF HungUp, CallsTypeOK
<1>10. ASSUME NEW t \in Request, HangUpFails(t) PROVE CallsTypeOK'
  <2>1. job' \in [Request -> {Idle} \cup Dials \cup Hangs]'
    BY <1>10, <1>c, <1>d DEF HangUpFails
  <2>2. live' \subseteq Made /\ hung' \subseteq Made \X Made
    BY <1>8, <1>10 DEF HangUpFails, CallsTypeOK
  <2>3. doubtful' \subseteq Made
    BY <1>0, <1>10, JobFields DEF HangUpFails, CallsTypeOK
  <2>4. QED
    BY <1>10, <1>a, <2>1, <2>2, <2>3 DEF HangUpFails, CallsTypeOK
<1>11. ASSUME NEW t \in Request, Forget(t) PROVE CallsTypeOK'
  <2>1. job' \in [Request -> {Idle} \cup Dials \cup Hangs]'
    BY <1>11, <1>c, <1>d DEF Forget
  <2>2. overtaken' \in BOOLEAN
    BY <1>0, <1>11, JobFields DEF Forget, CallsTypeOK
  <2>3. QED
    BY <1>11, <1>a, <2>1, <2>2 DEF Forget, CallsTypeOK
<1>12. ASSUME NEW c \in Made, End(c) PROVE CallsTypeOK'
  BY <1>12, <1>a DEF End, CallsTypeOK, History, Job
<1>13. CASE UNCHANGED callVars
  BY <1>13, <1>a DEF callVars, CallsTypeOK, Job
<1>14. QED
  BY <1>1, <1>2, <1>3, <1>4, <1>5, <1>6, <1>7, <1>9, <1>10, <1>11, <1>12, <1>13 DEF CallsNext, Step

-----------------------------------------------------------------------------
(* The numbers. *)

\* A request that ends, or begins to dial, leaves what is said of the others.
LEMMA LeaveStep ==
    ASSUME CallsTypeOK, NumberInv, UNCHANGED <<dialled, newest>>, live' \subseteq live,
           pending' \in {pending, None},
           NEW t \in Request, NEW next, next.pc \in {"idle", "dial"}, Become(t, next)
    PROVE  NumberInv'
<1>1. job \in [Request -> Job]
  BY DEF CallsTypeOK, Job
<1>2. job'[t] = next /\ \A u \in Request \ {t} : job'[u] = job[u]
  BY <1>1 DEF Become
<1>3. Made' = Made
  BY DEF Made
<1>4. QED
  BY <1>2, <1>3 DEF NumberInv, Hanging

\* Every step keeps the numbers where they belong.
LEMMA NumberStep == CallsTypeOK /\ NumberInv /\ [CallsNext]_callVars => NumberInv'
<1> SUFFICES ASSUME CallsTypeOK, NumberInv, [CallsNext]_callVars PROVE NumberInv'
  OBVIOUS
<1>0. /\ job \in [Request -> Job]
      /\ \A u \in Request : job[u] \in Job
  BY DEF CallsTypeOK, Job
<1>a. UNCHANGED dialled => Made' = Made
  BY DEF Made
<1>b. Idle.pc = "idle" /\ \A n : [pc |-> "dial", phone |-> n].pc = "dial"
  BY DEF Idle
<1>1. ASSUME NEW t \in Request, NEW n \in Phone, MakeCall(t, n) PROVE NumberInv'
  <2>1. Become(t, [pc |-> "dial", phone |-> n]) /\ UNCHANGED <<pending, dialled, live, newest>>
    BY <1>1 DEF MakeCall, History
  <2>2. QED
    BY <1>b, <2>1, LeaveStep
<1>2. ASSUME NEW t \in Request, HangUpCall(t) PROVE NumberInv'
  <2>1. /\ job'[t] = [pc |-> "list", phone |-> pending, on |-> newest, late |-> FALSE]
        /\ \A u \in Request \ {t} : job'[u] = job[u]
        /\ UNCHANGED <<pending, dialled, live, newest>>
    BY <1>0, <1>2 DEF HangUpCall, Become
  <2>2. newest \in Made /\ pending = dialled[newest]
    BY <1>2 DEF HangUpCall, NumberInv
  <2>3. QED
    BY <1>a, <2>1, <2>2 DEF NumberInv, Hanging
\* Asterisk makes a call: whatever is known is known of another.
<1>c. ASSUME NEW t \in Request, job[t].pc = "dial", Ring(job[t].phone),
             UNCHANGED <<pending, newest>>, \A u \in Request \ {t} : job'[u] = job[u],
             \/ job'[t] = Idle
             \/ job'[t] = [pc |-> "dialled", phone |-> job[t].phone, call |-> Len(dialled) + 1]
      PROVE  NumberInv'
  <2>1. job[t].phone \in Phone
    BY <1>0, <1>c, JobFields
  <2>2. /\ \A c \in Made : c \in Made' /\ dialled'[c] = dialled[c]
        /\ dialled'[Len(dialled) + 1] = job[t].phone
        /\ Len(dialled) + 1 \notin Made
    BY <1>c, <2>1, RingFacts
  <2>3. live' = live \cup {Len(dialled) + 1}
    BY <1>c DEF Ring
  <2>4. ASSUME NEW u \in Request, u # t
        PROVE  /\ job'[u].pc = "dialled" => dialled'[job'[u].call] = job'[u].phone
               /\ job'[u].pc \in {"list", "hangup", "forget"} =>
                     dialled'[job'[u].on] = job'[u].phone /\ (job'[u].late \/ job'[u].on = newest')
               /\ job'[u].pc \in {"hangup", "forget"} => dialled'[job'[u].call] = job'[u].phone
               /\ job'[u].pc = "forget" => job'[u].call \notin live'
    <3>1. job'[u] = job[u] /\ job[u] \in Job
      BY <1>0, <1>c, <2>4
    <3>2. /\ job[u].pc = "dialled" => job[u].call \in Made
          /\ job[u].pc \in {"list", "hangup", "forget"} => job[u].on \in Made
          /\ job[u].pc \in {"hangup", "forget"} => job[u].call \in Made
      BY <3>1, JobFields
    <3>3. QED
      BY <1>c, <2>2, <2>3, <3>1, <3>2 DEF NumberInv, Hanging
  <2>5. pending' # None => newest' \in Made' /\ pending' = dialled'[newest']
    BY <1>c, <2>2 DEF NumberInv
  <2>6. QED
    BY <1>b, <1>c, <2>2, <2>4, <2>5 DEF NumberInv, Hanging
<1>3. ASSUME NEW t \in Request, Place(t) PROVE NumberInv'
  BY <1>0, <1>3, <1>c DEF Place, Become, History
<1>4. ASSUME NEW t \in Request, DialFails(t) PROVE NumberInv'
  <2>1. CASE UNCHANGED <<dialled, live>>
    BY <1>4, <1>b, <2>1, LeaveStep DEF DialFails, History
  <2>2. CASE job[t].pc = "dial" /\ Ring(job[t].phone)
    BY <1>0, <1>4, <1>c, <2>2 DEF DialFails, Become, History
  <2>3. QED
    BY <1>4, <2>1, <2>2 DEF DialFails
<1>5. ASSUME NEW t \in Request, RememberNumber(t) PROVE NumberInv'
  <2>1. /\ job[t].phone = dialled[job[t].call] /\ job[t].call \in Made
        /\ pending' = job[t].phone /\ newest' = job[t].call /\ UNCHANGED <<dialled, live>>
    BY <1>0, <1>5, JobFields DEF RememberNumber, NumberInv
  <2>2. ASSUME NEW u \in Request
        PROVE  /\ job'[u].pc = "dialled" => dialled[job'[u].call] = job'[u].phone
               /\ job'[u].pc \in {"list", "hangup", "forget"} =>
                     dialled[job'[u].on] = job'[u].phone /\ job'[u].late
               /\ job'[u].pc \in {"hangup", "forget"} => dialled[job'[u].call] = job'[u].phone
               /\ job'[u].pc = "forget" => job'[u].call \notin live
    <3>1. CASE u = t
      BY <1>b, <1>5, <3>1 DEF RememberNumber
    <3>2. CASE u # t /\ Hanging(u)
      <4>1. job[u] \in Hangs
        BY <1>0, <3>2 DEF Hanging, Job, Idle, Dials, Hangs
      <4>2. job'[u] = [job[u] EXCEPT !.late = TRUE]
        BY <1>5, <3>2 DEF RememberNumber
      <4>3. /\ job'[u].pc = job[u].pc /\ job'[u].phone = job[u].phone /\ job'[u].on = job[u].on
            /\ job'[u].late = TRUE
            /\ job[u].pc \in {"hangup", "forget"} => job'[u].call = job[u].call
        BY <4>1, <4>2 DEF Hangs
      <4>4. QED
        BY <3>2, <4>3 DEF NumberInv, Hanging
    <3>3. CASE u # t /\ ~Hanging(u)
      <4>1. job'[u] = job[u]
        BY <1>5, <3>3 DEF RememberNumber
      <4>2. QED
        BY <3>3, <4>1 DEF NumberInv, Hanging
    <3>4. QED
      BY <3>1, <3>2, <3>3
  <2>3. QED
    BY <1>a, <2>1, <2>2 DEF NumberInv, Hanging
<1>6. ASSUME NEW t \in Request, Find(t) PROVE NumberInv'
  <2>1. PICK c \in live : /\ dialled[c] = job[t].phone
                          /\ job'[t] = [pc |-> "hangup", phone |-> job[t].phone, on |-> job[t].on,
                                        late |-> job[t].late, call |-> c]
                          /\ \A u \in Request \ {t} : job'[u] = job[u]
    BY <1>0, <1>6 DEF Find, Become
  <2>2. UNCHANGED <<pending, dialled, live, newest>> /\ job[t].pc = "list"
    BY <1>6 DEF Find, History
  <2>3. QED
    BY <1>a, <2>1, <2>2 DEF NumberInv, Hanging
<1>7. ASSUME NEW t \in Request, NotFound(t) PROVE NumberInv'
  BY <1>7, <1>b, LeaveStep DEF NotFound, History
<1>8. ASSUME NEW t \in Request, HungUp(t) PROVE NumberInv'
  <2>1. job[t] \in Hangs /\ job[t].pc = "hangup"
    BY <1>0, <1>8 DEF HungUp, Job, Idle, Dials, Hangs
  <2>2. /\ job'[t] = [job[t] EXCEPT !.pc = "forget"]
        /\ \A u \in Request \ {t} : job'[u] = job[u]
        /\ live' = live \ {job[t].call} /\ UNCHANGED <<pending, dialled, newest>>
    BY <1>0, <1>8 DEF HungUp, Become, Cut
  <2>3. /\ job'[t].pc = "forget" /\ job'[t].phone = job[t].phone /\ job'[t].on = job[t].on
        /\ (job[t].late => job'[t].late) /\ job'[t].call = job[t].call
    BY <2>1, <2>2 DEF Hangs
  <2>4. /\ dialled[job[t].on] = job[t].phone /\ (job[t].late \/ job[t].on = newest)
        /\ dialled[job[t].call] = job[t].phone
    BY <2>1 DEF NumberInv, Hanging
  <2>5. /\ dialled[job'[t].on] = job'[t].phone /\ (job'[t].late \/ job'[t].on = newest)
        /\ dialled[job'[t].call] = job'[t].phone /\ job'[t].call \notin live'
    BY <2>2, <2>3, <2>4
  <2>6. ASSUME NEW u \in Request, u # t
        PROVE  /\ job'[u].pc = "dialled" => dialled[job'[u].call] = job'[u].phone
               /\ job'[u].pc \in {"list", "hangup", "forget"} =>
                     dialled[job'[u].on] = job'[u].phone /\ (job'[u].late \/ job'[u].on = newest)
               /\ job'[u].pc \in {"hangup", "forget"} => dialled[job'[u].call] = job'[u].phone
               /\ job'[u].pc = "forget" => job'[u].call \notin live'
    <3>1. job'[u] = job[u]
      BY <2>2, <2>6
    <3>2. QED
      BY <2>2, <3>1 DEF NumberInv, Hanging
  <2>7. pending' # None => newest' \in Made' /\ pending' = dialled'[newest']
    BY <1>a, <2>2 DEF NumberInv
  <2>8. QED
    BY <2>2, <2>3, <2>5, <2>6, <2>7 DEF NumberInv, Hanging
<1>9. ASSUME NEW t \in Request, HangUpFails(t) PROVE NumberInv'
  <2>1. live' \subseteq live /\ Become(t, Idle) /\ UNCHANGED <<pending, dialled, newest>>
    BY <1>9 DEF HangUpFails, Cut
  <2>2. QED
    BY <1>b, <2>1, LeaveStep
<1>10. ASSUME NEW t \in Request, Forget(t) PROVE NumberInv'
  BY <1>10, <1>b, LeaveStep DEF Forget
<1>11. ASSUME NEW c \in Made, End(c) PROVE NumberInv'
  BY <1>11, <1>a DEF End, NumberInv, Hanging, History
<1>12. CASE UNCHANGED callVars
  BY <1>12, <1>a DEF callVars, NumberInv, Hanging
<1>13. QED
  BY <1>1, <1>2, <1>3, <1>4, <1>5, <1>6, <1>7, <1>8, <1>9, <1>10, <1>11, <1>12 DEF CallsNext, Step

-----------------------------------------------------------------------------
(* The last call that was reported. *)

\* Every step keeps the last call within reach.
LEMMA NewestStep ==
    CallsTypeOK /\ NumberInv /\ NewestIsReachable /\ [CallsNext]_callVars => NewestIsReachable'
<1> SUFFICES ASSUME CallsTypeOK, NumberInv, NewestIsReachable, [CallsNext]_callVars PROVE NewestIsReachable'
  OBVIOUS
<1>0. /\ job \in [Request -> Job]
      /\ \A u \in Request : job[u] \in Job
  BY DEF CallsTypeOK, Job
\* Nothing happens to it, or it ends.
<1>a. ASSUME UNCHANGED <<pending, dialled, newest, overtaken>>, live' \subseteq live
      PROVE  NewestIsReachable'
  BY <1>a DEF NewestIsReachable, Redialled, Made
\* Another call is made.
<1>b. ASSUME NEW n \in Phone, Ring(n), UNCHANGED <<pending, newest, overtaken>>
      PROVE  NewestIsReachable'
  <2>1. /\ \A c \in Made : c \in Made' /\ dialled'[c] = dialled[c]
        /\ Len(dialled) + 1 # 0 /\ Len(dialled) + 1 \notin Made
    <3>1. Len(dialled) \in Nat
      BY LenProperties DEF CallsTypeOK
    <3>2. QED
      BY <1>b, <3>1, RingFacts
  <2>2. live' = live \cup {Len(dialled) + 1} /\ newest' = newest
    BY <1>b DEF Ring
  <2>3. newest' \in live' => newest \in live /\ newest \in Made
    BY <2>1, <2>2 DEF CallsTypeOK
  <2>4. ASSUME newest' \in live' PROVE pending' = dialled'[newest'] \/ overtaken' \/ Redialled(newest)'
    <3>1. newest \in Made /\ dialled'[newest] = dialled[newest]
      BY <2>1, <2>3, <2>4
    <3>2. CASE Redialled(newest)
      <4>1. PICK d \in Made \ {newest} : dialled[d] = dialled[newest]
        BY <3>2 DEF Redialled
      <4>2. d \in Made' /\ dialled'[d] = dialled'[newest']
        BY <2>1, <2>2, <3>1, <4>1
      <4>3. QED
        BY <2>2, <4>1, <4>2 DEF Redialled
    <3>3. CASE pending = dialled[newest] \/ overtaken
      BY <1>b, <3>1, <3>3
    <3>4. QED
      BY <2>3, <2>4, <3>2, <3>3 DEF NewestIsReachable
  <2>5. QED
    BY <2>2, <2>4 DEF NewestIsReachable
<1>1. ASSUME NEW t \in Request, Place(t) PROVE NewestIsReachable'
  BY <1>0, <1>1, <1>b, JobFields DEF Place, History
<1>2. ASSUME NEW t \in Request, DialFails(t) PROVE NewestIsReachable'
  BY <1>0, <1>2, <1>a, <1>b, JobFields DEF DialFails, History
<1>3. ASSUME NEW t \in Request, RememberNumber(t) PROVE NewestIsReachable'
  BY <1>3 DEF RememberNumber, NumberInv, NewestIsReachable
\* The call that was hung up is another one to the same number.
<1>4. ASSUME NEW t \in Request, Forget(t) PROVE NewestIsReachable'
  <2>1. /\ job[t].pc = "forget" /\ UNCHANGED <<dialled, live, newest>>
        /\ overtaken' = (overtaken \/ job[t].late)
    BY <1>4 DEF Forget
  <2>2. /\ job[t].on \in Made /\ job[t].call \in Made /\ job[t].late \in BOOLEAN
    BY <1>0, <2>1, JobFields
  <2>3. CASE overtaken \/ job[t].late
    BY <2>1, <2>3 DEF NewestIsReachable
  <2>4. CASE ~job[t].late /\ newest \in live
    <3>1. job[t].on = newest /\ dialled[job[t].on] = job[t].phone
      BY <2>1, <2>4 DEF NumberInv, Hanging
    <3>2. dialled[job[t].call] = job[t].phone /\ job[t].call \notin live
      BY <2>1 DEF NumberInv
    <3>3. job[t].call \in Made \ {newest} /\ dialled[job[t].call] = dialled[newest]
      BY <2>2, <2>4, <3>1, <3>2
    <3>4. Redialled(newest)'
      BY <2>1, <3>3 DEF Redialled, Made
    <3>5. QED
      BY <2>1, <3>4 DEF NewestIsReachable
  <2>5. CASE newest \notin live
    BY <2>1, <2>5 DEF NewestIsReachable
  <2>6. QED
    BY <2>3, <2>4, <2>5
<1>5. ASSUME NEW t \in Request, HungUp(t) \/ HangUpFails(t) PROVE NewestIsReachable'
  BY <1>5, <1>a DEF HungUp, HangUpFails, Cut
<1>6. ASSUME NEW t \in Request, HangUpCall(t) \/ Find(t) \/ NotFound(t) PROVE NewestIsReachable'
  BY <1>6, <1>a DEF HangUpCall, Find, NotFound, History
<1>7. ASSUME NEW t \in Request, NEW n \in Phone, MakeCall(t, n) PROVE NewestIsReachable'
  BY <1>7, <1>a DEF MakeCall, History
<1>8. ASSUME NEW c \in Made, End(c) PROVE NewestIsReachable'
  BY <1>8, <1>a DEF End, History
<1>9. CASE UNCHANGED callVars
  BY <1>9, <1>a DEF callVars
<1>10. QED
  BY <1>1, <1>2, <1>3, <1>4, <1>5, <1>6, <1>7, <1>8, <1>9 DEF CallsNext, Step

-----------------------------------------------------------------------------
(* Hanging up once. *)

\* How request u gets on when it neither reads the number nor is answered: it
\* goes on with the call it had, or ends.
GoesOn(u) ==
    /\ job'[u].pc = "dialled" => job[u].pc = "dialled" /\ job'[u].call = job[u].call
    /\ Hanging(u)' => Hanging(u) /\ job'[u].on = job[u].on
    /\ job'[u].pc \in {"list", "hangup"} => job[u].pc \in {"list", "hangup"}

\* A call whose answer is under way stays a new one as long as hang-ups are
\* of other calls.
LEMMA NewKept ==
    ASSUME NewInv, newest' = newest,
           \A u \in Request :
              /\ job'[u].pc = "dialled" => job[u].pc = "dialled" /\ job'[u].call = job[u].call
              /\ Hanging(u)' => job'[u].on = newest \/ (Hanging(u) /\ job'[u].on = job[u].on),
           \A h \in hung' : h \in hung \/ \E u \in Request : Hanging(u) /\ h[1] = job[u].on
    PROVE  NewInv'
<1> SUFFICES ASSUME NEW t \in Request, job'[t].pc = "dialled"
             PROVE  /\ job'[t].call # newest
                    /\ \A h \in hung' : h[1] # job'[t].call
                    /\ \A u \in Request : Hanging(u)' => job'[u].on # job'[t].call
                    /\ \A u \in Request : job'[u].pc = "dialled" /\ job'[u].call = job'[t].call => u = t
  BY DEF NewInv, Hanging
<1>1. job[t].pc = "dialled" /\ job'[t].call = job[t].call
  OBVIOUS
<1>2. job'[t].call # newest /\ \A h \in hung' : h[1] # job'[t].call
  BY <1>1 DEF NewInv
<1>3. \A u \in Request : Hanging(u)' => job'[u].on # job'[t].call
  BY <1>1 DEF NewInv
<1>4. \A u \in Request : job'[u].pc = "dialled" /\ job'[u].call = job'[t].call => u = t
  BY <1>1 DEF NewInv
<1>5. QED
  BY <1>2, <1>3, <1>4

\* What is said of hang-ups stays true while requests go on.
LEMMA AloneKept ==
    ASSUME AloneInv, UNCHANGED <<hung, doubtful, newest>>,
           \A u \in Request : GoesOn(u),
           \/ pending' = None
           \/ /\ pending' = pending
              /\ \A u \in Request : job[u].pc = "forget" => job'[u].pc = "forget" /\ job'[u].on = job[u].on
    PROVE  AloneInv'
<1>1. ASSUME NEW t \in Request, NEW u \in Request, Hanging(t)', Hanging(u)',
             job'[t].on = job'[u].on, job'[t].on \notin doubtful
      PROVE  t = u
  BY <1>1 DEF AloneInv, GoesOn
<1>2. ASSUME NEW h \in hung, h[1] \notin doubtful
      PROVE  /\ \A t \in Request : job'[t].pc \in {"list", "hangup"} => job'[t].on # h[1]
             /\ \/ h[1] # newest
                \/ pending' = None
                \/ \E t \in Request : job'[t].pc = "forget" /\ job'[t].on = h[1]
  <2>1. \A t \in Request : job'[t].pc \in {"list", "hangup"} => job'[t].on # h[1]
    BY <1>2 DEF AloneInv, GoesOn, Hanging
  <2>2. QED
    BY <1>2, <2>1 DEF AloneInv
<1>3. QED
  BY <1>1, <1>2 DEF AloneInv, Hanging

\* Every step keeps hang-ups apart.
LEMMA OnceStep == CallsTypeOK /\ NumberInv /\ OnceInv /\ [CallsNext]_callVars => OnceInv'
<1> SUFFICES ASSUME CallsTypeOK, NumberInv, OnceInv, [CallsNext]_callVars PROVE OnceInv'
  OBVIOUS
<1>0. /\ job \in [Request -> Job]
      /\ \A u \in Request : job[u] \in Job
  BY DEF CallsTypeOK, Job
<1>b. Idle.pc = "idle" /\ \A n : [pc |-> "dial", phone |-> n].pc = "dial"
  BY DEF Idle
\* A request that ends, or begins to dial.
<1>c. ASSUME NEW t \in Request, NEW next, next.pc \in {"idle", "dial"}, Become(t, next),
             job[t].pc # "forget" \/ pending' = None, pending' \in {pending, None},
             UNCHANGED <<newest, hung, doubtful>>
      PROVE  OnceInv'
  <2>1. job'[t] = next /\ \A u \in Request \ {t} : job'[u] = job[u]
    BY <1>0, <1>c DEF Become
  <2>2. \A u \in Request : GoesOn(u)
    BY <1>c, <2>1 DEF GoesOn, Hanging
  <2>3. NewInv'
    BY <1>c, <2>2, NewKept DEF OnceInv, GoesOn
  <2>4. AloneInv'
    BY <1>c, <2>1, <2>2, AloneKept DEF OnceInv
  <2>5. QED
    BY <1>c, <2>3, <2>4 DEF OnceInv, HungUpOnce
<1>1. ASSUME NEW t \in Request, NEW n \in Phone, MakeCall(t, n) PROVE OnceInv'
  BY <1>1, <1>b, <1>c DEF MakeCall, History
<1>2. ASSUME NEW t \in Request, HangUpCall(t) PROVE OnceInv'
  <2>1. /\ job'[t] = [pc |-> "list", phone |-> pending, on |-> newest, late |-> FALSE]
        /\ \A u \in Request \ {t} : job'[u] = job[u]
        /\ UNCHANGED <<pending, newest, hung>> /\ job[t] = Idle /\ pending # None
    BY <1>0, <1>2 DEF HangUpCall, Become
  <2>2. /\ doubtful \subseteq doubtful'
        /\ (\E u \in Request : Hanging(u) /\ job[u].on = newest) => newest \in doubtful'
    BY <1>2 DEF HangUpCall
  <2>3. NewInv'
    BY <1>b, <2>1, NewKept DEF OnceInv, Hanging
  <2>4. ASSUME NEW u \in Request, NEW v \in Request, Hanging(u)', Hanging(v)',
               job'[u].on = job'[v].on, job'[u].on \notin doubtful'
        PROVE  u = v
    BY <2>1, <2>2, <2>4 DEF OnceInv, AloneInv, Hanging
  <2>5. ASSUME NEW h \in hung, h[1] \notin doubtful'
        PROVE  h[1] # newest /\ \A u \in Request : job'[u].pc \in {"list", "hangup"} => job'[u].on # h[1]
    <3>1. h[1] # newest
      BY <2>1, <2>2, <2>5 DEF OnceInv, AloneInv, Hanging
    <3>2. QED
      BY <2>1, <2>2, <2>5, <3>1 DEF OnceInv, AloneInv
  <2>6. AloneInv'
    BY <2>1, <2>4, <2>5 DEF AloneInv, Hanging
  <2>7. HungUpOnce'
    BY <2>1, <2>2 DEF OnceInv, HungUpOnce
  <2>8. QED
    BY <2>3, <2>6, <2>7 DEF OnceInv
<1>3. ASSUME NEW t \in Request, Place(t) PROVE OnceInv'
  <2>1. job[t].pc = "dial" /\ job[t].phone \in Phone /\ Ring(job[t].phone)
    BY <1>0, <1>3, JobFields DEF Place
  <2>2. /\ job'[t].pc = "dialled" /\ job'[t].call = Len(dialled) + 1
        /\ \A u \in Request \ {t} : job'[u] = job[u]
        /\ UNCHANGED <<pending, newest, hung, doubtful>>
    BY <1>0, <1>3 DEF Place, Become, History
  <2>3. Len(dialled) + 1 \notin Made /\ Len(dialled) + 1 # 0
    <3>1. Len(dialled) \in Nat
      BY LenProperties DEF CallsTypeOK
    <3>2. QED
      BY <2>1, <3>1, RingFacts
  <2>4. newest # Len(dialled) + 1 /\ \A h \in hung : h[1] # Len(dialled) + 1
    BY <2>3 DEF CallsTypeOK
  <2>5. \A u \in Request : /\ Hanging(u) => job[u].on # Len(dialled) + 1
                           /\ job[u].pc = "dialled" => job[u].call # Len(dialled) + 1
    BY <1>0, <2>3, JobFields DEF Hanging
  <2>6. NewInv'
    <3>1. ASSUME NEW u \in Request, job'[u].pc = "dialled"
          PROVE  /\ job'[u].call # newest
                 /\ \A h \in hung : h[1] # job'[u].call
                 /\ \A v \in Request : Hanging(v)' => job'[v].on # job'[u].call
                 /\ \A v \in Request : job'[v].pc = "dialled" /\ job'[v].call = job'[u].call => v = u
      <4>1. CASE u = t
        BY <2>2, <2>4, <2>5, <4>1 DEF Hanging
      <4>2. CASE u # t
        BY <2>2, <2>5, <3>1, <4>2 DEF OnceInv, NewInv, Hanging
      <4>3. QED
        BY <4>1, <4>2
    <3>2. QED
      BY <2>2, <3>1 DEF NewInv, Hanging
  <2>7. AloneInv'
    BY <2>1, <2>2 DEF OnceInv, AloneInv, Hanging
  <2>8. QED
    BY <2>2, <2>6, <2>7 DEF OnceInv, HungUpOnce
<1>4. ASSUME NEW t \in Request, DialFails(t) PROVE OnceInv'
  BY <1>4, <1>b, <1>c DEF DialFails, History
<1>5. ASSUME NEW t \in Request, RememberNumber(t) PROVE OnceInv'
  <2>1. /\ job[t].pc = "dialled" /\ newest' = job[t].call /\ UNCHANGED <<hung, doubtful>>
    BY <1>5 DEF RememberNumber
  <2>2. ASSUME NEW u \in Request
        PROVE  /\ u = t => job'[u].pc = "idle"
               /\ u # t => job'[u].pc = job[u].pc
               /\ u # t /\ Hanging(u) => job'[u].on = job[u].on
               /\ u # t /\ job[u].pc = "dialled" => job'[u].call = job[u].call
    <3>1. CASE u = t
      BY <1>5, <1>b, <3>1 DEF RememberNumber
    <3>2. CASE u # t /\ Hanging(u)
      <4>1. job[u] \in Hangs
        BY <1>0, <3>2 DEF Hanging, Job, Idle, Dials, Hangs
      <4>2. job'[u] = [job[u] EXCEPT !.late = TRUE]
        BY <1>5, <3>2 DEF RememberNumber
      <4>3. job'[u].pc = job[u].pc /\ job'[u].on = job[u].on
        BY <4>1, <4>2 DEF Hangs
      <4>4. QED
        BY <3>2, <4>3 DEF Hanging
    <3>3. CASE u # t /\ ~Hanging(u)
      BY <1>5, <3>3 DEF RememberNumber
    <3>4. QED
      BY <3>1, <3>2, <3>3
  <2>3. NewInv'
    BY <2>1, <2>2 DEF OnceInv, NewInv, Hanging
  <2>4. \A h \in hung : h[1] # newest'
    BY <2>1 DEF OnceInv, NewInv
  <2>5. AloneInv'
    BY <2>1, <2>2, <2>4 DEF OnceInv, AloneInv, Hanging
  <2>6. QED
    BY <2>1, <2>3, <2>5 DEF OnceInv, HungUpOnce
<1>6. ASSUME NEW t \in Request, Find(t) PROVE OnceInv'
  <2>1. /\ job[t].pc = "list" /\ job'[t].pc = "hangup" /\ job'[t].on = job[t].on
        /\ \A u \in Request \ {t} : job'[u] = job[u]
        /\ UNCHANGED <<pending, newest, hung, doubtful>>
    BY <1>0, <1>6 DEF Find, Become, History
  <2>2. \A u \in Request : GoesOn(u)
    BY <2>1 DEF GoesOn, Hanging
  <2>3. NewInv' /\ AloneInv'
    BY <2>1, <2>2, NewKept, AloneKept DEF OnceInv, GoesOn
  <2>4. QED
    BY <2>1, <2>3 DEF OnceInv, HungUpOnce
<1>7. ASSUME NEW t \in Request, NotFound(t) PROVE OnceInv'
  BY <1>7, <1>b, <1>c DEF NotFound, History
\* Asterisk hangs a call up on the account of the one that t has read.
<1>d. ASSUME NEW t \in Request, job[t].pc = "hangup", Cut(t)
      PROVE  /\ hung \subseteq hung'
             /\ \A h \in hung' : h \in hung \/ h = <<job[t].on, job[t].call>>
             /\ \A h \in hung : h[1] = job[t].on => h[1] \in doubtful
  BY <1>d DEF Cut, OnceInv, AloneInv
<1>8. ASSUME NEW t \in Request, HungUp(t) PROVE OnceInv'
  <2>1. job[t] \in Hangs /\ job[t].pc = "hangup"
    BY <1>0, <1>8 DEF HungUp, Job, Idle, Dials, Hangs
  <2>2. /\ job'[t] = [job[t] EXCEPT !.pc = "forget"]
        /\ \A u \in Request \ {t} : job'[u] = job[u]
        /\ UNCHANGED <<pending, newest, doubtful>>
    BY <1>0, <1>8 DEF HungUp, Become
  <2>3. job'[t].pc = "forget" /\ job'[t].on = job[t].on
    BY <2>1, <2>2 DEF Hangs
  <2>4. /\ \A h \in hung' : h \in hung \/ h = <<job[t].on, job[t].call>>
        /\ \A h \in hung : h[1] = job[t].on => h[1] \in doubtful
    BY <1>8, <1>d DEF HungUp
  <2>5. \A u \in Request : GoesOn(u)
    BY <2>1, <2>2, <2>3 DEF GoesOn, Hanging
  <2>6. NewInv'
    <3>1. \A h \in hung' : h \in hung \/ \E u \in Request : Hanging(u) /\ h[1] = job[u].on
      BY <2>1, <2>4 DEF Hanging
    <3>2. QED
      BY <2>2, <2>5, <3>1, NewKept DEF OnceInv, GoesOn
  <2>7. ASSUME NEW u \in Request, NEW v \in Request, Hanging(u)', Hanging(v)',
               job'[u].on = job'[v].on, job'[u].on \notin doubtful
        PROVE  u = v
    BY <2>5, <2>7 DEF OnceInv, AloneInv, GoesOn
  <2>8. ASSUME NEW h \in hung', h[1] \notin doubtful
        PROVE  /\ \A u \in Request : job'[u].pc \in {"list", "hangup"} => job'[u].on # h[1]
               /\ \/ h[1] # newest
                  \/ pending = None
                  \/ \E u \in Request : job'[u].pc = "forget" /\ job'[u].on = h[1]
    <3>1. CASE h = <<job[t].on, job[t].call>>
      <4>1. h[1] = job[t].on /\ job'[t].pc = "forget" /\ job'[t].on = h[1]
        BY <2>3, <3>1
      <4>2. ASSUME NEW u \in Request, job'[u].pc \in {"list", "hangup"} PROVE job'[u].on # h[1]
        <5>1. u # t /\ job'[u] = job[u]
          BY <2>2, <2>3, <4>2
        <5>2. Hanging(t) /\ Hanging(u)
          BY <2>1, <4>2, <5>1 DEF Hanging
        <5>3. job[u].on = job[t].on => job[t].on \in doubtful
          BY <5>1, <5>2 DEF OnceInv, AloneInv
        <5>4. QED
          BY <2>8, <4>1, <5>1, <5>3
      <4>3. QED
        BY <4>1, <4>2
    <3>2. CASE h \in hung
      <4>1. job[t].on # h[1]
        BY <2>4, <2>8, <3>2
      <4>2. /\ \A u \in Request : job[u].pc \in {"list", "hangup"} => job[u].on # h[1]
            /\ h[1] # newest \/ pending = None \/ \E u \in Request : job[u].pc = "forget" /\ job[u].on = h[1]
        BY <2>8, <3>2 DEF OnceInv, AloneInv
      <4>3. \A u \in Request : job'[u].pc \in {"list", "hangup"} => job'[u].on # h[1]
        BY <2>2, <2>3, <4>2
      <4>4. ASSUME NEW u \in Request, job[u].pc = "forget", job[u].on = h[1]
            PROVE  job'[u].pc = "forget" /\ job'[u].on = h[1]
        BY <2>1, <2>2, <4>4
      <4>5. QED
        BY <4>2, <4>3, <4>4
    <3>3. QED
      BY <2>4, <3>1, <3>2
  <2>9. AloneInv'
    BY <2>2, <2>7, <2>8 DEF AloneInv, Hanging
  <2>10. HungUpOnce'
    BY <2>2, <2>4 DEF OnceInv, HungUpOnce
  <2>11. QED
    BY <2>6, <2>9, <2>10 DEF OnceInv
<1>9. ASSUME NEW t \in Request, HangUpFails(t) PROVE OnceInv'
  <2>1. /\ job[t].pc \in {"hangup", "forget"} /\ job'[t].pc = "idle"
        /\ \A u \in Request \ {t} : job'[u] = job[u]
        /\ UNCHANGED <<pending, newest>> /\ doubtful' = doubtful \cup {job[t].on}
    BY <1>0, <1>9, <1>b DEF HangUpFails, Become
  <2>2. \A h \in hung' : h \in hung \/ h = <<job[t].on, job[t].call>>
    BY <1>9, <1>d DEF HangUpFails
  <2>3. \A u \in Request : GoesOn(u)
    BY <2>1 DEF GoesOn, Hanging
  <2>4. NewInv'
    <3>1. \A h \in hung' : h \in hung \/ \E u \in Request : Hanging(u) /\ h[1] = job[u].on
      BY <2>1, <2>2 DEF Hanging
    <3>2. QED
      BY <2>1, <2>3, <3>1, NewKept DEF OnceInv, GoesOn
  <2>5. \A h \in hung' : h[1] \notin doubtful' => h \in hung /\ h[1] \notin doubtful
    BY <2>1, <2>2
  <2>6. AloneInv'
    <3>1. ASSUME NEW u \in Request, NEW v \in Request, Hanging(u)', Hanging(v)',
                 job'[u].on = job'[v].on, job'[u].on \notin doubtful'
          PROVE  u = v
      BY <2>1, <2>3, <3>1 DEF OnceInv, AloneInv, GoesOn
    <3>2. ASSUME NEW h \in hung', h[1] \notin doubtful'
          PROVE  /\ \A u \in Request : job'[u].pc \in {"list", "hangup"} => job'[u].on # h[1]
                 /\ \/ h[1] # newest
                    \/ pending = None
                    \/ \E u \in Request : job'[u].pc = "forget" /\ job'[u].on = h[1]
      BY <2>1, <2>5, <3>2 DEF OnceInv, AloneInv
    <3>3. QED
      BY <2>1, <3>1, <3>2 DEF AloneInv, Hanging
  <2>7. HungUpOnce'
    BY <2>5 DEF OnceInv, HungUpOnce
  <2>8. QED
    BY <2>4, <2>6, <2>7 DEF OnceInv
<1>10. ASSUME NEW t \in Request, Forget(t) PROVE OnceInv'
  BY <1>10, <1>b, <1>c DEF Forget
<1>11. ASSUME UNCHANGED <<pending, job, newest, hung, doubtful>> PROVE OnceInv'
  BY <1>11 DEF OnceInv, NewInv, AloneInv, HungUpOnce, Hanging
<1>12. QED
  <2>1. ASSUME NEW c \in Made, End(c) PROVE OnceInv'
    BY <1>11, <2>1 DEF End, History
  <2>2. CASE UNCHANGED callVars
    BY <1>11, <2>2 DEF callVars
  <2>3. QED
    BY <1>1, <1>2, <1>3, <1>4, <1>5, <1>6, <1>7, <1>8, <1>9, <1>10, <2>1, <2>2 DEF CallsNext, Step

-----------------------------------------------------------------------------
(* The theorems. *)

\* The inductive invariant holds in every reachable state.
THEOREM OutgoingInvariance == CallsSpec => []OutInv
<1>1. CallsInit => OutInv
  BY OutInit
<1>2. OutInv /\ [CallsNext]_callVars => OutInv'
  BY OutTypes, NumberStep, NewestStep, OnceStep DEF OutInv
<1>3. QED
  BY <1>1, <1>2, PTL DEF CallsSpec

\* Every variable of the outgoing calls keeps its type; in particular a hang-up
\* never starts without a number to hang up.
THEOREM OutgoingTypes == CallsSpec => []CallsTypeOK
<1>1. OutInv => CallsTypeOK
  BY DEF OutInv
<1>2. QED
  BY <1>1, OutgoingInvariance, PTL

\* A reported call can be hung up: hangup_call finds its number unless a hang-up
\* that was under way has forgotten it, or the number was called twice.
THEOREM NewestReachable == CallsSpec => []NewestIsReachable
<1>1. OutInv => NewestIsReachable
  BY DEF OutInv
<1>2. QED
  BY <1>1, OutgoingInvariance, PTL

\* hangup_call does not hang up twice on one account unless hang-ups overlap or
\* one of them failed.
THEOREM NoDoubleHangup == CallsSpec => []HungUpOnce
<1>1. OutInv => HungUpOnce
  BY DEF OutInv, OnceInv
<1>2. QED
  BY <1>1, OutgoingInvariance, PTL
=============================================================================
