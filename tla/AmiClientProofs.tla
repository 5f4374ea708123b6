--------------------------- MODULE AmiClientProofs ---------------------------
(***************************************************************************)
(* Theorems about AmiClient for any set of calls, any back-off cap and any *)
(* number of packets in flight.                                            *)
(***************************************************************************)
EXTENDS AmiClient, SequenceTheorems, TLAPS

(* The inductive invariant, in parts. *)

\* The oneshot of a call is open exactly while its sender is in the map, and a
\* call that has not started has no oneshot.
SlotInv == \A c \in Call : /\ slot[c] = "open" <=> c \in pending
                           /\ call[c] = "idle" <=> slot[c] = "none"

\* Only calls that have started are known to Asterisk, and only executed ones
\* are answered.
KnownInv == /\ \A c \in accepted \cup orphaned \cup executed : call[c] # "idle"
            /\ \A k \in 1..Len(inbound) :
                   inbound[k].id # NoCall => inbound[k].id \in executed
            /\ \A c \in Call : slot[c] = "response" => c \in executed

\* In what Asterisk has sent, an Event that repeats a pending ActionID comes
\* after the Response that will take that entry; so no oneshot holds an Event.
OrderInv == /\ \A c \in Call : slot[c] # "event"
            /\ \A c \in pending, k \in 1..Len(inbound) :
                   inbound[k] = Event(c) => \E j \in 1..(k-1) : inbound[j] = Response(c)

\* What a returned call says about its oneshot.
ReturnInv == \A c \in Call : /\ call[c] = "ok" => slot[c] = "response"
                             /\ call[c] = "dropped" => slot[c] = "closed"
                             /\ call[c] = "timeout" => c \notin pending

\* The writer, the login and the actions Asterisk holds belong to the
\* connection that the supervisor reads.
ConnInv == /\ writer => sup \in {"reading", "closing"} \/ (sup = "stopped" /\ shutdown)
           /\ writer => authed
           /\ sup = "publish" => authed
           /\ sup = "closing" => link = "closed"
           /\ accepted # {} => link = "open" /\ writer

IInv == TypeOK /\ SlotInv /\ KnownInv /\ OrderInv /\ ReturnInv /\ ConnInv

-----------------------------------------------------------------------------
(* Packets and the byte stream. *)

\* The packets Asterisk sends are packets, and their kinds tell them apart.
LEMMA PacketFacts ==
    /\ \A c \in Call : Response(c) \in Packet /\ Event(c) \in Packet
    /\ Event(NoCall) \in Packet
    /\ \A p \in Packet : p.id \in Call => p = Response(p.id) \/ p = Event(p.id)
    /\ \A p \in Packet, c \in Call : p = Event(c) => p.id = c /\ p.kind = "event"
    /\ \A p \in Packet, c \in Call : p = Response(c) => p.id = c /\ p.kind = "response"
BY CallAssumption DEF Packet, Response, Event

\* A lost suffix leaves a prefix.
LEMMA PrefixFacts ==
    ASSUME NEW s \in Seq(Packet), NEW n \in 0..Len(s)
    PROVE  /\ SubSeq(s, 1, n) \in Seq(Packet)
           /\ Len(SubSeq(s, 1, n)) = n
           /\ \A i \in 1..n : SubSeq(s, 1, n)[i] = s[i]
<1>1. \A i \in 1..n : s[i] \in Packet
  BY ElementOfSeq
<1>2. QED
  BY <1>1, SubSeqProperties

\* What carrying an action out does to the stream.
LEMMA ExecuteAppends ==
    ASSUME inbound \in Seq(Packet), NEW c \in Call, Execute(c)
    PROVE  /\ Len(inbound') >= Len(inbound) + 1 /\ Len(inbound') <= Len(inbound) + 2
           /\ \A k \in 1..Len(inbound) : inbound'[k] = inbound[k]
           /\ inbound'[Len(inbound) + 1] = Response(c)
           /\ Len(inbound') = Len(inbound) + 2 => inbound'[Len(inbound) + 2] = Event(c)
<1> DEFINE one == Append(inbound, Response(c))
           two == Append(one, Event(c))
<1>1. /\ one \in Seq(Packet) /\ Len(one) = Len(inbound) + 1
      /\ one[Len(inbound) + 1] = Response(c)
      /\ \A k \in 1..Len(inbound) : one[k] = inbound[k]
  BY PacketFacts, AppendProperties
<1>2. /\ Len(two) = Len(one) + 1 /\ two[Len(one) + 1] = Event(c)
      /\ \A k \in 1..Len(one) : two[k] = one[k]
  <2> HIDE DEF one
  <2> QED
    BY <1>1, PacketFacts, AppendProperties
<1>3. inbound' = one \/ inbound' = two
  BY DEF Execute
<1>4. Len(inbound) \in Nat
  OBVIOUS
<1> HIDE DEF one, two
<1>5. QED
  BY <1>1, <1>2, <1>3, <1>4

-----------------------------------------------------------------------------
(* Type correctness. *)

\* The initial state satisfies every part of the inductive invariant.
LEMMA InitIInv == Init => IInv
<1> SUFFICES ASSUME Init PROVE IInv
  OBVIOUS
<1>1. inbound \in Seq(Packet) /\ Len(inbound) = 0
  BY EmptySeq DEF Init
<1>2. TypeOK
  <2>1. backoff \in 1..MaxBackoff
    BY BackoffAssumption DEF Init
  <2>2. call \in [Call -> Stage \cup Result] /\ slot \in [Call -> {"none", "open", "closed", "response", "event"}]
    BY DEF Init, Stage
  <2>3. QED
    BY <1>1, <2>1, <2>2 DEF Init, TypeOK, InRunOnce
<1>3. SlotInv /\ ReturnInv /\ ConnInv
  BY DEF Init, SlotInv, ReturnInv, ConnInv
<1>4. KnownInv /\ OrderInv
  BY <1>1 DEF Init, KnownInv, OrderInv
<1>5. QED
  BY <1>2, <1>3, <1>4 DEF IInv

\* Every step keeps the types (the variables of action_with_timeout, of the
\* supervisor and of the socket).
LEMMA TypeStep == TypeOK /\ [Next]_vars => TypeOK'
<1> SUFFICES ASSUME TypeOK, [Next]_vars PROVE TypeOK'
  OBVIOUS
<1> USE DEF TypeOK, supVars, linkVars, InRunOnce, Stage, Result, Failure
<1>1. ASSUME NEW c \in Call, Register(c) PROVE TypeOK'
  BY <1>1 DEF Register
<1>2. ASSUME NEW c \in Call, SendUnconnected(c) PROVE TypeOK'
  BY <1>2 DEF SendUnconnected
<1>3. ASSUME NEW c \in Call, SendWritten(c) PROVE TypeOK'
  BY <1>3 DEF SendWritten
<1>4. ASSUME NEW c \in Call, SendFailed(c) PROVE TypeOK'
  BY <1>4 DEF SendFailed
<1>5. ASSUME NEW c \in Call, AwaitResolved(c) PROVE TypeOK'
  BY <1>5 DEF AwaitResolved
<1>6. ASSUME NEW c \in Call, AwaitExpired(c) PROVE TypeOK'
  BY <1>6 DEF AwaitExpired
<1>7. ASSUME NEW c \in Call, ReturnTimeout(c) PROVE TypeOK'
  BY <1>7 DEF ReturnTimeout
<1>8. ASSUME NEW c \in Call, Cancel(c) PROVE TypeOK'
  BY <1>8 DEF Cancel
<1>9. ASSUME Connect PROVE TypeOK'
  BY <1>9, EmptySeq DEF Connect
<1>10. ASSUME Login PROVE TypeOK'
  BY <1>10, EmptySeq DEF Login
<1>11. ASSUME PublishWriter PROVE TypeOK'
  BY <1>11 DEF PublishWriter
<1>12. ASSUME ReadPacket PROVE TypeOK'
  <2>1. Tail(inbound) \in Seq(Packet) /\ Head(inbound) \in Packet
    BY <1>12, HeadTailProperties DEF ReadPacket
  <2>2. Head(inbound).kind \in {"response", "event"}
    BY <2>1 DEF Packet
  <2>3. QED
    BY <1>12, <2>1, <2>2 DEF ReadPacket, Deliver
<1>13. ASSUME ReadEof PROVE TypeOK'
  BY <1>13 DEF ReadEof
<1>14. ASSUME WithdrawWriter PROVE TypeOK'
  BY <1>14 DEF WithdrawWriter
<1>15. ASSUME Drain PROVE TypeOK'
  BY <1>15 DEF Drain
<1>16. ASSUME Wake PROVE TypeOK'
  BY <1>16, BackoffAssumption DEF Wake
<1>17. ASSUME Stop PROVE TypeOK'
  BY <1>17 DEF Stop
<1>18. ASSUME RequestShutdown PROVE TypeOK'
  BY <1>18 DEF RequestShutdown
<1>19. ASSUME NEW c \in Call, Execute(c) PROVE TypeOK'
  <2>1. Append(inbound, Response(c)) \in Seq(Packet)
    BY PacketFacts, AppendProperties
  <2>2. Append(Append(inbound, Response(c)), Event(c)) \in Seq(Packet)
    BY <2>1, PacketFacts, AppendProperties
  <2>3. QED
    BY <1>19, <2>1, <2>2 DEF Execute
<1>20. ASSUME NEW c \in Call, ExecuteOrphan(c) PROVE TypeOK'
  BY <1>20 DEF ExecuteOrphan
<1>21. ASSUME EmitEvent PROVE TypeOK'
  BY <1>21, PacketFacts, AppendProperties DEF EmitEvent
<1>22. ASSUME PeerClose PROVE TypeOK'
  <2>1. inbound' \in Seq(Packet)
    BY <1>22, PrefixFacts DEF PeerClose
  <2>2. QED
    BY <1>22, <2>1 DEF PeerClose
<1>23. ASSUME UNCHANGED vars PROVE TypeOK'
  BY <1>23 DEF vars
<1>24. QED
  BY <1>1, <1>2, <1>3, <1>4, <1>5, <1>6, <1>7, <1>8, <1>9, <1>10, <1>11, <1>12, <1>13, <1>14, <1>15, <1>16, <1>17, <1>18, <1>19, <1>20, <1>21, <1>22, <1>23 DEF Next, CallerStep, SupervisorStep, AsteriskStep

\* Type correctness of the client for every set of calls.
THEOREM TypeCorrect == Spec => []TypeOK
<1>1. Init => TypeOK
  BY InitIInv DEF IInv
<1>2. QED
  BY <1>1, TypeStep, PTL DEF Spec

-----------------------------------------------------------------------------
(* The other parts of the inductive invariant, one lemma each. *)

\* The oneshots follow the pending map (insert, remove, clear).
LEMMA SlotStep == IInv /\ [Next]_vars => SlotInv'
<1> SUFFICES ASSUME IInv, [Next]_vars PROVE SlotInv'
  OBVIOUS
<1> TypeOK'
  BY TypeStep DEF IInv
<1> USE DEF IInv, TypeOK, SlotInv, supVars, linkVars
<1>1. ASSUME NEW c \in Call, Register(c) PROVE SlotInv'
  BY <1>1 DEF Register
<1>2. ASSUME NEW c \in Call, SendUnconnected(c) PROVE SlotInv'
  BY <1>2 DEF SendUnconnected
<1>3. ASSUME NEW c \in Call, SendWritten(c) PROVE SlotInv'
  BY <1>3 DEF SendWritten
<1>4. ASSUME NEW c \in Call, SendFailed(c) PROVE SlotInv'
  BY <1>4 DEF SendFailed
<1>5. ASSUME NEW c \in Call, AwaitResolved(c) PROVE SlotInv'
  BY <1>5 DEF AwaitResolved
<1>6. ASSUME NEW c \in Call, AwaitExpired(c) PROVE SlotInv'
  BY <1>6 DEF AwaitExpired
<1>7. ASSUME NEW c \in Call, ReturnTimeout(c) PROVE SlotInv'
  BY <1>7 DEF ReturnTimeout
<1>8. ASSUME NEW c \in Call, Cancel(c) PROVE SlotInv'
  BY <1>8 DEF Cancel
<1>9. ASSUME Connect PROVE SlotInv'
  BY <1>9 DEF Connect
<1>10. ASSUME Login PROVE SlotInv'
  BY <1>10 DEF Login
<1>11. ASSUME PublishWriter PROVE SlotInv'
  BY <1>11 DEF PublishWriter
<1>12. ASSUME ReadPacket PROVE SlotInv'
  <2>1. Head(inbound) \in Packet
    BY <1>12, HeadTailProperties DEF ReadPacket
  <2>2. Head(inbound).kind \in {"response", "event"}
    BY <2>1 DEF Packet
  <2>3. QED
    BY <1>12, <2>2 DEF ReadPacket, Deliver
<1>13. ASSUME ReadEof PROVE SlotInv'
  BY <1>13 DEF ReadEof
<1>14. ASSUME WithdrawWriter PROVE SlotInv'
  BY <1>14 DEF WithdrawWriter
<1>15. ASSUME Drain PROVE SlotInv'
  BY <1>15 DEF Drain
<1>16. ASSUME Wake PROVE SlotInv'
  BY <1>16 DEF Wake
<1>17. ASSUME Stop PROVE SlotInv'
  BY <1>17 DEF Stop
<1>18. ASSUME RequestShutdown PROVE SlotInv'
  BY <1>18 DEF RequestShutdown
<1>19. ASSUME NEW c \in Call, Execute(c) PROVE SlotInv'
  BY <1>19 DEF Execute
<1>20. ASSUME NEW c \in Call, ExecuteOrphan(c) PROVE SlotInv'
  BY <1>20 DEF ExecuteOrphan
<1>21. ASSUME EmitEvent PROVE SlotInv'
  BY <1>21 DEF EmitEvent
<1>22. ASSUME PeerClose PROVE SlotInv'
  BY <1>22 DEF PeerClose
<1>23. ASSUME UNCHANGED vars PROVE SlotInv'
  BY <1>23 DEF vars
<1>24. QED
  BY <1>1, <1>2, <1>3, <1>4, <1>5, <1>6, <1>7, <1>8, <1>9, <1>10, <1>11, <1>12, <1>13, <1>14, <1>15, <1>16, <1>17, <1>18, <1>19, <1>20, <1>21, <1>22, <1>23 DEF Next, CallerStep, SupervisorStep, AsteriskStep

\* A returned call and its oneshot agree.
LEMMA ReturnStep == IInv /\ [Next]_vars => ReturnInv'
<1> SUFFICES ASSUME IInv, [Next]_vars PROVE ReturnInv'
  OBVIOUS
<1> TypeOK'
  BY TypeStep DEF IInv
<1> USE DEF IInv, TypeOK, ReturnInv, supVars, linkVars
<1>1. ASSUME NEW c \in Call, Register(c) PROVE ReturnInv'
  BY <1>1 DEF Register
<1>2. ASSUME NEW c \in Call, SendUnconnected(c) PROVE ReturnInv'
  BY <1>2 DEF SendUnconnected
<1>3. ASSUME NEW c \in Call, SendWritten(c) PROVE ReturnInv'
  BY <1>3 DEF SendWritten
<1>4. ASSUME NEW c \in Call, SendFailed(c) PROVE ReturnInv'
  BY <1>4 DEF SendFailed
<1>5. ASSUME NEW c \in Call, AwaitResolved(c) PROVE ReturnInv'
  BY <1>5 DEF AwaitResolved, OrderInv
<1>6. ASSUME NEW c \in Call, AwaitExpired(c) PROVE ReturnInv'
  BY <1>6 DEF AwaitExpired
<1>7. ASSUME NEW c \in Call, ReturnTimeout(c) PROVE ReturnInv'
  BY <1>7 DEF ReturnTimeout
<1>8. ASSUME NEW c \in Call, Cancel(c) PROVE ReturnInv'
  BY <1>8 DEF Cancel
<1>9. ASSUME Connect PROVE ReturnInv'
  BY <1>9 DEF Connect
<1>10. ASSUME Login PROVE ReturnInv'
  BY <1>10 DEF Login
<1>11. ASSUME PublishWriter PROVE ReturnInv'
  BY <1>11 DEF PublishWriter
<1>12. ASSUME ReadPacket PROVE ReturnInv'
  BY <1>12 DEF ReadPacket, Deliver, SlotInv
<1>13. ASSUME ReadEof PROVE ReturnInv'
  BY <1>13 DEF ReadEof
<1>14. ASSUME WithdrawWriter PROVE ReturnInv'
  BY <1>14 DEF WithdrawWriter
<1>15. ASSUME Drain PROVE ReturnInv'
  BY <1>15 DEF Drain, SlotInv
<1>16. ASSUME Wake PROVE ReturnInv'
  BY <1>16 DEF Wake
<1>17. ASSUME Stop PROVE ReturnInv'
  BY <1>17 DEF Stop
<1>18. ASSUME RequestShutdown PROVE ReturnInv'
  BY <1>18 DEF RequestShutdown
<1>19. ASSUME NEW c \in Call, Execute(c) PROVE ReturnInv'
  BY <1>19 DEF Execute
<1>20. ASSUME NEW c \in Call, ExecuteOrphan(c) PROVE ReturnInv'
  BY <1>20 DEF ExecuteOrphan
<1>21. ASSUME EmitEvent PROVE ReturnInv'
  BY <1>21 DEF EmitEvent
<1>22. ASSUME PeerClose PROVE ReturnInv'
  BY <1>22 DEF PeerClose
<1>23. ASSUME UNCHANGED vars PROVE ReturnInv'
  BY <1>23 DEF vars
<1>24. QED
  BY <1>1, <1>2, <1>3, <1>4, <1>5, <1>6, <1>7, <1>8, <1>9, <1>10, <1>11, <1>12, <1>13, <1>14, <1>15, <1>16, <1>17, <1>18, <1>19, <1>20, <1>21, <1>22, <1>23 DEF Next, CallerStep, SupervisorStep, AsteriskStep

\* Writer, login and carried actions belong to the connection being read.
LEMMA ConnStep == IInv /\ [Next]_vars => ConnInv'
<1> SUFFICES ASSUME IInv, [Next]_vars PROVE ConnInv'
  OBVIOUS
<1> TypeOK'
  BY TypeStep DEF IInv
<1> USE DEF IInv, TypeOK, ConnInv, supVars, linkVars
<1>1. ASSUME NEW c \in Call, Register(c) PROVE ConnInv'
  BY <1>1 DEF Register
<1>2. ASSUME NEW c \in Call, SendUnconnected(c) PROVE ConnInv'
  BY <1>2 DEF SendUnconnected
<1>3. ASSUME NEW c \in Call, SendWritten(c) PROVE ConnInv'
  BY <1>3 DEF SendWritten
<1>4. ASSUME NEW c \in Call, SendFailed(c) PROVE ConnInv'
  BY <1>4 DEF SendFailed
<1>5. ASSUME NEW c \in Call, AwaitResolved(c) PROVE ConnInv'
  BY <1>5 DEF AwaitResolved
<1>6. ASSUME NEW c \in Call, AwaitExpired(c) PROVE ConnInv'
  BY <1>6 DEF AwaitExpired
<1>7. ASSUME NEW c \in Call, ReturnTimeout(c) PROVE ConnInv'
  BY <1>7 DEF ReturnTimeout
<1>8. ASSUME NEW c \in Call, Cancel(c) PROVE ConnInv'
  BY <1>8 DEF Cancel
<1>9. ASSUME Connect PROVE ConnInv'
  BY <1>9 DEF Connect
<1>10. ASSUME Login PROVE ConnInv'
  BY <1>10 DEF Login
<1>11. ASSUME PublishWriter PROVE ConnInv'
  BY <1>11 DEF PublishWriter
<1>12. ASSUME ReadPacket PROVE ConnInv'
  BY <1>12 DEF ReadPacket, Deliver
<1>13. ASSUME ReadEof PROVE ConnInv'
  BY <1>13 DEF ReadEof
<1>14. ASSUME WithdrawWriter PROVE ConnInv'
  BY <1>14 DEF WithdrawWriter
<1>15. ASSUME Drain PROVE ConnInv'
  BY <1>15 DEF Drain
<1>16. ASSUME Wake PROVE ConnInv'
  BY <1>16 DEF Wake
<1>17. ASSUME Stop PROVE ConnInv'
  BY <1>17 DEF Stop
<1>18. ASSUME RequestShutdown PROVE ConnInv'
  BY <1>18 DEF RequestShutdown
<1>19. ASSUME NEW c \in Call, Execute(c) PROVE ConnInv'
  BY <1>19 DEF Execute
<1>20. ASSUME NEW c \in Call, ExecuteOrphan(c) PROVE ConnInv'
  BY <1>20 DEF ExecuteOrphan
<1>21. ASSUME EmitEvent PROVE ConnInv'
  BY <1>21 DEF EmitEvent
<1>22. ASSUME PeerClose PROVE ConnInv'
  BY <1>22 DEF PeerClose
<1>23. ASSUME UNCHANGED vars PROVE ConnInv'
  BY <1>23 DEF vars
<1>24. QED
  BY <1>1, <1>2, <1>3, <1>4, <1>5, <1>6, <1>7, <1>8, <1>9, <1>10, <1>11, <1>12, <1>13, <1>14, <1>15, <1>16, <1>17, <1>18, <1>19, <1>20, <1>21, <1>22, <1>23 DEF Next, CallerStep, SupervisorStep, AsteriskStep

\* What Asterisk knows and has answered was started and executed.
LEMMA KnownStep == IInv /\ [Next]_vars => KnownInv'
<1> SUFFICES ASSUME IInv, [Next]_vars PROVE KnownInv'
  OBVIOUS
<1> TypeOK'
  BY TypeStep DEF IInv
<1> USE DEF IInv, TypeOK, KnownInv, supVars, linkVars
<1>1. ASSUME NEW c \in Call, Register(c) PROVE KnownInv'
  BY <1>1 DEF Register
<1>2. ASSUME NEW c \in Call, SendUnconnected(c) PROVE KnownInv'
  BY <1>2 DEF SendUnconnected
<1>3. ASSUME NEW c \in Call, SendWritten(c) PROVE KnownInv'
  BY <1>3 DEF SendWritten
<1>4. ASSUME NEW c \in Call, SendFailed(c) PROVE KnownInv'
  BY <1>4 DEF SendFailed
<1>5. ASSUME NEW c \in Call, AwaitResolved(c) PROVE KnownInv'
  BY <1>5 DEF AwaitResolved
<1>6. ASSUME NEW c \in Call, AwaitExpired(c) PROVE KnownInv'
  BY <1>6 DEF AwaitExpired
<1>7. ASSUME NEW c \in Call, ReturnTimeout(c) PROVE KnownInv'
  BY <1>7 DEF ReturnTimeout
<1>8. ASSUME NEW c \in Call, Cancel(c) PROVE KnownInv'
  BY <1>8 DEF Cancel
<1>9. ASSUME Connect PROVE KnownInv'
  BY <1>9, EmptySeq DEF Connect
<1>10. ASSUME Login PROVE KnownInv'
  BY <1>10, EmptySeq DEF Login
<1>11. ASSUME PublishWriter PROVE KnownInv'
  BY <1>11 DEF PublishWriter
<1>12. ASSUME ReadPacket PROVE KnownInv'
  <2>1. /\ Head(inbound) = inbound[1] /\ Head(inbound) \in Packet
        /\ Len(inbound') = Len(inbound) - 1 /\ 1 \in 1..Len(inbound)
        /\ \A k \in 1..Len(inbound') : inbound'[k] = inbound[k+1] /\ k+1 \in 1..Len(inbound)
    BY <1>12, HeadTailProperties DEF ReadPacket
  <2>2. \A c \in Call : slot'[c] = "response" => c \in executed
    BY <1>12, <2>1, CallAssumption DEF ReadPacket, Deliver
  <2>3. QED
    BY <1>12, <2>1, <2>2 DEF ReadPacket
<1>13. ASSUME ReadEof PROVE KnownInv'
  BY <1>13 DEF ReadEof
<1>14. ASSUME WithdrawWriter PROVE KnownInv'
  BY <1>14 DEF WithdrawWriter
<1>15. ASSUME Drain PROVE KnownInv'
  BY <1>15 DEF Drain, SlotInv
<1>16. ASSUME Wake PROVE KnownInv'
  BY <1>16 DEF Wake
<1>17. ASSUME Stop PROVE KnownInv'
  BY <1>17 DEF Stop
<1>18. ASSUME RequestShutdown PROVE KnownInv'
  BY <1>18 DEF RequestShutdown
<1>19. ASSUME NEW c \in Call, Execute(c) PROVE KnownInv'
  <2>1. /\ Len(inbound') >= Len(inbound) + 1 /\ Len(inbound') <= Len(inbound) + 2
        /\ \A k \in 1..Len(inbound) : inbound'[k] = inbound[k]
        /\ inbound'[Len(inbound) + 1] = Response(c)
        /\ Len(inbound') = Len(inbound) + 2 => inbound'[Len(inbound) + 2] = Event(c)
    BY <1>19, ExecuteAppends
  <2>2. Response(c).id = c /\ Event(c).id = c
    BY DEF Response, Event
  <2>3. \A k \in 1..Len(inbound') : inbound'[k].id # NoCall => inbound'[k].id \in executed'
    <3> SUFFICES ASSUME NEW k \in 1..Len(inbound'), inbound'[k].id # NoCall
                 PROVE  inbound'[k].id \in executed'
      OBVIOUS
    <3>1. k \in 1..Len(inbound) \/ inbound'[k].id = c
      BY <2>1, <2>2
    <3>2. QED
      BY <1>19, <3>1, <2>1 DEF Execute
  <2>4. QED
    BY <1>19, <2>3 DEF Execute
<1>20. ASSUME NEW c \in Call, ExecuteOrphan(c) PROVE KnownInv'
  BY <1>20 DEF ExecuteOrphan
<1>21. ASSUME EmitEvent PROVE KnownInv'
  <2>1. /\ Len(inbound') = Len(inbound) + 1 /\ inbound'[Len(inbound) + 1] = Event(NoCall)
        /\ \A k \in 1..Len(inbound) : inbound'[k] = inbound[k]
    BY <1>21, PacketFacts, AppendProperties DEF EmitEvent
  <2>2. Event(NoCall).id = NoCall
    BY DEF Event
  <2>3. QED
    BY <1>21, <2>1, <2>2 DEF EmitEvent
<1>22. ASSUME PeerClose PROVE KnownInv'
  <2>1. PICK n \in 0..Len(inbound) : inbound' = SubSeq(inbound, 1, n)
    BY <1>22 DEF PeerClose
  <2>2. Len(inbound') = n /\ \A k \in 1..n : inbound'[k] = inbound[k]
    BY <2>1, PrefixFacts
  <2>3. QED
    BY <1>22, <2>2 DEF PeerClose
<1>23. ASSUME UNCHANGED vars PROVE KnownInv'
  BY <1>23 DEF vars
<1>24. QED
  BY <1>1, <1>2, <1>3, <1>4, <1>5, <1>6, <1>7, <1>8, <1>9, <1>10, <1>11, <1>12, <1>13, <1>14, <1>15, <1>16, <1>17, <1>18, <1>19, <1>20, <1>21, <1>22, <1>23 DEF Next, CallerStep, SupervisorStep, AsteriskStep

\* The Response that takes an entry precedes the Events that repeat its ActionID.
LEMMA OrderStep == IInv /\ [Next]_vars => OrderInv'
<1> SUFFICES ASSUME IInv, [Next]_vars PROVE OrderInv'
  OBVIOUS
<1> TypeOK'
  BY TypeStep DEF IInv
<1> USE DEF IInv, TypeOK, OrderInv, supVars, linkVars
<1>1. ASSUME NEW c \in Call, Register(c) PROVE OrderInv'
  <2>1. \A k \in 1..Len(inbound) : inbound[k] # Event(c)
    BY <1>1, PacketFacts, ElementOfSeq, CallAssumption DEF Register, KnownInv
  <2>2. QED
    BY <1>1, <2>1 DEF Register
<1>2. ASSUME NEW c \in Call, SendUnconnected(c) PROVE OrderInv'
  BY <1>2 DEF SendUnconnected
<1>3. ASSUME NEW c \in Call, SendWritten(c) PROVE OrderInv'
  BY <1>3 DEF SendWritten
<1>4. ASSUME NEW c \in Call, SendFailed(c) PROVE OrderInv'
  BY <1>4 DEF SendFailed
<1>5. ASSUME NEW c \in Call, AwaitResolved(c) PROVE OrderInv'
  BY <1>5 DEF AwaitResolved
<1>6. ASSUME NEW c \in Call, AwaitExpired(c) PROVE OrderInv'
  BY <1>6 DEF AwaitExpired
<1>7. ASSUME NEW c \in Call, ReturnTimeout(c) PROVE OrderInv'
  BY <1>7 DEF ReturnTimeout
<1>8. ASSUME NEW c \in Call, Cancel(c) PROVE OrderInv'
  BY <1>8 DEF Cancel
<1>9. ASSUME Connect PROVE OrderInv'
  BY <1>9, EmptySeq DEF Connect
<1>10. ASSUME Login PROVE OrderInv'
  BY <1>10, EmptySeq DEF Login
<1>11. ASSUME PublishWriter PROVE OrderInv'
  BY <1>11 DEF PublishWriter
<1>12. ASSUME ReadPacket PROVE OrderInv'
  <2>1. /\ Head(inbound) = inbound[1] /\ Head(inbound) \in Packet
        /\ Len(inbound') = Len(inbound) - 1 /\ 1 \in 1..Len(inbound)
        /\ \A k \in 1..Len(inbound') : inbound'[k] = inbound[k+1] /\ k+1 \in 1..Len(inbound)
    BY <1>12, HeadTailProperties DEF ReadPacket
  <2>2. \A c \in pending : Head(inbound).id = c => Head(inbound) = Response(c)
    BY <2>1, PacketFacts
  <2>3. \A c \in Call : slot'[c] # "event"
    BY <1>12, <2>1, <2>2, PacketFacts DEF ReadPacket, Deliver
  <2>4. ASSUME NEW c \in pending', NEW k \in 1..Len(inbound'), inbound'[k] = Event(c)
        PROVE  \E j \in 1..(k-1) : inbound'[j] = Response(c)
    <3>1. c \in pending /\ Head(inbound).id # c
      BY <1>12 DEF ReadPacket, Deliver
    <3>2. PICK j \in 1..k : inbound[j] = Response(c)
      BY <2>1, <2>4, <3>1
    <3>3. j # 1
      BY <3>1, <3>2, <2>1 DEF Response
    <3>4. j - 1 \in 1..(k-1) /\ inbound'[j-1] = inbound[j]
      <4>1. Len(inbound') \in Nat
        OBVIOUS
      <4>2. j - 1 \in 1..(k-1) /\ j - 1 \in 1..Len(inbound')
        BY <3>3, <4>1
      <4>3. inbound'[j-1] = inbound[(j-1)+1]
        BY <4>2, <2>1
      <4>4. QED
        BY <4>2, <4>3
    <3>5. QED
      BY <3>2, <3>4
  <2>5. QED
    BY <2>3, <2>4
<1>13. ASSUME ReadEof PROVE OrderInv'
  BY <1>13 DEF ReadEof
<1>14. ASSUME WithdrawWriter PROVE OrderInv'
  BY <1>14 DEF WithdrawWriter
<1>15. ASSUME Drain PROVE OrderInv'
  BY <1>15 DEF Drain
<1>16. ASSUME Wake PROVE OrderInv'
  BY <1>16 DEF Wake
<1>17. ASSUME Stop PROVE OrderInv'
  BY <1>17 DEF Stop
<1>18. ASSUME RequestShutdown PROVE OrderInv'
  BY <1>18 DEF RequestShutdown
<1>19. ASSUME NEW c \in Call, Execute(c) PROVE OrderInv'
  <2>1. /\ Len(inbound') >= Len(inbound) + 1 /\ Len(inbound') <= Len(inbound) + 2
        /\ \A k \in 1..Len(inbound) : inbound'[k] = inbound[k]
        /\ inbound'[Len(inbound) + 1] = Response(c)
        /\ Len(inbound') = Len(inbound) + 2 => inbound'[Len(inbound) + 2] = Event(c)
    BY <1>19, ExecuteAppends
  <2>2. ASSUME NEW d \in pending', NEW k \in 1..Len(inbound'), inbound'[k] = Event(d)
        PROVE  \E j \in 1..(k-1) : inbound'[j] = Response(d)
    <3>1. CASE k \in 1..Len(inbound)
      <4>1. d \in pending /\ inbound[k] = Event(d)
        BY <1>19, <2>1, <2>2, <3>1 DEF Execute
      <4>2. PICK j \in 1..(k-1) : inbound[j] = Response(d)
        BY <3>1, <4>1
      <4>3. j \in 1..Len(inbound)
        BY <3>1
      <4>4. QED
        BY <4>2, <4>3, <2>1
    <3>2. CASE k = Len(inbound) + 1
      BY <2>1, <2>2, <3>2, PacketFacts DEF Response, Event
    <3>3. CASE k = Len(inbound) + 2
      <4>1. d = c
        BY <2>1, <2>2, <3>3 DEF Event
      <4>2. Len(inbound) + 1 \in 1..(k-1)
        BY <3>3
      <4>3. QED
        BY <4>1, <4>2, <2>1
    <3>4. QED
      BY <2>1, <3>1, <3>2, <3>3
  <2>3. QED
    BY <1>19, <2>2 DEF Execute
<1>20. ASSUME NEW c \in Call, ExecuteOrphan(c) PROVE OrderInv'
  BY <1>20 DEF ExecuteOrphan
<1>21. ASSUME EmitEvent PROVE OrderInv'
  <2>1. /\ Len(inbound') = Len(inbound) + 1 /\ inbound'[Len(inbound) + 1] = Event(NoCall)
        /\ \A k \in 1..Len(inbound) : inbound'[k] = inbound[k]
    BY <1>21, PacketFacts, AppendProperties DEF EmitEvent
  <2>2. \A c \in Call : Event(NoCall) # Event(c)
    BY CallAssumption DEF Event
  <2>3. ASSUME NEW c \in pending, NEW k \in 1..Len(inbound'), inbound'[k] = Event(c)
        PROVE  \E j \in 1..(k-1) : inbound'[j] = Response(c)
    <3>1. k \in 1..Len(inbound)
      BY <2>1, <2>2, <2>3
    <3>2. QED
      BY <2>1, <2>3, <3>1
  <2>4. QED
    BY <1>21, <2>3 DEF EmitEvent
<1>22. ASSUME PeerClose PROVE OrderInv'
  <2>1. PICK n \in 0..Len(inbound) : inbound' = SubSeq(inbound, 1, n)
    BY <1>22 DEF PeerClose
  <2>2. Len(inbound') = n /\ \A k \in 1..n : inbound'[k] = inbound[k]
    BY <2>1, PrefixFacts
  <2>3. QED
    BY <1>22, <2>2 DEF PeerClose
<1>23. ASSUME UNCHANGED vars PROVE OrderInv'
  BY <1>23 DEF vars
<1>24. QED
  BY <1>1, <1>2, <1>3, <1>4, <1>5, <1>6, <1>7, <1>8, <1>9, <1>10, <1>11, <1>12, <1>13, <1>14, <1>15, <1>16, <1>17, <1>18, <1>19, <1>20, <1>21, <1>22, <1>23 DEF Next, CallerStep, SupervisorStep, AsteriskStep

-----------------------------------------------------------------------------
(* The results. *)

\* The inductive invariant holds in every behaviour of the client.
THEOREM Invariance == Spec => []IInv
<1>1. IInv /\ [Next]_vars => IInv'
  BY TypeStep, SlotStep, ReturnStep, ConnStep, KnownStep, OrderStep DEF IInv
<1>2. QED
  BY InitIInv, <1>1, PTL DEF Spec

\* Whatever the number of callers and reconnections, success is reported only
\* with the Response to that action.
THEOREM AnswersAreTrue == Spec => []AnsweredTruly
<1>1. IInv => AnsweredTruly
  BY DEF IInv, ReturnInv, KnownInv, AnsweredTruly
<1>2. QED
  BY Invariance, <1>1, PTL

\* Calls that were answered, drained or timed out leave nothing in the map.
THEOREM OnlyUnsentLeak == Spec => []LeaksOnlyUnsent
<1>1. IInv => LeaksOnlyUnsent
  BY DEF IInv, TypeOK, ReturnInv, SlotInv, LeaksOnlyUnsent, Result, Failure
<1>2. QED
  BY Invariance, <1>1, PTL

\* No action precedes the login of the connection that carries it.
THEOREM ActionsAfterLogin == Spec => []LoginFirst
<1>1. IInv => LoginFirst
  BY DEF IInv, ConnInv, LoginFirst
<1>2. QED
  BY Invariance, <1>1, PTL

\* A published writer always has a reader, until the client is shut down.
THEOREM WritersAreRead == Spec => []WriterHasReader
<1>1. IInv => WriterHasReader
  BY DEF IInv, ConnInv, WriterHasReader
<1>2. QED
  BY Invariance, <1>1, PTL

-----------------------------------------------------------------------------
(* The client implements AmiRpc. *)

\* The status that the refinement mapping gives a call.
StatusOf(c) == IF call[c] = "idle" THEN "unused"
               ELSE IF call[c] = "ok" THEN "answered"
               ELSE IF call[c] \in Failure THEN "failed"
               ELSE "open"
Status == [c \in Call |-> StatusOf(c)]

\* A step that moves one call moves the mapped status of that call alone.
LEMMA StatusMoves ==
    ASSUME TypeOK, NEW c \in Call, NEW r \in Stage \cup Result,
           call' = [call EXCEPT ![c] = r]
    PROVE  Status' = [Status EXCEPT ![c] = IF r = "idle" THEN "unused"
                                           ELSE IF r = "ok" THEN "answered"
                                           ELSE IF r \in Failure THEN "failed" ELSE "open"]
BY DEF TypeOK, Status, StatusOf

\* Every step of the client is a step of AmiRpc or leaves its state alone.
LEMMA RpcStep == IInv /\ [Next]_vars => [Rpc!RpcNext]_(Rpc!rpcVars)
<1> SUFFICES ASSUME IInv, [Next]_vars PROVE [Rpc!RpcNext]_(Rpc!rpcVars)
  OBVIOUS
<1> DEFINE Stutter == Status' = Status /\ executed' = executed
           Moves(c, from, to) == /\ Status[c] = from
                                 /\ Status' = [Status EXCEPT ![c] = to]
                                 /\ executed' = executed
<1>a. Stutter => [Rpc!RpcNext]_(Rpc!rpcVars)
  BY DEF Status, StatusOf, Rpc!rpcVars
<1>b. ASSUME NEW c \in Call, Moves(c, "open", "failed") PROVE [Rpc!RpcNext]_(Rpc!rpcVars)
  <2>1. Rpc!Fail(c)
    BY <1>b DEF Status, StatusOf, Rpc!Fail
  <2>2. QED
    BY <2>1 DEF Rpc!RpcNext
<1>c. ASSUME NEW c \in Call, c \in executed, Moves(c, "open", "answered")
      PROVE [Rpc!RpcNext]_(Rpc!rpcVars)
  <2>1. Rpc!Answer(c)
    BY <1>c DEF Status, StatusOf, Rpc!Answer
  <2>2. QED
    BY <2>1 DEF Rpc!RpcNext
<1>d. ASSUME NEW c \in Call, call[c] # "idle", executed' = executed \cup {c}, call' = call
      PROVE [Rpc!RpcNext]_(Rpc!rpcVars)
  <2>1. Status' = Status /\ Status[c] # "unused"
    BY <1>d DEF Status, StatusOf
  <2>2. CASE c \in executed
    BY <1>a, <1>d, <2>1, <2>2
  <2>3. CASE c \notin executed
    <3>1. Rpc!Perform(c)
      BY <1>d, <2>1, <2>3 DEF Status, StatusOf, Rpc!Perform
    <3>2. QED
      BY <3>1 DEF Rpc!RpcNext
  <2>4. QED
    BY <2>2, <2>3
<1> USE DEF IInv, supVars, linkVars
<1>1. ASSUME NEW c \in Call, Register(c) PROVE [Rpc!RpcNext]_(Rpc!rpcVars)
  <2>1. Moves(c, "unused", "open")
    <3>1. Status[c] = "unused"
      BY <1>1 DEF Register, Status, StatusOf
    <3>2. "registered" \in Stage \cup Result /\ "registered" \notin Failure
      BY DEF Stage, Failure
    <3>3. Status' = [Status EXCEPT ![c] = "open"]
      BY <1>1, <3>2, StatusMoves DEF Register
    <3>4. QED
      BY <1>1, <3>1, <3>3 DEF Register
  <2>2. Rpc!Open(c)
    BY <2>1 DEF Status, StatusOf, Rpc!Open
  <2>3. QED
    BY <2>2 DEF Rpc!RpcNext
<1>2. ASSUME NEW c \in Call, SendUnconnected(c) PROVE [Rpc!RpcNext]_(Rpc!rpcVars)
  <2>1. Moves(c, "open", "failed")
    BY <1>2, StatusMoves DEF SendUnconnected, Result, Failure, Status, StatusOf
  <2>2. QED
    BY <2>1, <1>b
<1>3. ASSUME NEW c \in Call, SendFailed(c) PROVE [Rpc!RpcNext]_(Rpc!rpcVars)
  <2>1. Moves(c, "open", "failed")
    BY <1>3, StatusMoves DEF SendFailed, Result, Failure, Status, StatusOf
  <2>2. QED
    BY <2>1, <1>b
<1>4. ASSUME NEW c \in Call, ReturnTimeout(c) PROVE [Rpc!RpcNext]_(Rpc!rpcVars)
  <2>1. Moves(c, "open", "failed")
    BY <1>4, StatusMoves DEF ReturnTimeout, Result, Failure, Status, StatusOf
  <2>2. QED
    BY <2>1, <1>b
<1>5. ASSUME NEW c \in Call, Cancel(c) PROVE [Rpc!RpcNext]_(Rpc!rpcVars)
  <2>1. Moves(c, "open", "failed")
    BY <1>5, StatusMoves DEF Cancel, Result, Failure, Status, StatusOf
  <2>2. QED
    BY <2>1, <1>b
<1>6. ASSUME NEW c \in Call, SendWritten(c) PROVE [Rpc!RpcNext]_(Rpc!rpcVars)
  <2>1. Stutter
    BY <1>6 DEF SendWritten, TypeOK, Failure, Status, StatusOf
  <2>2. QED
    BY <2>1, <1>a
<1>7. ASSUME NEW c \in Call, AwaitExpired(c) PROVE [Rpc!RpcNext]_(Rpc!rpcVars)
  <2>1. Stutter
    BY <1>7 DEF AwaitExpired, TypeOK, Failure, Status, StatusOf
  <2>2. QED
    BY <2>1, <1>a
<1>8. ASSUME NEW c \in Call, AwaitResolved(c) PROVE [Rpc!RpcNext]_(Rpc!rpcVars)
  <2>1. CASE slot[c] \in {"response", "event"} /\ call' = [call EXCEPT ![c] = "ok"]
    <3>1. Moves(c, "open", "answered")
      BY <1>8, <2>1, StatusMoves DEF AwaitResolved, Result, Failure, Status, StatusOf
    <3>2. c \in executed
      BY <2>1 DEF KnownInv, OrderInv
    <3>3. QED
      BY <3>1, <3>2, <1>c
  <2>2. CASE call' = [call EXCEPT ![c] = "dropped"]
    <3>1. Moves(c, "open", "failed")
      BY <1>8, <2>2, StatusMoves DEF AwaitResolved, Result, Failure, Status, StatusOf
    <3>2. QED
      BY <3>1, <1>b
  <2>3. QED
    BY <1>8, <2>1, <2>2 DEF AwaitResolved
<1>9. ASSUME Connect PROVE [Rpc!RpcNext]_(Rpc!rpcVars)
  BY <1>9, <1>a DEF Connect, Status, StatusOf
<1>10. ASSUME Login PROVE [Rpc!RpcNext]_(Rpc!rpcVars)
  BY <1>10, <1>a DEF Login, Status, StatusOf
<1>11. ASSUME PublishWriter PROVE [Rpc!RpcNext]_(Rpc!rpcVars)
  BY <1>11, <1>a DEF PublishWriter, Status, StatusOf
<1>12. ASSUME ReadPacket PROVE [Rpc!RpcNext]_(Rpc!rpcVars)
  BY <1>12, <1>a DEF ReadPacket, Status, StatusOf
<1>13. ASSUME ReadEof PROVE [Rpc!RpcNext]_(Rpc!rpcVars)
  BY <1>13, <1>a DEF ReadEof, Status, StatusOf
<1>14. ASSUME WithdrawWriter PROVE [Rpc!RpcNext]_(Rpc!rpcVars)
  BY <1>14, <1>a DEF WithdrawWriter, Status, StatusOf
<1>15. ASSUME Drain PROVE [Rpc!RpcNext]_(Rpc!rpcVars)
  BY <1>15, <1>a DEF Drain, Status, StatusOf
<1>16. ASSUME Wake PROVE [Rpc!RpcNext]_(Rpc!rpcVars)
  BY <1>16, <1>a DEF Wake, Status, StatusOf
<1>17. ASSUME Stop PROVE [Rpc!RpcNext]_(Rpc!rpcVars)
  BY <1>17, <1>a DEF Stop, Status, StatusOf
<1>18. ASSUME RequestShutdown PROVE [Rpc!RpcNext]_(Rpc!rpcVars)
  BY <1>18, <1>a DEF RequestShutdown, Status, StatusOf
<1>19. ASSUME EmitEvent PROVE [Rpc!RpcNext]_(Rpc!rpcVars)
  BY <1>19, <1>a DEF EmitEvent, Status, StatusOf
<1>20. ASSUME PeerClose PROVE [Rpc!RpcNext]_(Rpc!rpcVars)
  BY <1>20, <1>a DEF PeerClose, Status, StatusOf
<1>21. ASSUME NEW c \in Call, Execute(c) PROVE [Rpc!RpcNext]_(Rpc!rpcVars)
  BY <1>21, <1>d DEF Execute, KnownInv
<1>22. ASSUME NEW c \in Call, ExecuteOrphan(c) PROVE [Rpc!RpcNext]_(Rpc!rpcVars)
  BY <1>22, <1>d DEF ExecuteOrphan, KnownInv
<1>23. ASSUME UNCHANGED vars PROVE [Rpc!RpcNext]_(Rpc!rpcVars)
  BY <1>23, <1>a DEF vars, Status, StatusOf
<1>24. QED
  BY <1>1, <1>2, <1>3, <1>4, <1>5, <1>6, <1>7, <1>8, <1>9, <1>10, <1>11, <1>12, <1>13, <1>14, <1>15, <1>16, <1>17, <1>18, <1>19, <1>20, <1>21, <1>22, <1>23 DEF Next, CallerStep, SupervisorStep, AsteriskStep

\* Each call is answered at most once and only after Asterisk has carried it
\* out; once it has failed it never succeeds: the refinement, for any set of calls.
THEOREM Refinement == Spec => ImplementsRpc
<1>1. Init => Rpc!RpcInit
  BY DEF Init, Rpc!RpcInit
<1>2. QED
  BY Invariance, <1>1, RpcStep, PTL DEF Spec, ImplementsRpc, Rpc!RpcSpec
=============================================================================
