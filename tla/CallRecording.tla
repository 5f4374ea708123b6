---------------------------- MODULE CallRecording ----------------------------
(***************************************************************************)
(* A call, from the Asterisk dialplan to its row in the calls table:       *)
(*   - the dialplan (config/3/asterisk/extensions.conf) emits UserEvents;  *)
(*   - the event pump of ami_transport.rs translates AMI packets;          *)
(*   - one consumer (modem/manager.rs, handle_modem_event) updates the row *)
(*     and spawns ingest_recording tasks, which run concurrently.          *)
(* Packets travel in order through the socket, the broadcast channel and   *)
(* the mpsc channel.  A call stands for its ${UNIQUEID}; its channel name  *)
(* is another name, under which it may have a second row; its recording    *)
(* path is a third, which no row is keyed by.                              *)
(***************************************************************************)
EXTENDS Naturals, Sequences

CONSTANTS Call,         \* calls of one SIM, by UNIQUEID
          NoRow,        \* a call_id that no row has: a recording path
          MaxInFlight   \* bound: packets and events on their way to the consumer

\* The names of the channels, and the call_ids a row can be keyed by.
ChannelOf(c) == <<c, "channel">>
Channel == {ChannelOf(c) : c \in Call}
Key     == Call \cup Channel

ASSUME CallAssumption == NoRow \notin Key /\ Call \cap Channel = {}

VARIABLES
    leg,        \* where the dialplan stands for each call
    file,       \* the recording file of each call, as ingest_recording sees it
    ami,        \* AMI packets sent and not yet translated
    pathOf,     \* pending_originates: calls whose recording path is remembered
    events,     \* ModemEvents not yet consumed
    mapped,     \* instance_by_sim has the SIM
    row,        \* the calls table
    task,       \* the ingest_recording tasks, by the event that spawned them
    lost        \* a packet or a statement has been lost

vars == <<leg, file, ami, pathOf, events, mapped, row, task, lost>>

Trigger == {"CallEnded", "RecordingDone"}
Task    == Call \X Trigger
Audio   == {"none", "header", "partial", "closed"}
Id      == Key \cup {NoRow}

Packet == [name : {"CallStarted", "CallAnswered", "CallEnded", "Newchannel",
                   "Newstate", "Hangup", "MixMonitorStop"}, call : Call]
Pkt(n, c) == [name |-> n, call |-> c]

ModemEvent == [kind : {"CallRinging", "CallAnswered"} \cup {"CallEnded", "RecordingDone"},
               id : Id, path : Id]
Ev(k, i, p) == [kind |-> k, id |-> i, path |-> p]

Row == [status : {"none", "ringing", "active", "ended"},
        recording : Audio, transcript : Audio]
TaskState == [pc : {"none", "check", "read", "save", "transcribe", "done"},
              id : Id, data : Audio]

TypeOK ==
    /\ leg \in [Call -> {"none", "started", "up", "finished", "gone"}]
    /\ file \in [Call -> Audio]
    /\ ami \in Seq(Packet)
    /\ pathOf \subseteq Call
    /\ events \in Seq(ModemEvent)
    /\ mapped \in BOOLEAN
    /\ row \in [Key -> Row]
    /\ task \in [Task -> TaskState]
    /\ lost \in BOOLEAN

Init ==
    /\ leg = [c \in Call |-> "none"]
    /\ file = [c \in Call |-> "none"]
    /\ ami = <<>>
    /\ pathOf = {}
    /\ events = <<>>
    /\ mapped = TRUE
    /\ row = [k \in Key |-> [status |-> "none", recording |-> "none",
                              transcript |-> "none"]]
    /\ task = [t \in Task |-> [pc |-> "none", id |-> NoRow, data |-> "none"]]
    /\ lost = FALSE

-----------------------------------------------------------------------------
(* The dialplan and MixMonitor. *)

gatewayVars == <<pathOf, events, mapped, row, task, lost>>

Emit(packets) ==
    /\ Len(ami) + Len(events) + Len(packets) <= MaxInFlight
    /\ ami' = ami \o packets

\* UserEvent(CallStarted), inbound ([volte_ims]) or outbound ([from-sip]).
\* Asterisk announces the channel before the dialplan runs; the gateway only
\* hears an announcement in state Ringing.
StartCall(c) ==
    /\ leg[c] = "none"
    /\ leg' = [leg EXCEPT ![c] = "started"]
    /\ \/ Emit(<<Pkt("CallStarted", c)>>)
       \/ Emit(<<Pkt("Newchannel", c), Pkt("CallStarted", c)>>)
    /\ UNCHANGED <<file, gatewayVars>>

\* Inbound: Answer(), MixMonitor(), UserEvent(CallAnswered), Wait(60).
\* Outbound: MixMonitor(), Dial(); the far end answers and Asterisk reports it
\* under the channel name only.
AnswerCall(c) ==
    /\ leg[c] = "started"
    /\ leg' = [leg EXCEPT ![c] = "up"]
    /\ file' = [file EXCEPT ![c] = "header"]
    /\ \/ Emit(<<Pkt("Newstate", c), Pkt("CallAnswered", c)>>)
       \/ Emit(<<Pkt("Newstate", c)>>)
    /\ UNCHANGED gatewayVars

\* Inbound: the 60 seconds are over.  Outbound: Dial() came back unanswered.
\* UserEvent(CallEnded) precedes Hangup(): MixMonitor is still writing.
FinishCall(c) ==
    /\ leg[c] \in {"started", "up"}
    /\ leg' = [leg EXCEPT ![c] = "finished"]
    /\ file' = IF leg[c] = "started" THEN [file EXCEPT ![c] = "header"] ELSE file
    /\ Emit(<<Pkt("CallEnded", c)>>)
    /\ UNCHANGED gatewayVars

\* The channel goes away: after CallEnded, or because a party hung up, in
\* which case the dialplan is cut short.  MixMonitorStop is unreliable.
HangUp(c) ==
    /\ leg[c] \in {"started", "up", "finished"}
    /\ leg' = [leg EXCEPT ![c] = "gone"]
    /\ \/ Emit(<<Pkt("Hangup", c)>>)
       \/ file[c] # "none" /\ Emit(<<Pkt("MixMonitorStop", c), Pkt("Hangup", c)>>)
    /\ UNCHANGED <<file, gatewayVars>>

\* MixMonitor writes past the header while the channel lives, then closes.
WriteAudio(c) ==
    /\ \/ /\ leg[c] \in {"up", "finished"} /\ file[c] = "header"
          /\ file' = [file EXCEPT ![c] = "partial"]
       \/ /\ leg[c] = "gone" /\ file[c] \in {"header", "partial"}
          /\ file' = [file EXCEPT ![c] = "closed"]
    /\ UNCHANGED <<leg, ami, gatewayVars>>

-----------------------------------------------------------------------------
(* The event pump. *)

\* Mutant of Translate: MixMonitorStop resolved from the file name alone.
BugResolve(p) ==
    CASE p.name = "CallStarted"  -> Ev("CallRinging", p.call, NoRow)
      [] p.name = "CallAnswered" -> Ev("CallAnswered", p.call, NoRow)
      [] p.name = "CallEnded"    -> Ev("CallEnded", p.call, p.call)
      [] p.name = "Newchannel" -> Ev("CallRinging", ChannelOf(p.call), NoRow)
      [] p.name \in {"Newstate", "Hangup"} -> Ev("CallEnded", ChannelOf(p.call), NoRow)
      [] p.name = "MixMonitorStop" -> Ev("RecordingDone", p.call, p.call)

\* translate_event: only the UserEvents carry the UNIQUEID.  Newchannel,
\* Newstate and Hangup carry the channel name; MixMonitorStop carries the path,
\* resolved through the map that CallEnded filled.
Translate(p) ==
    CASE p.name = "CallStarted"  -> Ev("CallRinging", p.call, NoRow)
      [] p.name = "CallAnswered" -> Ev("CallAnswered", p.call, NoRow)
      [] p.name = "CallEnded"    -> Ev("CallEnded", p.call, p.call)
      [] p.name = "Newchannel"   -> Ev("CallRinging", ChannelOf(p.call), NoRow)
      [] p.name = "Newstate"     -> Ev("CallAnswered", ChannelOf(p.call), NoRow)
      [] p.name = "Hangup"       -> Ev("CallEnded", ChannelOf(p.call), NoRow)
      [] p.name = "MixMonitorStop" ->
            Ev("RecordingDone", IF p.call \in pathOf THEN p.call ELSE NoRow, p.call)

Remember(p) ==
    CASE p.name = "CallEnded"      -> pathOf \cup {p.call}
      [] p.name = "MixMonitorStop" -> pathOf \ {p.call}
      [] OTHER                     -> pathOf

\* Mutant of Pump: one forwarding task per packet, which may overtake.
BugOvertake ==
    /\ ami # <<>>
    /\ ami' = Tail(ami)
    /\ pathOf' = Remember(Head(ami))
    /\ \/ events' = Append(events, Translate(Head(ami)))
       \/ events' = <<Translate(Head(ami))>> \o events
    /\ UNCHANGED <<leg, file, mapped, row, task, lost>>

Pump ==
    /\ ami # <<>>
    /\ ami' = Tail(ami)
    /\ pathOf' = Remember(Head(ami))
    /\ events' = Append(events, Translate(Head(ami)))
    /\ UNCHANGED <<leg, file, mapped, row, task, lost>>

\* The broadcast channel lagged, or the AMI connection was down meanwhile.
LosePacket ==
    /\ ami # <<>>
    /\ ami' = Tail(ami)
    /\ lost' = TRUE
    /\ UNCHANGED <<leg, file, pathOf, events, mapped, row, task>>

-----------------------------------------------------------------------------
(* The consumer: handle_modem_event, one event at a time. *)

\* UPDATE calls SET status WHERE id: no row, no effect; an error is logged.
SetStatus(id, status) ==
    \/ /\ row' = IF id \in Key /\ row[id].status # "none"
                 THEN [row EXCEPT ![id].status = status] ELSE row
       /\ UNCHANGED lost
    \/ /\ lost' = TRUE
       /\ UNCHANGED row

\* INSERT OR IGNORE.
InsertRinging(id) ==
    \/ /\ row' = IF row[id].status = "none"
                 THEN [row EXCEPT ![id].status = "ringing"] ELSE row
       /\ UNCHANGED lost
    \/ /\ lost' = TRUE
       /\ UNCHANGED row

\* tokio::spawn(ingest_recording), unless the SIM has no instance any more.
SpawnIngest(ev) ==
    task' = IF mapped /\ ev.path \in Call
            THEN [task EXCEPT ![<<ev.path, ev.kind>>] =
                     [pc |-> "check", id |-> ev.id, data |-> "none"]]
            ELSE task

Handle(ev) ==
    \/ ev.kind = "CallRinging" /\ InsertRinging(ev.id) /\ UNCHANGED task
    \/ ev.kind = "CallAnswered" /\ SetStatus(ev.id, "active") /\ UNCHANGED task
    \/ ev.kind = "CallEnded" /\ SetStatus(ev.id, "ended") /\ SpawnIngest(ev)
    \/ ev.kind = "RecordingDone" /\ SpawnIngest(ev) /\ UNCHANGED <<row, lost>>

Consume ==
    /\ events # <<>>
    /\ events' = Tail(events)
    /\ Handle(Head(events))
    /\ UNCHANGED <<leg, file, ami, pathOf, mapped>>

\* rescan_sims removes the SIM, or finds it again.
Rescan ==
    /\ mapped' = ~mapped
    /\ UNCHANGED <<leg, file, ami, pathOf, events, row, task, lost>>

-----------------------------------------------------------------------------
(* ingest_recording, one action per stretch between awaits. *)

ingestVars == <<leg, file, ami, pathOf, events, mapped>>

\* Only calls with a row can have a recording; everyone else proceeds.
Recorded(id) == id \in Key /\ row[id].recording # "none"

CheckRecording(t) ==
    /\ task[t].pc = "check"
    /\ task' = [task EXCEPT ![t].pc = IF Recorded(task[t].id) THEN "done" ELSE "read"]
    /\ UNCHANGED <<ingestVars, row, lost>>

\* Mutant of ReadFile: polls until the file has grown, without the 40 tries.
BugPollForever(t) ==
    /\ task[t].pc = "read"
    /\ file[t[1]] \in {"partial", "closed"}
    /\ task' = [task EXCEPT ![t].pc = "save", ![t].data = file[t[1]]]
    /\ UNCHANGED <<ingestVars, row, lost>>

\* The polling ends when the file has at least 100 bytes or after 40 tries,
\* so it may end at any time; whatever is there is read.
ReadFile(t) ==
    /\ task[t].pc = "read"
    /\ task' = [task EXCEPT ![t].pc = IF file[t[1]] = "none" THEN "done" ELSE "save",
                            ![t].data = file[t[1]]]
    /\ UNCHANGED <<ingestVars, row, lost>>

\* UPDATE calls SET recording WHERE id, then transcribe if it is configured.
SaveRecording(t) ==
    /\ task[t].pc = "save"
    /\ \/ /\ row' = IF task[t].id \in Key /\ row[task[t].id].status # "none"
                    THEN [row EXCEPT ![task[t].id].recording = task[t].data] ELSE row
          /\ \E next \in {"transcribe", "done"} : task' = [task EXCEPT ![t].pc = next]
          /\ UNCHANGED lost
       \/ /\ lost' = TRUE
          /\ task' = [task EXCEPT ![t].pc = "done"]
          /\ UNCHANGED row
    /\ UNCHANGED ingestVars

\* The transcript is of the bytes this task has read, or whisper fails.
SaveTranscript(t) ==
    /\ task[t].pc = "transcribe"
    /\ task' = [task EXCEPT ![t].pc = "done"]
    /\ \/ row' = IF task[t].id \in Key /\ row[task[t].id].status # "none"
                 THEN [row EXCEPT ![task[t].id].transcript = task[t].data] ELSE row
       \/ UNCHANGED row
    /\ UNCHANGED <<ingestVars, lost>>

-----------------------------------------------------------------------------
Dialplan(c) == \/ StartCall(c) \/ AnswerCall(c) \/ FinishCall(c) \/ HangUp(c)
               \/ WriteAudio(c)

Ingest(t) == CheckRecording(t) \/ ReadFile(t) \/ SaveRecording(t) \/ SaveTranscript(t)

Next == \/ \E c \in Call : Dialplan(c)
        \/ Pump \/ LosePacket \/ Consume \/ Rescan
        \/ \E t \in Task : Ingest(t)

\* The pump, the consumer and every spawned task keep being polled.  Nothing
\* is assumed of the dialplan, the parties or the SIM slots.
Fairness == WF_vars(Pump) /\ WF_vars(Consume) /\ \A t \in Task : WF_vars(Ingest(t))

Spec == Init /\ [][Next]_vars /\ Fairness

-----------------------------------------------------------------------------
(* Properties. *)

\* A call that has ended does not come back to life, although CallAnswered
\* overwrites any status (update_status has no guard): only the order of the
\* two queues and the single consumer prevent it.
EndedIsFinal == [][\A c \in Call : row[c].status = "ended" =>
                                       row'[c].status = "ended"]_vars

\* A recording is attached only to a call that is over.  MixMonitorStop may
\* come first, but it resolves to the call only through the entry that the
\* same call's CallEnded left in pending_originates.
RecordedWhenEnded == \A c \in Call :
    row[c].recording # "none" /\ ~lost => row[c].status = "ended"

\* When the dialplan reaches its end and nothing is lost, the row ends, however
\* busy the pump and the consumer are; and the recording is stored, even if the
\* file never grows past its header, unless the SIM was removed meanwhile.
FinishIsRecorded ==
    /\ \A c \in Call : leg[c] = "finished" ~> (row[c].status = "ended" \/ lost)
    /\ []mapped => \A c \in Call : leg[c] = "finished" ~> (row[c].recording # "none" \/ lost)

\* What extensions.conf:13-14 says, "CallId is always ${UNIQUEID} for
\* correlation across UserEvents and Hangup/MixMonitorStop AMI events": once the
\* Hangup of a call has been consumed its row is no longer ringing or active.
\* (The Hangup ends the row keyed by the channel name, if there is one.)
HangupEndsCall ==
    (ami = <<>> /\ events = <<>> /\ ~lost) =>
        \A c \in Call : leg[c] = "gone" => row[c].status \notin {"ringing", "active"}
=============================================================================
