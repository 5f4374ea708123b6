----------------------------- MODULE SimRegistry -----------------------------
(***************************************************************************)
(* Which SIM is reached through which Asterisk instance.                   *)
(*   - cards sit in reader slots and are moved by hand;                    *)
(*   - the watch loop (start_sim_container_config.py) polls the readers    *)
(*     and writes what it sees to sim_inventory.db;                        *)
(*   - the gateway (modem/manager.rs) discovers SIMs from that database at *)
(*     startup and rescans it every minute, statement by statement, while  *)
(*     the watch loop goes on writing.                                     *)
(* Reader index i serves Asterisk instance i + 1 everywhere, so a reader   *)
(* stands for its instance number.  A card stands for its ICCID.           *)
(***************************************************************************)
EXTENDS Naturals, FiniteSets, FiniteSetsExt

CONSTANTS Sim,              \* SIM cards
          NoSim,            \* an empty slot, a missing row
          Reader,           \* readers, by the number of their instance
          RemoveThreshold,  \* REMOVE_THRESHOLD: failed reads before a card is gone
          MaxMoves,         \* bound: cards put into a slot by hand
          MaxFaults         \* bound: bad reads, failed enumerations and restarts

ASSUME SimAssumption == NoSim \notin Sim
ASSUME ReaderAssumption == Reader \subseteq Nat \ {0} /\ IsFiniteSet(Reader)
ASSUME ThresholdAssumption == RemoveThreshold \in Nat \ {0}

VARIABLES
    slot,       \* the card in each reader
    usable,     \* readers.status is neither 'empty' nor 'error'
    row,        \* the sims table, by reader
    last,       \* last_iccid of the watch loop
    failures,   \* read_failures of the watch loop
    present,    \* last_reader_indices: the readers of its last enumeration
    watch,      \* where the watch loop stands
    transport,  \* the reader each SIM's AMI transport is connected to, or 0
    instance,   \* instance_by_sim and msisdn_to_sim, or 0
    scan,       \* where rescan_sims stands
    moves, faults,
    visited,    \* history: which card was ever in which reader
    restarted   \* history: the watch loop has been restarted

slotVars  == <<slot, moves, visited>>
watchVars == <<last, failures, present, watch, restarted>>
gatewayVars == <<transport, instance, scan>>
vars == <<slot, usable, row, last, failures, present, watch, transport, instance, scan,
          moves, faults, visited, restarted>>

Card == Sim \cup {NoSim}
None == 0
Place == Reader \cup {None}

Watch == [pc : {"lost", "fail", "walk", "remove", "vacate", "mark", "save"},
          todo : SUBSET Reader, at : Place, card : Card, from : Place]
\* Asleep: all readers that were seen are done.
Asleep == [pc |-> "walk", todo |-> {}, at |-> None, card |-> NoSim, from |-> None]

Scan == [pc : {"idle", "check", "remove", "unmap", "add", "map"},
         existing : SUBSET Sim, check : SUBSET Sim, remove : SUBSET Sim,
         rows : SUBSET (Reader \X Sim), sim : Card, reader : Place]
Idle == [pc |-> "idle", existing |-> {}, check |-> {}, remove |-> {}, rows |-> {},
         sim |-> NoSim, reader |-> None]

TypeOK ==
    /\ slot \in [Reader -> Card]
    /\ usable \in [Reader -> BOOLEAN]
    /\ row \in [Reader -> Card]
    /\ last \in [Reader -> Card]
    /\ failures \in [Reader -> 0..RemoveThreshold]
    /\ present \subseteq Reader
    /\ watch \in Watch
    /\ transport \in [Sim -> Place]
    /\ instance \in [Sim -> Place]
    /\ scan \in Scan
    /\ moves \in Nat /\ faults \in Nat
    /\ visited \subseteq Reader \X Sim /\ restarted \in BOOLEAN

Rows == {<<r, row[r]>> : r \in {q \in Reader : row[q] # NoSim}}

\* initialize: one transport per row with a usable reader; a later row of the
\* same SIM overwrites the entry of an earlier one.
Discover == [s \in Sim |-> Max({r \in Reader : row[r] = s /\ usable[r]} \cup {None})]

\* Set up, watched and discovered; initialize fails without any transport.
Init ==
    /\ slot \in [Reader -> Card]
    /\ \A s \in Sim : Cardinality({r \in Reader : slot[r] = s}) <= 1
    /\ \E r \in Reader : slot[r] # NoSim
    /\ usable = [r \in Reader |-> slot[r] # NoSim]
    /\ row = slot
    /\ last = slot
    /\ failures = [r \in Reader |-> 0]
    /\ present = Reader
    /\ watch = Asleep
    /\ transport = Discover
    /\ instance = transport
    /\ scan = Idle
    /\ moves = 0
    /\ faults = 0
    /\ visited = Rows
    /\ restarted = FALSE

Fault == faults < MaxFaults /\ faults' = faults + 1

-----------------------------------------------------------------------------
(* Hands. *)

Insert(s, r) ==
    /\ moves < MaxMoves
    /\ slot[r] = NoSim
    /\ \A q \in Reader : slot[q] # s
    /\ slot' = [slot EXCEPT ![r] = s]
    /\ moves' = moves + 1
    /\ visited' = visited \cup {<<r, s>>}
    /\ UNCHANGED <<usable, row, watchVars, gatewayVars, faults>>

Eject(r) ==
    /\ slot[r] # NoSim
    /\ slot' = [slot EXCEPT ![r] = NoSim]
    /\ UNCHANGED <<usable, row, watchVars, gatewayVars, moves, faults, visited>>

-----------------------------------------------------------------------------
(* The watch loop: one action per write to the database. *)

\* Enumerating the readers runs a command in a container, and may miss some or
\* all.  Those that were there at the last poll are given up one by one; the
\* others are read.
WatchPoll ==
    /\ watch = Asleep
    /\ \E seen \in SUBSET Reader :
          /\ IF seen = Reader THEN UNCHANGED faults ELSE Fault
          /\ present' = seen
          /\ watch' = IF present \subseteq seen
                      THEN [watch EXCEPT !.todo = seen]
                      ELSE [watch EXCEPT !.pc = "lost", !.todo = present \ seen]
    /\ UNCHANGED <<slotVars, usable, row, last, failures, restarted, gatewayVars>>

\* Reader gone: the row goes first, then its status and the memory of it.
WatchLose ==
    /\ watch.pc = "lost"
    /\ watch.todo # {}
    /\ LET r == Min(watch.todo)
       IN  /\ row' = [row EXCEPT ![r] = NoSim]
           /\ watch' = [watch EXCEPT !.pc = "fail", !.todo = @ \ {r}, !.at = r]
    /\ UNCHANGED <<slotVars, usable, last, failures, present, restarted, gatewayVars, faults>>

WatchFail ==
    /\ watch.pc = "fail"
    /\ usable' = [usable EXCEPT ![watch.at] = FALSE]
    /\ last' = [last EXCEPT ![watch.at] = NoSim]
    /\ watch' = IF watch.todo = {} THEN [watch EXCEPT !.pc = "walk", !.at = None, !.todo = present]
                                   ELSE [watch EXCEPT !.pc = "lost", !.at = None]
    /\ UNCHANGED <<slotVars, row, failures, present, restarted, gatewayVars, faults>>

\* Mutant of Decide: where the card was before is not looked up.
BugNoMove(r) ==
    watch' = IF slot[r] = last[r]
             THEN [watch EXCEPT !.todo = @ \ {r}]
             ELSE [watch EXCEPT !.pc = "save", !.todo = @ \ {r}, !.at = r, !.card = slot[r]]

\* What to do about a card that was read: nothing if it is the one of before,
\* move it from the reader that had it, or save a new one.
Decide(r) ==
    \/ /\ slot[r] = last[r]
       /\ watch' = [watch EXCEPT !.todo = @ \ {r}]
    \/ /\ slot[r] # last[r]
       /\ \E q \in Reader \ {r} :
             /\ last[q] = slot[r]
             /\ watch' = [watch EXCEPT !.pc = "vacate", !.todo = @ \ {r}, !.at = r,
                                       !.card = slot[r], !.from = q]
    \/ /\ \A q \in Reader : last[q] # slot[r]
       /\ watch' = [watch EXCEPT !.pc = "save", !.todo = @ \ {r}, !.at = r, !.card = slot[r]]

\* read_sim: the status is written at once, whichever way it went.
WatchRead ==
    /\ watch.pc = "walk"
    /\ watch.todo # {}
    /\ LET r == Min(watch.todo)
           n == IF failures[r] < RemoveThreshold THEN failures[r] + 1 ELSE failures[r]
       IN  \/ /\ slot[r] # NoSim
              /\ usable' = [usable EXCEPT ![r] = TRUE]
              /\ failures' = [failures EXCEPT ![r] = 0]
              /\ Decide(r)
              /\ UNCHANGED faults
           \/ /\ IF slot[r] = NoSim THEN UNCHANGED faults ELSE Fault
              /\ usable' = [usable EXCEPT ![r] = FALSE]
              /\ failures' = [failures EXCEPT ![r] = n]
              /\ watch' = IF last[r] # NoSim /\ n >= RemoveThreshold
                          THEN [watch EXCEPT !.pc = "remove", !.todo = @ \ {r}, !.at = r]
                          ELSE [watch EXCEPT !.todo = @ \ {r}]
    /\ UNCHANGED <<slotVars, row, last, present, restarted, gatewayVars>>

NextReader == [watch EXCEPT !.pc = "walk", !.at = None, !.card = NoSim, !.from = None]

\* Mutant of WatchRemove: the card stays in last_iccid.
BugKeepMemory ==
    /\ watch.pc = "remove"
    /\ row' = [row EXCEPT ![watch.at] = NoSim]
    /\ failures' = [failures EXCEPT ![watch.at] = 0]
    /\ watch' = NextReader
    /\ UNCHANGED <<slotVars, usable, last, present, restarted, gatewayVars, faults>>

\* Card removed: the row goes, and the container is stopped.
WatchRemove ==
    /\ watch.pc = "remove"
    /\ row' = [row EXCEPT ![watch.at] = NoSim]
    /\ last' = [last EXCEPT ![watch.at] = NoSim]
    /\ failures' = [failures EXCEPT ![watch.at] = 0]
    /\ watch' = NextReader
    /\ UNCHANGED <<slotVars, usable, present, restarted, gatewayVars, faults>>

\* Card moved: clear the row of its old reader, stop that container (seconds),
\* and only then mark the old reader empty.
WatchVacate ==
    /\ watch.pc = "vacate"
    /\ row' = [row EXCEPT ![watch.from] = NoSim]
    /\ watch' = [watch EXCEPT !.pc = "mark"]
    /\ UNCHANGED <<slotVars, usable, last, failures, present, restarted, gatewayVars, faults>>

WatchMark ==
    /\ watch.pc = "mark"
    /\ usable' = [usable EXCEPT ![watch.from] = FALSE]
    /\ last' = [last EXCEPT ![watch.from] = NoSim]
    /\ failures' = [failures EXCEPT ![watch.from] = 0]
    /\ watch' = [watch EXCEPT !.pc = "save"]
    /\ UNCHANGED <<slotVars, row, present, restarted, gatewayVars, faults>>

WatchSave ==
    /\ watch.pc = "save"
    /\ row' = [row EXCEPT ![watch.at] = watch.card]
    /\ last' = [last EXCEPT ![watch.at] = watch.card]
    /\ watch' = NextReader
    /\ UNCHANGED <<slotVars, usable, failures, present, restarted, gatewayVars, faults>>

\* Killed anywhere and run again with --watch: the memory is gone, and the rows
\* of readers that are not usable are deleted.
WatchRestart ==
    /\ Fault
    /\ row' = [r \in Reader |-> IF usable[r] THEN row[r] ELSE NoSim]
    /\ last' = [r \in Reader |-> NoSim]
    /\ failures' = [r \in Reader |-> 0]
    /\ present' = {}
    /\ watch' = Asleep
    /\ restarted' = TRUE
    /\ UNCHANGED <<slotVars, usable, gatewayVars>>

-----------------------------------------------------------------------------
(* The gateway: rescan_sims, one action per query or lock. *)

inventoryVars == <<slotVars, usable, row, watchVars>>

Managed == {s \in Sim : transport[s] # None}

ScanStart ==
    /\ scan.pc = "idle"
    /\ scan' = [scan EXCEPT !.pc = "check", !.existing = Managed, !.check = Managed]
    /\ UNCHANGED <<inventoryVars, transport, instance, faults>>


\* get_reader_status of the reader the SIM was found in.
ScanCheck(s) ==
    /\ scan.pc = "check"
    /\ s \in scan.check
    /\ scan' = [scan EXCEPT !.check = @ \ {s},
                            !.remove = IF instance[s] # None /\ ~usable[instance[s]]
                                       THEN @ \cup {s} ELSE @]
    /\ UNCHANGED <<inventoryVars, transport, instance, faults>>

\* Dropping the transport stops its AMI client.
ScanRemove(s) ==
    /\ scan.pc \in {"check", "remove"}
    /\ scan.check = {}
    /\ s \in scan.remove
    /\ transport' = [transport EXCEPT ![s] = None]
    /\ scan' = [scan EXCEPT !.pc = "unmap", !.remove = @ \ {s}, !.sim = s]
    /\ UNCHANGED <<inventoryVars, instance, faults>>

ScanUnmap ==
    /\ scan.pc = "unmap"
    /\ instance' = [instance EXCEPT ![scan.sim] = None]
    /\ scan' = [scan EXCEPT !.pc = "remove", !.sim = NoSim]
    /\ UNCHANGED <<inventoryVars, transport, faults>>

ScanFetch ==
    /\ scan.pc \in {"check", "remove"}
    /\ scan.check = {} /\ scan.remove = {}
    /\ scan' = [scan EXCEPT !.pc = "add", !.rows = Rows]
    /\ UNCHANGED <<inventoryVars, transport, instance, faults>>

\* Mutant of Wanted: what was managed when the pass began is not looked at.
BugReadd(r, s) == usable[r]

\* Mutant of Wanted: the status of the reader is not looked at again.
BugTrustRow(r, s) == s \notin scan.existing

\* A SIM that was managed when the pass began is left alone, also one that this
\* pass has just removed.
Wanted(r, s) == s \notin scan.existing /\ usable[r]

\* The rows come in the order of the reader.
ScanAdd ==
    /\ scan.pc = "add"
    /\ scan.rows # {}
    /\ LET r == Min({p[1] : p \in scan.rows})
           s == CHOOSE t \in Sim : <<r, t>> \in scan.rows
           rest == scan.rows \ {<<r, s>>}
       IN  IF Wanted(r, s)
           THEN /\ transport' = [transport EXCEPT ![s] = r]
                /\ scan' = [scan EXCEPT !.pc = "map", !.rows = rest, !.sim = s, !.reader = r]
           ELSE /\ scan' = [scan EXCEPT !.rows = rest]
                /\ UNCHANGED transport
    /\ UNCHANGED <<inventoryVars, instance, faults>>

\* Mutant of ScanMap: the instance number is derived twice.
BugIndexTwice ==
    /\ scan.pc = "map"
    /\ instance' = [instance EXCEPT ![scan.sim] = scan.reader + 1]
    /\ scan' = [scan EXCEPT !.pc = "add", !.sim = NoSim, !.reader = None]
    /\ UNCHANGED <<inventoryVars, transport, faults>>

ScanMap ==
    /\ scan.pc = "map"
    /\ instance' = [instance EXCEPT ![scan.sim] = scan.reader]
    /\ scan' = [scan EXCEPT !.pc = "add", !.sim = NoSim, !.reader = None]
    /\ UNCHANGED <<inventoryVars, transport, faults>>

ScanEnd ==
    /\ scan.pc = "add"
    /\ scan.rows = {}
    /\ scan' = Idle
    /\ UNCHANGED <<inventoryVars, transport, instance, faults>>

\* The gateway is restarted; initialize refuses to start without a transport.
GatewayRestart ==
    /\ Fault
    /\ \E s \in Sim : Discover[s] # None
    /\ transport' = Discover
    /\ instance' = Discover
    /\ scan' = Idle
    /\ UNCHANGED inventoryVars

-----------------------------------------------------------------------------
WatchStep == \/ WatchPoll \/ WatchLose \/ WatchFail \/ WatchRead \/ WatchRemove
             \/ WatchVacate \/ WatchMark \/ WatchSave

ScanStep == \/ ScanStart \/ ScanUnmap \/ ScanFetch \/ ScanAdd \/ ScanMap \/ ScanEnd
            \/ \E s \in Sim : ScanCheck(s) \/ ScanRemove(s)

Next == \/ \E s \in Sim, r \in Reader : Insert(s, r)
        \/ \E r \in Reader : Eject(r)
        \/ WatchStep \/ WatchRestart
        \/ ScanStep \/ GatewayRestart

\* Both loops sleep and go on for ever.  Nothing is assumed of the hands.
Fairness == WF_vars(WatchStep) /\ WF_vars(ScanStep)

Spec == Init /\ [][Next]_vars /\ Fairness

-----------------------------------------------------------------------------
(* Properties. *)

\* A SIM is reached, and its traffic attributed, only through the instance of a
\* reader that has held its card: from the slot over the watch loop, its table,
\* the rows that a pass has fetched and the two maps, no card takes the place
\* of another, however cards are moved and loops restarted meanwhile.
ReachedWhereInserted == \A s \in Sim :
    /\ transport[s] # None => <<transport[s], s>> \in visited
    /\ instance[s] # None => <<instance[s], s>> \in visited

\* A reader that shows the card it showed before is left alone, so the row of
\* that card must be in the table.  It is, except between two writes for a card
\* that has moved away or a reader that is gone.
RememberedIsListed == \A r \in Reader :
    last[r] # NoSim => \/ row[r] = last[r]
                       \/ watch.pc = "mark" /\ watch.from = r
                       \/ watch.pc = "fail" /\ watch.at = r

\* A card is listed in two readers only if the watch loop was restarted and has
\* not seen a card in one of them since.
ListedOnce == \A q, r \in Reader :
    q # r /\ row[q] = row[r] /\ row[r] # NoSim => last[q] = NoSim \/ last[r] = NoSim

\* Unless the gateway is restarted just now, or the watch loop ever was, a SIM
\* gets another instance only after it was released: a pass never replaces a
\* transport that is in use, although it decides by a snapshot of the SIMs, a
\* later one of the rows, and what readers say later still.
ReleasedFirst ==
    [][\A s \in Sim : transport[s] # None /\ ~restarted =>
           transport'[s] \in {None, transport[s]} \/ scan' = Idle]_vars


\* No SIM stays attached to the instance of a reader that stays empty.
EmptiedIsReleased == \A r \in Reader :
    <>[](slot[r] = NoSim) => <>[](\A s \in Sim : transport[s] # r)


\* What manager.rs:192-193 says of the devices that initialize sets up, "physical
\* SIM re-arrangement is handled automatically", taken for the running gateway:
\* cards that stay where they are are reached there.
RearrangementHandled == \A s \in Sim, r \in Reader :
    <>[](slot[r] = s) => <>[](transport[s] = r)
=============================================================================
