----------------------------- MODULE Conversations -----------------------------
(***************************************************************************)
(* The tables sms and contacts, and the operations of the HTTP API and of  *)
(* the event consumer on them: db.rs (Sms, Contact, ModemSMS), api/mod.rs   *)
(* (send_sms, contacts, conversations) and manager.rs (send_sms, the       *)
(* SmsReceived arm).  Requests run concurrently; an action is one SQL       *)
(* statement or one transaction's read or write.                            *)
(*                                                                         *)
(* The database is in WAL mode: a transaction that has read and then writes *)
(* is refused at once if another connection has committed meanwhile, while  *)
(* a single statement waits for its turn.                                   *)
(*                                                                         *)
(* A SIM is named by its phone number (SimCards.tla is about the two being  *)
(* out of step), a text by the number it mentions, if any.                  *)
(***************************************************************************)
EXTENDS Naturals, FiniteSetsExt, TLC

CONSTANTS Sim,          \* SIMs of the gateway, by number
          Outside,      \* other phone numbers
          Label,        \* names of contacts that are not numbers
          Plain,        \* a text that mentions no number
          Text,         \* texts that are sent
          Blank,        \* the empty string
          None,         \* no contact, no row
          PageSize,     \* rows of a page: per_page of the client's query
          Request,      \* concurrent HTTP requests
          Consumer,     \* the consumer of modem events
          MaxRows,      \* bound: SMS rows ever inserted
          MaxOps        \* bound: operations begun and crashes

Number == Sim \cup Outside
Name == Number \cup Label      \* a string that names or identifies a contact
Task == Request \cup {Consumer}
Id == 1..MaxRows

ASSUME Domains ==
    /\ Text \subseteq Number \cup {Plain}
    /\ Consumer \notin Request
    /\ Blank \notin Name /\ None \notin Name \cup {Blank}
    /\ PageSize \in Nat
    /\ MaxRows \in Nat \ {0} /\ MaxOps \in Nat

VARIABLES
    contacts,    \* contacts[id] is the name of the contact, or None
    sms,         \* sms[i] is the row with that id, or None
    lastId,      \* ids given out so far
    registered,  \* SIMs in msisdn_by_sim and msisdn_to_sim
    job,         \* what each task is doing
    cleanup,     \* the clean-up spawned at startup has not run yet
    ops,
    shown,       \* history: rows on a page whose request has marked its conversation
    beyond,      \* history: unread rows that were there then, but not on that page
    sent,        \* history: what outgoing rows were ever inserted
    erased       \* history: ids of contacts that were ever deleted

db == <<contacts, sms, lastId>>
history == <<shown, beyond, sent, erased>>
vars == <<db, registered, job, cleanup, ops, history>>

-----------------------------------------------------------------------------
(* inferred, raced and addressed are history: the sender was guessed, the   *)
(* contact was being deleted, the number that was addressed.                *)
Row == [contact : Name \cup {Blank}, sim : Sim, text : Text, send : BOOLEAN,
        read : BOOLEAN, inferred : BOOLEAN, raced : BOOLEAN,
        addressed : Name \cup {Blank}]

Idle == [pc |-> "idle"]

\* A message on its way into the table.  leg tells the two rows of a
\* loopback apart; source is the sender that the second one will get.
Messages == [pc : {"find", "create", "route", "look", "write", "resolve"},
             id : Name \cup {Blank, None}, name : Name \cup {Blank}, sim : Sim,
             text : Text, send : BOOLEAN, leg : {"only", "out", "in"},
             source : Sim \cup {Blank}, found : Name \cup {None}, fresh : BOOLEAN]
Deletions == [pc : {"delete"}, id : Name]
\* An opened conversation: what its page holds, and what else is unread.
Openings == [pc : {"mark"}, id : Name, seen : SUBSET Id, rest : SUBSET Id, fresh : BOOLEAN]
Views == [pc : {"infer", "refile"}, seen : SUBSET Id, guess : Number \cup {None}]

Live == {i \in Id : sms[i] # None}
IdOf(name) == {c \in Name : contacts[c] = name}

\* The type invariant.  Names are UNIQUE; ids are given out in order; only
\* the consumer's messages come without a contact id.
TypeOK ==
    /\ contacts \in [Name -> Name \cup {None}]
    /\ \A n \in Name : \A b, c \in IdOf(n) : b = c
    /\ sms \in [Id -> Row \cup {None}]
    /\ lastId \in 0..MaxRows
    /\ Live \subseteq 1..lastId
    /\ registered \subseteq Sim
    /\ job \in [Task -> {Idle} \cup Messages \cup Deletions \cup Openings \cup Views]
    /\ cleanup \in BOOLEAN
    /\ ops \in 0..MaxOps
    /\ shown \subseteq 1..lastId /\ beyond \subseteq 1..lastId
    /\ sent \subseteq [sim : Sim, to : Name, text : Text]
    /\ erased \subseteq Name

NoContacts == [c \in Name |-> None]
NoRows == [i \in Id |-> None]

\* An SMS that came without a sender, as carriers and loopbacks leave them.
Unsigned(s, text) ==
    [contact |-> Blank, sim |-> s, text |-> text, send |-> FALSE, read |-> FALSE,
     inferred |-> FALSE, raced |-> FALSE, addressed |-> Blank]

\* The gateway is started, on an empty database or with a contact and an
\* unsigned row from before.
Init ==
    /\ \/ contacts = NoContacts
       \/ \E c \in Number, n \in Label : contacts = [NoContacts EXCEPT ![c] = n]
    /\ \/ sms = NoRows /\ lastId = 0
       \/ /\ \E s \in Sim, text \in Text : sms = [NoRows EXCEPT ![1] = Unsigned(s, text)]
          /\ lastId = 1
    /\ registered = Sim
    /\ job = [t \in Task |-> Idle]
    /\ cleanup = TRUE
    /\ ops = MaxOps
    /\ shown = {}
    /\ beyond = {}
    /\ sent = {}
    /\ erased = {}

-----------------------------------------------------------------------------
(* Every commit makes the transactions stale that have read and not yet     *)
(* written.                                                                 *)
Fresh(t) == job[t].pc \in {"write", "mark"} /\ job[t].fresh
Stale(t) == IF Fresh(t) THEN [job[t] EXCEPT !.fresh = FALSE] ELSE job[t]

Become(t, next) == job' = [job EXCEPT ![t] = next]
Commit(t, next) == job' = [u \in Task |-> IF u = t THEN next ELSE Stale(u)]

Begin(t, next) ==
    /\ job[t] = Idle
    /\ ops > 0
    /\ ops' = ops - 1
    /\ Become(t, next)

(* A write is refused and everything rolled back; only a log line or an      *)
(* error response tells.  A transaction that is not stale may be refused     *)
(* too: other components commit at any time.  Or the client goes away, and   *)
(* its request with it, at any await.                                       *)
GiveUp(t) ==
    /\ job[t] # Idle
    /\ t = Consumer => job[t].pc = "write"
    /\ Become(t, Idle)
    /\ UNCHANGED <<db, registered, cleanup, ops, history>>

-----------------------------------------------------------------------------
(* Messages.                                                               *)

Message(pc, id, name, sim, text) ==
    [pc |-> pc, id |-> id, name |-> name, sim |-> sim, text |-> text, send |-> TRUE,
     leg |-> "only", source |-> Blank, found |-> None, fresh |-> FALSE]

\* An SMS from outside reaches the consumer, which takes one at a time.
Arrive(from, s, text) ==
    /\ Begin(Consumer, [Message("look", None, from, s, text) EXCEPT !.send = FALSE])
    /\ UNCHANGED <<db, registered, cleanup, history>>

\* POST /sms to a contact that the client has listed.
Submit(t, c, s, text) ==
    /\ contacts[c] # None
    /\ Begin(t, Message("route", c, contacts[c], s, text))
    /\ UNCHANGED <<db, registered, cleanup, history>>

\* POST /sms with new = true.
SubmitNew(t, n, s, text) ==
    /\ Begin(t, Message("find", None, n, s, text))
    /\ UNCHANGED <<db, registered, cleanup, history>>

\* Mutant of Find: the id of the contact that was found is not taken over.
BugKeepId(t) ==
    /\ job[t].pc = "find"
    /\ Become(t, [job[t] EXCEPT !.pc = IF IdOf(job[t].name) = {} THEN "create" ELSE "route",
                                !.id = job[t].name])
    /\ UNCHANGED <<db, registered, cleanup, ops, history>>

\* find_or_create, first statement.
Find(t) ==
    /\ job[t].pc = "find"
    /\ \/ \E c \in IdOf(job[t].name) :
              Become(t, [job[t] EXCEPT !.pc = "route", !.id = c])
       \/ /\ IdOf(job[t].name) = {}
          /\ Become(t, [job[t] EXCEPT !.pc = "create"])
    /\ UNCHANGED <<db, registered, cleanup, ops, history>>

\* The two keys of the table contacts.
Free(id, name) == contacts[id] = None /\ IdOf(name) = {}

\* find_or_create, second statement.  A conflict ends the request in unwrap.
Create(t) ==
    /\ job[t].pc = "create"
    /\ LET n == job[t].name IN
       \/ /\ Free(n, n)
          /\ contacts' = [contacts EXCEPT ![n] = n]
          /\ Commit(t, [job[t] EXCEPT !.pc = "route", !.id = n])
       \/ /\ ~Free(n, n)
          /\ Become(t, Idle)
          /\ UNCHANGED contacts
    /\ UNCHANGED <<sms, lastId, registered, cleanup, ops, history>>

\* Mutant of Route: the receiver's half of a loopback goes first.
BugReceiveFirst(t) ==
    /\ job[t].pc = "route"
    /\ IF job[t].id \in registered \ {job[t].sim}
       THEN Become(t, [job[t] EXCEPT !.pc = "resolve", !.leg = "out",
                                     !.source = IF job[t].sim \in registered
                                                THEN job[t].sim ELSE Blank])
       ELSE \/ Become(t, [job[t] EXCEPT !.pc = "look"])
            \/ Become(t, Idle)
    /\ UNCHANGED <<db, registered, cleanup, ops, history>>

\* ModemManager::send_sms up to its first insert: loopback to another SIM of
\* the gateway, or the carrier, which may refuse.
Route(t) ==
    /\ job[t].pc = "route"
    /\ IF job[t].id \in registered \ {job[t].sim}
       THEN Become(t, [job[t] EXCEPT !.pc = "look", !.leg = "out",
                                     !.source = IF job[t].sim \in registered
                                                THEN job[t].sim ELSE Blank])
       ELSE \/ Become(t, [job[t] EXCEPT !.pc = "look"])
            \/ Become(t, Idle)
    /\ UNCHANGED <<db, registered, cleanup, ops, history>>

\* ModemSMS::insert: the transaction begins with the look-up of the contact.
Look(t) ==
    /\ job[t].pc = "look"
    /\ \/ \E c \in IdOf(job[t].name) :
              Become(t, [job[t] EXCEPT !.pc = "write", !.found = c, !.fresh = TRUE])
       \/ /\ IdOf(job[t].name) = {}
          /\ Become(t, [job[t] EXCEPT !.pc = "write", !.found = None, !.fresh = TRUE])
    /\ UNCHANGED <<db, registered, cleanup, ops, history>>

BeingDeleted(c) == \E t \in Task : job[t].pc = "delete" /\ job[t].id = c

\* Where the row is filed: under the contact found, under none for a blank
\* sender, else under a contact made of the name.
Filed(j) == IF j.found # None THEN j.found ELSE j.name

Store(t, c) ==
    LET j == job[t] IN
    /\ lastId < MaxRows
    /\ lastId' = lastId + 1
    /\ sms' = [sms EXCEPT ![lastId + 1] =
                  [contact |-> c, sim |-> j.sim, text |-> j.text, send |-> j.send,
                   read |-> j.send, inferred |-> FALSE, raced |-> BeingDeleted(c),
                   addressed |-> IF j.send THEN j.id ELSE Blank]]
    /\ contacts' = IF j.found = None /\ c # Blank
                   THEN [contacts EXCEPT ![c] = c] ELSE contacts
    /\ sent' = IF j.send THEN sent \cup {[sim |-> j.sim, to |-> c, text |-> j.text]} ELSE sent
    /\ Commit(t, IF j.leg = "out"
                 THEN [j EXCEPT !.pc = "resolve", !.found = None, !.fresh = FALSE]
                 ELSE Idle)

\* The name is taken as an id by a contact with another name.
Clash(j) == j.found = None /\ j.name # Blank /\ contacts[j.name] # None

\* Mutant of Write: no transaction around the look-up and the inserts.
BugNoTransaction(t) ==
    /\ job[t].pc = "write"
    /\ ~Clash(job[t])
    /\ Store(t, Filed(job[t]))
    /\ UNCHANGED <<registered, cleanup, ops, shown, beyond, erased>>

\* The inserts and the commit.  A clash of keys is an error like any other.
Write(t) ==
    /\ job[t].pc = "write"
    /\ job[t].fresh
    /\ \/ /\ ~Clash(job[t])
          /\ Store(t, Filed(job[t]))
       \/ /\ Clash(job[t])
          /\ Become(t, Idle)
          /\ UNCHANGED <<db, sent>>
    /\ UNCHANGED <<registered, cleanup, ops, shown, beyond, erased>>

\* The second half of a loopback.  The destination is looked up again, and
\* unwrapped: if a rescan has removed it, the request dies here.
Resolve(t) ==
    /\ job[t].pc = "resolve"
    /\ IF job[t].id \in registered
       THEN Become(t, [job[t] EXCEPT !.pc = "look", !.leg = "in", !.sim = job[t].id,
                                     !.send = FALSE, !.name = job[t].source])
       ELSE Become(t, Idle)
    /\ UNCHANGED <<db, registered, cleanup, ops, history>>

-----------------------------------------------------------------------------
(* Contacts.                                                               *)

\* POST /contacts: any id with any name that are both free.
AddContact(t, c, n) ==
    /\ job[t] = Idle
    /\ ops > 0
    /\ ops' = ops - 1
    /\ Free(c, n)
    /\ contacts' = [contacts EXCEPT ![c] = n]
    /\ Commit(t, Idle)
    /\ UNCHANGED <<sms, lastId, registered, cleanup, history>>

Without(c) == [i \in Id |-> IF sms[i] # None /\ sms[i].contact = c THEN None ELSE sms[i]]

\* delete_by_id, first statement.
DeleteRows(t, c) ==
    /\ contacts[c] # None
    /\ job[t] = Idle
    /\ ops > 0
    /\ ops' = ops - 1
    /\ sms' = Without(c)
    /\ Commit(t, [pc |-> "delete", id |-> c])
    /\ UNCHANGED <<contacts, lastId, registered, cleanup, history>>

\* delete_by_id, second statement.
DeleteContact(t) ==
    /\ job[t].pc = "delete"
    /\ contacts' = [contacts EXCEPT ![job[t].id] = None]
    /\ erased' = erased \cup {job[t].id}
    /\ Commit(t, Idle)
    /\ UNCHANGED <<sms, lastId, registered, cleanup, ops, shown, beyond, sent>>

Unused == {c \in Name : contacts[c] # None /\ \A i \in Live : sms[i].contact # c}

\* delete_contacts_without_messages, spawned by db_init: one statement.
CleanUp ==
    /\ cleanup
    /\ cleanup' = FALSE
    /\ contacts' = [c \in Name |-> IF c \in Unused THEN None ELSE contacts[c]]
    /\ erased' = erased \cup Unused
    /\ job' = [t \in Task |-> Stale(t)]
    /\ UNCHANGED <<sms, lastId, registered, ops, shown, beyond, sent>>

-----------------------------------------------------------------------------
(* Reading.                                                                *)

IsBlank(i) == sms[i] # None /\ ~sms[i].send /\ sms[i].contact = Blank

\* Mutant of Twins: whoever the text was sent to.
BugAnyReceiver(i) ==
    {k \in Live : sms[k].send /\ sms[k].text = sms[i].text}

\* The rows by which a SIM of the gateway sent this text to the SIM that
\* received row i.
Twins(i) ==
    {k \in Live : sms[k].send /\ sms[k].text = sms[i].text /\ sms[k].contact = sms[i].sim}

\* A conversation: the rows of the contact, and those without a sender whose
\* twin was sent by the SIM with this number.
Listing(c) ==
    {i \in Live : \/ sms[i].contact = c
                  \/ IsBlank(i) /\ \E k \in Twins(i) : sms[k].sim = c}

\* The first page, newest first by timestamp; ids are given out later, so it
\* may be any of the rows.
FirstPages(all) == IF Cardinality(all) <= PageSize THEN {all} ELSE kSubset(PageSize, all)

\* query_unread_by_contact_id has no pages.
Unread(c) == {i \in Listing(c) : ~sms[i].read}

Opening(c, page) ==
    [pc |-> "mark", id |-> c, seen |-> page, rest |-> Unread(c) \ page, fresh |-> TRUE]

\* paginate_by_contact_id and query_unread_by_contact_id: list...  (A page
\* other than the first marks nothing.)
Open(t, c) ==
    /\ \E page \in FirstPages(Listing(c)) \cup {Unread(c)} : Begin(t, Opening(c, page))
    /\ UNCHANGED <<db, registered, cleanup, history>>

MarkRead(c) ==
    [i \in Id |-> IF i \in Listing(c) THEN [sms[i] EXCEPT !.read = TRUE] ELSE sms[i]]

Marked(t) ==
    /\ sms' = MarkRead(job[t].id)
    /\ shown' = shown \cup job[t].seen
    /\ beyond' = beyond \cup job[t].rest
    /\ Commit(t, Idle)

\* Mutant of Mark: two statements without a transaction.
BugMarkStale(t) ==
    /\ job[t].pc = "mark"
    /\ Marked(t)
    /\ UNCHANGED <<contacts, lastId, registered, cleanup, ops, sent, erased>>

\* ... and mark as read, in the same transaction: the whole conversation,
\* whatever the page holds of it.
Mark(t) ==
    /\ job[t].pc = "mark"
    /\ job[t].fresh
    /\ Marked(t)
    /\ UNCHANGED <<contacts, lastId, registered, cleanup, ops, sent, erased>>

\* GET /sms?direction=inbox: the rows, of which those without a sender go on.
ViewInbox(t) ==
    /\ \E i \in Id : IsBlank(i)
    /\ Begin(t, [pc |-> "infer", seen |-> {i \in Id : IsBlank(i)}, guess |-> None])
    /\ UNCHANGED <<db, registered, cleanup, history>>

\* The sender of the latest twin, else a number the text mentions.
Guess(i, text) ==
    IF sms[i] # None /\ Twins(i) # {} THEN sms[Max(Twins(i))].sim
    ELSE IF text \in Number THEN text ELSE None

\* infer_sender_from_recent_sent and extract_phone_like_token for the next row.
\* (A row deleted meanwhile is skipped: its update would change nothing.)
Infer(t) ==
    /\ job[t].pc = "infer"
    /\ LET left == job[t].seen \cap Live IN
       IF left = {} THEN Become(t, Idle)
       ELSE LET i == Max(left)
                g == Guess(i, sms[i].text) IN
            Become(t, IF g = None THEN [job[t] EXCEPT !.seen = left \ {i}]
                      ELSE [job[t] EXCEPT !.pc = "refile", !.seen = left, !.guess = g])
    /\ UNCHANGED <<db, registered, cleanup, ops, history>>

Refiled(t, i) ==
    /\ sms' = [sms EXCEPT ![i].contact = job[t].guess, ![i].inferred = TRUE]
    /\ Commit(t, [pc |-> "infer", seen |-> job[t].seen \ {i}, guess |-> None])

\* Mutant of Refile: the update does not ask whether the sender is still blank.
BugRefileAnyway(t) ==
    /\ job[t].pc = "refile"
    /\ LET i == Max(job[t].seen) IN sms[i] # None /\ Refiled(t, i)
    /\ UNCHANGED <<contacts, lastId, registered, cleanup, ops, history>>

\* The update of one row, if it still has no sender.
Refile(t) ==
    /\ job[t].pc = "refile"
    /\ LET i == Max(job[t].seen) IN
       \/ /\ IsBlank(i)
          /\ Refiled(t, i)
       \/ /\ ~IsBlank(i)
          /\ Become(t, [pc |-> "infer", seen |-> job[t].seen \ {i}, guess |-> None])
          /\ UNCHANGED sms
    /\ UNCHANGED <<contacts, lastId, registered, cleanup, ops, history>>

-----------------------------------------------------------------------------
\* rescan_sims drops a SIM from the two maps or enters it.
Rescan(s) ==
    /\ ops > 0
    /\ ops' = ops - 1
    /\ registered' = IF s \in registered THEN registered \ {s} ELSE registered \cup {s}
    /\ UNCHANGED <<db, job, cleanup, history>>

\* The process dies and is started again.
Crash ==
    /\ \E t \in Task : job[t] # Idle
    /\ ops > 0
    /\ ops' = ops - 1
    /\ job' = [t \in Task |-> Idle]
    /\ cleanup' = TRUE
    /\ UNCHANGED <<db, registered, history>>

Operation(t) ==
    \/ \E s \in Sim, text \in Text :
          \/ \E c \in Name : Submit(t, c, s, text)
          \/ \E n \in Number : SubmitNew(t, n, s, text)
    \/ \E c \in Name : DeleteRows(t, c) \/ Open(t, c)
    \/ \E c \in Number, n \in Name : AddContact(t, c, n)
    \/ ViewInbox(t)

Step(t) ==
    \/ Find(t) \/ Create(t) \/ Route(t) \/ Look(t) \/ Write(t) \/ Resolve(t)
    \/ DeleteContact(t) \/ Mark(t) \/ Infer(t) \/ Refile(t)
    \/ GiveUp(t)

Next ==
    \/ \E from \in Number \cup {Blank}, s \in Sim, text \in Text : Arrive(from, s, text)
    \/ \E t \in Request : Operation(t)
    \/ \E t \in Task : Step(t)
    \/ CleanUp \/ Crash
    \/ \E s \in Sim : Rescan(s)

Spec == Init /\ [][Next]_vars

\* Requests are interchangeable.
Symmetry == Permutations(Request)

-----------------------------------------------------------------------------
Hidden(i) == sms[i].contact # Blank /\ contacts[sms[i].contact] = None

\* An SMS that no conversation shows, because its contact does not exist, got
\* there in one of two ways: its sender was guessed by the inbox view, or it
\* was stored between the two statements that delete its contact.
HiddenByRace == \A i \in Live : Hidden(i) => sms[i].inferred \/ sms[i].raced

\* An incoming SMS is read only if a request that opened its conversation found
\* it there: on the page, or unread beyond it (those are marked unseen).  One
\* that arrives, or is filed there, between the listing and the marking, or after
\* a request that was refused or dropped, stays unread.
ReadWasThere == \A i \in Live : sms[i].read /\ ~sms[i].send => i \in shown \cup beyond

\* A guessed sender did send this text to this SIM, or is mentioned in it,
\* whatever was sent, deleted or guessed between the guess and the update.
InferredSentIt ==
    \A i \in Live : sms[i].inferred =>
        \/ [sim |-> sms[i].contact, to |-> sms[i].sim, text |-> sms[i].text] \in sent
        \/ sms[i].contact = sms[i].text

\* What is sent to a number is filed in the conversation of that number, unless
\* its contact has been deleted, by a request or by the clean-up, after the
\* client listed it: then the name is taken for a number.
FiledWhereSent ==
    \A i \in Live : sms[i].send /\ sms[i].contact # sms[i].addressed =>
        sms[i].addressed \in erased

\* What is stored as received over a loopback was stored as sent before: the
\* same text, from the SIM that is given as its sender, and filed under the
\* number of the SIM that receives it, unless that contact has been deleted;
\* whatever was rescanned, deleted or refused between the two halves.
LoopbackWasSent ==
    \A t \in Task : job[t].pc \in {"look", "write"} /\ job[t].leg = "in" =>
        \E m \in sent :
            /\ m.text = job[t].text
            /\ job[t].source \in {m.sim, Blank}
            /\ m.to = job[t].sim \/ job[t].sim \in erased

\* A row whose sender is known is never filed under another.
FiledOnce ==
    [][\A i \in Live : sms[i].contact # Blank /\ sms'[i] # None =>
          sms'[i].contact = sms[i].contact]_vars
=============================================================================
