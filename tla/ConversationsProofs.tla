------------------------- MODULE ConversationsProofs -------------------------
(***************************************************************************)
(* Theorems about Conversations for any SIMs, contacts and texts, any       *)
(* number of concurrent requests and any number of rows.                    *)
(***************************************************************************)
EXTENDS Conversations, FiniteSetTheorems, NaturalsInduction, WellFoundedInduction, TLAPS

\* What a task is doing.
Job == {Idle} \cup Messages \cup Deletions \cup Openings \cup Views

Sending == {"find", "create", "route", "look", "write", "resolve"}

(* The inductive invariant, in parts. *)

\* The tables and what is remembered of them have their types.
DataOK ==
    /\ contacts \in [Name -> Name \cup {None}]
    /\ \A n \in Name : \A b, c \in IdOf(n) : b = c
    /\ sms \in [Id -> Row \cup {None}]
    /\ lastId \in 0..MaxRows
    /\ Live \subseteq 1..lastId
    /\ shown \subseteq 1..lastId /\ beyond \subseteq 1..lastId
    /\ sent \subseteq [sim : Sim, to : Name, text : Text]
    /\ erased \subseteq Name

\* What has been sent is remembered.
SendInv == \A i \in Live : sms[i].send =>
    [sim |-> sms[i].sim, to |-> sms[i].contact, text |-> sms[i].text] \in sent

DataInv == /\ DataOK /\ SendInv
           /\ HiddenByRace /\ ReadWasThere /\ FiledWhereSent /\ InferredSentIt

RestOK ==
    /\ registered \subseteq Sim
    /\ job \in [Task -> Job]
    /\ cleanup \in BOOLEAN
    /\ ops \in 0..MaxOps

\* What a task that is sending or storing a message knows: what it sends goes
\* to a contact of that name, unless that has been deleted; and as long as no
\* other connection commits, the contact it has looked up is there, or none is.
MessageOK(t) ==
    /\ job[t].pc \in {"find", "create"} => job[t].send
    /\ job[t].pc \in Sending /\ job[t].send => job[t].name \in Name
    /\ job[t].pc \in {"route", "look", "write"} /\ job[t].send =>
          job[t].id \in Name /\ (contacts[job[t].id] = job[t].name \/ job[t].id \in erased)
    /\ job[t].pc = "write" /\ job[t].fresh =>
          /\ job[t].found = None => IdOf(job[t].name) = {}
          /\ job[t].found # None => job[t].found \in Name /\ contacts[job[t].found] = job[t].name

\* While a contact is being deleted, its rows are gone but for late ones.
DeletionOK(t) == job[t].pc = "delete" =>
    \A i \in Live : sms[i].contact = job[t].id => sms[i].inferred \/ sms[i].raced

\* What was found unread is what is unread, as long as no other connection commits.
OpeningOK(t) == job[t].pc = "mark" /\ job[t].fresh =>
    /\ job[t].seen \cup job[t].rest \subseteq Listing(job[t].id)
    /\ Unread(job[t].id) \subseteq job[t].seen \cup job[t].rest

\* A guess that is made is a good one, and stays one.
GuessOK(t) == job[t].pc = "refile" =>
    LET i == Max(job[t].seen) IN
    /\ job[t].guess \in Number
    /\ i \in 1..lastId
    /\ sms[i] # None => \/ [sim |-> job[t].guess, to |-> sms[i].sim, text |-> sms[i].text] \in sent
                        \/ job[t].guess = sms[i].text

JobOK(t) == MessageOK(t) /\ DeletionOK(t) /\ OpeningOK(t) /\ GuessOK(t)

IInv == DataInv /\ RestOK /\ \A t \in Task : JobOK(t)

-----------------------------------------------------------------------------
(* The greatest element of a set of row ids. *)

LEMMA MaxFact ==
    ASSUME NEW n \in Nat, NEW S, S \subseteq 1..n, S # {}
    PROVE  Max(S) \in S
<1> DEFINE T == {n - x : x \in S}
<1>1. T \subseteq Nat /\ T # {}
  <2>1. \A x \in S : n - x \in Nat
    OBVIOUS
  <2>2. PICK x \in S : TRUE
    OBVIOUS
  <2>3. QED
    BY <2>1, <2>2
<1>2. PICK m \in T : \A y \in T : ~(<<y, m>> \in OpToRel(<, Nat))
  BY <1>1, NatLessThanWellFounded, WFMin
<1>3. PICK x \in S : m = n - x
  OBVIOUS
<1>4. ASSUME NEW y \in S PROVE x >= y
  <2>1. n - y \in T /\ n - y \in Nat /\ m \in Nat
    BY <1>1
  <2>2. ~(n - y < m)
    BY <1>2, <2>1 DEF OpToRel
  <2>3. QED
    BY <1>3, <2>1, <2>2
<1>5. QED
  BY <1>4 DEF Max

-----------------------------------------------------------------------------
(* Jobs. *)

\* The fields that a job has by its place in the code.
LEMMA JobFields ==
    ASSUME NEW j \in Job
    PROVE  /\ j.pc = "idle" => j = Idle
           /\ j.pc \in Sending => j \in Messages
           /\ j.pc = "delete" => j \in Deletions
           /\ j.pc = "mark" => j \in Openings
           /\ j.pc \in {"infer", "refile"} => j \in Views
           /\ j \in Messages => j.pc \in Sending
           /\ Idle.pc = "idle"
BY DEF Job, Sending, Idle, Messages, Deletions, Openings, Views

LEMMA MessageFields ==
    ASSUME NEW j \in Messages
    PROVE  /\ j.id \in Name \cup {Blank, None} /\ j.name \in Name \cup {Blank}
           /\ j.sim \in Sim /\ j.text \in Text /\ j.send \in BOOLEAN
           /\ j.leg \in {"only", "out", "in"} /\ j.source \in Sim \cup {Blank}
           /\ j.found \in Name \cup {None} /\ j.fresh \in BOOLEAN
           /\ j.pc \in Sending
BY DEF Messages, Sending

\* A task other than the one that takes a step: it stays where it is, and may
\* only find its transaction stale.
Same(u) ==
    /\ job'[u].pc = job[u].pc
    /\ job[u].pc \in Sending => /\ job'[u].id = job[u].id /\ job'[u].name = job[u].name
                                /\ job'[u].send = job[u].send /\ job'[u].found = job[u].found
    /\ job[u].pc = "delete" => job'[u].id = job[u].id
    /\ job[u].pc = "mark" => /\ job'[u].id = job[u].id /\ job'[u].seen = job[u].seen
                           /\ job'[u].rest = job[u].rest
    /\ job[u].pc = "refile" => job'[u].seen = job[u].seen /\ job'[u].guess = job[u].guess

LEMMA StaleFacts ==
    ASSUME job \in [Task -> Job], NEW u \in Task, job'[u] = Stale(u)
    PROVE  Stale(u) \in Job /\ Same(u) /\ ~(job'[u].pc \in {"write", "mark"} /\ job'[u].fresh)
<1>0. job[u] \in Job
  OBVIOUS
<1>1. CASE Fresh(u) /\ job[u].pc = "write"
  <2>1. job[u] \in Messages
    BY <1>0, <1>1, JobFields DEF Sending
  <2>2. Stale(u) = [job[u] EXCEPT !.fresh = FALSE]
    BY <1>1 DEF Stale
  <2>3. QED
    BY <1>1, <2>1, <2>2 DEF Messages, Job, Same, Sending
<1>2. CASE Fresh(u) /\ job[u].pc = "mark"
  <2>1. job[u] \in Openings
    BY <1>0, <1>2, JobFields
  <2>2. Stale(u) = [job[u] EXCEPT !.fresh = FALSE]
    BY <1>2 DEF Stale
  <2>3. QED
    BY <1>2, <2>1, <2>2 DEF Openings, Job, Same, Sending
<1>3. CASE ~Fresh(u)
  BY <1>0, <1>3 DEF Stale, Same, Fresh
<1>4. QED
  BY <1>1, <1>2, <1>3 DEF Fresh

\* A request begins, goes on or ends, and nobody else is concerned.
LEMMA BecomeFacts ==
    ASSUME job \in [Task -> Job], NEW t \in Task, NEW next \in Job, Become(t, next)
    PROVE  /\ job' \in [Task -> Job] /\ job'[t] = next
           /\ \A u \in Task \ {t} : Same(u) /\ job'[u] = job[u]
BY DEF Become, Same

\* A commit: the transactions of all others are stale.
LEMMA CommitFacts ==
    ASSUME job \in [Task -> Job], NEW t \in Task, NEW next \in Job, Commit(t, next)
    PROVE  /\ job' \in [Task -> Job] /\ job'[t] = next
           /\ \A u \in Task \ {t} :
                 Same(u) /\ ~(job'[u].pc \in {"write", "mark"} /\ job'[u].fresh)
<1>1. \A u \in Task : job'[u] = IF u = t THEN next ELSE Stale(u)
  BY DEF Commit
<1>2. \A u \in Task \ {t} :
         /\ Stale(u) \in Job /\ Same(u)
         /\ ~(job'[u].pc \in {"write", "mark"} /\ job'[u].fresh)
  BY <1>1, StaleFacts
<1>3. job' \in [Task -> Job]
  BY <1>1, <1>2 DEF Commit
<1>4. QED
  BY <1>1, <1>2, <1>3

-----------------------------------------------------------------------------
(* Steps that change no table. *)

Quiet == UNCHANGED <<contacts, sms, lastId, shown, beyond, sent, erased>>

LEMMA QuietData == DataInv /\ Quiet => DataInv'
BY DEF DataInv, DataOK, SendInv, HiddenByRace, ReadWasThere, FiledWhereSent, InferredSentIt,
       Quiet, Live, IdOf, Hidden

LEMMA QuietJob ==
    ASSUME Quiet, NEW u \in Task, JobOK(u), job'[u] = job[u]
    PROVE  JobOK(u)'
<1>1. Live' = Live /\ \A c : Listing(c)' = Listing(c) /\ Unread(c)' = Unread(c)
  BY DEF Quiet, Live, Listing, Unread, IsBlank, Twins
<1>2. \A n : IdOf(n)' = IdOf(n)
  BY DEF Quiet, IdOf
<1>3. MessageOK(u)'
  BY <1>2 DEF Quiet, JobOK, MessageOK
<1>4. DeletionOK(u)' /\ OpeningOK(u)'
  BY <1>1 DEF Quiet, JobOK, DeletionOK, OpeningOK
<1>5. GuessOK(u)'
  BY DEF Quiet, JobOK, GuessOK
<1>6. QED
  BY <1>3, <1>4, <1>5 DEF JobOK

\* Such a step keeps the invariant if what the task becomes is in order.
LEMMA QuietStep ==
    ASSUME IInv, Quiet, NEW t \in Task, NEW next \in Job, Become(t, next),
           job'[t] = next => JobOK(t)',
           registered' \subseteq Sim, cleanup' \in BOOLEAN, ops' \in 0..MaxOps
    PROVE  IInv'
<1>1. /\ job' \in [Task -> Job] /\ job'[t] = next
      /\ \A u \in Task \ {t} : job'[u] = job[u]
  BY BecomeFacts DEF IInv, RestOK
<1>2. \A u \in Task : JobOK(u)'
  BY <1>1, QuietJob DEF IInv
<1>3. QED
  BY <1>1, <1>2, QuietData DEF IInv, RestOK

\* A task that is idle or dying has nothing to answer for.
LEMMA OtherPlace ==
    ASSUME NEW t \in Task, job'[t].pc \in {"idle", "find", "create", "resolve", "infer"},
           job'[t].pc \in Sending /\ job'[t].send => job'[t].name \in Name,
           job'[t].pc \in {"find", "create"} => job'[t].send
    PROVE  JobOK(t)'
BY DEF JobOK, MessageOK, DeletionOK, OpeningOK, GuessOK

\* The numbers that are left for operations.
LEMMA OpsFact == ops \in 0..MaxOps /\ ops > 0 /\ ops' = ops - 1 => ops' \in 0..MaxOps
BY Domains

LEMMA InitIInv == Init => IInv
<1> SUFFICES ASSUME Init PROVE IInv
  OBVIOUS
<1>1. /\ contacts \in [Name -> Name \cup {None}]
      /\ \A n \in Name : \A b, c \in IdOf(n) : b = c
  <2>1. CASE contacts = NoContacts
    BY <2>1, Domains DEF NoContacts, IdOf
  <2>2. ASSUME NEW c \in Number, NEW n \in Label, contacts = [NoContacts EXCEPT ![c] = n]
        PROVE  <1>1!:
    <3>1. c \in Name /\ n \in Name
      BY DEF Name
    <3>2. contacts = [d \in Name |-> IF d = c THEN n ELSE None]
      BY <2>2, <3>1 DEF NoContacts
    <3>3. QED
      BY <3>1, <3>2, Domains DEF IdOf
  <2>3. QED
    BY <2>1, <2>2 DEF Init
<1>2. \A i \in Live : ~sms[i].send /\ ~sms[i].read /\ ~sms[i].inferred /\ sms[i].contact = Blank
  BY DEF Init, NoRows, Unsigned, Live
<1>3. sms \in [Id -> Row \cup {None}] /\ lastId \in 0..MaxRows /\ Live \subseteq 1..lastId
  <2>1. 1 \in Id
    BY Domains DEF Id
  <2>2. CASE sms = NoRows /\ lastId = 0
    <3>1. sms \in [Id -> Row \cup {None}]
      BY <2>2 DEF NoRows
    <3>2. Live = {}
      BY <2>2 DEF NoRows, Live
    <3>3. lastId \in 0..MaxRows
      BY <2>2, Domains
    <3>4. QED
      BY <3>1, <3>2, <3>3
  <2>3. ASSUME NEW s \in Sim, NEW text \in Text, sms = [NoRows EXCEPT ![1] = Unsigned(s, text)], lastId = 1
        PROVE  <1>3!:
    <3>1. Unsigned(s, text) \in Row
      BY DEF Unsigned, Row
    <3>2. sms = [i \in Id |-> IF i = 1 THEN Unsigned(s, text) ELSE None]
      BY <2>1, <2>3 DEF NoRows
    <3>3. sms \in [Id -> Row \cup {None}]
      BY <3>1, <3>2
    <3>4. Live \subseteq {1}
      BY <3>2 DEF Live
    <3>5. lastId \in 0..MaxRows /\ 1..lastId = {1}
      BY <2>3, Domains
    <3>6. QED
      BY <3>3, <3>4, <3>5
  <2>4. QED
    BY <2>2, <2>3 DEF Init
<1>4. DataInv
  BY <1>1, <1>2, <1>3 DEF Init, DataInv, DataOK, SendInv, HiddenByRace, Hidden, ReadWasThere,
                          FiledWhereSent, InferredSentIt
<1>5. RestOK
  BY Domains DEF Init, RestOK, Job
<1>6. \A t \in Task : JobOK(t)
  BY DEF Init, Idle, JobOK, MessageOK, DeletionOK, OpeningOK, GuessOK, Sending
<1>7. QED
  BY <1>4, <1>5, <1>6 DEF IInv
-----------------------------------------------------------------------------
(* The steps that change no table. *)

\* The fields of a task that is sending or storing a message.
LEMMA Sender ==
    ASSUME IInv, NEW t \in Task, job[t].pc \in Sending
    PROVE  /\ job \in [Task -> Job] /\ JobOK(t)
           /\ job[t] \in Messages
           /\ job[t].id \in Name \cup {Blank, None} /\ job[t].name \in Name \cup {Blank}
           /\ job[t].sim \in Sim /\ job[t].text \in Text /\ job[t].send \in BOOLEAN
           /\ job[t].leg \in {"only", "out", "in"} /\ job[t].source \in Sim \cup {Blank}
           /\ job[t].found \in Name \cup {None} /\ job[t].fresh \in BOOLEAN
<1>1. job \in [Task -> Job] /\ JobOK(t) /\ job[t] \in Job
  BY DEF IInv, RestOK
<1>2. job[t] \in Messages
  BY <1>1, JobFields
<1>3. QED
  BY <1>1, <1>2, MessageFields

\* A message goes from one place to another, or its request ends.
LEMMA MessageStep ==
    ASSUME IInv, NEW t \in Task, NEW next \in Messages \cup {Idle}, Become(t, next),
           job'[t] = next => MessageOK(t)',
           UNCHANGED <<db, registered, cleanup, ops, history>>
    PROVE  IInv' /\ Quiet
<1>1. Quiet
  BY DEF Quiet, db, history
<1>2. next \in Job
  BY DEF Job
<1>3. next.pc \in Sending \/ next.pc = "idle"
  BY <1>2, JobFields
<1>4. job'[t] = next => JobOK(t)'
  BY <1>3 DEF JobOK, DeletionOK, OpeningOK, GuessOK, Sending
<1>5. QED
  BY <1>1, <1>2, <1>4, QuietStep DEF IInv, RestOK

LEMMA FindStep ==
    ASSUME IInv, NEW t \in Task, Find(t)
    PROVE  IInv' /\ Quiet
<1>1. job[t].pc = "find" /\ job[t].pc \in Sending
  BY DEF Find, Sending
<1>2. job[t] \in Messages /\ job[t].send /\ job[t].name \in Name
  BY <1>1, Sender DEF JobOK, MessageOK
<1>3. ASSUME NEW c \in IdOf(job[t].name),
             Become(t, [job[t] EXCEPT !.pc = "route", !.id = c])
      PROVE  IInv' /\ Quiet
  <2> DEFINE next == [job[t] EXCEPT !.pc = "route", !.id = c]
  <2>1. c \in Name /\ contacts[c] = job[t].name
    BY <1>3 DEF IdOf
  <2>2. next \in Messages
    BY <1>2, <2>1 DEF Messages
  <2>3. /\ next.pc = "route" /\ next.id = c /\ next.name = job[t].name
        /\ next.send = job[t].send
    BY <1>2 DEF Messages
  <2>4. contacts' = contacts
    BY DEF Find, db
  <2>5. job'[t] = next => MessageOK(t)'
    BY <1>2, <2>1, <2>3, <2>4 DEF MessageOK
  <2>6. QED
    BY <1>3, <2>2, <2>5, MessageStep DEF Find
<1>4. ASSUME Become(t, [job[t] EXCEPT !.pc = "create"])
      PROVE  IInv' /\ Quiet
  <2> DEFINE next == [job[t] EXCEPT !.pc = "create"]
  <2>1. next \in Messages /\ next.pc = "create" /\ next.name = job[t].name /\ next.send
    BY <1>2 DEF Messages
  <2>2. job'[t] = next => MessageOK(t)'
    BY <1>2, <2>1 DEF MessageOK
  <2>3. QED
    BY <1>4, <2>1, <2>2, MessageStep DEF Find
<1>5. QED
  BY <1>3, <1>4 DEF Find

LEMMA RouteStep ==
    ASSUME IInv, NEW t \in Task, Route(t)
    PROVE  IInv' /\ Quiet
<1>1. job[t].pc = "route" /\ job[t].pc \in Sending
  BY DEF Route, Sending
<1>2. job[t] \in Messages /\ MessageOK(t)
  BY <1>1, Sender DEF JobOK
<1>3. contacts' = contacts /\ erased' = erased
  BY DEF Route, db, history
<1>4. ASSUME NEW source \in Sim \cup {Blank}, NEW leg \in {"only", "out"},
             Become(t, [job[t] EXCEPT !.pc = "look", !.leg = leg, !.source = source])
      PROVE  IInv' /\ Quiet
  <2> DEFINE next == [job[t] EXCEPT !.pc = "look", !.leg = leg, !.source = source]
  <2>1. /\ next \in Messages /\ next.pc = "look" /\ next.name = job[t].name
        /\ next.send = job[t].send /\ next.id = job[t].id
    BY <1>2 DEF Messages
  <2>2. job'[t] = next => MessageOK(t)'
    BY <1>1, <1>2, <1>3, <2>1 DEF MessageOK, Sending
  <2>3. QED
    BY <1>4, <2>1, <2>2, MessageStep DEF Route
<1>5. ASSUME Become(t, [job[t] EXCEPT !.pc = "look"])
      PROVE  IInv' /\ Quiet
  <2> DEFINE next == [job[t] EXCEPT !.pc = "look"]
  <2>1. /\ next \in Messages /\ next.pc = "look" /\ next.name = job[t].name
        /\ next.send = job[t].send /\ next.id = job[t].id
    BY <1>2 DEF Messages
  <2>2. job'[t] = next => MessageOK(t)'
    BY <1>1, <1>2, <1>3, <2>1 DEF MessageOK, Sending
  <2>3. QED
    BY <1>5, <2>1, <2>2, MessageStep DEF Route
<1>6. ASSUME Become(t, Idle) PROVE IInv' /\ Quiet
  BY <1>6, MessageStep DEF Route, MessageOK, Idle, Sending
<1>7. job[t].sim \in Sim \cup {Blank} /\ Blank \in Sim \cup {Blank}
  BY <1>2 DEF Messages
<1>8. QED
  BY <1>4, <1>5, <1>6, <1>7 DEF Route

LEMMA LookStep ==
    ASSUME IInv, NEW t \in Task, Look(t)
    PROVE  IInv' /\ Quiet
<1>1. job[t].pc = "look" /\ job[t].pc \in Sending
  BY DEF Look, Sending
<1>2. job[t] \in Messages /\ MessageOK(t)
  BY <1>1, Sender DEF JobOK
<1>3. contacts' = contacts /\ erased' = erased /\ \A n : IdOf(n)' = IdOf(n)
  BY DEF Look, db, history, IdOf
<1>4. None \notin Name
  BY Domains
<1>5. ASSUME NEW c \in Name \cup {None},
             c = None => IdOf(job[t].name) = {},
             c # None => contacts[c] = job[t].name,
             Become(t, [job[t] EXCEPT !.pc = "write", !.found = c, !.fresh = TRUE])
      PROVE  IInv' /\ Quiet
  <2> DEFINE next == [job[t] EXCEPT !.pc = "write", !.found = c, !.fresh = TRUE]
  <2>1. /\ next \in Messages /\ next.pc = "write" /\ next.name = job[t].name
        /\ next.send = job[t].send /\ next.id = job[t].id /\ next.found = c
    BY <1>2 DEF Messages
  <2>2. job'[t] = next => MessageOK(t)'
    BY <1>1, <1>2, <1>3, <1>5, <2>1 DEF MessageOK, Sending
  <2>3. QED
    BY <1>5, <2>1, <2>2, MessageStep DEF Look
<1>6. QED
  BY <1>4, <1>5 DEF Look, IdOf

LEMMA ResolveStep ==
    ASSUME IInv, NEW t \in Task, Resolve(t)
    PROVE  IInv' /\ Quiet
<1>1. job[t].pc = "resolve" /\ job[t].pc \in Sending
  BY DEF Resolve, Sending
<1>2. job[t] \in Messages /\ job[t].source \in Sim \cup {Blank}
  BY <1>1, Sender
<1>3. registered \subseteq Sim /\ Sim \subseteq Name
  BY DEF IInv, RestOK, Name, Number
<1>4. CASE job[t].id \in registered
  <2> DEFINE next == [job[t] EXCEPT !.pc = "look", !.leg = "in", !.sim = job[t].id,
                                    !.send = FALSE, !.name = job[t].source]
  <2>1. next \in Messages /\ next.pc = "look" /\ ~next.send
    BY <1>2, <1>3, <1>4 DEF Messages
  <2>2. job'[t] = next => MessageOK(t)'
    BY <2>1 DEF MessageOK
  <2>3. QED
    BY <1>4, <2>1, <2>2, MessageStep DEF Resolve
<1>5. CASE job[t].id \notin registered
  BY <1>5, MessageStep DEF Resolve, MessageOK, Idle, Sending
<1>6. QED
  BY <1>4, <1>5

LEMMA GiveUpStep ==
    ASSUME IInv, NEW t \in Task, GiveUp(t)
    PROVE  IInv' /\ Quiet
BY MessageStep DEF GiveUp, MessageOK, Idle, Sending

\* The arms of Create and of Write that fail.
LEMMA DroppedStep ==
    ASSUME IInv, NEW t \in Task, Become(t, Idle),
           UNCHANGED <<db, registered, cleanup, ops, history>>
    PROVE  IInv' /\ Quiet
BY MessageStep DEF MessageOK, Idle, Sending

\* A request begins.
LEMMA BeginStep ==
    ASSUME IInv, NEW t \in Task, NEW next \in Job, Begin(t, next),
           job'[t] = next => JobOK(t)',
           UNCHANGED <<db, registered, cleanup, history>>
    PROVE  IInv' /\ Quiet
<1>1. Quiet
  BY DEF Quiet, db, history
<1>2. Become(t, next) /\ ops' \in 0..MaxOps
  BY OpsFact DEF Begin, IInv, RestOK
<1>3. QED
  BY <1>1, <1>2, QuietStep DEF IInv, RestOK

LEMMA NewMessage ==
    ASSUME NEW pc \in Sending, NEW id \in Name \cup {Blank, None},
           NEW name \in Name \cup {Blank}, NEW s \in Sim, NEW text \in Text
    PROVE  /\ Message(pc, id, name, s, text) \in Messages
           /\ [Message(pc, id, name, s, text) EXCEPT !.send = FALSE] \in Messages
BY DEF Message, Messages, Sending

LEMMA ArriveStep ==
    ASSUME IInv, NEW from \in Number \cup {Blank}, NEW s \in Sim, NEW text \in Text,
           Arrive(from, s, text)
    PROVE  IInv' /\ Quiet
<1> DEFINE next == [Message("look", None, from, s, text) EXCEPT !.send = FALSE]
<1>1. next \in Messages
  BY NewMessage DEF Name, Sending
<1>2. next.pc = "look" /\ ~next.send
  BY DEF Message
<1>3. job'[Consumer] = next => JobOK(Consumer)'
  BY <1>2 DEF JobOK, MessageOK, DeletionOK, OpeningOK, GuessOK
<1>4. Consumer \in Task /\ next \in Job
  BY <1>1 DEF Task, Job
<1>5. QED
  BY <1>3, <1>4, BeginStep DEF Arrive

LEMMA SubmitStep ==
    ASSUME IInv, NEW t \in Task, NEW c \in Name, NEW s \in Sim, NEW text \in Text,
           Submit(t, c, s, text)
    PROVE  IInv' /\ Quiet
<1> DEFINE next == Message("route", c, contacts[c], s, text)
<1>1. contacts[c] \in Name
  BY DEF Submit, IInv, DataInv, DataOK
<1>2. next \in Messages
  BY <1>1, NewMessage DEF Sending
<1>3. next.pc = "route" /\ next.id = c /\ next.name = contacts[c]
  BY DEF Message
<1>4. contacts' = contacts
  BY DEF Submit, db
<1>5. job'[t] = next => JobOK(t)'
  BY <1>1, <1>3, <1>4 DEF JobOK, MessageOK, DeletionOK, OpeningOK, GuessOK
<1>6. next \in Job
  BY <1>2 DEF Job
<1>7. QED
  BY <1>5, <1>6, BeginStep DEF Submit

LEMMA SubmitNewStep ==
    ASSUME IInv, NEW t \in Task, NEW n \in Number, NEW s \in Sim, NEW text \in Text,
           SubmitNew(t, n, s, text)
    PROVE  IInv' /\ Quiet
<1> DEFINE next == Message("find", None, n, s, text)
<1>1. next \in Messages /\ n \in Name
  BY NewMessage DEF Sending, Name
<1>2. next.pc = "find" /\ next.name = n /\ next.send
  BY DEF Message
<1>3. job'[t] = next => JobOK(t)'
  BY <1>1, <1>2 DEF JobOK, MessageOK, DeletionOK, OpeningOK, GuessOK
<1>4. next \in Job
  BY <1>1 DEF Job
<1>5. QED
  BY <1>3, <1>4, BeginStep DEF SubmitNew

LEMMA OpenStep ==
    ASSUME IInv, NEW t \in Task, NEW c \in Name, Open(t, c)
    PROVE  IInv' /\ Quiet
<1>1. Unread(c) \subseteq Listing(c) /\ Listing(c) \subseteq Id
  BY DEF Unread, Listing, Live
<1>2. PICK page \in FirstPages(Listing(c)) \cup {Unread(c)} : Begin(t, Opening(c, page))
  BY DEF Open
<1>3. page \subseteq Listing(c)
  BY <1>1, <1>2 DEF FirstPages, kSubset
<1> DEFINE next == Opening(c, page)
<1>4. next \in Job
  BY <1>1, <1>3 DEF Job, Openings, Opening
<1>5. /\ next.pc = "mark" /\ next.id = c
      /\ next.seen \cup next.rest \subseteq Listing(c) /\ Unread(c) \subseteq next.seen \cup next.rest
  BY <1>1, <1>3 DEF Opening
<1>6. Listing(c)' = Listing(c) /\ Unread(c)' = Unread(c)
  BY DEF Open, db, Unread, Listing, Live, IsBlank, Twins
<1> HIDE DEF next
<1>7. job'[t] = next => JobOK(t)'
  BY <1>5, <1>6 DEF JobOK, MessageOK, DeletionOK, OpeningOK, GuessOK, Sending
<1>8. QED
  BY <1>2, <1>4, <1>7, BeginStep DEF Open, next

LEMMA ViewInboxStep ==
    ASSUME IInv, NEW t \in Task, ViewInbox(t)
    PROVE  IInv' /\ Quiet
<1> DEFINE next == [pc |-> "infer", seen |-> {i \in Id : IsBlank(i)}, guess |-> None]
<1>1. next \in Job
  BY DEF Job, Views
<1>2. job'[t] = next => JobOK(t)'
  BY OtherPlace DEF Sending
<1>3. QED
  BY <1>1, <1>2, BeginStep DEF ViewInbox

LEMMA RowIds ==
    ASSUME IInv
    PROVE  lastId \in Nat /\ Live \subseteq 1..lastId /\ Live \subseteq Id /\ lastId <= MaxRows
<1>1. lastId \in 0..MaxRows /\ Live \subseteq 1..lastId
  BY DEF IInv, DataInv, DataOK
<1>2. MaxRows \in Nat
  BY Domains
<1>3. QED
  BY <1>1, <1>2 DEF Live

\* The number that is guessed was the sender of a twin, or is in the text.
LEMMA GuessFact ==
    ASSUME IInv, NEW i \in Live, Guess(i, sms[i].text) # None
    PROVE  /\ Guess(i, sms[i].text) \in Number
           /\ \/ [sim |-> Guess(i, sms[i].text), to |-> sms[i].sim, text |-> sms[i].text] \in sent
              \/ Guess(i, sms[i].text) = sms[i].text
<1>1. CASE Twins(i) # {}
  <2> DEFINE k == Max(Twins(i))
  <2>1. Twins(i) \subseteq 1..lastId /\ lastId \in Nat
    BY RowIds DEF Twins
  <2>2. k \in Twins(i)
    BY <1>1, <2>1, MaxFact
  <2>3. /\ k \in Live /\ sms[k].send
        /\ sms[k].text = sms[i].text /\ sms[k].contact = sms[i].sim
    BY <2>2 DEF Twins
  <2>4. [sim |-> sms[k].sim, to |-> sms[k].contact, text |-> sms[k].text] \in sent
    BY <2>3 DEF IInv, DataInv, SendInv
  <2>5. sms[k].sim \in Number
    BY <2>3 DEF IInv, DataInv, DataOK, Live, Row, Number
  <2>6. Guess(i, sms[i].text) = sms[k].sim
    BY <1>1 DEF Guess, Live
  <2>7. QED
    BY <2>3, <2>4, <2>5, <2>6
<1>2. CASE Twins(i) = {}
  BY <1>2 DEF Guess
<1>3. QED
  BY <1>1, <1>2

LEMMA InferStep ==
    ASSUME IInv, NEW t \in Task, Infer(t)
    PROVE  IInv' /\ Quiet
<1> DEFINE left == job[t].seen \cap Live
           i == Max(left)
           g == Guess(i, sms[i].text)
<1>1. Quiet /\ UNCHANGED <<registered, cleanup, ops>>
  BY DEF Infer, Quiet, db, history
<1>2. job[t] \in Views /\ job[t].pc = "infer"
  BY JobFields DEF Infer, IInv, RestOK
<1>3. left \subseteq 1..lastId /\ lastId \in Nat
  BY RowIds
<1>4. left \subseteq Id
  BY DEF Live
<1>5. CASE left = {}
  <2>1. Become(t, Idle)
    BY <1>5 DEF Infer
  <2>2. Idle \in Job
    BY DEF Job
  <2>3. job'[t] = Idle => JobOK(t)'
    BY OtherPlace DEF Idle, Sending
  <2>4. QED
    BY <1>1, <2>1, <2>2, <2>3, QuietStep DEF IInv, RestOK
<1>6. CASE left # {} /\ g = None
  <2> DEFINE next == [job[t] EXCEPT !.seen = left \ {i}]
  <2>1. Become(t, next)
    BY <1>6 DEF Infer
  <2>2. next \in Job /\ next.pc = "infer"
    BY <1>2, <1>4 DEF Job, Views
  <2>3. job'[t] = next => JobOK(t)'
    BY <2>2, OtherPlace DEF Sending
  <2>4. QED
    BY <1>1, <2>1, <2>2, <2>3, QuietStep DEF IInv, RestOK
<1>7. CASE left # {} /\ g # None
  <2> DEFINE next == [job[t] EXCEPT !.pc = "refile", !.seen = left, !.guess = g]
  <2>1. Become(t, next)
    BY <1>7 DEF Infer
  <2>2. i \in left /\ i \in Live /\ i \in 1..lastId
    BY <1>3, <1>7, MaxFact
  <2>3. /\ g \in Number
        /\ \/ [sim |-> g, to |-> sms[i].sim, text |-> sms[i].text] \in sent
           \/ g = sms[i].text
    BY <1>7, <2>2, GuessFact
  <2>4. next \in Job /\ next.pc = "refile" /\ next.seen = left /\ next.guess = g
    BY <1>2, <1>4, <2>3 DEF Job, Views
  <2>5. job'[t] = next => JobOK(t)'
    <3> SUFFICES ASSUME job'[t] = next PROVE JobOK(t)'
      OBVIOUS
    <3>1. GuessOK(t)'
      BY <1>1, <2>2, <2>3, <2>4 DEF GuessOK, Quiet
    <3>2. QED
      BY <2>4, <3>1 DEF JobOK, MessageOK, DeletionOK, OpeningOK, Sending
  <2>6. QED
    BY <1>1, <2>1, <2>4, <2>5, QuietStep DEF IInv, RestOK
<1>8. QED
  BY <1>5, <1>6, <1>7

LEMMA RescanStep ==
    ASSUME IInv, NEW s \in Sim, Rescan(s)
    PROVE  IInv' /\ Quiet
<1>1. Quiet /\ job' = job /\ cleanup' = cleanup
  BY DEF Rescan, Quiet, db, history
<1>2. \A u \in Task : JobOK(u)'
  BY <1>1, QuietJob DEF IInv
<1>3. ops' \in 0..MaxOps /\ registered' \subseteq Sim
  BY OpsFact DEF Rescan, IInv, RestOK
<1>4. QED
  BY <1>1, <1>2, <1>3, QuietData DEF IInv, RestOK

LEMMA CrashStep ==
    ASSUME IInv, Crash
    PROVE  IInv' /\ Quiet
<1>1. Quiet /\ job' = [t \in Task |-> Idle] /\ cleanup' = TRUE /\ registered' = registered
  BY DEF Crash, Quiet, db, history
<1>2. \A u \in Task : JobOK(u)'
  BY <1>1, OtherPlace DEF Idle, Sending
<1>3. ops' \in 0..MaxOps /\ job' \in [Task -> Job]
  BY <1>1, OpsFact DEF Crash, IInv, RestOK, Job
<1>4. QED
  BY <1>1, <1>2, <1>3, QuietData DEF IInv, RestOK

-----------------------------------------------------------------------------
(* Steps that change the tables. *)

\* A row that was there: its contact changes only if it has none.
RowKept(i) ==
    /\ i \in Live
    /\ sms'[i].sim = sms[i].sim /\ sms'[i].text = sms[i].text
    /\ sms'[i].contact = sms[i].contact \/ (sms[i].contact = Blank /\ sms'[i].inferred)
    /\ sms[i].inferred => sms'[i].inferred
    /\ sms[i].raced => sms'[i].raced

\* A new row: it knows whether its contact is being deleted.
RowNew(i) ==
    /\ i > lastId
    /\ \A u \in Task : job[u].pc = "delete" /\ job[u].id = sms'[i].contact => sms'[i].raced

\* What every step does to the tables.
Evolves ==
    /\ \A i \in Id : sms'[i] # None => RowKept(i) \/ RowNew(i)
    /\ \A c \in Name : contacts'[c] = contacts[c] \/ contacts[c] = None \/ c \in erased'
    /\ erased \subseteq erased' /\ sent \subseteq sent'
    /\ lastId \in Nat /\ lastId' \in Nat /\ lastId <= lastId'

LEMMA QuietEvolves == IInv /\ Quiet => Evolves
<1> SUFFICES ASSUME IInv, Quiet PROVE Evolves
  OBVIOUS
<1>1. lastId \in Nat /\ lastId' = lastId
  BY RowIds DEF Quiet
<1>2. ASSUME NEW i \in Id, sms'[i] # None PROVE RowKept(i)
  <2>1. sms'[i] = sms[i] /\ i \in Live
    BY <1>2 DEF Quiet, Live
  <2>2. QED
    BY <2>1 DEF RowKept
<1>3. QED
  BY <1>1, <1>2 DEF Evolves, Quiet

\* The other tasks have to find that nothing they rely on has gone.
LEMMA OthersKept ==
    ASSUME IInv, Evolves, NEW u \in Task, Same(u),
           ~(job'[u].pc \in {"write", "mark"} /\ job'[u].fresh)
    PROVE  JobOK(u)'
<1>1. JobOK(u) /\ None \notin Name
  BY Domains DEF IInv
<1>2. MessageOK(u)'
  <2>1. job[u].pc \in {"route", "look", "write"} => job[u].pc \in Sending
    BY DEF Sending
  <2>2. ASSUME job'[u].pc \in {"route", "look", "write"}, job'[u].send
        PROVE  job'[u].id \in Name /\ (contacts'[job'[u].id] = job'[u].name \/ job'[u].id \in erased')
    <3>1. /\ job'[u].id = job[u].id /\ job'[u].name = job[u].name /\ job'[u].send = job[u].send
          /\ job'[u].pc = job[u].pc
      BY <2>1, <2>2 DEF Same
    <3>2. /\ job[u].name \in Name /\ job[u].id \in Name
          /\ contacts[job[u].id] = job[u].name \/ job[u].id \in erased
      BY <1>1, <2>1, <2>2, <3>1 DEF JobOK, MessageOK
    <3>3. QED
      BY <1>1, <3>1, <3>2 DEF Evolves
  <2>3. job'[u].pc \in Sending /\ job'[u].send => job'[u].name \in Name
    BY <1>1 DEF Same, JobOK, MessageOK
  <2>4. job'[u].pc \in {"find", "create"} => job'[u].send
    BY <1>1 DEF Same, JobOK, MessageOK, Sending
  <2>5. QED
    BY <2>2, <2>3, <2>4 DEF MessageOK
<1>3. DeletionOK(u)'
  <2> SUFFICES ASSUME job'[u].pc = "delete", NEW i \in Live', sms'[i].contact = job'[u].id
               PROVE  sms'[i].inferred \/ sms'[i].raced
    BY DEF DeletionOK
  <2>1. job[u].pc = "delete" /\ job'[u].id = job[u].id /\ DeletionOK(u)
    BY <1>1 DEF Same, JobOK
  <2>2. i \in Id /\ sms'[i] # None
    BY DEF Live
  <2>3. CASE RowKept(i)
    BY <2>1, <2>3 DEF DeletionOK, RowKept
  <2>4. CASE RowNew(i)
    BY <2>1, <2>4 DEF RowNew
  <2>5. QED
    BY <2>2, <2>3, <2>4 DEF Evolves
<1>4. OpeningOK(u)'
  <2>1. ~(job'[u].pc = "mark" /\ job'[u].fresh)
    OBVIOUS
  <2>2. QED
    BY <2>1 DEF OpeningOK
<1>5. GuessOK(u)'
  <2> SUFFICES ASSUME job'[u].pc = "refile" PROVE GuessOK(u)'
    BY DEF GuessOK
  <2> DEFINE i == Max(job[u].seen)
  <2>1. /\ job[u].pc = "refile" /\ job'[u].seen = job[u].seen /\ job'[u].guess = job[u].guess
        /\ GuessOK(u)
    BY <1>1 DEF Same, JobOK
  <2>2. /\ job[u].guess \in Number /\ i \in 1..lastId
        /\ sms[i] # None =>
              \/ [sim |-> job[u].guess, to |-> sms[i].sim, text |-> sms[i].text] \in sent
              \/ job[u].guess = sms[i].text
    BY <2>1 DEF GuessOK
  <2>3. i \in Id /\ i \in 1..lastId' /\ ~RowNew(i)
    BY <2>2, RowIds, Domains DEF Id, Evolves, RowNew
  <2>4. sms'[i] # None => RowKept(i)
    BY <2>3 DEF Evolves
  <2>5. sms'[i] # None =>
              \/ [sim |-> job[u].guess, to |-> sms'[i].sim, text |-> sms'[i].text] \in sent'
              \/ job[u].guess = sms'[i].text
    BY <2>2, <2>4 DEF Evolves, RowKept, Live
  <2>6. QED
    BY <2>1, <2>2, <2>3, <2>5 DEF GuessOK
<1>6. QED
  BY <1>2, <1>3, <1>4, <1>5 DEF JobOK

LEMMA CommitStep ==
    ASSUME IInv, NEW t \in Task, NEW next \in Job, Commit(t, next),
           DataInv', Evolves, job'[t] = next => JobOK(t)',
           registered' = registered, cleanup' = cleanup, ops' \in 0..MaxOps
    PROVE  IInv'
<1>1. /\ job' \in [Task -> Job] /\ job'[t] = next
      /\ \A u \in Task \ {t} : Same(u) /\ ~(job'[u].pc \in {"write", "mark"} /\ job'[u].fresh)
  BY CommitFacts DEF IInv, RestOK
<1>2. \A u \in Task : JobOK(u)'
  BY <1>1, OthersKept
<1>3. QED
  BY <1>1, <1>2 DEF IInv, RestOK

-----------------------------------------------------------------------------
(* Contacts come and go. *)

\* A contact is made under a free id and a free name.
LEMMA ContactAdded ==
    ASSUME IInv, NEW c \in Name, NEW n \in Name, Free(c, n),
           contacts' = [contacts EXCEPT ![c] = n],
           UNCHANGED <<sms, lastId, history>>
    PROVE  DataInv' /\ Evolves
<1>0. DataInv /\ DataOK /\ None \notin Name /\ Blank \notin Name
  BY Domains DEF IInv, DataInv
<1>1. /\ contacts' \in [Name -> Name \cup {None}]
      /\ \A d \in Name : contacts'[d] = IF d = c THEN n ELSE contacts[d]
  BY <1>0 DEF DataOK
<1>2. UNCHANGED <<sms, lastId, shown, beyond, sent, erased>>
  BY DEF history
<1>3. contacts[c] = None /\ IdOf(n) = {}
  BY DEF Free
<1>4. \A m \in Name : \A b, d \in IdOf(m)' : b = d
  <2>1. \A m \in Name : IdOf(m)' \subseteq IF m = n THEN {c} ELSE IdOf(m)
    BY <1>1, <1>3 DEF IdOf
  <2>2. QED
    BY <1>0, <2>1 DEF DataOK
<1>5. DataOK' /\ SendInv' /\ ReadWasThere' /\ FiledWhereSent' /\ InferredSentIt'
  BY <1>0, <1>1, <1>2, <1>4 DEF DataOK, DataInv, SendInv, ReadWasThere, FiledWhereSent,
                                InferredSentIt, Live
<1>6. HiddenByRace'
  <2> SUFFICES ASSUME NEW i \in Live', Hidden(i)' PROVE sms'[i].inferred \/ sms'[i].raced
    BY DEF HiddenByRace
  <2>1. i \in Live /\ sms'[i] = sms[i] /\ sms[i] \in Row
    BY <1>0, <1>2 DEF Live, DataOK
  <2>2. sms[i].contact \in Name
    BY <2>1 DEF Hidden, Row
  <2>3. Hidden(i)
    BY <1>0, <1>1, <2>1, <2>2 DEF Hidden
  <2>4. QED
    BY <1>0, <2>1, <2>3 DEF DataInv, HiddenByRace
<1>7. \A i \in Id : sms'[i] # None => RowKept(i)
  BY <1>2 DEF RowKept, Live
<1>8. Evolves
  BY <1>1, <1>2, <1>3, <1>7, RowIds DEF Evolves
<1>9. QED
  BY <1>5, <1>6, <1>8 DEF DataInv

LEMMA CreateStep ==
    ASSUME IInv, NEW t \in Task, Create(t)
    PROVE  IInv' /\ Evolves
<1> DEFINE n == job[t].name
<1>1. job[t].pc = "create" /\ job[t].pc \in Sending
  BY DEF Create, Sending
<1>2. job[t] \in Messages /\ n \in Name /\ job[t].send
  BY <1>1, Sender DEF JobOK, MessageOK
<1>3. CASE Free(n, n)
  <2> DEFINE next == [job[t] EXCEPT !.pc = "route", !.id = n]
  <2>1. contacts' = [contacts EXCEPT ![n] = n] /\ Commit(t, next)
    BY <1>3 DEF Create
  <2>2. DataInv' /\ Evolves
    BY <1>2, <1>3, <2>1, ContactAdded DEF Create
  <2>3. /\ next \in Messages /\ next.pc = "route" /\ next.id = n /\ next.name = n
    BY <1>2 DEF Messages
  <2>4. contacts'[n] = n
    BY <1>2, <2>1 DEF IInv, DataInv, DataOK
  <2>5. job'[t] = next => JobOK(t)'
    BY <1>2, <2>3, <2>4 DEF JobOK, MessageOK, DeletionOK, OpeningOK, GuessOK
  <2>6. next \in Job /\ ops' \in 0..MaxOps
    BY <2>3 DEF Job, Create, IInv, RestOK
  <2>7. QED
    BY <2>1, <2>2, <2>5, <2>6, CommitStep DEF Create
<1>4. CASE ~Free(n, n)
  BY <1>4, DroppedStep, QuietEvolves DEF Create, db
<1>5. QED
  BY <1>3, <1>4

LEMMA AddContactStep ==
    ASSUME IInv, NEW t \in Task, NEW c \in Number, NEW n \in Name, AddContact(t, c, n)
    PROVE  IInv' /\ Evolves
<1>1. DataInv' /\ Evolves
  BY ContactAdded DEF AddContact, Name
<1>2. Idle \in Job /\ ops' \in 0..MaxOps
  BY OpsFact DEF Job, AddContact, IInv, RestOK
<1>3. job'[t] = Idle => JobOK(t)'
  BY OtherPlace DEF Idle, Sending
<1>4. QED
  BY <1>1, <1>2, <1>3, CommitStep DEF AddContact

\* Contacts that have gone are remembered; their rows may have stayed for a
\* reason that is known.
LEMMA ContactsGone ==
    ASSUME IInv, NEW gone \in SUBSET Name,
           contacts' = [c \in Name |-> IF c \in gone THEN None ELSE contacts[c]],
           erased' = erased \cup gone,
           \A i \in Live : sms[i].contact \in gone => sms[i].inferred \/ sms[i].raced,
           UNCHANGED <<sms, lastId, shown, beyond, sent>>
    PROVE  DataInv' /\ Evolves
<1>0. DataInv /\ DataOK /\ None \notin Name
  BY Domains DEF IInv, DataInv
<1>1. contacts' \in [Name -> Name \cup {None}] /\ erased' \subseteq Name
  BY <1>0 DEF DataOK
<1>2. \A m \in Name : IdOf(m)' \subseteq IdOf(m)
  BY <1>0 DEF IdOf
<1>3. DataOK' /\ SendInv' /\ ReadWasThere' /\ FiledWhereSent' /\ InferredSentIt'
  BY <1>0, <1>1, <1>2 DEF DataOK, DataInv, SendInv, ReadWasThere, FiledWhereSent,
                          InferredSentIt, Live
<1>4. HiddenByRace'
  <2> SUFFICES ASSUME NEW i \in Live', Hidden(i)' PROVE sms'[i].inferred \/ sms'[i].raced
    BY DEF HiddenByRace
  <2>1. i \in Live /\ sms'[i] = sms[i] /\ sms[i] \in Row
    BY <1>0 DEF Live, DataOK
  <2>2. sms[i].contact \in Name
    BY <2>1 DEF Hidden, Row
  <2>3. Hidden(i) \/ sms[i].contact \in gone
    BY <2>1, <2>2 DEF Hidden
  <2>4. QED
    BY <1>0, <2>1, <2>3 DEF DataInv, HiddenByRace
<1>5. \A i \in Id : sms'[i] # None => RowKept(i)
  BY DEF RowKept, Live
<1>6. Evolves
  BY <1>5, RowIds DEF Evolves
<1>7. QED
  BY <1>3, <1>4, <1>6 DEF DataInv

LEMMA DeleteContactStep ==
    ASSUME IInv, NEW t \in Task, DeleteContact(t)
    PROVE  IInv' /\ Evolves
<1> DEFINE gone == {job[t].id}
<1>1. job[t] \in Deletions /\ job[t].pc = "delete" /\ DeletionOK(t)
  BY JobFields DEF DeleteContact, IInv, RestOK, JobOK
<1>2. job[t].id \in Name
  BY <1>1 DEF Deletions
<1>3. contacts' = [c \in Name |-> IF c \in gone THEN None ELSE contacts[c]]
  BY <1>2 DEF DeleteContact, IInv, DataInv, DataOK
<1>4. \A i \in Live : sms[i].contact \in gone => sms[i].inferred \/ sms[i].raced
  BY <1>1 DEF DeletionOK
<1>5. DataInv' /\ Evolves
  BY <1>2, <1>3, <1>4, ContactsGone DEF DeleteContact
<1>6. Idle \in Job /\ ops' \in 0..MaxOps
  BY DEF Job, DeleteContact, IInv, RestOK
<1>7. job'[t] = Idle => JobOK(t)'
  BY OtherPlace DEF Idle, Sending
<1>8. QED
  BY <1>5, <1>6, <1>7, CommitStep DEF DeleteContact

LEMMA CleanUpStep ==
    ASSUME IInv, CleanUp
    PROVE  IInv' /\ Evolves
<1>1. Unused \subseteq Name /\ \A i \in Live : sms[i].contact \notin Unused
  BY DEF Unused
<1>2. DataInv' /\ Evolves
  BY <1>1, ContactsGone DEF CleanUp
<1>3. job \in [Task -> Job] /\ \A u \in Task : job'[u] = Stale(u)
  BY DEF CleanUp, IInv, RestOK
<1>4. \A u \in Task : JobOK(u)' /\ job'[u] \in Job
  BY <1>2, <1>3, StaleFacts, OthersKept
<1>5. job' \in [Task -> Job]
  BY <1>3, <1>4 DEF CleanUp
<1>6. QED
  BY <1>2, <1>4, <1>5 DEF IInv, RestOK, CleanUp

-----------------------------------------------------------------------------
(* Rows are deleted, read, refiled and stored. *)

LEMMA DeleteRowsStep ==
    ASSUME IInv, NEW t \in Task, NEW c \in Name, DeleteRows(t, c)
    PROVE  IInv' /\ Evolves
<1> DEFINE next == [pc |-> "delete", id |-> c]
<1>0. DataInv /\ DataOK
  BY DEF IInv, DataInv
<1>1. UNCHANGED <<contacts, lastId, shown, beyond, sent, erased, registered, cleanup>>
  BY DEF DeleteRows, history
<1>2. \A i \in Id : sms'[i] = sms[i] \/ sms'[i] = None
  BY DEF DeleteRows, Without
<1>3. sms' \in [Id -> Row \cup {None}]
  BY <1>0 DEF DataOK, DeleteRows, Without
<1>4. \A i \in Live' : i \in Live /\ sms'[i] = sms[i] /\ sms[i].contact # c
  BY DEF DeleteRows, Without, Live
<1>5. DataOK'
  BY <1>0, <1>1, <1>3, <1>4 DEF DataOK, IdOf
<1>6. DataInv'
  BY <1>0, <1>1, <1>4, <1>5 DEF DataInv, SendInv, HiddenByRace, Hidden, ReadWasThere,
                                FiledWhereSent, InferredSentIt
<1>7. \A i \in Id : sms'[i] # None => RowKept(i)
  BY <1>4 DEF RowKept, Live
<1>8. Evolves
  BY <1>1, <1>7, RowIds DEF Evolves
<1>9. next \in Job /\ ops' \in 0..MaxOps
  BY OpsFact DEF Job, Deletions, DeleteRows, IInv, RestOK
<1>10. job'[t] = next => JobOK(t)'
  BY <1>4 DEF JobOK, MessageOK, DeletionOK, OpeningOK, GuessOK, Sending
<1>11. QED
  BY <1>1, <1>6, <1>8, <1>9, <1>10, CommitStep DEF DeleteRows

LEMMA MarkStep ==
    ASSUME IInv, NEW t \in Task, Mark(t)
    PROVE  IInv' /\ Evolves
<1> DEFINE c == job[t].id
<1>0. DataInv /\ DataOK
  BY DEF IInv, DataInv
<1>1. UNCHANGED <<contacts, lastId, sent, erased, registered, cleanup, ops>>
  BY DEF Mark
<1>2. /\ job[t].seen \cup job[t].rest \subseteq Listing(c)
      /\ Unread(c) \subseteq job[t].seen \cup job[t].rest
  BY DEF Mark, IInv, JobOK, OpeningOK
<1>3. Listing(c) \subseteq Live /\ Live \subseteq 1..lastId /\ Live \subseteq Id
  BY RowIds DEF Listing
<1>4. \A i \in Id : sms'[i] = IF i \in Listing(c) THEN [sms[i] EXCEPT !.read = TRUE] ELSE sms[i]
  BY DEF Mark, Marked, MarkRead
<1>5. \A i \in Live : sms[i] \in Row
  BY <1>0 DEF DataOK, Live
<1>6. ASSUME NEW i \in Id
      PROVE  /\ i \in Live => sms'[i] \in Row
             /\ i \notin Live => sms'[i] = None
  <2>1. CASE i \in Listing(c)
    BY <1>3, <1>4, <1>5, <2>1 DEF Row
  <2>2. CASE i \notin Listing(c)
    BY <1>4, <1>5, <2>2 DEF Live
  <2>3. QED
    BY <2>1, <2>2
<1>7. sms' \in [Id -> Row \cup {None}] /\ Live' \subseteq Live
  BY <1>6 DEF Mark, Marked, MarkRead, Live
<1>8. ASSUME NEW i \in Live
      PROVE  /\ sms'[i].contact = sms[i].contact /\ sms'[i].sim = sms[i].sim
             /\ sms'[i].text = sms[i].text /\ sms'[i].send = sms[i].send
             /\ sms'[i].inferred = sms[i].inferred /\ sms'[i].raced = sms[i].raced
             /\ sms'[i].addressed = sms[i].addressed
             /\ i \notin Listing(c) => sms'[i].read = sms[i].read
  BY <1>3, <1>4, <1>5 DEF Row
<1>9. shown' = shown \cup job[t].seen /\ beyond' = beyond \cup job[t].rest
  BY DEF Mark, Marked
<1>10. DataOK'
  BY <1>0, <1>1, <1>2, <1>3, <1>7, <1>9 DEF DataOK, IdOf
<1>11. SendInv' /\ HiddenByRace' /\ FiledWhereSent' /\ InferredSentIt'
  BY <1>0, <1>1, <1>7, <1>8 DEF DataInv, SendInv, HiddenByRace, Hidden, FiledWhereSent,
                                InferredSentIt
<1>12. ReadWasThere'
  <2> SUFFICES ASSUME NEW i \in Live', sms'[i].read, ~sms'[i].send
               PROVE  i \in shown' \cup beyond'
    BY DEF ReadWasThere
  <2>1. i \in Live /\ ~sms[i].send
    BY <1>7, <1>8
  <2>2. CASE sms[i].read
    BY <1>0, <1>9, <2>1, <2>2 DEF DataInv, ReadWasThere
  <2>3. CASE ~sms[i].read
    <3>1. i \in Unread(c)
      BY <1>8, <2>1, <2>3 DEF Unread
    <3>2. QED
      BY <1>2, <1>9, <3>1
  <2>4. QED
    BY <2>2, <2>3
<1>13. \A i \in Id : sms'[i] # None => RowKept(i)
  BY <1>7, <1>8 DEF RowKept, Live
<1>14. Evolves
  BY <1>1, <1>13, RowIds DEF Evolves
<1>15. Idle \in Job /\ ops' \in 0..MaxOps
  BY <1>1 DEF Job, IInv, RestOK
<1>16. job'[t] = Idle => JobOK(t)'
  BY OtherPlace DEF Idle, Sending
<1>17. DataInv'
  BY <1>10, <1>11, <1>12 DEF DataInv
<1>18. QED
  BY <1>1, <1>14, <1>15, <1>16, <1>17, CommitStep DEF Mark, Marked

LEMMA RefileStep ==
    ASSUME IInv, NEW t \in Task, Refile(t)
    PROVE  IInv' /\ Evolves
<1> DEFINE i == Max(job[t].seen)
           next == [pc |-> "infer", seen |-> job[t].seen \ {i}, guess |-> None]
<1>0. DataInv /\ DataOK
  BY DEF IInv, DataInv
<1>1. job[t] \in Views /\ job[t].pc = "refile" /\ GuessOK(t)
  BY JobFields DEF Refile, IInv, RestOK, JobOK
<1>2. /\ job[t].guess \in Number /\ i \in 1..lastId
      /\ sms[i] # None =>
            \/ [sim |-> job[t].guess, to |-> sms[i].sim, text |-> sms[i].text] \in sent
            \/ job[t].guess = sms[i].text
  BY <1>1 DEF GuessOK
<1>3. next \in Job
  BY <1>1 DEF Job, Views
<1>4. job'[t] = next => JobOK(t)'
  BY OtherPlace DEF Sending
<1>5. UNCHANGED <<contacts, lastId, shown, beyond, sent, erased, registered, cleanup, ops>>
  BY DEF Refile, history
<1>6. CASE ~IsBlank(i)
  <2>1. Become(t, next) /\ Quiet
    BY <1>5, <1>6 DEF Refile, Quiet
  <2>2. QED
    BY <1>3, <1>4, <1>5, <2>1, QuietStep, QuietEvolves DEF IInv, RestOK
<1>7. CASE IsBlank(i)
  <2>1. /\ sms' = [sms EXCEPT ![i].contact = job[t].guess, ![i].inferred = TRUE]
        /\ Commit(t, next)
    BY <1>7 DEF Refile, Refiled
  <2>2. i \in Live /\ sms[i] \in Row /\ ~sms[i].send /\ sms[i].contact = Blank
    BY <1>0, <1>2, <1>7, RowIds, Domains DEF IsBlank, DataOK, Live, Id
  <2>3. /\ \A k \in Id : k # i => sms'[k] = sms[k]
        /\ sms'[i] = [sms[i] EXCEPT !.contact = job[t].guess, !.inferred = TRUE]
    BY <1>0, <2>1, <2>2 DEF DataOK, Live
  <2>4. /\ sms'[i] \in Row /\ sms'[i].contact = job[t].guess /\ sms'[i].inferred
        /\ sms'[i].sim = sms[i].sim /\ sms'[i].text = sms[i].text /\ sms'[i].send = sms[i].send
        /\ sms'[i].read = sms[i].read /\ sms'[i].raced = sms[i].raced
    BY <1>2, <2>2, <2>3 DEF Row, Name
  <2>5. sms' \in [Id -> Row \cup {None}] /\ Live' \subseteq Live
    BY <1>0, <2>1, <2>2, <2>3, <2>4 DEF DataOK, Live
  <2>6. DataOK'
    BY <1>0, <1>5, <2>5 DEF DataOK, IdOf
  <2>7. SendInv' /\ HiddenByRace' /\ ReadWasThere' /\ FiledWhereSent'
    BY <1>0, <1>5, <2>2, <2>3, <2>4, <2>5 DEF DataInv, SendInv, HiddenByRace, Hidden,
                                              ReadWasThere, FiledWhereSent, Live
  <2>8. InferredSentIt'
    BY <1>0, <1>2, <1>5, <2>2, <2>3, <2>4, <2>5 DEF DataInv, InferredSentIt, Live
  <2>9. \A k \in Id : sms'[k] # None => RowKept(k)
    BY <2>2, <2>3, <2>4 DEF RowKept, Live
  <2>10. Evolves
    BY <1>5, <2>9, RowIds DEF Evolves
  <2>11. DataInv' /\ ops' \in 0..MaxOps
    BY <1>5, <2>6, <2>7, <2>8 DEF DataInv, IInv, RestOK
  <2>12. QED
    BY <1>3, <1>4, <1>5, <2>1, <2>10, <2>11, CommitStep
<1>8. QED
  BY <1>6, <1>7

\* A message is stored under a contact that is there, or is made with it.
LEMMA StoreStep ==
    ASSUME IInv, NEW t \in Task, job[t].pc = "write", job[t].fresh, ~Clash(job[t]),
           Store(t, Filed(job[t])),
           UNCHANGED <<registered, cleanup, ops, shown, beyond, erased>>
    PROVE  IInv' /\ Evolves
<1> DEFINE j == job[t]
           c == Filed(j)
           n == lastId + 1
           new == [contact |-> c, sim |-> j.sim, text |-> j.text, send |-> j.send,
                   read |-> j.send, inferred |-> FALSE, raced |-> BeingDeleted(c),
                   addressed |-> IF j.send THEN j.id ELSE Blank]
           next == IF j.leg = "out"
                   THEN [j EXCEPT !.pc = "resolve", !.found = None, !.fresh = FALSE]
                   ELSE Idle
<1>0. DataInv /\ DataOK /\ None \notin Name /\ Blank \notin Name
  BY Domains DEF IInv, DataInv
<1>1. j \in Messages /\ MessageOK(t) /\ j.pc \in Sending
  BY Sender DEF JobOK, Sending
<1>2. /\ j.id \in Name \cup {Blank, None} /\ j.name \in Name \cup {Blank} /\ j.sim \in Sim
      /\ j.text \in Text /\ j.send \in BOOLEAN /\ j.found \in Name \cup {None}
  BY <1>1, MessageFields
<1>3. /\ j.send => j.name \in Name /\ j.id \in Name /\ (contacts[j.id] = j.name \/ j.id \in erased)
      /\ j.found = None => IdOf(j.name) = {}
      /\ j.found # None => j.found \in Name /\ contacts[j.found] = j.name
  BY <1>1 DEF MessageOK
<1>4. /\ lastId < MaxRows /\ lastId' = n
      /\ sms' = [sms EXCEPT ![n] = new]
      /\ contacts' = IF j.found = None /\ c # Blank
                     THEN [contacts EXCEPT ![c] = c] ELSE contacts
      /\ sent' = IF j.send THEN sent \cup {[sim |-> j.sim, to |-> c, text |-> j.text]} ELSE sent
      /\ Commit(t, next)
  BY DEF Store
<1>5. lastId \in Nat /\ n \in Id /\ n \notin Live /\ n \in 1..n /\ n > lastId /\ n \in Nat
      /\ n \in 0..MaxRows /\ 1..lastId \subseteq 1..n
  BY <1>4, RowIds, Domains DEF Id
<1>6. c \in Name \cup {Blank}
  BY <1>2, <1>3 DEF Filed
<1>7. /\ \A k \in Id : k # n => sms'[k] = sms[k]
      /\ sms'[n] = new
  BY <1>0, <1>4, <1>5 DEF DataOK
<1>8. new \in Row
  BY <1>2, <1>3, <1>6 DEF Row, BeingDeleted
<1>9. /\ new.contact = c /\ new.sim = j.sim /\ new.text = j.text /\ new.send = j.send
      /\ new.read = j.send /\ ~new.inferred /\ new.raced = BeingDeleted(c)
      /\ j.send => new.addressed = j.id
  OBVIOUS
<1>10. /\ sms' \in [Id -> Row \cup {None}] /\ Live' \subseteq Live \cup {n}
       /\ \A k \in Live : k \in Id /\ k # n /\ sms'[k] = sms[k]
  BY <1>0, <1>4, <1>5, <1>7, <1>8 DEF DataOK, Live
\* The contacts: at most one is made, under an id and a name that are free.
<1>11. /\ contacts' \in [Name -> Name \cup {None}]
       /\ \A m \in Name : contacts'[m] = contacts[m] \/ contacts[m] = None
       /\ \A m \in Name : \A b, d \in IdOf(m)' : b = d
       /\ c # Blank => contacts'[c] # None
  <2>1. CASE j.found = None /\ c # Blank
    <3>1. c = j.name /\ c \in Name /\ contacts[c] = None /\ IdOf(c) = {}
      BY <1>3, <1>6, <2>1 DEF Filed, Clash
    <3>2. /\ contacts' \in [Name -> Name \cup {None}]
          /\ \A m \in Name : contacts'[m] = IF m = c THEN c ELSE contacts[m]
      BY <1>0, <1>4, <2>1, <3>1 DEF DataOK
    <3>3. \A m \in Name : IdOf(m)' \subseteq IF m = c THEN {c} ELSE IdOf(m)
      BY <3>1, <3>2 DEF IdOf
    <3>4. \A m \in Name : \A b, d \in IdOf(m)' : b = d
      BY <1>0, <3>3 DEF DataOK
    <3>5. QED
      BY <1>0, <3>1, <3>2, <3>4
  <2>2. CASE ~(j.found = None /\ c # Blank)
    <3>1. contacts' = contacts
      BY <1>4, <2>2
    <3>2. c # Blank => contacts[c] # None
      <4>1. c # Blank => j.found # None /\ c = j.found
        BY <2>2 DEF Filed
      <4>2. c # Blank => contacts[c] \in Name
        <5>1. ASSUME c # Blank PROVE contacts[c] \in Name
          <6>1. c \in Name /\ contacts[c] = j.name
            BY <1>3, <4>1, <5>1
          <6>2. contacts[c] \in Name \cup {None}
            BY <1>0, <6>1 DEF DataOK
          <6>3. contacts[c] # None
            BY <1>0, <1>2, <6>1, Domains
          <6>4. QED
            BY <6>2, <6>3
        <5>2. QED
          BY <5>1
      <4>3. QED
        BY <1>0, <4>2
    <3>3. \A m : IdOf(m)' = IdOf(m)
      BY <3>1 DEF IdOf
    <3>4. QED
      BY <1>0, <3>1, <3>2, <3>3 DEF DataOK
  <2>3. QED
    BY <2>1, <2>2
<1>12. c \in Name /\ j.send => sent' \subseteq [sim : Sim, to : Name, text : Text]
  BY <1>0, <1>2, <1>4 DEF DataOK
<1>13. j.send => c \in Name
  BY <1>3 DEF Filed
<1>14. sent' \subseteq [sim : Sim, to : Name, text : Text] /\ sent \subseteq sent'
  BY <1>0, <1>4, <1>12, <1>13 DEF DataOK
<1>15. DataOK'
  <2>1. /\ Live' \subseteq 1..lastId' /\ lastId' \in 0..MaxRows
        /\ shown' \subseteq 1..lastId' /\ beyond' \subseteq 1..lastId'
    BY <1>0, <1>4, <1>5, <1>10 DEF DataOK
  <2>2. QED
    BY <1>0, <1>10, <1>11, <1>14, <2>1 DEF DataOK
<1>16. SendInv'
  <2> SUFFICES ASSUME NEW i \in Live', sms'[i].send
               PROVE  [sim |-> sms'[i].sim, to |-> sms'[i].contact, text |-> sms'[i].text] \in sent'
    BY DEF SendInv
  <2>1. CASE i = n
    BY <1>4, <1>7, <1>9, <2>1
  <2>2. CASE i \in Live
    BY <1>0, <1>10, <1>14, <2>2 DEF DataInv, SendInv
  <2>3. QED
    BY <1>10, <2>1, <2>2
<1>17. HiddenByRace'
  <2> SUFFICES ASSUME NEW i \in Live', Hidden(i)'
               PROVE  sms'[i].inferred \/ sms'[i].raced
    BY DEF HiddenByRace
  <2>1. i # n
    BY <1>7, <1>9, <1>11 DEF Hidden
  <2>2. i \in Live /\ sms'[i] = sms[i] /\ sms[i] \in Row
    BY <1>0, <1>10, <2>1 DEF DataOK, Live
  <2>3. Hidden(i)
    BY <1>0, <1>11, <2>2 DEF Hidden, Row
  <2>4. QED
    BY <1>0, <2>2, <2>3 DEF DataInv, HiddenByRace
<1>18. ReadWasThere'
  <2> SUFFICES ASSUME NEW i \in Live', sms'[i].read, ~sms'[i].send PROVE i \in shown' \cup beyond'
    BY DEF ReadWasThere
  <2>1. i # n
    BY <1>7, <1>9
  <2>2. QED
    BY <1>0, <1>10, <2>1 DEF DataInv, ReadWasThere
<1>19. FiledWhereSent'
  <2> SUFFICES ASSUME NEW i \in Live', sms'[i].send, sms'[i].contact # sms'[i].addressed
               PROVE  sms'[i].addressed \in erased'
    BY DEF FiledWhereSent
  <2>1. CASE i = n
    <3>1. j.send /\ c # j.id /\ sms'[i].addressed = j.id
      BY <1>7, <1>9, <2>1
    <3>2. CASE contacts[j.id] = j.name
      <4>1. j.id \in IdOf(j.name) /\ j.found # None
        BY <1>3, <3>1, <3>2 DEF IdOf
      <4>2. j.found \in IdOf(j.name) /\ c = j.found
        BY <1>3, <4>1 DEF IdOf, Filed
      <4>3. j.found = j.id
        BY <1>0, <1>3, <3>1, <4>1, <4>2 DEF DataOK
      <4>4. QED
        BY <3>1, <4>2, <4>3
    <3>3. QED
      BY <1>3, <3>1, <3>2
  <2>2. CASE i \in Live
    BY <1>0, <1>10, <2>2 DEF DataInv, FiledWhereSent
  <2>3. QED
    BY <1>10, <2>1, <2>2
<1>20. InferredSentIt'
  <2> SUFFICES ASSUME NEW i \in Live', sms'[i].inferred
               PROVE  \/ [sim |-> sms'[i].contact, to |-> sms'[i].sim, text |-> sms'[i].text] \in sent'
                      \/ sms'[i].contact = sms'[i].text
    BY DEF InferredSentIt
  <2>1. i # n
    BY <1>7, <1>9
  <2>2. QED
    BY <1>0, <1>10, <1>14, <2>1 DEF DataInv, InferredSentIt
<1>21. DataInv'
  BY <1>15, <1>16, <1>17, <1>18, <1>19, <1>20 DEF DataInv
<1>22. RowNew(n)
  BY <1>5, <1>7, <1>9 DEF RowNew, BeingDeleted
<1>23. \A i \in Id : sms'[i] # None => RowKept(i) \/ RowNew(i)
  BY <1>7, <1>22 DEF RowKept, Live
<1>24. Evolves
  BY <1>4, <1>5, <1>11, <1>14, <1>23 DEF Evolves
<1>25. next \in Job
  BY <1>1 DEF Job, Messages
<1>26. job'[t] = next => JobOK(t)'
  <2>1. CASE j.leg = "out"
    <3>1. next.pc = "resolve" /\ next.name = j.name /\ next.send = j.send
      BY <1>1, <2>1 DEF Messages
    <3>2. QED
      BY <1>3, <3>1, OtherPlace
  <2>2. CASE j.leg # "out"
    BY <2>2, OtherPlace DEF Idle, Sending
  <2>3. QED
    BY <2>1, <2>2
<1>27. QED
  BY <1>4, <1>21, <1>24, <1>25, <1>26, CommitStep DEF IInv, RestOK

LEMMA WriteStep ==
    ASSUME IInv, NEW t \in Task, Write(t)
    PROVE  IInv' /\ Evolves
<1>1. CASE Clash(job[t])
  BY <1>1, DroppedStep, QuietEvolves DEF Write, history
<1>2. CASE ~Clash(job[t])
  BY <1>2, StoreStep DEF Write
<1>3. QED
  BY <1>1, <1>2

-----------------------------------------------------------------------------
(* The theorems. *)

LEMMA EveryStep == IInv /\ [Next]_vars => IInv' /\ Evolves
<1> SUFFICES ASSUME IInv, [Next]_vars PROVE IInv' /\ Evolves
  OBVIOUS
<1>1. ASSUME NEW from \in Number \cup {Blank}, NEW s \in Sim, NEW text \in Text,
             Arrive(from, s, text)
      PROVE  IInv' /\ Evolves
  BY <1>1, ArriveStep, QuietEvolves
<1>2. ASSUME NEW t \in Request, Operation(t)
      PROVE  IInv' /\ Evolves
  <2>1. t \in Task
    BY DEF Task
  <2>2. ASSUME NEW s \in Sim, NEW text \in Text, NEW c \in Name, Submit(t, c, s, text)
        PROVE  IInv' /\ Evolves
    BY <2>1, <2>2, SubmitStep, QuietEvolves
  <2>3. ASSUME NEW s \in Sim, NEW text \in Text, NEW n \in Number, SubmitNew(t, n, s, text)
        PROVE  IInv' /\ Evolves
    BY <2>1, <2>3, SubmitNewStep, QuietEvolves
  <2>4. ASSUME NEW c \in Name, DeleteRows(t, c)
        PROVE  IInv' /\ Evolves
    BY <2>1, <2>4, DeleteRowsStep
  <2>5. ASSUME NEW c \in Name, Open(t, c)
        PROVE  IInv' /\ Evolves
    BY <2>1, <2>5, OpenStep, QuietEvolves
  <2>6. ASSUME NEW c \in Number, NEW n \in Name, AddContact(t, c, n)
        PROVE  IInv' /\ Evolves
    BY <2>1, <2>6, AddContactStep
  <2>7. ASSUME ViewInbox(t)
        PROVE  IInv' /\ Evolves
    BY <2>1, <2>7, ViewInboxStep, QuietEvolves
  <2>8. QED
    BY <1>2, <2>2, <2>3, <2>4, <2>5, <2>6, <2>7 DEF Operation
<1>3. ASSUME NEW t \in Task, Step(t)
      PROVE  IInv' /\ Evolves
  <2>1. CASE Find(t)
    BY <2>1, FindStep, QuietEvolves
  <2>2. CASE Create(t)
    BY <2>2, CreateStep
  <2>3. CASE Route(t)
    BY <2>3, RouteStep, QuietEvolves
  <2>4. CASE Look(t)
    BY <2>4, LookStep, QuietEvolves
  <2>5. CASE Write(t)
    BY <2>5, WriteStep
  <2>6. CASE GiveUp(t)
    BY <2>6, GiveUpStep, QuietEvolves
  <2>7. CASE Resolve(t)
    BY <2>7, ResolveStep, QuietEvolves
  <2>8. CASE DeleteContact(t)
    BY <2>8, DeleteContactStep
  <2>9. CASE Mark(t)
    BY <2>9, MarkStep
  <2>10. CASE Infer(t)
    BY <2>10, InferStep, QuietEvolves
  <2>11. CASE Refile(t)
    BY <2>11, RefileStep
  <2>12. QED
    BY <1>3, <2>1, <2>2, <2>3, <2>4, <2>5, <2>6, <2>7, <2>8, <2>9, <2>10, <2>11 DEF Step
<1>4. CASE CleanUp
  BY <1>4, CleanUpStep
<1>5. CASE Crash
  BY <1>5, CrashStep, QuietEvolves
<1>6. ASSUME NEW s \in Sim, Rescan(s)
      PROVE  IInv' /\ Evolves
  BY <1>6, RescanStep, QuietEvolves
<1>7. CASE UNCHANGED vars
  <2>1. Quiet /\ UNCHANGED <<registered, job, cleanup, ops>>
    BY <1>7 DEF vars, db, history, Quiet
  <2>2. \A u \in Task : JobOK(u)'
    BY <2>1, QuietJob DEF IInv
  <2>3. QED
    BY <2>1, <2>2, QuietData, QuietEvolves DEF IInv, RestOK
<1>8. QED
  BY <1>1, <1>2, <1>3, <1>4, <1>5, <1>6, <1>7 DEF Next

-----------------------------------------------------------------------------
(* Loopbacks. *)

\* The first half of a message has been stored as sent to the number to.
Halved(j, to) ==
    \E m \in sent : /\ m.text = j.text
                    /\ j.source \in {m.sim, Blank}
                    /\ m.to = to \/ to \in erased

\* A message becomes a loopback when it is routed; its first half is sent by
\* its source, and its second half is stored after the first.
LoopOK(t) ==
    /\ job[t].pc \in {"find", "create", "route"} => job[t].leg = "only" /\ job[t].send
    /\ job[t].pc \in {"look", "write"} /\ job[t].leg = "out" =>
          job[t].send /\ job[t].source \in {job[t].sim, Blank}
    /\ job[t].pc = "resolve" => Halved(job[t], job[t].id)
    /\ job[t].pc \in {"look", "write"} /\ job[t].leg = "in" => Halved(job[t], job[t].sim)

LoopInv == \A t \in Task : LoopOK(t)

Kept(t) ==
    /\ job'[t].pc = job[t].pc
    /\ job[t].pc \in Sending => /\ job'[t].leg = job[t].leg /\ job'[t].source = job[t].source
                                /\ job'[t].sim = job[t].sim /\ job'[t].text = job[t].text
                                /\ job'[t].send = job[t].send /\ job'[t].id = job[t].id

\* The histories grow, so what was sent stays sent.
LEMMA LoopKept ==
    ASSUME Evolves, NEW t \in Task, LoopOK(t), Kept(t)
    PROVE  LoopOK(t)'
<1>1. sent \subseteq sent' /\ erased \subseteq erased'
  BY DEF Evolves
<1>2. ASSUME job'[t].pc = "resolve"
      PROVE  \E m \in sent' : /\ m.text = job'[t].text
                              /\ job'[t].source \in {m.sim, Blank}
                              /\ m.to = job'[t].id \/ job'[t].id \in erased'
  BY <1>1, <1>2 DEF LoopOK, Kept, Sending, Halved
<1>3. ASSUME job'[t].pc \in {"look", "write"}, job'[t].leg = "in"
      PROVE  \E m \in sent' : /\ m.text = job'[t].text
                              /\ job'[t].source \in {m.sim, Blank}
                              /\ m.to = job'[t].sim \/ job'[t].sim \in erased'
  BY <1>1, <1>3 DEF LoopOK, Kept, Sending, Halved
<1>4. /\ job'[t].pc \in {"find", "create", "route"} => job'[t].leg = "only" /\ job'[t].send
      /\ job'[t].pc \in {"look", "write"} /\ job'[t].leg = "out" =>
            job'[t].send /\ job'[t].source \in {job'[t].sim, Blank}
  BY DEF LoopOK, Kept, Sending
<1>5. QED
  BY <1>2, <1>3, <1>4 DEF LoopOK, Halved

LEMMA StaleKept ==
    ASSUME IInv, NEW t \in Task, job'[t] \in {job[t], Stale(t)}
    PROVE  Kept(t)
<1>1. job[t] \in Job
  BY DEF IInv, RestOK
<1>2. CASE Fresh(t) /\ job'[t] = [job[t] EXCEPT !.fresh = FALSE]
  BY <1>1, <1>2, JobFields DEF Fresh, Kept, Messages, Openings, Sending
<1>3. CASE job'[t] = job[t]
  BY <1>3 DEF Kept
<1>4. QED
  BY <1>2, <1>3 DEF Stale

\* A step of one task: the others keep what they know.
LEMMA OneTask ==
    ASSUME IInv, LoopInv, Evolves, NEW t \in Task, NEW next, Become(t, next) \/ Commit(t, next),
           job'[t] = next => LoopOK(t)'
    PROVE  LoopInv'
<1>1. job'[t] = next /\ \A u \in Task \ {t} : job'[u] \in {job[u], Stale(u)}
  BY DEF IInv, RestOK, Become, Commit
<1>2. QED
  BY <1>1, StaleKept, LoopKept DEF LoopInv

\* A task that is not at a message that is routed has no loopback.
LEMMA NoLoop ==
    ASSUME NEW t \in Task, \/ job'[t].pc \notin Sending
                           \/ job'[t].pc # "resolve" /\ job'[t].leg = "only" /\ job'[t].send
                           \/ job'[t].pc \in {"look", "write"} /\ job'[t].leg = "only"
    PROVE  LoopOK(t)'
BY DEF LoopOK, Sending

LEMMA FindLoop ==
    ASSUME IInv, LoopInv, Evolves, NEW t \in Task, Find(t) \/ Create(t) \/ Look(t)
    PROVE  LoopInv'
<1>1. job[t].pc \in {"find", "create", "look"} /\ job[t].pc \in Sending
  BY DEF Find, Create, Look, Sending
<1>2. job[t] \in Messages /\ LoopOK(t)
  BY <1>1, Sender DEF LoopInv
<1> DEFINE SameText(next) ==
              /\ next.leg = job[t].leg /\ next.source = job[t].source
              /\ next.sim = job[t].sim /\ next.text = job[t].text /\ next.send = job[t].send
\* Wherever it goes, the message stays what it is.
<1>3. ASSUME NEW next \in Messages,
             \/ job[t].pc \in {"find", "create"} /\ next.pc \in {"create", "route"}
             \/ job[t].pc = "look" /\ next.pc = "write" /\ next.id = job[t].id,
             SameText(next), Become(t, next) \/ Commit(t, next)
      PROVE  LoopInv'
  <2>1. ASSUME job'[t] = next PROVE LoopOK(t)'
    <3>1. CASE job[t].pc \in {"find", "create"}
      BY <1>2, <1>3, <2>1, <3>1 DEF LoopOK
    <3>2. CASE job[t].pc = "look" /\ job[t].leg = "in"
      <4>1. PICK m \in sent : /\ m.text = job[t].text
                              /\ job[t].source \in {m.sim, Blank}
                              /\ m.to = job[t].sim \/ job[t].sim \in erased
        BY <1>2, <3>2 DEF LoopOK, Halved
      <4>2. m \in sent' /\ erased \subseteq erased'
        BY DEF Evolves
      <4>3. Halved(job[t], job[t].sim)'
        BY <1>3, <2>1, <4>1, <4>2 DEF Halved
      <4>4. QED
        BY <1>3, <2>1, <3>2, <4>3 DEF LoopOK
    <3>3. CASE job[t].pc = "look" /\ job[t].leg # "in"
      BY <1>2, <1>3, <2>1, <3>3 DEF LoopOK
    <3>4. QED
      BY <1>1, <3>1, <3>2, <3>3
  <2>2. QED
    BY <1>3, <2>1, OneTask
<1>4. CASE Find(t)
  <2>1. ASSUME NEW c \in IdOf(job[t].name), Become(t, [job[t] EXCEPT !.pc = "route", !.id = c])
        PROVE  LoopInv'
    <3> DEFINE next == [job[t] EXCEPT !.pc = "route", !.id = c]
    <3>1. next \in Messages /\ next.pc = "route" /\ SameText(next)
      BY <1>2 DEF Messages, IdOf
    <3> HIDE DEF next
    <3>2. Become(t, next) /\ job[t].pc = "find"
      BY <1>4, <2>1 DEF Find, next
    <3>3. QED
      BY <1>3, <3>1, <3>2
  <2>2. ASSUME Become(t, [job[t] EXCEPT !.pc = "create"])
        PROVE  LoopInv'
    <3> DEFINE next == [job[t] EXCEPT !.pc = "create"]
    <3>1. next \in Messages /\ next.pc = "create" /\ SameText(next)
      BY <1>2 DEF Messages
    <3> HIDE DEF next
    <3>2. Become(t, next) /\ job[t].pc = "find"
      BY <1>4, <2>2 DEF Find, next
    <3>3. QED
      BY <1>3, <3>1, <3>2
  <2>3. QED
    BY <1>4, <2>1, <2>2 DEF Find
<1>5. CASE Create(t)
  <2>1. ASSUME Commit(t, [job[t] EXCEPT !.pc = "route", !.id = job[t].name])
        PROVE  LoopInv'
    <3> DEFINE next == [job[t] EXCEPT !.pc = "route", !.id = job[t].name]
    <3>1. next \in Messages /\ next.pc = "route" /\ SameText(next)
      BY <1>2 DEF Messages
    <3> HIDE DEF next
    <3>2. Commit(t, next) /\ job[t].pc = "create"
      BY <1>5, <2>1 DEF Create, next
    <3>3. QED
      BY <1>3, <3>1, <3>2
  <2>2. ASSUME Become(t, Idle) PROVE LoopInv'
    BY <2>2, OneTask, NoLoop DEF Idle, Sending
  <2>3. QED
    BY <1>5, <2>1, <2>2 DEF Create
<1>6. CASE Look(t)
  <2>1. ASSUME NEW c \in Name \cup {None},
               Become(t, [job[t] EXCEPT !.pc = "write", !.found = c, !.fresh = TRUE])
        PROVE  LoopInv'
    <3> DEFINE next == [job[t] EXCEPT !.pc = "write", !.found = c, !.fresh = TRUE]
    <3>1. next \in Messages /\ next.pc = "write" /\ next.id = job[t].id /\ SameText(next)
      BY <1>2 DEF Messages
    <3> HIDE DEF next
    <3>2. QED
      BY <1>3, <1>6, <2>1, <3>1 DEF Look, next
  <2>2. QED
    BY <1>6, <2>1 DEF Look, IdOf
<1>7. QED
  BY <1>4, <1>5, <1>6

LEMMA RouteLoop ==
    ASSUME IInv, LoopInv, Evolves, NEW t \in Task, Route(t)
    PROVE  LoopInv'
<1>1. job[t].pc = "route" /\ job[t].pc \in Sending /\ job[t].leg = "only" /\ job[t].send
  BY DEF Route, Sending, LoopInv, LoopOK
<1>2. job[t] \in Messages
  BY <1>1, Sender
<1>3. ASSUME NEW source \in {job[t].sim, Blank},
             Become(t, [job[t] EXCEPT !.pc = "look", !.leg = "out", !.source = source])
      PROVE  LoopInv'
  <2> DEFINE next == [job[t] EXCEPT !.pc = "look", !.leg = "out", !.source = source]
  <2>1. next.pc = "look" /\ next.leg = "out" /\ next.source = source
        /\ next.sim = job[t].sim /\ next.send = job[t].send
    BY <1>2 DEF Messages
  <2> HIDE DEF next
  <2>2. job'[t] = next => LoopOK(t)'
    BY <1>1, <2>1 DEF LoopOK
  <2>3. QED
    BY <1>3, <2>2, OneTask DEF next
<1>4. ASSUME Become(t, [job[t] EXCEPT !.pc = "look"]) PROVE LoopInv'
  <2> DEFINE next == [job[t] EXCEPT !.pc = "look"]
  <2>1. next.pc = "look" /\ next.leg = "only"
    BY <1>1, <1>2 DEF Messages
  <2> HIDE DEF next
  <2>2. job'[t] = next => LoopOK(t)'
    BY <2>1, NoLoop
  <2>3. QED
    BY <1>4, <2>2, OneTask DEF next
<1>5. ASSUME Become(t, Idle) PROVE LoopInv'
  BY <1>5, OneTask, NoLoop DEF Idle, Sending
<1>6. QED
  BY <1>3, <1>4, <1>5 DEF Route

\* The first half is filed under the number, unless its contact is gone.
LEMMA WriteLoop ==
    ASSUME IInv, LoopInv, Evolves, NEW t \in Task, Write(t)
    PROVE  LoopInv'
<1> DEFINE j == job[t]
           c == Filed(j)
           next == [j EXCEPT !.pc = "resolve", !.found = None, !.fresh = FALSE]
<1>1. j.pc = "write" /\ j.fresh /\ j \in Messages /\ MessageOK(t) /\ LoopOK(t)
  BY Sender DEF Write, Sending, JobOK, LoopInv
<1>2. CASE Clash(j)
  BY <1>2, OneTask, NoLoop DEF Write, Idle, Sending
<1>3. CASE ~Clash(j) /\ j.leg # "out"
  BY <1>3, OneTask, NoLoop DEF Write, Store, Idle, Sending
<1>4. CASE ~Clash(j) /\ j.leg = "out"
  <2>1. j.send /\ j.source \in {j.sim, Blank}
    BY <1>1, <1>4 DEF LoopOK
  <2>2. /\ Commit(t, next) /\ erased' = erased
        /\ [sim |-> j.sim, to |-> c, text |-> j.text] \in sent'
    BY <1>4, <2>1 DEF Write, Store
  <2>3. c = j.id \/ j.id \in erased
    <3>1. /\ j.id \in Name /\ (contacts[j.id] = j.name \/ j.id \in erased)
          /\ j.found = None => IdOf(j.name) = {}
          /\ j.found # None => j.found \in Name /\ contacts[j.found] = j.name
          /\ j.name \in Name
      BY <1>1, <2>1 DEF MessageOK, Sending
    <3>2. CASE contacts[j.id] = j.name
      <4>1. j.id \in IdOf(j.name) /\ j.found # None
        BY <3>1, <3>2 DEF IdOf
      <4>2. j.found \in IdOf(j.name) /\ c = j.found
        BY <3>1, <4>1 DEF IdOf, Filed
      <4>3. QED
        BY <3>1, <4>1, <4>2 DEF IInv, DataInv, DataOK
    <3>3. QED
      BY <3>1, <3>2
  <2>4. /\ next.pc = "resolve" /\ next.text = j.text /\ next.source = j.source
        /\ next.id = j.id
    BY <1>1 DEF Messages
  <2>5. ASSUME job'[t] = next PROVE LoopOK(t)'
    <3>1. Halved(job[t], job[t].id)'
      BY <2>1, <2>2, <2>3, <2>4, <2>5 DEF Halved
    <3>2. QED
      BY <2>4, <2>5, <3>1 DEF LoopOK
  <2>6. QED
    BY <2>2, <2>5, OneTask
<1>5. QED
  BY <1>2, <1>3, <1>4

\* The receiver of the second half is the number that the first was sent to.
LEMMA ResolveLoop ==
    ASSUME IInv, LoopInv, Evolves, NEW t \in Task, Resolve(t)
    PROVE  LoopInv'
<1> DEFINE next == [job[t] EXCEPT !.pc = "look", !.leg = "in", !.sim = job[t].id,
                                  !.send = FALSE, !.name = job[t].source]
<1>1. job[t].pc = "resolve" /\ job[t] \in Messages /\ Halved(job[t], job[t].id)
  BY Sender DEF Resolve, Sending, LoopInv, LoopOK
<1>2. CASE job[t].id \in registered
  <2>1. /\ next.pc = "look" /\ next.leg = "in" /\ next.sim = job[t].id
        /\ next.text = job[t].text /\ next.source = job[t].source
    BY <1>1 DEF Messages
  <2>2. sent' = sent /\ erased' = erased /\ Become(t, next)
    BY <1>2 DEF Resolve, history
  <2> HIDE DEF next
  <2>3. ASSUME job'[t] = next PROVE LoopOK(t)'
    <3>1. Halved(job[t], job[t].sim)'
      BY <1>1, <2>1, <2>2, <2>3 DEF Halved
    <3>2. QED
      BY <2>1, <2>3, <3>1 DEF LoopOK
  <2>4. QED
    BY <2>2, <2>3, OneTask
<1>3. CASE job[t].id \notin registered
  BY <1>3, OneTask, NoLoop DEF Resolve, Idle, Sending
<1>4. QED
  BY <1>2, <1>3

LEMMA LoopStep == IInv /\ LoopInv /\ [Next]_vars => LoopInv'
<1> SUFFICES ASSUME IInv, LoopInv, [Next]_vars PROVE LoopInv'
  OBVIOUS
<1>1. Evolves
  BY EveryStep
<1>2. ASSUME NEW from \in Number \cup {Blank}, NEW s \in Sim, NEW text \in Text,
             Arrive(from, s, text)
      PROVE  LoopInv'
  <2>1. Consumer \in Task
    BY DEF Task
  <2>2. QED
    BY <1>1, <1>2, <2>1, OneTask, NoLoop DEF Arrive, Begin, Message
<1>3. ASSUME NEW t \in Request, Operation(t)
      PROVE  LoopInv'
  <2>1. t \in Task
    BY DEF Task
  <2>2. ASSUME NEW s \in Sim, NEW text \in Text, NEW c \in Name, Submit(t, c, s, text)
        PROVE  LoopInv'
    BY <1>1, <2>1, <2>2, OneTask, NoLoop DEF Submit, Begin, Message
  <2>3. ASSUME NEW s \in Sim, NEW text \in Text, NEW n \in Number, SubmitNew(t, n, s, text)
        PROVE  LoopInv'
    BY <1>1, <2>1, <2>3, OneTask, NoLoop DEF SubmitNew, Begin, Message
  <2>4. ASSUME NEW c \in Name, DeleteRows(t, c)
        PROVE  LoopInv'
    BY <1>1, <2>1, <2>4, OneTask, NoLoop DEF DeleteRows, Sending
  <2>5. ASSUME NEW c \in Name, Open(t, c)
        PROVE  LoopInv'
    BY <1>1, <2>1, <2>5, OneTask, NoLoop DEF Open, Opening, Begin, Sending
  <2>6. ASSUME NEW c \in Number, NEW n \in Name, AddContact(t, c, n)
        PROVE  LoopInv'
    BY <1>1, <2>1, <2>6, OneTask, NoLoop DEF AddContact, Idle, Sending
  <2>7. ASSUME ViewInbox(t)
        PROVE  LoopInv'
    BY <1>1, <2>1, <2>7, OneTask, NoLoop DEF ViewInbox, Begin, Sending
  <2>8. QED
    BY <1>3, <2>2, <2>3, <2>4, <2>5, <2>6, <2>7 DEF Operation
<1>4. ASSUME NEW t \in Task, Step(t)
      PROVE  LoopInv'
  <2>1. CASE Find(t) \/ Create(t) \/ Look(t)
    BY <1>1, <2>1, FindLoop
  <2>2. CASE Route(t) \/ Write(t) \/ Resolve(t)
    BY <1>1, <2>2, RouteLoop, WriteLoop, ResolveLoop
  <2>3. CASE GiveUp(t) \/ DeleteContact(t) \/ Mark(t)
    BY <1>1, <2>3, OneTask, NoLoop DEF GiveUp, DeleteContact, Mark, Marked, Idle, Sending
  <2>4. CASE Infer(t)
    <3>1. \E next : Become(t, next) /\ next.pc \in {"idle", "infer", "refile"}
      <4>1. job[t] \in Views
        BY <2>4, JobFields DEF Infer, IInv, RestOK
      <4> DEFINE left == job[t].seen \cap Live
                 i == Max(left)
                 g == Guess(i, sms[i].text)
                 over == [job[t] EXCEPT !.seen = left \ {i}]
                 good == [job[t] EXCEPT !.pc = "refile", !.seen = left, !.guess = g]
      <4>2. over.pc = "infer" /\ good.pc = "refile" /\ Idle.pc = "idle"
        BY <2>4, <4>1 DEF Infer, Idle, Views
      <4>3. Become(t, Idle) \/ Become(t, over) \/ Become(t, good)
        BY <2>4 DEF Infer
      <4>4. QED
        BY <4>2, <4>3
    <3>2. QED
      BY <1>1, <3>1, OneTask, NoLoop DEF Sending
  <2>5. CASE Refile(t)
    BY <1>1, <2>5, OneTask, NoLoop DEF Refile, Refiled, Sending
  <2>6. QED
    BY <1>4, <2>1, <2>2, <2>3, <2>4, <2>5 DEF Step
<1>5. CASE CleanUp
  BY <1>1, <1>5, StaleKept, LoopKept DEF CleanUp, LoopInv
<1>6. CASE Crash
  BY <1>6, NoLoop DEF Crash, Idle, Sending, LoopInv
<1>7. CASE (\E s \in Sim : Rescan(s)) \/ UNCHANGED vars
  <2>1. job' = job
    BY <1>7 DEF Rescan, vars
  <2>2. QED
    BY <1>1, <2>1, StaleKept, LoopKept DEF LoopInv
<1>8. QED
  BY <1>2, <1>3, <1>4, <1>5, <1>6, <1>7 DEF Next

\* What is where in the tables, and what every request under way knows of it,
\* holds after every step.
THEOREM Invariance == Spec => []IInv
<1>1. IInv /\ [Next]_vars => IInv'
  BY EveryStep
<1>2. QED
  BY InitIInv, <1>1, PTL DEF Spec

\* The variables have their types; names of contacts are unique.
THEOREM TypeCorrect == Spec => []TypeOK
<1>1. IInv => TypeOK
  BY DEF IInv, DataInv, DataOK, RestOK, TypeOK, Job
<1>2. QED
  BY Invariance, <1>1, PTL

\* An SMS that no conversation shows was stored while its contact was being
\* deleted, or its sender was guessed.
THEOREM HiddenRows == Spec => []HiddenByRace
<1>1. IInv => HiddenByRace
  BY DEF IInv, DataInv
<1>2. QED
  BY Invariance, <1>1, PTL

\* An incoming SMS is read only if a request that has marked its conversation
\* found it there, however its listing interleaves with what others store, file
\* and delete.
THEOREM ReadRows == Spec => []ReadWasThere
<1>1. IInv => ReadWasThere
  BY DEF IInv, DataInv
<1>2. QED
  BY Invariance, <1>1, PTL

\* What is sent is filed under the number it was sent to, unless that contact
\* has been deleted meanwhile.
THEOREM FiledRows == Spec => []FiledWhereSent
<1>1. IInv => FiledWhereSent
  BY DEF IInv, DataInv
<1>2. QED
  BY Invariance, <1>1, PTL

\* A guessed sender has sent this text to this SIM, or is the number in it.
THEOREM GuessedRows == Spec => []InferredSentIt
<1>1. IInv => InferredSentIt
  BY DEF IInv, DataInv
<1>2. QED
  BY Invariance, <1>1, PTL

\* The second half of a loopback (send_sms of manager.rs) is stored only after
\* the first, between the same two SIMs and with the same text, whatever other
\* requests and rescans do between its awaits.
THEOREM LoopbackPaired == Spec => []LoopbackWasSent
<1>1. Init => LoopInv
  BY DEF Init, LoopInv, LoopOK, Idle
<1>2. LoopInv => LoopbackWasSent
  BY DEF LoopInv, LoopOK, Halved, LoopbackWasSent
<1>3. QED
  BY <1>1, <1>2, LoopStep, Invariance, PTL DEF Spec

\* A row whose sender is known is never filed under another.
THEOREM NeverRefiled == Spec => FiledOnce
<1>1. ASSUME IInv, [Next]_vars, NEW i \in Live, sms[i].contact # Blank, sms'[i] # None
      PROVE  sms'[i].contact = sms[i].contact
  <2>1. Evolves /\ i \in Id /\ ~RowNew(i)
    BY <1>1, EveryStep, RowIds DEF RowNew, Id
  <2>2. RowKept(i)
    BY <1>1, <2>1 DEF Evolves
  <2>3. QED
    BY <1>1, <2>2 DEF RowKept
<1>2. IInv /\ [Next]_vars =>
         [\A i \in Live : sms[i].contact # Blank /\ sms'[i] # None =>
             sms'[i].contact = sms[i].contact]_vars
  BY <1>1
<1>3. QED
  BY Invariance, <1>2, PTL DEF Spec, FiledOnce
=============================================================================
