----------------------------- MODULE PhoneBatches -----------------------------
(***************************************************************************)
(* Phone numbers of SIMs on the Firefox platform: api/firefox.rs uploads    *)
(* them in chunks, marks the SIMs with a country code and records each      *)
(* chunk as a batch; four other requests take numbers off again.            *)
(* firefox_api.rs makes the calls, db.rs keeps marks and batches.           *)
(*                                                                         *)
(* The mark is written before an upload and cleared before a removal, one   *)
(* statement per SIM; the platform is asked last, and its answer may be an  *)
(* error although it has done what it was asked, or a refusal, which the    *)
(* gateway takes for success.  (A mark is the column that SimCards.tla      *)
(* calls code.)                                                             *)
(***************************************************************************)
EXTENDS Naturals, FiniteSets, TLC

CONSTANTS Sim,        \* SIMs that have a phone number
          Plain,      \* those whose stored number has digits and "+" only
          Country,    \* country codes
          Null,       \* no mark
          Request,    \* concurrent requests
          ChunkSize,  \* numbers in one upload call, 50 in the code
          MaxOps      \* bound: requests begun and crashes

Pair == [country : Country, sim : Sim]

ASSUME Domains ==
    /\ Plain \subseteq Sim
    /\ Null \notin Country
    /\ ChunkSize \in Nat \ {0} /\ MaxOps \in Nat

\* A chunk that the platform has answered: it has taken it, under a batch id, or
\* refused it.  The reason of a refusal is recorded where the id would be.
Chunk == [country : Country, sims : SUBSET Sim, taken : BOOLEAN]

VARIABLES
    mark,      \* sim_cards.country_code
    batches,   \* the rows of firefox_batch_uploads, by row id
    lastRow,   \* row ids given out so far
    listed,    \* what the platform lists
    job,       \* what each request is doing
    ops,
    loose      \* history: pairs whose batch the gateway was told of and has lost

vars == <<mark, batches, lastRow, listed, job, ops, loose>>

-----------------------------------------------------------------------------
Idle == [pc |-> "idle"]
\* unsure (history): SIMs whose mark another request has written meanwhile, or
\* this one has failed to write.
Uploads == [pc : {"mark", "send", "record"}, country : Country, todo : SUBSET Sim,
            unsent : SUBSET Sim, results : SUBSET Chunk, unsure : SUBSET Sim]
Removals == [pc : {"clear", "ask", "forget"}, todo : SUBSET Sim, pairs : SUBSET Pair,
             bySim : BOOLEAN, row : Nat, unsure : SUBSET Sim]

Rows == DOMAIN batches

TypeOK ==
    /\ mark \in [Sim -> Country \cup {Null}]
    /\ Rows \subseteq 1..lastRow
    /\ \A r \in Rows : batches[r] \in Chunk
    /\ lastRow \in Nat
    /\ listed \subseteq Pair
    /\ job \in [Request -> {Idle} \cup Uploads \cup Removals]
    /\ ops \in 0..MaxOps
    /\ loose \subseteq Pair

Init ==
    /\ mark = [s \in Sim |-> Null]
    /\ batches = <<>>
    /\ lastRow = 0
    /\ listed = {}
    /\ job = [t \in Request |-> Idle]
    /\ ops = MaxOps
    /\ loose = {}

-----------------------------------------------------------------------------
Become(t, next) == job' = [job EXCEPT ![t] = next]

Begin(t, next) ==
    /\ job[t] = Idle
    /\ ops > 0
    /\ ops' = ops - 1
    /\ Become(t, next)
    /\ UNCHANGED <<mark, batches, lastRow, listed, loose>>

\* One UPDATE of a mark, which may fail: the failure is logged or ignored.
SetMark(t, s, c, next) ==
    \/ /\ mark' = [mark EXCEPT ![s] = c]
       /\ job' = [u \in Request |->
                    IF u = t THEN next
                    ELSE IF job[u] = Idle THEN Idle
                    ELSE [job[u] EXCEPT !.unsure = @ \cup {s}]]
    \/ /\ Become(t, [next EXCEPT !.unsure = @ \cup {s}])
       /\ UNCHANGED mark

Pairs(c, sims) == {[country |-> c, sim |-> s] : s \in sims}

-----------------------------------------------------------------------------
(* firefox_upload.                                                         *)

\* A country is given; the selected SIMs are registered, and some have a usable
\* number.
Upload(t, c, sims) ==
    Begin(t, [pc |-> "mark", country |-> c, todo |-> sims, unsent |-> sims,
              results |-> {}, unsure |-> {}])

\* Mutant of Mark: the SIMs are marked when everything has been uploaded.
BugMarkLater(t) ==
    /\ job[t].pc = "mark"
    /\ Become(t, [job[t] EXCEPT !.todo = {}, !.pc = "send"])
    /\ UNCHANGED <<mark, batches, lastRow, listed, ops, loose>>

\* The country code of the next SIM; after the last one, the upload.
Mark(t) ==
    /\ job[t].pc = "mark"
    /\ \E s \in job[t].todo :
          SetMark(t, s, job[t].country,
                  [job[t] EXCEPT !.todo = @ \ {s},
                                 !.pc = IF job[t].todo = {s} THEN "send" ELSE "mark"])
    /\ UNCHANGED <<batches, lastRow, listed, ops, loose>>

NextChunk(unsent) ==
    {k \in SUBSET unsent : \/ Cardinality(k) = ChunkSize
                           \/ k = unsent /\ Cardinality(k) < ChunkSize}

Accepted(results) == UNION {Pairs(k.country, k.sims) : k \in {r \in results : r.taken}}

\* The answer to a chunk: taken, or refused, which is an answer like any other.
SendAnswered(t) ==
    /\ job[t].pc = "send"
    /\ \E k \in NextChunk(job[t].unsent), taken \in BOOLEAN :
          /\ listed' = IF taken THEN listed \cup Pairs(job[t].country, k) ELSE listed
          /\ Become(t, [job[t] EXCEPT
                !.unsent = @ \ k,
                !.results = @ \cup {[country |-> job[t].country, sims |-> k, taken |-> taken]},
                !.pc = IF job[t].unsent = k THEN "record" ELSE "send"])
    /\ UNCHANGED <<mark, batches, lastRow, ops, loose>>

\* An error ends the request, whether or not the platform has taken the chunk.
\* The chunks before it stay on the platform, unrecorded.
SendFailed(t) ==
    /\ job[t].pc = "send"
    /\ \E k \in NextChunk(job[t].unsent) :
          /\ listed' \in {listed, listed \cup Pairs(job[t].country, k)}
          /\ loose' = loose \cup (listed' \ listed) \cup Accepted(job[t].results)
                            \cup (Pairs(job[t].country, k) \cap listed)
    /\ Become(t, Idle)
    /\ UNCHANGED <<mark, batches, lastRow, ops>>

\* INSERT of a record; row ids are not used twice.
AddRow(r) ==
    /\ lastRow' = lastRow + 1
    /\ batches' = [q \in Rows \cup {lastRow + 1} |-> IF q \in Rows THEN batches[q] ELSE r]

AfterRecord(t, r) ==
    IF job[t].results = {r} THEN Idle ELSE [job[t] EXCEPT !.results = @ \ {r}]

\* Mutant of Record: one record for the whole upload.
BugFirstOnly(t) ==
    /\ job[t].pc = "record"
    /\ \E r \in job[t].results : AddRow(r)
    /\ Become(t, Idle)
    /\ UNCHANGED <<mark, listed, ops, loose>>

\* One row per answered chunk, refused or not; a failed INSERT is only logged.
Record(t) ==
    /\ job[t].pc = "record"
    /\ \E r \in job[t].results :
          /\ \/ /\ AddRow(r)
                /\ UNCHANGED loose
             \/ /\ loose' = loose \cup Accepted({r})
                /\ UNCHANGED <<lastRow, batches>>
          /\ Become(t, AfterRecord(t, r))
    /\ UNCHANGED <<mark, listed, ops>>

-----------------------------------------------------------------------------
(* Removals.                                                               *)

Removal(todo, pairs, bySim, row) ==
    [pc |-> IF todo = {} THEN "ask" ELSE "clear", todo |-> todo, pairs |-> pairs,
     bySim |-> bySim, row |-> row, unsure |-> {}]

\* The marks to clear are found in one query_all; if it fails, none is.
BeginRemoval(t, todo, pairs, bySim, row) ==
    \/ Begin(t, Removal(todo, pairs, bySim, row))
    \/ Begin(t, [Removal({}, pairs, bySim, row) EXCEPT !.unsure = Sim])

SimsOf(pairs) == {p.sim : p \in pairs}

\* firefox_delete_batch: pairs that the client names.  Marks are found by the
\* number as the platform has it, whatever country they are for.
DeleteBatch(t, pairs) == BeginRemoval(t, SimsOf(pairs) \cap Plain, pairs, TRUE, 0)

\* firefox_delete_batch_by_id: the numbers of a recorded chunk, which may as well
\* be a refused one: the newest with the reason that is given for an id.
DeleteBatchById(t, r) ==
    BeginRemoval(t, batches[r].sims \cap Plain, Pairs(batches[r].country, batches[r].sims), TRUE, r)

\* firefox_delete_country: the SIMs that are marked with it.
DeleteCountry(t, c) == BeginRemoval(t, {s \in Sim : mark[s] = c}, Pairs(c, Sim), FALSE, 0)

\* firefox_delete_all: the SIMs that are marked.
DeleteAll(t) == BeginRemoval(t, {s \in Sim : mark[s] # Null}, Pair, FALSE, 0)

\* Mutant of Clear: the marks are left to the next refresh.
BugKeepMarks(t) ==
    /\ job[t].pc = "clear"
    /\ Become(t, [job[t] EXCEPT !.todo = {}, !.pc = "ask"])
    /\ UNCHANGED <<mark, batches, lastRow, listed, ops, loose>>

Clear(t) ==
    /\ job[t].pc = "clear"
    /\ \E s \in job[t].todo :
          SetMark(t, s, Null,
                  [job[t] EXCEPT !.todo = @ \ {s},
                                 !.pc = IF job[t].todo = {s} THEN "ask" ELSE "clear"])
    /\ UNCHANGED <<batches, lastRow, listed, ops, loose>>

\* The platform answers (done or refused), or the call fails (done or not).
\* The gateway tells the answers apart from the failures only.
Ask(t) ==
    /\ job[t].pc = "ask"
    /\ listed' \in {listed, listed \ job[t].pairs}
    /\ \/ Become(t, IF job[t].row = 0 THEN Idle ELSE [job[t] EXCEPT !.pc = "forget"])
       \/ Become(t, Idle)
    /\ UNCHANGED <<mark, batches, lastRow, ops, loose>>

\* The record of a batch goes when its removal has been answered.
Forget(t) ==
    /\ job[t].pc = "forget"
    /\ \/ /\ batches' = [r \in Rows \ {job[t].row} |-> batches[r]]
          /\ loose' = loose \cup UNION {listed \cap Accepted({batches[r]}) :
                                         r \in Rows \cap {job[t].row}}
       \/ UNCHANGED <<batches, loose>>
    /\ Become(t, Idle)
    /\ UNCHANGED <<mark, lastRow, listed, ops>>

Held(t) == IF job[t].pc \in {"mark", "send", "record"} THEN Accepted(job[t].results) ELSE {}

\* The client hangs up and the request is dropped where it waits for a statement.
\* (Where it waits for the platform, SendFailed and Ask have the same outcome.)
Drop(t) ==
    /\ job[t].pc \in {"mark", "record", "clear", "forget"}
    /\ loose' = loose \cup Held(t)
    /\ Become(t, Idle)
    /\ UNCHANGED <<mark, batches, lastRow, listed, ops>>

\* The process dies; what it had not recorded it will never know.
Crash ==
    /\ ops > 0
    /\ ops' = ops - 1
    /\ job' = [t \in Request |-> Idle]
    /\ loose' = loose \cup UNION {Held(t) : t \in Request}
    /\ UNCHANGED <<mark, batches, lastRow, listed>>

Operation(t) ==
    \/ \E c \in Country, sims \in (SUBSET Sim) \ {{}} : Upload(t, c, sims)
    \/ \E p \in Pair : DeleteBatch(t, {p})   \* bound: one number per request
    \/ \E r \in Rows : DeleteBatchById(t, r)
    \/ \E c \in Country : DeleteCountry(t, c)
    \/ DeleteAll(t)

Step(t) ==
    \/ Mark(t) \/ SendAnswered(t) \/ SendFailed(t) \/ Record(t)
    \/ Clear(t) \/ Ask(t) \/ Forget(t) \/ Drop(t)

Next == Crash \/ \E t \in Request : Operation(t) \/ Step(t)

Spec == Init /\ [][Next]_vars

\* Requests are interchangeable, and so are countries.
Symmetry == Permutations(Request) \cup Permutations(Country)

-----------------------------------------------------------------------------
Unsure(s) == \E t \in Request : job[t] # Idle /\ s \in job[t].unsure

\* When a number appears on the platform its SIM is already marked, even if the
\* upload is then reported as failed, unless another request has written the
\* mark meanwhile or the UPDATE has failed.
MarkedWhenListed ==
    [][\A p \in listed' \ listed : mark'[p.sim] = p.country \/ Unsure(p.sim)]_vars

\* When a number leaves the platform its SIM is no longer marked for that
\* country, even if the removal is then reported as failed; with the same
\* exceptions, and one more: a removal by number overlooks a SIM whose stored
\* number is not written as the platform has it.
UnmarkedWhenGone ==
    [][\A p \in listed \ listed' :
          \/ mark'[p.sim] # p.country
          \/ Unsure(p.sim)
          \/ p.sim \notin Plain /\ \E t \in Request : job[t].pc = "ask" /\ job[t].bySim]_vars

Recorded == UNION {Accepted({batches[r]}) : r \in Rows}
BeingUploaded == UNION {Accepted(job[t].results) :
                          t \in {u \in Request : job[u].pc \in {"send", "record"}}}

\* Every number on the platform belongs to a batch that can be removed by its
\* id, or is about to, unless the gateway has lost that batch: a later chunk of
\* its upload or the INSERT of its record failed, a crash or the client cut the
\* upload short, or the platform had refused to remove the batch before its
\* record went.
ListedIsRecorded == listed \subseteq Recorded \cup BeingUploaded \cup loose
=============================================================================
