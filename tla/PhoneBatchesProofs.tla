-------------------------- MODULE PhoneBatchesProofs --------------------------
(***************************************************************************)
(* Theorems about PhoneBatches for any SIMs, countries and chunk size, any  *)
(* number of concurrent requests and any sequence of operations.            *)
(***************************************************************************)
EXTENDS PhoneBatches, TLAPS

Job == {Idle} \cup Uploads \cup Removals

Uploading == {"mark", "send", "record"}
Removing == {"clear", "ask", "forget"}

(* The inductive invariant, in parts. *)

\* An upload has marked what it is about to send, or somebody interfered.
UploadOK(t) == job[t].pc \in {"mark", "send"} =>
    \A s \in job[t].unsent :
        \/ job[t].pc = "mark" /\ s \in job[t].todo
        \/ mark[s] = job[t].country
        \/ s \in job[t].unsure

\* A removal has cleared the marks of what it is about to remove, or somebody
\* interfered, or it looks for numbers that are written differently.
RemovalOK(t) == job[t].pc \in {"clear", "ask"} =>
    \A p \in job[t].pairs :
        \/ job[t].pc = "clear" /\ p.sim \in job[t].todo
        \/ mark[p.sim] # p.country
        \/ p.sim \in job[t].unsure
        \/ job[t].bySim /\ p.sim \notin Plain

JobOK(t) == UploadOK(t) /\ RemovalOK(t)

\* A number on the platform, and where the gateway still knows of its batch.
Holds(t, p) ==
    /\ job[t].pc \in {"send", "record"}
    /\ \E r \in job[t].results : r.taken /\ p \in Pairs(r.country, r.sims)
OnRow(r, p) == batches[r].taken /\ p \in Pairs(batches[r].country, batches[r].sims)
Covered(p) ==
    \/ \E r \in Rows : OnRow(r, p)
    \/ \E t \in Request : Holds(t, p)
    \/ p \in loose

IInv ==
    /\ TypeOK
    /\ \A p \in listed : Covered(p)
    /\ \A t \in Request : JobOK(t)

-----------------------------------------------------------------------------
(* Jobs, and what a step does to the others. *)

LEMMA JobFields ==
    ASSUME NEW j \in Job
    PROVE  /\ j \in Uploads => j.pc \in Uploading
           /\ j \in Removals => j.pc \in Removing
           /\ j.pc \in Uploading => j \in Uploads
           /\ j.pc \in Removing => j \in Removals
           /\ j.pc \notin Uploading \cup Removing => j = Idle
           /\ Idle.pc = "idle"
BY DEF Job, Idle, Uploads, Removals, Uploading, Removing

LEMMA UploadFields ==
    ASSUME NEW j \in Uploads
    PROVE  /\ j.country \in Country /\ j.todo \subseteq Sim /\ j.unsent \subseteq Sim
           /\ j.results \subseteq Chunk /\ j.unsure \subseteq Sim /\ j.pc \in Uploading
BY DEF Uploads, Uploading

LEMMA RemovalFields ==
    ASSUME NEW j \in Removals
    PROVE  /\ j.todo \subseteq Sim /\ j.pairs \subseteq Pair /\ j.bySim \in BOOLEAN
           /\ j.row \in Nat /\ j.unsure \subseteq Sim /\ j.pc \in Removing
BY DEF Removals, Removing

LEMMA CoveredIsRecorded == (\A p \in listed : Covered(p)) => ListedIsRecorded
<1> SUFFICES ASSUME NEW p \in listed, Covered(p) PROVE p \in Recorded \cup BeingUploaded \cup loose
  BY DEF ListedIsRecorded
<1>1. CASE \E r \in Rows : OnRow(r, p)
  <2>1. PICK r \in Rows : OnRow(r, p)
    BY <1>1
  <2>2. p \in Accepted({batches[r]})
    BY <2>1 DEF OnRow, Accepted
  <2>3. QED
    BY <2>2 DEF Recorded
<1>2. CASE \E t \in Request : Holds(t, p)
  <2>1. PICK t \in Request : Holds(t, p)
    BY <1>2
  <2>2. p \in Accepted(job[t].results)
    BY <2>1 DEF Holds, Accepted
  <2>3. QED
    BY <2>1, <2>2 DEF BeingUploaded, Holds
<1>3. QED
  BY <1>1, <1>2 DEF Covered

LEMMA AcceptedFact ==
    ASSUME NEW R, NEW r \in R, r.taken, NEW p \in Pairs(r.country, r.sims)
    PROVE  p \in Accepted(R)
BY DEF Accepted

LEMMA SameJob ==
    ASSUME NEW u \in Request, JobOK(u), job'[u] = job[u], mark' = mark
    PROVE  JobOK(u)'
BY DEF JobOK, UploadOK, RemovalOK

\* Another request has written the mark of s: this one is no longer sure of it.
LEMMA UnsureJob ==
    ASSUME TypeOK, NEW u \in Request, NEW s \in Sim, JobOK(u), job[u] # Idle,
           job'[u] = [job[u] EXCEPT !.unsure = @ \cup {s}],
           \A x \in Sim : x # s => mark'[x] = mark[x],
           UNCHANGED <<batches, lastRow>>
    PROVE  JobOK(u)' /\ job'[u] \in Job
<1>1. job[u] \in Job
  BY DEF TypeOK, Job
<1>2. CASE job[u].pc \in Uploading
  <2>1. job[u] \in Uploads
    BY <1>1, <1>2, JobFields
  <2>2. /\ job'[u].pc = job[u].pc /\ job'[u].unsent = job[u].unsent /\ job'[u].todo = job[u].todo
        /\ job'[u].country = job[u].country /\ job'[u].unsure = job[u].unsure \cup {s}
        /\ job'[u] \in Uploads
    BY <2>1 DEF Uploads
  <2>3. UploadOK(u)'
    <3>1. job[u].unsent \subseteq Sim
      BY <2>1, UploadFields
    <3>2. ASSUME job[u].pc \in {"mark", "send"}, NEW x \in job[u].unsent
          PROVE  \/ job[u].pc = "mark" /\ x \in job[u].todo
                 \/ mark'[x] = job[u].country
                 \/ x \in job[u].unsure \cup {s}
      <4>1. CASE x = s
        BY <4>1
      <4>2. CASE x # s
        BY <3>1, <3>2, <4>2 DEF JobOK, UploadOK
      <4>3. QED
        BY <4>1, <4>2
    <3>3. QED
      BY <2>2, <3>2 DEF UploadOK
  <2>4. QED
    BY <1>2, <2>2, <2>3 DEF JobOK, RemovalOK, Uploading, Removing, Job
<1>3. CASE job[u].pc \in Removing
  <2>1. job[u] \in Removals
    BY <1>1, <1>3, JobFields
  <2>2. /\ job'[u].pc = job[u].pc /\ job'[u].pairs = job[u].pairs /\ job'[u].todo = job[u].todo
        /\ job'[u].bySim = job[u].bySim /\ job'[u].unsure = job[u].unsure \cup {s}
        /\ job'[u] \in Removals
    BY <2>1 DEF Removals
  <2>3. RemovalOK(u)'
    <3>1. \A p \in job[u].pairs : p.sim \in Sim
      BY <2>1, RemovalFields DEF Pair
    <3>2. QED
      BY <2>2, <3>1 DEF JobOK, RemovalOK
  <2>4. QED
    BY <1>3, <2>2, <2>3 DEF JobOK, UploadOK, Uploading, Removing, Job
<1>4. QED
  BY <1>1, <1>2, <1>3, JobFields

\* A step of one request that writes no mark keeps the invariant, if what it
\* becomes is in order and what it lets go of is covered.
LEMMA OneJob ==
    ASSUME IInv, NEW t \in Request, NEW next \in Job, Become(t, next),
           mark' = mark, TypeOK',
           job'[t] = next => JobOK(t)',
           \A p \in listed' : Covered(p)'
    PROVE  IInv'
<1>1. job'[t] = next /\ \A u \in Request \ {t} : job'[u] = job[u]
  BY DEF Become, IInv, TypeOK
<1>2. \A u \in Request \ {t} : JobOK(u)'
  BY <1>1, SameJob DEF IInv
<1>3. JobOK(t)'
  BY <1>1
<1>4. \A u \in Request : JobOK(u)'
  BY <1>2, <1>3
<1>5. QED
  BY <1>4 DEF IInv

LEMMA BecomeType ==
    ASSUME TypeOK, NEW t \in Request, NEW next \in Job, Become(t, next)
    PROVE  /\ job' \in [Request -> Job] /\ job'[t] = next
           /\ \A u \in Request \ {t} : job'[u] = job[u]
BY DEF Become, TypeOK, Job

\* A request that holds no chunk is about to become another that holds none.
LEMMA StillCovered ==
    ASSUME IInv, NEW t \in Request, NEW next \in Job, Become(t, next),
           UNCHANGED <<batches, loose>>, listed' \subseteq listed,
           \A p : ~Holds(t, p)
    PROVE  \A p \in listed' : Covered(p)'
<1> SUFFICES ASSUME NEW p \in listed' PROVE Covered(p)'
  OBVIOUS
<1>1. Covered(p) /\ \A u \in Request \ {t} : job'[u] = job[u]
  BY BecomeType DEF IInv
<1>2. (\E r \in Rows : OnRow(r, p)) => \E r \in Rows' : OnRow(r, p)'
  BY DEF OnRow, Rows
<1>3. (\E u \in Request : Holds(u, p)) => \E u \in Request : Holds(u, p)'
  BY <1>1 DEF Holds
<1>4. QED
  BY <1>1, <1>2, <1>3 DEF Covered

-----------------------------------------------------------------------------
(* The steps, one by one. *)

LEMMA InitIInv == Init => IInv
<1> SUFFICES ASSUME Init PROVE IInv
  OBVIOUS
<1>1. Rows = {} /\ listed = {}
  BY DEF Init, Rows
<1>2. TypeOK
  BY <1>1, Domains DEF Init, TypeOK
<1>3. \A t \in Request : JobOK(t)
  BY DEF Init, Idle, JobOK, UploadOK, RemovalOK, Removing
<1>4. QED
  BY <1>1, <1>2, <1>3 DEF IInv

LEMMA BeginStep ==
    ASSUME IInv, NEW t \in Request, NEW next \in Job, Begin(t, next),
           job'[t] = next => JobOK(t)'
    PROVE  IInv' /\ listed' = listed
<1>1. /\ job[t] = Idle /\ Become(t, next) /\ UNCHANGED <<mark, batches, lastRow, listed, loose>>
      /\ ops' \in 0..MaxOps
  BY Domains DEF Begin, IInv, TypeOK
<1>2. TypeOK'
  BY <1>1, BecomeType DEF IInv, TypeOK, Job, Rows
<1>3. \A p : ~Holds(t, p)
  BY <1>1 DEF Holds, Idle
<1>4. \A p \in listed' : Covered(p)'
  BY <1>1, <1>3, StillCovered
<1>5. QED
  BY <1>1, <1>2, <1>4, OneJob

LEMMA UploadStep ==
    ASSUME IInv, NEW t \in Request, NEW c \in Country, NEW sims \in SUBSET Sim, Upload(t, c, sims)
    PROVE  IInv' /\ listed' = listed
<1> DEFINE next == [pc |-> "mark", country |-> c, todo |-> sims, unsent |-> sims,
                    results |-> {}, unsure |-> {}]
<1>1. next \in Job
  BY DEF Job, Uploads
<1>2. job'[t] = next => JobOK(t)'
  BY DEF JobOK, UploadOK, RemovalOK, Removing
<1>3. QED
  BY <1>1, <1>2, BeginStep DEF Upload

LEMMA RemovalStep ==
    ASSUME IInv, NEW t \in Request, NEW todo \in SUBSET Sim, NEW pairs \in SUBSET Pair,
           NEW bySim \in BOOLEAN, NEW row \in Nat,
           \A p \in pairs : \/ p.sim \in todo
                            \/ mark[p.sim] # p.country
                            \/ bySim /\ p.sim \notin Plain,
           BeginRemoval(t, todo, pairs, bySim, row)
    PROVE  IInv' /\ listed' = listed
<1>1. ASSUME NEW pc \in {"clear", "ask"}, NEW left \in SUBSET Sim, NEW unsure \in SUBSET Sim,
             Begin(t, [pc |-> pc, todo |-> left, pairs |-> pairs, bySim |-> bySim,
                       row |-> row, unsure |-> unsure]),
             \A p \in pairs : \/ pc = "clear" /\ p.sim \in left
                              \/ mark[p.sim] # p.country
                              \/ p.sim \in unsure
                              \/ bySim /\ p.sim \notin Plain
      PROVE  IInv' /\ listed' = listed
  <2> DEFINE next == [pc |-> pc, todo |-> left, pairs |-> pairs, bySim |-> bySim,
                      row |-> row, unsure |-> unsure]
  <2>1. next \in Job
    BY DEF Job, Removals
  <2>2. UNCHANGED mark
    BY <1>1 DEF Begin
  <2>3. ASSUME job'[t] = next PROVE JobOK(t)'
    <3>1. UploadOK(t)'
      BY <2>3 DEF UploadOK
    <3>2. RemovalOK(t)'
      BY <1>1, <2>2, <2>3 DEF RemovalOK
    <3>3. QED
      BY <3>1, <3>2 DEF JobOK
  <2>4. QED
    BY <1>1, <2>1, <2>3, BeginStep
<1>2. CASE Begin(t, Removal(todo, pairs, bySim, row)) /\ todo = {}
  BY <1>1, <1>2 DEF Removal
<1>3. CASE Begin(t, Removal(todo, pairs, bySim, row)) /\ todo # {}
  BY <1>1, <1>3 DEF Removal
<1>4. CASE Begin(t, [Removal({}, pairs, bySim, row) EXCEPT !.unsure = Sim])
  <2>1. [Removal({}, pairs, bySim, row) EXCEPT !.unsure = Sim] =
           [pc |-> "ask", todo |-> {}, pairs |-> pairs, bySim |-> bySim,
            row |-> row, unsure |-> Sim]
    <3>1. Removal({}, pairs, bySim, row) =
             [pc |-> "ask", todo |-> {}, pairs |-> pairs, bySim |-> bySim,
              row |-> row, unsure |-> {}]
      BY DEF Removal
    <3>2. QED
      BY <3>1
  <2>2. \A p \in pairs : p.sim \in Sim
    BY DEF Pair
  <2>3. Begin(t, [pc |-> "ask", todo |-> {}, pairs |-> pairs, bySim |-> bySim,
                  row |-> row, unsure |-> Sim])
    BY <1>4, <2>1
  <2>4. {} \in SUBSET Sim /\ Sim \in SUBSET Sim
    OBVIOUS
  <2>5. QED
    BY <1>1, <2>2, <2>3, <2>4
<1>5. QED
  BY <1>2, <1>3, <1>4 DEF BeginRemoval

LEMMA OperationStep ==
    ASSUME IInv, NEW t \in Request, Operation(t)
    PROVE  IInv' /\ listed' = listed
<1>0. Plain \subseteq Sim /\ Rows \subseteq Nat /\ \A r \in Rows : batches[r] \in Chunk
  BY Domains DEF IInv, TypeOK
<1>1. ASSUME NEW c \in Country, NEW sims \in (SUBSET Sim) \ {{}}, Upload(t, c, sims)
      PROVE  IInv' /\ listed' = listed
  BY <1>1, UploadStep
<1>2. ASSUME NEW p \in Pair, DeleteBatch(t, {p})
      PROVE  IInv' /\ listed' = listed
  <2> DEFINE pairs == {p}
             todo == SimsOf(pairs) \cap Plain
  <2>1. SimsOf(pairs) = {p.sim} /\ p.sim \in Sim
    BY DEF SimsOf, Pair
  <2>2. BeginRemoval(t, todo, pairs, TRUE, 0)
    BY <1>2 DEF DeleteBatch
  <2>3. todo \in SUBSET Sim /\ pairs \in SUBSET Pair
    BY <2>1
  <2>4. \A q \in pairs : q.sim \in todo \/ q.sim \notin Plain
    BY <2>1
  <2> HIDE DEF pairs, todo
  <2>5. QED
    BY <2>2, <2>3, <2>4, RemovalStep
<1>3. ASSUME NEW r \in Rows, DeleteBatchById(t, r)
      PROVE  IInv' /\ listed' = listed
  <2> DEFINE pairs == Pairs(batches[r].country, batches[r].sims)
  <2>1. batches[r].sims \subseteq Sim /\ batches[r].country \in Country
    BY <1>0 DEF Chunk
  <2>2. pairs \in SUBSET Pair /\ batches[r].sims \cap Plain \in SUBSET Sim
    BY <2>1 DEF Pairs, Pair
  <2>3. \A p \in pairs : p.sim \in batches[r].sims \cap Plain \/ p.sim \notin Plain
    BY DEF Pairs
  <2>4. BeginRemoval(t, batches[r].sims \cap Plain, pairs, TRUE, r)
    BY <1>3 DEF DeleteBatchById
  <2>5. QED
    BY <1>0, <2>2, <2>3, <2>4, RemovalStep
<1>4. ASSUME NEW c \in Country, DeleteCountry(t, c)
      PROVE  IInv' /\ listed' = listed
  <2>1. Pairs(c, Sim) \in SUBSET Pair /\ \A p \in Pairs(c, Sim) : p.country = c /\ p.sim \in Sim
    BY DEF Pairs, Pair
  <2>2. \A p \in Pairs(c, Sim) : p.sim \in {s \in Sim : mark[s] = c} \/ mark[p.sim] # p.country
    BY <2>1
  <2>3. BeginRemoval(t, {s \in Sim : mark[s] = c}, Pairs(c, Sim), FALSE, 0)
    BY <1>4 DEF DeleteCountry
  <2>4. {s \in Sim : mark[s] = c} \in SUBSET Sim
    OBVIOUS
  <2>5. QED
    BY <2>1, <2>2, <2>3, <2>4, RemovalStep
<1>5. ASSUME DeleteAll(t)
      PROVE  IInv' /\ listed' = listed
  <2> DEFINE pairs == Pair
             todo == {s \in Sim : mark[s] # Null}
  <2>1. \A p \in Pair : p.country \in Country /\ p.sim \in Sim
    BY DEF Pair
  <2>2. \A p \in pairs : p.sim \in todo \/ mark[p.sim] # p.country
    BY <2>1, Domains
  <2>3. BeginRemoval(t, todo, pairs, FALSE, 0)
    BY <1>5 DEF DeleteAll
  <2>4. todo \in SUBSET Sim /\ pairs \in SUBSET Pair
    OBVIOUS
  <2> HIDE DEF pairs, todo
  <2>5. \A p \in pairs : \/ p.sim \in todo
                         \/ mark[p.sim] # p.country
                         \/ FALSE /\ p.sim \notin Plain
    BY <2>2
  <2>6. QED
    BY <2>3, <2>4, <2>5, RemovalStep, ZenonT(60)
<1>6. QED
  BY <1>1, <1>2, <1>3, <1>4, <1>5 DEF Operation

\* What is held by the other requests stays held.
LEMMA OthersHold ==
    ASSUME IInv, NEW t \in Request, NEW next \in Job, Become(t, next),
           NEW u \in Request \ {t}, NEW p, Holds(u, p)
    PROVE  Holds(u, p)'
BY BecomeType DEF IInv, Holds

\* A mark is written, or not.
LEMMA SetMarkStep ==
    ASSUME IInv, NEW t \in Request, NEW s \in Sim, NEW c \in Country \cup {Null}, NEW next,
           SetMark(t, s, c, next), UNCHANGED <<batches, lastRow, listed, ops, loose>>,
           next \in Job, [next EXCEPT !.unsure = @ \cup {s}] \in Job,
           \A p : ~Holds(t, p),
           /\ mark' = [mark EXCEPT ![s] = c] /\ job'[t] = next
              => JobOK(t)',
           /\ mark' = mark /\ job'[t] = [next EXCEPT !.unsure = @ \cup {s}]
              => JobOK(t)'
    PROVE  IInv' /\ listed' = listed
<1>0. Rows' = Rows
  BY DEF Rows
<1>1. CASE mark' = mark /\ Become(t, [next EXCEPT !.unsure = @ \cup {s}])
  <2> DEFINE unsure == [next EXCEPT !.unsure = @ \cup {s}]
  <2>1. job'[t] = unsure /\ job' \in [Request -> Job]
    BY <1>1, BecomeType DEF IInv
  <2>2. TypeOK'
    BY <1>0, <1>1, <2>1 DEF IInv, TypeOK, Job
  <2>3. \A p \in listed' : Covered(p)'
    BY <1>1, StillCovered
  <2>4. QED
    BY <1>0, <1>1, <2>1, <2>2, <2>3, OneJob
<1>2. CASE /\ mark' = [mark EXCEPT ![s] = c]
           /\ job' = [u \in Request |->
                        IF u = t THEN next
                        ELSE IF job[u] = Idle THEN Idle
                        ELSE [job[u] EXCEPT !.unsure = @ \cup {s}]]
  <2>1. job'[t] = next /\ JobOK(t)'
    BY <1>2
  <2>2. ASSUME NEW u \in Request \ {t} PROVE JobOK(u)' /\ job'[u] \in Job
    <3>1. CASE job[u] = Idle
      <4>1. job'[u] = Idle
        BY <1>2, <3>1
      <4>2. QED
        BY <4>1 DEF Idle, JobOK, UploadOK, RemovalOK, Removing, Job
    <3>2. CASE job[u] # Idle
      <4>1. job'[u] = [job[u] EXCEPT !.unsure = @ \cup {s}]
        BY <1>2, <3>2
      <4>2. \A x \in Sim : x # s => mark'[x] = mark[x]
        BY <1>2 DEF IInv, TypeOK
      <4>3. QED
        BY <3>2, <4>1, <4>2, UnsureJob DEF IInv
    <3>3. QED
      BY <3>1, <3>2
  <2>3. job' \in [Request -> Job] /\ mark' \in [Sim -> Country \cup {Null}]
    BY <1>2, <2>1, <2>2 DEF IInv, TypeOK
  <2>4. TypeOK'
    BY <1>0, <2>3 DEF IInv, TypeOK, Job
  <2>5. ASSUME NEW u \in Request, NEW p, Holds(u, p) PROVE Holds(u, p)'
    <3>1. u # t /\ job[u] \in Job /\ job[u].pc \in Uploading
      BY <2>5 DEF Holds, Uploading, IInv, TypeOK, Job
    <3>2. job[u] \in Uploads /\ job[u] # Idle
      BY <3>1, JobFields DEF Uploading, Idle
    <3>3. job'[u] = [job[u] EXCEPT !.unsure = @ \cup {s}]
      BY <1>2, <3>1, <3>2
    <3>4. job'[u].pc = job[u].pc /\ job'[u].results = job[u].results
      BY <3>2, <3>3 DEF Uploads
    <3>5. QED
      BY <2>5, <3>4 DEF Holds
  <2>6. \A p \in listed' : Covered(p)'
    <3> SUFFICES ASSUME NEW p \in listed' PROVE Covered(p)'
      OBVIOUS
    <3>1. Covered(p)
      BY DEF IInv
    <3>2. (\E r \in Rows : OnRow(r, p)) => \E r \in Rows' : OnRow(r, p)'
      BY DEF OnRow, Rows
    <3>3. QED
      BY <2>5, <3>1, <3>2 DEF Covered
  <2>7. QED
    BY <2>1, <2>2, <2>4, <2>6 DEF IInv
<1>3. QED
  BY <1>1, <1>2 DEF SetMark

LEMMA MarkStep ==
    ASSUME IInv, NEW t \in Request, Mark(t)
    PROVE  IInv' /\ listed' = listed
<1>1. job[t] \in Uploads /\ job[t].pc = "mark" /\ UploadOK(t)
  BY JobFields DEF Mark, IInv, TypeOK, Job, Uploading, JobOK
<1>2. /\ job[t].country \in Country /\ job[t].todo \subseteq Sim /\ job[t].unsent \subseteq Sim
      /\ job[t].unsure \subseteq Sim
  BY <1>1, UploadFields
<1>3. PICK s \in job[t].todo :
         SetMark(t, s, job[t].country,
                 [job[t] EXCEPT !.todo = @ \ {s},
                                !.pc = IF job[t].todo = {s} THEN "send" ELSE "mark"])
  BY DEF Mark
<1> DEFINE next == [job[t] EXCEPT !.todo = @ \ {s},
                                  !.pc = IF job[t].todo = {s} THEN "send" ELSE "mark"]
           unsure == [next EXCEPT !.unsure = @ \cup {s}]
<1>4. /\ next \in Uploads /\ next.todo = job[t].todo \ {s} /\ next.unsent = job[t].unsent
      /\ next.country = job[t].country /\ next.unsure = job[t].unsure
      /\ next.pc = IF job[t].todo = {s} THEN "send" ELSE "mark"
  BY <1>1 DEF Uploads
<1>5. /\ unsure \in Uploads /\ unsure.todo = job[t].todo \ {s} /\ unsure.unsent = job[t].unsent
      /\ unsure.country = job[t].country /\ unsure.unsure = job[t].unsure \cup {s}
      /\ unsure.pc = next.pc
  BY <1>2, <1>3, <1>4 DEF Uploads
<1>6. \A p : ~Holds(t, p)
  BY <1>1 DEF Holds
<1>7. ASSUME mark' = [mark EXCEPT ![s] = job[t].country], job'[t] = next
      PROVE  JobOK(t)'
  <2>1. \A x \in Sim : mark'[x] = IF x = s THEN job[t].country ELSE mark[x]
    BY <1>7 DEF IInv, TypeOK
  <2>2. ASSUME NEW x \in job[t].unsent
        PROVE  \/ next.pc = "mark" /\ x \in next.todo
               \/ mark'[x] = job[t].country
               \/ x \in job[t].unsure
    BY <1>1, <1>2, <1>3, <1>4, <2>1 DEF UploadOK
  <2>3. UploadOK(t)'
    BY <1>4, <1>7, <2>2 DEF UploadOK
  <2>4. QED
    BY <1>4, <1>7, <2>3 DEF JobOK, RemovalOK, Removing
<1>8. ASSUME mark' = mark, job'[t] = unsure
      PROVE  JobOK(t)'
  <2>1. ASSUME NEW x \in job[t].unsent
        PROVE  \/ next.pc = "mark" /\ x \in next.todo
               \/ mark[x] = job[t].country
               \/ x \in job[t].unsure \cup {s}
    BY <1>1, <1>2, <1>3, <1>4 DEF UploadOK
  <2>2. UploadOK(t)'
    BY <1>4, <1>5, <1>8, <2>1 DEF UploadOK
  <2>3. QED
    BY <1>4, <1>5, <1>8, <2>2 DEF JobOK, RemovalOK, Removing
<1>9. next \in Job /\ unsure \in Job /\ s \in Sim /\ job[t].country \in Country \cup {Null}
  BY <1>2, <1>3, <1>4, <1>5 DEF Job
<1>10. UNCHANGED <<batches, lastRow, listed, ops, loose>>
  BY DEF Mark
<1> HIDE DEF next
<1>11. QED
  BY <1>3, <1>6, <1>7, <1>8, <1>9, <1>10, SetMarkStep DEF next

LEMMA ClearStep ==
    ASSUME IInv, NEW t \in Request, Clear(t)
    PROVE  IInv' /\ listed' = listed
<1>1. job[t] \in Removals /\ job[t].pc = "clear" /\ RemovalOK(t)
  BY JobFields DEF Clear, IInv, TypeOK, Job, Removing, JobOK
<1>2. job[t].todo \subseteq Sim /\ job[t].pairs \subseteq Pair /\ job[t].unsure \subseteq Sim
  BY <1>1, RemovalFields
<1>3. PICK s \in job[t].todo :
         SetMark(t, s, Null,
                 [job[t] EXCEPT !.todo = @ \ {s},
                                !.pc = IF job[t].todo = {s} THEN "ask" ELSE "clear"])
  BY DEF Clear
<1> DEFINE next == [job[t] EXCEPT !.todo = @ \ {s},
                                  !.pc = IF job[t].todo = {s} THEN "ask" ELSE "clear"]
           unsure == [next EXCEPT !.unsure = @ \cup {s}]
<1>4. /\ next \in Removals /\ next.todo = job[t].todo \ {s} /\ next.pairs = job[t].pairs
      /\ next.bySim = job[t].bySim /\ next.unsure = job[t].unsure /\ next.row = job[t].row
      /\ next.pc = IF job[t].todo = {s} THEN "ask" ELSE "clear"
  BY <1>1 DEF Removals
<1>5. /\ unsure \in Removals /\ unsure.todo = job[t].todo \ {s} /\ unsure.pairs = job[t].pairs
      /\ unsure.bySim = job[t].bySim /\ unsure.unsure = job[t].unsure \cup {s}
      /\ unsure.row = job[t].row /\ unsure.pc = next.pc
  BY <1>2, <1>3, <1>4 DEF Removals
<1>6. \A p : ~Holds(t, p)
  BY <1>1 DEF Holds
<1>7. \A p \in job[t].pairs : p.country \in Country /\ p.sim \in Sim /\ p.country # Null
  BY <1>2, Domains DEF Pair
<1>8. ASSUME job'[t].pc = next.pc, RemovalOK(t)'
      PROVE  JobOK(t)'
  BY <1>4, <1>8 DEF JobOK, UploadOK
<1>9. UNCHANGED <<batches, lastRow, listed, ops, loose>>
  BY DEF Clear
<1>10. ASSUME mark' = [mark EXCEPT ![s] = Null], job'[t] = next
       PROVE  JobOK(t)'
  <2>1. \A x \in Sim : mark'[x] = IF x = s THEN Null ELSE mark[x]
    BY <1>10 DEF IInv, TypeOK
  <2>2. ASSUME NEW p \in job[t].pairs
        PROVE  \/ next.pc = "clear" /\ p.sim \in next.todo
               \/ mark'[p.sim] # p.country
               \/ p.sim \in job[t].unsure
               \/ job[t].bySim /\ p.sim \notin Plain
    BY <1>1, <1>3, <1>4, <1>7, <2>1 DEF RemovalOK
  <2>3. RemovalOK(t)'
    BY <1>4, <1>10, <2>2 DEF RemovalOK
  <2>4. QED
    BY <1>4, <1>8, <1>9, <1>10, <2>3
<1>11. ASSUME mark' = mark, job'[t] = unsure
       PROVE  JobOK(t)'
  <2>1. ASSUME NEW p \in job[t].pairs
        PROVE  \/ next.pc = "clear" /\ p.sim \in next.todo
               \/ mark[p.sim] # p.country
               \/ p.sim \in job[t].unsure \cup {s}
               \/ job[t].bySim /\ p.sim \notin Plain
    BY <1>1, <1>3, <1>4, <1>7 DEF RemovalOK
  <2>2. RemovalOK(t)'
    BY <1>4, <1>5, <1>11, <2>1 DEF RemovalOK
  <2>3. QED
    BY <1>5, <1>8, <1>9, <1>11, <2>2
<1>12. next \in Job /\ unsure \in Job /\ s \in Sim /\ Null \in Country \cup {Null}
  BY <1>2, <1>3, <1>4, <1>5 DEF Job
<1> HIDE DEF next
<1>13. QED
  BY <1>3, <1>6, <1>9, <1>10, <1>11, <1>12, SetMarkStep DEF next

LEMMA SendAnsweredStep ==
    ASSUME IInv, NEW t \in Request, SendAnswered(t)
    PROVE  IInv'
<1>1. job[t] \in Uploads /\ job[t].pc = "send" /\ UploadOK(t)
  BY JobFields DEF SendAnswered, IInv, TypeOK, Job, Uploading, JobOK
<1>2. /\ job[t].country \in Country /\ job[t].unsent \subseteq Sim /\ job[t].results \subseteq Chunk
  BY <1>1, UploadFields
<1>3. PICK k \in NextChunk(job[t].unsent), taken \in BOOLEAN :
         /\ listed' = IF taken THEN listed \cup Pairs(job[t].country, k) ELSE listed
         /\ Become(t, [job[t] EXCEPT
               !.unsent = @ \ k,
               !.results = @ \cup {[country |-> job[t].country, sims |-> k, taken |-> taken]},
               !.pc = IF job[t].unsent = k THEN "record" ELSE "send"])
  BY DEF SendAnswered
<1> DEFINE chunk == [country |-> job[t].country, sims |-> k, taken |-> taken]
           next == [job[t] EXCEPT !.unsent = @ \ k, !.results = @ \cup {chunk},
                                  !.pc = IF job[t].unsent = k THEN "record" ELSE "send"]
<1>4. k \subseteq job[t].unsent /\ k \subseteq Sim
  BY <1>2 DEF NextChunk
<1>5. chunk \in Chunk /\ Pairs(job[t].country, k) \subseteq Pair
  BY <1>2, <1>4 DEF Chunk, Pairs, Pair
<1>6. /\ next \in Uploads /\ next.unsent = job[t].unsent \ k
      /\ next.results = job[t].results \cup {chunk}
      /\ next.country = job[t].country /\ next.unsure = job[t].unsure
      /\ next.pc = IF job[t].unsent = k THEN "record" ELSE "send"
  BY <1>1, <1>2, <1>5 DEF Uploads
<1>7. UNCHANGED <<mark, batches, lastRow, ops, loose>>
  BY DEF SendAnswered
<1>8. next \in Job /\ job'[t] = next /\ job' \in [Request -> Job]
  BY <1>3, <1>6, BecomeType DEF Job, IInv
<1>9. TypeOK'
  BY <1>3, <1>5, <1>7, <1>8 DEF IInv, TypeOK, Job, Rows
<1>11. JobOK(t)'
  <2>1. UploadOK(t)'
    BY <1>1, <1>6, <1>7, <1>8 DEF UploadOK
  <2>2. QED
    BY <1>6, <1>8, <2>1 DEF JobOK, RemovalOK, Removing
<1>12. \A p \in listed' : Covered(p)'
  <2> SUFFICES ASSUME NEW p \in listed' PROVE Covered(p)'
    OBVIOUS
  <2>1. CASE p \in listed
    <3>1. Covered(p)
      BY <2>1 DEF IInv
    <3>2. (\E r \in Rows : OnRow(r, p)) => \E r \in Rows' : OnRow(r, p)'
      BY <1>7 DEF OnRow, Rows
    <3>3. Holds(t, p) => Holds(t, p)'
      BY <1>6, <1>8 DEF Holds
    <3>4. \A u \in Request \ {t} : Holds(u, p) => Holds(u, p)'
      BY <1>3, <1>8, OthersHold
    <3>5. QED
      BY <1>7, <3>1, <3>2, <3>3, <3>4 DEF Covered
  <2>2. CASE p \notin listed
    <3>1. taken /\ p \in Pairs(chunk.country, chunk.sims) /\ chunk.taken
      BY <1>3, <2>2
    <3>2. Holds(t, p)'
      BY <1>6, <1>8, <3>1 DEF Holds
    <3>3. QED
      BY <3>2 DEF Covered
  <2>3. QED
    BY <2>1, <2>2
<1>13. QED
  BY <1>3, <1>7, <1>8, <1>9, <1>11, <1>12, OneJob

\* What a request that ends has accepted is known to be loose.
LEMMA LetGo ==
    ASSUME IInv, NEW t \in Request, Become(t, Idle), UNCHANGED batches,
           loose \subseteq loose',
           \A p \in listed' : \/ p \in listed /\ (Holds(t, p) => p \in loose')
                              \/ p \in loose'
    PROVE  \A p \in listed' : Covered(p)'
<1> SUFFICES ASSUME NEW p \in listed', p \notin loose' PROVE Covered(p)'
  BY DEF Covered
<1>1. Covered(p) /\ ~Holds(t, p) /\ p \notin loose /\ Idle \in Job
  BY DEF IInv, Job
<1>2. (\E r \in Rows : OnRow(r, p)) => \E r \in Rows' : OnRow(r, p)'
  BY DEF OnRow, Rows
<1>3. \A u \in Request \ {t} : Holds(u, p) => Holds(u, p)'
  BY <1>1, OthersHold
<1>4. QED
  BY <1>1, <1>2, <1>3 DEF Covered

LEMMA IdleJob ==
    ASSUME NEW t \in Request, job'[t] = Idle
    PROVE  JobOK(t)'
BY DEF Idle, JobOK, UploadOK, RemovalOK, Removing

LEMMA SendFailedStep ==
    ASSUME IInv, NEW t \in Request, SendFailed(t)
    PROVE  IInv'
<1>1. job[t] \in Uploads /\ job[t].pc = "send"
  BY JobFields DEF SendFailed, IInv, TypeOK, Job, Uploading
<1>2. /\ job[t].country \in Country /\ job[t].unsent \subseteq Sim /\ job[t].results \subseteq Chunk
  BY <1>1, UploadFields
<1>3. PICK k \in NextChunk(job[t].unsent) :
         /\ listed' \in {listed, listed \cup Pairs(job[t].country, k)}
         /\ loose' = loose \cup (listed' \ listed) \cup Accepted(job[t].results)
                           \cup (Pairs(job[t].country, k) \cap listed)
  BY DEF SendFailed
<1>4. Become(t, Idle) /\ UNCHANGED <<mark, batches, lastRow, ops>>
  BY DEF SendFailed
<1>5. k \subseteq Sim /\ Pairs(job[t].country, k) \subseteq Pair
  BY <1>2 DEF NextChunk, Pairs, Pair
<1>6. Accepted(job[t].results) \subseteq Pair
  BY <1>2 DEF Accepted, Chunk, Pairs, Pair
<1>7. listed' \subseteq Pair /\ loose' \subseteq Pair /\ listed' \ listed \subseteq loose'
  BY <1>3, <1>5, <1>6 DEF IInv, TypeOK
<1>8. Idle \in Job /\ job'[t] = Idle /\ job' \in [Request -> Job]
  BY <1>4, BecomeType DEF Job, IInv
<1>9. TypeOK'
  BY <1>4, <1>7, <1>8 DEF IInv, TypeOK, Job, Rows
<1>11. \A p : Holds(t, p) => p \in loose'
  BY <1>3, AcceptedFact DEF Holds
<1>12. \A p \in listed' : Covered(p)'
  <2>1. loose \subseteq loose'
    BY <1>3
  <2>2. \A p \in listed' : p \in listed \/ p \in loose'
    BY <1>7
  <2>3. QED
    BY <1>4, <1>11, <2>1, <2>2, LetGo
<1>13. QED
  BY <1>4, <1>8, <1>9, <1>12, OneJob, IdleJob

LEMMA RecordStep ==
    ASSUME IInv, NEW t \in Request, Record(t)
    PROVE  IInv' /\ listed' = listed
<1>1. job[t] \in Uploads /\ job[t].pc = "record"
  BY JobFields DEF Record, IInv, TypeOK, Job, Uploading
<1>2. job[t].results \subseteq Chunk
  BY <1>1, UploadFields
<1>3. PICK r \in job[t].results :
         /\ \/ /\ AddRow(r)
               /\ UNCHANGED loose
            \/ /\ loose' = loose \cup Accepted({r})
               /\ UNCHANGED <<lastRow, batches>>
         /\ Become(t, AfterRecord(t, r))
  BY DEF Record
<1>4. UNCHANGED <<mark, listed, ops>> /\ r \in Chunk
  BY <1>2 DEF Record
<1> DEFINE next == AfterRecord(t, r)
<1>5. /\ next \in Job
      /\ next = Idle \/ (next.pc = "record" /\ next.results = job[t].results \ {r})
      /\ next = Idle => job[t].results = {r}
  <2>1. CASE job[t].results = {r}
    BY <2>1 DEF AfterRecord, Job
  <2>2. CASE job[t].results # {r}
    BY <1>1, <2>2 DEF AfterRecord, Job, Uploads, Idle
  <2>3. QED
    BY <2>1, <2>2
<1>6. job'[t] = next /\ job' \in [Request -> Job]
  BY <1>3, <1>5, BecomeType DEF IInv
<1>7. lastRow \in Nat /\ Rows \subseteq 1..lastRow /\ (\A q \in Rows : batches[q] \in Chunk)
      /\ loose \subseteq Pair
  BY DEF IInv, TypeOK
<1>8. /\ lastRow' \in Nat /\ lastRow <= lastRow' /\ Rows' \subseteq 1..lastRow'
      /\ Rows \subseteq Rows' /\ (\A q \in Rows : batches'[q] = batches[q])
      /\ \A q \in Rows' : q \notin Rows => q > lastRow /\ batches'[q] = r
      /\ loose' \subseteq Pair /\ loose \subseteq loose'
      /\ \/ lastRow + 1 \in Rows' /\ batches'[lastRow + 1] = r
         \/ Accepted({r}) \subseteq loose'
  <2>1. CASE AddRow(r) /\ UNCHANGED loose
    <3>1. /\ batches' = [q \in Rows \cup {lastRow + 1} |-> IF q \in Rows THEN batches[q] ELSE r]
          /\ lastRow' = lastRow + 1 /\ loose' = loose
      BY <2>1 DEF AddRow
    <3>2. Rows' = Rows \cup {lastRow + 1}
      BY <3>1 DEF Rows
    <3>3. lastRow + 1 \notin Rows
      BY <1>7
    <3>4. lastRow' \in Nat /\ lastRow <= lastRow' /\ Rows' \subseteq 1..lastRow'
      <4>1. lastRow' = lastRow + 1
        BY <3>1
      <4>2. lastRow \in Nat /\ \A q \in Rows : q \in 1..(lastRow + 1)
        BY <1>7
      <4>3. lastRow + 1 \in 1..(lastRow + 1)
        BY <4>2
      <4>4. QED
        BY <3>2, <4>1, <4>2, <4>3
    <3>5. \A q \in Rows' : batches'[q] = IF q \in Rows THEN batches[q] ELSE r
      BY <3>1, <3>2
    <3>6. \A q \in Rows' : q \notin Rows => q > lastRow
      BY <1>7, <3>2
    <3>7. QED
      BY <1>7, <3>1, <3>2, <3>3, <3>4, <3>5, <3>6
  <2>2. CASE /\ loose' = loose \cup Accepted({r})
             /\ UNCHANGED <<lastRow, batches>>
    <3>1. Accepted({r}) \subseteq Pair
      BY <1>4 DEF Accepted, Chunk, Pairs, Pair
    <3>2. Rows' = Rows /\ lastRow' = lastRow /\ batches' = batches
      BY <2>2 DEF Rows
    <3>3. loose \subseteq loose' /\ Accepted({r}) \subseteq loose' /\ loose' \subseteq Pair
      BY <1>7, <2>2, <3>1
    <3>4. lastRow' \in Nat /\ lastRow <= lastRow' /\ Rows' \subseteq 1..lastRow'
      BY <1>7, <3>2
    <3>5. /\ Rows \subseteq Rows' /\ (\A q \in Rows : batches'[q] = batches[q])
          /\ \A q \in Rows' : q \in Rows
      BY <3>2
    <3>6. QED
      BY <3>3, <3>4, <3>5
  <2>3. QED
    BY <1>3, <2>1, <2>2
<1>9. TypeOK'
  <2>1. \A q \in Rows' : batches'[q] \in Chunk
    BY <1>4, <1>7, <1>8
  <2>2. QED
    BY <1>4, <1>6, <1>8, <2>1 DEF IInv, TypeOK, Job
<1>11. JobOK(t)'
  BY <1>5, <1>6, IdleJob DEF JobOK, UploadOK, RemovalOK, Removing
<1>12. \A p \in listed' : Covered(p)'
  <2> SUFFICES ASSUME NEW p \in listed' PROVE Covered(p)'
    OBVIOUS
  <2>1. Covered(p)
    BY <1>4 DEF IInv
  <2>2. (\E q \in Rows : OnRow(q, p)) => \E q \in Rows' : OnRow(q, p)'
    BY <1>8 DEF OnRow
  <2>3. \A u \in Request \ {t} : Holds(u, p) => Holds(u, p)'
    BY <1>3, <1>5, OthersHold
  <2>4. CASE Holds(t, p)
    <3>1. PICK q \in job[t].results : q.taken /\ p \in Pairs(q.country, q.sims)
      BY <2>4 DEF Holds
    <3>2. CASE q = r
      <4>1. CASE lastRow + 1 \in Rows' /\ batches'[lastRow + 1] = r
        BY <3>1, <3>2, <4>1 DEF Covered, OnRow
      <4>2. CASE Accepted({r}) \subseteq loose'
        BY <3>1, <3>2, <4>2, AcceptedFact DEF Covered
      <4>3. QED
        BY <1>8, <4>1, <4>2
    <3>3. CASE q # r
      <4>1. Holds(t, p)'
        BY <1>5, <1>6, <3>1, <3>3 DEF Holds
      <4>2. QED
        BY <4>1 DEF Covered
    <3>4. QED
      BY <3>2, <3>3
  <2>5. QED
    BY <1>8, <2>1, <2>2, <2>3, <2>4 DEF Covered
<1>13. QED
  BY <1>3, <1>4, <1>5, <1>6, <1>9, <1>11, <1>12, OneJob

LEMMA AskStep ==
    ASSUME IInv, NEW t \in Request, Ask(t)
    PROVE  IInv'
<1>1. job[t] \in Removals /\ job[t].pc = "ask"
  BY JobFields DEF Ask, IInv, TypeOK, Job, Removing, JobOK
<1>2. /\ listed' \subseteq listed
      /\ UNCHANGED <<mark, batches, lastRow, ops, loose>>
  BY DEF Ask
<1>3. ASSUME NEW next \in {Idle, [job[t] EXCEPT !.pc = "forget"]}, Become(t, next)
      PROVE  IInv'
  <2>1. /\ next \in Job
        /\ next = Idle \/ next.pc = "forget"
    BY <1>1 DEF Job, Removals
  <2>2. job'[t] = next /\ job' \in [Request -> Job]
    BY <1>3, <2>1, BecomeType DEF IInv
  <2>3. TypeOK'
    BY <1>2, <2>2 DEF IInv, TypeOK, Rows, Job
  <2>4. JobOK(t)'
    BY <2>1, <2>2, IdleJob DEF JobOK, UploadOK, RemovalOK
  <2>5. \A p : ~Holds(t, p)
    BY <1>1 DEF Holds
  <2>6. \A p \in listed' : Covered(p)'
    BY <1>2, <1>3, <2>1, <2>5, StillCovered
  <2>7. QED
    BY <1>2, <1>3, <2>1, <2>3, <2>4, <2>6, OneJob
<1>4. QED
  BY <1>3 DEF Ask

LEMMA ForgetStep ==
    ASSUME IInv, NEW t \in Request, Forget(t)
    PROVE  IInv' /\ listed' = listed
<1>1. job[t].pc = "forget"
  BY DEF Forget
<1>2. Become(t, Idle) /\ UNCHANGED <<mark, lastRow, listed, ops>>
  BY DEF Forget
<1>3. Idle \in Job /\ job'[t] = Idle /\ job' \in [Request -> Job]
  BY <1>2, BecomeType DEF Job, IInv
<1>4. /\ Rows' \subseteq Rows /\ (\A r \in Rows' : batches'[r] = batches[r])
      /\ loose \subseteq loose' /\ loose' \subseteq Pair
      /\ \A r \in Rows \ Rows' : listed \cap Accepted({batches[r]}) \subseteq loose'
  BY DEF Forget, Rows, IInv, TypeOK
<1>5. TypeOK'
  BY <1>2, <1>3, <1>4 DEF IInv, TypeOK, Job
<1>6. \A p \in listed' : Covered(p)'
  <2> SUFFICES ASSUME NEW p \in listed' PROVE Covered(p)'
    OBVIOUS
  <2>1. Covered(p) /\ p \in listed
    BY <1>2 DEF IInv
  <2>2. \A u \in Request : Holds(u, p) => Holds(u, p)'
    BY <1>1, <1>2, <1>3, OthersHold DEF Holds
  <2>3. ASSUME NEW r \in Rows, OnRow(r, p) PROVE Covered(p)'
    <3>1. CASE r \in Rows'
      BY <1>4, <2>3, <3>1 DEF OnRow, Covered
    <3>2. CASE r \notin Rows'
      <4>1. p \in Accepted({batches[r]})
        BY <2>3, AcceptedFact DEF OnRow
      <4>2. QED
        BY <1>4, <2>1, <3>2, <4>1 DEF Covered
    <3>3. QED
      BY <3>1, <3>2
  <2>4. QED
    BY <1>4, <2>1, <2>2, <2>3 DEF Covered
<1>7. QED
  BY <1>2, <1>3, <1>5, <1>6, OneJob, IdleJob

\* What a request holds are pairs.
LEMMA HeldFacts ==
    ASSUME IInv, NEW t \in Request
    PROVE  Held(t) \subseteq Pair /\ \A p : Holds(t, p) => p \in Held(t)
<1>1. CASE job[t].pc \in Uploading
  <2>1. job[t].results \subseteq Chunk
    BY <1>1, JobFields, UploadFields DEF IInv, TypeOK, Job
  <2>2. Accepted(job[t].results) \subseteq Pair
    BY <2>1 DEF Accepted, Chunk, Pairs, Pair
  <2>3. QED
    BY <1>1, <2>2, AcceptedFact DEF Held, Holds, Uploading
<1>2. CASE job[t].pc \notin Uploading
  BY <1>2 DEF Held, Holds, Uploading
<1>3. QED
  BY <1>1, <1>2

LEMMA DropStep ==
    ASSUME IInv, NEW t \in Request, Drop(t)
    PROVE  IInv' /\ listed' = listed
<1>1. /\ Become(t, Idle) /\ loose' = loose \cup Held(t)
      /\ UNCHANGED <<mark, batches, lastRow, listed, ops>>
  BY DEF Drop
<1>2. Idle \in Job /\ job'[t] = Idle /\ job' \in [Request -> Job]
  BY <1>1, BecomeType DEF Job, IInv
<1>3. TypeOK'
  BY <1>1, <1>2, HeldFacts DEF IInv, TypeOK, Job, Rows
<1>4. \A p \in listed' : Covered(p)'
  BY <1>1, HeldFacts, LetGo
<1>5. QED
  BY <1>1, <1>2, <1>3, <1>4, OneJob, IdleJob

LEMMA CrashStep ==
    ASSUME IInv, Crash
    PROVE  IInv' /\ listed' = listed
<1>1. /\ job' = [t \in Request |-> Idle]
      /\ loose' = loose \cup UNION {Held(t) : t \in Request}
      /\ UNCHANGED <<mark, batches, lastRow, listed>>
  BY DEF Crash
<1>2. ops' \in 0..MaxOps
  BY Domains DEF Crash, IInv, TypeOK
<1>3. \A u \in Request : Held(u) \subseteq Pair
  BY HeldFacts
<1>4. TypeOK'
  BY <1>1, <1>2, <1>3 DEF IInv, TypeOK, Rows
<1>5. \A u \in Request : JobOK(u)'
  BY <1>1, IdleJob
<1>6. \A p \in listed' : Covered(p)'
  <2> SUFFICES ASSUME NEW p \in listed' PROVE Covered(p)'
    OBVIOUS
  <2>1. Covered(p)
    BY <1>1 DEF IInv
  <2>2. (\E r \in Rows : OnRow(r, p)) => \E r \in Rows' : OnRow(r, p)'
    BY <1>1 DEF OnRow, Rows
  <2>3. ASSUME NEW u \in Request, Holds(u, p) PROVE p \in loose'
    BY <1>1, <2>3, HeldFacts
  <2>4. QED
    BY <1>1, <2>1, <2>2, <2>3 DEF Covered
<1>7. QED
  BY <1>1, <1>4, <1>5, <1>6 DEF IInv

-----------------------------------------------------------------------------
(* The theorems. *)

LEMMA NextStep == IInv /\ [Next]_vars => IInv'
<1> SUFFICES ASSUME IInv, [Next]_vars PROVE IInv'
  OBVIOUS
<1>1. CASE Crash
  BY <1>1, CrashStep
<1>2. ASSUME NEW t \in Request, Operation(t)
      PROVE  IInv'
  BY <1>2, OperationStep
<1>3. ASSUME NEW t \in Request, Step(t)
      PROVE  IInv'
  <2>1. CASE Mark(t)
    BY <2>1, MarkStep
  <2>2. CASE SendAnswered(t)
    BY <2>2, SendAnsweredStep
  <2>3. CASE SendFailed(t)
    BY <2>3, SendFailedStep
  <2>4. CASE Record(t)
    BY <2>4, RecordStep
  <2>5. CASE Clear(t)
    BY <2>5, ClearStep
  <2>6. CASE Ask(t)
    BY <2>6, AskStep
  <2>7. CASE Forget(t)
    BY <2>7, ForgetStep
  <2>8. CASE Drop(t)
    BY <2>8, DropStep
  <2>9. QED
    BY <1>3, <2>1, <2>2, <2>3, <2>4, <2>5, <2>6, <2>7, <2>8 DEF Step
<1>4. CASE UNCHANGED vars
  <2>1. TypeOK' /\ job' = job
    BY <1>4 DEF vars, IInv, TypeOK, Rows
  <2>2. \A u \in Request : JobOK(u)'
    BY <1>4, <2>1, SameJob DEF IInv, vars
  <2>3. \A p \in listed' : Covered(p)'
    BY <1>4 DEF vars, IInv, Covered, OnRow, Holds, Rows
  <2>4. QED
    BY <2>1, <2>2, <2>3 DEF IInv
<1>5. QED
  BY <1>1, <1>2, <1>3, <1>4 DEF Next

\* What each request has marked or cleared, and where each number on the
\* platform is accounted for, holds after every step.
THEOREM Invariance == Spec => []IInv
BY InitIInv, NextStep, PTL DEF Spec

\* The variables have their types.
THEOREM TypeCorrect == Spec => []TypeOK
<1>1. IInv => TypeOK
  BY DEF IInv
<1>2. QED
  BY Invariance, <1>1, PTL

\* Every number on the platform belongs to a batch on record, or about to be,
\* or one that an error has made the gateway lose.
THEOREM RecordsComplete == Spec => []ListedIsRecorded
<1>1. IInv => ListedIsRecorded
  BY CoveredIsRecorded DEF IInv
<1>2. QED
  BY Invariance, <1>1, PTL

\* Only the upload puts numbers on the platform, and only the removal takes them
\* off.
LEMMA WhoChanges ==
    ASSUME IInv, [Next]_vars
    PROVE  \/ listed' = listed
           \/ \E t \in Request : SendAnswered(t) \/ SendFailed(t) \/ Ask(t)
<1>1. ASSUME NEW t \in Request, Operation(t) \/ Step(t)
      PROVE  \/ listed' = listed
             \/ \E u \in Request : SendAnswered(u) \/ SendFailed(u) \/ Ask(u)
  <2>1. CASE Operation(t)
    BY <2>1, OperationStep
  <2>2. CASE Mark(t) \/ Record(t) \/ Clear(t) \/ Forget(t) \/ Drop(t)
    BY <2>2, MarkStep, RecordStep, ClearStep, ForgetStep, DropStep
  <2>3. QED
    BY <1>1, <2>1, <2>2 DEF Step
<1>2. CASE Crash \/ UNCHANGED vars
  BY <1>2, CrashStep DEF vars
<1>3. QED
  BY <1>1, <1>2 DEF Next

LEMMA UploadChanges ==
    ASSUME IInv, NEW t \in Request, SendAnswered(t) \/ SendFailed(t),
           NEW p \in listed' \ listed
    PROVE  mark'[p.sim] = p.country \/ Unsure(p.sim)
<1>1. job[t].pc = "send" /\ mark' = mark /\ UploadOK(t) /\ job[t] # Idle
  <2>1. job[t].pc = "send" /\ mark' = mark
    <3>1. CASE SendAnswered(t)
      BY <3>1 DEF SendAnswered
    <3>2. CASE SendFailed(t)
      BY <3>2 DEF SendFailed
    <3>3. QED
      BY <3>1, <3>2
  <2>2. QED
    BY <2>1 DEF IInv, JobOK, Idle
<1>2. PICK k \in NextChunk(job[t].unsent) : p \in Pairs(job[t].country, k)
  BY DEF SendAnswered, SendFailed
<1>3. p.country = job[t].country /\ p.sim \in job[t].unsent
  BY <1>2 DEF Pairs, NextChunk
<1>4. mark[p.sim] = job[t].country \/ p.sim \in job[t].unsure
  BY <1>1, <1>3 DEF UploadOK
<1>5. QED
  BY <1>1, <1>3, <1>4 DEF Unsure

LEMMA RemovalChanges ==
    ASSUME IInv, NEW t \in Request, Ask(t), NEW p \in listed \ listed'
    PROVE  \/ mark'[p.sim] # p.country
           \/ Unsure(p.sim)
           \/ p.sim \notin Plain /\ \E u \in Request : job[u].pc = "ask" /\ job[u].bySim
<1>1. job[t].pc = "ask" /\ mark' = mark /\ RemovalOK(t) /\ job[t] # Idle
  BY DEF Ask, IInv, JobOK, Idle
<1>2. p \in job[t].pairs
  BY DEF Ask
<1>3. \/ mark[p.sim] # p.country
      \/ p.sim \in job[t].unsure
      \/ job[t].bySim /\ p.sim \notin Plain
  BY <1>1, <1>2 DEF RemovalOK
<1>4. QED
  BY <1>1, <1>3 DEF Unsure

\* A number that appears on the platform is marked already, unless another
\* request or a failed UPDATE interfered.
THEOREM MarkedFirst == Spec => MarkedWhenListed
<1>1. ASSUME IInv, [Next]_vars, NEW p \in listed' \ listed
      PROVE  mark'[p.sim] = p.country \/ Unsure(p.sim)
  <2>1. PICK t \in Request : SendAnswered(t) \/ SendFailed(t) \/ Ask(t)
    BY <1>1, WhoChanges
  <2>2. CASE Ask(t)
    BY <1>1, <2>2 DEF Ask
  <2>3. CASE SendAnswered(t) \/ SendFailed(t)
    BY <1>1, <2>3, UploadChanges
  <2>4. QED
    BY <2>1, <2>2, <2>3
<1>2. IInv /\ [Next]_vars =>
         [\A p \in listed' \ listed : mark'[p.sim] = p.country \/ Unsure(p.sim)]_vars
  BY <1>1
<1>3. QED
  BY Invariance, <1>2, PTL DEF Spec, MarkedWhenListed

\* A number that leaves the platform is no longer marked, with the same
\* exceptions and that of numbers stored with formatting.
THEOREM ClearedFirst == Spec => UnmarkedWhenGone
<1>1. ASSUME IInv, [Next]_vars, NEW p \in listed \ listed'
      PROVE  \/ mark'[p.sim] # p.country
             \/ Unsure(p.sim)
             \/ p.sim \notin Plain /\ \E t \in Request : job[t].pc = "ask" /\ job[t].bySim
  <2>1. PICK t \in Request : SendAnswered(t) \/ SendFailed(t) \/ Ask(t)
    BY <1>1, WhoChanges
  <2>2. CASE Ask(t)
    BY <1>1, <2>2, RemovalChanges
  <2>3. CASE SendAnswered(t) \/ SendFailed(t)
    BY <1>1, <2>3 DEF SendAnswered, SendFailed
  <2>4. QED
    BY <2>1, <2>2, <2>3
<1>2. IInv /\ [Next]_vars =>
         [\A p \in listed \ listed' :
             \/ mark'[p.sim] # p.country
             \/ Unsure(p.sim)
             \/ p.sim \notin Plain /\ \E t \in Request : job[t].pc = "ask" /\ job[t].bySim]_vars
  <2>1. ASSUME IInv, [Next]_vars
        PROVE  \A p \in listed \ listed' :
                  \/ mark'[p.sim] # p.country
                  \/ Unsure(p.sim)
                  \/ p.sim \notin Plain /\ \E t \in Request : job[t].pc = "ask" /\ job[t].bySim
    BY <1>1, <2>1
  <2>2. QED
    BY <2>1
<1>3. QED
  BY Invariance, <1>2, PTL DEF Spec, UnmarkedWhenGone
=============================================================================
