---------------------------- MODULE SimCardsProofs ----------------------------
(***************************************************************************)
(* Theorems about SimCards for any finite sets of SIMs and phone numbers,   *)
(* any number of concurrent requests and imports, and any bound MaxOps.    *)
(***************************************************************************)
EXTENDS SimCards, FiniteSetTheorems, TLAPS

(* The inductive invariant, in parts. *)

Agree(a, b) == a.phone = b.phone /\ a.alias = b.alias

\* A row that was read or cached is there; and for a SIM of which no two
\* writers were under way at once, what its writer holds is what is stored.
WriterInv ==
    /\ \A s \in Sim : cache[s] # Null => table[s] # Null
    /\ \A t \in Request : IsWriter(t) =>
          /\ table[job[t].sim] # Null /\ job[t].card # Null
          /\ job[t].value \in Values(job[t].field)
          /\ job[t].sim \notin met =>
                /\ \A u \in Request \ {t} : IsWriter(u) => job[u].sim # job[t].sim
                /\ Agree(job[t].card, table[job[t].sim])
                /\ /\ job[t].pc = "update" \/ job[t].field = "code"
                   /\ job[t].sim \notin cut /\ cache[job[t].sim] # Null
                   => Agree(cache[job[t].sim], table[job[t].sim])

\* Ids of scans are given out once, so that a listed scan is known by its id.
ScanRow == [phone : Phone, imported : BOOLEAN, id : Nat]
ScanInv ==
    /\ scans \in [Sim -> ScanRow \cup {Null}]
    /\ lastScan + ops <= MaxOps
    /\ \A s, u \in Sim : scans[s] # Null /\ scans[u] # Null /\ scans[s].id = scans[u].id => s = u
    /\ \A t \in Request : job[t].pc = "mark" => \A row \in job[t].list :
          /\ row.id <= lastScan
          /\ \A s \in Sim : scans[s] # Null /\ scans[s].id = row.id =>
                row.sim = s /\ (row.phone = scans[s].phone \/ s \in rescanned)

\* An import that has taken over the progress record.
Active(t) == IsImport(t) /\ job[t].pc # "start"

\* How many entries an import has not reported yet.
Left(t) == Cardinality(job[t].entries) + (IF job[t].pc = "next" THEN 0 ELSE 1)

ProgressInv ==
    /\ \A t \in Request : job[t].pc = "report" => job[t].import
    /\ \A t \in Request : job[t].pc = "start" => job[t].done = 0
    /\ progress.running => \E t \in Request : IsImport(t)
    /\ ~crowded =>
          /\ \A t \in Request : Active(t) =>
                /\ \A u \in Request \ {t} : ~Active(u)
                /\ progress.running
                /\ progress.done = job[t].done /\ progress.results = job[t].done
                /\ progress.total = job[t].done + Left(t)
          /\ (\A t \in Request : ~Active(t)) =>
                /\ ~progress.running
                /\ progress.results = progress.done /\ progress.done <= progress.total

IInv == TypeOK /\ WriterInv /\ ScanInv /\ ProgressInv /\ StaleIsExplained /\ ImportedOrLost
-----------------------------------------------------------------------------
(* Facts about types. *)

Jobs == {Idle} \cup Writers \cup Imports \cup Markers
Records == [running : BOOLEAN, total : Nat, done : Nat, results : Nat]

TablesOK ==
    /\ table \in [Sim -> Card \cup {Null}]
    /\ cache \in [Sim -> Card \cup {Null}]
    /\ managed \subseteq Sim

ScansOK ==
    /\ \A s \in Sim : scans[s] # Null =>
          scans[s] \in [phone : Phone, imported : BOOLEAN, id : 1..lastScan]
    /\ lastScan \in 0..MaxOps

HistoryOK ==
    /\ met \subseteq Sim /\ cut \subseteq Sim /\ rescanned \subseteq Sim
    /\ taken \subseteq Entry /\ stranded \subseteq Entry
    /\ crowded \in BOOLEAN

LEMMA TypeParts ==
    /\ TypeOK <=> /\ TablesOK /\ ScansOK /\ progress \in Records /\ job \in [Request -> Jobs]
                  /\ ops \in 0..MaxOps /\ HistoryOK
    /\ TypeOK' <=> /\ TablesOK' /\ ScansOK' /\ progress' \in Records /\ job' \in [Request -> Jobs]
                   /\ ops' \in 0..MaxOps /\ HistoryOK'
BY DEF TypeOK, TablesOK, ScansOK, Records, Jobs, HistoryOK

\* The state of a job says what else it keeps.
LEMMA JobTypes ==
    ASSUME TypeOK, NEW t \in Request
    PROVE  /\ job[t] \in Jobs
           /\ job[t].pc \in {"update", "cache", "report"} => job[t] \in Writers
           /\ job[t].pc \in {"start", "next"} => job[t] \in Imports
           /\ job[t].pc \in {"mark", "spawn"} => job[t] \in Markers
           /\ job[t] = Idle => job[t].pc = "idle"
BY DEF TypeOK, Jobs, Idle, Writers, Imports, Markers

LEMMA WriterTypes ==
    ASSUME NEW j \in Writers
    PROVE  /\ j.import \in BOOLEAN /\ j.sim \in Sim /\ j.field \in Field
           /\ j.value \in Phone \cup Alias \cup Code \cup {Null}
           /\ j.card \in Card \cup {Null} /\ j.entries \subseteq Entry /\ j.done \in Nat
BY DEF Writers

LEMMA BecomeFacts ==
    ASSUME TypeOK, NEW t \in Request, NEW next, Become(t, next)
    PROVE  /\ job'[t] = next /\ \A u \in Request : u # t => job'[u] = job[u]
           /\ next \in Jobs => job' \in [Request -> Jobs]
BY DEF TypeOK, Become, Jobs

LEMMA WithFacts ==
    ASSUME NEW card \in Card, NEW f \in Field, NEW v \in Values(f)
    PROVE  /\ With(card, f, v) \in Card
           /\ With(card, f, v).phone = IF f = "phone" THEN v ELSE card.phone
           /\ With(card, f, v).alias = IF f = "alias" THEN v ELSE card.alias
<1>1. CASE f = "phone"
  BY <1>1 DEF With, Card, Values
<1>2. CASE f = "alias"
  BY <1>2 DEF With, Card, Values
<1>3. CASE f = "code"
  BY <1>3 DEF With, Card, Values
<1>4. QED
  BY <1>1, <1>2, <1>3 DEF Field

\* The same column of two rows that agree is set to the same value.
LEMMA WithAgree ==
    ASSUME NEW a \in Card, NEW b \in Card, Agree(a, b), NEW f \in Field, NEW v \in Values(f)
    PROVE  /\ Agree(With(a, f, v), With(b, f, v))
           /\ f = "code" => Agree(With(a, f, v), b)
BY WithFacts DEF Agree

LEMMA NoCard == Null \notin Card
BY Domains

LEMMA WriteTypes ==
    ASSUME TypeOK, NEW s \in Sim, NEW f \in Field,
           NEW v \in Phone \cup Alias \cup Code \cup {Null}, NEW import \in BOOLEAN,
           NEW entries \in SUBSET Entry, NEW done \in Nat
    PROVE  LET j == Write(s, f, v, import, entries, done)
           IN  /\ j \in Writers /\ [j EXCEPT !.pc = "report"] \in Writers
               /\ j.pc = "update" /\ j.import = import /\ j.sim = s /\ j.field = f
               /\ j.value = v /\ j.card = table[s] /\ j.entries = entries /\ j.done = done
BY DEF Write, Writers, TypeOK

LEMMA ValueTypes ==
    ASSUME NEW f \in Field, NEW v \in Values(f)
    PROVE  v \in Phone \cup Alias \cup Code \cup {Null}
BY DEF Values, Field

\* The steps of a writer change its state, and the row it holds.
LEMMA WriterMoves ==
    ASSUME NEW j \in Writers, NEW card \in Card
    PROVE  LET cached == [j EXCEPT !.pc = "cache", !.card = card]
               after == [j EXCEPT !.pc = "report"]
           IN  /\ cached \in Writers /\ cached.pc = "cache" /\ cached.card = card
               /\ cached.import = j.import /\ cached.sim = j.sim /\ cached.field = j.field
               /\ cached.value = j.value /\ cached.entries = j.entries /\ cached.done = j.done
               /\ after \in Writers /\ after.pc = "report" /\ after.import = j.import
               /\ after.entries = j.entries /\ after.done = j.done
<1> DEFINE cached == [j EXCEPT !.pc = "cache", !.card = card]
           after == [j EXCEPT !.pc = "report"]
<1>1. cached \in Writers /\ after \in Writers
  BY DEF Writers
<1>2. /\ cached.pc = "cache" /\ cached.card = card /\ cached.import = j.import
      /\ cached.sim = j.sim /\ cached.field = j.field /\ cached.value = j.value
      /\ cached.entries = j.entries /\ cached.done = j.done
  BY DEF Writers
<1>3. /\ after.pc = "report" /\ after.import = j.import
      /\ after.entries = j.entries /\ after.done = j.done
  BY DEF Writers
<1>4. QED
  BY <1>1, <1>2, <1>3

\* What is known of the job of a writer.
LEMMA WriterFacts ==
    ASSUME IInv, NEW t \in Request, job[t].pc \in {"update", "cache"}
    PROVE  /\ job[t] \in Writers /\ job[t].sim \in Sim /\ job[t].field \in Field
           /\ job[t].value \in Values(job[t].field) /\ job[t].card \in Card
           /\ table[job[t].sim] \in Card /\ job[t].import \in BOOLEAN
           /\ Held(t) \in Card
<1>1. job[t] \in Writers
  BY JobTypes DEF IInv
<1>2. /\ job[t].sim \in Sim /\ job[t].field \in Field /\ job[t].card \in Card \cup {Null}
      /\ job[t].import \in BOOLEAN
  BY <1>1, WriterTypes
<1>3. /\ table[job[t].sim] # Null /\ job[t].card # Null
      /\ job[t].value \in Values(job[t].field)
  BY DEF IInv, WriterInv, IsWriter
<1>4. table[job[t].sim] \in Card
  BY <1>2, <1>3 DEF IInv, TypeOK
<1>5. Held(t) \in Card
  BY <1>2, <1>3, WithFacts DEF Held
<1>6. QED
  BY <1>1, <1>2, <1>3, <1>4, <1>5

LEMMA SpendFacts ==
    ASSUME TypeOK, Spend
    PROVE  ops' \in 0..MaxOps /\ ops' = ops - 1 /\ ops \in Nat /\ ops # 0
BY Domains DEF TypeOK, Spend

LEMMA EntriesFinite == ASSUME NEW S \in SUBSET Entry PROVE IsFiniteSet(S)
<1> DEFINE f == [x \in Sim \X Phone |-> [sim |-> x[1], phone |-> x[2]]]
<1>1. IsFiniteSet(Sim \X Phone)
  BY FS_Product, Domains
<1>2. f \in Surjection(Sim \X Phone, Entry)
  <2>1. f \in [Sim \X Phone -> Entry]
    BY DEF Entry
  <2>2. ASSUME NEW e \in Entry PROVE \E x \in Sim \X Phone : f[x] = e
    <3>1. <<e.sim, e.phone>> \in Sim \X Phone /\ f[<<e.sim, e.phone>>] = e
      BY DEF Entry
    <3>2. QED
      BY <3>1
  <2>3. QED
    BY <2>1, <2>2 DEF Surjection
<1>3. IsFiniteSet(Entry)
  BY <1>1, <1>2, FS_Surjection
<1>4. QED
  BY <1>3, FS_Subset

-----------------------------------------------------------------------------
(* What a step leaves alone. *)

\* A step of a job that is not, and does not become, a writer.
LEMMA WriterKept ==
    ASSUME IInv, NEW t \in Request, NEW next, Become(t, next),
           next.pc \notin {"update", "cache"}, job[t].pc \notin {"update", "cache"},
           UNCHANGED <<table, cache, met, cut>>
    PROVE  WriterInv' /\ StaleIsExplained'
<1>1. /\ job'[t] = next /\ \A u \in Request : u # t => job'[u] = job[u]
  BY BecomeFacts DEF IInv
<1>2. \A u \in Request : /\ IsWriter(u)' <=> IsWriter(u)
                         /\ IsWriter(u) => job'[u] = job[u]
  BY <1>1 DEF IsWriter
<1>3. WriterInv'
  BY <1>2 DEF IInv, WriterInv
<1>4. StaleIsExplained'
  BY <1>2 DEF IInv, StaleIsExplained, Settled
<1>5. QED
  BY <1>3, <1>4

\* Entries whose marks are accounted for.
Accounted == taken \cup Handing \cup stranded

LEMMA HandingTypes ==
    ASSUME TypeOK
    PROVE  /\ Handing \subseteq Entry
           /\ \A u \in Request : job[u].pc = "spawn" => Entries(job[u].list) \subseteq Entry
<1>1. ASSUME NEW u \in Request, job[u].pc = "spawn"
      PROVE  Entries(job[u].list) \subseteq Entry
  <2>1. job[u].list \subseteq [sim : Sim, phone : Phone, id : Nat]
    BY <1>1, JobTypes DEF Markers
  <2>2. QED
    BY <2>1 DEF Entries, Entry
<1>2. QED
  BY <1>1 DEF Handing

\* What is to be handed over still is, or has been, or never will be.
LEMMA AccountedKept ==
    ASSUME IInv, NEW t \in Request, \A u \in Request : u # t => job'[u] = job[u],
           job[t].pc = "spawn" => Entries(job[t].list) \subseteq taken' \cup stranded',
           taken \subseteq taken', stranded \subseteq stranded'
    PROVE  Accounted \subseteq Accounted'
<1>1. ASSUME NEW e \in Handing PROVE e \in Accounted'
  <2>1. PICK u \in Request : job[u].pc = "spawn" /\ e \in Entries(job[u].list)
    BY DEF Handing
  <2>2. CASE u = t
    BY <2>1, <2>2 DEF Accounted
  <2>3. CASE u # t
    BY <2>1, <2>3 DEF Handing, Accounted, Entries
  <2>4. QED
    BY <2>2, <2>3
<1>2. QED
  BY <1>1 DEF Accounted

LEMMA StillAccounted ==
    ASSUME IInv, Accounted \subseteq Accounted', scans' = scans, rescanned \subseteq rescanned'
    PROVE  ImportedOrLost'
BY DEF IInv, ImportedOrLost, Accounted

\* A step that leaves the scans alone, of a job that neither was to hand over
\* entries nor becomes a marker.
LEMMA ScanKept ==
    ASSUME IInv, NEW t \in Request, NEW next, Become(t, next), next.pc # "mark",
           job[t].pc # "spawn",
           UNCHANGED <<scans, lastScan, taken, stranded, rescanned>>, ops' \in Nat, ops' <= ops
    PROVE  ScanInv' /\ ImportedOrLost'
<1>1. /\ job'[t] = next /\ \A u \in Request : u # t => job'[u] = job[u]
  BY BecomeFacts DEF IInv
<1>2. \A u \in Request : job'[u].pc = "mark" => job'[u] = job[u]
  BY <1>1
<1>3. lastScan + ops' <= MaxOps
  <2>1. lastScan + ops <= MaxOps /\ lastScan \in Nat /\ ops \in Nat /\ MaxOps \in Nat
    BY Domains DEF IInv, TypeOK, ScanInv
  <2>2. \A n \in Nat : n <= ops => lastScan + n <= MaxOps
    BY <2>1
  <2>3. QED
    BY <2>2
<1>4. ScanInv'
  BY <1>2, <1>3 DEF IInv, ScanInv
<1>5. ImportedOrLost'
  BY <1>1, AccountedKept, StillAccounted
<1>6. QED
  BY <1>4, <1>5

\* A step that leaves the progress record alone, and what imports have reported.
LEMMA ProgressKept ==
    ASSUME IInv, UNCHANGED <<progress, crowded>>,
           \A u \in Request :
              /\ IsImport(u) => IsImport(u)'
              /\ Active(u)' <=> Active(u)
              /\ Active(u) => job'[u].done = job[u].done /\ Left(u)' = Left(u)
              /\ job'[u].pc = "report" => job'[u].import
              /\ job'[u].pc = "start" => job'[u].done = 0
    PROVE  ProgressInv'
BY DEF IInv, ProgressInv
-----------------------------------------------------------------------------
(* The writers. *)

\* A writer begins: if another one of the SIM is under way, they have met.
LEMMA WriterBegins ==
    ASSUME IInv, NEW t \in Request, NEW s \in Sim, NEW f \in Field, NEW v \in Values(f),
           NEW import \in BOOLEAN, NEW entries \in SUBSET Entry, NEW done \in Nat,
           table[s] # Null, job[t].pc \notin {"update", "cache"},
           Become(t, Write(s, f, v, import, entries, done)), Meet(t, s),
           UNCHANGED <<table, cache, cut>>
    PROVE  WriterInv' /\ StaleIsExplained' /\ met' \subseteq Sim
<1> DEFINE j == Write(s, f, v, import, entries, done)
<1>1. /\ j.pc = "update" /\ j.sim = s /\ j.field = f /\ j.value = v /\ j.card = table[s]
  BY DEF Write
<1>2. job'[t] = j /\ \A u \in Request : u # t => job'[u] = job[u]
  BY BecomeFacts DEF IInv
<1> HIDE DEF j
<1>3. /\ IsWriter(t)' /\ ~IsWriter(t)
      /\ \A u \in Request : u # t => (IsWriter(u)' <=> IsWriter(u))
  BY <1>1, <1>2 DEF IsWriter
<1>4. /\ met \subseteq met' /\ met' \subseteq Sim
      /\ (\E u \in Request \ {t} : IsWriter(u) /\ job[u].sim = s) => s \in met'
  BY DEF Meet, IInv, TypeOK
<1>5. ASSUME NEW u \in Request, IsWriter(u)'
      PROVE  /\ table[job'[u].sim] # Null /\ job'[u].card # Null
             /\ job'[u].value \in Values(job'[u].field)
             /\ job'[u].sim \notin met' =>
                   /\ \A w \in Request \ {u} : IsWriter(w)' => job'[w].sim # job'[u].sim
                   /\ Agree(job'[u].card, table[job'[u].sim])
                   /\ /\ job'[u].pc = "update" \/ job'[u].field = "code"
                      /\ job'[u].sim \notin cut /\ cache[job'[u].sim] # Null
                      => Agree(cache[job'[u].sim], table[job'[u].sim])
  <2>1. CASE u = t
    <3>1. s \notin met' /\ s \notin cut /\ cache[s] # Null => Agree(cache[s], table[s])
      BY <1>3, <1>4 DEF IInv, StaleIsExplained, Settled, Agree
    <3>2. QED
      BY <1>1, <1>2, <1>3, <1>4, <2>1, <3>1 DEF Agree
  <2>2. CASE u # t
    <3>1. job'[u] = job[u] /\ IsWriter(u)
      BY <1>2, <1>3, <1>5, <2>2
    <3>2. job[u].sim \notin met' => job[u].sim # s
      BY <1>4, <2>2, <3>1
    <3>3. QED
      BY <1>1, <1>2, <1>3, <1>4, <3>1, <3>2 DEF IInv, WriterInv
  <2>3. QED
    BY <2>1, <2>2
<1>6. WriterInv'
  BY <1>5 DEF IInv, WriterInv, Agree
<1>7. StaleIsExplained'
  <2>1. \A r \in Sim : Settled(r)' => Settled(r)
    BY <1>2, <1>3, <1>4 DEF Settled
  <2>2. QED
    BY <2>1 DEF IInv, StaleIsExplained
<1>8. QED
  BY <1>4, <1>6, <1>7

\* A writer goes on, or ends: it has set the column, put its row into the
\* cache, or failed.  What it holds is what is stored, unless two have met.
LEMMA WriterMovesOn ==
    ASSUME IInv, NEW t \in Request, NEW next, Become(t, next), UNCHANGED met,
           job[t].pc \in {"update", "cache"}, table' \in [Sim -> Card \cup {Null}],
           \A r \in Sim : r # job[t].sim => table'[r] = table[r] /\ cache'[r] = cache[r],
           table'[job[t].sim] # Null,
           next.pc # "update",
           next.pc = "cache" =>
              /\ next.sim = job[t].sim /\ next.field = job[t].field
              /\ next.value = job[t].value /\ next.card # Null
              /\ job[t].sim \notin met => Agree(next.card, table'[job[t].sim]),
           cut \subseteq cut' \cup {job[t].sim},
           /\ next.pc # "cache" \/ job[t].field = "code"
           /\ job[t].sim \notin met \cup cut' /\ cache'[job[t].sim] # Null
           => Agree(cache'[job[t].sim], table'[job[t].sim])
    PROVE  WriterInv' /\ StaleIsExplained'
<1> DEFINE s == job[t].sim
<1>1. job'[t] = next /\ \A u \in Request : u # t => job'[u] = job[u]
  BY BecomeFacts DEF IInv
<1>2. /\ IsWriter(t) /\ s \in Sim /\ (IsWriter(t)' <=> next.pc = "cache")
      /\ \A u \in Request : u # t => (IsWriter(u)' <=> IsWriter(u))
  BY <1>1, WriterFacts DEF IsWriter
<1>3. \A u \in Request : u # t /\ IsWriter(u) /\ s \notin met => job[u].sim # s
  BY <1>2 DEF IInv, WriterInv
<1>4. \A r \in Sim : cache'[r] # Null => table'[r] # Null
  BY <1>2 DEF IInv, WriterInv
<1>5. ASSUME NEW u \in Request, IsWriter(u)'
      PROVE  /\ table'[job'[u].sim] # Null /\ job'[u].card # Null
             /\ job'[u].value \in Values(job'[u].field)
             /\ job'[u].sim \notin met' =>
                   /\ \A w \in Request \ {u} : IsWriter(w)' => job'[w].sim # job'[u].sim
                   /\ Agree(job'[u].card, table'[job'[u].sim])
                   /\ /\ job'[u].pc = "update" \/ job'[u].field = "code"
                      /\ job'[u].sim \notin cut' /\ cache'[job'[u].sim] # Null
                      => Agree(cache'[job'[u].sim], table'[job'[u].sim])
  <2>1. CASE u = t
    <3>1. /\ job'[t] = next /\ next.pc = "cache" /\ next.sim = s
          /\ next.field = job[t].field /\ next.value = job[t].value /\ next.card # Null
          /\ s \notin met => Agree(next.card, table'[s])
      BY <1>1, <1>2, <1>5, <2>1
    <3>2. next.value \in Values(next.field)
      BY <3>1, WriterFacts
    <3>3. QED
      BY <1>1, <1>2, <1>3, <2>1, <3>1, <3>2
  <2>2. CASE u # t
    <3>1. job'[u] = job[u] /\ IsWriter(u) /\ job[u].sim \in Sim
      BY <1>1, <1>2, <1>5, <2>2, WriterFacts DEF IsWriter
    <3>2. CASE job[u].sim = s
      <4>1. s \in met
        BY <1>3, <2>2, <3>1, <3>2
      <4>2. QED
        BY <3>1, <3>2, <4>1 DEF IInv, WriterInv
    <3>3. CASE job[u].sim # s
      <4>1. /\ table'[job[u].sim] = table[job[u].sim] /\ cache'[job[u].sim] = cache[job[u].sim]
        BY <3>1, <3>3
      <4>2. \A w \in Request \ {u} : IsWriter(w)' /\ job'[w].sim = job[u].sim =>
               IsWriter(w) /\ job[w].sim = job[u].sim
        BY <1>1, <1>2, <3>3
      <4>3. job[u].sim \notin cut' => job[u].sim \notin cut
        BY <3>3
      <4>4. QED
        BY <3>1, <4>1, <4>2, <4>3 DEF IInv, WriterInv
    <3>4. QED
      BY <3>2, <3>3
  <2>3. QED
    BY <2>1, <2>2
<1>6. WriterInv'
  BY <1>4, <1>5 DEF WriterInv, Agree
<1>7. StaleIsExplained'
  <2>1. ASSUME NEW r \in Sim, Settled(r)', cache'[r] # Null
        PROVE  Agree(cache'[r], table'[r])
    <3>1. CASE r = s
      <4>1. next.pc # "cache" /\ s \notin met \cup cut'
        BY <1>1, <1>2, <2>1, <3>1 DEF Settled
      <4>2. QED
        BY <2>1, <3>1, <4>1
    <3>2. CASE r # s
      <4>1. Settled(r)
        BY <1>1, <1>2, <2>1, <3>2 DEF Settled
      <4>2. QED
        BY <2>1, <3>2, <4>1 DEF IInv, StaleIsExplained, Agree
    <3>3. QED
      BY <3>1, <3>2
  <2>2. QED
    BY <2>1 DEF StaleIsExplained, Agree
<1>8. QED
  BY <1>6, <1>7

LEMMA SetFieldStep ==
    ASSUME IInv, NEW t \in Request, NEW s \in Sim, NEW f \in Field, NEW v \in Values(f),
           SetField(t, s, f, v)
    PROVE  IInv'
<1> DEFINE j == Write(s, f, v, FALSE, {}, 0)
<1>1. /\ table[s] # Null /\ job[t] = Idle /\ Spend /\ Become(t, j) /\ Meet(t, s)
      /\ UNCHANGED <<table, cache, managed, scans, lastScan, progress, cut, taken, stranded, rescanned, crowded>>
  BY DEF SetField, Begin, data, barcodes
<1>2. v \in Phone \cup Alias \cup Code \cup {Null}
  BY ValueTypes
<1>3. TypeOK
  BY DEF IInv
<1>4. j \in Writers /\ j.pc = "update" /\ j.import = FALSE
  BY <1>2, <1>3 DEF Write, Writers, TypeOK
<1>5. job[t].pc = "idle" /\ ops' \in 0..MaxOps /\ ops' = ops - 1 /\ ops \in Nat /\ ops # 0
  BY <1>1, <1>3, JobTypes, SpendFacts
<1>6. WriterInv' /\ StaleIsExplained' /\ met' \subseteq Sim
  BY <1>1, <1>5, WriterBegins
<1> HIDE DEF j
<1>7. ScanInv' /\ ImportedOrLost'
  BY <1>1, <1>4, <1>5, ScanKept
<1>8. /\ job'[t] = j /\ \A u \in Request : u # t => job'[u] = job[u]
      /\ job' \in [Request -> Jobs]
  BY <1>1, <1>3, <1>4, BecomeFacts DEF Jobs
<1>9. \A u \in Request : /\ IsImport(u) => IsImport(u)'
                         /\ Active(u)' <=> Active(u)
                         /\ Active(u) => job'[u] = job[u]
                         /\ job'[u].pc = "report" => job'[u].import
                         /\ job'[u].pc = "start" => job'[u].done = 0
  BY <1>4, <1>5, <1>8 DEF IInv, ProgressInv, IsImport, Active
<1>10. ProgressInv'
  BY <1>1, <1>9, ProgressKept DEF Left
<1>11. TypeOK'
  BY <1>1, <1>3, <1>5, <1>6, <1>8, TypeParts DEF TablesOK, ScansOK, HistoryOK
<1>12. QED
  BY <1>6, <1>7, <1>10, <1>11 DEF IInv

LEMMA UpdateStep ==
    ASSUME IInv, NEW t \in Request, Update(t)
    PROVE  IInv'
<1> DEFINE s == job[t].sim
           next == [job[t] EXCEPT !.pc = "cache", !.card = Held(t)]
<1>1. /\ job[t].pc = "update" /\ Become(t, next)
      /\ table' = [table EXCEPT ![s] = With(@, job[t].field, job[t].value)]
      /\ UNCHANGED <<cache, managed, scans, lastScan, progress, ops, met, cut, taken, stranded, rescanned, crowded>>
  BY DEF Update, barcodes
<1>2. /\ job[t] \in Writers /\ s \in Sim /\ job[t].field \in Field
      /\ job[t].value \in Values(job[t].field) /\ job[t].card \in Card
      /\ table[s] \in Card /\ Held(t) \in Card
  BY <1>1, WriterFacts
<1>3. /\ next \in Writers /\ next.pc = "cache" /\ next.card = Held(t)
      /\ next.import = job[t].import /\ next.sim = s /\ next.field = job[t].field
      /\ next.value = job[t].value /\ next.entries = job[t].entries /\ next.done = job[t].done
  BY <1>2 DEF Writers
<1> HIDE DEF next
<1>4. /\ TypeOK /\ ops \in Nat /\ table \in [Sim -> Card \cup {Null}]
      /\ s \notin met => Agree(job[t].card, table[s])
      /\ s \notin met \cup cut /\ cache[s] # Null => Agree(cache[s], table[s])
  BY <1>1, <1>2 DEF IInv, TypeOK, WriterInv, IsWriter
<1>5. With(table[s], job[t].field, job[t].value) \in Card
  BY <1>2, WithFacts
<1>6. /\ table'[s] = With(table[s], job[t].field, job[t].value)
      /\ \A r \in Sim : r # s => table'[r] = table[r]
      /\ table' \in [Sim -> Card \cup {Null}] /\ table'[s] # Null
  BY <1>1, <1>2, <1>4, <1>5, NoCard
<1>7. s \notin met => Agree(next.card, table'[s])
  BY <1>2, <1>3, <1>4, <1>6, WithAgree DEF Held
<1>8. WriterInv' /\ StaleIsExplained'
  <2>1. next.card # Null /\ next.pc # "update"
    BY <1>2, <1>3, NoCard
  <2>2. \A r \in Sim : r # job[t].sim => table'[r] = table[r] /\ cache'[r] = cache[r]
    BY <1>1, <1>6
  <2>3. job[t].field = "code" => Agree(table'[s], table[s])
    BY <1>2, <1>6, WithAgree DEF Agree
  <2>4. job[t].field = "code" /\ s \notin met \cup cut' /\ cache'[s] # Null =>
           Agree(cache'[s], table'[s])
    BY <1>1, <1>4, <2>3 DEF Agree
  <2>5. QED
    BY <1>1, <1>3, <1>6, <1>7, <2>1, <2>2, <2>4, WriterMovesOn
<1>9. ScanInv' /\ ImportedOrLost'
  BY <1>1, <1>3, <1>4, ScanKept
<1>10. /\ job'[t] = next /\ \A u \in Request : u # t => job'[u] = job[u]
       /\ job' \in [Request -> Jobs]
  BY <1>1, <1>3, <1>4, BecomeFacts DEF Jobs
<1>11. \A u \in Request : /\ IsImport(u)' <=> IsImport(u)
                          /\ Active(u)' <=> Active(u)
                          /\ job'[u].pc = "report" => job'[u].import
                          /\ job'[u].pc = "start" => job'[u].done = 0
  BY <1>1, <1>3, <1>10 DEF IInv, ProgressInv, IsImport, Active
<1>12. \A u \in Request : Active(u) => job'[u].done = job[u].done /\ Left(u)' = Left(u)
  BY <1>1, <1>3, <1>10 DEF Left
<1>13. ProgressInv'
  BY <1>1, <1>11, <1>12, ProgressKept
<1>14. TypeOK'
  BY <1>1, <1>4, <1>6, <1>10, TypeParts DEF TablesOK, ScansOK, HistoryOK
<1>15. QED
  BY <1>8, <1>9, <1>13, <1>14 DEF IInv

LEMMA CacheStep ==
    ASSUME IInv, NEW t \in Request, Cache(t)
    PROVE  IInv'
<1> DEFINE s == job[t].sim
           next == AfterCache(t)
<1>1. /\ job[t].pc = "cache" /\ Become(t, next)
      /\ cache' = [cache EXCEPT ![s] = job[t].card] /\ cut' = cut \ {s}
      /\ UNCHANGED <<table, managed, scans, lastScan, progress, ops, met, taken, stranded, rescanned, crowded>>
  BY DEF Cache, barcodes, history
<1>2. /\ job[t] \in Writers /\ s \in Sim /\ job[t].card \in Card
      /\ table[s] \in Card /\ job[t].import \in BOOLEAN
  BY <1>1, WriterFacts
<1>3. /\ next \in Jobs
      /\ ~job[t].import => next = Idle /\ next.pc = "idle"
      /\ job[t].import => /\ next.pc = "report" /\ next.import = job[t].import
                          /\ next.entries = job[t].entries /\ next.done = job[t].done
  BY <1>2, WriterMoves DEF AfterCache, Jobs, Idle
<1> HIDE DEF next
<1>4. /\ TypeOK /\ ops \in Nat /\ table \in [Sim -> Card \cup {Null}]
      /\ cache \in [Sim -> Card \cup {Null}]
      /\ s \notin met => Agree(job[t].card, table[s])
  BY <1>1, <1>2 DEF IInv, TypeOK, WriterInv, IsWriter
<1>5. /\ cache'[s] = job[t].card /\ \A r \in Sim : r # s => cache'[r] = cache[r]
      /\ cache' \in [Sim -> Card \cup {Null}]
  BY <1>1, <1>2, <1>4
<1>6. next.pc # "update" /\ next.pc # "cache" /\ next.pc # "mark"
  BY <1>2, <1>3
<1>7. WriterInv' /\ StaleIsExplained'
  <2>1. table'[s] # Null /\ table' \in [Sim -> Card \cup {Null}]
    BY <1>1, <1>2, <1>4, NoCard
  <2>2. \A r \in Sim : r # job[t].sim => table'[r] = table[r] /\ cache'[r] = cache[r]
    BY <1>1, <1>5
  <2>3. s \notin met => Agree(cache'[s], table'[s])
    BY <1>1, <1>4, <1>5
  <2>4. QED
    BY <1>1, <1>6, <2>1, <2>2, <2>3, WriterMovesOn
<1>8. ScanInv' /\ ImportedOrLost'
  BY <1>1, <1>4, <1>6, ScanKept
<1>9. /\ job'[t] = next /\ \A u \in Request : u # t => job'[u] = job[u]
      /\ job' \in [Request -> Jobs]
  BY <1>1, <1>3, <1>4, BecomeFacts
<1>10. \A u \in Request : /\ IsImport(u)' <=> IsImport(u)
                          /\ Active(u)' <=> Active(u)
                          /\ job'[u].pc = "report" => job'[u].import
                          /\ job'[u].pc = "start" => job'[u].done = 0
  BY <1>1, <1>2, <1>3, <1>9 DEF IInv, ProgressInv, IsImport, Active
<1>11. \A u \in Request : Active(u) => job'[u].done = job[u].done /\ Left(u)' = Left(u)
  BY <1>1, <1>2, <1>3, <1>9 DEF Left, Active, IsImport
<1>12. ProgressInv'
  BY <1>1, <1>10, <1>11, ProgressKept
<1>13. TypeOK'
  BY <1>1, <1>4, <1>5, <1>9, TypeParts DEF TablesOK, ScansOK, HistoryOK
<1>14. QED
  BY <1>7, <1>8, <1>12, <1>13 DEF IInv

LEMMA UpdateFailsStep ==
    ASSUME IInv, NEW t \in Request, UpdateFails(t)
    PROVE  IInv'
<1> DEFINE s == job[t].sim
           cached == [job[t] EXCEPT !.pc = "cache", !.card = Held(t)]
           failed == [job[t] EXCEPT !.pc = "report"]
           next == IF job[t].field = "code" THEN cached ELSE IF job[t].import THEN failed ELSE Idle
<1>1. /\ job[t].pc = "update" /\ Become(t, next)
      /\ UNCHANGED <<table, cache, managed, scans, lastScan, progress, ops, met, cut, taken, stranded, rescanned, crowded>>
  BY DEF UpdateFails, data, barcodes, history
<1>2. /\ job[t] \in Writers /\ s \in Sim /\ job[t].field \in Field
      /\ job[t].value \in Values(job[t].field) /\ job[t].card \in Card
      /\ table[s] \in Card /\ Held(t) \in Card /\ job[t].import \in BOOLEAN
  BY <1>1, WriterFacts
<1>3. /\ cached \in Writers /\ cached.pc = "cache" /\ cached.card = Held(t)
      /\ cached.import = job[t].import /\ cached.sim = s /\ cached.field = job[t].field
      /\ cached.value = job[t].value /\ cached.entries = job[t].entries /\ cached.done = job[t].done
      /\ failed \in Writers /\ failed.pc = "report" /\ failed.import = job[t].import
      /\ failed.entries = job[t].entries /\ failed.done = job[t].done
  BY <1>2, WriterMoves
<1> HIDE DEF cached, failed
<1>4. /\ next.pc = "cache" => next = cached /\ job[t].field = "code"
      /\ next.pc = "report" => (next = cached \/ next = failed) /\ job[t].import
      /\ next \in Jobs
      /\ next.pc \in {"cache", "report", "idle"}
      /\ next.pc = "idle" => ~job[t].import
      /\ next.pc # "idle" => /\ next.import = job[t].import
                             /\ next.entries = job[t].entries /\ next.done = job[t].done
  BY <1>2, <1>3 DEF Jobs, Idle
<1> HIDE DEF next
<1>5. /\ TypeOK /\ ops \in Nat /\ table \in [Sim -> Card \cup {Null}]
      /\ s \notin met => /\ Agree(job[t].card, table[s])
                         /\ s \notin cut /\ cache[s] # Null => Agree(cache[s], table[s])
  BY <1>1, <1>2 DEF IInv, TypeOK, WriterInv, IsWriter
<1>6. WriterInv' /\ StaleIsExplained'
  <2>1. table'[s] # Null /\ table' \in [Sim -> Card \cup {Null}]
    BY <1>1, <1>2, <1>5, NoCard
  <2>2. \A r \in Sim : r # job[t].sim => table'[r] = table[r] /\ cache'[r] = cache[r]
    BY <1>1
  <2>3. next.pc = "cache" => /\ next.sim = s /\ next.field = job[t].field
                             /\ next.value = job[t].value /\ next.card # Null
                             /\ s \notin met => Agree(next.card, table'[s])
    <3>1. job[t].field = "code" /\ s \notin met => Agree(Held(t), table[s])
      BY <1>2, <1>5, WithAgree DEF Held
    <3>2. QED
      BY <1>1, <1>2, <1>3, <1>4, <3>1, NoCard
  <2>4. s \notin met \cup cut' /\ cache'[s] # Null => Agree(cache'[s], table'[s])
    BY <1>1, <1>5
  <2>5. next.pc # "update"
    BY <1>4
  <2>6. QED
    BY <1>1, <2>1, <2>2, <2>3, <2>4, <2>5, WriterMovesOn
<1>7. ScanInv' /\ ImportedOrLost'
  BY <1>1, <1>4, <1>5, ScanKept
<1>8. /\ job'[t] = next /\ \A u \in Request : u # t => job'[u] = job[u]
      /\ job' \in [Request -> Jobs]
  BY <1>1, <1>4, <1>5, BecomeFacts
<1>9. \A u \in Request : /\ IsImport(u)' <=> IsImport(u)
                         /\ Active(u)' <=> Active(u)
                         /\ job'[u].pc = "report" => job'[u].import
                         /\ job'[u].pc = "start" => job'[u].done = 0
  BY <1>1, <1>2, <1>4, <1>8 DEF IInv, ProgressInv, IsImport, Active
<1>10. \A u \in Request : Active(u) => job'[u].done = job[u].done /\ Left(u)' = Left(u)
  BY <1>1, <1>2, <1>4, <1>8 DEF Left, Active, IsImport
<1>11. ProgressInv'
  BY <1>1, <1>9, <1>10, ProgressKept
<1>12. TypeOK'
  BY <1>1, <1>5, <1>8, TypeParts DEF TablesOK, ScansOK, HistoryOK
<1>13. QED
  BY <1>6, <1>7, <1>11, <1>12 DEF IInv
-----------------------------------------------------------------------------
(* Steps of no job: deletions, scans, rescans and restarts. *)

\* Rows are added and country codes cleared, no number or alias changes.
LEMMA RowsAgree ==
    ASSUME IInv, UNCHANGED <<cache, job, met, cut>>,
           \A r \in Sim : table[r] # Null => table'[r] # Null /\ Agree(table'[r], table[r])
    PROVE  WriterInv' /\ StaleIsExplained'
<1>1. \A u \in Request : (IsWriter(u)' <=> IsWriter(u)) /\ (IsWriter(u) => job[u].sim \in Sim)
  BY WriterFacts DEF IsWriter
<1>2. WriterInv'
  BY <1>1 DEF IInv, WriterInv, Agree
<1>3. StaleIsExplained'
  BY <1>1 DEF IInv, StaleIsExplained, Settled, WriterInv, Agree
<1>4. QED
  BY <1>2, <1>3

LEMMA JobsProgressKept ==
    ASSUME IInv, UNCHANGED <<job, progress, crowded>>
    PROVE  ProgressInv'
BY ProgressKept DEF IInv, ProgressInv, IsImport, Active, Left

LEMMA ScansKept ==
    ASSUME IInv, UNCHANGED <<job, scans, lastScan, taken, stranded, rescanned>>, ops' \in Nat, ops' <= ops
    PROVE  ScanInv' /\ ImportedOrLost'
<1>1. lastScan + ops <= MaxOps /\ lastScan \in Nat /\ ops \in Nat /\ MaxOps \in Nat
  BY Domains DEF IInv, TypeOK, ScanInv
<1>2. \A n \in Nat : n <= ops => lastScan + n <= MaxOps
  BY <1>1
<1>3. ScanInv'
  BY <1>2 DEF IInv, ScanInv
<1>4. Handing' = Handing
  BY DEF Handing, Entries
<1>5. QED
  BY <1>3, <1>4, StillAccounted DEF Accounted

LEMMA ClearCodeStep ==
    ASSUME IInv, NEW s \in Sim, ClearCode(s)
    PROVE  IInv'
<1>1. /\ Spend /\ table[s] # Null /\ table' = [table EXCEPT ![s].code = Null]
      /\ UNCHANGED <<cache, managed, scans, lastScan, progress, job, met, cut, taken, stranded, rescanned, crowded>>
  BY DEF ClearCode, barcodes, history
<1>2. TypeOK /\ ops' \in 0..MaxOps /\ ops' = ops - 1 /\ ops \in Nat /\ ops # 0
  BY <1>1, SpendFacts DEF IInv
<1>3. table \in [Sim -> Card \cup {Null}] /\ table[s] \in Card
  BY <1>1, <1>2 DEF TypeOK
<1>4. /\ [table[s] EXCEPT !.code = Null] \in Card
      /\ Agree([table[s] EXCEPT !.code = Null], table[s])
  BY <1>3 DEF Card, Agree
<1>5. /\ table'[s] = [table[s] EXCEPT !.code = Null]
      /\ \A r \in Sim : r # s => table'[r] = table[r]
      /\ table' \in [Sim -> Card \cup {Null}]
  BY <1>1, <1>3, <1>4
<1>6. WriterInv' /\ StaleIsExplained'
  <2>1. \A r \in Sim : table[r] # Null => table'[r] # Null /\ Agree(table'[r], table[r])
    BY <1>4, <1>5, NoCard DEF Agree
  <2>2. QED
    BY <1>1, <2>1, RowsAgree
<1>7. ScanInv' /\ ImportedOrLost' /\ ProgressInv'
  BY <1>1, <1>2, ScansKept, JobsProgressKept
<1>8. TypeOK'
  BY <1>1, <1>2, <1>5, TypeParts DEF TablesOK, ScansOK, HistoryOK
<1>9. QED
  BY <1>6, <1>7, <1>8 DEF IInv

LEMMA RescanStep ==
    ASSUME IInv, NEW s \in Sim, NEW p \in Phone, Rescan(s, p)
    PROVE  IInv'
<1>1. /\ Spend /\ managed' \subseteq managed \cup {s}
      /\ table' = table \/ table' = [table EXCEPT ![s] = Ensured(s, p)]
      /\ UNCHANGED <<cache, scans, lastScan, progress, job, met, cut, taken, stranded, rescanned, crowded>>
  BY DEF Rescan, barcodes
<1>2. TypeOK /\ ops' \in 0..MaxOps /\ ops' = ops - 1 /\ ops \in Nat /\ ops # 0
  BY <1>1, SpendFacts DEF IInv
<1>3. table \in [Sim -> Card \cup {Null}] /\ managed' \subseteq Sim
  BY <1>1, <1>2 DEF TypeOK
<1>4. Ensured(s, p) \in Card /\ (table[s] # Null => Ensured(s, p) = table[s])
  BY <1>3 DEF Ensured, Blank, Card
<1>5. /\ \A r \in Sim : table[r] # Null => table'[r] = table[r]
      /\ table' \in [Sim -> Card \cup {Null}]
  BY <1>1, <1>3, <1>4
<1>6. WriterInv' /\ StaleIsExplained'
  <2>1. \A r \in Sim : table[r] # Null => table'[r] # Null /\ Agree(table'[r], table[r])
    BY <1>5 DEF Agree
  <2>2. QED
    BY <1>1, <2>1, RowsAgree
<1>7. ScanInv' /\ ImportedOrLost' /\ ProgressInv'
  BY <1>1, <1>2, ScansKept, JobsProgressKept
<1>8. TypeOK'
  BY <1>1, <1>2, <1>3, <1>5, TypeParts DEF TablesOK, ScansOK, HistoryOK
<1>9. QED
  BY <1>6, <1>7, <1>8 DEF IInv

LEMMA ClearScansStep ==
    ASSUME IInv, ClearScans
    PROVE  IInv'
<1>1. /\ Spend /\ scans' = [s \in Sim |-> Null] /\ rescanned' = {}
      /\ UNCHANGED <<table, cache, managed, lastScan, progress, job, met, cut, taken, stranded, crowded>>
  BY DEF ClearScans, data
<1>2. TypeOK /\ ops' \in 0..MaxOps /\ ops' = ops - 1 /\ ops \in Nat /\ ops # 0
  BY <1>1, SpendFacts DEF IInv
<1>3. WriterInv' /\ StaleIsExplained' /\ ProgressInv'
  BY <1>1, RowsAgree, JobsProgressKept DEF Agree
<1>4. \A s \in Sim : scans'[s] = Null
  BY <1>1
<1>5. lastScan' + ops' <= MaxOps
  BY <1>1, <1>2, Domains DEF IInv, TypeOK, ScanInv
<1>6. ScanInv' /\ ImportedOrLost'
  <2>1. scans' \in [Sim -> ScanRow \cup {Null}]
    BY <1>1
  <2>2. ScanInv'
    BY <1>1, <1>4, <1>5, <2>1 DEF IInv, ScanInv
  <2>3. ImportedOrLost'
    BY <1>4 DEF ImportedOrLost
  <2>4. QED
    BY <2>2, <2>3
<1>7. TypeOK'
  BY <1>1, <1>2, <1>4, TypeParts DEF TablesOK, ScansOK, HistoryOK
<1>8. QED
  BY <1>3, <1>6, <1>7 DEF IInv

\* A new scan is a number, not imported, under its old id or a new one.
LEMMA ScanRowFacts ==
    ASSUME NEW row \in ScanRow, NEW p \in Phone
    PROVE  LET new == [row EXCEPT !.phone = p, !.imported = FALSE]
           IN  new \in ScanRow /\ new.phone = p /\ new.imported = FALSE /\ new.id = row.id
BY DEF ScanRow

\* From the type invariant: scans that are there have an id that was given out.
LEMMA ScanTypes ==
    ASSUME IInv, NEW s \in Sim, scans[s] # Null
    PROVE  scans[s] \in ScanRow /\ scans[s].phone \in Phone /\ scans[s].imported \in BOOLEAN
           /\ scans[s].id \in 1..lastScan /\ lastScan \in Nat
BY Domains DEF IInv, TypeOK, ScanRow

\* No scan is Null: it has an id, and a row of a scan table is a record.
LEMMA ScanStep ==
    ASSUME IInv, NEW s \in Sim, NEW p \in Phone, Scan(s, p)
    PROVE  IInv'
<1> DEFINE first == [phone |-> p, imported |-> FALSE, id |-> lastScan + 1]
           again == [scans[s] EXCEPT !.phone = p, !.imported = FALSE]
<1>1. /\ Spend /\ UNCHANGED <<table, cache, managed, progress, job, met, cut, taken, stranded, crowded>>
      /\ \/ /\ scans[s] = Null /\ lastScan' = lastScan + 1
            /\ scans' = [scans EXCEPT ![s] = first] /\ rescanned' = rescanned
         \/ /\ scans[s] # Null /\ lastScan' = lastScan
            /\ scans' = [scans EXCEPT ![s] = again]
            /\ rescanned' = IF Listed(s) THEN rescanned \cup {s} ELSE rescanned
  BY DEF Scan, data
<1>2. TypeOK /\ ops' \in 0..MaxOps /\ ops' = ops - 1 /\ ops \in Nat /\ ops # 0
  BY <1>1, SpendFacts DEF IInv
<1>3. /\ scans \in [Sim -> ScanRow \cup {Null}] /\ lastScan \in Nat /\ lastScan + ops <= MaxOps
  BY <1>2, Domains DEF IInv, ScanInv, TypeOK
<1>4. /\ first \in ScanRow /\ first.phone = p /\ first.imported = FALSE /\ first.id = lastScan + 1
  BY <1>3 DEF ScanRow
<1>5. scans[s] # Null => /\ again \in ScanRow /\ again.phone = p /\ again.imported = FALSE
                         /\ again.id = scans[s].id
  BY <1>3, ScanRowFacts
<1> HIDE DEF first, again
<1>6. /\ scans'[s] \in ScanRow /\ scans'[s].phone = p /\ scans'[s].imported = FALSE
      /\ \A r \in Sim : r # s => scans'[r] = scans[r]
      /\ scans' \in [Sim -> ScanRow \cup {Null}]
      /\ scans[s] = Null => scans'[s].id = lastScan + 1
      /\ scans[s] # Null => scans'[s].id = scans[s].id
  BY <1>1, <1>3, <1>4, <1>5
<1>7. /\ lastScan' \in Nat /\ lastScan' + ops' <= MaxOps /\ lastScan <= lastScan'
      /\ lastScan' \in 0..MaxOps
      /\ scans[s] = Null => lastScan' = lastScan + 1
      /\ rescanned \subseteq rescanned' /\ rescanned' \subseteq rescanned \cup {s}
      /\ scans[s] # Null /\ Listed(s) => s \in rescanned'
  BY <1>1, <1>2, <1>3, Domains
<1>8. WriterInv' /\ StaleIsExplained' /\ ProgressInv'
  BY <1>1, RowsAgree, JobsProgressKept DEF Agree
<1>9. ScanInv'
  <2>1. ASSUME NEW r \in Sim, NEW u \in Sim, scans'[r] # Null, scans'[u] # Null,
               scans'[r].id = scans'[u].id
        PROVE  r = u
    <3>1. \A w \in Sim : w # s /\ scans'[w] # Null => scans[w].id <= lastScan /\ scans[w].id \in Nat
      BY <1>6, ScanTypes
    <3>2. QED
      BY <1>3, <1>6, <2>1, <3>1 DEF IInv, ScanInv
  <2>2. ASSUME NEW t \in Request, job[t].pc = "mark", NEW row \in job[t].list
        PROVE  /\ row.id <= lastScan'
               /\ \A r \in Sim : scans'[r] # Null /\ scans'[r].id = row.id =>
                     row.sim = r /\ (row.phone = scans'[r].phone \/ r \in rescanned')
    <3>1. /\ row.id <= lastScan /\ row.id \in Nat
          /\ \A r \in Sim : scans[r] # Null /\ scans[r].id = row.id =>
                row.sim = r /\ (row.phone = scans[r].phone \/ r \in rescanned)
      <4>1. job[t] \in Markers
        BY <1>2, <2>2, JobTypes
      <4>2. row.id \in Nat
        BY <2>2, <4>1 DEF Markers
      <4>3. QED
        BY <2>2, <4>2 DEF IInv, ScanInv
    <3>2. ASSUME scans'[s].id = row.id
          PROVE  row.sim = s /\ s \in rescanned'
      <4>1. scans[s] # Null /\ scans[s].id = row.id
        BY <1>3, <1>6, <3>1, <3>2
      <4>2. row.sim = s
        BY <3>1, <4>1
      <4>3. Listed(s)
        BY <2>2, <4>1, <4>2 DEF Listed
      <4>4. QED
        BY <1>7, <4>1, <4>2, <4>3
    <3>3. QED
      BY <1>3, <1>6, <1>7, <3>1, <3>2
  <2>3. QED
    BY <1>1, <1>6, <1>7, <2>1, <2>2 DEF ScanInv
<1>10. ImportedOrLost'
  <2>1. Handing' = Handing
    BY <1>1 DEF Handing, Entries
  <2>2. QED
    BY <1>1, <1>6, <1>7, <2>1 DEF IInv, ImportedOrLost
<1>11. ScansOK'
  <2>1. ASSUME NEW r \in Sim, scans'[r] # Null
        PROVE  scans'[r] \in [phone : Phone, imported : BOOLEAN, id : 1..lastScan']
    <3>1. scans'[r] \in ScanRow
      BY <1>6, <2>1
    <3>2. scans'[r].id \in 1..lastScan'
      BY <1>3, <1>6, <1>7, <2>1, ScanTypes
    <3>3. QED
      BY <3>1, <3>2 DEF ScanRow
  <2>2. QED
    BY <1>7, <2>1 DEF ScansOK
<1>12. TypeOK'
  <2>1. TablesOK' /\ progress' \in Records /\ job' \in [Request -> Jobs]
    BY <1>1, <1>2, TypeParts DEF TablesOK
  <2>2. HistoryOK'
    BY <1>1, <1>2, <1>7, TypeParts DEF HistoryOK
  <2>3. QED
    BY <1>2, <1>11, <2>1, <2>2, TypeParts
<1>13. QED
  BY <1>8, <1>9, <1>10, <1>12 DEF IInv

\* A restart leaves the rows; the cache is a copy of them.
LEMMA RestartStep ==
    ASSUME IInv, Restart
    PROVE  IInv'
<1>1. /\ Spend /\ cache' = [s \in Sim |-> IF s \in managed THEN table[s] ELSE Null]
      /\ job' = [t \in Request |-> Idle] /\ progress' = Fresh /\ met' = {} /\ crowded' = FALSE
      /\ cut' = {} /\ stranded' = stranded \cup Handing
      /\ UNCHANGED <<table, managed, scans, lastScan, taken, rescanned>>
  BY DEF Restart, barcodes
<1>2. TypeOK /\ ops' \in 0..MaxOps /\ ops' = ops - 1 /\ ops \in Nat /\ ops # 0
  BY <1>1, SpendFacts DEF IInv
<1>3. \A t \in Request : job'[t] = Idle /\ job'[t].pc = "idle"
  BY <1>1 DEF Idle
<1>4. \A s \in Sim : cache'[s] # Null => cache'[s] = table[s]
  BY <1>1
<1>5. \A t \in Request : ~IsWriter(t)' /\ ~IsImport(t)' /\ ~Active(t)'
  BY <1>3 DEF IsWriter, IsImport, Active
<1>6. WriterInv' /\ StaleIsExplained'
  BY <1>1, <1>4, <1>5 DEF WriterInv, StaleIsExplained
<1>7. /\ progress' \in Records /\ progress'.running = FALSE
      /\ progress'.results = progress'.done /\ progress'.done <= progress'.total
  BY <1>1 DEF Fresh, Records
<1>8. ProgressInv'
  BY <1>1, <1>3, <1>5, <1>7 DEF ProgressInv
<1>9. lastScan' + ops' <= MaxOps
  BY <1>1, <1>2, Domains DEF IInv, TypeOK, ScanInv
<1>10. ScanInv' /\ ImportedOrLost'
  <2>1. ScanInv'
    BY <1>1, <1>3, <1>9 DEF IInv, ScanInv
  <2>2. Accounted \subseteq Accounted'
    BY <1>1 DEF Accounted
  <2>3. QED
    BY <1>1, <2>1, <2>2, StillAccounted
<1>11. TypeOK'
  <2>1. table \in [Sim -> Card \cup {Null}] /\ managed \subseteq Sim
    BY <1>2 DEF TypeOK
  <2>2. TablesOK'
    BY <1>1, <2>1 DEF TablesOK
  <2>3. ScansOK' /\ HistoryOK'
    BY <1>1, <1>2, TypeParts, HandingTypes DEF ScansOK, HistoryOK
  <2>4. job' \in [Request -> Jobs]
    BY <1>1 DEF Jobs
  <2>5. QED
    BY <1>2, <1>7, <2>2, <2>3, <2>4, TypeParts
<1>12. QED
  BY <1>6, <1>8, <1>10, <1>11 DEF IInv
-----------------------------------------------------------------------------
(* Imports. *)

\* An import that begins: what it will report is counted from nothing.
LEMMA ImportBegins ==
    ASSUME IInv, NEW t \in Request, NEW entries \in SUBSET Entry,
           job[t].pc \in {"idle", "spawn"},
           Become(t, [pc |-> "start", entries |-> entries, done |-> 0]),
           UNCHANGED <<table, cache, managed, lastScan, progress, met, cut, stranded, rescanned, crowded>>
    PROVE  /\ WriterInv' /\ StaleIsExplained' /\ ProgressInv'
           /\ job' \in [Request -> Jobs]
           /\ job'[t].pc = "start" /\ \A u \in Request : u # t => job'[u] = job[u]
<1> DEFINE next == [pc |-> "start", entries |-> entries, done |-> 0]
<1>1. next \in Jobs /\ next.pc = "start" /\ next.done = 0 /\ Become(t, next)
  BY DEF Imports, Jobs
<1> HIDE DEF next
<1>2. /\ job'[t] = next /\ \A u \in Request : u # t => job'[u] = job[u]
      /\ job' \in [Request -> Jobs]
  BY <1>1, BecomeFacts DEF IInv
<1>3. WriterInv' /\ StaleIsExplained'
  BY <1>1, WriterKept
<1>4. \A u \in Request : /\ IsImport(u) => IsImport(u)'
                         /\ Active(u)' <=> Active(u)
                         /\ Active(u) => job'[u] = job[u]
                         /\ job'[u].pc = "report" => job'[u].import
                         /\ job'[u].pc = "start" => job'[u].done = 0
  BY <1>1, <1>2 DEF IInv, ProgressInv, IsImport, Active
<1>5. ProgressInv'
  BY <1>4, ProgressKept DEF Left
<1>6. QED
  BY <1>1, <1>2, <1>3, <1>5

LEMMA ImportStep ==
    ASSUME IInv, NEW t \in Request, NEW entries \in SUBSET Entry, Import(t, entries)
    PROVE  IInv'
<1> DEFINE next == [pc |-> "start", entries |-> entries, done |-> 0]
<1>1. /\ job[t] = Idle /\ Spend /\ Become(t, next) /\ taken' = taken \cup entries
      /\ UNCHANGED <<table, cache, managed, scans, lastScan, progress, met, cut, stranded, rescanned, crowded>>
  BY DEF Import, Begin, data, barcodes
<1>2. TypeOK /\ ops' \in 0..MaxOps /\ ops' = ops - 1 /\ ops \in Nat /\ ops # 0
  BY <1>1, SpendFacts DEF IInv
<1>3. job[t].pc = "idle"
  BY <1>1, <1>2, JobTypes
<1>4. /\ WriterInv' /\ StaleIsExplained' /\ ProgressInv' /\ job' \in [Request -> Jobs]
      /\ job'[t].pc = "start" /\ \A u \in Request : u # t => job'[u] = job[u]
  BY <1>1, <1>3, ImportBegins
<1> HIDE DEF next
<1>5. lastScan' + ops' <= MaxOps
  BY <1>1, <1>2, Domains DEF IInv, TypeOK, ScanInv
<1>6. \A u \in Request : job'[u].pc = "mark" => job'[u] = job[u]
  BY <1>4
<1>7. ScanInv'
  BY <1>1, <1>5, <1>6 DEF IInv, ScanInv
<1>8. ImportedOrLost'
  BY <1>1, <1>3, <1>4, AccountedKept, StillAccounted
<1>9. TypeOK'
  BY <1>1, <1>2, <1>4, TypeParts DEF TablesOK, ScansOK, HistoryOK
<1>10. QED
  BY <1>4, <1>7, <1>8, <1>9 DEF IInv

LEMMA ImportFacts ==
    ASSUME IInv, NEW t \in Request, job[t].pc \in {"start", "next"}
    PROVE  /\ job[t] \in Imports /\ job[t].entries \subseteq Entry /\ job[t].done \in Nat
           /\ IsFiniteSet(job[t].entries) /\ Cardinality(job[t].entries) \in Nat
           /\ IsImport(t)
<1>1. job[t] \in Imports
  BY JobTypes DEF IInv
<1>2. job[t].entries \subseteq Entry /\ job[t].done \in Nat
  BY <1>1 DEF Imports
<1>3. IsFiniteSet(job[t].entries)
  BY <1>2, EntriesFinite
<1>4. QED
  BY <1>1, <1>2, <1>3, FS_CardinalityType DEF IsImport

\* The record is made anew.  If no other import is under way, it is this one's.
LEMMA StartStep ==
    ASSUME IInv, NEW t \in Request, Start(t)
    PROVE  IInv'
<1> DEFINE next == [job[t] EXCEPT !.pc = "next"]
<1>1. /\ job[t].pc = "start" /\ progress' = Started(t) /\ Become(t, next)
      /\ crowded' = (crowded \/ \E u \in Request \ {t} : IsImport(u))
      /\ UNCHANGED <<table, cache, managed, scans, lastScan, ops, met, cut, taken, stranded, rescanned>>
  BY DEF Start, data, barcodes
<1>2. /\ job[t] \in Imports /\ job[t].entries \subseteq Entry /\ job[t].done \in Nat
      /\ IsFiniteSet(job[t].entries) /\ Cardinality(job[t].entries) \in Nat /\ IsImport(t)
  BY <1>1, ImportFacts
<1>3. /\ next \in Imports /\ next \in Jobs /\ next.pc = "next"
      /\ next.entries = job[t].entries /\ next.done = job[t].done
  BY <1>2 DEF Imports, Jobs
<1> HIDE DEF next
<1>4. TypeOK /\ ops \in Nat /\ crowded' \in BOOLEAN
  BY <1>1 DEF IInv, TypeOK
<1>5. /\ job'[t] = next /\ \A u \in Request : u # t => job'[u] = job[u]
      /\ job' \in [Request -> Jobs]
  BY <1>1, <1>3, <1>4, BecomeFacts
<1>6. WriterInv' /\ StaleIsExplained'
  BY <1>1, <1>3, WriterKept
<1>7. ScanInv' /\ ImportedOrLost'
  BY <1>1, <1>3, <1>4, ScanKept
<1>8. /\ progress' \in Records /\ progress'.running = TRUE
      /\ progress'.total = Cardinality(job[t].entries) /\ progress'.done = 0 /\ progress'.results = 0
  BY <1>1, <1>2 DEF Started, Records
<1>9. job[t].done = 0
  BY <1>1 DEF IInv, ProgressInv
<1>10. ProgressInv'
  <2>1. IsImport(t)' /\ Active(t)' /\ Left(t)' = Cardinality(job[t].entries)
    BY <1>2, <1>3, <1>5 DEF IsImport, Active, Left
  <2>2. \A u \in Request : job'[u].pc = "report" => job'[u].import
    BY <1>3, <1>5 DEF IInv, ProgressInv
  <2>3. ~crowded' => \A u \in Request : u # t => ~Active(u)'
    BY <1>1, <1>5 DEF Active, IsImport
  <2>4. progress'.total = job'[t].done + Left(t)'
    BY <1>2, <1>3, <1>5, <1>8, <1>9, <2>1
  <2>5. \A u \in Request : job'[u].pc = "start" => job'[u].done = 0
    BY <1>3, <1>5 DEF IInv, ProgressInv
  <2>6. QED
    BY <1>3, <1>5, <1>8, <1>9, <2>1, <2>2, <2>3, <2>4, <2>5 DEF ProgressInv
<1>11. TypeOK'
  BY <1>1, <1>4, <1>5, <1>8, TypeParts DEF TablesOK, ScansOK, HistoryOK
<1>12. QED
  BY <1>6, <1>7, <1>10, <1>11 DEF IInv

\* An entry is taken from the list: it is not reported yet.
LEMMA NextEntryStep ==
    ASSUME IInv, NEW t \in Request, NextEntry(t)
    PROVE  IInv'
<1>1. PICK e \in job[t].entries :
         LET next == Write(e.sim, "phone", e.phone, TRUE, job[t].entries \ {e}, job[t].done)
         IN \/ table[e.sim] # Null /\ Become(t, next) /\ Meet(t, e.sim)
            \/ table[e.sim] = Null /\ Become(t, [next EXCEPT !.pc = "report"]) /\ UNCHANGED met
  BY DEF NextEntry
<1>2. /\ job[t].pc = "next"
      /\ UNCHANGED <<table, cache, managed, scans, lastScan, progress, ops, cut, taken, stranded, rescanned, crowded>>
  BY DEF NextEntry, data, barcodes
<1> DEFINE left == job[t].entries \ {e}
           next == Write(e.sim, "phone", e.phone, TRUE, left, job[t].done)
           failed == [next EXCEPT !.pc = "report"]
<1>3. /\ job[t] \in Imports /\ job[t].entries \subseteq Entry /\ job[t].done \in Nat
      /\ IsFiniteSet(job[t].entries) /\ Cardinality(job[t].entries) \in Nat /\ IsImport(t)
  BY <1>2, ImportFacts
<1>4. /\ e \in Entry /\ e.sim \in Sim /\ e.phone \in Phone /\ left \in SUBSET Entry
      /\ "phone" \in Field /\ e.phone \in Values("phone")
  BY <1>1, <1>3 DEF Entry, Field, Values
<1>5. IsFiniteSet(left) /\ Cardinality(left) \in Nat /\ Cardinality(job[t].entries) = Cardinality(left) + 1
  <2>1. IsFiniteSet(left) /\ Cardinality(left) = Cardinality(job[t].entries) - 1
    BY <1>3, FS_RemoveElement
  <2>2. Cardinality(left) \in Nat
    BY <2>1, FS_CardinalityType
  <2>3. QED
    BY <1>3, <2>1, <2>2
<1>6. TypeOK /\ ops \in Nat
  BY DEF IInv, TypeOK
<1>7. /\ next \in Writers /\ next.pc = "update" /\ next.import = TRUE
      /\ next.entries = left /\ next.done = job[t].done
  BY <1>3, <1>4, <1>6 DEF Write, Writers, TypeOK
<1>8. /\ failed \in Writers /\ failed.pc = "report" /\ failed.import = TRUE
      /\ failed.entries = left /\ failed.done = job[t].done
  BY <1>3, <1>4, <1>6 DEF Write, Writers, TypeOK
<1>9. WriterInv' /\ StaleIsExplained' /\ met' \subseteq Sim
  <2>1. CASE table[e.sim] # Null /\ Become(t, next) /\ Meet(t, e.sim)
    BY <1>2, <1>3, <1>4, <2>1, WriterBegins
  <2>2. CASE table[e.sim] = Null /\ Become(t, failed) /\ UNCHANGED met
    <3>1. met' \subseteq Sim
      BY <1>6, <2>2 DEF TypeOK
    <3>2. failed.pc \notin {"update", "cache"} /\ job[t].pc \notin {"update", "cache"}
      BY <1>2, <1>8
    <3> HIDE DEF failed
    <3>3. QED
      BY <1>2, <2>2, <3>1, <3>2, WriterKept
  <2>3. QED
    BY <1>1, <2>1, <2>2
<1>10. PICK j \in {next, failed} : Become(t, j)
  BY <1>1
<1> HIDE DEF next, failed, left
<1>11. /\ j \in Jobs /\ j.pc \in {"update", "report"} /\ j.import = TRUE
       /\ j.entries = left /\ j.done = job[t].done
  BY <1>7, <1>8, <1>10 DEF Jobs
<1>12. ScanInv' /\ ImportedOrLost'
  BY <1>2, <1>6, <1>10, <1>11, ScanKept
<1>13. /\ job'[t] = j /\ \A u \in Request : u # t => job'[u] = job[u]
       /\ job' \in [Request -> Jobs]
  BY <1>6, <1>10, <1>11, BecomeFacts
<1>14. \A u \in Request : /\ IsImport(u) => IsImport(u)'
                          /\ Active(u)' <=> Active(u)
                          /\ job'[u].pc = "report" => job'[u].import
                          /\ job'[u].pc = "start" => job'[u].done = 0
  BY <1>2, <1>11, <1>13 DEF IInv, ProgressInv, IsImport, Active
<1>15. \A u \in Request : Active(u) => job'[u].done = job[u].done /\ Left(u)' = Left(u)
  <2>1. Left(t) = Cardinality(left) + 1 + 0 /\ Left(t)' = Cardinality(left) + 1
    BY <1>2, <1>5, <1>11, <1>13 DEF Left
  <2>2. QED
    BY <1>5, <1>11, <1>13, <2>1 DEF Left
<1>16. ProgressInv'
  BY <1>2, <1>14, <1>15, ProgressKept
<1>17. TypeOK'
  BY <1>2, <1>6, <1>9, <1>13, TypeParts DEF TablesOK, ScansOK, HistoryOK
<1>18. QED
  BY <1>9, <1>12, <1>16, <1>17 DEF IInv

LEMMA ReportStep ==
    ASSUME IInv, NEW t \in Request, Report(t)
    PROVE  IInv'
<1> DEFINE next == [pc |-> "next", entries |-> job[t].entries, done |-> job[t].done + 1]
<1>1. /\ job[t].pc = "report" /\ Become(t, next)
      /\ progress' = [progress EXCEPT !.done = job[t].done + 1, !.results = @ + 1]
      /\ UNCHANGED <<table, cache, managed, scans, lastScan, ops, met, cut, taken, stranded, rescanned, crowded>>
  BY DEF Report, data, barcodes, history
<1>2. job[t] \in Writers /\ job[t].import = TRUE
  BY <1>1, JobTypes, WriterTypes DEF IInv, ProgressInv
<1>3. job[t].entries \subseteq Entry /\ job[t].done \in Nat
  BY <1>2, WriterTypes
<1>4. IsFiniteSet(job[t].entries) /\ Cardinality(job[t].entries) \in Nat
  BY <1>3, EntriesFinite, FS_CardinalityType
<1>5. /\ next \in Jobs /\ next.pc = "next" /\ next.entries = job[t].entries
      /\ next.done = job[t].done + 1
  BY <1>3 DEF Imports, Jobs
<1> HIDE DEF next
<1>6. TypeOK /\ ops \in Nat /\ progress \in Records
  BY DEF IInv, TypeOK, Records
<1>7. /\ progress' \in Records /\ progress'.running = progress.running
      /\ progress'.total = progress.total /\ progress'.done = job[t].done + 1
      /\ progress'.results = progress.results + 1
  <2>1. progress.results \in Nat /\ progress.total \in Nat /\ progress.running \in BOOLEAN
    BY <1>6 DEF Records
  <2>2. /\ progress' = [progress EXCEPT !.done = job[t].done + 1, !.results = progress.results + 1]
        /\ job[t].done + 1 \in Nat /\ progress.results + 1 \in Nat
    BY <1>1, <1>3, <2>1
  <2>3. QED
    BY <1>6, <2>2 DEF Records
<1>8. /\ job'[t] = next /\ \A u \in Request : u # t => job'[u] = job[u]
      /\ job' \in [Request -> Jobs]
  BY <1>1, <1>5, <1>6, BecomeFacts
<1>9. WriterInv' /\ StaleIsExplained'
  BY <1>1, <1>5, WriterKept
<1>10. ScanInv' /\ ImportedOrLost'
  BY <1>1, <1>5, <1>6, ScanKept
<1>11. ProgressInv'
  <2>1. /\ Active(t) /\ Left(t) = Cardinality(job[t].entries) + 1
        /\ IsImport(t)' /\ Active(t)' /\ Left(t)' = Cardinality(job[t].entries)
    BY <1>1, <1>2, <1>4, <1>5, <1>8 DEF IsImport, Active, Left
  <2>2. \A u \in Request : u # t => /\ Active(u)' <=> Active(u)
                                    /\ job'[u] = job[u]
    BY <1>8 DEF Active, IsImport
  <2>3. \A u \in Request : /\ job'[u].pc = "report" => job'[u].import
                           /\ job'[u].pc = "start" => job'[u].done = 0
    BY <1>5, <1>8 DEF IInv, ProgressInv
  <2>4. ASSUME ~crowded'
        PROVE  /\ \A u \in Request : u # t => ~Active(u)'
               /\ progress'.running /\ progress'.results = job[t].done + 1
               /\ progress'.total = job'[t].done + Left(t)'
    <3>1. ~crowded
      BY <1>1, <2>4
    <3>2. /\ \A u \in Request \ {t} : ~Active(u)
          /\ progress.running /\ progress.results = job[t].done
          /\ progress.total = job[t].done + Left(t)
      BY <2>1, <3>1 DEF IInv, ProgressInv
    <3>3. job'[t].done + Left(t)' = job[t].done + Left(t)
      BY <1>3, <1>4, <1>5, <1>8, <2>1
    <3>4. QED
      BY <1>7, <2>2, <3>2, <3>3
  <2>5. QED
    BY <1>5, <1>7, <1>8, <2>1, <2>3, <2>4 DEF ProgressInv
<1>12. TypeOK'
  BY <1>1, <1>6, <1>7, <1>8, TypeParts DEF TablesOK, ScansOK, HistoryOK
<1>13. QED
  BY <1>9, <1>10, <1>11, <1>12 DEF IInv

LEMMA FinishStep ==
    ASSUME IInv, NEW t \in Request, Finish(t)
    PROVE  IInv'
<1>1. /\ job[t].pc = "next" /\ job[t].entries = {} /\ Become(t, Idle)
      /\ progress' = [progress EXCEPT !.running = FALSE]
      /\ UNCHANGED <<table, cache, managed, scans, lastScan, ops, met, cut, taken, stranded, rescanned, crowded>>
  BY DEF Finish, data, barcodes, history
<1>2. Idle \in Jobs /\ Idle.pc = "idle"
  BY DEF Jobs, Idle
<1>3. TypeOK /\ ops \in Nat /\ progress \in Records
  BY DEF IInv, TypeOK, Records
<1>4. /\ progress' \in Records /\ progress'.running = FALSE
      /\ progress'.total = progress.total /\ progress'.done = progress.done
      /\ progress'.results = progress.results
  BY <1>1, <1>3 DEF Records
<1>5. /\ job'[t] = Idle /\ \A u \in Request : u # t => job'[u] = job[u]
      /\ job' \in [Request -> Jobs]
  BY <1>1, <1>2, <1>3, BecomeFacts
<1>6. WriterInv' /\ StaleIsExplained'
  BY <1>1, <1>2, WriterKept
<1>7. ScanInv' /\ ImportedOrLost'
  BY <1>1, <1>2, <1>3, ScanKept
<1>8. ProgressInv'
  <2>1. /\ IsImport(t) /\ Active(t) /\ Left(t) = 0 /\ job[t].done \in Nat
    <3>1. Cardinality({}) = 0
      BY FS_EmptySet
    <3>2. QED
      BY <1>1, <3>1, ImportFacts DEF IsImport, Active, Left
  <2>2. ~Active(t)' /\ \A u \in Request : u # t => (Active(u)' <=> Active(u))
    BY <1>2, <1>5 DEF Active, IsImport
  <2>3. \A u \in Request : /\ job'[u].pc = "report" => job'[u].import
                           /\ job'[u].pc = "start" => job'[u].done = 0
    BY <1>2, <1>5 DEF IInv, ProgressInv
  <2>4. ~crowded => /\ \A u \in Request : ~Active(u)'
                    /\ progress.results = progress.done /\ progress.done <= progress.total
    BY <2>1, <2>2 DEF IInv, ProgressInv
  <2>5. QED
    BY <1>1, <1>4, <2>3, <2>4 DEF ProgressInv
<1>9. TypeOK'
  BY <1>1, <1>3, <1>4, <1>5, TypeParts DEF TablesOK, ScansOK, HistoryOK
<1>10. QED
  BY <1>6, <1>7, <1>8, <1>9 DEF IInv
-----------------------------------------------------------------------------
(* Imports of scanned barcodes. *)

\* A job that becomes a marker, or was one, does not touch the tables or the
\* progress record.
LEMMA MarkerKept ==
    ASSUME IInv, NEW t \in Request, NEW next \in Jobs, Become(t, next),
           next.pc \in {"idle", "mark", "spawn"}, job[t].pc \in {"idle", "mark", "spawn"},
           UNCHANGED <<table, cache, managed, progress, met, cut, crowded>>
    PROVE  /\ WriterInv' /\ StaleIsExplained' /\ ProgressInv'
           /\ job' \in [Request -> Jobs]
           /\ job'[t] = next /\ \A u \in Request : u # t => job'[u] = job[u]
<1>1. /\ job'[t] = next /\ \A u \in Request : u # t => job'[u] = job[u]
      /\ job' \in [Request -> Jobs]
  BY BecomeFacts DEF IInv
<1>2. WriterInv' /\ StaleIsExplained'
  BY WriterKept
<1>3. \A u \in Request : /\ IsImport(u) => IsImport(u)'
                         /\ Active(u)' <=> Active(u)
                         /\ Active(u) => job'[u] = job[u]
                         /\ job'[u].pc = "report" => job'[u].import
                         /\ job'[u].pc = "start" => job'[u].done = 0
  BY <1>1 DEF IInv, ProgressInv, IsImport, Active
<1>4. ProgressInv'
  BY <1>3, ProgressKept DEF Left
<1>5. QED
  BY <1>1, <1>2, <1>4

\* What is listed is what the scans say at that moment.
LEMMA ListScansStep ==
    ASSUME IInv, NEW t \in Request, ListScans(t)
    PROVE  IInv'
<1> DEFINE rows == {[sim |-> s, phone |-> scans[s].phone, id |-> scans[s].id] : s \in Unimported}
           next == [pc |-> "mark", list |-> rows]
<1>1. /\ job[t] = Idle /\ Spend /\ Become(t, next)
      /\ UNCHANGED <<table, cache, managed, scans, lastScan, progress, met, cut, taken, stranded, rescanned, crowded>>
  BY DEF ListScans, Begin, data, barcodes, history
<1>2. TypeOK /\ ops' \in 0..MaxOps /\ ops' = ops - 1 /\ ops \in Nat /\ ops # 0
  BY <1>1, SpendFacts DEF IInv
<1>3. job[t].pc = "idle"
  BY <1>1, <1>2, JobTypes
<1>4. ASSUME NEW row \in rows
      PROVE  /\ row \in [sim : Sim, phone : Phone, id : Nat] /\ row.id <= lastScan
             /\ scans[row.sim] # Null /\ row.phone = scans[row.sim].phone
             /\ row.id = scans[row.sim].id
  <2>1. PICK s \in Unimported : row = [sim |-> s, phone |-> scans[s].phone, id |-> scans[s].id]
    OBVIOUS
  <2>2. s \in Sim /\ scans[s] # Null
    BY DEF Unimported
  <2>3. scans[s].phone \in Phone /\ scans[s].id \in Nat /\ scans[s].id <= lastScan
    BY <2>2, ScanTypes
  <2>4. QED
    BY <2>1, <2>2, <2>3
<1>5. next \in Jobs /\ next.pc = "mark" /\ next.list = rows
  <2>1. rows \in SUBSET [sim : Sim, phone : Phone, id : Nat]
    BY <1>4
  <2> HIDE DEF rows
  <2>2. QED
    BY <2>1 DEF Markers, Jobs
<1> HIDE DEF next
<1>6. /\ WriterInv' /\ StaleIsExplained' /\ ProgressInv' /\ job' \in [Request -> Jobs]
      /\ job'[t] = next /\ \A u \in Request : u # t => job'[u] = job[u]
  BY <1>1, <1>3, <1>5, MarkerKept
<1>7. lastScan' + ops' <= MaxOps
  BY <1>1, <1>2, Domains DEF IInv, TypeOK, ScanInv
<1>8. \A row \in rows, s \in Sim : scans[s] # Null /\ scans[s].id = row.id =>
         row.sim = s /\ row.phone = scans[s].phone
  <2>1. \A row \in rows : row.sim \in Sim
    BY <1>4
  <2>2. QED
    BY <1>4, <2>1 DEF IInv, ScanInv
<1> HIDE DEF rows
<1>9. ScanInv'
  <2>1. \A u \in Request : job'[u].pc = "mark" => \A row \in job'[u].list :
          /\ row.id <= lastScan
          /\ \A s \in Sim : scans[s] # Null /\ scans[s].id = row.id =>
                row.sim = s /\ (row.phone = scans[s].phone \/ s \in rescanned)
    BY <1>4, <1>5, <1>6, <1>8 DEF IInv, ScanInv
  <2>2. QED
    BY <1>1, <1>7, <2>1 DEF IInv, ScanInv
<1>10. ImportedOrLost'
  BY <1>1, <1>3, <1>6, AccountedKept, StillAccounted
<1>11. TypeOK'
  BY <1>1, <1>2, <1>6, TypeParts DEF TablesOK, ScansOK, HistoryOK
<1>12. QED
  BY <1>6, <1>9, <1>10, <1>11 DEF IInv

\* The scans that are marked are those that were listed; each is about to be
\* handed over with the number it was listed with.
LEMMA MarkImportedStep ==
    ASSUME IInv, NEW t \in Request, MarkImported(t)
    PROVE  IInv'
<1> DEFINE next == [job[t] EXCEPT !.pc = "spawn"]
           marked == [s \in Sim |-> IF scans[s] # Null /\ Marks(t, s)
                                    THEN [scans[s] EXCEPT !.imported = TRUE] ELSE scans[s]]
<1>1. /\ job[t].pc = "mark"
      /\ UNCHANGED <<table, cache, managed, lastScan, progress, ops, met, cut, taken, stranded, rescanned, crowded>>
      /\ \/ scans' = marked /\ Become(t, next)
         \/ Become(t, Idle) /\ UNCHANGED scans
  BY DEF MarkImported, data, history
<1>2. TypeOK /\ ops \in Nat
  BY DEF IInv, TypeOK
<1>3. CASE Become(t, Idle) /\ UNCHANGED scans
  <2>1. Idle \in Jobs /\ Idle.pc = "idle"
    BY DEF Jobs, Idle
  <2>2. /\ WriterInv' /\ StaleIsExplained' /\ ProgressInv' /\ job' \in [Request -> Jobs]
    BY <1>1, <1>3, <2>1, MarkerKept
  <2>3. ScanInv' /\ ImportedOrLost'
    BY <1>1, <1>2, <1>3, <2>1, ScanKept
  <2>4. TypeOK'
    BY <1>1, <1>2, <1>3, <2>2, TypeParts DEF TablesOK, ScansOK, HistoryOK
  <2>5. QED
    BY <2>2, <2>3, <2>4 DEF IInv
<1>4. CASE scans' = marked /\ Become(t, next)
  <2>1. /\ job[t] \in Markers /\ next \in Markers
        /\ next.pc = "spawn" /\ next.list = job[t].list
    BY <1>1, <1>2, JobTypes DEF Markers
  <2> HIDE DEF next
  <2>2. /\ WriterInv' /\ StaleIsExplained' /\ ProgressInv' /\ job' \in [Request -> Jobs]
        /\ job'[t] = next /\ \A u \in Request : u # t => job'[u] = job[u]
    BY <1>1, <1>4, <2>1, MarkerKept DEF Jobs
  <2>3. Accounted \subseteq Accounted'
    BY <1>1, <2>2, AccountedKept
  <2>4. \A row \in job[t].list : [sim |-> row.sim, phone |-> row.phone] \in Accounted'
    <3>1. Entries(job[t].list) \subseteq Handing'
      <4>1. job'[t].pc = "spawn" /\ Entries(job'[t].list) = Entries(job[t].list)
        BY <2>1, <2>2
      <4>2. QED
        BY <4>1 DEF Handing, Entries
    <3>2. QED
      BY <3>1 DEF Accounted, Entries
  <2>5. /\ scans \in [Sim -> ScanRow \cup {Null}] /\ lastScan + ops <= MaxOps
        /\ lastScan \in Nat
    BY <1>2, Domains DEF IInv, ScanInv, TypeOK
  <2>6. ASSUME NEW s \in Sim
        PROVE  /\ scans[s] = Null => scans'[s] = Null
               /\ scans[s] # Null => /\ scans'[s] \in ScanRow /\ scans'[s].phone = scans[s].phone
                                     /\ scans'[s].id = scans[s].id
                                     /\ ~Marks(t, s) => scans'[s] = scans[s]
    <3>1. CASE scans[s] # Null /\ Marks(t, s)
      <4>1. scans'[s] = [scans[s] EXCEPT !.imported = TRUE] /\ scans[s] \in ScanRow
        BY <1>4, <2>5, <3>1
      <4>2. QED
        BY <3>1, <4>1 DEF ScanRow
    <3>2. CASE ~(scans[s] # Null /\ Marks(t, s))
      BY <1>4, <2>5, <3>2
    <3>3. QED
      BY <3>1, <3>2
  <2>7. \A s \in Sim : scans'[s] # Null => scans[s] # Null
    BY <2>6
  <2>8. scans' \in [Sim -> ScanRow \cup {Null}]
    <3>1. \A s \in Sim : scans'[s] \in ScanRow \cup {Null}
      BY <2>6
    <3>2. QED
      BY <1>4, <3>1
  <2>9. ScanInv'
    <3>1. \A u \in Request : job'[u].pc = "mark" => job'[u] = job[u]
      BY <2>1, <2>2
    <3>2. QED
      BY <1>1, <2>5, <2>6, <2>7, <2>8, <3>1 DEF IInv, ScanInv
  <2>10. ImportedOrLost'
    <3>1. ASSUME NEW s \in Sim, scans'[s] # Null, scans'[s].imported
          PROVE  [sim |-> s, phone |-> scans'[s].phone] \in Accounted' \/ s \in rescanned'
      <4>1. scans[s] # Null /\ scans'[s].phone = scans[s].phone
        BY <2>6, <2>7, <3>1
      <4>2. CASE Marks(t, s)
        <5>1. PICK row \in job[t].list : row.id = scans[s].id
          BY <4>2 DEF Marks
        <5>2. row.sim = s /\ (row.phone = scans[s].phone \/ s \in rescanned)
          BY <1>1, <4>1, <5>1 DEF IInv, ScanInv
        <5>3. [sim |-> row.sim, phone |-> row.phone] \in Accounted'
          BY <2>4
        <5>4. QED
          BY <1>1, <4>1, <5>2, <5>3
      <4>3. CASE ~Marks(t, s)
        <5>1. scans'[s] = scans[s]
          BY <2>6, <4>1, <4>3
        <5>2. [sim |-> s, phone |-> scans[s].phone] \in Accounted \/ s \in rescanned
          BY <3>1, <4>1, <5>1 DEF IInv, ImportedOrLost, Accounted
        <5>3. QED
          BY <1>1, <2>3, <4>1, <5>2
      <4>4. QED
        BY <4>2, <4>3
    <3>2. QED
      BY <3>1 DEF ImportedOrLost, Accounted
  <2>11. ScansOK'
    <3>1. ASSUME NEW s \in Sim, scans'[s] # Null
          PROVE  scans'[s] \in [phone : Phone, imported : BOOLEAN, id : 1..lastScan']
      <4>1. scans'[s] \in ScanRow /\ scans'[s].id = scans[s].id /\ scans[s].id \in 1..lastScan
        BY <2>6, <2>7, <3>1, ScanTypes
      <4>2. QED
        BY <1>1, <4>1 DEF ScanRow
    <3>2. QED
      BY <1>1, <1>2, <3>1, TypeParts DEF ScansOK
  <2>12. TypeOK'
    BY <1>1, <1>2, <2>2, <2>11, TypeParts DEF TablesOK, HistoryOK
  <2>13. QED
    BY <2>2, <2>9, <2>10, <2>12 DEF IInv
<1>5. QED
  BY <1>1, <1>3, <1>4

\* The import is handed what was marked.
LEMMA SpawnStep ==
    ASSUME IInv, NEW t \in Request, Spawn(t)
    PROVE  IInv'
<1> DEFINE entries == Entries(job[t].list)
<1>1. /\ job[t].pc = "spawn" /\ taken' = taken \cup entries
      /\ Become(t, [pc |-> "start", entries |-> entries, done |-> 0])
      /\ UNCHANGED <<table, cache, managed, scans, lastScan, progress, ops, met, cut, stranded, rescanned, crowded>>
  BY DEF Spawn, data, barcodes
<1>2. TypeOK /\ ops \in Nat /\ entries \in SUBSET Entry
  BY <1>1, HandingTypes DEF IInv, TypeOK
<1> HIDE DEF entries
<1>3. /\ WriterInv' /\ StaleIsExplained' /\ ProgressInv' /\ job' \in [Request -> Jobs]
      /\ job'[t].pc = "start" /\ \A u \in Request : u # t => job'[u] = job[u]
  BY <1>1, <1>2, ImportBegins
<1>4. ScanInv'
  <2>1. \A u \in Request : job'[u].pc = "mark" => job'[u] = job[u]
    BY <1>3
  <2>2. QED
    BY <1>1, <2>1 DEF IInv, ScanInv
<1>5. ImportedOrLost'
  <2>1. Entries(job[t].list) \subseteq taken'
    BY <1>1 DEF entries
  <2>2. QED
    BY <1>1, <1>3, <2>1, AccountedKept, StillAccounted
<1>6. TypeOK'
  BY <1>1, <1>2, <1>3, TypeParts DEF TablesOK, ScansOK, HistoryOK
<1>7. QED
  BY <1>3, <1>4, <1>5, <1>6 DEF IInv

\* A request that is dropped leaves a row that the cache does not have, or
\* marks that no import will see; both are remembered.
LEMMA DropStep ==
    ASSUME IInv, NEW t \in Request, Drop(t)
    PROVE  IInv'
<1>1. /\ job[t].pc \in {"mark", "spawn", "update", "cache"} /\ Become(t, Idle)
      /\ job[t].pc \in {"update", "cache"} => ~IsImport(t)
      /\ cut' = IF job[t].pc = "cache" /\ job[t].field # "code" THEN cut \cup {job[t].sim} ELSE cut
      /\ stranded' = IF job[t].pc = "spawn" THEN stranded \cup Entries(job[t].list) ELSE stranded
      /\ UNCHANGED <<table, cache, managed, scans, lastScan, progress, ops, met, taken, rescanned, crowded>>
  BY DEF Drop, data, barcodes
<1>2. TypeOK /\ ops \in Nat /\ table \in [Sim -> Card \cup {Null}]
  BY DEF IInv, TypeOK
<1>3. Idle \in Jobs /\ Idle.pc = "idle"
  BY DEF Jobs, Idle
<1>4. /\ job'[t] = Idle /\ \A u \in Request : u # t => job'[u] = job[u]
      /\ job' \in [Request -> Jobs]
  BY <1>1, <1>2, <1>3, BecomeFacts
<1>5. WriterInv' /\ StaleIsExplained' /\ cut' \subseteq Sim
  <2>1. CASE job[t].pc \in {"mark", "spawn"}
    BY <1>1, <1>2, <1>3, <2>1, WriterKept DEF TypeOK
  <2>2. CASE job[t].pc \in {"update", "cache"}
    <3>1. job[t].sim \in Sim /\ table[job[t].sim] \in Card /\ table[job[t].sim] # Null
      BY <2>2, WriterFacts, NoCard
    <3>2. job[t].sim \notin met \cup cut' /\ cache[job[t].sim] # Null =>
             Agree(cache[job[t].sim], table[job[t].sim])
      BY <1>1, <2>2, <3>1 DEF IInv, WriterInv, IsWriter
    <3>3. cut \subseteq cut' \cup {job[t].sim} /\ cut' \subseteq Sim
      BY <1>1, <1>2, <3>1 DEF TypeOK
    <3>4. QED
      BY <1>1, <1>2, <1>3, <2>2, <3>1, <3>2, <3>3, WriterMovesOn
  <2>3. QED
    BY <1>1, <2>1, <2>2
<1>6. ScanInv'
  <2>1. \A u \in Request : job'[u].pc = "mark" => job'[u] = job[u]
    BY <1>3, <1>4
  <2>2. QED
    BY <1>1, <2>1 DEF IInv, ScanInv
<1>7. ImportedOrLost'
  BY <1>1, <1>4, AccountedKept, StillAccounted
<1>8. ProgressInv'
  <2>1. ~IsImport(t)
    BY <1>1 DEF IsImport
  <2>2. \A u \in Request : /\ IsImport(u)' <=> IsImport(u)
                           /\ Active(u)' <=> Active(u)
                           /\ Active(u) => job'[u] = job[u]
                           /\ job'[u].pc = "report" => job'[u].import
                           /\ job'[u].pc = "start" => job'[u].done = 0
    BY <1>3, <1>4, <2>1 DEF IInv, ProgressInv, IsImport, Active
  <2>3. QED
    BY <1>1, <2>2, ProgressKept DEF Left
<1>9. TypeOK'
  <2>1. HistoryOK'
    BY <1>1, <1>2, <1>5, TypeParts, HandingTypes DEF HistoryOK
  <2>2. QED
    BY <1>1, <1>2, <1>4, <2>1, TypeParts DEF TablesOK, ScansOK
<1>10. QED
  BY <1>5, <1>6, <1>7, <1>8, <1>9 DEF IInv

-----------------------------------------------------------------------------
(* The theorems. *)

LEMMA InitIInv ==
    ASSUME Init
    PROVE  IInv
<1>1. /\ table \in [Sim -> Card \cup {Null}] /\ cache = table /\ managed \subseteq Sim
  BY DEF Init, Blank, Card
<1>2. /\ \A s \in Sim : scans[s] = Null
      /\ scans \in [Sim -> ScanRow \cup {Null}]
      /\ \A t \in Request : job[t] = Idle /\ job[t].pc = "idle"
      /\ job \in [Request -> Jobs]
      /\ lastScan = 0 /\ ops = MaxOps /\ met = {} /\ cut = {}
      /\ taken = {} /\ stranded = {} /\ rescanned = {} /\ crowded = FALSE
      /\ MaxOps \in Nat
  BY Domains DEF Init, Idle, Jobs
<1>3. /\ progress \in Records /\ progress.running = FALSE
      /\ progress.results = progress.done /\ progress.done <= progress.total
  BY DEF Init, Fresh, Records
<1>4. TypeOK
  <2>1. TablesOK
    BY <1>1 DEF TablesOK
  <2>2. ScansOK
    BY <1>2 DEF ScansOK
  <2>3. HistoryOK
    BY <1>2 DEF HistoryOK
  <2>4. ops \in 0..MaxOps
    BY <1>2
  <2>5. QED
    BY <1>2, <1>3, <2>1, <2>2, <2>3, <2>4, TypeParts
<1>5. \A t \in Request : ~IsWriter(t) /\ ~IsImport(t) /\ ~Active(t)
  BY <1>2 DEF IsWriter, IsImport, Active
<1>6. WriterInv /\ StaleIsExplained
  BY <1>1, <1>5 DEF WriterInv, StaleIsExplained
<1>7. ScanInv /\ ImportedOrLost
  BY <1>2 DEF ScanInv, ImportedOrLost
<1>8. ProgressInv
  BY <1>2, <1>3, <1>5 DEF ProgressInv
<1>9. QED
  BY <1>4, <1>6, <1>7, <1>8 DEF IInv

LEMMA Stutter == ASSUME IInv, UNCHANGED vars PROVE IInv'
<1>1. UNCHANGED <<table, cache, managed, scans, lastScan, progress, job, ops, met, cut, taken, stranded, rescanned, crowded>>
  BY DEF vars, data, barcodes, history
<1>2. TypeOK' /\ StaleIsExplained' /\ ImportedOrLost'
  BY <1>1 DEF IInv, TypeOK, StaleIsExplained, Settled, IsWriter, ImportedOrLost, Handing, Entries
<1>3. WriterInv' /\ ScanInv' /\ ProgressInv'
  BY <1>1 DEF IInv, WriterInv, IsWriter, ScanInv, ProgressInv, Active, IsImport, Left
<1>4. QED
  BY <1>2, <1>3 DEF IInv

LEMMA EveryStep == ASSUME IInv, [Next]_vars PROVE IInv'
<1>1. ASSUME NEW t \in Request, Operation(t) PROVE IInv'
  BY <1>1, SetFieldStep, ImportStep, ListScansStep DEF Operation
<1>2. ASSUME NEW t \in Request, Step(t) PROVE IInv'
  BY <1>2, UpdateStep, UpdateFailsStep, CacheStep, StartStep, NextEntryStep, ReportStep,
     FinishStep, MarkImportedStep, SpawnStep, DropStep DEF Step
<1>3. ASSUME NEW s \in Sim, NEW p \in Phone, Scan(s, p) \/ Rescan(s, p) PROVE IInv'
  BY <1>3, ScanStep, RescanStep
<1>4. ASSUME NEW s \in Sim, ClearCode(s) PROVE IInv'
  BY <1>4, ClearCodeStep
<1>5. CASE ClearScans \/ Restart
  BY <1>5, ClearScansStep, RestartStep
<1>6. CASE UNCHANGED vars
  BY <1>6, Stutter
<1>7. QED
  BY <1>1, <1>2, <1>3, <1>4, <1>5, <1>6 DEF Next

\* The inductive invariant holds of every behaviour.
THEOREM Invariance == Spec => []IInv
<1>1. Init => IInv
  BY InitIInv
<1>2. IInv /\ [Next]_vars => IInv'
  BY EveryStep
<1>3. QED
  BY <1>1, <1>2, PTL DEF Spec

\* Every variable keeps its type: above all, no writer gets hold of a row that
\* is not there, and ids of scans stay within those given out.
THEOREM TypeCorrect == Spec => []TypeOK
<1>1. IInv => TypeOK
  BY DEF IInv
<1>2. QED
  BY <1>1, Invariance, PTL

\* However alias, number and country code are written, the number and alias in
\* the cache differ from those in the table only while a writer of the SIM is
\* under way, when its last writer was dropped before it reached the cache, or
\* after two of them overlapped (read the row, update a column, put the row held
\* into the cache).
THEOREM CacheFollowsTable == Spec => []StaleIsExplained
<1>1. IInv => StaleIsExplained
  BY DEF IInv
<1>2. QED
  BY <1>1, Invariance, PTL

\* A scan marked imported is handed to an import with the number it shows,
\* unless its request died between the mark and the import (dropped, or with the
\* process) or the card was scanned anew between the listing and the marking.
THEOREM MarkedScansAreTaken == Spec => []ImportedOrLost
<1>1. IInv => ImportedOrLost
  BY DEF IInv
<1>2. QED
  BY <1>1, Invariance, PTL

\* The progress record never says "running" when no import is left; and while
\* imports have not overlapped it counts the results of the one there is.
THEOREM ProgressIsTold == Spec => []ProgressIsTrue
<1>1. ASSUME IInv PROVE ProgressIsTrue
  <2>1. \A t \in Request : Active(t) => job[t].done \in Nat /\ Left(t) \in Nat
    <3>1. ASSUME NEW t \in Request, Active(t)
          PROVE  job[t].done \in Nat /\ job[t].entries \subseteq Entry
      <4>1. job[t] \in Writers \/ job[t] \in Imports
        BY <1>1, <3>1, JobTypes DEF IInv, Active, IsImport
      <4>2. QED
        BY <4>1 DEF Writers, Imports
    <3>2. QED
      BY <3>1, EntriesFinite, FS_CardinalityType DEF Left
  <2>2. progress.running => \E t \in Request : IsImport(t)
    BY <1>1 DEF IInv, ProgressInv
  <2>3. ASSUME ~crowded, NEW t \in Request, Active(t)
        PROVE  /\ progress.results = progress.done /\ progress.done <= progress.total
               /\ progress.running
    BY <1>1, <2>1, <2>3 DEF IInv, ProgressInv
  <2>4. ASSUME ~crowded, \A t \in Request : ~Active(t)
        PROVE  /\ progress.results = progress.done /\ progress.done <= progress.total
               /\ ~progress.running
    BY <1>1, <2>4 DEF IInv, ProgressInv
  <2>5. progress.running \in BOOLEAN
    BY <1>1 DEF IInv, TypeOK
  <2>6. QED
    BY <2>2, <2>3, <2>4, <2>5 DEF ProgressIsTrue, Active
<1>2. QED
  BY <1>1, Invariance, PTL
===============================================================================
