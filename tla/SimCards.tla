------------------------------- MODULE SimCards -------------------------------
(***************************************************************************)
(* What the gateway knows of its SIM cards: the table sim_cards, the copy  *)
(* of it that the modem manager keeps in memory (sim_cards_cache, by which *)
(* a SIM is found by its phone number), and the requests that write both:  *)
(* alias, phone number, country code and the import of phone numbers, with *)
(* the scanned barcodes it may come from and the progress record it keeps  *)
(* (api/mod.rs, api/phone.rs, api/firefox.rs, db.rs, manager.rs).           *)
(*                                                                         *)
(* Every writer reads the whole row, updates one column, and then puts the *)
(* row it holds into the cache: three steps that others may come between.  *)
(***************************************************************************)
EXTENDS Naturals, FiniteSets, TLC

CONSTANTS Sim,        \* SIMs, by ICCID
          Phone,      \* phone numbers
          Alias,      \* aliases
          Code,       \* country codes
          Null,       \* an empty column, no row, no cache entry, no scan
          Request,    \* concurrent requests and the imports they spawn
          MaxOps      \* bound: operations begun, rescans and restarts

Card == [phone : Phone \cup {Null}, alias : Alias \cup {Null}, code : Code \cup {Null}]
Field == {"phone", "alias", "code"}
Values(f) == CASE f = "phone" -> Phone \cup {Null}
               [] f = "alias" -> Alias \cup {Null}
               [] f = "code"  -> Code
Entry == [sim : Sim, phone : Phone]

ASSUME Domains ==
    /\ Null \notin Sim \cup Phone \cup Alias \cup Code \cup Card
    /\ IsFiniteSet(Sim) /\ IsFiniteSet(Phone)
    /\ MaxOps \in Nat

VARIABLES
    table,     \* the rows of sim_cards
    cache,     \* sim_cards_cache
    managed,   \* SIMs that have a transport
    scans,     \* the rows of barcode_scans: number, imported, id
    lastScan,  \* ids of scans given out so far
    progress,  \* the record behind /phone-numbers/status
    job,       \* what each request or import is doing
    ops,
    met,       \* history: SIMs of which two writers were ever under way at once
    cut,       \* history: SIMs whose last writer was dropped before it reached the cache
    taken,     \* history: entries ever handed to an import
    stranded,  \* history: entries marked by a request that died before it handed them over
    rescanned, \* history: SIMs scanned anew between the listing and the marking of their scan
    crowded    \* history: two imports have been under way at once

data == <<table, cache, managed>>
barcodes == <<scans, lastScan>>
history == <<met, cut, taken, stranded, rescanned, crowded>>
vars == <<data, barcodes, progress, job, ops, history>>

-----------------------------------------------------------------------------
Idle == [pc |-> "idle"]
\* One row being written: entries are what an import has left to do after it.
Writers == [pc : {"update", "cache", "report"}, import : BOOLEAN,
            sim : Sim, field : Field, value : Phone \cup Alias \cup Code \cup {Null},
            card : Card \cup {Null}, entries : SUBSET Entry, done : Nat]
Imports == [pc : {"start", "next"}, entries : SUBSET Entry, done : Nat]
\* Scans that were listed, to be marked, and that are marked, to be handed over.
Markers == [pc : {"mark", "spawn"}, list : SUBSET [sim : Sim, phone : Phone, id : Nat]]

Fresh == [running |-> FALSE, total |-> 0, done |-> 0, results |-> 0]

\* The type invariant.
TypeOK ==
    /\ table \in [Sim -> Card \cup {Null}]
    /\ cache \in [Sim -> Card \cup {Null}]
    /\ managed \subseteq Sim
    /\ \A s \in Sim : scans[s] # Null =>
          scans[s] \in [phone : Phone, imported : BOOLEAN, id : 1..lastScan]
    /\ lastScan \in 0..MaxOps
    /\ progress \in [running : BOOLEAN, total : Nat, done : Nat, results : Nat]
    /\ job \in [Request -> {Idle} \cup Writers \cup Imports \cup Markers]
    /\ ops \in 0..MaxOps
    /\ met \subseteq Sim /\ cut \subseteq Sim /\ rescanned \subseteq Sim
    /\ taken \subseteq Entry /\ stranded \subseteq Entry
    /\ crowded \in BOOLEAN

Blank == [phone |-> Null, alias |-> Null, code |-> Null]

\* find_or_create_with_phone: a new row gets the number the reader database
\* has; the number of a row that exists is left alone.
Ensured(s, p) == IF table[s] = Null THEN [Blank EXCEPT !.phone = p] ELSE table[s]

\* One SIM was there at the start; nobody has given it a number yet.
Init ==
    /\ \E s \in Sim :
          /\ managed = {s}
          /\ table = [u \in Sim |-> IF u = s THEN Blank ELSE Null]
    /\ cache = table
    /\ scans = [s \in Sim |-> Null]
    /\ lastScan = 0
    /\ progress = Fresh
    /\ job = [t \in Request |-> Idle]
    /\ ops = MaxOps
    /\ met = {} /\ cut = {}
    /\ taken = {} /\ stranded = {} /\ rescanned = {}
    /\ crowded = FALSE

-----------------------------------------------------------------------------
Become(t, next) == job' = [job EXCEPT ![t] = next]

Spend ==
    /\ ops > 0
    /\ ops' = ops - 1

Begin(t, next) == job[t] = Idle /\ Spend /\ Become(t, next)

IsWriter(t) == job[t].pc \in {"update", "cache"}
IsImport(t) ==
    \/ job[t].pc \in {"start", "next"}
    \/ job[t].pc \in {"update", "cache", "report"} /\ job[t].import

Write(s, f, v, import, entries, done) ==
    [pc |-> "update", import |-> import, sim |-> s, field |-> f, value |-> v,
     card |-> table[s], entries |-> entries, done |-> done]

Meet(t, s) ==
    met' = IF \E u \in Request \ {t} : IsWriter(u) /\ job[u].sim = s
           THEN met \cup {s} ELSE met

\* update_sim_alias, update_sim_phone, and the country code of firefox_upload,
\* up to the SELECT.  Without a row the request ends.
SetField(t, s, f, v) ==
    /\ table[s] # Null
    /\ Begin(t, Write(s, f, v, FALSE, {}, 0))
    /\ Meet(t, s)
    /\ UNCHANGED <<data, barcodes, progress, cut, taken, stranded, rescanned, crowded>>

With(card, f, v) == [card EXCEPT ![f] = v]
Held(t) == With(job[t].card, job[t].field, job[t].value)

\* The UPDATE of the one column.
Update(t) ==
    /\ job[t].pc = "update"
    /\ LET s == job[t].sim IN
       /\ table' = [table EXCEPT ![s] = With(@, job[t].field, job[t].value)]
       /\ Become(t, [job[t] EXCEPT !.pc = "cache", !.card = Held(t)])
    /\ UNCHANGED <<cache, managed, barcodes, progress, ops, met, cut, taken, stranded, rescanned, crowded>>

\* The UPDATE fails.  Only firefox_upload goes on to the cache.
UpdateFails(t) ==
    /\ job[t].pc = "update"
    /\ Become(t, IF job[t].field = "code" THEN [job[t] EXCEPT !.pc = "cache", !.card = Held(t)]
                 ELSE IF job[t].import THEN [job[t] EXCEPT !.pc = "report"]
                 ELSE Idle)
    /\ UNCHANGED <<data, barcodes, progress, ops, history>>

AfterCache(t) == IF job[t].import THEN [job[t] EXCEPT !.pc = "report"] ELSE Idle

\* Mutant of Cache: an import leaves the cache to the next start.
BugSkipCache(t) ==
    /\ job[t].pc = "cache"
    /\ cache' = IF job[t].import THEN cache ELSE [cache EXCEPT ![job[t].sim] = job[t].card]
    /\ cut' = cut \ {job[t].sim}
    /\ Become(t, AfterCache(t))
    /\ UNCHANGED <<table, managed, barcodes, progress, ops, met, taken, stranded, rescanned, crowded>>

\* update_sim_cache: the whole row as this writer knows it.
Cache(t) ==
    /\ job[t].pc = "cache"
    /\ cache' = [cache EXCEPT ![job[t].sim] = job[t].card]
    /\ cut' = cut \ {job[t].sim}
    /\ Become(t, AfterCache(t))
    /\ UNCHANGED <<table, managed, barcodes, progress, ops, met, taken, stranded, rescanned, crowded>>

\* The deletions of uploaded batches clear the country code in the table only.
ClearCode(s) ==
    /\ Spend
    /\ table[s] # Null
    /\ table' = [table EXCEPT ![s].code = Null]
    /\ UNCHANGED <<cache, managed, barcodes, progress, job, history>>

-----------------------------------------------------------------------------
(* Imports of phone numbers.                                               *)

\* POST /phone-numbers/import spawns the import and answers.
Import(t, entries) ==
    /\ Begin(t, [pc |-> "start", entries |-> entries, done |-> 0])
    /\ taken' = taken \cup entries
    /\ UNCHANGED <<data, barcodes, progress, met, cut, stranded, rescanned, crowded>>

Started(t) == [running |-> TRUE, total |-> Cardinality(job[t].entries), done |-> 0, results |-> 0]

\* The import takes over the progress record, whoever else is using it.
Start(t) ==
    /\ job[t].pc = "start"
    /\ progress' = Started(t)
    /\ crowded' = (crowded \/ \E u \in Request \ {t} : IsImport(u))
    /\ Become(t, [job[t] EXCEPT !.pc = "next"])
    /\ UNCHANGED <<data, barcodes, ops, met, cut, taken, stranded, rescanned>>

\* The SELECT for the next entry; without a row the entry has failed.
NextEntry(t) ==
    /\ job[t].pc = "next"
    /\ \E e \in job[t].entries :
          LET next == Write(e.sim, "phone", e.phone, TRUE, job[t].entries \ {e}, job[t].done)
          IN \/ /\ table[e.sim] # Null
                /\ Become(t, next)
                /\ Meet(t, e.sim)
             \/ /\ table[e.sim] = Null
                /\ Become(t, [next EXCEPT !.pc = "report"])
                /\ UNCHANGED met
    /\ UNCHANGED <<data, barcodes, progress, ops, cut, taken, stranded, rescanned, crowded>>

\* Success or failure of one entry.
Report(t) ==
    /\ job[t].pc = "report"
    /\ progress' = [progress EXCEPT !.done = job[t].done + 1, !.results = @ + 1]
    /\ Become(t, [pc |-> "next", entries |-> job[t].entries, done |-> job[t].done + 1])
    /\ UNCHANGED <<data, barcodes, ops, history>>

\* Mutant of Finish: an import that finds others' results leaves the record alone.
BugLeaveRunning(t) ==
    /\ job[t].pc = "next" /\ job[t].entries = {}
    /\ progress' = [progress EXCEPT !.running = (progress.done # job[t].done)]
    /\ Become(t, Idle)
    /\ UNCHANGED <<data, barcodes, ops, history>>

Finish(t) ==
    /\ job[t].pc = "next" /\ job[t].entries = {}
    /\ progress' = [progress EXCEPT !.running = FALSE]
    /\ Become(t, Idle)
    /\ UNCHANGED <<data, barcodes, ops, history>>

-----------------------------------------------------------------------------
(* Barcodes.                                                               *)

Listed(s) == \E t \in Request :
    job[t].pc = "mark" /\ \E row \in job[t].list : row.sim = s /\ row.id = scans[s].id

\* POST /phone-numbers/barcode-scan: a scan of the same card keeps its id.
Scan(s, p) ==
    /\ Spend
    /\ IF scans[s] = Null
       THEN /\ lastScan' = lastScan + 1
            /\ scans' = [scans EXCEPT ![s] = [phone |-> p, imported |-> FALSE, id |-> lastScan + 1]]
            /\ UNCHANGED rescanned
       ELSE /\ scans' = [scans EXCEPT ![s] = [@ EXCEPT !.phone = p, !.imported = FALSE]]
            /\ rescanned' = IF Listed(s) THEN rescanned \cup {s} ELSE rescanned
            /\ UNCHANGED lastScan
    /\ UNCHANGED <<data, progress, job, met, cut, taken, stranded, crowded>>

\* DELETE /phone-numbers/barcode-scans.
ClearScans ==
    /\ Spend
    /\ \E s \in Sim : scans[s] # Null
    /\ scans' = [s \in Sim |-> Null]
    /\ rescanned' = {}
    /\ UNCHANGED <<data, lastScan, progress, job, met, cut, taken, stranded, crowded>>

Unimported == {s \in Sim : scans[s] # Null /\ ~scans[s].imported}

\* POST /phone-numbers/barcode-scans/import: list what is not imported...
ListScans(t) ==
    /\ Unimported # {}
    /\ Begin(t, [pc |-> "mark",
                 list |-> {[sim |-> s, phone |-> scans[s].phone, id |-> scans[s].id] : s \in Unimported}])
    /\ UNCHANGED <<data, barcodes, progress, history>>

\* Mutant of Marks: everything that is not imported at this moment.
BugMarkAll(t, s) == TRUE

\* mark_imported goes by id.
Marks(t, s) == \E row \in job[t].list : row.id = scans[s].id

\* ... mark it, in one statement, or fail...
MarkImported(t) ==
    /\ job[t].pc = "mark"
    /\ \/ /\ scans' = [s \in Sim |-> IF scans[s] # Null /\ Marks(t, s)
                                     THEN [scans[s] EXCEPT !.imported = TRUE] ELSE scans[s]]
          /\ Become(t, [job[t] EXCEPT !.pc = "spawn"])
       \/ /\ Become(t, Idle)
          /\ UNCHANGED scans
    /\ UNCHANGED <<data, lastScan, progress, ops, history>>

Entries(list) == {[sim |-> row.sim, phone |-> row.phone] : row \in list}

\* ... and only then spawn the import.
Spawn(t) ==
    /\ job[t].pc = "spawn"
    /\ LET entries == Entries(job[t].list) IN
       /\ taken' = taken \cup entries
       /\ Become(t, [pc |-> "start", entries |-> entries, done |-> 0])
    /\ UNCHANGED <<data, barcodes, progress, ops, met, cut, stranded, rescanned, crowded>>

-----------------------------------------------------------------------------
(* The client of a request goes away, and the request is dropped at an      *)
(* await: before its statement, or when that has been carried out and the   *)
(* rest has not.  Imports are tasks of their own.                           *)
Drop(t) ==
    /\ job[t].pc \in {"mark", "spawn"} \cup (IF IsImport(t) THEN {} ELSE {"update", "cache"})
    /\ Become(t, Idle)
    /\ cut' = IF job[t].pc = "cache" /\ job[t].field # "code" THEN cut \cup {job[t].sim} ELSE cut
    /\ stranded' = IF job[t].pc = "spawn" THEN stranded \cup Entries(job[t].list) ELSE stranded
    /\ UNCHANGED <<data, barcodes, progress, ops, met, taken, rescanned, crowded>>

-----------------------------------------------------------------------------
\* rescan_sims: a new SIM gets a transport and a row, but no cache entry; one
\* that is gone keeps both.  A failure to make the row is only logged.
Rescan(s, p) ==
    /\ Spend
    /\ IF s \in managed
       THEN /\ managed' = managed \ {s}
            /\ UNCHANGED table
       ELSE /\ managed' = managed \cup {s}
            /\ table' \in {table, [table EXCEPT ![s] = Ensured(s, p)]}
    /\ UNCHANGED <<cache, barcodes, progress, job, met, cut, taken, stranded, rescanned, crowded>>

\* Entries that are marked and not yet handed to an import.
Handing == UNION {Entries(job[t].list) : t \in {u \in Request : job[u].pc = "spawn"}}

\* The process dies.  At the next start the cache is loaded anew: the rows of
\* the SIMs that are managed then.
Restart ==
    /\ Spend
    /\ cache' = [s \in Sim |-> IF s \in managed THEN table[s] ELSE Null]
    /\ job' = [t \in Request |-> Idle]
    /\ progress' = Fresh
    /\ met' = {}
    /\ cut' = {}
    /\ stranded' = stranded \cup Handing
    /\ crowded' = FALSE
    /\ UNCHANGED <<table, managed, barcodes, taken, rescanned>>

Operation(t) ==
    \/ \E s \in Sim, f \in Field : \E v \in Values(f) : SetField(t, s, f, v)
    \/ \E entries \in SUBSET Entry :
          /\ entries # {} /\ \A d, e \in entries : d.sim = e.sim => d = e
          /\ Import(t, entries)
    \/ ListScans(t)

Step(t) ==
    \/ Update(t) \/ UpdateFails(t) \/ Cache(t)
    \/ Start(t) \/ NextEntry(t) \/ Report(t) \/ Finish(t)
    \/ MarkImported(t) \/ Spawn(t) \/ Drop(t)

Next ==
    \/ \E t \in Request : Operation(t) \/ Step(t)
    \/ \E s \in Sim, p \in Phone : Scan(s, p) \/ Rescan(s, p)
    \/ \E s \in Sim : ClearCode(s)
    \/ ClearScans \/ Restart

Spec == Init /\ [][Next]_vars

\* Requests, SIMs and numbers are interchangeable.
Symmetry == Permutations(Request) \cup Permutations(Sim) \cup Permutations(Phone)

-----------------------------------------------------------------------------
Settled(s) == s \notin met \cup cut /\ \A t \in Request : IsWriter(t) => job[t].sim # s

\* A cached number or alias differs from the stored one only in three cases: a
\* writer of this SIM is under way; the last one was dropped between its UPDATE
\* and the cache; two of them have overlapped, so that the row which the one puts
\* into the cache was read before the other's update.
StaleIsExplained ==
    \A s \in Sim : Settled(s) /\ cache[s] # Null =>
        cache[s].phone = table[s].phone /\ cache[s].alias = table[s].alias

\* A scan that is marked imported was handed to an import, or is about to be,
\* with the number it shows.  It is lost in two cases only: the request that
\* marked it died before it could hand it over, and the card was scanned again
\* between listing and marking, so that the new number is marked instead.
ImportedOrLost ==
    \A s \in Sim : scans[s] # Null /\ scans[s].imported =>
        \/ [sim |-> s, phone |-> scans[s].phone] \in taken \cup Handing \cup stranded
        \/ s \in rescanned

\* The progress record tells the truth about an import that is alone: it runs
\* as long as the import does, and its results are this import's.  However
\* imports overlap, it does not say "running" when none is left, as
\* /phone-numbers/status would then do for ever.
ProgressIsTrue ==
    /\ progress.running => \E t \in Request : IsImport(t)
    /\ ~crowded =>
          /\ progress.results = progress.done /\ progress.done <= progress.total
          /\ progress.running = \E t \in Request : IsImport(t) /\ job[t].pc # "start"
=============================================================================
