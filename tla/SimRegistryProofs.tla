--------------------------- MODULE SimRegistryProofs ---------------------------
(***************************************************************************)
(* Theorems about SimRegistry for any cards, any finite set of readers and *)
(* any number of moves, faults and restarts.                               *)
(***************************************************************************)
EXTENDS SimRegistry, FiniteSetTheorems, NaturalsInduction, WellFoundedInduction, TLAPS

(* The inductive invariant, in parts. *)

\* Where the watch loop stands, and what it has read on the way there.
WalkInv ==
    /\ watch.pc \in {"fail", "remove", "vacate", "mark", "save"} => watch.at \in Reader
    /\ watch.pc \in {"vacate", "mark", "save"} =>
          watch.card \in Sim /\ <<watch.at, watch.card>> \in visited
    /\ watch.pc \in {"vacate", "mark"} =>
          watch.from \in Reader \ {watch.at} /\ last[watch.from] = watch.card
    /\ watch.pc = "mark" => row[watch.from] = NoSim
    /\ watch.pc = "fail" => row[watch.at] = NoSim
    /\ watch.pc = "save" => \A r \in Reader : last[r] # watch.card

\* The memory of the watch loop has a card in one reader only, and contradicts
\* no row.  Before a restart of the loop it has all of them.
MemoryInv ==
    /\ \A q, r \in Reader : last[q] # NoSim /\ last[q] = last[r] => q = r
    /\ \A r \in Reader : row[r] # NoSim => last[r] \in {NoSim, row[r]}
    /\ \A r \in Reader : ~restarted /\ row[r] # NoSim => last[r] = row[r]

\* Where the pass stands, and what the two maps may differ in meanwhile.
PassInv ==
    /\ scan.pc = "unmap" => scan.sim \in Sim /\ transport[scan.sim] = None
    /\ scan.pc = "map" => /\ scan.sim \in Sim /\ scan.reader \in Reader
                          /\ transport[scan.sim] = scan.reader
    /\ \A s \in Sim : \/ instance[s] = transport[s]
                      \/ scan.pc \in {"unmap", "map"} /\ scan.sim = s

\* Before the watch loop is restarted, the snapshots of a pass suffice to tell
\* that a transport is not in use: what was not managed when the pass began is
\* not, and no card is in two of the rows.
SnapshotInv == ~restarted =>
    /\ scan.pc \in {"check", "remove", "unmap"} =>
          \A s \in Sim \ scan.existing : transport[s] = None
    /\ scan.pc \in {"add", "map"} =>
          \A p \in scan.rows : p[2] \notin scan.existing => transport[p[2]] = None
    /\ \A p, q \in scan.rows : p[2] = q[2] => p = q

\* Every place where a card is taken for one of a reader.
VisitInv ==
    /\ \A r \in Reader : slot[r] # NoSim => <<r, slot[r]>> \in visited
    /\ \A r \in Reader : row[r] # NoSim => <<r, row[r]>> \in visited
    /\ scan.rows \subseteq visited
    /\ scan.pc = "map" => <<scan.reader, scan.sim>> \in visited
    /\ ReachedWhereInserted

IInv == /\ TypeOK /\ WalkInv /\ MemoryInv /\ RememberedIsListed
        /\ PassInv /\ SnapshotInv /\ VisitInv

-----------------------------------------------------------------------------
(* Least and greatest readers. *)

LEMMA MinFact ==
    ASSUME NEW S, S \subseteq Nat, S # {}
    PROVE  Min(S) \in S
<1>1. PICK m \in S : \A y \in S : ~(<<y, m>> \in OpToRel(<, Nat))
  BY NatLessThanWellFounded, WFMin
<1>2. ASSUME NEW y \in S PROVE m =< y
  <2>1. y \in Nat /\ m \in Nat
    OBVIOUS
  <2>2. ~(y < m)
    BY <1>1, <2>1 DEF OpToRel
  <2>3. QED
    BY <2>1, <2>2
<1>3. QED
  BY <1>2 DEF Min

\* A smallest set of naturals without a greatest element would have one, since
\* the set without one of its elements has.
LEMMA MaxFact ==
    ASSUME NEW S, S \subseteq Nat, S # {}, IsFiniteSet(S)
    PROVE  Max(S) \in S
<1> DEFINE Top(T) == \E m \in T : \A y \in T : m >= y
           Topless == {T \in SUBSET S : T # {} /\ ~Top(T)}
           Sizes == {Cardinality(T) : T \in Topless}
<1>1. \A T \in SUBSET S : IsFiniteSet(T) /\ Cardinality(T) \in Nat
  BY FS_Subset, FS_CardinalityType
<1>2. Topless = {}
  <2> SUFFICES ASSUME Topless # {} PROVE FALSE
    OBVIOUS
  <2>1. Sizes \subseteq Nat /\ Sizes # {}
    BY <1>1
  <2>2. PICK n \in Sizes : \A k \in Sizes : ~(<<k, n>> \in OpToRel(<, Nat))
    BY <2>1, NatLessThanWellFounded, WFMin
  <2>3. PICK T \in Topless : n = Cardinality(T)
    OBVIOUS
  <2>4. PICK x \in T : TRUE
    OBVIOUS
  <2> DEFINE U == T \ {x}
  <2>5. U \in SUBSET S /\ x \in Nat
    OBVIOUS
  <2>6. Cardinality(U) = Cardinality(T) - 1
    BY <1>1, <2>3, <2>4, FS_RemoveElement
  <2>7. U \notin Topless
    <3> SUFFICES ASSUME U \in Topless PROVE FALSE
      OBVIOUS
    <3> DEFINE k == Cardinality(U)
    <3>1. k \in Sizes
      OBVIOUS
    <3>2. k \in Nat /\ n \in Nat /\ k = n - 1
      BY <1>1, <2>3, <2>5, <2>6
    <3> HIDE DEF k, Sizes
    <3>3. ~(k < n)
      BY <2>2, <3>1, <3>2 DEF OpToRel
    <3>4. QED
      BY <3>2, <3>3
  <2>8. CASE U = {}
    <3>1. T = {x}
      BY <2>4, <2>8
    <3>2. Top(T)
      BY <2>5, <3>1
    <3>3. QED
      BY <3>2
  <2>9. CASE Top(U)
    <3>1. PICK m \in U : \A y \in U : m >= y
      BY <2>9
    <3>2. m \in Nat /\ \A y \in T : y = x \/ y \in U
      BY <2>5
    <3>3. \A y \in T : y \in Nat
      OBVIOUS
    <3>4. CASE x >= m
      <4>1. \A y \in T : x >= y
        BY <2>5, <3>1, <3>2, <3>3, <3>4
      <4>2. QED
        BY <2>4, <4>1
    <3>5. CASE ~(x >= m)
      <4>1. \A y \in T : m >= y
        BY <2>5, <3>1, <3>2, <3>3, <3>5
      <4>2. QED
        BY <3>1, <4>1
    <3>6. QED
      BY <3>4, <3>5
  <2>10. QED
    BY <2>5, <2>7, <2>8, <2>9
<1>3. PICK m \in S : \A y \in S : m >= y
  BY <1>2
<1>4. QED
  BY <1>3 DEF Max

-----------------------------------------------------------------------------
(* Types, and the initial state. *)

\* The types of what the hands and the watch loop change, and of the rest.
InventoryOK ==
    /\ slot \in [Reader -> Card] /\ usable \in [Reader -> BOOLEAN]
    /\ row \in [Reader -> Card] /\ last \in [Reader -> Card]
    /\ failures \in [Reader -> 0..RemoveThreshold]
    /\ present \subseteq Reader /\ watch \in Watch
    /\ moves \in Nat /\ faults \in Nat
    /\ visited \subseteq Reader \X Sim /\ restarted \in BOOLEAN
GatewayOK ==
    /\ transport \in [Sim -> Place] /\ instance \in [Sim -> Place] /\ scan \in Scan

LEMMA Types == TypeOK <=> InventoryOK /\ GatewayOK
BY DEF TypeOK, InventoryOK, GatewayOK

\* Readers are numbered from one.
LEMMA ReaderFacts == Reader \subseteq Nat /\ None \in Nat /\ None \notin Reader
BY ReaderAssumption DEF None

\* What discovery finds is a reader with a row of the SIM, or nothing.
LEMMA DiscoverFact ==
    ASSUME NEW s \in Sim
    PROVE  \/ Discover[s] = None
           \/ Discover[s] \in Reader /\ row[Discover[s]] = s
<1> DEFINE Found == {r \in Reader : row[r] = s /\ usable[r]} \cup {None}
<1>1. Found \subseteq Reader \cup {None} /\ Found # {} /\ Found \subseteq Nat
  BY ReaderFacts
<1>2. IsFiniteSet(Reader \cup {None})
  BY ReaderAssumption, FS_AddElement
<1>3. IsFiniteSet(Found)
  BY <1>1, <1>2, FS_Subset
<1>4. Max(Found) \in Found
  BY <1>1, <1>3, MaxFact
<1>5. Discover[s] = Max(Found)
  BY DEF Discover
<1>6. QED
  BY <1>4, <1>5

LEMMA DiscoverType == Discover \in [Sim -> Place]
<1>1. \A s \in Sim : Discover[s] \in Place
  BY DiscoverFact DEF Place
<1>2. QED
  BY <1>1 DEF Discover

\* A row that is found is one of its reader and its card.
LEMMA RowFact ==
    ASSUME NEW r, NEW t
    PROVE  <<r, t>> \in Rows <=> r \in Reader /\ t = row[r] /\ row[r] # NoSim
BY DEF Rows

LEMMA RowsFact == row \in [Reader -> Card] => Rows \subseteq Reader \X Sim
BY DEF Rows, Card

LEMMA InitIInv == Init => IInv
<1> SUFFICES ASSUME Init PROVE IInv
  OBVIOUS
<1>1. row \in [Reader -> Card] /\ visited = Rows /\ row = slot /\ last = slot
  BY DEF Init
<1>2. TypeOK
  <2>1. watch \in Watch /\ scan \in Scan
    BY DEF Init, Watch, Asleep, Scan, Idle, Place, Card
  <2>2. failures \in [Reader -> 0..RemoveThreshold]
    BY ThresholdAssumption DEF Init
  <2>3. QED
    BY <1>1, <2>1, <2>2, DiscoverType, RowsFact DEF Init, TypeOK
<1>3. WalkInv /\ PassInv /\ SnapshotInv
  BY DEF Init, WalkInv, PassInv, SnapshotInv, Asleep, Idle
<1>4. MemoryInv /\ RememberedIsListed
  <2>1. ASSUME NEW q \in Reader, NEW r \in Reader, slot[q] # NoSim, slot[q] = slot[r], q # r
        PROVE  FALSE
    <3> DEFINE Here == {p \in Reader : slot[p] = slot[q]}
    <3>1. slot[q] \in Sim
      BY <1>1, <2>1 DEF Card
    <3>2. Cardinality(Here) <= 1 /\ IsFiniteSet(Here)
      BY <3>1, ReaderAssumption, FS_Subset DEF Init
    <3>3. {q, r} \subseteq Here
      BY <2>1
    <3>4. Cardinality({q, r}) <= Cardinality(Here) /\ IsFiniteSet({q, r})
      BY <3>2, <3>3, FS_Subset
    <3>5. Cardinality({q, r}) = 2
      <4>1. IsFiniteSet({q}) /\ Cardinality({q}) = 1
        BY FS_Singleton
      <4>2. Cardinality({q} \cup {r}) = 2
        BY <2>1, <4>1, FS_AddElement
      <4>3. QED
        BY <4>2
    <3>6. Cardinality(Here) \in Nat
      BY <3>2, FS_CardinalityType
    <3>7. QED
      BY <3>2, <3>4, <3>5, <3>6
  <2>2. QED
    BY <1>1, <2>1 DEF MemoryInv, RememberedIsListed
<1>5. VisitInv
  <2>1. \A r \in Reader : row[r] # NoSim => <<r, row[r]>> \in visited
    BY <1>1, RowFact
  <2>2. \A s \in Sim : Discover[s] # None => <<Discover[s], s>> \in visited
    BY <1>1, DiscoverFact, RowFact, SimAssumption
  <2>3. ReachedWhereInserted
    BY <2>2 DEF Init, ReachedWhereInserted
  <2>4. QED
    BY <1>1, <2>1, <2>3 DEF Init, VisitInv, Idle
<1>6. QED
  BY <1>2, <1>3, <1>4, <1>5 DEF IInv

-----------------------------------------------------------------------------
(* The hands. *)

\* Cards are put in and out without anybody knowing: the rest looks at slots
\* by reading them only.
LEMMA HandStep ==
    ASSUME IInv,
           \/ \E s \in Sim, r \in Reader : Insert(s, r)
           \/ \E r \in Reader : Eject(r)
    PROVE  IInv'
<1> USE DEF IInv
<1>1. /\ slot' \in [Reader -> Card] /\ moves' \in Nat
      /\ visited' \subseteq Reader \X Sim /\ visited \subseteq visited'
      /\ \A r \in Reader : slot'[r] # NoSim => slot'[r] = slot[r] \/ <<r, slot'[r]>> \in visited'
      /\ UNCHANGED <<usable, row, watchVars, gatewayVars, faults>>
  BY DEF TypeOK, Insert, Eject, Card
<1>2. UNCHANGED <<row, last, watch, transport, instance, scan, restarted>>
  BY <1>1 DEF watchVars, gatewayVars
<1>3. TypeOK'
  BY <1>1, <1>2 DEF TypeOK, watchVars, gatewayVars
<1>4. WalkInv' /\ MemoryInv' /\ RememberedIsListed' /\ PassInv' /\ SnapshotInv'
  BY <1>1, <1>2 DEF WalkInv, MemoryInv, RememberedIsListed, PassInv, SnapshotInv
<1>5. VisitInv'
  BY <1>1, <1>2 DEF VisitInv, ReachedWhereInserted
<1>6. QED
  BY <1>3, <1>4, <1>5

-----------------------------------------------------------------------------
(* The watch loop. *)

\* The step leaves the slots and the gateway alone, and no restart is undone.
Apart == /\ UNCHANGED <<slotVars, gatewayVars>>
         /\ faults' \in Nat /\ restarted' \in BOOLEAN /\ (restarted => restarted')
         /\ present' \subseteq Reader

\* What is left to show of a step of the watch loop.
LEMMA WatchFrame ==
    ASSUME IInv, Apart,
           usable' \in [Reader -> BOOLEAN], row' \in [Reader -> Card],
           last' \in [Reader -> Card], failures' \in [Reader -> 0..RemoveThreshold],
           watch' \in Watch,
           WalkInv', MemoryInv', RememberedIsListed',
           \A r \in Reader : row'[r] # NoSim => <<r, row'[r]>> \in visited
    PROVE  IInv'
<1> USE DEF IInv
<1>1. UNCHANGED <<slot, moves, visited, transport, instance, scan>>
  BY DEF Apart, slotVars, gatewayVars
<1>2. TypeOK'
  BY <1>1 DEF TypeOK, Apart
<1>3. PassInv' /\ SnapshotInv'
  BY <1>1 DEF PassInv, SnapshotInv, Apart
<1>4. VisitInv'
  BY <1>1 DEF VisitInv, ReachedWhereInserted
<1>5. QED
  BY <1>2, <1>3, <1>4

LEMMA FaultFact ==
    /\ TypeOK /\ (Fault \/ UNCHANGED faults) => faults' \in Nat
    /\ TypeOK /\ UNCHANGED restarted => restarted' \in BOOLEAN /\ (restarted => restarted')
    /\ TypeOK /\ UNCHANGED present => present' \subseteq Reader
BY DEF TypeOK, Fault

LEMMA NextReaderFact ==
    ASSUME TypeOK
    PROVE  /\ NextReader \in Watch /\ NextReader.pc = "walk"
           /\ watch \in Watch /\ Asleep \in Watch
BY DEF TypeOK, Watch, NextReader, Asleep, Place, Card

LEMMA ExceptFact ==
    ASSUME NEW S, NEW T, NEW f \in [S -> T], NEW x, NEW y \in T
    PROVE  [f EXCEPT ![x] = y] \in [S -> T]
OBVIOUS

LEMMA ZeroFact == 0 \in 0..RemoveThreshold
BY ThresholdAssumption

LEMMA WatchPollInv == IInv /\ WatchPoll => IInv'
<1> SUFFICES ASSUME IInv, WatchPoll PROVE IInv'
  OBVIOUS
<1> USE DEF IInv
<1>1. PICK seen \in SUBSET Reader :
        /\ IF seen = Reader THEN UNCHANGED faults ELSE Fault
        /\ present' = seen
        /\ watch' = IF present \subseteq seen
                    THEN [watch EXCEPT !.todo = seen]
                    ELSE [watch EXCEPT !.pc = "lost", !.todo = present \ seen]
  BY DEF WatchPoll
<1>2. Apart
  BY <1>1, FaultFact DEF WatchPoll, Apart, slotVars
<1>3. /\ UNCHANGED <<usable, row, last, failures>> /\ watch.pc = "walk"
      /\ watch' \in Watch /\ watch'.pc \in {"walk", "lost"}
  BY <1>1 DEF WatchPoll, TypeOK, Watch, Asleep
<1>4. WalkInv'
  BY <1>3 DEF WalkInv
<1>5. MemoryInv' /\ RememberedIsListed'
  BY <1>2, <1>3 DEF MemoryInv, RememberedIsListed, Apart, WatchPoll
<1>6. QED
  BY <1>2, <1>3, <1>4, <1>5, WatchFrame DEF TypeOK, VisitInv

LEMMA WatchLoseInv == IInv /\ WatchLose => IInv'
<1> SUFFICES ASSUME IInv, WatchLose PROVE IInv'
  OBVIOUS
<1> USE DEF IInv
<1> DEFINE r == Min(watch.todo)
<1>1. r \in Reader
  BY MinFact, ReaderAssumption DEF WatchLose, TypeOK, Watch
<1>2. Apart /\ UNCHANGED <<usable, last, failures>>
  BY FaultFact DEF WatchLose, Apart, slotVars
<1>3. /\ row' = [row EXCEPT ![r] = NoSim]
      /\ watch' = [watch EXCEPT !.pc = "fail", !.todo = @ \ {r}, !.at = r]
      /\ watch.pc = "lost"
  BY DEF WatchLose
<1> HIDE DEF r
<1>4. watch' \in Watch /\ watch'.pc = "fail" /\ watch'.at = r
  BY <1>1, <1>3 DEF TypeOK, Watch, Place
<1>5. WalkInv'
  BY <1>1, <1>3, <1>4 DEF WalkInv, TypeOK
<1>6. MemoryInv' /\ RememberedIsListed'
  BY <1>1, <1>2, <1>3, <1>4 DEF MemoryInv, RememberedIsListed, Apart, TypeOK
<1>7. row' \in [Reader -> Card]
  BY <1>3 DEF TypeOK, Card
<1>8. \A q \in Reader : row'[q] # NoSim => <<q, row'[q]>> \in visited
  BY <1>1, <1>3 DEF VisitInv, TypeOK
<1>9. QED
  BY <1>2, <1>4, <1>5, <1>6, <1>7, <1>8, WatchFrame DEF TypeOK

LEMMA WatchFailInv == IInv /\ WatchFail => IInv'
<1> SUFFICES ASSUME IInv, WatchFail PROVE IInv'
  OBVIOUS
<1> USE DEF IInv
<1> DEFINE r == watch.at
<1>1. r \in Reader /\ row[r] = NoSim /\ watch.pc = "fail"
  BY DEF WatchFail, WalkInv
<1>2. Apart /\ UNCHANGED <<row, failures, visited>>
  BY FaultFact DEF WatchFail, Apart, slotVars
<1>3. /\ usable' = [usable EXCEPT ![r] = FALSE]
      /\ last' = [last EXCEPT ![r] = NoSim]
      /\ watch' \in Watch /\ watch'.pc \in {"walk", "lost"}
  BY DEF WatchFail, TypeOK, Watch, Place
<1> HIDE DEF r
<1>4. WalkInv'
  BY <1>3 DEF WalkInv
<1>5. RememberedIsListed'
  <2>1. ASSUME NEW q \in Reader, q # r PROVE last'[q] # NoSim => row'[q] = last'[q]
    BY <1>1, <1>2, <1>3, <2>1 DEF RememberedIsListed, TypeOK, r
  <2>2. last'[r] = NoSim
    BY <1>1, <1>3 DEF TypeOK
  <2>3. QED
    BY <2>1, <2>2 DEF RememberedIsListed
<1>6. MemoryInv'
  BY <1>1, <1>2, <1>3 DEF MemoryInv, Apart, TypeOK
<1>7. last' \in [Reader -> Card] /\ usable' \in [Reader -> BOOLEAN]
  BY <1>3 DEF TypeOK, Card
<1>8. QED
  BY <1>2, <1>3, <1>4, <1>5, <1>6, <1>7, WatchFrame DEF TypeOK, VisitInv

LEMMA WatchReadInv == IInv /\ WatchRead => IInv'
<1> SUFFICES ASSUME IInv, WatchRead PROVE IInv'
  OBVIOUS
<1> USE DEF IInv
<1> DEFINE r == Min(watch.todo)
           n == IF failures[r] < RemoveThreshold THEN failures[r] + 1 ELSE failures[r]
<1>1. r \in Reader
  BY MinFact, ReaderAssumption DEF WatchRead, TypeOK, Watch
<1>2. n \in 0..RemoveThreshold
  BY <1>1, ThresholdAssumption DEF TypeOK
<1>3. /\ UNCHANGED <<slotVars, row, last, gatewayVars>>
      /\ watch.pc = "walk"
      /\ Fault \/ UNCHANGED faults
      /\ UNCHANGED <<present, restarted>>
  BY DEF WatchRead
<1>4. Apart
  BY <1>3, FaultFact DEF Apart
<1>5. /\ usable' \in [Reader -> BOOLEAN]
      /\ failures' \in [Reader -> 0..RemoveThreshold]
  <2>1. \/ usable' = [usable EXCEPT ![r] = TRUE] /\ failures' = [failures EXCEPT ![r] = 0]
        \/ usable' = [usable EXCEPT ![r] = FALSE] /\ failures' = [failures EXCEPT ![r] = n]
    BY DEF WatchRead
  <2>2. n \in 0..RemoveThreshold
    BY <1>2
  <2> HIDE DEF r, n
  <2>3. usable' \in [Reader -> BOOLEAN]
    BY <2>1 DEF TypeOK
  <2>4. failures' \in [Reader -> 0..RemoveThreshold]
    BY <2>1, <2>2, ZeroFact, ExceptFact DEF TypeOK
  <2>5. QED
    BY <2>3, <2>4
<1>6. /\ watch' \in Watch
      /\ \/ watch'.pc \in {"walk", "remove"} /\ watch'.at \in {r, watch.at}
            /\ (watch'.pc = "remove" => watch'.at = r)
         \/ /\ watch'.pc = "vacate" /\ watch'.at = r /\ watch'.card = slot[r]
            /\ slot[r] # NoSim /\ watch'.from \in Reader \ {r} /\ last[watch'.from] = slot[r]
         \/ /\ watch'.pc = "save" /\ watch'.at = r /\ watch'.card = slot[r]
            /\ slot[r] # NoSim /\ \A q \in Reader : last[q] # slot[r]
  <2>1. \/ slot[r] # NoSim /\ Decide(r)
        \/ watch' = [watch EXCEPT !.pc = "remove", !.todo = @ \ {r}, !.at = r]
        \/ watch' = [watch EXCEPT !.todo = @ \ {r}]
    BY DEF WatchRead
  <2>2. watch \in Watch /\ slot[r] \in Card
    BY <1>1 DEF TypeOK
  <2> HIDE DEF r
  <2>3. CASE slot[r] # NoSim /\ Decide(r)
    <3>1. CASE watch' = [watch EXCEPT !.todo = @ \ {r}]
      BY <1>1, <1>3, <2>2, <3>1 DEF Watch
    <3>2. ASSUME NEW q \in Reader \ {r}, last[q] = slot[r],
                 watch' = [watch EXCEPT !.pc = "vacate", !.todo = @ \ {r}, !.at = r,
                                       !.card = slot[r], !.from = q]
          PROVE  /\ watch' \in Watch /\ watch'.pc = "vacate" /\ watch'.at = r
                 /\ watch'.card = slot[r] /\ watch'.from = q
      BY <1>1, <2>2, <3>2 DEF Watch, Place
    <3>3. CASE /\ \A q \in Reader : last[q] # slot[r]
               /\ watch' = [watch EXCEPT !.pc = "save", !.todo = @ \ {r}, !.at = r,
                                         !.card = slot[r]]
      <4>1. /\ watch' \in Watch /\ watch'.pc = "save" /\ watch'.at = r
            /\ watch'.card = slot[r]
        BY <1>1, <2>2, <3>3 DEF Watch, Place
      <4>2. QED
        BY <2>3, <3>3, <4>1
    <3>4. CASE \E q \in Reader \ {r} :
                 /\ last[q] = slot[r]
                 /\ watch' = [watch EXCEPT !.pc = "vacate", !.todo = @ \ {r}, !.at = r,
                                           !.card = slot[r], !.from = q]
      BY <2>3, <3>2, <3>4
    <3>5. QED
      BY <2>3, <3>1, <3>3, <3>4 DEF Decide
  <2>4. CASE watch' = [watch EXCEPT !.pc = "remove", !.todo = @ \ {r}, !.at = r]
    BY <1>1, <2>2, <2>4 DEF Watch, Place
  <2>5. CASE watch' = [watch EXCEPT !.todo = @ \ {r}]
    BY <1>1, <1>3, <2>2, <2>5 DEF Watch
  <2>6. QED
    BY <2>1, <2>3, <2>4, <2>5
<1> HIDE DEF r, n
<1>7. WalkInv'
  BY <1>1, <1>3, <1>6 DEF WalkInv, VisitInv, TypeOK, Card, slotVars
<1>8. MemoryInv' /\ RememberedIsListed'
  BY <1>3, <1>4, <1>6 DEF MemoryInv, RememberedIsListed, Apart
<1>9. QED
  BY <1>3, <1>4, <1>5, <1>6, <1>7, <1>8, WatchFrame DEF TypeOK, VisitInv

\* The row and the memory go together.
LEMMA WatchRemoveInv == IInv /\ WatchRemove => IInv'
<1> SUFFICES ASSUME IInv, WatchRemove PROVE IInv'
  OBVIOUS
<1> USE DEF IInv
<1> DEFINE r == watch.at
<1>1. r \in Reader /\ watch.pc = "remove"
  BY DEF WatchRemove, WalkInv
<1>2. Apart /\ UNCHANGED usable
  BY FaultFact DEF WatchRemove, Apart
<1>3. /\ row' = [row EXCEPT ![r] = NoSim]
      /\ last' = [last EXCEPT ![r] = NoSim]
      /\ failures' = [failures EXCEPT ![r] = 0]
      /\ watch' = NextReader
  BY DEF WatchRemove
<1> HIDE DEF r
<1>4. watch' \in Watch /\ watch'.pc = "walk"
  BY <1>3, NextReaderFact
<1>5. WalkInv'
  BY <1>4 DEF WalkInv
<1>6. MemoryInv' /\ RememberedIsListed'
  BY <1>1, <1>2, <1>3, <1>4 DEF MemoryInv, RememberedIsListed, Apart, TypeOK
<1>7. /\ row' \in [Reader -> Card] /\ last' \in [Reader -> Card]
      /\ failures' \in [Reader -> 0..RemoveThreshold]
  BY <1>3, ZeroFact, ExceptFact DEF TypeOK, Card
<1>8. \A q \in Reader : row'[q] # NoSim => <<q, row'[q]>> \in visited
  BY <1>1, <1>3 DEF VisitInv, TypeOK
<1>9. QED
  BY <1>2, <1>4, <1>5, <1>6, <1>7, <1>8, WatchFrame DEF TypeOK

LEMMA WatchVacateInv == IInv /\ WatchVacate => IInv'
<1> SUFFICES ASSUME IInv, WatchVacate PROVE IInv'
  OBVIOUS
<1> USE DEF IInv
<1> DEFINE r == watch.from
<1>1. /\ r \in Reader \ {watch.at} /\ last[r] = watch.card
      /\ watch.at \in Reader /\ watch.card \in Sim /\ <<watch.at, watch.card>> \in visited
  BY DEF WatchVacate, WalkInv
<1>2. Apart /\ UNCHANGED <<usable, last, failures, visited>>
  BY FaultFact DEF WatchVacate, Apart, slotVars
<1>3. /\ row' = [row EXCEPT ![r] = NoSim]
      /\ watch' = [watch EXCEPT !.pc = "mark"]
      /\ watch.pc = "vacate"
  BY DEF WatchVacate
<1>4. /\ watch' \in Watch /\ watch'.pc = "mark"
      /\ watch'.from = r /\ watch'.at = watch.at /\ watch'.card = watch.card
  BY <1>3 DEF TypeOK, Watch
<1> HIDE DEF r
<1>5. WalkInv'
  BY <1>1, <1>2, <1>3, <1>4 DEF WalkInv, TypeOK
<1>6. MemoryInv' /\ RememberedIsListed'
  BY <1>1, <1>2, <1>3, <1>4 DEF MemoryInv, RememberedIsListed, Apart, TypeOK
<1>7. row' \in [Reader -> Card]
  BY <1>3 DEF TypeOK, Card
<1>8. \A q \in Reader : row'[q] # NoSim => <<q, row'[q]>> \in visited
  BY <1>1, <1>3 DEF VisitInv, TypeOK
<1>9. QED
  BY <1>2, <1>4, <1>5, <1>6, <1>7, <1>8, WatchFrame DEF TypeOK

\* The old reader was the only one that was remembered with the card.
LEMMA WatchMarkInv == IInv /\ WatchMark => IInv'
<1> SUFFICES ASSUME IInv, WatchMark PROVE IInv'
  OBVIOUS
<1> USE DEF IInv
<1> DEFINE r == watch.from
<1>1. /\ r \in Reader /\ last[r] = watch.card /\ row[r] = NoSim
      /\ watch.at \in Reader /\ watch.card \in Sim /\ <<watch.at, watch.card>> \in visited
  BY DEF WatchMark, WalkInv
<1>2. Apart /\ UNCHANGED <<row, visited>>
  BY FaultFact DEF WatchMark, Apart, slotVars
<1>3. /\ usable' = [usable EXCEPT ![r] = FALSE]
      /\ last' = [last EXCEPT ![r] = NoSim]
      /\ failures' = [failures EXCEPT ![r] = 0]
      /\ watch' = [watch EXCEPT !.pc = "save"]
      /\ watch.pc = "mark"
  BY DEF WatchMark
<1>4. watch' \in Watch /\ watch'.pc = "save" /\ watch'.at = watch.at /\ watch'.card = watch.card
  BY <1>3 DEF TypeOK, Watch
<1>5. \A q \in Reader : last'[q] # watch.card
  BY <1>1, <1>3, SimAssumption DEF MemoryInv, TypeOK
<1> HIDE DEF r
<1>6. WalkInv'
  BY <1>1, <1>2, <1>4, <1>5 DEF WalkInv
<1>7. RememberedIsListed'
  <2>1. ASSUME NEW q \in Reader, q # r PROVE last'[q] # NoSim => row'[q] = last'[q]
    BY <1>2, <1>3, <2>1 DEF RememberedIsListed, TypeOK, r
  <2>2. last'[r] = NoSim
    BY <1>1, <1>3 DEF TypeOK
  <2>3. QED
    BY <2>1, <2>2 DEF RememberedIsListed
<1>8. MemoryInv'
  BY <1>1, <1>2, <1>3 DEF MemoryInv, Apart, TypeOK
<1>9. /\ usable' \in [Reader -> BOOLEAN] /\ last' \in [Reader -> Card]
      /\ failures' \in [Reader -> 0..RemoveThreshold]
  BY <1>3, ZeroFact, ExceptFact DEF TypeOK, Card
<1>10. QED
  BY <1>2, <1>4, <1>6, <1>7, <1>8, <1>9, WatchFrame DEF TypeOK, VisitInv

\* No other reader is remembered with the card that is saved.
LEMMA WatchSaveInv == IInv /\ WatchSave => IInv'
<1> SUFFICES ASSUME IInv, WatchSave PROVE IInv'
  OBVIOUS
<1> USE DEF IInv
<1> DEFINE r == watch.at
           s == watch.card
<1>1. /\ r \in Reader /\ s \in Sim /\ <<r, s>> \in visited
      /\ \A q \in Reader : last[q] # s
  BY DEF WatchSave, WalkInv
<1>2. Apart /\ UNCHANGED <<usable, failures, visited>>
  BY FaultFact DEF WatchSave, Apart, slotVars
<1>3. /\ row' = [row EXCEPT ![r] = s]
      /\ last' = [last EXCEPT ![r] = s]
      /\ watch' = NextReader /\ watch.pc = "save"
  BY DEF WatchSave
<1> HIDE DEF r, s
<1>4. watch' \in Watch /\ watch'.pc = "walk"
  BY <1>3, NextReaderFact
<1>5. WalkInv'
  BY <1>4 DEF WalkInv
<1>6. MemoryInv' /\ RememberedIsListed'
  BY <1>1, <1>2, <1>3, <1>4 DEF MemoryInv, RememberedIsListed, Apart, TypeOK
<1>7. row' \in [Reader -> Card] /\ last' \in [Reader -> Card]
  BY <1>1, <1>3 DEF TypeOK, Card
<1>8. \A q \in Reader : row'[q] # NoSim => <<q, row'[q]>> \in visited
  BY <1>1, <1>3 DEF VisitInv, TypeOK
<1>9. QED
  BY <1>2, <1>4, <1>5, <1>6, <1>7, <1>8, WatchFrame DEF TypeOK

\* Nothing is remembered, so nothing contradicts the rows that are kept.
LEMMA WatchRestartInv == IInv /\ WatchRestart => IInv'
<1> SUFFICES ASSUME IInv, WatchRestart PROVE IInv'
  OBVIOUS
<1> USE DEF IInv
<1>1. Apart /\ UNCHANGED <<usable, visited>> /\ restarted'
  BY FaultFact DEF WatchRestart, Apart, slotVars, Fault, TypeOK
<1>2. /\ \A r \in Reader : row'[r] \in {row[r], NoSim}
      /\ row' \in [Reader -> Card]
      /\ last' = [r \in Reader |-> NoSim] /\ last' \in [Reader -> Card]
      /\ failures' \in [Reader -> 0..RemoveThreshold]
      /\ watch' \in Watch /\ watch'.pc = "walk"
  BY ZeroFact, NextReaderFact DEF WatchRestart, TypeOK, Card, Asleep
<1>3. WalkInv'
  BY <1>2 DEF WalkInv
<1>4. MemoryInv' /\ RememberedIsListed'
  BY <1>1, <1>2 DEF MemoryInv, RememberedIsListed
<1>5. QED
  BY <1>1, <1>2, <1>3, <1>4, WatchFrame DEF TypeOK, VisitInv

-----------------------------------------------------------------------------
(* The gateway. *)

\* What is left to show of a step of the pass.
LEMMA ScanFrame ==
    ASSUME IInv, UNCHANGED <<inventoryVars, faults>>,
           transport' \in [Sim -> Place], instance' \in [Sim -> Place], scan' \in Scan,
           PassInv', SnapshotInv',
           scan'.rows \subseteq visited,
           scan'.pc = "map" => <<scan'.reader, scan'.sim>> \in visited,
           ReachedWhereInserted'
    PROVE  IInv'
<1> USE DEF IInv
<1>1. UNCHANGED <<slot, moves, visited, usable, row, last, failures, present, watch>>
      /\ UNCHANGED <<faults, restarted>>
  BY DEF inventoryVars, slotVars, watchVars
<1>2. TypeOK'
  BY <1>1 DEF TypeOK
<1>3. WalkInv' /\ MemoryInv' /\ RememberedIsListed'
  BY <1>1 DEF WalkInv, MemoryInv, RememberedIsListed
<1>4. VisitInv'
  BY <1>1 DEF VisitInv
<1>5. QED
  BY <1>2, <1>3, <1>4

LEMMA ScanTypes ==
    ASSUME TypeOK
    PROVE  /\ scan \in Scan /\ Idle \in Scan /\ Managed \subseteq Sim
           /\ Rows \subseteq Reader \X Sim
BY RowsFact DEF TypeOK, Scan, Idle, Place, Card, Managed

LEMMA ScanStartInv == IInv /\ ScanStart => IInv'
<1> SUFFICES ASSUME IInv, ScanStart PROVE IInv'
  OBVIOUS
<1> USE DEF IInv
<1>1. UNCHANGED <<inventoryVars, transport, instance, faults>>
  BY DEF ScanStart
<1>2. /\ scan' \in Scan /\ scan'.pc = "check" /\ scan'.existing = Managed
      /\ scan'.rows = scan.rows /\ scan.pc = "idle"
  BY ScanTypes DEF ScanStart, Scan
<1>3. visited' = visited /\ (restarted <=> restarted')
  BY <1>1 DEF inventoryVars, slotVars, watchVars
<1>4. PassInv' /\ SnapshotInv' /\ ReachedWhereInserted'
  BY <1>1, <1>2, <1>3 DEF PassInv, SnapshotInv, Managed, VisitInv, ReachedWhereInserted
<1>5. QED
  BY <1>1, <1>2, <1>4, ScanFrame DEF TypeOK, VisitInv

LEMMA ScanCheckInv == ASSUME NEW s \in Sim PROVE IInv /\ ScanCheck(s) => IInv'
<1> SUFFICES ASSUME IInv, ScanCheck(s) PROVE IInv'
  OBVIOUS
<1> USE DEF IInv
<1>1. UNCHANGED <<inventoryVars, transport, instance, faults>>
  BY DEF ScanCheck
<1>2. /\ scan' \in Scan /\ scan'.pc = "check" /\ scan'.existing = scan.existing
      /\ scan'.rows = scan.rows /\ scan.pc = "check"
  BY ScanTypes DEF ScanCheck, Scan
<1>3. visited' = visited /\ (restarted <=> restarted')
  BY <1>1 DEF inventoryVars, slotVars, watchVars
<1>4. PassInv' /\ SnapshotInv' /\ ReachedWhereInserted'
  BY <1>1, <1>2, <1>3 DEF PassInv, SnapshotInv, VisitInv, ReachedWhereInserted
<1>5. QED
  BY <1>1, <1>2, <1>4, ScanFrame DEF TypeOK, VisitInv

LEMMA ScanRemoveInv == ASSUME NEW s \in Sim PROVE IInv /\ ScanRemove(s) => IInv'
<1> SUFFICES ASSUME IInv, ScanRemove(s) PROVE IInv'
  OBVIOUS
<1> USE DEF IInv
<1>1. UNCHANGED <<inventoryVars, instance, faults>>
  BY DEF ScanRemove
<1>2. /\ scan' \in Scan /\ scan'.pc = "unmap" /\ scan'.existing = scan.existing
      /\ scan'.rows = scan.rows /\ scan'.sim = s /\ scan.pc \in {"check", "remove"}
  BY ScanTypes DEF ScanRemove, Scan, Card
<1>3. /\ transport' = [transport EXCEPT ![s] = None]
      /\ transport' \in [Sim -> Place]
      /\ transport'[s] = None /\ \A u \in Sim \ {s} : transport'[u] = transport[u]
  BY DEF ScanRemove, TypeOK, Place
<1>4. visited' = visited /\ (restarted <=> restarted')
  BY <1>1 DEF inventoryVars, slotVars, watchVars
<1>5. PassInv'
  BY <1>1, <1>2, <1>3 DEF PassInv
<1>6. SnapshotInv'
  BY <1>2, <1>3, <1>4 DEF SnapshotInv
<1>7. ReachedWhereInserted'
  BY <1>1, <1>3, <1>4 DEF VisitInv, ReachedWhereInserted
<1>8. QED
  BY <1>1, <1>2, <1>3, <1>5, <1>6, <1>7, ScanFrame DEF TypeOK, VisitInv

LEMMA ScanUnmapInv == IInv /\ ScanUnmap => IInv'
<1> SUFFICES ASSUME IInv, ScanUnmap PROVE IInv'
  OBVIOUS
<1> USE DEF IInv
<1> DEFINE s == scan.sim
<1>1. UNCHANGED <<inventoryVars, transport, faults>>
  BY DEF ScanUnmap
<1>2. s \in Sim /\ transport[s] = None
  BY DEF ScanUnmap, PassInv
<1>3. /\ scan' \in Scan /\ scan'.pc = "remove" /\ scan'.existing = scan.existing
      /\ scan'.rows = scan.rows /\ scan.pc = "unmap"
  BY ScanTypes DEF ScanUnmap, Scan, Card
<1>4. /\ instance' \in [Sim -> Place]
      /\ instance'[s] = None /\ \A u \in Sim \ {s} : instance'[u] = instance[u]
  BY <1>2 DEF ScanUnmap, TypeOK, Place
<1>5. visited' = visited /\ (restarted <=> restarted')
  BY <1>1 DEF inventoryVars, slotVars, watchVars
<1>6. PassInv' /\ SnapshotInv'
  BY <1>1, <1>2, <1>3, <1>4, <1>5 DEF PassInv, SnapshotInv
<1>7. ReachedWhereInserted'
  BY <1>1, <1>4, <1>5 DEF VisitInv, ReachedWhereInserted
<1>8. QED
  BY <1>1, <1>3, <1>4, <1>6, <1>7, ScanFrame DEF TypeOK, VisitInv

\* The rows are read in one query: before a restart they are what the watch loop
\* remembers, and that has no card twice.
LEMMA ScanFetchInv == IInv /\ ScanFetch => IInv'
<1> SUFFICES ASSUME IInv, ScanFetch PROVE IInv'
  OBVIOUS
<1> USE DEF IInv
<1>1. UNCHANGED <<inventoryVars, transport, instance, faults>>
  BY DEF ScanFetch
<1>2. /\ scan' \in Scan /\ scan'.pc = "add" /\ scan'.existing = scan.existing
      /\ scan'.rows = Rows /\ scan.pc \in {"check", "remove"}
  BY ScanTypes DEF ScanFetch, Scan
<1>3. visited' = visited /\ (restarted <=> restarted')
  BY <1>1 DEF inventoryVars, slotVars, watchVars
<1>4. \A p \in Rows : p \in Reader \X Sim /\ p = <<p[1], row[p[1]]>> /\ row[p[1]] = p[2]
                      /\ row[p[1]] # NoSim
  BY SimAssumption DEF Rows, TypeOK, Card
<1>5. ~restarted => \A p, q \in Rows : p[2] = q[2] => p = q
  <2> SUFFICES ASSUME ~restarted, NEW p \in Rows, NEW q \in Rows, p[2] = q[2] PROVE p = q
    OBVIOUS
  <2>1. last[p[1]] = p[2] /\ last[q[1]] = q[2] /\ p[2] # NoSim
    BY <1>4 DEF MemoryInv
  <2>2. p[1] = q[1]
    BY <1>4, <2>1 DEF MemoryInv
  <2>3. QED
    BY <1>4, <2>2
<1>6. PassInv' /\ ReachedWhereInserted'
  BY <1>1, <1>2, <1>3 DEF PassInv, VisitInv, ReachedWhereInserted
<1>7. SnapshotInv'
  BY <1>1, <1>2, <1>3, <1>4, <1>5 DEF SnapshotInv
<1>8. Rows \subseteq visited
  BY <1>4 DEF VisitInv
<1>9. QED
  BY <1>1, <1>2, <1>6, <1>7, <1>8, ScanFrame DEF TypeOK

\* The row that is taken next.
LEMMA NextRow ==
    ASSUME TypeOK, scan.rows # {}
    PROVE  LET r == Min({p[1] : p \in scan.rows})
               s == CHOOSE t \in Sim : <<r, t>> \in scan.rows
           IN  r \in Reader /\ s \in Sim /\ <<r, s>> \in scan.rows
<1> DEFINE Readers == {p[1] : p \in scan.rows}
           r == Min(Readers)
<1>1. scan.rows \subseteq Reader \X Sim
  BY DEF TypeOK, Scan
<1>2. Readers \subseteq Nat /\ Readers # {}
  BY <1>1, ReaderAssumption
<1>3. r \in Readers
  BY <1>2, MinFact
<1>4. \E t \in Sim : <<r, t>> \in scan.rows
  BY <1>1, <1>3
<1>5. QED
  BY <1>1, <1>3, <1>4

LEMMA ScanAddInv == IInv /\ ScanAdd => IInv'
<1> SUFFICES ASSUME IInv, ScanAdd PROVE IInv'
  OBVIOUS
<1> USE DEF IInv
<1> DEFINE r == Min({p[1] : p \in scan.rows})
           s == CHOOSE t \in Sim : <<r, t>> \in scan.rows
           rest == scan.rows \ {<<r, s>>}
<1>1. UNCHANGED <<inventoryVars, instance, faults>>
  BY DEF ScanAdd
<1>2. r \in Reader /\ s \in Sim /\ <<r, s>> \in scan.rows
  BY NextRow DEF ScanAdd
<1>3. visited' = visited /\ (restarted <=> restarted')
  BY <1>1 DEF inventoryVars, slotVars, watchVars
<1>4. scan.pc = "add" /\ scan \in Scan
  BY ScanTypes DEF ScanAdd
<1>5. \/ /\ s \notin scan.existing
         /\ transport' = [transport EXCEPT ![s] = r]
         /\ scan' = [scan EXCEPT !.pc = "map", !.rows = rest, !.sim = s, !.reader = r]
      \/ scan' = [scan EXCEPT !.rows = rest] /\ UNCHANGED transport
  BY DEF ScanAdd, Wanted
<1>6. rest \subseteq scan.rows /\ <<r, s>> \notin rest
  OBVIOUS
<1> HIDE DEF r, s, rest
<1>7. CASE scan' = [scan EXCEPT !.rows = rest] /\ UNCHANGED transport
  <2>1. /\ scan' \in Scan /\ scan'.pc = "add" /\ scan'.existing = scan.existing
        /\ scan'.rows = rest
    BY <1>4, <1>6, <1>7 DEF Scan
  <2>2. PassInv' /\ SnapshotInv' /\ ReachedWhereInserted'
    BY <1>1, <1>3, <1>4, <1>6, <1>7, <2>1
    DEF PassInv, SnapshotInv, VisitInv, ReachedWhereInserted
  <2>3. QED
    BY <1>1, <1>6, <1>7, <2>1, <2>2, ScanFrame DEF TypeOK, VisitInv
<1>8. CASE /\ s \notin scan.existing
           /\ transport' = [transport EXCEPT ![s] = r]
           /\ scan' = [scan EXCEPT !.pc = "map", !.rows = rest, !.sim = s, !.reader = r]
  <2>1. /\ scan' \in Scan /\ scan'.pc = "map" /\ scan'.existing = scan.existing
        /\ scan'.rows = rest /\ scan'.sim = s /\ scan'.reader = r
    BY <1>2, <1>4, <1>6, <1>8 DEF Scan, Place, Card
  <2>2. /\ transport' \in [Sim -> Place] /\ transport'[s] = r
        /\ \A u \in Sim \ {s} : transport'[u] = transport[u]
    BY <1>2, <1>8 DEF TypeOK, Place
  <2>3. PassInv'
    BY <1>1, <1>2, <1>4, <2>1, <2>2 DEF PassInv
  <2>4. SnapshotInv'
    <3> SUFFICES ASSUME ~restarted
                 PROVE  /\ \A p \in rest : p[2] \notin scan.existing => transport'[p[2]] = None
                        /\ \A p, q \in rest : p[2] = q[2] => p = q
      BY <1>3, <2>1 DEF SnapshotInv
    <3>1. \A p \in rest : p[2] # s /\ p[2] \in Sim
      BY <1>2, <1>4, <1>6 DEF SnapshotInv, Scan
    <3>2. QED
      BY <1>4, <1>6, <2>2, <3>1 DEF SnapshotInv
  <2>5. <<r, s>> \in visited
    BY <1>2 DEF VisitInv
  <2>6. ReachedWhereInserted'
    BY <1>1, <1>3, <2>2, <2>5 DEF VisitInv, ReachedWhereInserted
  <2>7. QED
    BY <1>1, <1>6, <2>1, <2>2, <2>3, <2>4, <2>5, <2>6, ScanFrame DEF TypeOK, VisitInv
<1>9. QED
  BY <1>5, <1>7, <1>8

LEMMA ScanMapInv == IInv /\ ScanMap => IInv'
<1> SUFFICES ASSUME IInv, ScanMap PROVE IInv'
  OBVIOUS
<1> USE DEF IInv
<1> DEFINE s == scan.sim
           r == scan.reader
<1>1. UNCHANGED <<inventoryVars, transport, faults>>
  BY DEF ScanMap
<1>2. s \in Sim /\ r \in Reader /\ transport[s] = r /\ <<r, s>> \in visited
  BY DEF ScanMap, PassInv, VisitInv
<1>3. /\ scan' \in Scan /\ scan'.pc = "add" /\ scan'.existing = scan.existing
      /\ scan'.rows = scan.rows /\ scan.pc = "map"
  BY ScanTypes DEF ScanMap, Scan, Card, Place
<1>4. /\ instance' \in [Sim -> Place]
      /\ instance'[s] = r /\ \A u \in Sim \ {s} : instance'[u] = instance[u]
  BY <1>2 DEF ScanMap, TypeOK, Place
<1>5. visited' = visited /\ (restarted <=> restarted')
  BY <1>1 DEF inventoryVars, slotVars, watchVars
<1> HIDE DEF s, r
<1>6. PassInv' /\ SnapshotInv'
  BY <1>1, <1>2, <1>3, <1>4, <1>5 DEF PassInv, SnapshotInv, s
<1>7. ReachedWhereInserted'
  BY <1>1, <1>2, <1>4, <1>5 DEF VisitInv, ReachedWhereInserted
<1>8. QED
  BY <1>1, <1>3, <1>4, <1>6, <1>7, ScanFrame DEF TypeOK, VisitInv

LEMMA ScanEndInv == IInv /\ ScanEnd => IInv'
<1> SUFFICES ASSUME IInv, ScanEnd PROVE IInv'
  OBVIOUS
<1> USE DEF IInv
<1>1. UNCHANGED <<inventoryVars, transport, instance, faults>>
  BY DEF ScanEnd
<1>2. scan' \in Scan /\ scan'.pc = "idle" /\ scan'.rows = {} /\ scan.pc = "add"
  BY ScanTypes DEF ScanEnd, Idle
<1>3. visited' = visited /\ (restarted <=> restarted')
  BY <1>1 DEF inventoryVars, slotVars, watchVars
<1>4. PassInv' /\ SnapshotInv' /\ ReachedWhereInserted'
  BY <1>1, <1>2, <1>3 DEF PassInv, SnapshotInv, VisitInv, ReachedWhereInserted
<1>5. QED
  BY <1>1, <1>2, <1>4, ScanFrame DEF TypeOK

\* A restart believes the rows, as a pass does.
LEMMA GatewayRestartInv == IInv /\ GatewayRestart => IInv'
<1> SUFFICES ASSUME IInv, GatewayRestart PROVE IInv'
  OBVIOUS
<1> USE DEF IInv
<1>1. UNCHANGED inventoryVars /\ faults' \in Nat
  BY DEF GatewayRestart, Fault, TypeOK
<1>2. UNCHANGED <<slot, moves, visited, usable, row, last, failures, present, watch, restarted>>
  BY <1>1 DEF inventoryVars, slotVars, watchVars
<1>3. /\ transport' = Discover /\ instance' = Discover /\ scan' = Idle
      /\ scan'.pc = "idle" /\ scan'.rows = {}
  BY DEF GatewayRestart, Idle
<1>4. TypeOK'
  BY <1>1, <1>2, <1>3, DiscoverType, ScanTypes DEF TypeOK
<1>5. WalkInv' /\ MemoryInv' /\ RememberedIsListed'
  BY <1>1, <1>2 DEF WalkInv, MemoryInv, RememberedIsListed
<1>6. PassInv' /\ SnapshotInv'
  BY <1>1, <1>3 DEF PassInv, SnapshotInv
<1>7. \A s \in Sim : Discover[s] # None => <<Discover[s], s>> \in visited
  BY DiscoverFact, SimAssumption DEF VisitInv
<1>8. VisitInv'
  BY <1>2, <1>3, <1>7 DEF VisitInv, ReachedWhereInserted
<1>9. QED
  BY <1>4, <1>5, <1>6, <1>8

-----------------------------------------------------------------------------
(* The theorems. *)

\* Every step keeps the inductive invariant.
LEMMA NextIInv == IInv /\ [Next]_vars => IInv'
<1> SUFFICES ASSUME IInv, [Next]_vars PROVE IInv'
  OBVIOUS
<1>1. ASSUME Next PROVE IInv'
  <2>1. CASE \/ \E s \in Sim, r \in Reader : Insert(s, r)
             \/ \E r \in Reader : Eject(r)
    BY <2>1, HandStep
  <2>2. CASE WatchStep \/ WatchRestart
    BY <2>2, WatchPollInv, WatchLoseInv, WatchFailInv, WatchReadInv, WatchRemoveInv,
       WatchVacateInv, WatchMarkInv, WatchSaveInv, WatchRestartInv
    DEF WatchStep
  <2>3. CASE ScanStep \/ GatewayRestart
    BY <2>3, ScanStartInv, ScanCheckInv, ScanRemoveInv, ScanUnmapInv, ScanFetchInv,
       ScanAddInv, ScanMapInv, ScanEndInv, GatewayRestartInv
    DEF ScanStep
  <2>4. QED
    BY <1>1, <2>1, <2>2, <2>3 DEF Next
<1>2. CASE UNCHANGED vars
  <2>1. /\ UNCHANGED <<slot, usable, row, last, failures, present, watch>>
        /\ UNCHANGED <<transport, instance, scan, moves, faults, visited, restarted>>
    BY <1>2 DEF vars
  <2>2. TypeOK'
    BY <2>1 DEF IInv, TypeOK
  <2>3. WalkInv' /\ MemoryInv' /\ RememberedIsListed'
    BY <2>1 DEF IInv, WalkInv, MemoryInv, RememberedIsListed
  <2>4. PassInv' /\ SnapshotInv' /\ VisitInv'
    BY <2>1 DEF IInv, PassInv, SnapshotInv, VisitInv, ReachedWhereInserted
  <2>5. QED
    BY <2>2, <2>3, <2>4 DEF IInv
<1>3. QED
  BY <1>1, <1>2

\* The inductive invariant of slots, watch loop, table, pass and maps.
THEOREM Invariance == Spec => []IInv
BY InitIInv, NextIInv, PTL DEF Spec

\* Type correctness, for any finite set of readers.
THEOREM TypeCorrect == Spec => []TypeOK
<1>1. IInv => TypeOK
  BY DEF IInv
<1>2. QED
  BY <1>1, Invariance, PTL

\* A SIM is reached only through the instance of a reader that has held its
\* card, whatever hands, watch loop, restarts and passes do meanwhile.
THEOREM ReachedThroughOwnReader == Spec => []ReachedWhereInserted
<1>1. IInv => ReachedWhereInserted
  BY DEF IInv, VisitInv
<1>2. QED
  BY <1>1, Invariance, PTL

\* What the watch loop remembers, and will not write again, is in the table.
THEOREM MemoryIsListed == Spec => []RememberedIsListed
<1>1. IInv => RememberedIsListed
  BY DEF IInv
<1>2. QED
  BY <1>1, Invariance, PTL

\* The table has a card twice only after a restart of the watch loop.
THEOREM ListedTwiceIsForgotten == Spec => []ListedOnce
<1>1. IInv => ListedOnce
  <2> SUFFICES ASSUME IInv, NEW q \in Reader, NEW r \in Reader, q # r,
                      row[q] = row[r], row[r] # NoSim
               PROVE  last[q] = NoSim \/ last[r] = NoSim
    BY DEF ListedOnce
  <2>1. last[q] \in {NoSim, row[q]} /\ last[r] \in {NoSim, row[r]}
    BY DEF IInv, MemoryInv
  <2>2. last[q] # NoSim /\ last[q] = last[r] => q = r
    BY DEF IInv, MemoryInv
  <2>3. QED
    BY <2>1, <2>2
<1>2. QED
  BY <1>1, Invariance, PTL

\* Before the watch loop is restarted, a pass gives a SIM an instance only when
\* it has none.
THEOREM NeverReplaced == Spec => ReleasedFirst
<1> DEFINE Released ==
      \A s \in Sim : transport[s] # None /\ ~restarted =>
          transport'[s] \in {None, transport[s]} \/ scan' = Idle
<1>1. IInv /\ [Next]_vars => [Released]_vars
  <2> SUFFICES ASSUME IInv, Next, NEW s \in Sim, transport[s] # None, ~restarted
               PROVE  transport'[s] \in {None, transport[s]} \/ scan' = Idle
    OBVIOUS
  <2>1. CASE \/ \E u \in Sim, r \in Reader : Insert(u, r)
             \/ \E r \in Reader : Eject(r)
    BY <2>1 DEF Insert, Eject, gatewayVars
  <2>2. CASE WatchStep \/ WatchRestart
    BY <2>2 DEF WatchStep, WatchPoll, WatchLose, WatchFail, WatchRead, WatchRemove,
                WatchVacate, WatchMark, WatchSave, WatchRestart, gatewayVars
  <2>3. CASE ScanAdd
    <3> DEFINE r == Min({p[1] : p \in scan.rows})
               u == CHOOSE t \in Sim : <<r, t>> \in scan.rows
    <3>1. /\ \/ u \notin scan.existing /\ transport' = [transport EXCEPT ![u] = r]
             \/ UNCHANGED transport
          /\ scan.pc = "add" /\ ~restarted
      BY <2>3 DEF ScanAdd, Wanted
    <3>2. <<r, u>> \in scan.rows
      BY <2>3, NextRow DEF IInv, ScanAdd
    <3> HIDE DEF r, u
    <3>3. u \notin scan.existing => transport[u] = None
      BY <3>1, <3>2 DEF IInv, SnapshotInv
    <3>4. QED
      BY <3>1, <3>3 DEF IInv, TypeOK
  <2>4. CASE GatewayRestart
    BY <2>4 DEF GatewayRestart
  <2>5. CASE \E u \in Sim : ScanRemove(u)
    BY <2>5 DEF ScanRemove, IInv, TypeOK
  <2>6. CASE \/ ScanStart \/ ScanUnmap \/ ScanFetch \/ ScanMap \/ ScanEnd
             \/ \E u \in Sim : ScanCheck(u)
    BY <2>6 DEF ScanStart, ScanUnmap, ScanFetch, ScanMap, ScanEnd, ScanCheck
  <2>7. QED
    BY <2>1, <2>2, <2>3, <2>4, <2>5, <2>6 DEF Next, ScanStep
<1>2. Spec => [][Released]_vars
  BY <1>1, Invariance, PTL DEF Spec
<1>3. QED
  BY <1>2 DEF ReleasedFirst

\* The two maps of the gateway, which have a lock each, agree but for the one
\* SIM between two of its updates.
MapsAgree == \A s \in Sim :
    instance[s] = transport[s] \/ (scan.pc \in {"unmap", "map"} /\ scan.sim = s)
THEOREM MapsInStep == Spec => []MapsAgree
<1>1. IInv => MapsAgree
  BY DEF IInv, PassInv, MapsAgree
<1>2. QED
  BY <1>1, Invariance, PTL
=============================================================================
