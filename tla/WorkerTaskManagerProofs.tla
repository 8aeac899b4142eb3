----------------------- MODULE WorkerTaskManagerProofs -----------------------
(***************************************************************************)
(* Theorems about WorkerTaskManager, for every set of calls and            *)
(* conversations, every workload and every limit.                          *)
(***************************************************************************)
EXTENDS WorkerTaskManager, FiniteSetTheorems, TLAPS

(* The inductive invariant *)

\* The calls that initialise a cell
Initialising == {"capacity", "reserve", "refuse", "factory", "unreserve", "store"}

\* Such a call alone has the permit of its slot, whose cell is empty.
OwnerInv ==
  \A r \in Reqs :
    /\ rpc[r] = "cell" => rslot[r] \in 1..nextSlot
    /\ rpc[r] \in Initialising =>
         rslot[r] \in 1..nextSlot /\ permit[rslot[r]] = r /\ rslot[r] \notin filled

\* An admitted call holds the capacity lock until it is counted, and has at
\* most one agent to evict.
AdmitInv ==
  \A r \in Reqs :
    /\ rpc[r] \in {"reserve", "refuse"} => capLock = r
    /\ rpc[r] \in {"cell", "capacity"} => victims[r] = {}
    /\ rpc[r] = "reserve" => \E c \in Convs : victims[r] \subseteq {c}

\* A slot in the map is found under its own conversation.
HomeInv == \A c \in Convs : tasks[c] # 0 => home[tasks[c]] = c

\* Where a slot is that was created: in the map, in the hands of a kill,
\* removed before it was filled, or filled and its agent killed
Accounted(s) ==
  \/ tasks[home[s]] = s \/ \E r \in Reqs : doomed[r] = s
  \/ s \in missed \/ (s \in filled /\ s \notin live)
SlotInv == \A s \in 1..nextSlot : Accounted(s)

\* The agents that will stay, and the builds that are admitted
Counted   == {r \in Reqs : rpc[r] \in {"factory", "unreserve"}}
Committed == {r \in Reqs : rpc[r] \in {"reserve", "factory", "unreserve", "store"}}
Staying   == {c \in Active : \A r \in Reqs : rpc[r] = "reserve" => c \notin victims[r]}

\* Between them they are within the limit, up to what admissions missed.
RoomInv ==
  /\ limit <= largest
  /\ Cardinality(Staying) + Cardinality(Committed) <= largest + slipped

IInv ==
  /\ scn \in Scenarios
  /\ TypeOK /\ ReservationsMatch /\ OwnerInv /\ AdmitInv /\ HomeInv /\ SlotInv /\ RoomInv

-----------------------------------------------------------------------------
(* Constants, sets and the operators of the library *)

\* The larger of two numbers, as configure_resident_policy takes it
LEMMA MaxOfTwo ==
  ASSUME NEW a \in Int, NEW b \in Int
  PROVE  Max({a, b}) \in {a, b} /\ Max({a, b}) >= a /\ Max({a, b}) >= b
<1>1. \E x \in {a, b} : \A y \in {a, b} : x >= y
  <2>1. CASE a >= b
    BY <2>1
  <2>2. CASE b >= a
    BY <2>2
  <2> QED
    BY <2>1, <2>2
<1> QED
  BY <1>1 DEF Max

\* The smaller of two numbers, as the limit under memory pressure takes it
LEMMA MinOfTwo ==
  ASSUME NEW a \in Int, NEW b \in Int
  PROVE  Min({a, b}) \in {a, b} /\ Min({a, b}) <= a /\ Min({a, b}) <= b
<1>1. \E x \in {a, b} : \A y \in {a, b} : x <= y
  <2>1. CASE a >= b
    BY <2>1
  <2>2. CASE b >= a
    BY <2>2
  <2> QED
    BY <2>1, <2>2
<1> QED
  BY <1>1 DEF Min

\* What a call asks for, from the type of the workloads
LEMMA CallTypes ==
  ASSUME scn \in Scenarios, NEW r \in Reqs
  PROVE  Kind(r) \in Kinds /\ Conv(r) \in Convs /\ Num(r) \in 0..3
BY TaskAssumption DEF Workloads, Kind, Conv, Num

\* Sets of calls and of conversations are finite and have a size.
LEMMA FiniteCalls ==
  ASSUME NEW S \in SUBSET Reqs
  PROVE  IsFiniteSet(S) /\ Cardinality(S) \in Nat /\ Cardinality(S) <= Cardinality(Reqs)
         /\ Cardinality(Reqs) \in Nat
BY TaskAssumption, FS_Subset, FS_CardinalityType

LEMMA FiniteConvs ==
  ASSUME NEW S \in SUBSET Convs
  PROVE  IsFiniteSet(S) /\ Cardinality(S) \in Nat
BY TaskAssumption, FS_Subset, FS_CardinalityType

\* One call more or less changes the size of a set of calls by one.
LEMMA AddCall ==
  ASSUME NEW S \in SUBSET Reqs, NEW r, r \notin S
  PROVE  Cardinality(S \cup {r}) = Cardinality(S) + 1
BY FiniteCalls, FS_AddElement

LEMMA DropCall ==
  ASSUME NEW S \in SUBSET Reqs, NEW r \in S
  PROVE  Cardinality(S \ {r}) = Cardinality(S) - 1
BY FiniteCalls, FS_RemoveElement

-----------------------------------------------------------------------------
(* The initial states *)

\* The invariant holds at the start.
LEMMA InitIInv == Init => IInv
<1> SUFFICES ASSUME Init PROVE IInv
  OBVIOUS
<1>1. scn \in Scenarios /\ scn.limit \in 1..3 /\ scn.leased \subseteq Convs
  BY TaskAssumption DEF Init, Workloads
<1>2. Counted = {} /\ Committed = {} /\ Active = {} /\ Staying = {}
  BY DEF Init, Counted, Committed, Active, Staying, Initialised
<1>3. Cardinality({}) = 0
  BY FS_EmptySet
<1>4. Cardinality(Reqs) \in Nat
  BY FiniteCalls
<1>5. (CHOOSE c \in Convs : TRUE) \in Convs
  BY TaskAssumption
<1>6. TypeOK
  BY <1>1, <1>4, <1>5, TaskAssumption DEF Init, TypeOK, Slots
<1>7. ReservationsMatch
  BY <1>2, <1>3 DEF Init, ReservationsMatch, Counted
<1>8. OwnerInv /\ AdmitInv /\ HomeInv /\ SlotInv
  BY DEF Init, OwnerInv, AdmitInv, HomeInv, SlotInv, Initialising
<1>9. RoomInv
  BY <1>1, <1>2, <1>3 DEF Init, RoomInv
<1> QED
  BY <1>1, <1>6, <1>7, <1>8, <1>9 DEF IInv

-----------------------------------------------------------------------------
(* The steps *)

\* The steps of a call that change the number of reservations
Counting(r) == BuildReserve(r) \/ BuildGivesUp(r) \/ BuildUnreserve(r)

\* The other steps leave the calls that are counted as they are.
LEMMA NotCounting ==
  ASSUME IInv, NEW r \in Reqs, Call(r), ~Counting(r)
  PROVE  building' = building /\ Counted' = Counted
<1> USE DEF IInv, TypeOK, Counted, GoTo
<1>1. CASE KillStart(r) \/ ClearStart(r) \/ ScanStart(r) \/ Configure(r) \/ BuildLook(r)
  BY <1>1 DEF KillStart, ClearStart, ScanStart, Configure, BuildLook, limits
<1>2. CASE Remove(r) \/ Strike(r) \/ Ended(r)
  BY <1>2 DEF Remove, Strike, Ended, limits
<1>3. CASE BuildEnter(r) \/ BuildCell(r)
  BY <1>3 DEF BuildEnter, BuildCell, limits
<1>4. CASE BuildCapacity(r)
  BY <1>4 DEF BuildCapacity
<1>5. CASE BuildRefuse(r) \/ BuildFactory(r) \/ BuildStore(r)
  BY <1>5 DEF BuildRefuse, BuildFactory, BuildStore, limits
<1> QED
  BY <1>1, <1>2, <1>3, <1>4, <1>5 DEF Call, Counting

\* A reservation is taken by one call and given back by the same call.
LEMMA CountStep ==
  ASSUME IInv, Next
  PROVE  ReservationsMatch' /\ building' \in 0..Cardinality(Reqs)
<1>1. Counted \in SUBSET Reqs /\ Counted' \in SUBSET Reqs
  BY DEF Counted
<1>2. building = Cardinality(Counted)
  BY DEF IInv, ReservationsMatch, Counted
<1>3. building' = Cardinality(Counted')
  <2>1. ASSUME NEW r \in Reqs, BuildReserve(r) PROVE building' = Cardinality(Counted')
    <3>1. Counted' = Counted \cup {r} /\ r \notin Counted
      BY <2>1 DEF IInv, TypeOK, BuildReserve, Counted, GoTo
    <3> QED
      BY <1>1, <1>2, <2>1, <3>1, AddCall DEF BuildReserve
  <2>2. ASSUME NEW r \in Reqs, BuildUnreserve(r) PROVE building' = Cardinality(Counted')
    <3>1. Counted' = Counted \ {r} /\ r \in Counted
      BY <2>2 DEF IInv, TypeOK, BuildUnreserve, Counted, GoTo
    <3> QED
      BY <1>1, <1>2, <2>2, <3>1, DropCall DEF BuildUnreserve
  <2>3. ASSUME NEW r \in Reqs, BuildGivesUp(r) PROVE building' = Cardinality(Counted')
    <3>1. CASE rpc[r] = "factory"
      <4>1. Counted' = Counted \ {r} /\ r \in Counted
        BY <2>3, <3>1 DEF IInv, TypeOK, BuildGivesUp, Counted, GoTo
      <4> QED
        BY <1>1, <1>2, <2>3, <3>1, <4>1, DropCall DEF BuildGivesUp
    <3>2. CASE rpc[r] # "factory"
      <4>1. Counted' = Counted
        BY <2>3, <3>2 DEF IInv, TypeOK, BuildGivesUp, Counted, GoTo
      <4> QED
        BY <1>2, <2>3, <3>2, <4>1 DEF BuildGivesUp
    <3> QED
      BY <3>1, <3>2
  <2>4. ASSUME NEW r \in Reqs, Call(r), ~Counting(r) PROVE building' = Cardinality(Counted')
    BY <1>2, <2>4, NotCounting
  <2>5. ASSUME NEW s \in Slots, Turn(s) PROVE building' = Cardinality(Counted')
    BY <1>2, <2>5 DEF Turn, Counted, limits, calls
  <2>6. ASSUME NEW c \in Convs, LeaseExpires(c) PROVE building' = Cardinality(Counted')
    BY <1>2, <2>6 DEF LeaseExpires, Counted, calls
  <2> QED
    BY <2>1, <2>2, <2>3, <2>4, <2>5, <2>6 DEF Next, Counting
<1>4. ReservationsMatch'
  BY <1>3 DEF ReservationsMatch, Counted
<1> QED
  BY <1>1, <1>3, <1>4, FiniteCalls

\* The program counters of a call
PCs == {"new", "enter", "cell", "capacity", "reserve", "refuse", "factory",
        "unreserve", "store", "ending", "done"}

LEMMA GoToType ==
  ASSUME TypeOK, NEW r \in Reqs, NEW p \in PCs, GoTo(r, p)
  PROVE  rpc' \in [Reqs -> PCs]
BY DEF TypeOK, GoTo, PCs

\* Every step keeps the types.
LEMMA TypeStep ==
  ASSUME IInv, Next
  PROVE  TypeOK' /\ scn' \in Scenarios
<1>0. building' \in 0..Cardinality(Reqs) /\ \A r \in Reqs : Conv(r) \in Convs /\ Num(r) \in 0..3
  BY CountStep, CallTypes DEF IInv
<1> USE <1>0 DEF IInv, TypeOK, Slots, PCs
<1>1. ASSUME NEW r \in Reqs, KillStart(r) \/ ClearStart(r) \/ ScanStart(r) PROVE TypeOK'
  <2>1. victims' \in [Reqs -> SUBSET Convs]
    <3>1. CASE KillStart(r)
      BY <3>1 DEF KillStart
    <3>2. CASE ClearStart(r)
      BY <3>2 DEF ClearStart
    <3>3. CASE ScanStart(r)
      BY <3>3 DEF ScanStart
    <3> QED
      BY <1>1, <3>1, <3>2, <3>3
  <2>2. rpc' \in [Reqs -> PCs] /\ UNCHANGED <<scn, pool, limits, rslot, doomed, agents, ghosts>>
    BY <1>1, GoToType DEF KillStart, ClearStart, ScanStart
  <2> QED
    BY <2>1, <2>2 DEF pool, limits, agents, ghosts
<1>2. ASSUME NEW r \in Reqs, Remove(r) PROVE TypeOK'
  BY <1>2 DEF Remove, limits, agents, ghosts
<1>3. ASSUME NEW r \in Reqs, Strike(r) PROVE TypeOK'
  <2>1. doomed[r] \in 1..nextSlot
    BY <1>3 DEF Strike
  <2>2. live' \subseteq 1..nextSlot /\ missed' \subseteq 1..nextSlot
    BY <1>3, <2>1 DEF Strike
  <2>3. doomed' \in [Reqs -> 0..nextSlot]
    BY <1>3 DEF Strike
  <2>4. UNCHANGED <<scn, pool, limits, rpc, rslot, victims, status, slipped, largest>>
    BY <1>3 DEF Strike
  <2> QED
    BY <2>2, <2>3, <2>4 DEF pool, limits
<1>4. ASSUME NEW r \in Reqs, Ended(r) PROVE TypeOK'
  BY <1>4 DEF Ended, GoTo, pool, limits, agents, ghosts
<1>5. ASSUME NEW r \in Reqs, Configure(r) PROVE TypeOK'
  <2>1. limit' = Max({Num(r), 1}) /\ largest' = Max({largest, limit'})
    BY <1>5 DEF Configure
  <2>2. limit' \in 1..3
    <3>1. Num(r) \in 0..3 /\ Num(r) \in Int /\ 1 \in Int
      BY <1>0
    <3>2. Max({Num(r), 1}) \in {Num(r), 1} /\ Max({Num(r), 1}) >= 1
      BY <3>1, MaxOfTwo, Zenon
    <3> QED
      BY <2>1, <3>1, <3>2
  <2>3. largest' \in 1..3
    BY <2>1, <2>2, MaxOfTwo, largest \in Int, limit' \in Int
  <2> QED
    BY <1>5, <2>2, <2>3 DEF Configure, GoTo, pool, agents
<1>6. ASSUME NEW r \in Reqs, BuildLook(r) PROVE TypeOK'
  BY <1>6 DEF BuildLook, GoTo, pool, limits, agents, ghosts
<1>7. ASSUME NEW r \in Reqs, BuildEnter(r) PROVE TypeOK'
  <2>1. rpc' \in [Reqs -> PCs] /\ UNCHANGED <<scn, filled, permit, cap, limits, victims, doomed, agents, ghosts>>
    BY <1>7, GoToType DEF BuildEnter
  <2>2. CASE tasks[Conv(r)] # 0
    <3>1. rslot' \in [Reqs -> 0..nextSlot] /\ UNCHANGED <<tasks, home, nextSlot>>
      BY <1>7, <2>2 DEF BuildEnter
    <3> QED
      BY <2>1, <3>1 DEF limits, agents, ghosts
  <2>3. CASE tasks[Conv(r)] = 0
    <3>1. nextSlot' = nextSlot + 1 /\ nextSlot' \in 0..MaxSlots /\ nextSlot + 1 \in 1..MaxSlots
      BY <1>7, <2>3, TaskAssumption DEF BuildEnter
    <3>2. tasks' \in [Convs -> 0..nextSlot'] /\ rslot' \in [Reqs -> 0..nextSlot']
      <4>1. /\ tasks' = [tasks EXCEPT ![Conv(r)] = nextSlot + 1]
            /\ rslot' = [rslot EXCEPT ![r] = nextSlot + 1]
        BY <1>7, <2>3 DEF BuildEnter
      <4>2. tasks \in [Convs -> 0..nextSlot'] /\ rslot \in [Reqs -> 0..nextSlot'] /\ nextSlot + 1 \in 0..nextSlot'
        BY <3>1
      <4> QED
        BY <4>1, <4>2
    <3>3. home' \in [Slots -> Convs]
      BY <1>7, <2>3, <3>1 DEF BuildEnter
    <3>4. /\ filled \subseteq 1..nextSlot' /\ live \subseteq 1..nextSlot' /\ missed \subseteq 1..nextSlot'
          /\ doomed \in [Reqs -> 0..nextSlot']
      BY <3>1
    <3> QED
      BY <2>1, <3>1, <3>2, <3>3, <3>4 DEF limits, agents, ghosts
  <2> QED
    BY <2>2, <2>3
<1>8. ASSUME NEW r \in Reqs, BuildCell(r) PROVE TypeOK'
  <2>1. rpc' \in [Reqs -> PCs]
    BY <1>8, GoToType DEF BuildCell
  <2>2. permit' \in [Slots -> Reqs \cup {None}] /\ \A s \in filled : permit'[s] = None
    <3>1. \/ UNCHANGED permit
          \/ rslot[r] \notin filled /\ permit' = [permit EXCEPT ![rslot[r]] = r]
      BY <1>8 DEF BuildCell
    <3>2. 1..nextSlot \subseteq Slots
      BY TaskAssumption
    <3>3. permit \in [Slots -> Reqs \cup {None}] /\ \A s \in filled : s \in Slots /\ permit[s] = None
      BY <3>2
    <3> HIDE DEF TypeOK, IInv, Slots
    <3> QED
      BY <3>1, <3>3
  <2>3. UNCHANGED <<scn, tasks, home, filled, cap, nextSlot, limits, rslot, victims, doomed, agents, ghosts>>
    BY <1>8 DEF BuildCell
  <2> QED
    BY <2>1, <2>2, <2>3 DEF limits, agents, ghosts
<1>9. ASSUME NEW r \in Reqs, BuildCapacity(r) PROVE TypeOK'
  <2>1. Cardinality({q \in Reqs : rpc[q] = "store"}) \in Nat
    BY FiniteCalls
  <2>2. slipped' \in Nat
    BY <1>9, <2>1 DEF BuildCapacity
  <2>3. victims' \in [Reqs -> SUBSET Convs]
    <3>1. \/ UNCHANGED victims
          \/ \E S \in SUBSET Convs : victims' = [victims EXCEPT ![r] = S]
      BY <1>9 DEF BuildCapacity
    <3> QED
      BY <3>1
  <2>4. rpc' \in [Reqs -> PCs]
    BY <1>9, GoToType DEF BuildCapacity
  <2>5. capLock' \in Reqs \cup {None}
    BY <1>9 DEF BuildCapacity
  <2>6. UNCHANGED <<scn, pool, building, limit, leased, rslot, doomed, agents, missed, largest>>
    BY <1>9 DEF BuildCapacity
  <2> QED
    BY <2>2, <2>3, <2>4, <2>5, <2>6 DEF pool, agents
<1>10. ASSUME NEW r \in Reqs, permit' = [permit EXCEPT ![rslot[r]] = None]
       PROVE  permit' \in [Slots -> Reqs \cup {None}]
  BY <1>10
<1>11. ASSUME NEW r \in Reqs, BuildRefuse(r) PROVE TypeOK'
  <2>1. rpc' \in [Reqs -> PCs] /\ permit' \in [Slots -> Reqs \cup {None}]
    BY <1>10, <1>11, GoToType DEF BuildRefuse
  <2>2. \A s \in filled : permit'[s] = None
    BY <1>11 DEF BuildRefuse
  <2>3. /\ capLock' = None
        /\ UNCHANGED <<scn, tasks, home, filled, cap, nextSlot, building, limit, leased, rslot, victims, doomed,
                       agents, ghosts>>
    BY <1>11 DEF BuildRefuse
  <2> QED
    BY <2>1, <2>2, <2>3 DEF agents, ghosts
<1>12. ASSUME NEW r \in Reqs, BuildReserve(r) PROVE TypeOK'
  BY <1>12 DEF BuildReserve, GoTo, pool, agents, ghosts
<1>13. ASSUME NEW r \in Reqs, BuildFactory(r) PROVE TypeOK'
  <2>1. rslot[r] \in 1..nextSlot
    BY <1>13 DEF BuildFactory, OwnerInv, Initialising
  <2> QED
    BY <1>13, <2>1 DEF BuildFactory, GoTo, limits, ghosts
<1>14. ASSUME NEW r \in Reqs, BuildGivesUp(r) PROVE TypeOK'
  <2>1. rpc' \in [Reqs -> PCs] /\ permit' \in [Slots -> Reqs \cup {None}]
    BY <1>10, <1>14, GoToType DEF BuildGivesUp
  <2>2. \A s \in filled : permit'[s] = None
    BY <1>14 DEF BuildGivesUp
  <2>3. UNCHANGED <<scn, tasks, home, filled, cap, nextSlot, limit, capLock, leased, rslot, victims, doomed,
                    agents, ghosts>>
    BY <1>14 DEF BuildGivesUp
  <2> QED
    BY <2>1, <2>2, <2>3 DEF agents, ghosts
<1>15. ASSUME NEW r \in Reqs, BuildUnreserve(r) PROVE TypeOK'
  BY <1>15 DEF BuildUnreserve, GoTo, pool, agents, ghosts
<1>16. ASSUME NEW r \in Reqs, BuildStore(r) PROVE TypeOK'
  <2>1. rslot[r] \in 1..nextSlot
    BY <1>16 DEF BuildStore, OwnerInv, Initialising
  <2>2. rpc' \in [Reqs -> PCs] /\ permit' \in [Slots -> Reqs \cup {None}]
    BY <1>10, <1>16, GoToType DEF BuildStore
  <2>3. filled' \subseteq 1..nextSlot /\ \A s \in filled' : permit'[s] = None
    <3>1. filled' = filled \cup {rslot[r]} /\ permit' = [permit EXCEPT ![rslot[r]] = None]
      BY <1>16 DEF BuildStore
    <3>2. filled' \subseteq 1..nextSlot
      BY <2>1, <3>1
    <3>3. 1..nextSlot \subseteq Slots
      BY TaskAssumption
    <3> QED
      BY <3>1, <3>2, <3>3
  <2>4. UNCHANGED <<scn, tasks, home, cap, nextSlot, limits, rslot, victims, doomed, agents, ghosts>>
    BY <1>16 DEF BuildStore
  <2> QED
    BY <2>2, <2>3, <2>4 DEF limits, agents, ghosts
<1>17. ASSUME NEW s \in Slots, Turn(s) PROVE TypeOK'
  BY <1>17 DEF Turn, pool, limits, calls, ghosts
<1>18. ASSUME NEW c \in Convs, LeaseExpires(c) PROVE TypeOK'
  BY <1>18 DEF LeaseExpires, pool, calls, agents, ghosts
<1>19. scn' = scn
  BY DEF Next, Call, KillStart, ClearStart, ScanStart, Remove, Strike, Ended, Configure, BuildLook,
         BuildEnter, BuildCell, BuildCapacity, BuildRefuse, BuildReserve, BuildFactory,
         BuildGivesUp, BuildUnreserve, BuildStore, Turn, LeaseExpires
<1> HIDE DEF TypeOK
<1> QED
  BY <1>1, <1>2, <1>3, <1>4, <1>5, <1>6, <1>7, <1>8, <1>9, <1>11, <1>12, <1>13, <1>14,
     <1>15, <1>16, <1>17, <1>18, <1>19 DEF Next, Call

\* A permit is taken only when it is free, and an empty cell is filled only
\* by its owner.
LEMMA OwnerStep ==
  ASSUME IInv, Next
  PROVE  OwnerInv'
<1> USE DEF IInv, TypeOK, Slots, OwnerInv, Initialising, GoTo
<1>0. ASSUME UNCHANGED <<rslot, nextSlot, permit, filled>>,
             \A q \in Reqs : /\ rpc'[q] = "cell" => rpc[q] = "cell"
                             /\ rpc'[q] \in Initialising => rpc[q] \in Initialising
      PROVE  OwnerInv'
  <2> HIDE DEF TypeOK, Initialising
  <2> QED
    BY <1>0
<1>1. ASSUME NEW r \in Reqs, KillStart(r) \/ ClearStart(r) \/ ScanStart(r) \/ BuildLook(r) \/ Configure(r)
      PROVE  OwnerInv'
  <2>1. UNCHANGED <<rslot, pool>> /\ \E p \in {"ending", "enter", "done"} : GoTo(r, p)
    BY <1>1 DEF KillStart, ClearStart, ScanStart, BuildLook, Configure
  <2> QED
    BY <1>0, <2>1 DEF pool
<1>2. ASSUME NEW r \in Reqs, Remove(r) \/ Strike(r) \/ Ended(r) PROVE OwnerInv'
  <2>1. UNCHANGED <<rslot, nextSlot, permit, filled>> /\ (UNCHANGED rpc \/ GoTo(r, "done"))
    BY <1>2 DEF Remove, Strike, Ended, pool
  <2> QED
    BY <1>0, <2>1
<1>3. ASSUME NEW r \in Reqs, BuildEnter(r) PROVE OwnerInv'
  <2>1. rslot'[r] \in 1..nextSlot' /\ nextSlot' \in nextSlot..(nextSlot + 1)
    <3>1. Conv(r) \in Convs
      BY CallTypes
    <3> QED
      BY <1>3, <3>1 DEF BuildEnter
  <2>2. \A q \in Reqs \ {r} : rslot'[q] = rslot[q] /\ rpc'[q] = rpc[q]
    BY <1>3 DEF BuildEnter
  <2>3. rpc'[r] = "cell" /\ UNCHANGED <<filled, permit>>
    BY <1>3 DEF BuildEnter
  <2> QED
    BY <2>1, <2>2, <2>3
<1>4. ASSUME NEW r \in Reqs, BuildCell(r) PROVE OwnerInv'
  <2>1. rslot[r] \in 1..nextSlot /\ rslot[r] \in Slots
    BY <1>4, TaskAssumption DEF BuildCell
  <2>2. \A q \in Reqs : rpc[q] \in Initialising => permit[rslot[q]] # None
    BY TaskAssumption
  <2>3. CASE rslot[r] \in filled
    BY <1>0, <1>4, <2>3 DEF BuildCell
  <2>4. CASE rslot[r] \notin filled
    <3>1. /\ permit[rslot[r]] = None /\ permit' = [permit EXCEPT ![rslot[r]] = r]
          /\ GoTo(r, "capacity") /\ UNCHANGED <<rslot, nextSlot, filled>>
      BY <1>4, <2>4 DEF BuildCell
    <3> QED
      BY <2>1, <2>2, <2>4, <3>1
  <2> QED
    BY <2>3, <2>4
<1>5. ASSUME NEW r \in Reqs, BuildCapacity(r) PROVE OwnerInv'
  <2>1. rpc[r] = "capacity" /\ UNCHANGED <<rslot, pool>> /\ (GoTo(r, "reserve") \/ GoTo(r, "refuse"))
    BY <1>5 DEF BuildCapacity
  <2> QED
    BY <2>1 DEF pool
<1>6. ASSUME NEW r \in Reqs, BuildReserve(r) \/ BuildFactory(r) \/ BuildUnreserve(r) PROVE OwnerInv'
  <2>1. /\ UNCHANGED <<rslot, nextSlot, permit, filled>> /\ rpc[r] \in Initialising
        /\ \E p \in {"factory", "unreserve", "store"} : GoTo(r, p)
    BY <1>6 DEF BuildReserve, BuildFactory, BuildUnreserve, pool
  <2> QED
    BY <1>0, <2>1
<1>7. ASSUME NEW r \in Reqs, BuildRefuse(r) \/ BuildGivesUp(r) \/ BuildStore(r) PROVE OwnerInv'
  <2>1. rpc'[r] = "done" /\ UNCHANGED <<rslot, nextSlot>> /\ \A q \in Reqs \ {r} : rpc'[q] = rpc[q]
    BY <1>7 DEF BuildRefuse, BuildGivesUp, BuildStore
  <2>2. CASE rpc[r] = "cell"
    BY <1>7, <2>1, <2>2 DEF BuildRefuse, BuildGivesUp, BuildStore
  <2>3. CASE rpc[r] # "cell"
    <3>1. rpc[r] \in Initialising /\ permit' = [permit EXCEPT ![rslot[r]] = None]
      BY <1>7, <2>3 DEF BuildRefuse, BuildGivesUp, BuildStore
    <3>2. filled' \subseteq filled \cup {rslot[r]}
      BY <1>7 DEF BuildRefuse, BuildGivesUp, BuildStore
    <3>3. \A q \in Reqs \ {r} : rpc[q] \in Initialising => rslot[q] # rslot[r]
      BY <3>1
    <3> QED
      BY <2>1, <3>1, <3>2, <3>3
  <2> QED
    BY <2>2, <2>3
<1>8. ASSUME NEW s \in Slots, Turn(s) PROVE OwnerInv'
  BY <1>8 DEF Turn, pool, calls
<1>9. ASSUME NEW c \in Convs, LeaseExpires(c) PROVE OwnerInv'
  BY <1>9 DEF LeaseExpires, pool, calls
<1> HIDE DEF IInv, TypeOK, OwnerInv
<1> QED
  BY <1>1, <1>2, <1>3, <1>4, <1>5, <1>6, <1>7, <1>8, <1>9 DEF Next, Call

\* A second call is admitted only when the capacity lock is free again.
LEMMA AdmitStep ==
  ASSUME IInv, Next
  PROVE  AdmitInv'
<1> USE DEF IInv, TypeOK, AdmitInv, GoTo
<1>1. ASSUME NEW r \in Reqs, KillStart(r) \/ ClearStart(r) \/ ScanStart(r) \/ BuildLook(r) \/ Configure(r)
      PROVE  AdmitInv'
  BY <1>1 DEF KillStart, ClearStart, ScanStart, BuildLook, Configure, limits
<1>2. ASSUME NEW r \in Reqs, Remove(r) PROVE AdmitInv'
  <2>1. UNCHANGED <<rpc, capLock>> /\ \A q \in Reqs : victims'[q] \subseteq victims[q]
    BY <1>2 DEF Remove, limits
  <2> QED
    BY <2>1
<1>3. ASSUME NEW r \in Reqs, Strike(r) \/ Ended(r) PROVE AdmitInv'
  BY <1>3 DEF Strike, Ended, limits
<1>4. ASSUME NEW r \in Reqs, BuildEnter(r) \/ BuildCell(r) PROVE AdmitInv'
  BY <1>4 DEF BuildEnter, BuildCell, Clean, limits
<1>5. ASSUME NEW r \in Reqs, BuildCapacity(r) PROVE AdmitInv'
  <2>1. capLock = None /\ capLock' = r /\ \A q \in Reqs \ {r} : rpc'[q] = rpc[q] /\ victims'[q] = victims[q]
    BY <1>5 DEF BuildCapacity
  <2>2. rpc'[r] \in {"reserve", "refuse"}
    BY <1>5 DEF BuildCapacity
  <2>3. rpc'[r] = "reserve" => \E c \in Convs : victims'[r] \subseteq {c}
    <3>1. CASE UNCHANGED victims
      BY <1>5, <3>1, TaskAssumption DEF BuildCapacity
    <3>2. CASE ~ UNCHANGED victims
      BY <1>5, <3>2 DEF BuildCapacity
    <3> QED
      BY <3>1, <3>2
  <2>4. \A q \in Reqs : rpc[q] \notin {"reserve", "refuse"}
    BY <2>1, TaskAssumption
  <2> QED
    BY <2>1, <2>2, <2>3, <2>4
<1>6. ASSUME NEW r \in Reqs, BuildRefuse(r) \/ BuildReserve(r) PROVE AdmitInv'
  BY <1>6 DEF BuildRefuse, BuildReserve
<1>7. ASSUME NEW r \in Reqs, BuildFactory(r) \/ BuildUnreserve(r) \/ BuildGivesUp(r) \/ BuildStore(r) PROVE AdmitInv'
  BY <1>7 DEF BuildFactory, BuildUnreserve, BuildGivesUp, BuildStore, limits
<1>8. ASSUME NEW s \in Slots, Turn(s) PROVE AdmitInv'
  BY <1>8 DEF Turn, limits, calls
<1>9. ASSUME NEW c \in Convs, LeaseExpires(c) PROVE AdmitInv'
  BY <1>9 DEF LeaseExpires, calls
<1> HIDE DEF IInv, TypeOK, AdmitInv
<1> QED
  BY <1>1, <1>2, <1>3, <1>4, <1>5, <1>6, <1>7, <1>8, <1>9 DEF Next, Call

\* The map changes by removing an entry and by entering a new slot.
LEMMA HomeStep ==
  ASSUME IInv, Next
  PROVE  HomeInv'
<1> USE DEF IInv, TypeOK, Slots, HomeInv
<1>1. ASSUME NEW r \in Reqs, Remove(r) PROVE HomeInv'
  <2>1. home' = home /\ \A c \in Convs : tasks'[c] \in {0, tasks[c]}
    BY <1>1 DEF Remove
  <2> QED
    BY <2>1
<1>2. ASSUME NEW r \in Reqs, BuildEnter(r) PROVE HomeInv'
  <2>1. CASE UNCHANGED <<tasks, home>>
    BY <2>1
  <2>2. CASE ~ UNCHANGED <<tasks, home>>
    <3>1. /\ nextSlot < MaxSlots
          /\ tasks' = [tasks EXCEPT ![Conv(r)] = nextSlot + 1]
          /\ home' = [home EXCEPT ![nextSlot + 1] = Conv(r)]
      BY <1>2, <2>2 DEF BuildEnter
    <3>2. nextSlot + 1 \in Slots /\ Conv(r) \in Convs /\ \A c \in Convs : tasks[c] # nextSlot + 1
      BY <3>1, CallTypes, TaskAssumption
    <3>3. \A c \in Convs : tasks[c] # 0 => tasks[c] \in Slots
      BY TaskAssumption
    <3> QED
      BY <3>1, <3>2, <3>3
  <2> QED
    BY <2>1, <2>2
<1>3. ASSUME UNCHANGED <<tasks, home>> PROVE HomeInv'
  BY <1>3
<1> HIDE DEF IInv, TypeOK, HomeInv
<1> QED
  BY <1>1, <1>2, <1>3
  DEF Next, Call, KillStart, ClearStart, ScanStart, Strike, Ended, Configure, BuildLook,
      BuildCell, BuildCapacity, BuildRefuse, BuildReserve, BuildFactory,
      BuildGivesUp, BuildUnreserve, BuildStore, Turn, LeaseExpires, pool

\* A slot leaves the map into the hands of a kill, which looks into its cell.
LEMMA SlotStep ==
  ASSUME IInv, Next
  PROVE  SlotInv'
<1> USE DEF IInv, TypeOK, Slots, SlotInv, Accounted
<1>1. ASSUME NEW r \in Reqs, Remove(r) PROVE SlotInv'
  <2>1. PICK c \in Convs : /\ doomed[r] = 0 /\ doomed' = [doomed EXCEPT ![r] = tasks[c]]
                           /\ tasks' = [tasks EXCEPT ![c] = 0]
    BY <1>1 DEF Remove
  <2>2. UNCHANGED <<home, filled, live, missed, nextSlot>>
    BY <1>1 DEF Remove, agents, ghosts
  <2> SUFFICES ASSUME NEW s \in 1..nextSlot PROVE Accounted(s)'
    BY <2>2
  <2>3. CASE tasks[home[s]] = s
    <3>1. home[s] \in Convs
      BY TaskAssumption
    <3>2. CASE home[s] = c
      BY <2>1, <2>3, <3>2
    <3>3. CASE home[s] # c
      BY <2>1, <2>2, <2>3, <3>1, <3>3
    <3> QED
      BY <3>2, <3>3
  <2>4. CASE \E q \in Reqs : doomed[q] = s
    BY <2>1, <2>4
  <2>5. CASE s \in missed \/ (s \in filled /\ s \notin live)
    BY <2>2, <2>5
  <2> QED
    BY <2>3, <2>4, <2>5
<1>2. ASSUME NEW r \in Reqs, Strike(r) PROVE SlotInv'
  <2>1. UNCHANGED <<tasks, home, filled, nextSlot>> /\ doomed' = [doomed EXCEPT ![r] = 0]
    BY <1>2 DEF Strike, pool
  <2>2. live' \subseteq live /\ missed \subseteq missed'
    BY <1>2 DEF Strike
  <2>3. doomed[r] \in missed' \/ (doomed[r] \in filled /\ doomed[r] \notin live')
    BY <1>2 DEF Strike
  <2> QED
    BY <2>1, <2>2, <2>3
<1>3. ASSUME NEW r \in Reqs, BuildEnter(r) PROVE SlotInv'
  <2>1. UNCHANGED <<filled, doomed, live, missed>>
    BY <1>3 DEF BuildEnter, agents, ghosts
  <2>2. CASE UNCHANGED <<tasks, home, nextSlot>>
    BY <2>1, <2>2
  <2>3. CASE ~ UNCHANGED <<tasks, home, nextSlot>>
    <3>1. /\ tasks[Conv(r)] = 0 /\ nextSlot < MaxSlots /\ nextSlot' = nextSlot + 1
          /\ tasks' = [tasks EXCEPT ![Conv(r)] = nextSlot + 1]
          /\ home' = [home EXCEPT ![nextSlot + 1] = Conv(r)]
      BY <1>3, <2>3 DEF BuildEnter
    <3>2. nextSlot + 1 \in Slots /\ Conv(r) \in Convs
      BY <3>1, CallTypes, TaskAssumption
    <3> SUFFICES ASSUME NEW s \in 1..(nextSlot + 1) PROVE Accounted(s)'
      BY <3>1
    <3>3. CASE s = nextSlot + 1
      BY <3>1, <3>2, <3>3
    <3>4. CASE s \in 1..nextSlot
      <4>1. s \in Slots /\ home'[s] = home[s]
        BY <3>1, <3>4, TaskAssumption
      <4>2. tasks[home[s]] = s => tasks'[home[s]] = s
        BY <3>1, <3>4, <4>1
      <4> QED
        BY <2>1, <3>4, <4>1, <4>2
    <3> QED
      BY <3>3, <3>4
  <2> QED
    BY <2>2, <2>3
<1>4. ASSUME NEW r \in Reqs, BuildFactory(r) PROVE SlotInv'
  <2>1. UNCHANGED <<tasks, home, doomed, missed, nextSlot, filled>> /\ live' = live \cup {rslot[r]}
    BY <1>4 DEF BuildFactory, ghosts
  <2>2. rslot[r] \notin filled
    BY <1>4 DEF BuildFactory, OwnerInv, Initialising
  <2> QED
    BY <2>1, <2>2
<1>5. ASSUME NEW r \in Reqs, BuildStore(r) PROVE SlotInv'
  <2>1. UNCHANGED <<tasks, home, doomed, missed, nextSlot, live>> /\ filled \subseteq filled'
    BY <1>5 DEF BuildStore, ghosts, agents
  <2> QED
    BY <2>1
<1>6. ASSUME UNCHANGED <<tasks, home, doomed, missed, nextSlot, filled, live>> PROVE SlotInv'
  BY <1>6
<1> HIDE DEF IInv, TypeOK, SlotInv
<1> QED
  BY <1>1, <1>2, <1>3, <1>4, <1>5, <1>6
  DEF Next, Call, KillStart, ClearStart, ScanStart, Ended, Configure, BuildLook,
      BuildCell, BuildCapacity, BuildRefuse, BuildReserve, BuildGivesUp, BuildUnreserve,
      Turn, LeaseExpires, pool, calls, agents, ghosts

\* A step that takes no build on and brings no agent more is harmless.
LEMMA RoomKept ==
  ASSUME IInv, limit' <= largest', largest' + slipped' >= largest + slipped,
         largest' \in Nat, slipped' \in Nat,
         Staying' \subseteq Staying, Committed' \subseteq Committed
  PROVE  RoomInv'
<1>1. Staying \in SUBSET Convs /\ Committed \in SUBSET Reqs
  BY DEF Staying, Active, Committed
<1>2. /\ Cardinality(Staying) \in Nat /\ Cardinality(Staying') \in Nat
      /\ Cardinality(Staying') <= Cardinality(Staying)
  BY <1>1, FiniteConvs, FS_Subset
<1>3. /\ Cardinality(Committed) \in Nat /\ Cardinality(Committed') \in Nat
      /\ Cardinality(Committed') <= Cardinality(Committed)
  BY <1>1, FiniteCalls, FS_Subset
<1>4. largest + slipped \in Nat
  BY DEF IInv, TypeOK
<1> QED
  BY <1>2, <1>3, <1>4 DEF IInv, RoomInv

\* An admission: the call is committed, and either there was room for it
\* among the agents and the counted builds, or an agent has to leave.
LEMMA RoomCapacity ==
  ASSUME IInv, NEW r \in Reqs, BuildCapacity(r)
  PROVE  RoomInv'
<1> DEFINE Stored == {q \in Reqs : rpc[q] = "store"}
<1>1. /\ rpc[r] = "capacity" /\ capLock = None
      /\ UNCHANGED <<pool, building, limit, agents, largest>>
  BY DEF BuildCapacity
<1>2. \A q \in Reqs : rpc[q] \notin {"reserve", "refuse"}
  BY <1>1, TaskAssumption DEF IInv, AdmitInv
<1>3. victims[r] = {}
  BY <1>1 DEF IInv, AdmitInv
<1>4. Staying = Active /\ Active' = Active /\ Active \in SUBSET Convs
  BY <1>1, <1>2 DEF Staying, Active, Initialised, pool
<1>5. limit \in Nat /\ largest \in Nat /\ slipped \in Nat /\ limit <= largest /\ largest' = largest /\ limit' = limit
  BY <1>1 DEF IInv, TypeOK, RoomInv
<1>6. Cardinality(Active) \in Nat /\ IsFiniteSet(Active)
  BY <1>4, FiniteConvs
<1>7. Counted \in SUBSET Reqs /\ Stored \in SUBSET Reqs /\ Committed \in SUBSET Reqs
  BY DEF Counted, Committed
<1>8. Cardinality(Counted) \in Nat /\ Cardinality(Stored) \in Nat /\ Cardinality(Committed) \in Nat
  BY <1>7, FiniteCalls
<1>9. Cardinality(Active) + Cardinality(Committed) <= largest + slipped
  BY <1>4 DEF IInv, RoomInv
<1>10. Cardinality(Committed) = Cardinality(Counted) + Cardinality(Stored)
  <2>1. Committed = Counted \cup Stored /\ Counted \cap Stored = {}
    BY <1>2 DEF Committed, Counted
  <2> QED
    <3>1. IsFiniteSet(Counted) /\ IsFiniteSet(Stored)
      BY <1>7, FiniteCalls
    <3>2. Cardinality(Committed) = Cardinality(Counted) + Cardinality(Stored) - Cardinality({})
      <4> HIDE DEF Stored
      <4>1. Cardinality(Counted \cup Stored)
              = Cardinality(Counted) + Cardinality(Stored) - Cardinality(Counted \cap Stored)
        BY <3>1, FS_Union, Zenon
      <4> QED
        BY <2>1, <4>1
    <3> QED
      BY <1>8, <3>2, FS_EmptySet
<1>11. building = Cardinality(Counted)
  BY DEF IInv, ReservationsMatch, Counted
<1>12. CASE GoTo(r, "refuse") /\ slipped' = slipped
  <2>1. Committed' = Committed /\ \A q \in Reqs : rpc'[q] # "reserve"
    BY <1>1, <1>2, <1>12 DEF IInv, TypeOK, GoTo, Committed
  <2>2. Staying' = Active
    BY <1>4, <2>1 DEF Staying
  <2> QED
    BY <1>4, <1>5, <1>12, <2>1, <2>2, RoomKept
<1>13. CASE GoTo(r, "reserve") /\ slipped' = slipped + Cardinality(Stored)
  <2>1. Committed' = Committed \cup {r} /\ r \notin Committed
    BY <1>1, <1>13 DEF IInv, TypeOK, GoTo, Committed
  <2>2. Cardinality(Committed') = Cardinality(Committed) + 1
    BY <1>7, <2>1, AddCall
  <2>3. Staying' = Active \ victims'[r]
    <3>1. \A q \in Reqs : rpc'[q] = "reserve" <=> q = r
      BY <1>2, <1>13 DEF IInv, TypeOK, GoTo
    <3> QED
      BY <1>4, <3>1 DEF Staying
  <2>4. CASE UNCHANGED victims /\ Cardinality(Active) + building < limit
    <3>1. Staying' = Active
      BY <1>3, <2>3, <2>4
    <3> QED
      BY <1>5, <1>6, <1>8, <1>10, <1>11, <1>13, <2>2, <2>4, <3>1 DEF RoomInv
  <2>5. CASE \E c \in Active : victims'[r] = {c}
    <3>1. PICK c \in Active : victims'[r] = {c}
      BY <2>5
    <3>2. Cardinality(Staying') = Cardinality(Active) - 1
      BY <1>6, <2>3, <3>1, FS_RemoveElement
    <3> QED
      BY <1>5, <1>6, <1>8, <1>9, <1>13, <2>2, <3>2 DEF RoomInv
  <2>6. \/ UNCHANGED victims /\ Cardinality(Active) + building < limit
        \/ \E c \in Active : victims'[r] = {c}
    <3>1. PICK m \in scn.memory :
            LET bound == IF m = "pressed" THEN Min({limit, PressureCap}) ELSE limit
                idle  == {c \in Convs \ {Conv(r)} : AgentIdle(c)}
                room  == Cardinality(Active) + building < bound
            IN  \/ UNCHANGED victims /\ room
                \/ \E c \in idle : victims' = [victims EXCEPT ![r] = {c}]
      BY <1>13 DEF BuildCapacity, GoTo, IInv, TypeOK
    <3>2. Min({limit, PressureCap}) <= limit /\ Min({limit, PressureCap}) \in Int
      <4>1. limit \in Int /\ PressureCap \in Int
        BY <1>5, TaskAssumption
      <4>2. Min({limit, PressureCap}) \in {limit, PressureCap} /\ Min({limit, PressureCap}) <= limit
        BY <4>1, MinOfTwo, Zenon
      <4> QED
        BY <4>1, <4>2
    <3>3. CASE UNCHANGED victims /\ Cardinality(Active) + building < (IF m = "pressed" THEN Min({limit, PressureCap}) ELSE limit)
      BY <1>5, <1>6, <1>8, <1>11, <3>2, <3>3
    <3>4. CASE \E c \in {c \in Convs \ {Conv(r)} : AgentIdle(c)} : victims' = [victims EXCEPT ![r] = {c}]
      BY <3>4 DEF AgentIdle, Active, IInv, TypeOK
    <3> QED
      BY <3>1, <3>3, <3>4
  <2> QED
    BY <2>4, <2>5, <2>6
<1> QED
  BY <1>12, <1>13 DEF BuildCapacity

\* The agent that a build stores takes the place of the build.
LEMMA RoomStore ==
  ASSUME IInv, NEW r \in Reqs, BuildStore(r)
  PROVE  RoomInv'
<1>1. /\ rpc[r] = "store" /\ GoTo(r, "done") /\ filled' = filled \cup {rslot[r]}
      /\ UNCHANGED <<tasks, home, limit, largest, slipped, victims>>
  BY DEF BuildStore, limits, ghosts
<1>2. Staying \in SUBSET Convs /\ Committed \in SUBSET Reqs
  BY DEF Staying, Active, Committed
<1>3. Committed' = Committed \ {r} /\ r \in Committed
  BY <1>1 DEF IInv, TypeOK, GoTo, Committed
<1>4. Cardinality(Committed') = Cardinality(Committed) - 1
  BY <1>2, <1>3, DropCall
<1>5. Staying' \subseteq Staying \cup {home[rslot[r]]}
  <2>1. \A q \in Reqs : rpc'[q] = "reserve" <=> rpc[q] = "reserve"
    BY <1>1 DEF IInv, TypeOK, GoTo
  <2>2. Active' \subseteq Active \cup {home[rslot[r]]}
    <3>1. rslot[r] # 0
      BY <1>1 DEF IInv, TypeOK, OwnerInv, Initialising
    <3> QED
      BY <1>1, <3>1 DEF Active, Initialised, IInv, HomeInv
  <2> QED
    BY <1>1, <2>1, <2>2 DEF Staying
<1>6. IsFiniteSet(Staying) /\ Cardinality(Staying) \in Nat
  BY <1>2, FiniteConvs
<1>7. /\ IsFiniteSet(Staying \cup {home[rslot[r]]})
      /\ Cardinality(Staying \cup {home[rslot[r]]}) <= Cardinality(Staying) + 1
      /\ Cardinality(Staying \cup {home[rslot[r]]}) \in Nat
  BY <1>6, FS_AddElement
<1>8. Cardinality(Staying') <= Cardinality(Staying) + 1 /\ Cardinality(Staying') \in Nat
  BY <1>5, <1>6, <1>7, FS_Subset, FS_CardinalityType
<1>9. Cardinality(Committed) \in Nat
  BY <1>2, FiniteCalls
<1> QED
  BY <1>1, <1>4, <1>6, <1>8, <1>9 DEF IInv, TypeOK, RoomInv

\* Only an admission needs room; every other step leaves as much or more.
LEMMA RoomStep ==
  ASSUME IInv, Next
  PROVE  RoomInv'
<1>0. /\ limit \in Nat /\ largest \in Nat /\ slipped \in Nat /\ limit <= largest
      /\ rpc \in [Reqs -> PCs] /\ victims \in [Reqs -> SUBSET Convs]
  BY DEF IInv, TypeOK, RoomInv, PCs
<1>1. ASSUME UNCHANGED <<limit, largest, slipped>>, Staying' \subseteq Staying, Committed' \subseteq Committed
      PROVE  RoomInv'
  BY <1>0, <1>1, RoomKept
<1>2. ASSUME UNCHANGED <<tasks, filled, limit, largest, slipped, victims>>,
             \A q \in Reqs : /\ rpc[q] = "reserve" => rpc'[q] = "reserve"
                             /\ rpc'[q] \in {"reserve", "factory", "unreserve", "store"}
                                  => rpc[q] \in {"reserve", "factory", "unreserve", "store"}
      PROVE  RoomInv'
  <2>1. Staying' \subseteq Staying /\ Committed' \subseteq Committed
    BY <1>2 DEF Staying, Active, Initialised, Committed
  <2> QED
    BY <1>1, <1>2, <2>1
<1>3. ASSUME NEW r \in Reqs, KillStart(r) \/ ClearStart(r) \/ ScanStart(r) \/ BuildLook(r) PROVE RoomInv'
  <2>1. /\ rpc[r] = "new" /\ UNCHANGED <<tasks, filled, limit, largest, slipped>>
        /\ GoTo(r, "ending") \/ GoTo(r, "enter")
        /\ \A q \in Reqs \ {r} : victims'[q] = victims[q]
    BY <1>0, <1>3 DEF KillStart, ClearStart, ScanStart, BuildLook, pool, limits, ghosts
  <2>2. \A q \in Reqs : rpc[q] = "reserve" => rpc'[q] = "reserve" /\ victims'[q] = victims[q]
    BY <1>0, <2>1 DEF GoTo
  <2>3. Staying' \subseteq Staying
    BY <2>1, <2>2 DEF Staying, Active, Initialised
  <2>4. Committed' \subseteq Committed
    BY <1>0, <2>1 DEF Committed, GoTo
  <2> QED
    BY <1>1, <2>1, <2>3, <2>4
<1>4. ASSUME NEW r \in Reqs, Remove(r) PROVE RoomInv'
  <2>1. PICK c \in Convs : /\ victims' = [victims EXCEPT ![r] = @ \ {c}]
                           /\ tasks' = [tasks EXCEPT ![c] = 0]
    BY <1>0, <1>4 DEF Remove
  <2>2. UNCHANGED <<rpc, filled, limit, largest, slipped>>
    BY <1>4 DEF Remove, limits, ghosts
  <2>3. 0 \notin filled
    BY DEF IInv, TypeOK
  <2>4. Active' \subseteq Active \ {c}
    BY <2>1, <2>2, <2>3 DEF Active, Initialised, IInv, TypeOK
  <2>5. \A q \in Reqs : victims[q] \subseteq victims'[q] \cup {c}
    BY <1>0, <2>1
  <2>6. Staying' \subseteq Staying
    BY <2>2, <2>4, <2>5 DEF Staying
  <2>7. Committed' = Committed
    BY <2>2 DEF Committed
  <2> QED
    BY <1>1, <2>2, <2>6, <2>7
<1>5. ASSUME NEW r \in Reqs, Strike(r) \/ Ended(r) PROVE RoomInv'
  <2>1. /\ UNCHANGED <<tasks, filled, limit, largest, slipped, victims>>
        /\ UNCHANGED rpc \/ (rpc[r] = "ending" /\ GoTo(r, "done"))
    BY <1>5 DEF Strike, Ended, pool, limits, ghosts
  <2> QED
    BY <1>0, <1>2, <2>1 DEF GoTo
<1>6. ASSUME NEW r \in Reqs, Configure(r) PROVE RoomInv'
  <2>1. /\ limit' = Max({Num(r), 1}) /\ largest' = Max({largest, limit'})
        /\ rpc[r] = "new" /\ GoTo(r, "done") /\ UNCHANGED <<tasks, filled, slipped, victims>>
    BY <1>6 DEF Configure, pool
  <2>2. limit' \in Int /\ largest \in Int
    BY <1>0, TypeStep DEF TypeOK
  <2>3. largest' \in {largest, limit'} /\ largest' >= largest /\ largest' >= limit'
    BY <2>1, <2>2, MaxOfTwo, Zenon
  <2>4. Staying' \subseteq Staying /\ Committed' \subseteq Committed
    BY <1>0, <2>1 DEF Staying, Active, Initialised, Committed, GoTo
  <2>5. largest' \in Nat /\ slipped' \in Nat
    BY TypeStep DEF TypeOK
  <2> QED
    BY <1>0, <2>1, <2>2, <2>3, <2>4, <2>5, RoomKept
<1>7. ASSUME NEW r \in Reqs, BuildEnter(r) PROVE RoomInv'
  <2>1. /\ UNCHANGED <<filled, limit, largest, slipped, victims>> /\ rpc[r] = "enter" /\ GoTo(r, "cell")
        /\ UNCHANGED tasks \/ tasks' = [tasks EXCEPT ![Conv(r)] = nextSlot + 1]
    BY <1>7 DEF BuildEnter, limits, ghosts
  <2>2. nextSlot + 1 \notin filled
    BY DEF IInv, TypeOK
  <2>3. Active' \subseteq Active
    BY <2>1, <2>2 DEF Active, Initialised, IInv, TypeOK
  <2>4. Staying' \subseteq Staying /\ Committed' \subseteq Committed
    BY <1>0, <2>1, <2>3 DEF Staying, Committed, GoTo
  <2> QED
    BY <1>1, <2>1, <2>4
<1>8. ASSUME NEW r \in Reqs, BuildCell(r) \/ BuildRefuse(r) \/ BuildGivesUp(r) PROVE RoomInv'
  <2>1. /\ UNCHANGED <<tasks, filled, limit, largest, slipped, victims>> /\ rpc[r] # "reserve"
        /\ GoTo(r, "done") \/ GoTo(r, "capacity")
    BY <1>8 DEF BuildCell, BuildRefuse, BuildGivesUp, limits, ghosts
  <2> QED
    BY <1>0, <1>2, <2>1 DEF GoTo
<1>9. ASSUME NEW r \in Reqs, BuildFactory(r) \/ BuildUnreserve(r) PROVE RoomInv'
  <2>1. /\ UNCHANGED <<tasks, filled, limit, largest, slipped, victims>> /\ rpc[r] \in {"factory", "unreserve"}
        /\ GoTo(r, "unreserve") \/ GoTo(r, "store")
    BY <1>9 DEF BuildFactory, BuildUnreserve, pool, limits, ghosts
  <2> QED
    BY <1>0, <1>2, <2>1 DEF GoTo
<1>10. ASSUME NEW r \in Reqs, BuildReserve(r) PROVE RoomInv'
  <2>1. /\ UNCHANGED <<tasks, filled, limit, largest, slipped, victims>> /\ rpc[r] = "reserve"
        /\ GoTo(r, "factory") /\ victims[r] = {}
    BY <1>10 DEF BuildReserve, Clean, pool, ghosts
  <2>2. Staying' \subseteq Staying /\ Committed' \subseteq Committed
    BY <1>0, <2>1 DEF Staying, Active, Initialised, Committed, GoTo
  <2> QED
    BY <1>1, <2>1, <2>2
<1>11. ASSUME NEW s \in Slots, Turn(s) PROVE RoomInv'
  BY <1>2, <1>11 DEF Turn, pool, limits, calls, ghosts
<1>12. ASSUME NEW c \in Convs, LeaseExpires(c) PROVE RoomInv'
  BY <1>2, <1>12 DEF LeaseExpires, pool, calls, ghosts
<1> QED
  BY <1>3, <1>4, <1>5, <1>6, <1>7, <1>8, <1>9, <1>10, <1>11, <1>12, RoomCapacity, RoomStore DEF Next, Call

\* The invariant is kept by every step.
LEMMA IInvStep == IInv /\ [Next]_vars => IInv'
<1> SUFFICES ASSUME IInv, [Next]_vars PROVE IInv'
  OBVIOUS
<1>1. CASE Next
  BY <1>1, TypeStep, CountStep, OwnerStep, AdmitStep, HomeStep, SlotStep, RoomStep DEF IInv
<1>2. CASE UNCHANGED vars
  BY <1>2 DEF vars, pool, limits, calls, agents, ghosts, IInv, TypeOK, ReservationsMatch, OwnerInv,
              AdmitInv, HomeInv, SlotInv, Accounted, RoomInv, Staying, Committed, Active, Initialised
<1> QED
  BY <1>1, <1>2

-----------------------------------------------------------------------------
(* The theorems *)

(* The conjunction that the results below are read from.                    *)
THEOREM Invariance == Spec => []IInv
<1> QED
  BY InitIInv, IInvStep, PTL DEF Spec

(* The type invariant: in particular the count of builds never drops below   *)
(* zero and never exceeds the number of calls, however builds end.           *)
THEOREM TypeCorrect == Spec => []TypeOK
<1>1. IInv => TypeOK
  BY DEF IInv
<1> QED
  BY <1>1, Invariance, PTL

(* building_count is the number of builds between their admission and the    *)
(* end of their factory, whether that end is a success, a failure or a drop. *)
THEOREM ReservationsAreMatched == Spec => []ReservationsMatch
<1>1. IInv => ReservationsMatch
  BY DEF IInv
<1> QED
  BY <1>1, Invariance, PTL

(* No agent runs outside the map and outside the hands of a kill, unless     *)
(* its slot was removed before its cell was filled.                          *)
THEOREM AgentsAreNotLost == Spec => []NoLostAgent
<1>1. IInv => NoLostAgent
  <2> SUFFICES ASSUME IInv, NEW s \in live \ missed
               PROVE  tasks[home[s]] = s \/ \E r \in Reqs : doomed[r] = s
    BY DEF NoLostAgent
  <2>1. s \in 1..nextSlot
    BY DEF IInv, TypeOK
  <2> QED
    BY <2>1 DEF IInv, SlotInv, Accounted
<1> QED
  BY <1>1, Invariance, PTL

(* The resident agents and the builds in progress exceed the largest limit   *)
(* ever configured by no more than the agents that were built and not yet    *)
(* stored when another build was admitted.                                   *)
THEOREM ResidentsAreBounded == Spec => []ResidentBound
<1>1. IInv => ResidentBound
  <2> SUFFICES ASSUME IInv PROVE ResidentBound
    OBVIOUS
  <2>1. /\ Active \in SUBSET Convs /\ Staying \in SUBSET Convs
        /\ Counted \in SUBSET Reqs /\ Committed \in SUBSET Reqs
    BY DEF Active, Staying, Counted, Committed
  <2>2. /\ Cardinality(Active) \in Nat /\ Cardinality(Staying) \in Nat /\ IsFiniteSet(Staying)
        /\ Cardinality(Counted) \in Nat /\ Cardinality(Committed) \in Nat
        /\ IsFiniteSet(Committed) /\ largest + slipped \in Nat
    BY <2>1, FiniteConvs, FiniteCalls DEF IInv, TypeOK
  <2>3. building = Cardinality(Counted)
    BY DEF IInv, ReservationsMatch, Counted
  <2>4. CASE \A r \in Reqs : rpc[r] # "reserve"
    <3>1. Active = Staying
      BY <2>4 DEF Staying
    <3>2. Cardinality(Counted) <= Cardinality(Committed)
      <4>1. Counted \in SUBSET Committed
        BY DEF Counted, Committed
      <4> QED
        BY <2>2, <4>1, FS_Subset
    <3> QED
      BY <2>2, <2>3, <3>1, <3>2 DEF IInv, RoomInv, ResidentBound
  <2>5. ASSUME NEW r \in Reqs, rpc[r] = "reserve" PROVE ResidentBound
    <3>1. PICK c \in Convs : victims[r] \subseteq {c}
      BY <2>5 DEF IInv, AdmitInv
    <3>2. \A q \in Reqs : rpc[q] = "reserve" => q = r
      BY <2>5 DEF IInv, AdmitInv
    <3>3. Active \in SUBSET (Staying \cup {c})
      BY <3>1, <3>2 DEF Staying
    <3>4. /\ IsFiniteSet(Staying \cup {c}) /\ Cardinality(Staying \cup {c}) \in Nat
          /\ Cardinality(Staying \cup {c}) <= Cardinality(Staying) + 1
      BY <2>2, FS_AddElement
    <3>5. Cardinality(Active) <= Cardinality(Staying) + 1
      BY <2>2, <3>3, <3>4, FS_Subset
    <3>6. Counted \in SUBSET (Committed \ {r}) /\ r \in Committed
      BY <2>5 DEF Counted, Committed
    <3>7. Cardinality(Committed \ {r}) = Cardinality(Committed) - 1 /\ IsFiniteSet(Committed \ {r})
      BY <2>1, <2>2, <3>6, FS_RemoveElement
    <3>8. Cardinality(Counted) <= Cardinality(Committed) - 1
      BY <3>6, <3>7, FS_Subset
    <3> QED
      BY <2>2, <2>3, <3>5, <3>8 DEF IInv, RoomInv, ResidentBound
  <2> QED
    BY <2>4, <2>5
<1> QED
  BY <1>1, Invariance, PTL
=============================================================================
