------------------------- MODULE TicketStockProofs -------------------------
(***************************************************************************)
(* What holds of TicketStock for every set of requests and organizers,     *)
(* every quantity and every combination of faults.                         *)
(***************************************************************************)
EXTENDS TicketStock, FiniteSetTheorems, TLAPS

\* Every operator a step of a request or of an organizer is made of.
USE DEF At, Goto

LEMMA InitType == Init => TypeOK
  BY ConstantsAssumption DEF Init, TypeOK, PC

LEMMA AvailNat == TypeOK => Avail \in Nat
  BY DEF TypeOK, Avail

LEMMA ReserveType ==
  ASSUME NEW r \in Requests, TypeOK, Reserve(r)
  PROVE  TypeOK'
<1> USE ConstantsAssumption DEF TypeOK, PC, dbVars, orgVars
<1>1. CASE ReserveLua(r)
  BY <1>1 DEF ReserveLua, Take, Covers
<1>2. CASE ReserveLuaError(r)
  BY <1>2 DEF ReserveLuaError, Covers
<1>3. CASE JoinFlight(r)
  BY <1>3 DEF JoinFlight
<1>4. CASE LoadRead(r)
  BY <1>4, AvailNat DEF LoadRead
<1>5. CASE LoadFail(r)
  BY <1>5 DEF LoadFail, Land
<1>6. CASE LoadSet(r)
  BY <1>6 DEF LoadSet, Land
<1>7. CASE RetryLua(r)
  BY <1>7 DEF RetryLua, Take, Covers
<1>8. CASE RetryLuaError(r)
  BY <1>8 DEF RetryLuaError, Covers
<1>9. CASE Book(r) \/ BookLost(r)
  BY <1>9 DEF Book, BookLost, Bookable
<1>10. CASE Direct(r) \/ DirectError(r)
  BY <1>10 DEF Direct, DirectError, Bookable
<1>11. CASE CheckSale(r)
  BY <1>11 DEF CheckSale
<1> QED
  BY <1>1, <1>2, <1>3, <1>4, <1>5, <1>6, <1>7, <1>8, <1>9, <1>10, <1>11 DEF Reserve

LEMMA ReleaseType ==
  ASSUME NEW r \in Requests, TypeOK, Release(r)
  PROVE  TypeOK'
<1> USE ConstantsAssumption DEF TypeOK, PC, dbVars, orgVars
<1>1. CASE ReleaseLua(r)
  BY <1>1 DEF ReleaseLua
<1>2. CASE Unbook(r) \/ UnbookLost(r)
  BY <1>2 DEF Unbook, UnbookLost
<1> QED
  BY <1>1, <1>2 DEF Release

LEMMA OrganizerType ==
  ASSUME NEW o \in Organizers, TypeOK, Organizer(o)
  PROVE  TypeOK'
<1> USE ConstantsAssumption DEF TypeOK, dbVars
<1>1. ASSUME NEW n \in Quantities, NEW open \in BOOLEAN, UpdateTicketType(o, n, open)
      PROVE  TypeOK'
  <2>1. /\ n \in Nat
        /\ (IF open /\ n > sold THEN n - sold ELSE 0) \in Nat
    OBVIOUS
  <2> QED
    BY <1>1, <2>1 DEF UpdateTicketType, orgVars
<1>2. ASSUME NEW pub \in BOOLEAN, UpdateEvent(o, pub)
      PROVE  TypeOK'
  BY <1>2 DEF UpdateEvent
<1>3. CASE PrewarmRead(o)
  BY <1>3, AvailNat DEF PrewarmRead
<1>4. CASE OrganizerSet(o)
  BY <1>4 DEF OrganizerSet
<1> QED
  BY <1>1, <1>2, <1>3, <1>4 DEF Organizer

LEMMA NextType == TypeOK /\ [Next]_vars => TypeOK'
<1> SUFFICES ASSUME TypeOK, [Next]_vars PROVE TypeOK'
  OBVIOUS
<1>1. ASSUME NEW r \in Requests, NEW q \in 1..MaxQty, Begin(r, q)
      PROVE  TypeOK'
  BY <1>1 DEF Begin, TypeOK, PC, dbVars, orgVars
<1>2. ASSUME NEW r \in Requests, Reserve(r) PROVE TypeOK'
  BY <1>2, ReserveType
<1>3. ASSUME NEW r \in Requests, Release(r) PROVE TypeOK'
  BY <1>3, ReleaseType
<1>4. ASSUME NEW o \in Organizers, Organizer(o) PROVE TypeOK'
  BY <1>4, OrganizerType
<1>5. CASE SaleEnds
  BY <1>5 DEF SaleEnds, TypeOK, orgVars
<1>6. CASE LoseKey
  BY <1>6 DEF LoseKey, TypeOK, dbVars, orgVars
<1>7. CASE UNCHANGED vars
  BY <1>7 DEF vars, TypeOK, dbVars, orgVars
<1> QED
  BY <1>1, <1>2, <1>3, <1>4, <1>5, <1>6, <1>7 DEF Next

\* Both stores stay natural numbers through every fault, edit and interleaving:
\* neither the Redis stock nor the database's sold ever drops below zero.
THEOREM TypeCorrect == Spec => []TypeOK
  BY InitType, NextType, PTL DEF Spec

-----------------------------------------------------------------------------
\* The database's half of "zero overselling": whatever is granted, repeated,
\* lost or edited, sold grows only to a value within the quantity of the moment.
THEOREM DatabaseNeverOversells == Spec => SoldGrowsWithinQuantity
<1>1. TypeOK /\ [Next]_vars => [sold' > sold => sold' <= quantity']_vars
  <2> SUFFICES ASSUME TypeOK, Next, sold' > sold
               PROVE  sold' <= quantity'
    OBVIOUS
  <2> USE DEF TypeOK, dbVars, orgVars
  <2>1. ASSUME NEW r \in Requests, NEW q \in 1..MaxQty, Begin(r, q)
        PROVE  sold' <= quantity'
    BY <2>1 DEF Begin
  <2>2. ASSUME NEW r \in Requests, Book(r) \/ Direct(r) \/ DirectError(r)
        PROVE  sold' <= quantity'
    BY <2>2 DEF Book, Direct, DirectError, Bookable
  <2>3. ASSUME NEW r \in Requests, Reserve(r), ~(Book(r) \/ Direct(r) \/ DirectError(r))
        PROVE  sold' = sold
    BY <2>3 DEF Reserve, ReserveLua, ReserveLuaError, JoinFlight, LoadRead, LoadFail,
                LoadSet, RetryLua, RetryLuaError, BookLost, CheckSale
  <2>4. ASSUME NEW r \in Requests, Release(r)
        PROVE  sold' <= sold
    BY <2>4 DEF Release, ReleaseLua, Unbook, UnbookLost
  <2>5. ASSUME NEW o \in Organizers, Organizer(o)
        PROVE  sold' = sold
    BY <2>5 DEF Organizer, UpdateTicketType, UpdateEvent, PrewarmRead, OrganizerSet
  <2>6. SaleEnds \/ LoseKey => sold' = sold
    BY DEF SaleEnds, LoseKey
  <2>7. sold \in Nat /\ sold' \in Nat
    BY NextType DEF TypeOK
  <2>8. sold' <= quantity' \/ sold' <= sold
    <3>1. CASE \E r \in Requests : (\E q \in 1..MaxQty : Begin(r, q)) \/ Reserve(r) \/ Release(r)
      BY <3>1, <2>1, <2>2, <2>3, <2>4, <2>7
    <3>2. CASE \E o \in Organizers : Organizer(o)
      BY <3>2, <2>5, <2>7
    <3> QED
      BY <3>1, <3>2, <2>6, <2>7 DEF Next
  <2> QED
    BY <2>7, <2>8
<1> QED
  BY <1>1, TypeCorrect, PTL DEF Spec, SoldGrowsWithinQuantity

-----------------------------------------------------------------------------
\* A step that moves one request between points outside the flight.
LEMMA OutsideFlight ==
  ASSUME NEW r \in Requests, NEW l \in PC \ {"get", "set", "wait"},
         TypeOK, FlightHasLeader, pc[r] \notin {"get", "set", "wait"},
         Goto(r, l), UNCHANGED flight
  PROVE  FlightHasLeader'
  BY ConstantsAssumption DEF TypeOK, FlightHasLeader, PC

\* The end of a flight leaves nobody in it.
LEMMA LandEndsFlight ==
  ASSUME NEW r \in Requests, NEW next \in [Requests -> {"direct", "refused", "retry"}],
         TypeOK, FlightHasLeader, pc[r] \in {"get", "set"}, Land(r, next)
  PROVE  FlightHasLeader'
<1>1. \A s \in Requests : pc'[s] \notin {"get", "set", "wait"}
  BY DEF TypeOK, FlightHasLeader, Land
<1>2. flight' = NoRequest
  BY DEF Land
<1> QED
  BY <1>1, <1>2, ConstantsAssumption DEF FlightHasLeader

LEMMA NextFlight == TypeOK /\ FlightHasLeader /\ [Next]_vars => FlightHasLeader'
<1> SUFFICES ASSUME TypeOK, FlightHasLeader, [Next]_vars PROVE FlightHasLeader'
  OBVIOUS
<1> USE DEF PC
<1>1. ASSUME NEW r \in Requests, NEW q \in 1..MaxQty, Begin(r, q)
      PROVE  FlightHasLeader'
  BY <1>1, OutsideFlight DEF Begin
<1>2. ASSUME NEW r \in Requests, JoinFlight(r)
      PROVE  FlightHasLeader'
  BY <1>2, ConstantsAssumption DEF JoinFlight, FlightHasLeader, TypeOK
<1>3. ASSUME NEW r \in Requests, LoadRead(r)
      PROVE  FlightHasLeader'
  BY <1>3 DEF LoadRead, FlightHasLeader, TypeOK
<1>4. ASSUME NEW r \in Requests, LoadFail(r)
      PROVE  FlightHasLeader'
  BY <1>4, LandEndsFlight DEF LoadFail
<1>5. ASSUME NEW r \in Requests, LoadSet(r)
      PROVE  FlightHasLeader'
  <2> DEFINE next == [s \in Requests |-> IF seen < qty[s] THEN "refused" ELSE "retry"]
  <2>1. next \in [Requests -> {"direct", "refused", "retry"}]
    OBVIOUS
  <2>2. Land(r, next)
    BY <1>5 DEF LoadSet
  <2> QED
    BY <1>5, <2>1, <2>2, LandEndsFlight DEF LoadSet
<1>6. ASSUME NEW r \in Requests,
             ReserveLua(r) \/ ReserveLuaError(r) \/ RetryLua(r) \/ RetryLuaError(r)
      PROVE  FlightHasLeader'
  BY <1>6, OutsideFlight DEF ReserveLua, ReserveLuaError, RetryLua, RetryLuaError, Take
<1>7. ASSUME NEW r \in Requests,
             Book(r) \/ BookLost(r) \/ Direct(r) \/ DirectError(r) \/ CheckSale(r)
      PROVE  FlightHasLeader'
  BY <1>7, OutsideFlight DEF Book, BookLost, Direct, DirectError, CheckSale
<1>8. ASSUME NEW r \in Requests, Release(r)
      PROVE  FlightHasLeader'
  BY <1>8, OutsideFlight DEF Release, ReleaseLua, Unbook, UnbookLost
<1>9. ASSUME UNCHANGED <<pc, flight>>
      PROVE  FlightHasLeader'
  BY <1>9 DEF FlightHasLeader
<1>10. (\E o \in Organizers : Organizer(o)) \/ SaleEnds \/ LoseKey => UNCHANGED <<pc, flight>>
  BY DEF Organizer, UpdateTicketType, UpdateEvent, PrewarmRead, OrganizerSet, SaleEnds, LoseKey
<1>11. UNCHANGED vars => UNCHANGED <<pc, flight>>
  BY DEF vars
<1> QED
  BY <1>1, <1>2, <1>3, <1>4, <1>5, <1>6, <1>7, <1>8, <1>9, <1>10, <1>11 DEF Next, Reserve

\* At most one load is in progress, and whoever waits has a leader to wake it.
THEOREM FlightSafe == Spec => []FlightHasLeader
<1>1. Init => FlightHasLeader
  BY ConstantsAssumption DEF Init, FlightHasLeader
<1> QED
  BY <1>1, NextFlight, TypeCorrect, PTL DEF Spec

-----------------------------------------------------------------------------
(***************************************************************************)
(* Zero overselling.  It needs the Redis key never to be overwritten: the  *)
(* runs stock_oversell and stock_cold show what happens otherwise.         *)
(***************************************************************************)
StaysWarm == ~ColdStart /\ ~KeyLoss /\ ~RedisFails /\ Organizers = {}

\* The inductive invariant: nobody is on the way to a load or to the database's
\* own grant, and every unit is either in the counter or held.
WarmInv ==
    /\ \A r \in Requests : pc[r] \notin {"load", "wait", "get", "set", "retry", "direct", "directing"}
    /\ stock \in Nat
    /\ stock + granted = quantity

LEMMA NextWarm ==
  ASSUME StaysWarm, TypeOK, WarmInv, [Next]_vars
  PROVE  WarmInv'
<1> USE DEF TypeOK, WarmInv, PC, dbVars, orgVars
<1>0. stock # NoKey
  BY ConstantsAssumption
<1>1. ASSUME NEW r \in Requests, NEW q \in 1..MaxQty, Begin(r, q)
      PROVE  WarmInv'
  BY <1>1 DEF Begin
<1>2. ASSUME NEW r \in Requests, ReserveLua(r)
      PROVE  WarmInv'
  BY <1>0, <1>2 DEF ReserveLua, Take, Covers
<1>3. ASSUME NEW r \in Requests, CheckSale(r) \/ Book(r) \/ BookLost(r)
      PROVE  WarmInv'
  BY <1>3 DEF CheckSale, Book, BookLost
<1>4. ASSUME NEW r \in Requests, Reserve(r),
             ~(ReserveLua(r) \/ CheckSale(r) \/ Book(r) \/ BookLost(r))
      PROVE  FALSE
  BY <1>4 DEF Reserve, ReserveLuaError, JoinFlight, LoadRead, LoadFail, LoadSet, RetryLua,
              RetryLuaError, Direct, DirectError, StaysWarm
<1>5. ASSUME NEW r \in Requests, ReleaseLua(r)
      PROVE  WarmInv'
  BY <1>0, <1>5 DEF ReleaseLua, StaysWarm
<1>6. ASSUME NEW r \in Requests, Unbook(r) \/ UnbookLost(r)
      PROVE  WarmInv'
  BY <1>6 DEF Unbook, UnbookLost
<1>7. CASE SaleEnds \/ UNCHANGED vars
  BY <1>7 DEF SaleEnds, vars
<1>8. ~LoseKey /\ ~(\E o \in Organizers : Organizer(o))
  BY DEF StaysWarm, LoseKey
<1> QED
  BY <1>1, <1>2, <1>3, <1>4, <1>5, <1>6, <1>7, <1>8 DEF Next, Release

LEMMA AlwaysWarm ==
  ASSUME StaysWarm
  PROVE  Spec => []WarmInv
<1>1. Init => WarmInv
  BY StaysWarm, ConstantsAssumption DEF Init, WarmInv, StaysWarm
<1>2. TypeOK /\ WarmInv /\ [Next]_vars => WarmInv'
  BY StaysWarm, NextWarm
<1> QED
  BY <1>1, <1>2, TypeCorrect, PTL DEF Spec

\* With a key that is never lost or overwritten, no interleaving of purchases
\* and releases, and no failure of event-service, loses or duplicates a unit.
THEOREM WarmLedger ==
  ASSUME StaysWarm
  PROVE  Spec => []StockLedger
<1>1. WarmInv => StockLedger
  BY DEF WarmInv, StockLedger
<1> QED
  BY <1>1, StaysWarm, AlwaysWarm, PTL

\* ... and therefore orders never hold more than there is to sell.
THEOREM WarmNeverOversells ==
  ASSUME StaysWarm
  PROVE  Spec => []NoOversell
<1>1. TypeOK /\ WarmInv => NoOversell
  BY DEF TypeOK, WarmInv, NoOversell
<1> QED
  BY <1>1, StaysWarm, AlwaysWarm, TypeCorrect, PTL

-----------------------------------------------------------------------------
(***************************************************************************)
(* What granted stands for.  A request holds qty[r] units from its grant   *)
(* to its release, and its quantity is not touched in between; the set of  *)
(* all units held is finite, since every step adds or removes those of one *)
(* request.                                                                *)
(***************************************************************************)
UnitsOf(r) == {r} \X (1..qty[r])

HeldInv == IsFiniteSet(HeldUnits) /\ GrantedIsHeld

LEMMA UnitsCount ==
  ASSUME TypeOK, NEW r \in Requests
  PROVE  IsFiniteSet(UnitsOf(r)) /\ Cardinality(UnitsOf(r)) = qty[r]
<1>1. qty[r] \in Nat \ {0}
  BY ConstantsAssumption DEF TypeOK
<1> DEFINE f == [i \in 1..qty[r] |-> <<r, i>>]
<1>2. f \in Bijection(1..qty[r], UnitsOf(r))
  BY DEF Bijection, Injection, Surjection, IsInjective, UnitsOf
<1>3. IsFiniteSet(1..qty[r]) /\ Cardinality(1..qty[r]) = qty[r]
  BY <1>1, FS_Interval
<1> QED
  BY <1>2, <1>3, FS_Bijection DEF ExistsBijection

LEMMA HeldIsUnits ==
  ASSUME TypeOK
  PROVE  \A u : u \in HeldUnits <=> \E r \in Holding : u \in UnitsOf(r)
<1>1. ASSUME NEW r \in Holding, NEW u \in UnitsOf(r) PROVE u \in HeldUnits
  <2>1. r \in Requests /\ qty[r] \in 1..MaxQty /\ MaxQty \in Nat
    BY ConstantsAssumption DEF Holding, TypeOK
  <2>2. PICK i \in 1..qty[r] : u = <<r, i>>
    BY DEF UnitsOf
  <2>3. i \in 1..MaxQty /\ i <= qty[r]
    BY <2>1
  <2> QED  BY <2>2, <2>3 DEF HeldUnits
<1>2. ASSUME NEW u \in HeldUnits PROVE \E r \in Holding : u \in UnitsOf(r)
  <2>1. PICK r \in Holding, i \in 1..MaxQty : u = <<r, i>> /\ i <= qty[r]
    BY DEF HeldUnits
  <2>2. r \in Requests /\ qty[r] \in 1..MaxQty /\ MaxQty \in Nat
    BY ConstantsAssumption DEF Holding, TypeOK
  <2>3. i \in 1..qty[r]
    BY <2>1, <2>2
  <2> QED  BY <2>1, <2>3 DEF UnitsOf
<1> QED
  BY <1>1, <1>2

LEMMA HeldIsUnitsNext ==
  TypeOK' => (\A u : u \in HeldUnits <=> \E r \in Holding : u \in UnitsOf(r))'
  BY HeldIsUnits, PTL

\* A grant adds the units of the request, a release takes them away.
LEMMA OneGrants ==
  ASSUME TypeOK, TypeOK', HeldInv, NEW r \in Requests, qty' = qty, r \notin Holding,
         Holding' = Holding \cup {r}, granted' = granted + qty[r]
  PROVE  HeldInv'
<1>1. /\ IsFiniteSet(UnitsOf(r)) /\ Cardinality(UnitsOf(r)) = qty[r]
      /\ IsFiniteSet(HeldUnits) /\ granted = Cardinality(HeldUnits)
  BY UnitsCount DEF HeldInv, GrantedIsHeld
<1>2. \A s : UnitsOf(s)' = UnitsOf(s)
  BY DEF UnitsOf
<1>3. \A u : (u \in HeldUnits)' <=> \E s \in Holding' : u \in UnitsOf(s)
  BY <1>2, HeldIsUnitsNext
<1>4. HeldUnits' = HeldUnits \cup UnitsOf(r)
  BY <1>3, HeldIsUnits
<1>5. HeldUnits \cap UnitsOf(r) = {}
  BY HeldIsUnits DEF UnitsOf
<1>6. /\ IsFiniteSet(HeldUnits')
      /\ Cardinality(HeldUnits') = Cardinality(HeldUnits) + qty[r] - Cardinality({})
  BY <1>1, <1>4, <1>5, FS_Union
<1> QED
  BY <1>1, <1>6, FS_EmptySet, FS_CardinalityType DEF HeldInv, GrantedIsHeld, TypeOK

LEMMA OneReleases ==
  ASSUME TypeOK, TypeOK', HeldInv, NEW r \in Requests, qty' = qty, r \in Holding,
         Holding' = Holding \ {r}, granted' = granted - qty[r]
  PROVE  HeldInv'
<1>1. /\ IsFiniteSet(UnitsOf(r)) /\ Cardinality(UnitsOf(r)) = qty[r]
      /\ IsFiniteSet(HeldUnits) /\ granted = Cardinality(HeldUnits)
  BY UnitsCount DEF HeldInv, GrantedIsHeld
<1>2. \A s : UnitsOf(s)' = UnitsOf(s)
  BY DEF UnitsOf
<1>3. \A u : (u \in HeldUnits)' <=> \E s \in Holding' : u \in UnitsOf(s)
  BY <1>2, HeldIsUnitsNext
<1>4. \A s, u : u \in UnitsOf(s) /\ u \in UnitsOf(r) => s = r
  BY DEF UnitsOf
<1>5. HeldUnits' = HeldUnits \ UnitsOf(r) /\ HeldUnits \cap UnitsOf(r) = UnitsOf(r)
  BY <1>3, <1>4, HeldIsUnits
<1>6. /\ IsFiniteSet(HeldUnits')
      /\ Cardinality(HeldUnits') = Cardinality(HeldUnits) - qty[r]
  <2>1. /\ IsFiniteSet(HeldUnits \ UnitsOf(r))
        /\ Cardinality(HeldUnits \ UnitsOf(r))
              = Cardinality(HeldUnits) - Cardinality(HeldUnits \cap UnitsOf(r))
    BY <1>1, FS_Difference
  <2> QED  BY <1>1, <1>5, <2>1
<1> QED
  BY <1>1, <1>6 DEF HeldInv, GrantedIsHeld

\* Nobody is granted or releases anything.
LEMMA NoneGrants ==
  ASSUME TypeOK, HeldInv, Holding' = Holding, granted' = granted,
         \A r \in Holding : qty'[r] = qty[r]
  PROVE  HeldInv'
<1>1. HeldUnits' = HeldUnits
  BY DEF HeldUnits
<1> QED
  BY <1>1 DEF HeldInv, GrantedIsHeld

LEMMA NextHeld == TypeOK /\ TypeOK' /\ HeldInv /\ [Next]_vars => HeldInv'
<1> SUFFICES ASSUME TypeOK, TypeOK', HeldInv, [Next]_vars PROVE HeldInv'
  OBVIOUS
<1> USE DEF Holding
<1>0. \A r \in Requests : \A l : Goto(r, l) => pc' = [pc EXCEPT ![r] = l] /\ pc'[r] = l
  BY DEF TypeOK
<1>1. ASSUME NEW r \in Requests, NEW q \in 1..MaxQty, Begin(r, q)
      PROVE  HeldInv'
  <2>1. /\ Holding' = Holding /\ granted' = granted
        /\ \A s \in Holding : qty'[s] = qty[s]
    BY <1>1 DEF Begin, TypeOK
  <2> QED  BY <2>1, NoneGrants
<1>2. ASSUME NEW r \in Requests, Take(r) \/ (Direct(r) /\ Bookable(qty[r])), qty' = qty,
             pc[r] \notin {"book", "booking", "held"}
      PROVE  HeldInv'
  <2>1. /\ r \notin Holding /\ Holding' = Holding \cup {r} /\ granted' = granted + qty[r]
    BY <1>2 DEF Take, Direct, TypeOK
  <2> QED  BY <1>2, <2>1, OneGrants
<1>3. ASSUME NEW r \in Requests, ReleaseLua(r)
      PROVE  HeldInv'
  <2>1. /\ r \in Holding /\ Holding' = Holding \ {r} /\ granted' = granted - qty[r]
        /\ qty' = qty
    BY <1>3 DEF ReleaseLua, TypeOK
  <2> QED  BY <2>1, OneReleases
<1>4. ASSUME NEW r \in Requests, UNCHANGED <<qty, granted>>,
             \A s \in Requests : pc'[s] \in {"book", "booking", "held"}
                                  <=> pc[s] \in {"book", "booking", "held"}
      PROVE  HeldInv'
  BY <1>4, NoneGrants
<1>5. ASSUME NEW r \in Requests, ReserveLua(r) \/ RetryLua(r)
      PROVE  HeldInv'
  <2>1. CASE Take(r)
    BY <1>2, <1>5, <2>1 DEF ReserveLua, RetryLua
  <2>2. CASE ~Take(r)
    BY <1>4, <1>5, <2>2 DEF ReserveLua, RetryLua, TypeOK
  <2> QED  BY <2>1, <2>2
<1>6. ASSUME NEW r \in Requests, Direct(r)
      PROVE  HeldInv'
  <2>1. CASE Bookable(qty[r])
    BY <1>2, <1>6, <2>1 DEF Direct
  <2>2. CASE ~Bookable(qty[r])
    BY <1>4, <1>6, <2>2 DEF Direct, TypeOK
  <2> QED  BY <2>1, <2>2
<1>7. ASSUME NEW r \in Requests, LoadFail(r) \/ LoadSet(r)
      PROVE  HeldInv'
  BY <1>4, <1>7 DEF LoadFail, LoadSet, Land, TypeOK
<1>8. ASSUME NEW r \in Requests,
             \/ ReserveLuaError(r) \/ JoinFlight(r) \/ LoadRead(r) \/ RetryLuaError(r)
             \/ CheckSale(r) \/ Book(r) \/ BookLost(r) \/ DirectError(r)
             \/ Unbook(r) \/ UnbookLost(r)
      PROVE  HeldInv'
  BY <1>4, <1>8 DEF ReserveLuaError, JoinFlight, LoadRead, RetryLuaError, CheckSale, Book,
                    BookLost, DirectError, Unbook, UnbookLost, TypeOK
<1>9. ASSUME UNCHANGED <<pc, qty, granted>>
      PROVE  HeldInv'
  BY <1>9, NoneGrants
<1>10. (\E o \in Organizers : Organizer(o)) \/ SaleEnds \/ LoseKey \/ UNCHANGED vars
          => UNCHANGED <<pc, qty, granted>>
  BY DEF Organizer, UpdateTicketType, UpdateEvent, PrewarmRead, OrganizerSet, SaleEnds, LoseKey,
         vars
<1> QED
  BY <1>1, <1>3, <1>5, <1>6, <1>7, <1>8, <1>9, <1>10 DEF Next, Reserve, Release

\* ticket_service.go: whatever fails, is lost or is edited, a unit is granted once, to one
\* request, and is given back once: granted is what the requests hold, unit by unit.
THEOREM GrantedHeld == Spec => []GrantedIsHeld
<1>1. Init => HeldInv
  <2> SUFFICES ASSUME Init PROVE HeldInv
    OBVIOUS
  <2>1. HeldUnits = {}
    BY DEF Init, HeldUnits, Holding
  <2> QED  BY <2>1, FS_EmptySet DEF Init, HeldInv, GrantedIsHeld
<1>2. HeldInv => GrantedIsHeld
  BY DEF HeldInv
<1> QED
  BY <1>1, <1>2, NextHeld, TypeCorrect, PTL DEF Spec

-----------------------------------------------------------------------------
(***************************************************************************)
(* Refinement.  With the key in place every step is a step of BoxOffice on *)
(* the counter and the quantities of the holders, or leaves both alone.    *)
(***************************************************************************)
Has(r) == IF r \in Holding THEN qty[r] ELSE 0

LEMMA OfficeVars ==
  /\ Office!vars = <<stock, [r \in Requests |-> Has(r)]>>
  /\ UNCHANGED stock /\ (\A r \in Requests : Has(r)' = Has(r)) => UNCHANGED Office!vars
<1>1. Office!vars = <<stock, [r \in Requests |-> Has(r)]>>
  BY DEF Office!vars, Has
<1>2. ASSUME UNCHANGED stock, \A r \in Requests : Has(r)' = Has(r)
      PROVE  UNCHANGED Office!vars
  BY <1>2 DEF Office!vars, Has, Holding
<1> QED
  BY <1>1, <1>2

\* Only the script takes units, and only those that are left.
LEMMA TakeGrants ==
  ASSUME StaysWarm, TypeOK, WarmInv, NEW r \in Requests, At(r, "lua"), Take(r), qty' = qty
  PROVE  Office!Next
<1>1. stock \in Nat /\ qty[r] \in 1..stock
  BY ConstantsAssumption DEF TypeOK, WarmInv, Take, Covers
<1>2. PICK n \in 1..stock : n = qty[r]
  BY <1>1
<1>3. Office!Grant(r, n)
  BY <1>2 DEF Office!Grant, Take, Holding, TypeOK
<1> QED
  BY <1>3, Zenon DEF Office!Next

LEMMA ReleaseReturns ==
  ASSUME StaysWarm, TypeOK, WarmInv, NEW r \in Requests, ReleaseLua(r)
  PROVE  Office!Next
<1>1. stock \in Nat /\ stock # NoKey /\ qty[r] \in Nat /\ qty[r] > 0
  BY ConstantsAssumption DEF TypeOK, WarmInv
<1>2. stock' = stock + qty[r] /\ qty' = qty /\ pc' = [pc EXCEPT ![r] = "unbook"]
  BY <1>1 DEF ReleaseLua, StaysWarm
<1>3. Office!Return(r)
  BY <1>1, <1>2 DEF Office!Return, ReleaseLua, Holding, TypeOK
<1> QED
  BY <1>3 DEF Office!Next

LEMMA StepSells ==
  ASSUME StaysWarm, TypeOK, WarmInv, [Next]_vars
  PROVE  [Office!Next]_(Office!vars)
<1> SUFFICES Office!Next \/ UNCHANGED Office!vars
  OBVIOUS
<1> USE DEF TypeOK, Has, Holding
<1>1. ASSUME NEW r \in Requests, NEW q \in 1..MaxQty, Begin(r, q)
      PROVE  UNCHANGED Office!vars
  <2>1. UNCHANGED stock /\ \A s \in Requests : Has(s)' = Has(s)
    BY <1>1 DEF Begin
  <2> QED  BY <2>1, OfficeVars
<1>2. ASSUME NEW r \in Requests, ReserveLua(r)
      PROVE  Office!Next \/ UNCHANGED Office!vars
  <2>1. CASE Take(r)
    BY <1>2, <2>1, TakeGrants DEF ReserveLua
  <2>2. CASE ~Take(r)
    <3>1. UNCHANGED stock /\ \A s \in Requests : Has(s)' = Has(s)
      BY <1>2, <2>2 DEF ReserveLua
    <3> QED  BY <3>1, OfficeVars
  <2> QED  BY <2>1, <2>2
<1>3. ASSUME NEW r \in Requests,
             CheckSale(r) \/ Book(r) \/ BookLost(r) \/ Unbook(r) \/ UnbookLost(r)
      PROVE  UNCHANGED Office!vars
  <2>1. UNCHANGED stock /\ \A s \in Requests : Has(s)' = Has(s)
    BY <1>3 DEF CheckSale, Book, BookLost, Unbook, UnbookLost
  <2> QED  BY <2>1, OfficeVars
<1>4. ASSUME NEW r \in Requests, Reserve(r),
             ~(ReserveLua(r) \/ CheckSale(r) \/ Book(r) \/ BookLost(r))
      PROVE  FALSE
  BY <1>4 DEF Reserve, ReserveLuaError, JoinFlight, LoadRead, LoadFail, LoadSet, RetryLua,
              RetryLuaError, Direct, DirectError, StaysWarm, WarmInv
<1>5. ASSUME NEW r \in Requests, ReleaseLua(r)
      PROVE  Office!Next
  BY <1>5, ReleaseReturns
<1>6. CASE SaleEnds \/ UNCHANGED vars
  <2>1. UNCHANGED stock /\ \A s \in Requests : Has(s)' = Has(s)
    BY <1>6 DEF SaleEnds, vars
  <2> QED  BY <2>1, OfficeVars
<1>7. ~LoseKey /\ ~(\E o \in Organizers : Organizer(o))
  BY DEF StaysWarm, LoseKey
<1> QED
  BY <1>1, <1>2, <1>3, <1>4, <1>5, <1>6, <1>7 DEF Next, Release

\* ticket_service.go:38-198 without reloads: whatever fails at event-service, and however
\* purchases and releases overlap, the orders see one counter that sells what it has.
THEOREM ImplementsBoxOffice ==
  ASSUME StaysWarm
  PROVE  Spec => SellsAsPromised
<1>1. Init => Office!Init
  BY DEF Init, Office!Init, Holding, StaysWarm
<1>2. TypeOK /\ WarmInv /\ [Next]_vars => [Office!Next]_(Office!vars)
  BY StaysWarm, StepSells
<1> QED
  BY <1>1, <1>2, StaysWarm, AlwaysWarm, TypeCorrect, PTL DEF Spec, SellsAsPromised, Office!Spec

=============================================================================
