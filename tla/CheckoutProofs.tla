--------------------------- MODULE CheckoutProofs ---------------------------
(***************************************************************************)
(* What CreateOrder promises of units, idempotency keys and pending orders *)
(* for any number of requests, orders and keys.                            *)
(***************************************************************************)
EXTENDS Checkout, FiniteSetTheorems, TLAPS

\* The types, but for the bounds of free and lost, which UnitsAccounted gives, and of
\* the calls of CancelOrder under way, which are among those counted.
Shape ==
    /\ order \in [Orders -> Statuses]
    /\ keyOf \in [Orders -> IdemKeys \cup {NoKey}]
    /\ item \subseteq Orders /\ queued \subseteq item
    /\ due \subseteq {o \in Orders : order[o] = "PENDING"}
    /\ \A o \in item : order[o] # "none"
    /\ marker \in [IdemKeys -> Orders \cup {Processing, NoOrder}]
    /\ free \in Nat /\ lost \in Nat /\ extra \in Nat
    /\ req \in [Procs -> [pc : PC, key : IdemKeys \cup {NoKey},
                          order : Orders \cup {NoOrder}, blind : BOOLEAN]]
    /\ loose \subseteq IdemKeys
    /\ blind \subseteq Orders
    /\ cancelling \in [Orders -> Nat] /\ cancels \in 0 .. MaxCancels
    /\ \A o \in Orders : cancelling[o] <= cancels
    /\ returned \subseteq item /\ stranded \subseteq item

\* A request whose order has a row, and no item that it knows of.
Making(p) == req[p].pc \in {"item", "cancel"}

\* The order a request works on is its own until the item is there, and one that was
\* made behind its back has given its unit back.
Owned ==
    /\ \A p \in Procs :
        /\ At(p, "mark") => req[p].key \in IdemKeys
        /\ Making(p) => /\ req[p].order \in Orders \ (item \ returned)
                        /\ order[req[p].order] # "none"
                        /\ keyOf[req[p].order] = req[p].key
        /\ At(p, "item") => req[p].order \notin item
        /\ req[p].pc \in {"remember", "enqueue"} => req[p].order \in item
    /\ \A p, q \in Procs : Making(p) /\ Making(q) /\ req[p].order = req[q].order => p = q

Typed == Shape /\ Owned

\* The steps that change neither a unit nor an item, nor whether a unit is held.
Still(p) ==
    \/ \E k \in IdemKeys \cup {NoKey}, failing \in BOOLEAN : CreateOrder(p, k, failing)
    \/ SetMarker(p) \/ Duplicate(p) \/ MarkerFails(p)
    \/ Refuse(p)
    \/ CancelUnfinishedFails(p)
    \/ Unmark(p) \/ UnmarkFails(p)
    \/ Remember(p) \/ RememberFails(p)
    \/ Enqueue(p)

\* The actions of Next, one by one.
LEMMA NextCases ==
    ASSUME [Next]_vars
    PROVE  \/ \E p \in Procs :
                \/ Still(p)
                \/ Reserve(p) \/ InsertOrder(p) \/ InsertOrderFails(p)
                \/ CreateOrderItem(p) \/ CreateOrderItemFails(p) \/ CancelUnfinished(p)
                \/ ReleaseUnit(p) \/ ReleaseUnitFails(p) \/ Stop(p)
           \/ \E k \in IdemKeys : MarkerExpires(k)
           \/ \E o \in Orders : \/ OrderLapses(o) \/ Promote(o) \/ Pay(o)
                               \/ CancelOrder(o) \/ GiveBack(o) \/ GiveBackFails(o)
           \/ UNCHANGED vars
  BY Zenon DEF Next, Request, OrderEnds, Still

-----------------------------------------------------------------------------
(* Types.                                                                  *)

LEMMA InitTyped == Init => Typed
  BY CheckoutAssumption DEF Init, Typed, Shape, Owned, Making, At, Idle, Statuses, PC

\* A request that has been given an order is still one.
LEMMA TakesOrder ==
    ASSUME NEW o \in Orders,
           NEW r \in [pc : PC, key : IdemKeys \cup {NoKey},
                      order : Orders \cup {NoOrder}, blind : BOOLEAN]
    PROVE  [r EXCEPT !.pc = "item", !.order = o, !.blind = FALSE]
             \in [pc : PC, key : IdemKeys \cup {NoKey},
                  order : Orders \cup {NoOrder}, blind : BOOLEAN]
  BY DEF PC

LEMMA StillTyped ==
    ASSUME Typed, NEW p \in Procs, Still(p)
    PROVE  Typed'
  <1> USE CheckoutAssumption DEF Typed, Shape, Owned, Making, At, Goto, Return, Idle, PC,
          Statuses, orderVars, ends
  <1>1. CASE \E k \in IdemKeys \cup {NoKey}, failing \in BOOLEAN : CreateOrder(p, k, failing)
    <2>1. PICK k \in IdemKeys \cup {NoKey}, b \in BOOLEAN :
            /\ req[p].pc = "idle"
            /\ req' = [req EXCEPT ![p] = [pc |-> IF k = NoKey THEN "reserve" ELSE "mark",
                                          key |-> k, order |-> NoOrder, blind |-> b]]
            /\ UNCHANGED <<orderVars, marker, free, lost, loose, blind, ends>>
      <3>1. PICK k \in IdemKeys \cup {NoKey}, f \in BOOLEAN : CreateOrder(p, k, f)
        BY <1>1
      <3>2. (f \/ \E q \in Procs : Entering(q)) \in BOOLEAN
        OBVIOUS
      <3>3. QED
        BY <3>1, <3>2, Zenon DEF CreateOrder
    <2>2. QED
      BY <2>1, SMTT(30)
  <1>2. CASE SetMarker(p)
    BY <1>2, SMTT(30) DEF SetMarker
  <1>3. CASE Duplicate(p)
    BY <1>3, SMTT(30) DEF Duplicate
  <1>4. CASE MarkerFails(p)
    BY <1>4, SMTT(30) DEF MarkerFails
  <1>5. CASE Refuse(p)
    BY <1>5, SMTT(30) DEF Refuse
  <1>8. CASE CancelUnfinishedFails(p)
    BY <1>8, SMTT(30) DEF CancelUnfinishedFails
  <1>9. CASE Unmark(p) \/ UnmarkFails(p)
    <2>1. /\ req' = [req EXCEPT ![p] = [pc |-> "idle", key |-> NoKey, order |-> NoOrder,
                                       blind |-> FALSE]]
          /\ marker' \in [IdemKeys -> Orders \cup {Processing, NoOrder}]
          /\ UNCHANGED <<order, keyOf, due, item, queued, free, lost, loose, blind, ends>>
      BY <1>9, SMTT(30) DEF Unmark, UnmarkFails
    <2>2. QED
      BY <2>1, SMTT(30)
  <1>10. CASE Remember(p) \/ RememberFails(p)
    BY <1>10, SMTT(30) DEF Remember, RememberFails
  <1>11. CASE Enqueue(p)
    BY <1>11, SMTT(30) DEF Enqueue
  <1> QED
    BY <1>1, <1>2, <1>3, <1>4, <1>5, <1>8, <1>9, <1>10, <1>11 DEF Still

LEMMA NextTyped == Typed /\ [Next]_vars => Typed'
  <1> SUFFICES ASSUME Typed, [Next]_vars PROVE Typed'
    OBVIOUS
  <1> USE CheckoutAssumption
  <1>1. ASSUME NEW p \in Procs, Still(p) PROVE Typed'
    BY <1>1, StillTyped
  <1> USE DEF Typed, Shape, Owned, Making, At, Goto, Return, Idle, PC, Statuses, orderVars, ends
  <1>2. ASSUME NEW p \in Procs, Reserve(p) PROVE Typed'
    BY <1>2, SMTT(30) DEF Reserve
  <1>3. ASSUME NEW p \in Procs, InsertOrder(p) PROVE Typed'
    <2>1. PICK o \in Orders :
            /\ order[o] = "none"
            /\ order' = [order EXCEPT ![o] = "PENDING"]
            /\ keyOf' = [keyOf EXCEPT ![o] = req[p].key]
            /\ blind' = IF req[p].blind THEN blind \cup {o} ELSE blind
            /\ req' = [req EXCEPT ![p].pc = "item", ![p].order = o, ![p].blind = FALSE]
      BY <1>3 DEF InsertOrder
    <2>2. /\ UNCHANGED <<due, item, queued, marker, free, lost, loose, ends>>
          /\ req[p].pc = "insert"
      BY <1>3 DEF InsertOrder
    <2>3. req' \in [Procs -> [pc : PC, key : IdemKeys \cup {NoKey},
                             order : Orders \cup {NoOrder}, blind : BOOLEAN]]
      <3>1. req' = [req EXCEPT ![p] = [req[p] EXCEPT !.pc = "item", !.order = o,
                                                     !.blind = FALSE]]
        BY <2>1
      <3>2. [req[p] EXCEPT !.pc = "item", !.order = o, !.blind = FALSE]
              \in [pc : PC, key : IdemKeys \cup {NoKey},
                   order : Orders \cup {NoOrder}, blind : BOOLEAN]
        BY TakesOrder
      <3> QED  BY <3>1, <3>2
    <2>4. Shape'
      BY <2>1, <2>2, <2>3, SMTT(30)
    <2>5. Owned'
      BY <2>1, <2>2, SMTT(30)
    <2> QED  BY <2>4, <2>5 DEF Typed
  <1>a. ASSUME NEW p \in Procs, InsertOrderFails(p) PROVE Typed'
    <2>1. /\ req' = [req EXCEPT ![p].pc = "release"]
          /\ req[p].pc = "insert"
          /\ UNCHANGED <<due, item, queued, marker, free, lost, loose, ends>>
      BY <1>a DEF InsertOrderFails
    <2>2. CASE UNCHANGED <<order, keyOf, blind>>
      BY <2>1, <2>2, SMTT(30)
    <2>3. CASE ~ UNCHANGED <<order, keyOf, blind>>
      <3>1. PICK o \in Orders :
              /\ order[o] = "none"
              /\ order' = [order EXCEPT ![o] = "PENDING"]
              /\ keyOf' = [keyOf EXCEPT ![o] = req[p].key]
              /\ blind' = IF req[p].blind THEN blind \cup {o} ELSE blind
        BY <1>a, <2>3 DEF InsertOrderFails
      <3>2. Shape'
        BY <2>1, <3>1, SMTT(30)
      <3>3. Owned'
        BY <2>1, <3>1, SMTT(30)
      <3> QED  BY <3>2, <3>3
    <2> QED  BY <2>2, <2>3
  <1>4. ASSUME NEW p \in Procs, CreateOrderItem(p) PROVE Typed'
    <2>1. Shape'
      BY <1>4, SMTT(30) DEF CreateOrderItem
    <2>2. Owned'
      BY <1>4, SMTT(30) DEF CreateOrderItem
    <2> QED  BY <2>1, <2>2
  <1>b. ASSUME NEW p \in Procs, CreateOrderItemFails(p) PROVE Typed'
    <2>1. Shape'
      BY <1>b, SMTT(30) DEF CreateOrderItemFails
    <2>2. Owned'
      BY <1>b, SMTT(30) DEF CreateOrderItemFails
    <2> QED  BY <2>1, <2>2
  <1>5. ASSUME NEW p \in Procs, CancelUnfinished(p) PROVE Typed'
    BY <1>5, SMTT(30) DEF CancelUnfinished
  <1>6. ASSUME NEW p \in Procs, ReleaseUnit(p) \/ ReleaseUnitFails(p) PROVE Typed'
    <2>1. CASE ReleaseUnit(p)
      BY <2>1, SMTT(30) DEF ReleaseUnit
    <2>2. CASE ReleaseUnitFails(p)
      BY <2>2, SMTT(30) DEF ReleaseUnitFails
    <2> QED  BY <1>6, <2>1, <2>2
  <1>7. ASSUME NEW p \in Procs, Stop(p) PROVE Typed'
    BY <1>7, SMTT(30) DEF Stop
  <1>8. ASSUME NEW k \in IdemKeys, MarkerExpires(k) PROVE Typed'
    BY <1>8, SMTT(30) DEF MarkerExpires
  <1>9. ASSUME NEW o \in Orders, OrderLapses(o) \/ Promote(o) \/ Pay(o)
        PROVE  Typed'
    BY <1>9, SMTT(30) DEF OrderLapses, Promote, Pay, Active
  <1>c. ASSUME NEW o \in Orders, CancelOrder(o) PROVE Typed'
    BY <1>c, SMTT(30) DEF CancelOrder
  <1>d. ASSUME NEW o \in Orders, GiveBack(o) PROVE Typed'
    BY <1>d, SMTT(30) DEF GiveBack
  <1>e. ASSUME NEW o \in Orders, GiveBackFails(o) PROVE Typed'
    BY <1>e, SMTT(30) DEF GiveBackFails
  <1>10. CASE UNCHANGED vars
    BY <1>10, SMTT(30) DEF vars
  <1> QED
    BY NextCases, <1>1, <1>2, <1>3, <1>4, <1>5, <1>6, <1>7, <1>8, <1>9, <1>10, <1>a, <1>b,
       <1>c, <1>d, <1>e, Zenon

-----------------------------------------------------------------------------
(* Units.                                                                  *)

\* The requests that hold a unit, and the orders that have one.
Holding == {p \in Procs : Holds(p)}
Kept == item \ returned

LEMMA FiniteHolders ==
    ASSUME Typed
    PROVE  /\ IsFiniteSet(Holding) /\ Cardinality(Holding) \in Nat
           /\ IsFiniteSet(Kept) /\ Cardinality(Kept) \in Nat
  <1>1. Holding \subseteq Procs /\ Kept \subseteq Orders
    BY DEF Typed, Shape, Holding, Kept
  <1>2. IsFiniteSet(Holding) /\ IsFiniteSet(Kept)
    BY <1>1, CheckoutAssumption, FS_Subset
  <1> QED  BY <1>2, FS_CardinalityType

\* A unit that moves keeps the sum: from a request to an order, to free, to lost.
LEMMA Units ==
    UnitsAccounted
      <=> Stock + extra = free + lost + Cardinality(Holding) + Cardinality(Kept)
  BY DEF UnitsAccounted, Holding, Kept

\* A request that stops holding a unit is taken off the count, one that starts is added.
LEMMA LetsGo ==
    ASSUME Typed, NEW p \in Holding, Holding' = Holding \ {p}
    PROVE  Cardinality(Holding') = Cardinality(Holding) - 1
  BY FiniteHolders, FS_RemoveElement

LEMMA Grabs ==
    ASSUME Typed, NEW p, p \notin Holding, Holding' = Holding \cup {p}
    PROVE  Cardinality(Holding') = Cardinality(Holding) + 1
  BY FiniteHolders, FS_AddElement

\* The steps of Still move no unit.
LEMMA StillUnits ==
    ASSUME Typed, NEW p \in Procs, Still(p)
    PROVE  /\ free' = free /\ lost' = lost /\ extra' = extra
           /\ Holding' = Holding /\ Kept' = Kept
  <1> USE DEF Typed, Shape, Holding, Kept, Holds, At, Goto, Return, Idle, orderVars, ends
  <1>1. CASE \E k \in IdemKeys \cup {NoKey}, failing \in BOOLEAN : CreateOrder(p, k, failing)
    BY <1>1, SMTT(30) DEF CreateOrder
  <1>2. CASE SetMarker(p) \/ Duplicate(p)
    BY <1>2, SMTT(30) DEF SetMarker, Duplicate
  <1>3. CASE MarkerFails(p) \/ Refuse(p)
    BY <1>3, SMTT(30) DEF MarkerFails, Refuse
  <1>4. CASE CancelUnfinishedFails(p)
    BY <1>4, SMTT(30) DEF CancelUnfinishedFails
  <1>5. CASE Unmark(p) \/ UnmarkFails(p)
    BY <1>5, SMTT(30) DEF Unmark, UnmarkFails
  <1>6. CASE Remember(p) \/ RememberFails(p)
    BY <1>6, SMTT(30) DEF Remember, RememberFails
  <1>7. CASE Enqueue(p)
    BY <1>7, SMTT(30) DEF Enqueue
  <1> QED
    BY <1>1, <1>2, <1>3, <1>4, <1>5, <1>6, <1>7 DEF Still

\* All that ever happens to a unit: it stays where it is, is reserved, passes to the
\* order, is given back by a request or lost by it, is given back by an order, or is
\* given back by an order that does not have it any more.
Stays ==
    /\ free' = free /\ lost' = lost /\ extra' = extra
    /\ Holding' = Holding /\ Kept' = Kept
IsReserved(p) ==
    /\ free > 0 /\ p \notin Holding /\ Holding' = Holding \cup {p}
    /\ free' = free - 1 /\ lost' = lost /\ extra' = extra /\ Kept' = Kept
Passes(p, o) ==
    /\ p \in Holding /\ Holding' = Holding \ {p}
    /\ o \notin Kept /\ Kept' = Kept \cup {o}
    /\ free' = free /\ lost' = lost /\ extra' = extra
Drops(p) ==
    /\ p \in Holding /\ Holding' = Holding \ {p} /\ Kept' = Kept /\ extra' = extra
    /\ \/ free' = free + 1 /\ lost' = lost
       \/ free' = free /\ lost' = lost + 1
Ends(o) ==
    /\ o \in Kept /\ Kept' = Kept \ {o} /\ Holding' = Holding
    /\ free' = free + 1 /\ lost' = lost /\ extra' = extra
GivesAgain ==
    /\ Kept' = Kept /\ Holding' = Holding
    /\ free' = free + 1 /\ lost' = lost /\ extra' = extra + 1

LEMMA UnitMoves ==
    ASSUME Typed, [Next]_vars
    PROVE  \/ Stays
           \/ \E p \in Procs : IsReserved(p) \/ Drops(p) \/ \E o \in Orders : Passes(p, o)
           \/ \E o \in Orders : Ends(o)
           \/ GivesAgain
  <1> DEFINE Moves == \/ Stays
                      \/ \E p \in Procs : IsReserved(p) \/ Drops(p)
                                          \/ \E o \in Orders : Passes(p, o)
                      \/ \E o \in Orders : Ends(o)
                      \/ GivesAgain
  <1> SUFFICES Moves
    OBVIOUS
  <1>1. ASSUME NEW p \in Procs, Still(p) PROVE Stays
    BY <1>1, StillUnits DEF Stays
  <1>2. ASSUME NEW p \in Procs, Reserve(p) PROVE IsReserved(p)
    BY <1>2, SMTT(30) DEF Reserve, Typed, Shape, Holding, Kept, Holds, At, Goto, orderVars,
                          ends, IsReserved
  <1>3. ASSUME NEW p \in Procs, InsertOrder(p) PROVE Stays
    <2>1. PICK o \in Orders :
            req' = [req EXCEPT ![p].pc = "item", ![p].order = o, ![p].blind = FALSE]
      BY <1>3 DEF InsertOrder
    <2>2. Holding' = Holding
      BY <1>3, <2>1, SMTT(30) DEF InsertOrder, Typed, Shape, Holding, Holds, At
    <2>3. Kept' = Kept /\ free' = free /\ lost' = lost /\ extra' = extra
      BY <1>3 DEF InsertOrder, Kept, ends
    <2> QED  BY <2>2, <2>3 DEF Stays
  <1>4. ASSUME NEW p \in Procs, InsertOrderFails(p) PROVE Stays
    <2>1. Holding' = Holding
      BY <1>4, SMTT(30) DEF InsertOrderFails, Typed, Shape, Holding, Holds, At, Goto
    <2>2. Kept' = Kept /\ free' = free /\ lost' = lost /\ extra' = extra
      BY <1>4 DEF InsertOrderFails, Kept, ends
    <2> QED  BY <2>1, <2>2 DEF Stays
  <1>5. ASSUME NEW p \in Procs, CreateOrderItem(p) PROVE \E o \in Orders : Passes(p, o)
    <2>1. /\ p \in Holding /\ Holding' = Holding \ {p}
          /\ free' = free /\ lost' = lost /\ extra' = extra
      BY <1>5, SMTT(30) DEF CreateOrderItem, Typed, Shape, Holding, Holds, At, Goto
    <2>2. /\ req[p].order \in Orders \ item
          /\ item' = item \cup {req[p].order} /\ returned' = returned
      BY <1>5 DEF CreateOrderItem, Typed, Owned, Making, At
    <2>3. req[p].order \notin Kept /\ Kept' = Kept \cup {req[p].order}
      BY <2>2 DEF Kept, Typed, Shape
    <2> QED  BY <2>1, <2>2, <2>3 DEF Passes
  <1>6. ASSUME NEW p \in Procs, CreateOrderItemFails(p) PROVE Stays
    <2>1. Holding' = Holding
      BY <1>6, SMTT(30) DEF CreateOrderItemFails, Typed, Shape, Holding, Holds, At, Goto
    <2>2. req[p].order \notin item
      BY <1>6 DEF CreateOrderItemFails, Typed, Owned
    <2>3. Kept' = Kept /\ free' = free /\ lost' = lost /\ extra' = extra
      BY <1>6, <2>2 DEF CreateOrderItemFails, Kept
    <2> QED  BY <2>1, <2>3 DEF Stays
  <1>7. ASSUME NEW p \in Procs, CancelUnfinished(p) PROVE Stays
    <2>1. Holding' = Holding
      BY <1>7, SMTT(30) DEF CancelUnfinished, Typed, Shape, Holding, Holds, At
    <2>2. Kept' = Kept /\ free' = free /\ lost' = lost /\ extra' = extra
      BY <1>7 DEF CancelUnfinished, Kept, ends
    <2> QED  BY <2>1, <2>2 DEF Stays
  <1>8. ASSUME NEW p \in Procs, ReleaseUnit(p) \/ ReleaseUnitFails(p) PROVE Drops(p)
    BY <1>8, SMTT(30) DEF ReleaseUnit, ReleaseUnitFails, Typed, Shape, Holding, Kept,
                          Holds, At, Goto, orderVars, ends, Drops
  <1>9. ASSUME NEW p \in Procs, Stop(p) PROVE Stays \/ Drops(p)
    <2>1. Kept' = Kept /\ free' = free /\ extra' = extra
      BY <1>9 DEF Stop, Kept, orderVars, ends
    <2>2. CASE Holds(p)
      <3>1. p \in Holding /\ Holding' = Holding \ {p} /\ lost' = lost + 1
        BY <1>9, <2>2, SMTT(30) DEF Stop, Typed, Shape, Holding, Holds, At, Return, Idle
      <3> QED  BY <2>1, <3>1 DEF Drops
    <2>3. CASE ~ Holds(p)
      <3>1. Holding' = Holding /\ lost' = lost
        BY <1>9, <2>3, SMTT(30) DEF Stop, Typed, Shape, Holding, Holds, At, Return, Idle
      <3> QED  BY <2>1, <3>1 DEF Stays
    <2> QED  BY <2>2, <2>3
  <1>10. ASSUME NEW k \in IdemKeys, MarkerExpires(k) PROVE Stays
    BY <1>10 DEF MarkerExpires, Holding, Kept, Holds, orderVars, ends, Stays
  <1>11. ASSUME NEW o \in Orders,
                OrderLapses(o) \/ Promote(o) \/ Pay(o) \/ CancelOrder(o) \/ GiveBackFails(o)
         PROVE  Stays
    BY <1>11 DEF OrderLapses, Promote, Pay, CancelOrder, GiveBackFails, Holding, Kept, Holds,
                 orderVars, ends, Stays
  <1>12. ASSUME NEW o \in Orders, GiveBack(o) PROVE Stays \/ Ends(o) \/ GivesAgain
    <2>1. lost' = lost /\ Holding' = Holding /\ item' = item
      BY <1>12 DEF GiveBack, Holding, Holds, orderVars
    <2>2. CASE o \notin item
      BY <1>12, <2>1, <2>2 DEF GiveBack, Kept, Stays
    <2>3. CASE o \in item /\ o \notin returned
      <3>1. o \in Kept /\ Kept' = Kept \ {o} /\ free' = free + 1 /\ extra' = extra
        BY <1>12, <2>1, <2>3 DEF GiveBack, Kept
      <3> QED  BY <2>1, <3>1 DEF Ends
    <2>4. CASE o \in item /\ o \in returned
      <3>1. Kept' = Kept /\ free' = free + 1 /\ extra' = extra + 1
        BY <1>12, <2>1, <2>4 DEF GiveBack, Kept
      <3> QED  BY <2>1, <3>1 DEF GivesAgain
    <2> QED  BY <2>2, <2>3, <2>4
  <1>13. CASE UNCHANGED vars
    <2>1. Stays
      BY <1>13 DEF vars, orderVars, ends, Holding, Kept, Holds, Stays
    <2> QED  BY <2>1
  <1> HIDE DEF Moves
  <1>14. ASSUME Stays \/ GivesAgain PROVE Moves
    BY <1>14 DEF Moves
  <1>15. ASSUME NEW p \in Procs, IsReserved(p) \/ Drops(p) PROVE Moves
    BY <1>15 DEF Moves
  <1>16. ASSUME NEW o \in Orders, Ends(o) PROVE Moves
    BY <1>16 DEF Moves
  <1>17. ASSUME NEW p \in Procs, \E o \in Orders : Passes(p, o) PROVE Moves
    BY <1>17 DEF Moves
  <1> QED
    BY NextCases, <1>1, <1>2, <1>3, <1>4, <1>5, <1>6, <1>7, <1>8, <1>9, <1>10, <1>11, <1>12,
       <1>13, <1>14, <1>15, <1>16, <1>17, Zenon

LEMMA NextUnits == Typed /\ UnitsAccounted /\ [Next]_vars => UnitsAccounted'
  <1> SUFFICES ASSUME Typed, UnitsAccounted, [Next]_vars PROVE UnitsAccounted'
    OBVIOUS
  <1>a. /\ free \in Nat /\ lost \in Nat /\ extra \in Nat /\ Stock \in Nat
        /\ Cardinality(Holding) \in Nat /\ Cardinality(Kept) \in Nat
    BY FiniteHolders, CheckoutAssumption DEF Typed, Shape
  <1>b. Stock + extra = free + lost + Cardinality(Holding) + Cardinality(Kept)
    BY Units
  <1>c. UnitsAccounted'
        <=> Stock + extra' = free' + lost' + Cardinality(Holding') + Cardinality(Kept')
    BY DEF UnitsAccounted, Holding, Kept
  <1>1. ASSUME Stays PROVE UnitsAccounted'
    BY <1>1, <1>b, <1>c DEF Stays
  <1>2. ASSUME NEW p \in Procs, IsReserved(p) PROVE UnitsAccounted'
    <2>1. Cardinality(Holding') = Cardinality(Holding) + 1
      BY <1>2, Grabs DEF IsReserved
    <2> QED  BY <1>2, <2>1, <1>a, <1>b, <1>c DEF IsReserved
  <1>3. ASSUME NEW p \in Procs, NEW o \in Orders, Passes(p, o) PROVE UnitsAccounted'
    <2>1. Cardinality(Holding') = Cardinality(Holding) - 1
      BY <1>3, LetsGo DEF Passes
    <2>2. Cardinality(Kept') = Cardinality(Kept) + 1
      BY <1>3, FiniteHolders, FS_AddElement DEF Passes
    <2> QED  BY <1>3, <2>1, <2>2, <1>a, <1>b, <1>c DEF Passes
  <1>4. ASSUME NEW p \in Procs, Drops(p) PROVE UnitsAccounted'
    <2>1. Cardinality(Holding') = Cardinality(Holding) - 1
      BY <1>4, LetsGo DEF Drops
    <2> QED  BY <1>4, <2>1, <1>a, <1>b, <1>c DEF Drops
  <1>5. ASSUME NEW o \in Orders, Ends(o) PROVE UnitsAccounted'
    <2>1. Cardinality(Kept') = Cardinality(Kept) - 1
      BY <1>5, FiniteHolders, FS_RemoveElement DEF Ends
    <2> QED  BY <1>5, <2>1, <1>a, <1>b, <1>c DEF Ends
  <1>6. ASSUME GivesAgain PROVE UnitsAccounted'
    <2>1. Cardinality(Holding') = Cardinality(Holding) /\ Cardinality(Kept') = Cardinality(Kept)
      BY <1>6 DEF GivesAgain
    <2>2. free' = free + 1 /\ lost' = lost /\ extra' = extra + 1
      BY <1>6 DEF GivesAgain
    <2>3. Stock + (extra + 1) = (free + 1) + lost + Cardinality(Holding) + Cardinality(Kept)
      BY <1>a, <1>b, SMT
    <2> QED  BY <2>1, <2>2, <2>3, <1>c
  <1> QED
    BY <1>1, <1>2, <1>3, <1>4, <1>5, <1>6, UnitMoves

LEMMA InitUnits == Init => UnitsAccounted
  <1> SUFFICES ASSUME Init PROVE UnitsAccounted
    OBVIOUS
  <1>1. Holding = {} /\ Kept = {} /\ extra = 0
    BY DEF Init, Holding, Kept, Holds, Idle
  <1>2. Cardinality({}) = 0
    BY FS_EmptySet
  <1> QED  BY <1>1, <1>2, CheckoutAssumption, Units DEF Init

\* Every unit is free, held by a request, with an order, or lost where CreateOrder says
\* so, whatever fails and whoever stops; what there is beyond the stock is exactly what
\* cancelled orders gave back again (CancelOrder reads no status).
THEOREM UnitsKept == Spec => []UnitsAccounted
  <1>1. Init => Typed /\ UnitsAccounted
    BY InitTyped, InitUnits
  <1>2. Typed /\ UnitsAccounted /\ [Next]_vars => Typed' /\ UnitsAccounted'
    BY NextTyped, NextUnits
  <1> QED  BY <1>1, <1>2, PTL DEF Spec

\* The types of CreateOrder's state; free and lost stay within the stock and what
\* was given back twice because the units add up.
THEOREM TypeCorrect == Spec => []TypeOK
  <1>1. Init => Typed /\ UnitsAccounted
    BY InitTyped, InitUnits
  <1>2. Typed /\ UnitsAccounted /\ [Next]_vars => Typed' /\ UnitsAccounted'
    BY NextTyped, NextUnits
  <1>3. Typed /\ UnitsAccounted => TypeOK
    <2> SUFFICES ASSUME Typed, UnitsAccounted PROVE TypeOK
      OBVIOUS
    <2>1. free \in 0 .. Stock + extra /\ lost \in 0 .. Stock + extra
      BY FiniteHolders, Units, CheckoutAssumption DEF Typed, Shape
    <2>2. cancelling \in [Orders -> 0 .. MaxCancels]
      BY CheckoutAssumption DEF Typed, Shape
    <2> QED  BY <2>1, <2>2 DEF Typed, Shape, TypeOK
  <1> QED  BY <1>1, <1>2, <1>3, PTL DEF Spec

-----------------------------------------------------------------------------
(* Idempotency keys.                                                       *)

\* The request has set the marker of its key, or found it gone, and not yet
\* replaced or deleted it; before its order has an item, and until it remembers it.
Early(p, k) ==
    /\ req[p].key = k
    /\ req[p].pc \in {"reserve", "insert", "item", "cancel", "release", "unmark"}
Busy(p, k) == Early(p, k) \/ (req[p].key = k /\ At(p, "remember"))

\* The marker of a key stands for the one request that is busy with it, and then for
\* the one order that was made.
KeyOwned(k) ==
    /\ \A p \in Procs : Busy(p, k) => marker[k] # NoOrder
    /\ \A p, q \in Procs : Busy(p, k) /\ Busy(q, k) => p = q
    /\ \A o \in item : keyOf[o] = k => marker[k] # NoOrder
    /\ \A p \in Procs, o \in item : Early(p, k) => keyOf[o] # k
    /\ \A o1, o2 \in item : keyOf[o1] = k /\ keyOf[o2] = k => o1 = o2

KeysOwned == \A k \in IdemKeys \ loose : KeyOwned(k)

\* A step of a request on a key that is not loose after it.
LEMMA RequestOwnsKey ==
    ASSUME Typed, NEW p \in Procs, Request(p),
           NEW k \in IdemKeys, k \notin loose', KeyOwned(k)
    PROVE  KeyOwned(k)'
  <1> USE CheckoutAssumption
      DEF Typed, Shape, Owned, Making, KeyOwned, Busy, Early, At, Goto, Return, Idle, orderVars,
          ends
  <1>1. CASE \E l \in IdemKeys \cup {NoKey}, failing \in BOOLEAN : CreateOrder(p, l, failing)
    <2>1. /\ ~ Busy(p, k)' /\ \A q \in Procs \ {p} : req'[q] = req[q]
          /\ UNCHANGED <<orderVars, marker, loose>>
      BY <1>1, SMTT(30) DEF CreateOrder
    <2> QED  BY <2>1
  <1>2. CASE SetMarker(p) \/ Duplicate(p)
    BY <1>2, SMTT(30) DEF SetMarker, Duplicate
  <1>3. CASE MarkerFails(p)
    BY <1>3, SMTT(30) DEF MarkerFails
  <1>4. CASE Reserve(p) \/ Refuse(p)
    BY <1>4, SMTT(30) DEF Reserve, Refuse
  <1>a. CASE InsertOrderFails(p)
    <2>1. \A o \in item : keyOf'[o] = keyOf[o]
      BY <1>a DEF InsertOrderFails
    <2>2. /\ req' = [req EXCEPT ![p].pc = "release"]
          /\ req[p].pc = "insert" /\ UNCHANGED <<item, marker, loose>>
      BY <1>a DEF InsertOrderFails
    <2> QED  BY <2>1, <2>2, SMTT(30)
  <1>b. CASE CreateOrderItemFails(p)
    <2>1. /\ req' = [req EXCEPT ![p].pc = "cancel"]
          /\ req[p].pc = "item" /\ UNCHANGED <<keyOf, marker>>
          /\ loose \subseteq loose'
          /\ \A o \in item' : keyOf[o] = k => o \in item
      BY <1>b DEF CreateOrderItemFails
    <2> QED  BY <2>1, SMTT(30)
  <1>5. CASE InsertOrder(p)
    <2>1. PICK o \in Orders :
            /\ order[o] = "none"
            /\ keyOf' = [keyOf EXCEPT ![o] = req[p].key]
            /\ req' = [req EXCEPT ![p].pc = "item", ![p].order = o, ![p].blind = FALSE]
      BY <1>5 DEF InsertOrder
    <2>2. UNCHANGED <<item, marker, loose>> /\ req[p].pc = "insert" /\ o \notin item
      BY <1>5, <2>1 DEF InsertOrder
    <2>3. \A q \in Procs : req'[q].key = req[q].key
                           /\ req'[q].pc = IF q = p THEN "item" ELSE req[q].pc
      BY <2>1, SMTT(30)
    <2>4. \A q \in item : keyOf'[q] = keyOf[q]
      BY <2>1, <2>2
    <2> QED  BY <2>2, <2>3, <2>4
  <1>6. CASE CreateOrderItem(p)
    BY <1>6, SMTT(30) DEF CreateOrderItem
  <1>7. CASE CancelUnfinished(p) \/ CancelUnfinishedFails(p)
    BY <1>7, SMTT(30) DEF CancelUnfinished, CancelUnfinishedFails
  <1>8. CASE ReleaseUnit(p) \/ ReleaseUnitFails(p)
    BY <1>8, SMTT(30) DEF ReleaseUnit, ReleaseUnitFails
  <1>9. CASE Unmark(p) \/ UnmarkFails(p)
    BY <1>9, SMTT(30) DEF Unmark, UnmarkFails
  <1>10. CASE Remember(p) \/ RememberFails(p)
    BY <1>10, SMTT(30) DEF Remember, RememberFails
  <1>11. CASE Enqueue(p)
    BY <1>11, SMTT(30) DEF Enqueue
  <1>12. CASE Stop(p)
    BY <1>12, SMTT(30) DEF Stop
  <1> QED
    BY <1>1, <1>2, <1>3, <1>4, <1>5, <1>6, <1>7, <1>8, <1>9, <1>10, <1>11, <1>12,
       <1>a, <1>b DEF Request

LEMMA NextKeys == Typed /\ KeysOwned /\ [Next]_vars => KeysOwned'
  <1> SUFFICES ASSUME Typed, KeysOwned, [Next]_vars,
                      NEW k \in IdemKeys, k \notin loose'
               PROVE  KeyOwned(k)'
    BY DEF KeysOwned
  <1>1. ASSUME NEW p \in Procs, Request(p) PROVE KeyOwned(k)'
    <2>1. loose \subseteq loose'
      BY <1>1, Zenon DEF Request, CreateOrder, SetMarker, Duplicate, MarkerFails, Reserve,
              Refuse, InsertOrder, InsertOrderFails, CreateOrderItem, CreateOrderItemFails,
              CancelUnfinished, CancelUnfinishedFails, ReleaseUnit, ReleaseUnitFails, Unmark,
              UnmarkFails, Remember, RememberFails, Enqueue, Stop
    <2>2. KeyOwned(k)
      BY <2>1 DEF KeysOwned
    <2> QED  BY <1>1, <2>2, RequestOwnsKey
  <1> USE DEF Typed, Shape, KeyOwned, Busy, Early, At, orderVars, ends
  <1>2. ASSUME NEW l \in IdemKeys, MarkerExpires(l) PROVE KeyOwned(k)'
    BY <1>2, SMTT(30) DEF MarkerExpires, KeysOwned
  <1>3. ASSUME NEW o \in Orders, OrderEnds(o) PROVE KeyOwned(k)'
    <2>1. UNCHANGED <<item, keyOf, marker, req, loose>>
      BY <1>3 DEF OrderEnds, OrderLapses, Promote, CancelOrder, GiveBack, GiveBackFails, Pay
    <2> QED  BY <2>1 DEF KeysOwned
  <1>4. CASE UNCHANGED vars
    BY <1>4 DEF vars, KeysOwned
  <1> QED
    BY <1>1, <1>2, <1>3, <1>4, Zenon DEF Next

LEMMA InitKeys == Init => KeysOwned
  BY DEF Init, KeysOwned, KeyOwned, Busy, Early, At, Idle

\* One order per idempotency key, for any number of requests with it.
THEOREM KeyOnce == Spec => []OneOrderPerKey
  <1>1. Init => Typed /\ KeysOwned
    BY InitTyped, InitKeys
  <1>2. Typed /\ KeysOwned /\ [Next]_vars => Typed' /\ KeysOwned'
    BY NextTyped, NextKeys
  <1>3. KeysOwned => OneOrderPerKey
    BY DEF KeysOwned, KeyOwned, OneOrderPerKey
  <1> QED  BY <1>1, <1>2, <1>3, PTL DEF Spec

-----------------------------------------------------------------------------
(* Cancelled orders.                                                       *)

LEMMA NextGivesBack == Typed /\ CancelledGivesBack /\ [Next]_vars => CancelledGivesBack'
  <1> SUFFICES ASSUME Typed, CancelledGivesBack, [Next]_vars PROVE CancelledGivesBack'
    OBVIOUS
  <1> USE DEF CancelledGivesBack, orderVars, ends
  <1>1. ASSUME NEW p \in Procs, Still(p) PROVE CancelledGivesBack'
    BY <1>1, Zenon DEF Still, CreateOrder, SetMarker, Duplicate, MarkerFails, Refuse,
            CancelUnfinishedFails, Unmark, UnmarkFails, Remember, RememberFails, Enqueue
  <1>2. ASSUME NEW p \in Procs,
               Reserve(p) \/ ReleaseUnit(p) \/ ReleaseUnitFails(p) \/ Stop(p)
        PROVE  CancelledGivesBack'
    BY <1>2, Zenon DEF Reserve, ReleaseUnit, ReleaseUnitFails, Stop
  <1>3. ASSUME NEW p \in Procs, InsertOrder(p) \/ InsertOrderFails(p)
        PROVE  CancelledGivesBack'
    <2>1. \A o \in item : order'[o] = order[o]
      BY <1>3 DEF InsertOrder, InsertOrderFails, Typed, Shape
    <2>2. UNCHANGED <<item, returned, cancelling, stranded>>
      BY <1>3 DEF InsertOrder, InsertOrderFails
    <2> QED  BY <2>1, <2>2
  <1>4. ASSUME NEW p \in Procs, CreateOrderItem(p) PROVE CancelledGivesBack'
    BY <1>4 DEF CreateOrderItem
  <1>5. ASSUME NEW p \in Procs, CreateOrderItemFails(p) PROVE CancelledGivesBack'
    BY <1>5 DEF CreateOrderItemFails
  <1>6. ASSUME NEW p \in Procs, CancelUnfinished(p) PROVE CancelledGivesBack'
    <2>1. /\ req[p].order \notin item \ returned
          /\ order' = [order EXCEPT ![req[p].order] = "CANCELLED"]
          /\ UNCHANGED <<item, returned, cancelling, stranded>>
      BY <1>6 DEF CancelUnfinished, Typed, Owned, Making, At
    <2> QED  BY <2>1 DEF Typed, Shape
  <1>7. ASSUME NEW k \in IdemKeys, MarkerExpires(k) PROVE CancelledGivesBack'
    BY <1>7 DEF MarkerExpires
  <1>8. ASSUME NEW o \in Orders, OrderLapses(o) \/ Promote(o) PROVE CancelledGivesBack'
    BY <1>8 DEF OrderLapses, Promote
  <1>9. ASSUME NEW o \in Orders, Pay(o) PROVE CancelledGivesBack'
    BY <1>9 DEF Pay, Typed, Shape
  <1>10. ASSUME NEW o \in Orders, CancelOrder(o) PROVE CancelledGivesBack'
    BY <1>10 DEF CancelOrder, Typed, Shape
  <1>11. ASSUME NEW o \in Orders, GiveBack(o) PROVE CancelledGivesBack'
    BY <1>11 DEF GiveBack, Typed, Shape
  <1>12. ASSUME NEW o \in Orders, GiveBackFails(o) PROVE CancelledGivesBack'
    BY <1>12 DEF GiveBackFails, Typed, Shape
  <1>13. CASE UNCHANGED vars
    BY <1>13 DEF vars
  <1> HIDE DEF CancelledGivesBack, orderVars, ends
  <1> QED
    BY NextCases, <1>1, <1>2, <1>3, <1>4, <1>5, <1>6, <1>7, <1>8, <1>9, <1>10, <1>11, <1>12,
       <1>13, Zenon

\* A cancelled order keeps its unit only while a cancellation is to give it back, or
\* because the last one broke off or came before the item.
THEOREM GivenBack == Spec => []CancelledGivesBack
  <1>1. Init => Typed /\ CancelledGivesBack
    BY InitTyped DEF Init, CancelledGivesBack
  <1>2. Typed /\ CancelledGivesBack /\ [Next]_vars => Typed' /\ CancelledGivesBack'
    BY NextTyped, NextGivesBack
  <1> QED  BY <1>1, <1>2, PTL DEF Spec

-----------------------------------------------------------------------------
(* The guard against a second pending order.                               *)

\* Of two requests past the guard one is blind, and one that is not has seen every
\* active order but the blind ones.
Guarded ==
    /\ \A p, q \in Procs :
        Entering(p) /\ Entering(q) => p = q \/ req[p].blind \/ req[q].blind
    /\ \A p \in Procs, o \in Orders :
        Entering(p) /\ ~ req[p].blind /\ Active(o) => o \in blind

LEMMA NextGuarded == Typed /\ Guarded /\ OnePending /\ [Next]_vars => Guarded' /\ OnePending'
  <1> SUFFICES ASSUME Typed, Guarded, OnePending, [Next]_vars PROVE Guarded' /\ OnePending'
    OBVIOUS
  <1> USE DEF Typed, Shape, Guarded, OnePending, Entering, Active, At, Goto, Return, Idle, orderVars,
            ends
  \* Nobody enters, and an order that becomes active or stays so is blind if it was.
  <1>a. ASSUME \A o \in Orders : Active(o)' /\ o \in blind => o \in blind',
               \A q \in Procs : Entering(q)' => Entering(q) /\ req'[q].blind = req[q].blind,
               \A o \in Orders : Active(o)' => Active(o) \/ o \in blind'
        PROVE  Guarded' /\ OnePending'
    BY <1>a
  <1>1. ASSUME NEW p \in Procs, NEW k \in IdemKeys \cup {NoKey}, NEW f \in BOOLEAN,
               CreateOrder(p, k, f)
        PROVE  Guarded' /\ OnePending'
    <2> DEFINE b == f \/ \E q \in Procs : Entering(q)
    <2>1. /\ \A q \in Procs \ {p} : req'[q] = req[q]
          /\ req'[p].blind = b
          /\ UNCHANGED <<orderVars, blind>>
          /\ f \/ \A o \in Orders : ~ Active(o)
      BY <1>1, SMTT(30) DEF CreateOrder
    <2>2. CASE b
      BY <2>1, <2>2
    <2>3. CASE ~ b
      BY <2>1, <2>3
    <2> QED  BY <2>2, <2>3
  \* A request that inserts a row has passed the guard, and is past it now.
  <1>b. ASSUME NEW p \in Procs, Entering(p), ~ Entering(p)',
               \A q \in Procs \ {p} : req'[q] = req[q],
               NEW o \in Orders, order[o] = "none",
               order' = [order EXCEPT ![o] = "PENDING"], due' = due,
               blind' = IF req[p].blind THEN blind \cup {o} ELSE blind
        PROVE  Guarded' /\ OnePending'
    BY <1>b
  <1>2. ASSUME NEW p \in Procs, InsertOrder(p) PROVE Guarded' /\ OnePending'
    <2>1. PICK o \in Orders :
            /\ order[o] = "none"
            /\ order' = [order EXCEPT ![o] = "PENDING"]
            /\ blind' = IF req[p].blind THEN blind \cup {o} ELSE blind
            /\ req' = [req EXCEPT ![p].pc = "item", ![p].order = o, ![p].blind = FALSE]
      BY <1>2 DEF InsertOrder
    <2>2. due' = due /\ Entering(p)
      BY <1>2 DEF InsertOrder
    <2>3. ~ Entering(p)' /\ \A q \in Procs \ {p} : req'[q] = req[q]
      BY <2>1, SMTT(30)
    <2> QED  BY <2>1, <2>2, <2>3, <1>b
  <1>c. ASSUME NEW p \in Procs, InsertOrderFails(p) PROVE Guarded' /\ OnePending'
    <2>1. due' = due /\ Entering(p) /\ req' = [req EXCEPT ![p].pc = "release"]
      BY <1>c DEF InsertOrderFails
    <2>2. ~ Entering(p)' /\ \A q \in Procs \ {p} : req'[q] = req[q]
      BY <2>1, SMTT(30)
    <2>3. CASE UNCHANGED <<order, blind>>
      BY <2>1, <2>2, <2>3, <1>a
    <2>4. CASE ~ UNCHANGED <<order, blind>>
      <3>1. PICK o \in Orders :
              /\ order[o] = "none"
              /\ order' = [order EXCEPT ![o] = "PENDING"]
              /\ blind' = IF req[p].blind THEN blind \cup {o} ELSE blind
        BY <1>c, <2>4 DEF InsertOrderFails
      <3> QED  BY <2>1, <2>2, <3>1, <1>b
    <2> QED  BY <2>3, <2>4
  <1>3. ASSUME NEW p \in Procs,
               \/ SetMarker(p) \/ Duplicate(p) \/ MarkerFails(p)
               \/ Reserve(p) \/ Refuse(p)
        PROVE  Guarded' /\ OnePending'
    BY <1>3, <1>a, SMTT(30)
       DEF SetMarker, Duplicate, MarkerFails, Reserve, Refuse
  <1>4. ASSUME NEW p \in Procs,
               \/ CreateOrderItem(p) \/ CreateOrderItemFails(p) \/ CancelUnfinishedFails(p)
               \/ ReleaseUnit(p) \/ ReleaseUnitFails(p) \/ Unmark(p) \/ UnmarkFails(p)
               \/ Remember(p) \/ RememberFails(p) \/ Stop(p)
        PROVE  Guarded' /\ OnePending'
    BY <1>4, <1>a, SMTT(30)
       DEF CreateOrderItem, CreateOrderItemFails, CancelUnfinishedFails, ReleaseUnit,
           ReleaseUnitFails, Unmark, UnmarkFails, Remember, RememberFails, Stop
  <1>5. ASSUME NEW p \in Procs, CancelUnfinished(p) PROVE Guarded' /\ OnePending'
    BY <1>5, <1>a, SMTT(30) DEF CancelUnfinished, Owned, Making
  <1>6. ASSUME NEW p \in Procs, Enqueue(p) PROVE Guarded' /\ OnePending'
    BY <1>6, <1>a, SMTT(30) DEF Enqueue
  <1>7. ASSUME NEW o \in Orders,
               OrderLapses(o) \/ CancelOrder(o) \/ GiveBack(o) \/ GiveBackFails(o) \/ Pay(o)
        PROVE  Guarded' /\ OnePending'
    BY <1>7, <1>a, SMTT(30) DEF OrderLapses, CancelOrder, GiveBack, GiveBackFails, Pay
  <1>8. ASSUME NEW o \in Orders, Promote(o) PROVE Guarded' /\ OnePending'
    BY <1>8, <1>a, SMTT(30) DEF Promote
  <1>9. ASSUME NEW k \in IdemKeys, MarkerExpires(k) PROVE Guarded' /\ OnePending'
    BY <1>9, <1>a DEF MarkerExpires
  <1>10. CASE UNCHANGED vars
    BY <1>10, <1>a DEF vars
  <1> HIDE DEF Typed, Shape, Guarded, OnePending, Entering, Active, At, Goto, Return, Idle, orderVars,
            ends
  <1> QED
    BY NextCases, <1>1, <1>2, <1>3, <1>4, <1>5, <1>6, <1>7, <1>8, <1>9, <1>10, <1>c,
       Zenon DEF Still

LEMMA InitGuarded == Init => Guarded /\ OnePending
  BY DEF Init, Guarded, OnePending, Entering, Active, Idle

\* A buyer's two active orders are explained by a request that could not see the first.
THEOREM PendingOnce == Spec => []OnePending
  <1>1. Init => Typed /\ Guarded /\ OnePending
    BY InitTyped, InitGuarded
  <1>2. Typed /\ Guarded /\ OnePending /\ [Next]_vars => Typed' /\ Guarded' /\ OnePending'
    BY NextTyped, NextGuarded
  <1> QED  BY <1>1, <1>2, PTL DEF Spec

=============================================================================
