------------------------- MODULE WithdrawalsProofs -------------------------
(***************************************************************************)
(* What holds of Withdrawals for any number of organizers, events, orders, *)
(* requests and readers, whatever the amounts asked for.                   *)
(*                                                                         *)
(* The money is a sum over a set of rows.  The library says nothing about  *)
(* MapThenSumSet, so the first section does: a sum exists, is a natural    *)
(* number, does not depend on the order in which it is taken, and grows    *)
(* by what is added.  Its inductions are by a smallest counterexample,     *)
(* which the well-foundedness of < on Nat provides.                        *)
(***************************************************************************)
EXTENDS Withdrawals, TLAPS, FiniteSetTheorems

-----------------------------------------------------------------------------
(* Sums over finite sets.                                                  *)

\* The element MapThenSumSet takes out of a set.
Any(s) == CHOOSE x \in s : TRUE

\* g maps every subset of S to the sum of f over it, in the way MapThenSumSet does.
Adds(g, f, S) ==
    g = [s \in SUBSET S |-> IF s = {} THEN 0 ELSE f[Any(s)] + g[s \ {Any(s)}]]

\* The least-number principle.
LEMMA LeastNat ==
    ASSUME NEW T, T \subseteq Nat, T # {}
    PROVE  \E n \in T : \A m \in T : n <= m
<1>1. IsWellFoundedOn(OpToRel(<, Nat), Nat)
  BY NatLessThanWellFounded
<1>2. PICK x \in T : \A y \in T : ~ (<<y, x>> \in OpToRel(<, Nat))
  BY <1>1, WFMin
<1>3. \A y \in T : ~ (y < x)
  BY <1>2 DEF OpToRel
<1> QED BY <1>3

\* Among finite sets there is one no proper subset of which is among them.
LEMMA SmallestSet ==
    ASSUME NEW C, C # {}, \A s \in C : IsFiniteSet(s)
    PROVE  \E s \in C : \A t \in C : t \subseteq s => t = s
<1> DEFINE T == {Cardinality(s) : s \in C}
<1>1. T \subseteq Nat /\ T # {}
  BY FS_CardinalityType
<1>2. PICK n \in T : \A m \in T : n <= m
  <2> HIDE DEF T
  <2> QED BY <1>1, LeastNat
<1>3. PICK s \in C : n = Cardinality(s)
  BY <1>2
<1>4. ASSUME NEW t \in C, t \subseteq s PROVE t = s
  <2>1. Cardinality(s) <= Cardinality(t)
    BY <1>2, <1>3, <1>4
  <2>2. Cardinality(t) <= Cardinality(s) /\ (Cardinality(s) = Cardinality(t) => s = t)
    BY <1>3, <1>4, FS_Subset
  <2>3. Cardinality(s) \in Nat /\ Cardinality(t) \in Nat
    BY FS_CardinalityType
  <2> QED BY <2>1, <2>2, <2>3
<1> QED BY <1>3, <1>4

LEMMA AnyIsIn == ASSUME NEW s, s # {} PROVE Any(s) \in s
  BY DEF Any

\* There is such a function: it is built up from the subsets of n elements to those
\* of n + 1.
LEMMA AddsExists ==
    ASSUME NEW f, NEW S, IsFiniteSet(S)
    PROVE  \E g : Adds(g, f, S)
<1> DEFINE Sub(n) == {s \in SUBSET S : Cardinality(s) <= n}
           Up(g, s) == IF s = {} THEN 0 ELSE f[Any(s)] + g[s \ {Any(s)}]
           Bad == {n \in Nat : ~ \E g : g = [s \in Sub(n) |-> Up(g, s)]}
<1>1. Bad = {}
  <2> SUFFICES ASSUME Bad # {} PROVE FALSE
    OBVIOUS
  <2>1. PICK n \in Bad : \A m \in Bad : n <= m
    <3>1. Bad \subseteq Nat OBVIOUS
    <3> HIDE DEF Bad
    <3> QED BY <3>1, LeastNat
  <2>2. n # 0
    <3>1. Sub(0) = {{}}
      BY FS_EmptySet, FS_Subset, FS_CardinalityType
    <3>2. [s \in Sub(0) |-> 0] = [s \in Sub(0) |-> Up([s1 \in Sub(0) |-> 0], s)]
      BY <3>1
    <3>3. 0 \notin Bad
      <4> HIDE DEF Sub, Up
      <4> QED BY <3>2
    <3> QED BY <2>1, <3>3
  <2>3. n - 1 \in Nat /\ n - 1 \notin Bad
    <3>1. n \in Nat OBVIOUS
    <3> HIDE DEF Bad
    <3> QED BY <2>1, <2>2, <3>1
  <2>4. PICK g : g = [s \in Sub(n - 1) |-> Up(g, s)]
    BY <2>3
  <2> DEFINE h == [s \in Sub(n) |-> Up(g, s)]
  <2>5. ASSUME NEW s \in Sub(n), s # {} PROVE s \ {Any(s)} \in Sub(n - 1)
    <3>1. IsFiniteSet(s) /\ Any(s) \in s
      BY <2>5, FS_Subset, AnyIsIn
    <3>2. Cardinality(s \ {Any(s)}) = Cardinality(s) - 1 /\ Cardinality(s) \in Nat
      BY <3>1, FS_RemoveElement, FS_CardinalityType
    <3> QED BY <2>1, <3>2
  <2>6. ASSUME NEW s \in Sub(n - 1) PROVE s \in Sub(n) /\ h[s] = g[s]
    <3>1. Cardinality(s) \in Nat
      BY FS_Subset, FS_CardinalityType
    <3>2. s \in Sub(n)
      BY <2>1, <3>1
    <3>3. g[s] = Up(g, s)
      <4> HIDE DEF Up, Sub
      <4> QED BY <2>4
    <3>4. h[s] = Up(g, s)
      <4> HIDE DEF Up, Sub
      <4> QED BY <3>2
    <3> QED BY <3>2, <3>3, <3>4
  <2>7. ASSUME NEW s \in Sub(n) PROVE Up(g, s) = Up(h, s)
    <3> HIDE DEF Sub, h
    <3> QED BY <2>5, <2>6
  <2>8. h = [s \in Sub(n) |-> Up(h, s)]
    <3> HIDE DEF Sub, Up
    <3> QED BY <2>7
  <2> HIDE DEF Sub, Up, h
  <2> QED BY <2>1, <2>8
<1>2. \A s \in SUBSET S : Cardinality(s) <= Cardinality(S)
  BY FS_Subset
<1>3. Sub(Cardinality(S)) = SUBSET S
  BY <1>2
<1>4. \E g : g = [s \in Sub(Cardinality(S)) |-> Up(g, s)]
  BY <1>1, FS_CardinalityType
<1> QED BY <1>3, <1>4 DEF Adds

LEMMA AddsAt ==
    ASSUME NEW g, NEW f, NEW S, Adds(g, f, S), NEW s \in SUBSET S
    PROVE  /\ s = {} => g[s] = 0
           /\ s # {} => Any(s) \in s /\ g[s] = f[Any(s)] + g[s \ {Any(s)}]
<1>1. g[s] = IF s = {} THEN 0 ELSE f[Any(s)] + g[s \ {Any(s)}]
  BY DEF Adds
<1> QED BY <1>1, AnyIsIn

LEMMA AddsNat ==
    ASSUME NEW g, NEW f, NEW S, IsFiniteSet(S), Adds(g, f, S), \A x \in S : f[x] \in Nat,
           NEW s \in SUBSET S
    PROVE  g[s] \in Nat
<1> DEFINE Bad == {t \in SUBSET S : g[t] \notin Nat}
<1> SUFFICES ASSUME Bad # {} PROVE FALSE
  OBVIOUS
<1>1. \A t \in Bad : IsFiniteSet(t)
  BY FS_Subset
<1>2. PICK t \in Bad : \A u \in Bad : u \subseteq t => u = t
  <2> HIDE DEF Bad
  <2> QED BY <1>1, SmallestSet
<1>3. t \in SUBSET S /\ g[t] \notin Nat
  OBVIOUS
<1>4. Any(t) \in t /\ g[t] = f[Any(t)] + g[t \ {Any(t)}]
  <2> HIDE DEF Bad
  <2>1. t = {} => g[t] = 0
    BY <1>3, AddsAt
  <2> QED BY <1>3, <2>1, AddsAt
<1>5. t \ {Any(t)} \notin Bad
  BY <1>2, <1>4
<1>6. g[t \ {Any(t)}] \in Nat /\ f[Any(t)] \in Nat
  BY <1>3, <1>4, <1>5
<1> QED BY <1>3, <1>4, <1>6

\* Any member of the set may be the one that is added last.
LEMMA AddsAnyone ==
    ASSUME NEW g, NEW f, NEW S, IsFiniteSet(S), Adds(g, f, S), \A x \in S : f[x] \in Nat,
           NEW s \in SUBSET S, NEW x \in s
    PROVE  g[s] = f[x] + g[s \ {x}]
<1> DEFINE Bad == {t \in SUBSET S : \E y \in t : g[t] # f[y] + g[t \ {y}]}
<1> SUFFICES ASSUME Bad # {} PROVE FALSE
  OBVIOUS
<1>1. \A t \in Bad : IsFiniteSet(t)
  BY FS_Subset
<1>2. PICK t \in Bad : \A u \in Bad : u \subseteq t => u = t
  <2> HIDE DEF Bad
  <2> QED BY <1>1, SmallestSet
<1>3. PICK y \in t : g[t] # f[y] + g[t \ {y}]
  OBVIOUS
<1> DEFINE z == Any(t)
<1>4. z \in t /\ g[t] = f[z] + g[t \ {z}]
  BY AddsAt
<1> HIDE DEF z
<1>5. z # y
  BY <1>3, <1>4
<1>6. t \ {z} \notin Bad /\ t \ {y} \notin Bad
  BY <1>2, <1>4
<1>7. g[t \ {z}] = f[y] + g[(t \ {z}) \ {y}]
  BY <1>4, <1>5, <1>6
<1>8. g[t \ {y}] = f[z] + g[(t \ {y}) \ {z}]
  BY <1>4, <1>5, <1>6
<1>9. (t \ {z}) \ {y} = (t \ {y}) \ {z}
  OBVIOUS
<1>10. f[y] \in Nat /\ f[z] \in Nat /\ g[(t \ {y}) \ {z}] \in Nat
  BY <1>4, AddsNat
<1>11. g[t] = f[z] + (f[y] + g[(t \ {y}) \ {z}])
  BY <1>4, <1>7, <1>9
<1>12. f[y] + g[t \ {y}] = f[y] + (f[z] + g[(t \ {y}) \ {z}])
  BY <1>8
<1> HIDE DEF Bad
<1> QED BY <1>3, <1>10, <1>11, <1>12

\* Two sums agree on a set on which what they add agrees.
LEMMA AddsAgree ==
    ASSUME NEW g, NEW f, NEW S, NEW h, NEW e, NEW T, Adds(g, f, S), Adds(h, e, T),
           NEW s \in SUBSET (S \cap T), IsFiniteSet(s), \A x \in s : f[x] = e[x]
    PROVE  g[s] = h[s]
<1> DEFINE Bad == {t \in SUBSET s : g[t] # h[t]}
<1> SUFFICES ASSUME Bad # {} PROVE FALSE
  OBVIOUS
<1>1. \A t \in Bad : IsFiniteSet(t)
  BY FS_Subset
<1>2. PICK t \in Bad : \A u \in Bad : u \subseteq t => u = t
  <2> HIDE DEF Bad
  <2> QED BY <1>1, SmallestSet
<1>3. t \in SUBSET S /\ t \in SUBSET T
  OBVIOUS
<1>4. t # {}
  BY <1>3, AddsAt
<1>5. /\ Any(t) \in t /\ g[t] = f[Any(t)] + g[t \ {Any(t)}]
      /\ h[t] = e[Any(t)] + h[t \ {Any(t)}]
  BY <1>3, <1>4, AddsAt
<1>6. t \ {Any(t)} \notin Bad
  BY <1>2, <1>5
<1> QED BY <1>5, <1>6
\* The sum of f over S.
SumOf(f, S) == MapThenSumSet(LAMBDA x : f[x], S)

LEMMA SumIsAdds ==
    ASSUME NEW f, NEW S, IsFiniteSet(S)
    PROVE  \E g : Adds(g, f, S) /\ SumOf(f, S) = g[S]
<1> DEFINE P(g) == g = [s \in SUBSET S |-> IF s = {} THEN 0 ELSE f[Any(s)] + g[s \ {Any(s)}]]
           sum == CHOOSE g : P(g)
<1>1. SumOf(f, S) = sum[S]
  BY DEF SumOf, MapThenSumSet, MapThenFoldSet, Any
<1>2. PICK g : Adds(g, f, S)
  BY AddsExists
<1>3. P(sum)
  <2>1. P(g)
    BY <1>2 DEF Adds
  <2> HIDE DEF P
  <2> QED BY <2>1
<1> QED BY <1>1, <1>3 DEF Adds

LEMMA SumEmpty == ASSUME NEW f PROVE SumOf(f, {}) = 0
  BY SumIsAdds, AddsAt, FS_EmptySet

LEMMA SumNat ==
    ASSUME NEW f, NEW S, IsFiniteSet(S), \A x \in S : f[x] \in Nat
    PROVE  SumOf(f, S) \in Nat
  BY SumIsAdds, AddsNat

\* The sum depends on nothing but the summands.
LEMMA SumAgree ==
    ASSUME NEW f, NEW e, NEW S, IsFiniteSet(S), \A x \in S : f[x] = e[x]
    PROVE  SumOf(f, S) = SumOf(e, S)
<1>1. PICK g : Adds(g, f, S) /\ SumOf(f, S) = g[S]
  BY SumIsAdds
<1>2. PICK h : Adds(h, e, S) /\ SumOf(e, S) = h[S]
  BY SumIsAdds
<1> QED BY <1>1, <1>2, AddsAgree

\* One element less, and one more.
LEMMA SumRemove ==
    ASSUME NEW f, NEW S, IsFiniteSet(S), \A x \in S : f[x] \in Nat, NEW x \in S
    PROVE  SumOf(f, S) = f[x] + SumOf(f, S \ {x})
<1>1. PICK g : Adds(g, f, S) /\ SumOf(f, S) = g[S]
  BY SumIsAdds
<1>2. IsFiniteSet(S \ {x})
  BY FS_Subset
<1>3. PICK h : Adds(h, f, S \ {x}) /\ SumOf(f, S \ {x}) = h[S \ {x}]
  BY <1>2, SumIsAdds
<1>4. g[S \ {x}] = h[S \ {x}]
  BY <1>1, <1>2, <1>3, AddsAgree
<1> QED BY <1>1, <1>3, <1>4, AddsAnyone

LEMMA SumAdd ==
    ASSUME NEW f, NEW S, IsFiniteSet(S), NEW x, x \notin S, \A y \in S \cup {x} : f[y] \in Nat
    PROVE  SumOf(f, S \cup {x}) = f[x] + SumOf(f, S)
<1>1. (S \cup {x}) \ {x} = S
  OBVIOUS
<1>2. IsFiniteSet(S \cup {x})
  BY FS_AddElement
<1> QED BY <1>1, <1>2, SumRemove

\* A sum over fewer elements is no more.
LEMMA SumMonotone ==
    ASSUME NEW f, NEW S, IsFiniteSet(S), \A x \in S : f[x] \in Nat, NEW T \in SUBSET S
    PROVE  SumOf(f, T) <= SumOf(f, S)
<1> DEFINE Bad == {U \in SUBSET S : T \subseteq U /\ ~ (SumOf(f, T) <= SumOf(f, U))}
<1> SUFFICES ASSUME Bad # {} PROVE FALSE
  OBVIOUS
<1>1. \A U \in Bad : IsFiniteSet(U)
  BY FS_Subset
<1>2. PICK U \in Bad : \A V \in Bad : V \subseteq U => V = U
  <2> HIDE DEF Bad
  <2> QED BY <1>1, SmallestSet
<1>3. U \in SUBSET S /\ T \subseteq U /\ ~ (SumOf(f, T) <= SumOf(f, U)) /\ IsFiniteSet(U) /\ IsFiniteSet(T)
  BY FS_Subset
<1>4. SumOf(f, T) \in Nat
  BY <1>3, SumNat
<1>5. PICK x \in U : x \notin T
  BY <1>3, <1>4
<1>6. U \ {x} \notin Bad
  BY <1>2, <1>5
<1>7. SumOf(f, T) <= SumOf(f, U \ {x})
  BY <1>3, <1>5, <1>6
<1>8. IsFiniteSet(U \ {x})
  BY <1>3, FS_Subset
<1>9. SumOf(f, U \ {x}) \in Nat /\ f[x] \in Nat
  BY <1>3, <1>8, SumNat
<1>10. SumOf(f, U) = f[x] + SumOf(f, U \ {x})
  BY <1>3, SumRemove
<1> HIDE DEF Bad
<1> QED BY <1>3, <1>4, <1>7, <1>9, <1>10

\* A sum of equal amounts is a product.
LEMMA SumOfEqual ==
    ASSUME NEW f, NEW S, IsFiniteSet(S), NEW c \in Nat, \A x \in S : f[x] = c
    PROVE  SumOf(f, S) = c * Cardinality(S)
<1> DEFINE Bad == {U \in SUBSET S : SumOf(f, U) # c * Cardinality(U)}
<1> SUFFICES ASSUME Bad # {} PROVE FALSE
  OBVIOUS
<1>1. \A U \in Bad : IsFiniteSet(U)
  BY FS_Subset
<1>2. PICK U \in Bad : \A V \in Bad : V \subseteq U => V = U
  <2> HIDE DEF Bad
  <2> QED BY <1>1, SmallestSet
<1>3. U \in SUBSET S /\ SumOf(f, U) # c * Cardinality(U) /\ IsFiniteSet(U)
  BY FS_Subset
<1>4. PICK x : x \in U
  <2>1. U # {}
    BY <1>3, SumEmpty, FS_EmptySet
  <2> QED BY <2>1
<1>5. U \ {x} \notin Bad
  BY <1>2, <1>4
<1>6. SumOf(f, U \ {x}) = c * Cardinality(U \ {x})
  BY <1>3, <1>4, <1>5
<1>7. SumOf(f, U) = c + SumOf(f, U \ {x})
  BY <1>3, <1>4, SumRemove
<1>8. Cardinality(U) \in Nat /\ Cardinality(U \ {x}) = Cardinality(U) - 1
  BY <1>3, <1>4, FS_RemoveElement, FS_CardinalityType
<1>9. c + c * (Cardinality(U) - 1) = c * Cardinality(U)
  BY <1>8
<1> HIDE DEF Bad
<1> QED BY <1>3, <1>6, <1>7, <1>8, <1>9
-----------------------------------------------------------------------------
(* The two sums of the model: total_deducted and the gross revenue.        *)

\* withdrawals.amount, and the rows GetWithdrawnSummaryByOrganizer counts.
AmountOf == [r \in Requests |-> row[r].amount]

Counted(g) == {r \in Requests : By[r] = g /\ row[r].status \in {"PENDING", "APPROVED", "PAID"}}

LEMMA CountedFinite == \A g : IsFiniteSet(Counted(g))
  BY WithdrawalsAssumption, FS_Subset DEF Counted

LEMMA DeductedIsSum == \A g : Deducted(g) = SumOf(AmountOf, Counted(g))
<1> SUFFICES ASSUME NEW g PROVE Deducted(g) = SumOf(AmountOf, Counted(g))
  OBVIOUS
<1> DEFINE S == Counted(g)
           P(h) == h = [s \in SUBSET S |-> IF s = {} THEN 0 ELSE row[Any(s)].amount + h[s \ {Any(s)}]]
           sum == CHOOSE h : P(h)
<1>1. Deducted(g) = sum[S]
  BY DEF Deducted, Counted, MapThenSumSet, MapThenFoldSet, Any
<1>2. IsFiniteSet(S)
  BY CountedFinite
<1>3. ASSUME NEW s \in SUBSET S, s # {} PROVE AmountOf[Any(s)] = row[Any(s)].amount
  <2>1. Any(s) \in Requests
    BY <1>3, AnyIsIn DEF Counted
  <2> QED BY <2>1 DEF AmountOf
<1>4. PICK h : Adds(h, AmountOf, S) /\ SumOf(AmountOf, S) = h[S]
  BY <1>2, SumIsAdds
<1> HIDE DEF S
<1>5. P(h)
  BY <1>3, <1>4 DEF Adds
<1>6. P(sum)
  <2> HIDE DEF P
  <2> QED BY <1>5
<1>7. Adds(sum, AmountOf, S)
  BY <1>3, <1>6 DEF Adds
<1>8. sum[S] = h[S]
  <2> HIDE DEF sum
  <2> QED BY <1>2, <1>4, <1>7, AddsAgree
<1> QED BY <1>1, <1>4, <1>8 DEF S

\* The orders GetOrganizerStats counts, each at the same price.
PaidAmong(es) == {o \in Orders : EventOf[o] \in es /\ orderStatus[o] = "PAID"}

LEMMA StatsIsPrice == \A es : OrganizerStats(es) = Price * Cardinality(PaidAmong(es))
<1> SUFFICES ASSUME NEW es PROVE OrganizerStats(es) = Price * Cardinality(PaidAmong(es))
  OBVIOUS
<1> DEFINE S == PaidAmong(es)
           f == [o \in Orders |-> Price]
           P(h) == h = [s \in SUBSET S |-> IF s = {} THEN 0 ELSE Price + h[s \ {Any(s)}]]
           sum == CHOOSE h : P(h)
<1>1. OrganizerStats(es) = sum[S]
  BY DEF OrganizerStats, PaidAmong, MapThenSumSet, MapThenFoldSet, Any
<1>2. IsFiniteSet(S)
  BY WithdrawalsAssumption, FS_Subset DEF PaidAmong
<1>3. \A o \in S : f[o] = Price
  BY DEF PaidAmong
<1>4. PICK h : Adds(h, f, S) /\ SumOf(f, S) = h[S]
  BY <1>2, SumIsAdds
<1> HIDE DEF S, f
<1>5. \A s \in SUBSET S : s # {} => f[Any(s)] = Price
  BY <1>3, AnyIsIn
<1>6. P(h)
  BY <1>4, <1>5 DEF Adds
<1>7. P(sum)
  <2> HIDE DEF P
  <2> QED BY <1>6
<1>8. Adds(sum, f, S)
  BY <1>5, <1>7 DEF Adds
<1>9. sum[S] = h[S]
  <2> HIDE DEF sum
  <2> QED BY <1>2, <1>4, <1>8, AddsAgree
<1>10. SumOf(f, S) = Price * Cardinality(S)
  BY <1>2, <1>3, SumOfEqual, WithdrawalsAssumption
<1> QED BY <1>1, <1>4, <1>9, <1>10 DEF S

-----------------------------------------------------------------------------
(* Types.                                                                  *)

LEMMA DeductedNat == TypeOK => \A g : Deducted(g) \in Nat
<1> SUFFICES ASSUME TypeOK, NEW g PROVE Deducted(g) \in Nat
  OBVIOUS
<1>1. \A r \in Counted(g) : AmountOf[r] \in Nat
  BY DEF TypeOK, Counted, AmountOf
<1> QED BY <1>1, CountedFinite, SumNat, DeductedIsSum

LEMMA StatsNat == \A es : OrganizerStats(es) \in Nat
<1> SUFFICES ASSUME NEW es PROVE OrganizerStats(es) \in Nat
  OBVIOUS
<1>1. Cardinality(PaidAmong(es)) \in Nat
  BY WithdrawalsAssumption, FS_Subset, FS_CardinalityType DEF PaidAmong
<1>2. \A n \in Nat : Price * n \in Nat
  BY WithdrawalsAssumption
<1> QED BY <1>1, <1>2, StatsIsPrice

LEMMA AvailableNat == TypeOK => \A p \in Calls : Available(p) \in Nat
<1> SUFFICES ASSUME TypeOK, NEW p \in Calls PROVE Available(p) \in Nat
  OBVIOUS
<1>1. revenue[p] \in Nat /\ Deducted(By[p]) \in Nat
  BY DeductedNat DEF TypeOK
<1> QED BY <1>1 DEF Available, AtLeastZero, NetOf

\* The stored amount is a whole number of cents, at most half a cent away.
LEMMA StoredCents ==
  ASSUME NEW a \in Nat
  PROVE  Stored(a) \in Nat /\ Stored(a) % 10 = 0 /\ Stored(a) <= a + 5 /\ Stored(0) = 0
<1>1. PICK q \in Nat : q = (a + 5) \div 10
  OBVIOUS
<1>2. Stored(a) = q * 10 /\ (q * 10) % 10 = 0 /\ q * 10 <= a + 5
  BY <1>1 DEF Stored
<1> QED BY <1>2 DEF Stored

LEMMA InitType == Init => TypeOK
  BY WithdrawalsAssumption DEF Init, TypeOK, PC, Statuses, Calls

LEMMA ReturnType ==
  ASSUME NEW p \in Calls, NEW to \in PC, TypeOK, Return(p, to)
  PROVE  /\ pc' \in [Calls -> PC] /\ wants' \in [Requests -> Nat]
         /\ events' \in [Calls -> SUBSET Events] /\ revenue' \in [Calls -> Nat]
  BY DEF Return, Goto, TypeOK

LEMMA RequestType ==
  ASSUME NEW r \in Requests, TypeOK, Decide(r) \/ CreateWithdrawal(r) \/ Commit(r)
  PROVE  TypeOK'
<1> USE DEF PC
<1>0. r \in Calls
  BY DEF Calls
<1>1. CASE Decide(r)
  <2>1. CASE wants[r] > Available(r)
    BY <1>0, <1>1, <2>1, ReturnType DEF Decide, TypeOK
  <2>2. CASE ~ (wants[r] > Available(r))
    BY <1>0, <1>1, <2>2 DEF Decide, Goto, TypeOK
  <2> QED BY <2>1, <2>2
<1>2. CASE CreateWithdrawal(r)
  BY <1>0, <1>2 DEF CreateWithdrawal, Goto, TypeOK
<1>3. CASE Commit(r)
  <2>1. PICK to \in {"done", "failed"} : Return(r, to)
    BY <1>3 DEF Commit
  <2>2. Stored(wants[r]) \in Nat /\ Stored(wants[r]) % 10 = 0
    BY StoredCents DEF TypeOK
  <2>3. /\ row' \in [Requests -> [status : Statuses \cup {"none"}, amount : Nat]]
        /\ \A q \in Requests : row'[q].amount % 10 = 0
    BY <1>3, <2>2 DEF Commit, TypeOK, Statuses
  <2>4. hurt' \in [Organizers -> SUBSET Causes]
    BY <1>3 DEF Commit, Hurt, TypeOK, Causes
  <2> QED BY <1>0, <1>3, <2>1, <2>3, <2>4, ReturnType DEF Commit, TypeOK
<1> QED BY <1>1, <1>2, <1>3

LEMMA CallType ==
  ASSUME NEW p \in Calls, TypeOK,
         FetchOrganizerEventIDs(p) \/ GetDashboardStats(p) \/ Fail(p)
  PROVE  TypeOK'
<1> USE DEF PC
<1>1. CASE FetchOrganizerEventIDs(p)
  <2>1. EventIDs(By[p]) \subseteq Events
    BY DEF EventIDs, TypeOK
  <2> QED BY <1>1, <2>1 DEF FetchOrganizerEventIDs, Goto, TypeOK
<1>2. CASE GetDashboardStats(p)
  <2>1. (IF events[p] = {} THEN 0 ELSE OrganizerStats(events[p])) \in Nat
    BY StatsNat
  <2> QED BY <1>2, <2>1 DEF GetDashboardStats, Goto, TypeOK
<1>3. CASE Fail(p)
  BY <1>3, ReturnType DEF Fail, TypeOK
<1> QED BY <1>1, <1>2, <1>3

LEMMA OutsideType ==
  ASSUME TypeOK,
         \/ \E r \in Requests, s \in Statuses : UpdateWithdrawalStatus(r, s)
         \/ \E o \in Orders : HandlePaymentSuccess(o) \/ CancelOrder(o)
         \/ \E e \in Events : DeleteEvent(e)
  PROVE  TypeOK'
<1> USE DEF calls, HurtWithin, Hurt, Causes, TypeOK
<1>1. ASSUME NEW r \in Requests, NEW s \in Statuses, UpdateWithdrawalStatus(r, s)
      PROVE  TypeOK'
  <2>1. /\ row' \in [Requests -> [status : Statuses \cup {"none"}, amount : Nat]]
        /\ \A q \in Requests : row'[q].amount = row[q].amount
    BY <1>1 DEF UpdateWithdrawalStatus
  <2> QED BY <1>1, <2>1 DEF UpdateWithdrawalStatus
<1>2. ASSUME NEW o \in Orders, HandlePaymentSuccess(o) \/ CancelOrder(o) PROVE TypeOK'
  BY <1>2 DEF HandlePaymentSuccess, CancelOrder
<1>3. ASSUME NEW e \in Events, DeleteEvent(e) PROVE TypeOK'
  BY <1>3 DEF DeleteEvent
<1> QED BY <1>1, <1>2, <1>3

LEMMA NextType == TypeOK /\ [Next]_vars => TypeOK'
<1> SUFFICES ASSUME TypeOK, [Next]_vars PROVE TypeOK'
  OBVIOUS
<1>0. Requests \subseteq Calls /\ Readers \subseteq Calls
  BY DEF Calls
<1>1. ASSUME NEW r \in Requests, NEW a \in Amounts, RequestWithdrawal(r, a) PROVE TypeOK'
  <2>1. a \in Nat
    BY WithdrawalsAssumption
  <2> QED BY <1>0, <1>1, <2>1 DEF RequestWithdrawal, Goto, TypeOK, PC
<1>2. ASSUME NEW p \in Readers, GetOrganizerBalance(p) PROVE TypeOK'
  BY <1>0, <1>2 DEF GetOrganizerBalance, Goto, TypeOK, PC
<1>3. ASSUME NEW p \in Readers, ShowBalance(p) PROVE TypeOK'
  <2>1. Available(p) \in Nat
    BY <1>0, AvailableNat
  <2>2. shown' \in [Readers -> Nat]
    BY <1>3, <2>1 DEF ShowBalance, TypeOK
  <2>3. Return(p, "done") /\ "done" \in PC
    BY <1>3 DEF ShowBalance, PC
  <2> QED BY <1>0, <1>3, <2>2, <2>3, ReturnType DEF ShowBalance, TypeOK
<1>4. CASE UNCHANGED vars
  BY <1>4 DEF vars, calls, TypeOK
<1> QED
  BY <1>0, <1>1, <1>2, <1>3, <1>4, RequestType, CallType, OutsideType DEF Next, Request, Read

\* What is available and what is shown stay natural numbers, and what is stored
\* whole cents, whatever is asked for.
THEOREM TypeCorrect == Spec => []TypeOK
  BY InitType, NextType, PTL DEF Spec

-----------------------------------------------------------------------------
(* The inductive invariant.                                                *)

\* The gross revenue of an organizer at this moment.
Paid(g) == {o \in Orders : orderStatus[o] = "PAID" /\ EventOf[o] \in listed /\ OwnerOf[EventOf[o]] = g}
Gross(g) == Price * Cardinality(Paid(g))

\* Nothing has taken away revenue a call may have counted.
KeepsRevenue(g) == hurt[g] \cap {"refund", "deletion"} = {}

\* The events a call was given are still listed,
EventsAreListed ==
    \A p \in Calls : KeepsRevenue(By[p]) => events[p] \subseteq EventIDs(By[p])

\* the revenue it counted has not become less since,
RevenueIsEarned ==
    \A p \in Calls : KeepsRevenue(By[p]) => revenue[p] <= Gross(By[p])

\* a request that is under way has no row,
NoRowYet ==
    \A r \in Requests : pc[r] \notin {"done", "failed"} => row[r].status = "none"

\* and one that has been allowed would be allowed again: had another request of the
\* organizer committed since, the two would have overlapped.
AllowedFits ==
    \A r \in Requests :
        pc[r] \in {"allowed", "inserted"} /\ hurt[By[r]] = {} => wants[r] <= Available(r)

Inv == TypeOK /\ EventsAreListed /\ RevenueIsEarned /\ NoRowYet /\ AllowedFits /\ NoOverdraft

-----------------------------------------------------------------------------
(* Arithmetic.                                                             *)

LEMMA NetOfMonotone ==
  ASSUME NEW a \in Nat, NEW b \in Nat, a <= b
  PROVE  NetOf(a) \in Nat /\ NetOf(b) \in Nat /\ NetOf(a) <= NetOf(b)
  BY DEF NetOf

LEMMA TimesMonotone ==
  ASSUME NEW c \in Nat, NEW a \in Nat, NEW b \in Nat, a <= b
  PROVE  c * a \in Nat /\ c * b \in Nat /\ c * a <= c * b
<1>1. c * b = c * a + c * (b - a) /\ c * (b - a) \in Nat /\ c * a \in Nat
  OBVIOUS
<1> QED BY <1>1

LEMMA PriceMonotone ==
  ASSUME NEW A, NEW B, B \subseteq Orders, A \subseteq B
  PROVE  /\ Price * Cardinality(A) \in Nat /\ Price * Cardinality(B) \in Nat
         /\ Price * Cardinality(A) <= Price * Cardinality(B)
<1>1. IsFiniteSet(B)
  BY WithdrawalsAssumption, FS_Subset
<1>2. IsFiniteSet(A) /\ Cardinality(A) <= Cardinality(B)
  BY <1>1, FS_Subset
<1>3. Cardinality(A) \in Nat /\ Cardinality(B) \in Nat
  BY <1>1, <1>2, FS_CardinalityType
<1> QED BY <1>2, <1>3, TimesMonotone, WithdrawalsAssumption

\* What more revenue and fewer withdrawals do to what is available.
LEMMA AvailableMonotone ==
  ASSUME NEW a \in Nat, NEW b \in Nat, NEW d \in Nat, NEW e \in Nat, a <= b, e <= d
  PROVE  AtLeastZero(AtLeastZero(NetOf(a)) - d) <= AtLeastZero(NetOf(b) - e)
<1>1. NetOf(a) \in Nat /\ NetOf(b) \in Nat /\ NetOf(a) <= NetOf(b)
  BY NetOfMonotone
<1> HIDE DEF NetOf
<1> QED BY <1>1 DEF AtLeastZero

-----------------------------------------------------------------------------
(* Revenue.                                                                *)

LEMMA RevenueStep ==
  ASSUME TypeOK, [Next]_vars
  PROVE  /\ \A g \in Organizers : hurt[g] \subseteq hurt'[g]
         /\ \A g \in Organizers : KeepsRevenue(g)' =>
                Paid(g) \subseteq Paid(g)' /\ EventIDs(g) \subseteq EventIDs(g)'
<1> USE DEF TypeOK, KeepsRevenue, Paid, EventIDs
<1>1. CASE UNCHANGED <<listed, orderStatus, hurt>>
  BY <1>1
<1>2. ASSUME NEW r \in Requests, Commit(r)
      PROVE  /\ UNCHANGED <<listed, orderStatus>>
             /\ \A g \in Organizers : hurt[g] \subseteq hurt'[g]
  BY <1>2 DEF Commit, Hurt
<1>3. ASSUME NEW r \in Requests, NEW s \in Statuses, UpdateWithdrawalStatus(r, s)
      PROVE  /\ UNCHANGED <<listed, orderStatus>>
             /\ \A g \in Organizers : hurt[g] \subseteq hurt'[g]
  BY <1>3 DEF UpdateWithdrawalStatus, HurtWithin, Hurt
<1>4. ASSUME NEW o \in Orders, HandlePaymentSuccess(o)
      PROVE  /\ UNCHANGED <<listed, hurt>>
             /\ \A q \in Orders : orderStatus[q] = "PAID" => orderStatus'[q] = "PAID"
  BY <1>4 DEF HandlePaymentSuccess
<1>5. ASSUME NEW o \in Orders, CancelOrder(o)
      PROVE  /\ UNCHANGED listed
             /\ \A g \in Organizers : hurt[g] \subseteq hurt'[g]
             /\ \A q \in Orders : KeepsRevenue(OwnerOf[EventOf[q]])' =>
                    (orderStatus[q] = "PAID" => orderStatus'[q] = "PAID")
  <2>1. OwnerOf[EventOf[o]] \in Organizers
    BY WithdrawalsAssumption
  <2>2. hurt' = [hurt EXCEPT ![OwnerOf[EventOf[o]]] = @ \cup IF orderStatus[o] = "PAID" THEN {"refund"} ELSE {}]
    BY <1>5 DEF CancelOrder, HurtWithin, Hurt
  <2>3. orderStatus[o] = "PAID" => ~KeepsRevenue(OwnerOf[EventOf[o]])'
    BY <2>1, <2>2
  <2> QED BY <1>5, <2>1, <2>2, <2>3 DEF CancelOrder
<1>6. ASSUME NEW e \in Events, DeleteEvent(e)
      PROVE  /\ UNCHANGED orderStatus
             /\ \A g \in Organizers : hurt[g] \subseteq hurt'[g]
             /\ \A d \in Events : KeepsRevenue(OwnerOf[d])' => (d \in listed => d \in listed')
  <2>1. OwnerOf[e] \in Organizers
    BY WithdrawalsAssumption
  <2>2. hurt' = [hurt EXCEPT ![OwnerOf[e]] = @ \cup {"deletion"}]
    BY <1>6 DEF DeleteEvent, HurtWithin, Hurt
  <2>3. ~KeepsRevenue(OwnerOf[e])'
    BY <2>1, <2>2
  <2> QED BY <1>6, <2>1, <2>2, <2>3 DEF DeleteEvent
<1>7. ASSUME NEW p \in Calls,
             \/ FetchOrganizerEventIDs(p) \/ GetDashboardStats(p) \/ Fail(p)
             \/ GetOrganizerBalance(p) \/ ShowBalance(p) \/ Decide(p) \/ CreateWithdrawal(p)
             \/ \E a \in Amounts : RequestWithdrawal(p, a)
      PROVE  UNCHANGED <<listed, orderStatus, hurt>>
  BY <1>7 DEF FetchOrganizerEventIDs, GetDashboardStats, Fail, GetOrganizerBalance, ShowBalance,
              Decide, CreateWithdrawal, RequestWithdrawal
<1>8. UNCHANGED vars => UNCHANGED <<listed, orderStatus, hurt>>
  BY DEF vars
<1>9. CASE \E r \in Requests : Commit(r) \/ \E s \in Statuses : UpdateWithdrawalStatus(r, s)
  BY <1>2, <1>3, <1>9
<1>10. CASE \E o \in Orders : HandlePaymentSuccess(o)
  BY <1>4, <1>10
<1>11. CASE \E o \in Orders : CancelOrder(o)
  BY <1>5, <1>11
<1>12. CASE \E e \in Events : DeleteEvent(e)
  <2>1. \A o \in Orders : EventOf[o] \in Events
    BY WithdrawalsAssumption
  <2> QED BY <1>6, <1>12, <2>1
<1>13. CASE \/ UNCHANGED vars
            \/ \E p \in Calls : \/ FetchOrganizerEventIDs(p) \/ GetDashboardStats(p) \/ Fail(p)
                                \/ GetOrganizerBalance(p) \/ ShowBalance(p)
                                \/ Decide(p) \/ CreateWithdrawal(p)
                                \/ \E a \in Amounts : RequestWithdrawal(p, a)
  BY <1>1, <1>7, <1>8, <1>13
<1>14. Requests \subseteq Calls /\ Readers \subseteq Calls
  BY DEF Calls
<1> QED
  BY <1>9, <1>10, <1>11, <1>12, <1>13, <1>14 DEF Next, Request, Read

LEMMA GrossGrows ==
  ASSUME TypeOK, [Next]_vars, NEW g \in Organizers, KeepsRevenue(g)'
  PROVE  Gross(g) \in Nat /\ Gross(g)' \in Nat /\ Gross(g) <= Gross(g)'
<1>1. Paid(g) \subseteq Paid(g)' /\ Paid(g)' \subseteq Orders
  BY RevenueStep DEF Paid
<1> QED BY <1>1, PriceMonotone DEF Gross

LEMMA NextEvents == Inv /\ [Next]_vars => EventsAreListed' /\ RevenueIsEarned'
<1> SUFFICES ASSUME Inv, [Next]_vars, NEW p \in Calls, KeepsRevenue(By[p])'
             PROVE  events'[p] \subseteq EventIDs(By[p])' /\ revenue'[p] <= Gross(By[p])'
  BY DEF EventsAreListed, RevenueIsEarned
<1> DEFINE g == By[p]
<1>1. TypeOK /\ g \in Organizers
  BY WithdrawalsAssumption DEF Inv, Calls
<1>2. KeepsRevenue(g)
  BY <1>1, RevenueStep DEF KeepsRevenue
<1>3. events[p] \subseteq EventIDs(g) /\ revenue[p] <= Gross(g)
  BY <1>2 DEF Inv, EventsAreListed, RevenueIsEarned
<1>4. EventIDs(g) \subseteq EventIDs(g)'
  BY <1>1, RevenueStep
<1>5. Gross(g) \in Nat /\ Gross(g)' \in Nat /\ Gross(g) <= Gross(g)'
  BY <1>1, GrossGrows
<1>6. OrganizerStats(events[p]) <= Gross(g) /\ OrganizerStats(events[p]) \in Nat
  <2>1. PaidAmong(events[p]) \subseteq Paid(g) /\ Paid(g) \subseteq Orders
    BY <1>3 DEF PaidAmong, Paid, EventIDs
  <2> QED BY <2>1, PriceMonotone, StatsIsPrice, StatsNat DEF Gross
<1>7. /\ events'[p] \in {events[p], {}, EventIDs(g)}
      /\ revenue'[p] \in {revenue[p], 0, OrganizerStats(events[p])}
  <2> USE <1>1 DEF TypeOK, Calls, Goto, Return
  <2>1. ASSUME NEW q \in Calls, FetchOrganizerEventIDs(q) PROVE <1>7
    BY <2>1 DEF FetchOrganizerEventIDs
  <2>2. ASSUME NEW q \in Calls, GetDashboardStats(q) PROVE <1>7
    BY <2>2 DEF GetDashboardStats
  <2>3. ASSUME NEW q \in Calls, Fail(q) \/ ShowBalance(q) \/ Decide(q) PROVE <1>7
    BY <2>3 DEF Fail, ShowBalance, Decide
  <2>4. ASSUME NEW q \in Requests, Commit(q) PROVE <1>7
    BY <2>4 DEF Commit
  <2>5. ASSUME UNCHANGED <<events, revenue>> PROVE <1>7
    BY <2>5
  <2>6. ASSUME NEW q, \/ GetOrganizerBalance(q) \/ CreateWithdrawal(q)
                      \/ \E a \in Amounts : RequestWithdrawal(q, a)
                      \/ \E s \in Statuses : UpdateWithdrawalStatus(q, s)
                      \/ HandlePaymentSuccess(q) \/ CancelOrder(q) \/ DeleteEvent(q)
        PROVE  UNCHANGED <<events, revenue>>
    BY <2>6 DEF GetOrganizerBalance, CreateWithdrawal, RequestWithdrawal, calls,
                UpdateWithdrawalStatus, HandlePaymentSuccess, CancelOrder, DeleteEvent
  <2>7. UNCHANGED vars => UNCHANGED <<events, revenue>>
    BY DEF vars, calls
  <2> HIDE DEF TypeOK, Goto, Return
  <2> QED BY <2>1, <2>2, <2>3, <2>4, <2>5, <2>6, <2>7 DEF Next, Request, Read
<1>8. revenue[p] \in Nat /\ 0 <= Gross(g)'
  BY <1>1, <1>5 DEF TypeOK
<1> HIDE DEF g
<1>9. events'[p] \subseteq EventIDs(g)'
  BY <1>3, <1>4, <1>7
<1>10. revenue'[p] <= Gross(g)'
  BY <1>3, <1>5, <1>6, <1>7, <1>8
<1> QED BY <1>9, <1>10 DEF g

-----------------------------------------------------------------------------
(* Withdrawals.                                                            *)

LEMMA PromisedIsDeducted == TypeOK => \A g : Promised(g) = Deducted(g)
<1> SUFFICES ASSUME TypeOK, NEW g PROVE Promised(g) = Deducted(g)
  OBVIOUS
<1>1. {r \in Requests : By[r] = g /\ row[r].status \notin {"none", "REJECTED"}} = Counted(g)
  BY DEF TypeOK, Statuses, Counted
<1> QED BY <1>1 DEF Promised, Deducted, Counted, MapThenSumSet, MapThenFoldSet

LEMMA PromisedIsDeductedNext == (TypeOK => \A g : Promised(g) = Deducted(g))'
  BY PromisedIsDeducted, PTL

\* Fewer rows of the same amounts come to no more.
LEMMA SumShrinks ==
  ASSUME NEW f, NEW S, IsFiniteSet(S), \A x \in S : f[x] \in Nat,
         NEW e, NEW T \in SUBSET S, \A x \in T : e[x] = f[x]
  PROVE  SumOf(e, T) <= SumOf(f, S)
<1>1. IsFiniteSet(T)
  BY FS_Subset
<1> QED BY <1>1, SumAgree, SumMonotone

LEMMA AmountsNat == TypeOK => \A g : \A r \in Counted(g) : AmountOf[r] \in Nat
  BY DEF TypeOK, Counted, AmountOf

LEMMA DeductedIsSumNext == (\A g : Deducted(g) = SumOf(AmountOf, Counted(g)))'
  BY DeductedIsSum, PTL

LEMMA DeductedNatNext == (TypeOK => \A g : Deducted(g) \in Nat)'
  BY DeductedNat, PTL

LEMMA DeductedFalls ==
  ASSUME TypeOK, NEW g, Counted(g)' \subseteq Counted(g), \A r \in Counted(g)' : row'[r].amount = row[r].amount
  PROVE  Deducted(g)' <= Deducted(g)
<1>1. Deducted(g)' = SumOf(AmountOf', Counted(g)')
  BY DeductedIsSumNext
<1>2. \A r \in Counted(g)' : AmountOf'[r] = AmountOf[r]
  BY DEF Counted, AmountOf
<1>3. SumOf(AmountOf', Counted(g)') <= SumOf(AmountOf, Counted(g))
  BY <1>2, CountedFinite, AmountsNat, SumShrinks
<1> QED BY <1>1, <1>3, DeductedIsSum

\* A commit adds the stored amount to what is deducted from the organizer.
LEMMA DeductedByCommit ==
  ASSUME TypeOK, NoRowYet, NEW r \in Requests, Commit(r)
  PROVE  Deducted(By[r])' = Stored(wants[r]) + Deducted(By[r])
<1> DEFINE g == By[r]
<1>1. /\ row[r].status = "none"
      /\ row' = [row EXCEPT ![r] = [status |-> "PENDING", amount |-> Stored(wants[r])]]
  BY DEF NoRowYet, Commit
<1>2. r \notin Counted(g) /\ Counted(g)' = Counted(g) \cup {r}
  BY <1>1 DEF Counted, TypeOK
<1>3. AmountOf'[r] = Stored(wants[r]) /\ \A q \in Counted(g) : AmountOf'[q] = AmountOf[q]
  BY <1>1, <1>2 DEF AmountOf, Counted, TypeOK
<1>4. Stored(wants[r]) \in Nat /\ \A q \in Counted(g) : AmountOf[q] \in Nat
  BY StoredCents, AmountsNat DEF TypeOK
<1>5. Deducted(g)' = SumOf(AmountOf', Counted(g)')
  BY DeductedIsSumNext
<1> HIDE DEF g
<1>6. SumOf(AmountOf', Counted(g) \cup {r}) = AmountOf'[r] + SumOf(AmountOf', Counted(g))
  BY <1>2, <1>3, <1>4, CountedFinite, SumAdd
<1>7. SumOf(AmountOf', Counted(g)) = SumOf(AmountOf, Counted(g))
  BY <1>3, CountedFinite, SumAgree
<1> QED BY <1>2, <1>3, <1>5, <1>6, <1>7, DeductedIsSum DEF g

\* What a step does to the withdrawals of an organizer nothing has hurt.
LEMMA DeductedStep ==
  ASSUME TypeOK, [Next]_vars, NEW g \in Organizers, hurt'[g] = {}
  PROVE  \/ Deducted(g)' <= Deducted(g)
         \/ \E r \in Requests : Commit(r) /\ By[r] = g /\ Overlapping(r) = {}
<1>1. ASSUME NEW r \in Requests, Commit(r), By[r] # g PROVE Deducted(g)' <= Deducted(g)
  <2>1. Counted(g)' = Counted(g) /\ \A q \in Counted(g) : row'[q] = row[q]
    BY <1>1 DEF Counted, Commit, TypeOK
  <2> QED BY <2>1, DeductedFalls
<1>2. ASSUME NEW r \in Requests, Commit(r), By[r] = g PROVE Overlapping(r) = {}
  BY <1>2 DEF Commit, Hurt, TypeOK
<1>3. ASSUME NEW r \in Requests, NEW s \in Statuses, UpdateWithdrawalStatus(r, s)
      PROVE  Deducted(g)' <= Deducted(g)
  <2>1. By[r] = g => ~ (row[r].status = "REJECTED" /\ s # "REJECTED")
    BY <1>3 DEF UpdateWithdrawalStatus, HurtWithin, Hurt, TypeOK
  <2>2. \A q \in Requests : /\ row'[q].amount = row[q].amount
                            /\ row'[q].status = IF q = r THEN s ELSE row[q].status
    BY <1>3 DEF UpdateWithdrawalStatus, TypeOK
  <2>3. row[r].status # "none" /\ row[r].status \in Statuses \cup {"none"}
    BY <1>3 DEF UpdateWithdrawalStatus, TypeOK
  <2>4. Counted(g)' \subseteq Counted(g) /\ \A q \in Counted(g)' : row'[q].amount = row[q].amount
    BY <2>1, <2>2, <2>3 DEF Counted, Statuses
  <2> QED BY <2>4, DeductedFalls
<1>4. UNCHANGED row => Deducted(g)' <= Deducted(g)
  <2>1. UNCHANGED row => Counted(g)' = Counted(g)
    BY DEF Counted
  <2> QED BY <2>1, DeductedFalls
<1>5. ASSUME NEW p, \/ FetchOrganizerEventIDs(p) \/ GetDashboardStats(p) \/ Fail(p)
                    \/ GetOrganizerBalance(p) \/ ShowBalance(p) \/ Decide(p)
                    \/ CreateWithdrawal(p) \/ (\E a \in Amounts : RequestWithdrawal(p, a))
                    \/ HandlePaymentSuccess(p) \/ CancelOrder(p) \/ DeleteEvent(p)
      PROVE  UNCHANGED row
  BY <1>5 DEF FetchOrganizerEventIDs, GetDashboardStats, Fail, GetOrganizerBalance, ShowBalance,
              Decide, CreateWithdrawal, RequestWithdrawal, HandlePaymentSuccess, CancelOrder, DeleteEvent
<1>6. UNCHANGED vars => UNCHANGED row
  BY DEF vars
<1> QED
  BY <1>1, <1>2, <1>3, <1>4, <1>5, <1>6 DEF Next, Request, Read

LEMMA NextNoRowYet == Inv /\ [Next]_vars => NoRowYet'
<1> SUFFICES ASSUME Inv, [Next]_vars PROVE NoRowYet'
  OBVIOUS
<1> USE DEF Inv, TypeOK, NoRowYet, Calls
<1>1. ASSUME NEW r \in Requests, Commit(r) PROVE NoRowYet'
  BY <1>1 DEF Commit, Return, Goto
<1>2. ASSUME NEW r \in Requests, NEW s \in Statuses, UpdateWithdrawalStatus(r, s) PROVE NoRowYet'
  BY <1>2 DEF UpdateWithdrawalStatus, calls
<1>3. ASSUME UNCHANGED row, \A p \in Calls : pc'[p] \notin {"done", "failed"} => pc[p] \notin {"done", "failed"}
      PROVE  NoRowYet'
  BY <1>3
<1>4. ASSUME NEW p \in Calls,
             \/ FetchOrganizerEventIDs(p) \/ GetDashboardStats(p) \/ Fail(p)
             \/ GetOrganizerBalance(p) \/ ShowBalance(p) \/ Decide(p) \/ CreateWithdrawal(p)
             \/ \E a \in Amounts : RequestWithdrawal(p, a)
      PROVE  NoRowYet'
  <2>1. UNCHANGED row
    BY <1>4 DEF FetchOrganizerEventIDs, GetDashboardStats, Fail, GetOrganizerBalance, ShowBalance,
                Decide, CreateWithdrawal, RequestWithdrawal
  <2>2. pc[p] \notin {"done", "failed"} /\ \A q \in Calls : q # p => pc'[q] = pc[q]
    BY <1>4 DEF FetchOrganizerEventIDs, GetDashboardStats, Fail, GetOrganizerBalance, ShowBalance,
                Decide, CreateWithdrawal, RequestWithdrawal, Goto, Return
  <2> QED BY <2>1, <2>2, <1>3
<1>5. ASSUME NEW o, HandlePaymentSuccess(o) \/ CancelOrder(o) \/ DeleteEvent(o) PROVE NoRowYet'
  <2>1. UNCHANGED <<row, pc>>
    BY <1>5 DEF HandlePaymentSuccess, CancelOrder, DeleteEvent, calls
  <2> QED BY <2>1
<1>6. CASE UNCHANGED vars
  BY <1>6 DEF vars, calls
<1> QED
  BY <1>1, <1>2, <1>4, <1>5, <1>6 DEF Next, Request, Read

\* What a request that has been allowed was allowed on is not touched since.
LEMMA AllowedStep ==
  ASSUME TypeOK, [Next]_vars, NEW r \in Requests, pc'[r] \in {"allowed", "inserted"}
  PROVE  /\ UNCHANGED <<wants[r], revenue[r]>>
         /\ pc[r] \notin {"allowed", "inserted"} => wants[r] <= Available(r)
         /\ ~Commit(r)
<1> USE DEF TypeOK, Calls
<1>1. ASSUME NEW p \in Calls,
             \/ FetchOrganizerEventIDs(p) \/ GetDashboardStats(p) \/ Fail(p)
             \/ GetOrganizerBalance(p) \/ ShowBalance(p)
             \/ \E a \in Amounts : RequestWithdrawal(p, a)
      PROVE  p # r /\ pc'[r] = pc[r] /\ UNCHANGED <<wants[r], revenue[r]>>
  BY <1>1 DEF FetchOrganizerEventIDs, GetDashboardStats, Fail, GetOrganizerBalance, ShowBalance,
              RequestWithdrawal, Goto, Return
<1>2. ASSUME NEW q \in Requests, Commit(q)
      PROVE  q # r /\ pc'[r] = pc[r] /\ UNCHANGED <<wants[r], revenue[r]>>
  BY <1>2 DEF Commit, Return, Goto
<1>3. ASSUME NEW q \in Requests, CreateWithdrawal(q)
      PROVE  /\ UNCHANGED <<wants[r], revenue[r]>>
             /\ pc[r] \in {"allowed", "inserted"}
  BY <1>3 DEF CreateWithdrawal, Goto
<1>4. ASSUME NEW q \in Requests, Decide(q)
      PROVE  /\ UNCHANGED <<wants[r], revenue[r]>>
             /\ pc[r] \notin {"allowed", "inserted"} => wants[r] <= Available(r)
  <2>1. CASE wants[q] > Available(q)
    BY <1>4, <2>1 DEF Decide, Return, Goto
  <2>2. CASE ~ (wants[q] > Available(q))
    <3>1. wants[q] <= Available(q)
      BY <2>2, AvailableNat
    <3> QED BY <1>4, <2>2, <3>1 DEF Decide, Goto
  <2> QED BY <2>1, <2>2
<1>5. ASSUME NEW o, \/ HandlePaymentSuccess(o) \/ CancelOrder(o) \/ DeleteEvent(o)
                    \/ \E s \in Statuses : UpdateWithdrawalStatus(o, s)
      PROVE  UNCHANGED <<pc, wants, revenue>>
  BY <1>5 DEF HandlePaymentSuccess, CancelOrder, DeleteEvent, UpdateWithdrawalStatus, calls
<1>6. UNCHANGED vars => UNCHANGED <<pc, wants, revenue>>
  BY DEF vars, calls
<1>7. ~Commit(r)
  BY DEF Commit, Return, Goto
<1> HIDE DEF TypeOK
<1> QED
  BY <1>1, <1>2, <1>3, <1>4, <1>5, <1>6, <1>7 DEF Next, Request, Read

LEMMA NextAllowed == Inv /\ [Next]_vars => AllowedFits'
<1> SUFFICES ASSUME Inv, [Next]_vars, NEW r \in Requests,
                    pc'[r] \in {"allowed", "inserted"}, hurt'[By[r]] = {}
             PROVE  wants'[r] <= Available(r)'
  BY DEF AllowedFits
<1> DEFINE g == By[r]
<1>1. TypeOK /\ TypeOK' /\ g \in Organizers
  BY NextType, WithdrawalsAssumption DEF Inv
<1>2. hurt[g] = {}
  BY <1>1, RevenueStep
<1>3. UNCHANGED <<wants[r], revenue[r]>> /\ ~Commit(r)
  BY <1>1, AllowedStep
<1>4. wants[r] <= Available(r)
  BY <1>1, <1>2, AllowedStep DEF Inv, AllowedFits
<1>5. Deducted(g)' <= Deducted(g)
  <2>1. ASSUME NEW q \in Requests, Commit(q), By[q] = g, Overlapping(q) = {} PROVE FALSE
    <3>1. q # r
      BY <1>3, <2>1
    <3>2. pc'[r] = pc[r]
      BY <1>1, <2>1, <3>1 DEF Commit, Return, Goto, TypeOK, Calls
    <3>3. r \in Overlapping(q)
      BY <2>1, <3>1, <3>2 DEF Overlapping
    <3> QED BY <2>1, <3>3
  <2> QED BY <1>1, <2>1, DeductedStep
<1>6. Deducted(g) \in Nat /\ Deducted(g)' \in Nat
  <2>1. (TypeOK => \A h : Deducted(h) \in Nat)'
    BY DeductedNatNext
  <2> QED BY <1>1, <2>1, DeductedNat
<1>7. NetOf(revenue[r]) \in Nat /\ wants[r] \in Nat
  <2>1. revenue[r] \in Nat /\ wants[r] \in Nat
    BY <1>1 DEF TypeOK, Calls
  <2> QED BY <2>1, NetOfMonotone
<1>8. Available(r)' = AtLeastZero(AtLeastZero(NetOf(revenue[r])) - Deducted(g)')
  BY <1>3 DEF Available
<1>9. Available(r) <= Available(r)' /\ Available(r) \in Nat /\ Available(r)' \in Nat
  <2>1. Available(r) = AtLeastZero(AtLeastZero(NetOf(revenue[r])) - Deducted(g))
    BY DEF Available
  <2> HIDE DEF g
  <2> QED BY <1>5, <1>6, <1>7, <1>8, <2>1 DEF AtLeastZero
<1> QED BY <1>3, <1>4, <1>7, <1>9

\* What a call finds available is no more than what could be withdrawn.
LEMMA AvailableIsEarned ==
  ASSUME TypeOK, RevenueIsEarned, NEW p \in Calls, KeepsRevenue(By[p])
  PROVE  Available(p) <= AtLeastZero(Earned(By[p]) - Promised(By[p]))
<1>1. revenue[p] \in Nat /\ revenue[p] <= Gross(By[p]) /\ Deducted(By[p]) \in Nat
  BY DeductedNat DEF TypeOK, RevenueIsEarned
<1>2. Gross(By[p]) \in Nat
  BY PriceMonotone DEF Gross, Paid
<1>3. Earned(By[p]) = NetOf(Gross(By[p]))
  BY DEF Earned, Gross, Paid
<1> QED BY <1>1, <1>2, <1>3, AvailableMonotone, PromisedIsDeducted DEF Available

LEMMA NextNoOverdraft == Inv /\ [Next]_vars => NoOverdraft'
<1> SUFFICES ASSUME Inv, [Next]_vars, NEW g \in Organizers, hurt'[g] = {}
             PROVE  Promised(g)' <= Earned(g)' + 5
  BY DEF NoOverdraft
<1>1. TypeOK /\ TypeOK'
  BY NextType DEF Inv
<1>2. hurt[g] = {}
  BY <1>1, RevenueStep
<1>3. Promised(g) <= Earned(g) + 5
  BY <1>2 DEF Inv, NoOverdraft
<1>4. /\ Earned(g) = NetOf(Gross(g)) /\ Earned(g)' = NetOf(Gross(g)')
      /\ Earned(g) \in Nat /\ Earned(g)' \in Nat /\ Earned(g) <= Earned(g)'
  <2>1. Earned(g) = NetOf(Gross(g)) /\ Earned(g)' = NetOf(Gross(g)')
    BY DEF Earned, Gross, Paid, NetOf
  <2>2. Gross(g) \in Nat /\ Gross(g)' \in Nat /\ Gross(g) <= Gross(g)'
    BY <1>1, GrossGrows DEF KeepsRevenue
  <2> QED BY <2>1, <2>2, NetOfMonotone
<1>5. /\ Promised(g) = Deducted(g) /\ Promised(g)' = Deducted(g)'
      /\ Deducted(g) \in Nat /\ Deducted(g)' \in Nat
  <2>1. (TypeOK => \A h : Deducted(h) \in Nat)' /\ (TypeOK => \A h : Promised(h) = Deducted(h))'
    BY DeductedNatNext, PromisedIsDeductedNext
  <2> QED BY <1>1, <2>1, DeductedNat, PromisedIsDeducted
<1>6. CASE Deducted(g)' <= Deducted(g)
  BY <1>3, <1>4, <1>5, <1>6
<1>7. ASSUME NEW r \in Requests, Commit(r), By[r] = g PROVE Promised(g)' <= Earned(g)' + 5
  <2>1. Deducted(g)' = Stored(wants[r]) + Deducted(g)
    BY <1>1, <1>7, DeductedByCommit DEF Inv
  <2>2. wants[r] \in Nat /\ wants[r] <= Available(r)
    BY <1>1, <1>2, <1>7 DEF Inv, AllowedFits, Commit, TypeOK
  <2>3. Available(r) <= AtLeastZero(Earned(g) - Deducted(g)) /\ Available(r) \in Nat
    BY <1>1, <1>2, <1>5, <1>7, AvailableIsEarned, AvailableNat DEF Inv, KeepsRevenue, Calls
  <2>4. Stored(wants[r]) \in Nat /\ Stored(wants[r]) <= wants[r] + 5 /\ Stored(0) = 0
    BY <2>2, StoredCents
  <2>5. CASE wants[r] = 0
    BY <1>3, <1>4, <1>5, <2>1, <2>4, <2>5
  <2>6. CASE wants[r] # 0
    <3>1. Deducted(g) + wants[r] <= Earned(g)
      BY <1>4, <1>5, <2>2, <2>3, <2>6 DEF AtLeastZero
    <3> QED BY <1>4, <1>5, <2>1, <2>2, <2>4, <3>1
  <2> QED BY <2>5, <2>6
<1> QED
  BY <1>1, <1>6, <1>7, DeductedStep

LEMMA InvInit == Init => Inv
<1> SUFFICES ASSUME Init PROVE Inv
  OBVIOUS
<1>1. TypeOK
  BY InitType
<1>2. \A g : Gross(g) \in Nat
  BY PriceMonotone DEF Gross, Paid
<1>3. EventsAreListed /\ RevenueIsEarned /\ NoRowYet /\ AllowedFits
  BY <1>2, WithdrawalsAssumption DEF Init, EventsAreListed, RevenueIsEarned, NoRowYet, AllowedFits, Calls
<1>4. NoOverdraft
  <2> SUFFICES ASSUME NEW g \in Organizers PROVE Promised(g) <= Earned(g) + 5
    BY DEF NoOverdraft
  <2>1. Counted(g) = {}
    BY DEF Init, Counted
  <2>2. Promised(g) = 0
    BY <1>1, <2>1, PromisedIsDeducted, DeductedIsSum, SumEmpty
  <2>3. Earned(g) = NetOf(Gross(g))
    BY DEF Earned, Gross, Paid
  <2> QED BY <1>2, <2>2, <2>3, NetOfMonotone
<1> QED BY <1>1, <1>3, <1>4 DEF Inv

LEMMA InvNext == Inv /\ [Next]_vars => Inv'
  BY NextType, NextEvents, NextNoRowYet, NextAllowed, NextNoOverdraft DEF Inv

\* The clauses support each other: the events bound the revenue, the revenue and
\* the absence of an overlap bound the request that was allowed, and that bounds
\* what its commit promises.
THEOREM AlwaysInv == Spec => []Inv
  BY InvInit, InvNext, PTL DEF Spec

\* The check of RequestWithdrawal is enough as long as requests do not overlap, no
\* rejected withdrawal comes back, no paid order is cancelled and no event deleted:
\* for any number of requests, amounts and orders, an organizer is promised no more
\* than was earned and half a cent.
THEOREM NeverOverdrawn == Spec => []NoOverdraft
<1>1. Inv => NoOverdraft
  BY DEF Inv
<1> QED BY <1>1, AlwaysInv, PTL

\* Whatever is paid, requested or decided between the two queries of
\* GetOrganizerBalance, the balance shown could be withdrawn when it was computed.
THEOREM BalanceShownIsAvailable == Spec => ShownIsAvailable
<1> DEFINE Shows ==
      \A p \in Readers :
         LET g == By[p]
         IN  (pc[p] = "counted" /\ pc'[p] = "done" /\ hurt[g] \cap {"refund", "deletion"} = {})
                => shown'[p] <= AtLeastZero(Earned(g) - Promised(g))
<1>1. Inv /\ [Next]_vars => [Shows]_vars
  <2> SUFFICES ASSUME Inv, Next, NEW p \in Readers, pc[p] = "counted", pc'[p] = "done",
                      KeepsRevenue(By[p])
               PROVE  shown'[p] <= AtLeastZero(Earned(By[p]) - Promised(By[p]))
    BY DEF KeepsRevenue
  <2>1. p \in Calls /\ p \notin Requests
    BY WithdrawalsAssumption DEF Calls
  <2>2. ShowBalance(p)
    <3> USE <2>1 DEF Inv, TypeOK, Calls, Goto, Return
    <3>1. ASSUME NEW q \in Calls, \/ FetchOrganizerEventIDs(q) \/ GetDashboardStats(q) \/ Fail(q)
                                  \/ GetOrganizerBalance(q)
          PROVE  FALSE
      BY <3>1 DEF FetchOrganizerEventIDs, GetDashboardStats, Fail, GetOrganizerBalance
    <3>2. ASSUME NEW q \in Requests, \/ Decide(q) \/ CreateWithdrawal(q) \/ Commit(q)
                                     \/ \E a \in Amounts : RequestWithdrawal(q, a)
          PROVE  FALSE
      BY <3>2 DEF Decide, CreateWithdrawal, Commit, RequestWithdrawal
    <3>3. ASSUME NEW o, \/ HandlePaymentSuccess(o) \/ CancelOrder(o) \/ DeleteEvent(o)
                        \/ \E s \in Statuses : UpdateWithdrawalStatus(o, s)
          PROVE  FALSE
      BY <3>3 DEF HandlePaymentSuccess, CancelOrder, DeleteEvent, UpdateWithdrawalStatus, calls
    <3>4. ASSUME NEW q \in Readers, ShowBalance(q) PROVE q = p
      BY <3>4 DEF ShowBalance
    <3> HIDE DEF Inv, TypeOK, Goto, Return
    <3> QED BY <3>1, <3>2, <3>3, <3>4 DEF Next, Request, Read
  <2>3. shown'[p] = Available(p)
    BY <2>2 DEF ShowBalance, Inv, TypeOK
  <2> QED BY <2>1, <2>3, AvailableIsEarned DEF Inv
<1> QED BY <1>1, AlwaysInv, PTL DEF Spec, ShownIsAvailable
=============================================================================
