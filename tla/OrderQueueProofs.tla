-------------------------- MODULE OrderQueueProofs --------------------------
(***************************************************************************)
(* What holds of OrderQueue for every number of orders and of goroutines.  *)
(* It rests on what may stand in a thread's list of calls: a claim of the  *)
(* slot is followed by the lease, an order is only marked paid, or given   *)
(* tickets, once Midtrans has settled it or a message was taken at its     *)
(* word, and a release is always next.  The types come last, for which it  *)
(* matters which orders the calls name.                                    *)
(***************************************************************************)
EXTENDS OrderQueue, FiniteSetTheorems, TLAPS

\* Orders that may be marked paid.
Believed == {o \in Orders : "settled" \in money[o]} \cup unasked

\* The call c is backed by a settled transaction or a message, if it needs one.
Paid(c) == c.op \in {"markPaid", "issue"} => c.order \in Orders \cap Believed

Leased(calls) ==
    \A i \in 1..Len(calls) :
        calls[i].op = "claim" => i + 1 \in 1..Len(calls) /\ calls[i + 1].op = "lease"

\* What a step may put in front of a thread's list.  (Which orders it names does
\* not matter here.)
IsList(calls) == \E S : calls \in Seq(S)

Good(calls) ==
    /\ IsList(calls)
    /\ Leased(calls)
    /\ \A i \in 1..Len(calls) : Paid(calls[i])

TodoInv ==
    /\ todo = [p \in Threads |-> todo[p]]
    /\ \A p \in Threads : Good(todo[p])

QueueInv ==
    /\ TodoInv
    /\ money \in [Orders -> SUBSET {"open", "settled", "expired"}]
    /\ tickets \in [Orders -> Nat]
    /\ SlotHasLease
    /\ TicketsArePaidFor

LEMMA CallFields ==
  /\ \A op, o : Call(op, o).op = op /\ Call(op, o).order = o
  /\ \A op, o, a : CallSeen(op, o, a).op = op /\ CallSeen(op, o, a).order = o
  BY DEF Call, CallSeen

LEMMA GoodNone == Good(<<>>)
<1>1. <<>> \in Seq({})
  OBVIOUS
<1> QED
  BY <1>1 DEF Good, Leased, IsList

LEMMA GoodOne ==
  ASSUME NEW c, c.op # "claim", Paid(c)
  PROVE  Good(<<c>>)
<1>1. <<c>> \in Seq({c})
  OBVIOUS
<1>2. IsList(<<c>>)
  BY <1>1 DEF IsList
<1>3. Leased(<<c>>)
  BY DEF Leased
<1>4. \A i \in 1..Len(<<c>>) : Paid(<<c>>[i])
  BY DEF Paid
<1> QED
  BY <1>2, <1>3, <1>4 DEF Good

LEMMA GoodTwo ==
  ASSUME NEW c, NEW d, c.op = "claim" => d.op = "lease",
         d.op # "claim", Paid(c), Paid(d)
  PROVE  Good(<<c, d>>)
<1>1. <<c, d>> \in Seq({c, d})
  OBVIOUS
<1>2. IsList(<<c, d>>)
  BY <1>1 DEF IsList
<1>3. Leased(<<c, d>>)
  BY DEF Leased
<1>4. \A i \in 1..Len(<<c, d>>) : Paid(<<c, d>>[i])
  BY DEF Paid
<1> QED
  BY <1>2, <1>3, <1>4 DEF Good

LEMMA GoodThree ==
  ASSUME NEW c, NEW d, NEW e,
         c.op # "claim", d.op # "claim", e.op # "claim", Paid(c), Paid(d), Paid(e)
  PROVE  Good(<<c, d, e>>)
<1>1. <<c, d, e>> \in Seq({c, d, e})
  OBVIOUS
<1>2. IsList(<<c, d, e>>)
  BY <1>1 DEF IsList
<1>3. Leased(<<c, d, e>>)
  BY DEF Leased
<1>4. \A i \in 1..Len(<<c, d, e>>) : Paid(<<c, d, e>>[i])
  BY DEF Paid
<1> QED
  BY <1>2, <1>3, <1>4 DEF Good

\* The first entry of a busy thread, and what follows it.
LEMMA HeadIsCall ==
  ASSUME TodoInv, NEW p \in Threads, ~Idle(p)
  PROVE  /\ Len(todo[p]) \in Nat \ {0}
         /\ Head(todo[p]) = todo[p][1]
         /\ Paid(Head(todo[p]))
         /\ IsList(Tail(todo[p]))
         /\ Len(Tail(todo[p])) = Len(todo[p]) - 1
         /\ \A i \in 1..Len(Tail(todo[p])) : Tail(todo[p])[i] = todo[p][i + 1]
<1>1. PICK S : todo[p] \in Seq(S)
  BY DEF TodoInv, Good, IsList
<1>2. todo[p] # <<>>
  BY DEF Idle
<1>3. Len(todo[p]) \in Nat \ {0} /\ Head(todo[p]) = todo[p][1]
  BY <1>1, <1>2
<1>4. /\ Tail(todo[p]) \in Seq(S)
      /\ Len(Tail(todo[p])) = Len(todo[p]) - 1
      /\ \A i \in 1..Len(Tail(todo[p])) : Tail(todo[p])[i] = todo[p][i + 1]
  BY <1>1, <1>2
<1>5. Paid(Head(todo[p]))
  BY <1>3 DEF TodoInv, Good
<1> QED
  BY <1>3, <1>4, <1>5 DEF IsList

\* The thread's list after a step, when what was there is a suffix of it.
LEMMA ThenGood ==
  ASSUME TodoInv, NEW p \in Threads, NEW calls, Good(calls)', Then(p, calls),
         Believed \subseteq Believed'
  PROVE  TodoInv' /\ \A q \in Threads \ {p} : todo'[q] = todo[q]
<1> DEFINE rest == IF Idle(p) THEN <<>> ELSE Tail(todo[p])
           Later(c) == c.op \in {"markPaid", "issue"} => c.order \in Orders \cap Believed'
<1>0. Leased(calls) /\ IsList(calls) /\ \A i \in 1..Len(calls) : Later(calls[i])
  BY DEF Good, Leased, IsList, Paid
<1>1. IsList(rest) /\ Len(rest) \in Nat /\ Len(todo[p]) \in Nat
  <2>1. CASE Idle(p)
    <3>1. <<>> \in Seq({}) /\ todo[p] = <<>>
      BY <2>1 DEF Idle
    <3> QED
      BY <2>1, <3>1 DEF IsList
  <2>2. CASE ~Idle(p)
    BY <2>2, HeadIsCall
  <2> QED
    BY <2>1, <2>2
<1>2. \A i \in 1..Len(rest) : i + 1 \in 1..Len(todo[p]) /\ rest[i] = todo[p][i + 1]
                                /\ Len(rest) = Len(todo[p]) - 1
  <2>1. CASE Idle(p)
    BY <2>1
  <2>2. CASE ~Idle(p)
    BY <2>2, HeadIsCall
  <2> QED
    BY <2>1, <2>2
<1>3. Leased(rest) /\ \A i \in 1..Len(rest) : Later(rest[i])
  <2>1. Leased(todo[p]) /\ \A i \in 1..Len(todo[p]) : Paid(todo[p][i])
    BY DEF TodoInv, Good
  <2>2. \A i \in 1..Len(rest) : Later(rest[i])
    BY <1>2, <2>1 DEF Paid
  <2>3. ASSUME NEW i \in 1..Len(rest), rest[i].op = "claim"
        PROVE  i + 1 \in 1..Len(rest) /\ rest[i + 1].op = "lease"
    <3>1. todo[p][i + 1].op = "claim" /\ i + 1 \in 1..Len(todo[p]) /\ Len(rest) = Len(todo[p]) - 1
      BY <1>2, <2>3
    <3>2. (i + 1) + 1 \in 1..Len(todo[p]) /\ todo[p][(i + 1) + 1].op = "lease"
      BY <2>1, <3>1 DEF Leased
    <3>3. i + 1 \in 1..Len(rest)
      BY <1>1, <3>1, <3>2
    <3> QED
      BY <1>2, <3>2, <3>3
  <2> QED
    BY <2>2, <2>3 DEF Leased
<1>4. todo' = [todo EXCEPT ![p] = calls \o rest]
  BY DEF Then
<1> HIDE DEF rest
<1>5. PICK S : calls \in Seq(S)
  BY <1>0 DEF IsList
<1>6. /\ IsList(calls \o rest)
      /\ Len(calls \o rest) = Len(calls) + Len(rest)
      /\ \A i \in 1..Len(calls) : (calls \o rest)[i] = calls[i]
      /\ \A i \in 1..Len(rest) : (calls \o rest)[Len(calls) + i] = rest[i]
      /\ Len(calls) \in Nat /\ Len(rest) \in Nat
  <2>1. PICK T : rest \in Seq(T)
    BY <1>1 DEF IsList
  <2>2. calls \in Seq(S \cup T) /\ rest \in Seq(S \cup T)
    BY <1>5, <2>1
  <2>3. calls \o rest \in Seq(S \cup T)
    BY <2>2
  <2> QED
    BY <2>2, <2>3 DEF IsList
<1>7. \A i \in 1..Len(calls \o rest) :
         i \in 1..Len(calls) \/ (\E j \in 1..Len(rest) : i = Len(calls) + j)
  <2> SUFFICES ASSUME NEW i \in 1..Len(calls \o rest), i \notin 1..Len(calls)
               PROVE  \E j \in 1..Len(rest) : i = Len(calls) + j
    OBVIOUS
  <2> WITNESS i - Len(calls) \in 1..Len(rest)
  <2> QED
    BY <1>6
<1>8. Leased(calls \o rest)
  <2> SUFFICES ASSUME NEW i \in 1..Len(calls \o rest), (calls \o rest)[i].op = "claim"
               PROVE  /\ i + 1 \in 1..Len(calls \o rest)
                      /\ (calls \o rest)[i + 1].op = "lease"
    BY DEF Leased
  <2>1. CASE i \in 1..Len(calls)
    <3>1. i + 1 \in 1..Len(calls) /\ calls[i + 1].op = "lease"
      BY <1>0, <1>6, <2>1 DEF Leased
    <3> QED
      BY <1>6, <3>1
  <2>2. CASE \E j \in 1..Len(rest) : i = Len(calls) + j
    <3>1. PICK j \in 1..Len(rest) : i = Len(calls) + j
      BY <2>2
    <3>2. j + 1 \in 1..Len(rest) /\ rest[j + 1].op = "lease"
      BY <1>3, <1>6, <3>1 DEF Leased
    <3>3. i + 1 = Len(calls) + (j + 1)
      BY <1>6, <3>1
    <3>4. (calls \o rest)[i + 1] = rest[j + 1]
      BY <1>6, <3>2, <3>3
    <3> QED
      BY <1>6, <3>2, <3>3, <3>4
  <2> QED
    BY <1>7, <2>1, <2>2
<1>9. \A i \in 1..Len(calls \o rest) : Later((calls \o rest)[i])
  BY <1>0, <1>3, <1>6, <1>7
<1>10. /\ todo' = [q \in Threads |-> todo'[q]]
       /\ todo'[p] = calls \o rest
       /\ \A q \in Threads \ {p} : todo'[q] = todo[q]
  BY <1>4 DEF TodoInv
<1>11. \A q \in Threads : \A i \in 1..Len(todo'[q]) : Later(todo'[q][i])
  <2>1. \A q \in Threads \ {p} : \A i \in 1..Len(todo[q]) : Later(todo[q][i])
    BY DEF TodoInv, Good, Paid
  <2> QED  BY <1>9, <1>10, <2>1
<1>12. \A q \in Threads : \A i \in 1..Len(todo'[q]) :
          todo'[q][i].op \in {"markPaid", "issue"} =>
             todo'[q][i].order \in Orders \cap Believed'
  BY <1>11
<1>13. \A q \in Threads : Leased(todo'[q])
  BY <1>8, <1>10 DEF TodoInv, Good
<1>14. \A q \in Threads : IsList(todo'[q])
  BY <1>6, <1>10 DEF TodoInv, Good
<1> QED
  BY <1>10, <1>12, <1>13, <1>14 DEF TodoInv, Good, Leased, Paid, IsList

-----------------------------------------------------------------------------
\* The lists of calls the code builds.
Ordinary == Ops \ {"claim", "markPaid", "issue"}

LEMMA CodeIsGood ==
  /\ Good(<<>>)
  /\ \A op \in Ordinary : \A o, a : Good(<<Call(op, o)>>) /\ Good(<<CallSeen(op, o, a)>>)
  /\ \A op1, op2 \in Ordinary : \A o1, o2 : Good(<<Call(op1, o1), Call(op2, o2)>>)
  /\ \A op1, op2, op3 \in Ordinary : \A o1, o2, o3 :
        Good(<<Call(op1, o1), Call(op2, o2), Call(op3, o3)>>)
  /\ \A o : Good(<<Call("claim", o), Call("lease", o)>>)
<1>1. \A op \in Ordinary : \A o, a : /\ Call(op, o).op # "claim" /\ Paid(Call(op, o))
                                /\ CallSeen(op, o, a).op # "claim" /\ Paid(CallSeen(op, o, a))
  BY CallFields DEF Ordinary, Paid
<1>2. \A o : Paid(Call("claim", o)) /\ Paid(Call("lease", o)) /\ Call("lease", o).op = "lease"
  BY CallFields DEF Paid
<1>3. \A op \in Ordinary : \A o, a : Good(<<Call(op, o)>>) /\ Good(<<CallSeen(op, o, a)>>)
  BY <1>1, GoodOne
<1>4. \A op1, op2 \in Ordinary : \A o1, o2 : Good(<<Call(op1, o1), Call(op2, o2)>>)
  BY <1>1, GoodTwo
<1>5. \A op1, op2, op3 \in Ordinary : \A o1, o2, o3 :
        Good(<<Call(op1, o1), Call(op2, o2), Call(op3, o3)>>)
  BY <1>1, GoodThree
<1>6. \A o : Good(<<Call("claim", o), Call("lease", o)>>)
  BY <1>2, GoodTwo
<1> QED
  BY <1>3, <1>4, <1>5, <1>6, GoodNone

\* A step that some thread takes: what it has to do next is a good list.
StepOf(p) == \E calls : Good(calls) /\ Then(p, calls)

\* The same when the step itself makes it good.
NewStepOf(p) == \E calls : Good(calls)' /\ Then(p, calls)

LEMMA StepIsNew ==
  ASSUME Believed \subseteq Believed', NEW p, StepOf(p)
  PROVE  NewStepOf(p)
<1>1. PICK calls : Good(calls) /\ Then(p, calls)
  BY DEF StepOf
<1>2. Good(calls)'
  BY <1>1 DEF Good, IsList, Leased, Paid
<1> QED
  BY <1>1, <1>2 DEF NewStepOf

LEMMA RunIsStep ==
  ASSUME TodoInv, NEW p \in Threads, Run(p)
  PROVE  StepOf(p)
<1> USE DEF StepOf
<1>1. CASE Enqueue(p)
  BY <1>1, CodeIsGood DEF Enqueue, Ordinary, Ops
<1>2. CASE EnqueueBehind(p)
  BY <1>2, CodeIsGood DEF EnqueueBehind, Ordinary, Ops
<1>3. CASE Push(p)
  BY <1>3, CodeIsGood DEF Push, Ordinary, Ops
<1>4. CASE DueLine(p)
  BY <1>4, CodeIsGood DEF DueLine, Ordinary, Ops
<1>5. CASE Claim(p)
  BY <1>5, CodeIsGood DEF Claim, Ordinary, Ops
<1>6. CASE Lease(p)
  BY <1>6, CodeIsGood DEF Lease, Ordinary, Ops
<1>7. CASE DueTurn(p)
  BY <1>7, CodeIsGood DEF DueTurn, Ordinary, Ops
<1>8. CASE Advance(p)
  BY <1>8, CodeIsGood DEF Advance, Ordinary, Ops
<1>9. CASE Delete(p)
  BY <1>9, CodeIsGood DEF Delete, Ordinary, Ops
<1>10. CASE Promote(p)
  BY <1>10, CodeIsGood DEF Promote, Ordinary, Ops
<1>11. CASE Check(p)
  BY <1>11, CodeIsGood DEF Check, Ordinary, Ops
<1>12. CASE CheckWaiting(p)
  BY <1>12, CodeIsGood DEF CheckWaiting, Ordinary, Ops
<1>13. CASE CheckLease(p)
  BY <1>13, CodeIsGood DEF CheckLease, Ordinary, Ops
<1>14. CASE Cancel(p) \/ CancelFails(p) \/ MarkPaidFails(p)
  BY <1>14, CodeIsGood DEF Cancel, CancelFails, MarkPaidFails, AfterCancel, Ordinary, Ops
<1>15. CASE Release(p)
  BY <1>15, CodeIsGood DEF Release, Ordinary, Ops
<1>16. CASE Unqueue(p)
  BY <1>16, CodeIsGood DEF Unqueue, Ordinary, Ops
<1>17. CASE LeaveLine(p)
  BY <1>17, CodeIsGood DEF LeaveLine, Ordinary, Ops
<1>18. CASE Issue(p)
  BY <1>18, CodeIsGood DEF Issue, Ordinary, Ops
<1>19. CASE PollActive(p)
  BY <1>19, CodeIsGood DEF PollActive, Ordinary, Ops
<1>20. CASE PollLease(p)
  BY <1>20, CodeIsGood DEF PollLease, Ordinary, Ops
<1>21. CASE PollWaiting(p)
  BY <1>21, CodeIsGood DEF PollWaiting, Ordinary, Ops
<1>22. CASE TokenTurn(p)
  BY <1>22, CodeIsGood DEF TokenTurn, Ordinary, Ops
<1>23. CASE MarkPaid(p)
  <2>1. Then(p, <<Call("issue", Mine(p)), Call("advance", NoOrder)>>)
    BY <1>23 DEF MarkPaid
  <2>2. Paid(Head(todo[p])) /\ Head(todo[p]).op = "markPaid"
    BY <1>23, HeadIsCall DEF MarkPaid, At
  <2>3. Paid(Call("issue", Mine(p))) /\ Paid(Call("advance", NoOrder))
    BY <2>2, CallFields DEF Paid, Mine
  <2>4. Good(<<Call("issue", Mine(p)), Call("advance", NoOrder)>>)
    BY <2>3, GoodTwo, CallFields
  <2> QED
    BY <2>1, <2>4
<1> QED
  BY <1>1, <1>2, <1>3, <1>4, <1>5, <1>6, <1>7, <1>8, <1>9, <1>10, <1>11, <1>12, <1>13,
     <1>14, <1>15, <1>16, <1>17, <1>18, <1>19, <1>20, <1>21, <1>22, <1>23 DEF Run

LEMMA StartIsStep ==
  ASSUME Believed \subseteq Believed', NEW p \in Threads, NEW o \in Orders, Start(p, o)
  PROVE  NewStepOf(p) /\ Idle(p)
<1> USE StepIsNew DEF StepOf, MayStart
<1>1. CASE CreateOrder(p, o)
  BY <1>1, CodeIsGood DEF CreateOrder, Ordinary, Ops
<1>2. CASE PollStatus(p, o)
  BY <1>2, CodeIsGood DEF PollStatus, Ordinary, Ops
<1>3. CASE CreatePaymentToken(p, o)
  BY <1>3, CodeIsGood DEF CreatePaymentToken, Ordinary, Ops
<1>4. CASE CancelOrderInQueue(p, o)
  BY <1>4, CodeIsGood DEF CancelOrderInQueue, Ordinary, Ops
<1>5. CASE Notify(p, o)
  <2>1. "settled" \in money[o] => Good(<<Call("markPaid", o)>>)
    BY GoodOne, CallFields DEF Paid, Believed
  <2>2. Good(<<Call("cancel", o)>>)
    BY CodeIsGood DEF Ordinary, Ops
  <2>3. o \in unasked' => Good(<<Call("markPaid", o)>>)'
    <3> DEFINE c == Call("markPaid", o)
    <3>1. (o \in unasked' => Paid(c)') /\ c.op # "claim"
      BY CallFields DEF Paid, Believed, Call
    <3> HIDE DEF c
    <3>2. <<c>> \in Seq({c}) /\ Len(<<c>>) = 1 /\ \A i \in 1..Len(<<c>>) : <<c>>[i] = c
      OBVIOUS
    <3>3. IsList(<<c>>) /\ Leased(<<c>>)
      BY <3>1, <3>2 DEF IsList, Leased
    <3>4. o \in unasked' => \A i \in 1..Len(<<c>>) : Paid(<<c>>[i])'
      BY <3>1, <3>2
    <3>5. o \in unasked' => Good(<<c>>)'
      BY <3>3, <3>4 DEF Good, IsList, Leased
    <3> QED  BY <3>5 DEF c
  <2> QED
    BY <1>5, <2>1, <2>2, <2>3 DEF Notify, NewStepOf
<1> QED
  BY <1>1, <1>2, <1>3, <1>4, <1>5 DEF Start

LEMMA SweepIsStep ==
  ASSUME Sweep
  PROVE  StepOf(Worker) /\ Idle(Worker)
<1>1. PICK found \in SetToSeqs(Expired) :
         Then(Worker, [i \in 1..Len(found) |-> Call("cancel", found[i])])
  BY DEF Sweep
<1>2. Cardinality(Expired) \in Nat
  BY QueueAssumption, FS_Subset, FS_CardinalityType DEF QueueAssumption, Expired
<1>3. found \in [1..Cardinality(Expired) -> Expired]
  BY DEF SetToSeqs
<1>4. Len(found) \in Nat
  BY <1>2, <1>3
<1> DEFINE calls == [i \in 1..Len(found) |-> Call("cancel", found[i])]
           all == {Call("cancel", found[i]) : i \in 1..Len(found)}
<1>5. calls \in Seq(all) /\ Len(calls) = Len(found)
  BY <1>4
<1>6. \A i \in 1..Len(calls) : calls[i].op = "cancel"
  BY <1>5, CallFields
<1> HIDE DEF calls, all
<1>7. Good(calls)
  BY <1>5, <1>6 DEF Good, IsList, Leased, Paid
<1>8. Then(Worker, calls)
  BY <1>1 DEF calls
<1> QED
  BY <1>7, <1>8 DEF StepOf, Sweep, MayStart

-----------------------------------------------------------------------------
\* The turn keeps its lease when neither key changes and the step is not the
\* one that was about to set it.
LEMMA LeaseKept ==
  ASSUME SlotHasLease, UNCHANGED <<active, lease>>, NEW p \in Threads, ~At(p, "lease"),
         \A q \in Threads \ {p} : todo'[q] = todo[q]
  PROVE  SlotHasLease'
<1>1. \A q \in Threads : At(q, "lease") => At(q, "lease")'
  BY DEF At, Idle
<1> QED
  BY <1>1 DEF SlotHasLease

LEMMA HeadIsFirst ==
  ASSUME NEW S, NEW s \in Seq(S), Len(s) > 0
  PROVE  s # <<>> /\ Head(s) = s[1]
  OBVIOUS

\* A claim of the slot leaves its thread about to set the lease.
LEMMA ClaimThenLease ==
  ASSUME TodoInv, NEW p \in Threads, Claim(p), todo'[p] = <<>> \o Tail(todo[p])
  PROVE  At(p, "lease")'
<1>1. ~Idle(p) /\ Head(todo[p]).op = "claim"
  BY DEF Claim, At
<1>2. 1 \in 1..Len(todo[p]) /\ todo[p][1].op = "claim"
  BY <1>1, HeadIsCall
<1>3. 2 \in 1..Len(todo[p]) /\ todo[p][2].op = "lease"
  <2>1. Leased(todo[p])
    BY DEF TodoInv, Good
  <2>2. 1 + 1 \in 1..Len(todo[p]) /\ todo[p][1 + 1].op = "lease"
    BY <1>2, <2>1 DEF Leased
  <2> QED
    BY <2>2
<1>4. PICK S : Tail(todo[p]) \in Seq(S)
  BY <1>1, HeadIsCall DEF IsList
<1>5. Len(Tail(todo[p])) > 0 /\ Tail(todo[p])[1].op = "lease"
  BY <1>1, <1>3, HeadIsCall
<1>6. todo'[p] = Tail(todo[p])
  BY <1>4
<1>7. Tail(todo[p]) # <<>> /\ Head(Tail(todo[p])) = Tail(todo[p])[1]
  BY <1>4, <1>5, HeadIsFirst
<1> QED
  BY <1>5, <1>6, <1>7 DEF At, Idle

LEMMA InitInv == Init => QueueInv
<1> SUFFICES ASSUME Init PROVE QueueInv
  OBVIOUS
<1>1. todo = [p \in Threads |-> todo[p]] /\ \A p \in Threads : todo[p] = <<>>
  BY DEF Init
<1>2. TodoInv
  BY <1>1, GoodNone DEF TodoInv
<1> QED
  BY <1>2 DEF Init, QueueInv, SlotHasLease, TicketsArePaidFor

\* What Midtrans has settled, and what a message was believed about, stays so.
LEMMA BelievedStays ==
  ASSUME money \in [Orders -> SUBSET {"open", "settled", "expired"}], [Next]_vars
  PROVE  /\ money' \in [Orders -> SUBSET {"open", "settled", "expired"}]
         /\ Believed \subseteq Believed'
<1> USE DEF Believed
<1>1. ASSUME NEW o \in Orders, Midtrans(o)
      PROVE  /\ money' \in [Orders -> SUBSET {"open", "settled", "expired"}]
             /\ Believed \subseteq Believed'
  BY <1>1 DEF Midtrans, orderVars
<1>2. ASSUME NEW p \in Threads, TokenTurn(p)
      PROVE  /\ money' \in [Orders -> SUBSET {"open", "settled", "expired"}]
             /\ Believed \subseteq Believed'
  BY <1>2 DEF TokenTurn, orderVars
<1>3. ASSUME NEW p \in Threads, Run(p), ~TokenTurn(p)
      PROVE  UNCHANGED <<money, unasked>>
  BY <1>3 DEF Run, orderVars, Enqueue, EnqueueBehind, Push, DueLine, DueTurn, Claim, Lease,
         Advance, Delete, Promote, Check, CheckWaiting, CheckLease, Cancel, CancelFails, Release,
         Unqueue, LeaveLine, MarkPaid, MarkPaidFails, Issue, PollActive, PollLease,
         PollWaiting
<1>4. ASSUME NEW p \in Threads, NEW o \in Orders, Start(p, o)
      PROVE  money' = money /\ unasked \subseteq unasked'
  BY <1>4 DEF Start, CreateOrder, PollStatus, CreatePaymentToken, CancelOrderInQueue, Notify,
              orderVars
<1>5. ASSUME \/ Sweep \/ (\E o \in Orders : OrderLapses(o)) \/ LeaseLapses \/ UNCHANGED vars
      PROVE  UNCHANGED <<money, unasked>>
  BY <1>5 DEF Sweep, OrderLapses, LeaseLapses, vars, orderVars
<1> QED
  BY <1>1, <1>2, <1>3, <1>4, <1>5 DEF Next

\* Tickets change only when a thread issues them for an order that may be marked paid.
LEMMA IssuedForMoney ==
  ASSUME QueueInv, [Next]_vars
  PROVE  tickets' \in [Orders -> Nat] /\ TicketsArePaidFor'
<1> USE DEF QueueInv
<1>0. /\ Believed \subseteq Believed'
      /\ TicketsArePaidFor <=> \A o \in Orders : tickets[o] > 0 => o \in Believed
      /\ TicketsArePaidFor' <=> \A o \in Orders : tickets'[o] > 0 => o \in Believed'
  BY BelievedStays DEF TicketsArePaidFor, Believed
<1>1. ASSUME NEW p \in Threads, Issue(p)
      PROVE  tickets' \in [Orders -> Nat] /\ TicketsArePaidFor'
  <2>1. Mine(p) \in Orders \cap Believed
    BY <1>1, HeadIsCall DEF Issue, At, Paid, Mine
  <2>2. tickets' \in [Orders -> Nat]
    BY <1>1, <2>1 DEF Issue, MaxTickets
  <2>3. \A o \in Orders : o # Mine(p) => tickets'[o] = tickets[o]
    BY <1>1 DEF Issue
  <2> QED
    BY <1>0, <2>1, <2>2, <2>3
<1>2. ASSUME NEW p \in Threads, Run(p), ~Issue(p)
      PROVE  UNCHANGED tickets
  BY <1>2 DEF Run, orderVars, Enqueue, EnqueueBehind, Push, DueLine, DueTurn,
         Claim, Lease, Advance, Delete, Promote, Check, CheckWaiting, CheckLease, Cancel,
         CancelFails, Release, Unqueue, LeaveLine, MarkPaid, MarkPaidFails, PollActive,
         PollLease, PollWaiting, TokenTurn
<1>3. ASSUME NEW p \in Threads, NEW o \in Orders, Start(p, o)
      PROVE  UNCHANGED tickets
  BY <1>3 DEF Start, CreateOrder, PollStatus, CreatePaymentToken, CancelOrderInQueue, Notify,
              orderVars
<1>4. ASSUME \/ Sweep \/ (\E o \in Orders : OrderLapses(o) \/ Midtrans(o)) \/ LeaseLapses
             \/ UNCHANGED vars
      PROVE  UNCHANGED tickets
  BY <1>4 DEF Sweep, OrderLapses, Midtrans, LeaseLapses, vars, orderVars
<1>5. UNCHANGED tickets => tickets' \in [Orders -> Nat] /\ TicketsArePaidFor'
  BY <1>0
<1> QED
  BY <1>1, <1>2, <1>3, <1>4, <1>5 DEF Next

LEMMA NextInv == QueueInv /\ [Next]_vars => QueueInv'
<1> SUFFICES ASSUME QueueInv, [Next]_vars PROVE QueueInv'
  OBVIOUS
<1> USE DEF QueueInv
<1>0. Believed \subseteq Believed'
  BY BelievedStays
<1>1. ASSUME NEW p \in Threads, NewStepOf(p)
      PROVE  TodoInv' /\ \A q \in Threads \ {p} : todo'[q] = todo[q]
  BY <1>0, <1>1, ThenGood DEF NewStepOf
<1>2. ASSUME NEW p \in Threads, Run(p)
      PROVE  TodoInv' /\ SlotHasLease'
  <2>1. TodoInv' /\ \A q \in Threads \ {p} : todo'[q] = todo[q]
    BY <1>0, <1>1, <1>2, RunIsStep, StepIsNew
  <2>2. CASE Claim(p)
    <3>1. todo'[p] = <<>> \o Tail(todo[p])
      BY <2>2 DEF Claim, Then, At, TodoInv
    <3> QED
      BY <2>1, <2>2, <3>1, ClaimThenLease DEF SlotHasLease
  <2>3. CASE Lease(p)
    BY <2>1, <2>3 DEF Lease, SlotHasLease
  <2>4. CASE Delete(p)
    BY <2>1, <2>4 DEF Delete, SlotHasLease
  <2>5. CASE ~Claim(p) /\ ~Lease(p) /\ ~Delete(p)
    <3>1. UNCHANGED <<active, lease>> /\ ~At(p, "lease")
      BY <1>2, <2>5 DEF Run, At, queueVars, Enqueue, EnqueueBehind, Push, DueLine, DueTurn,
                   Advance, Promote, Check, CheckWaiting, CheckLease, Cancel, CancelFails,
                   Release, Unqueue, LeaveLine, MarkPaid, MarkPaidFails, Issue, PollActive, PollLease,
                   PollWaiting, TokenTurn
    <3> QED
      BY <2>1, <3>1, LeaseKept
  <2> QED
    BY <2>2, <2>3, <2>4, <2>5
<1>3. ASSUME NEW p \in Threads, NewStepOf(p), Idle(p), UNCHANGED <<active, lease>>
      PROVE  TodoInv' /\ SlotHasLease'
  <2>1. TodoInv' /\ \A q \in Threads \ {p} : todo'[q] = todo[q]
    BY <1>1, <1>3
  <2> QED
    BY <1>3, <2>1, LeaseKept DEF At
<1>4. ASSUME NEW p \in Threads, NEW o \in Orders, Start(p, o)
      PROVE  TodoInv' /\ SlotHasLease'
  <2>1. UNCHANGED <<active, lease>>
    BY <1>4 DEF Start, CreateOrder, PollStatus, CreatePaymentToken, CancelOrderInQueue,
                Notify, queueVars
  <2> QED
    BY <1>0, <1>3, <1>4, <2>1, StartIsStep
<1>5. CASE Sweep
  <2>1. UNCHANGED <<active, lease>>
    BY <1>5 DEF Sweep, queueVars
  <2> QED
    <3>1. NewStepOf(Worker) /\ Idle(Worker) /\ Worker \in Threads
      BY <1>0, <1>5, SweepIsStep, StepIsNew, QueueAssumption DEF QueueAssumption
    <3> QED
      BY <1>3, <2>1, <3>1, BelievedStays, IssuedForMoney
<1>6. ASSUME UNCHANGED todo
      PROVE  /\ TodoInv'
             /\ UNCHANGED <<active, lease>> \/ (UNCHANGED active /\ lease' # "none")
                   => SlotHasLease'
  <2>1. TodoInv'
    BY <1>0, <1>6 DEF TodoInv, Good, IsList, Leased, Paid
  <2>2. \A q \in Threads : At(q, "lease") => At(q, "lease")'
    BY <1>6 DEF At, Idle
  <2> QED
    BY <2>1, <2>2 DEF SlotHasLease
<1>7. ASSUME NEW o \in Orders, OrderLapses(o) \/ Midtrans(o)
      PROVE  TodoInv' /\ SlotHasLease'
  BY <1>6, <1>7 DEF OrderLapses, Midtrans, queueVars
<1>8. CASE LeaseLapses
  BY <1>6, <1>8, BelievedStays, IssuedForMoney DEF LeaseLapses
<1>9. CASE UNCHANGED vars
  BY <1>6, <1>9, BelievedStays, IssuedForMoney DEF vars, queueVars
<1> QED
  BY <1>2, <1>4, <1>5, <1>7, <1>8, <1>9, BelievedStays, IssuedForMoney DEF Next

\* queue_service.go: whoever has the turn has a lease, or the goroutine that
\* claimed the slot sets one next; no turn is left that can never be found expired.
THEOREM LeasedSlot == Spec => []SlotHasLease
<1>1. QueueInv => SlotHasLease
  BY DEF QueueInv
<1> QED
  BY InitInv, NextInv, <1>1, PTL DEF Spec

\* HandlePaymentSuccess: tickets exist only for orders whose payment Midtrans has
\* settled, or whose message was believed while Midtrans did not answer, however
\* notifications, polls and sweeps interleave.
THEOREM PaidTickets == Spec => []TicketsArePaidFor
<1>1. QueueInv => TicketsArePaidFor
  BY DEF QueueInv
<1> QED
  BY InitInv, NextInv, <1>1, PTL DEF Spec

-----------------------------------------------------------------------------
(***************************************************************************)
(* Units: what the orders that are not alive any more have still to give   *)
(* back.  A release is made by the cancellation and done next, so it is    *)
(* never anywhere but at the head of a list.                               *)
(***************************************************************************)
Statuses == {"none", "PENDING", "PAID", "CANCELLED"}
Releasing == {p \in Threads : At(p, "release")}
Kept == Live \cup stranded

NoRelease(calls) == IsList(calls) /\ \A i \in 1..Len(calls) : calls[i].op # "release"

UnitsInv ==
    /\ status \in [Orders -> Statuses]
    /\ free \in Nat
    /\ \A p \in Threads : \A i \in 2..Len(todo[p]) : todo[p][i].op # "release"
    /\ IsFiniteSet(Releasing)
    /\ stranded \subseteq {o \in Orders : status[o] = "CANCELLED"}
    /\ free + Cardinality(Kept) + Cardinality(Releasing) >= Stock

\* What a list consists of after a step: the new calls, and what was behind the head.
LEMMA ThenSplits ==
  ASSUME TodoInv, NEW p \in Threads, NEW calls, IsList(calls), Then(p, calls)
  PROVE  /\ IsList(todo'[p]) /\ Len(calls) \in Nat
         /\ \A q \in Threads \ {p} : todo'[q] = todo[q]
         /\ \A i \in 1..Len(calls) : i \in 1..Len(todo'[p]) /\ todo'[p][i] = calls[i]
         /\ \A i \in 1..Len(todo'[p]) :
               i \in 1..Len(calls) \/ \E j \in 2..Len(todo[p]) : todo'[p][i] = todo[p][j]
<1> DEFINE rest == IF Idle(p) THEN <<>> ELSE Tail(todo[p])
<1>1. /\ IsList(rest) /\ Len(rest) \in Nat
      /\ \A j \in 1..Len(rest) : j + 1 \in 2..Len(todo[p]) /\ rest[j] = todo[p][j + 1]
  <2>1. CASE Idle(p)
    <3>1. <<>> \in Seq({})
      OBVIOUS
    <3> QED  BY <2>1, <3>1 DEF IsList
  <2>2. CASE ~Idle(p)
    BY <2>2, HeadIsCall
  <2> QED  BY <2>1, <2>2
<1>2. todo'[p] = calls \o rest /\ \A q \in Threads \ {p} : todo'[q] = todo[q]
  BY DEF Then, TodoInv
<1> HIDE DEF rest
<1>3. PICK S, T : calls \in Seq(S) /\ rest \in Seq(T)
  BY <1>1 DEF IsList
<1>4. calls \in Seq(S \cup T) /\ rest \in Seq(S \cup T)
  BY <1>3
<1>5. /\ calls \o rest \in Seq(S \cup T)
      /\ Len(calls \o rest) = Len(calls) + Len(rest)
      /\ Len(calls) \in Nat /\ Len(rest) \in Nat
      /\ \A i \in 1..Len(calls) : (calls \o rest)[i] = calls[i]
      /\ \A i \in 1..Len(rest) : (calls \o rest)[Len(calls) + i] = rest[i]
  BY <1>4
<1>6. ASSUME NEW i \in 1..Len(calls \o rest), i \notin 1..Len(calls)
      PROVE  \E j \in 2..Len(todo[p]) : (calls \o rest)[i] = todo[p][j]
  <2>1. i - Len(calls) \in 1..Len(rest) /\ i = Len(calls) + (i - Len(calls))
    BY <1>5, <1>6
  <2>2. (calls \o rest)[i] = rest[i - Len(calls)]
    BY <1>5, <2>1
  <2> QED  BY <1>1, <2>1, <2>2
<1> QED
  BY <1>2, <1>5, <1>6 DEF IsList

\* The releases at hand after a step, by what the step puts in front.
LEMMA ThenReleases ==
  ASSUME TodoInv, UnitsInv, NEW p \in Threads, NEW calls, IsList(calls), Then(p, calls),
         \A i \in 2..Len(calls) : calls[i].op # "release"
  PROVE  /\ \A q \in Threads : \A i \in 2..Len(todo'[q]) : todo'[q][i].op # "release"
         /\ Releasing' = IF 1 \in 1..Len(calls) /\ calls[1].op = "release"
                         THEN Releasing \cup {p} ELSE Releasing \ {p}
<1>1. /\ IsList(todo'[p]) /\ Len(calls) \in Nat
      /\ \A q \in Threads \ {p} : todo'[q] = todo[q]
      /\ \A i \in 1..Len(calls) : i \in 1..Len(todo'[p]) /\ todo'[p][i] = calls[i]
      /\ \A i \in 1..Len(todo'[p]) :
            i \in 1..Len(calls) \/ \E j \in 2..Len(todo[p]) : todo'[p][i] = todo[p][j]
  BY ThenSplits
<1>2. PICK S : todo'[p] \in Seq(S)
  BY <1>1 DEF IsList
<1>3. Len(todo'[p]) \in Nat /\ (todo'[p] # <<>> => 1 \in 1..Len(todo'[p]) /\ Head(todo'[p]) = todo'[p][1])
      /\ (todo'[p] = <<>> => Len(todo'[p]) = 0)
  BY <1>2
<1>4. ASSUME NEW i \in 2..Len(todo'[p]) PROVE todo'[p][i].op # "release"
  <2>1. i \in 1..Len(todo'[p])
    BY <1>3
  <2>2. CASE i \in 1..Len(calls)
    BY <1>1, <2>1, <2>2, i \in 2..Len(calls)
  <2>3. CASE \E j \in 2..Len(todo[p]) : todo'[p][i] = todo[p][j]
    BY <2>3 DEF UnitsInv
  <2> QED  BY <1>1, <2>1, <2>2, <2>3
<1>5. At(p, "release")' <=> 1 \in 1..Len(calls) /\ calls[1].op = "release"
  <2>1. CASE todo'[p] = <<>>
    BY <1>1, <1>3, <2>1 DEF At, Idle
  <2>2. CASE todo'[p] # <<>>
    <3>1. At(p, "release")' <=> todo'[p][1].op = "release"
      BY <1>3, <2>2 DEF At, Idle
    <3>2. CASE 1 \in 1..Len(calls)
      BY <1>1, <3>1, <3>2
    <3>3. CASE 1 \notin 1..Len(calls)
      <4>1. PICK j \in 2..Len(todo[p]) : todo'[p][1] = todo[p][j]
        BY <1>1, <1>3, <2>2, <3>3
      <4> QED  BY <3>1, <3>3, <4>1 DEF UnitsInv
    <3> QED  BY <3>2, <3>3
  <2> QED  BY <2>1, <2>2
<1>6. \A q \in Threads \ {p} : At(q, "release")' <=> At(q, "release")
  BY <1>1 DEF At, Idle
<1>7. Releasing' = IF 1 \in 1..Len(calls) /\ calls[1].op = "release"
                   THEN Releasing \cup {p} ELSE Releasing \ {p}
  BY <1>5, <1>6 DEF Releasing
<1> QED
  BY <1>1, <1>4, <1>7 DEF UnitsInv

\* What the code puts in front never has a release, but for CancelOrder.
LEMMA CodeReleases ==
  /\ NoRelease(<<>>)
  /\ \A op \in Ops \ {"release"} : \A o, a :
        NoRelease(<<Call(op, o)>>) /\ NoRelease(<<CallSeen(op, o, a)>>)
  /\ \A op1, op2 \in Ops \ {"release"} : \A o1, o2 :
        NoRelease(<<Call(op1, o1), Call(op2, o2)>>)
  /\ \A op1, op2, op3 \in Ops \ {"release"} : \A o1, o2, o3 :
        NoRelease(<<Call(op1, o1), Call(op2, o2), Call(op3, o3)>>)
<1>1. /\ \A c : <<c>> \in Seq({c})
      /\ \A c, d : <<c, d>> \in Seq({c, d})
      /\ \A c, d, e : <<c, d, e>> \in Seq({c, d, e})
      /\ <<>> \in Seq({})
  OBVIOUS
<1>2. /\ IsList(<<>>) /\ \A c : IsList(<<c>>)
      /\ \A c, d : IsList(<<c, d>>)
      /\ \A c, d, e : IsList(<<c, d, e>>)
  BY <1>1 DEF IsList
<1> QED
  BY <1>2, CallFields DEF NoRelease

\* The steps of a thread that neither make nor do a release.
LEMMA RunReleasesNone ==
  ASSUME NEW p \in Threads, Run(p), ~Cancel(p), ~Release(p)
  PROVE  (\E calls : NoRelease(calls) /\ Then(p, calls)) /\ ~At(p, "release")
<1> USE CodeReleases DEF Ops, At
<1>1. CASE Enqueue(p) \/ EnqueueBehind(p) \/ Push(p)
  BY <1>1 DEF Enqueue, EnqueueBehind, Push
<1>2. CASE DueLine(p) \/ Claim(p) \/ Lease(p) \/ DueTurn(p)
  BY <1>2 DEF DueLine, Claim, Lease, DueTurn
<1>3. CASE Advance(p) \/ Delete(p) \/ Promote(p)
  BY <1>3 DEF Advance, Delete, Promote
<1>4. CASE Check(p) \/ CheckWaiting(p) \/ CheckLease(p)
  BY <1>4 DEF Check, CheckWaiting, CheckLease
<1>5. CASE \/ Unqueue(p) \/ LeaveLine(p) \/ MarkPaid(p) \/ Issue(p)
           \/ CancelFails(p) \/ MarkPaidFails(p)
  BY <1>5 DEF Unqueue, LeaveLine, MarkPaid, Issue, CancelFails, MarkPaidFails
<1>6. CASE PollActive(p) \/ PollLease(p) \/ PollWaiting(p) \/ TokenTurn(p)
  BY <1>6 DEF PollActive, PollLease, PollWaiting, TokenTurn
<1> QED
  BY <1>1, <1>2, <1>3, <1>4, <1>5, <1>6, Zenon DEF Run

LEMMA StartReleasesNone ==
  ASSUME NEW p \in Threads, NEW o \in Orders, Start(p, o)
  PROVE  (\E calls : NoRelease(calls) /\ Then(p, calls)) /\ Idle(p)
<1> USE CodeReleases DEF Ops, MayStart
<1>1. CASE CreateOrder(p, o) \/ PollStatus(p, o)
  BY <1>1 DEF CreateOrder, PollStatus
<1>2. CASE CreatePaymentToken(p, o) \/ CancelOrderInQueue(p, o) \/ Notify(p, o)
  BY <1>2 DEF CreatePaymentToken, CancelOrderInQueue, Notify
<1> QED
  BY <1>1, <1>2 DEF Start

LEMMA SweepReleasesNone ==
  ASSUME Sweep
  PROVE  (\E calls : NoRelease(calls) /\ Then(Worker, calls)) /\ Idle(Worker)
<1>1. PICK found \in SetToSeqs(Expired) :
         Then(Worker, [i \in 1..Len(found) |-> Call("cancel", found[i])])
  BY DEF Sweep
<1>2. Cardinality(Expired) \in Nat
  BY QueueAssumption, FS_Subset, FS_CardinalityType DEF QueueAssumption, Expired
<1>3. found \in [1..Cardinality(Expired) -> Expired]
  BY DEF SetToSeqs
<1>4. Len(found) \in Nat
  BY <1>2, <1>3
<1> DEFINE calls == [i \in 1..Len(found) |-> Call("cancel", found[i])]
           all == {Call("cancel", found[i]) : i \in 1..Len(found)}
<1>5. calls \in Seq(all) /\ Len(calls) = Len(found)
  BY <1>4
<1>6. \A i \in 1..Len(calls) : calls[i].op = "cancel"
  BY <1>5, CallFields
<1> HIDE DEF calls, all
<1>7. NoRelease(calls)
  BY <1>5, <1>6 DEF NoRelease, IsList
<1>8. Then(Worker, calls)
  BY <1>1 DEF calls
<1> QED
  BY <1>7, <1>8 DEF Sweep, MayStart

\* Such a step leaves the releases at hand alone.
LEMMA NoneReleased ==
  ASSUME TodoInv, UnitsInv, NEW p \in Threads, ~At(p, "release"),
         \E calls : NoRelease(calls) /\ Then(p, calls)
  PROVE  /\ \A q \in Threads : \A i \in 2..Len(todo'[q]) : todo'[q][i].op # "release"
         /\ Releasing' = Releasing
<1>1. PICK calls : NoRelease(calls) /\ Then(p, calls)
  OBVIOUS
<1>2. Len(calls) \in Nat
  BY <1>1, ThenSplits DEF NoRelease
<1>3. /\ IsList(calls) /\ \A i \in 2..Len(calls) : calls[i].op # "release"
      /\ ~(1 \in 1..Len(calls) /\ calls[1].op = "release")
  BY <1>1, <1>2 DEF NoRelease
<1>4. p \notin Releasing
  BY DEF Releasing
<1> QED
  BY <1>1, <1>3, <1>4, ThenReleases

LEMMA CountKept ==
  ASSUME UnitsInv
  PROVE  /\ IsFiniteSet(Kept) /\ Cardinality(Kept) \in Nat
         /\ IsFiniteSet(Releasing) /\ Cardinality(Releasing) \in Nat
         /\ free \in Nat /\ Stock \in Nat
<1>1. IsFiniteSet(Kept)
  BY QueueAssumption, FS_Subset DEF QueueAssumption, Kept, Live, UnitsInv
<1> QED
  BY <1>1, FS_CardinalityType, QueueAssumption DEF QueueAssumption, UnitsInv

\* No release made or done, no unit taken, and no order dropped.
LEMMA UnitsStay ==
  ASSUME UnitsInv, status' \in [Orders -> Statuses], free' = free, Kept \subseteq Kept',
         stranded' \subseteq {o \in Orders : status'[o] = "CANCELLED"},
         \A q \in Threads : \A i \in 2..Len(todo'[q]) : todo'[q][i].op # "release",
         Releasing' = Releasing
  PROVE  UnitsInv'
<1>1. IsFiniteSet(Kept')
  BY QueueAssumption, FS_Subset DEF QueueAssumption, Kept, Live
<1>2. Cardinality(Kept) <= Cardinality(Kept') /\ Cardinality(Kept') \in Nat
  BY <1>1, FS_Subset, FS_CardinalityType
<1>3. free + Cardinality(Kept') + Cardinality(Releasing) >= Stock
  BY <1>2, CountKept DEF UnitsInv
<1> QED
  BY <1>3 DEF UnitsInv

LEMMA NextUnits == TodoInv /\ UnitsInv /\ [Next]_vars => UnitsInv'
<1> SUFFICES ASSUME TodoInv, UnitsInv, [Next]_vars PROVE UnitsInv'
  OBVIOUS
<1>1. ASSUME NEW p \in Threads, Cancel(p) PROVE UnitsInv'
  <2> DEFINE calls == AfterCancel(p)
  <2>1. /\ ~At(p, "release") /\ Then(p, calls) /\ free' = free
        /\ status' = [status EXCEPT ![Mine(p)] = "CANCELLED"]
        /\ stranded' = stranded \ {Mine(p)}
    BY <1>1 DEF Cancel, At
  <2>2. /\ IsList(calls) /\ Len(calls) \in {2, 3}
        /\ calls[1].op = "release" /\ \A i \in 2..Len(calls) : calls[i].op = "unqueue"
    <3> DEFINE r == Call("release", Mine(p))
               u == Call("unqueue", Mine(p))
    <3>1. r.op = "release" /\ u.op = "unqueue"
      BY CallFields
    <3>2. calls = <<r, u, u>> \/ calls = <<r, u>>
      BY DEF AfterCancel
    <3> HIDE DEF r, u, calls
    <3>3. CASE calls = <<r, u, u>>
      <4>1. <<r, u, u>> \in Seq({r, u})
        OBVIOUS
      <4>2. IsList(calls) /\ Len(calls) = 3 /\ calls[1] = r /\ calls[2] = u /\ calls[3] = u
        BY <3>3, <4>1 DEF IsList
      <4>3. \A i \in 2..3 : i = 2 \/ i = 3
        OBVIOUS
      <4> QED  BY <3>1, <4>2, <4>3
    <3>4. CASE calls = <<r, u>>
      <4>1. <<r, u>> \in Seq({r, u})
        OBVIOUS
      <4>2. IsList(calls) /\ Len(calls) = 2 /\ calls[1] = r /\ calls[2] = u
        BY <3>4, <4>1 DEF IsList
      <4>3. \A i \in 2..2 : i = 2
        OBVIOUS
      <4> QED  BY <3>1, <4>2, <4>3
    <3> QED  BY <3>2, <3>3, <3>4
  <2>3. /\ \A q \in Threads : \A i \in 2..Len(todo'[q]) : todo'[q][i].op # "release"
        /\ Releasing' = Releasing \cup {p}
    <3> HIDE DEF calls
    <3>1. (\A i \in 2..Len(calls) : calls[i].op # "release") /\ 1 \in 1..Len(calls)
      BY <2>2
    <3> QED  BY <2>1, <2>2, <3>1, ThenReleases
  <2>4. p \notin Releasing
    BY <2>1 DEF Releasing
  <2>5. IsFiniteSet(Releasing') /\ Cardinality(Releasing') = Cardinality(Releasing) + 1
    BY <2>3, <2>4, CountKept, FS_AddElement
  <2>6. /\ status' \in [Orders -> Statuses] /\ Kept' = Kept \ {Mine(p)}
        /\ stranded' \subseteq {o \in Orders : status'[o] = "CANCELLED"}
    BY <2>1 DEF UnitsInv, Statuses, Live, Kept
  <2>7. Cardinality(Kept') \in {Cardinality(Kept), Cardinality(Kept) - 1}
    <3>1. CASE Mine(p) \in Kept
      BY <2>6, <3>1, CountKept, FS_RemoveElement
    <3>2. CASE Mine(p) \notin Kept
      <4>1. Kept' = Kept
        BY <2>6, <3>2
      <4> QED  BY <4>1
    <3> QED  BY <3>1, <3>2
  <2>8. free' + Cardinality(Kept') + Cardinality(Releasing') >= Stock
    BY <2>1, <2>5, <2>7, CountKept DEF UnitsInv
  <2> QED
    BY <2>1, <2>3, <2>5, <2>6, <2>8 DEF UnitsInv
<1>2. ASSUME NEW p \in Threads, Release(p) PROVE UnitsInv'
  <2>1. /\ p \in Releasing /\ Then(p, <<>>) /\ status' = status /\ stranded' = stranded
        /\ free' = IF free < MaxFree THEN free + 1 ELSE free
    BY <1>2 DEF Release, Releasing
  <2>2. IsList(<<>>) /\ Len(<<>>) = 0
    BY CodeReleases DEF NoRelease
  <2>3. /\ \A q \in Threads : \A i \in 2..Len(todo'[q]) : todo'[q][i].op # "release"
        /\ Releasing' = Releasing \ {p}
    <3>1. \A i \in 2..Len(<<>>) : <<>>[i].op # "release"
      BY <2>2
    <3>2. 1 \notin 1..Len(<<>>)
      BY <2>2
    <3> QED  BY <2>1, <2>2, <3>1, <3>2, ThenReleases
  <2>4. IsFiniteSet(Releasing') /\ Cardinality(Releasing') = Cardinality(Releasing) - 1
    BY <2>1, <2>3, CountKept, FS_RemoveElement
  <2>5. Cardinality(Kept') = Cardinality(Kept)
    BY <2>1 DEF Kept, Live
  <2>6. free' \in Nat /\ free' + Cardinality(Kept') + Cardinality(Releasing') >= Stock
    <3>1. Cardinality(Releasing') \in Nat
      BY <2>4, FS_CardinalityType
    <3> QED  BY <2>1, <2>4, <2>5, <3>1, CountKept DEF UnitsInv, MaxFree
  <2>7. stranded' \subseteq {o \in Orders : status'[o] = "CANCELLED"}
    BY <2>1 DEF UnitsInv
  <2> QED
    BY <2>1, <2>3, <2>4, <2>6, <2>7 DEF UnitsInv
<1>3. ASSUME NEW p \in Threads, Run(p), ~Cancel(p), ~Release(p) PROVE UnitsInv'
  <2>1. /\ \A q \in Threads : \A i \in 2..Len(todo'[q]) : todo'[q][i].op # "release"
        /\ Releasing' = Releasing
    BY <1>3, RunReleasesNone, NoneReleased
  <2>2. /\ free' = free
        /\ \/ UNCHANGED <<status, stranded>>
           \/ /\ status' = [status EXCEPT ![Mine(p)] = "PAID"]
              /\ stranded' = stranded \ {Mine(p)}
           \/ /\ status' = [status EXCEPT ![Mine(p)] = "CANCELLED"]
              /\ stranded' = stranded \cup ({Mine(p)} \cap Live)
    BY <1>3 DEF Run, orderVars, Enqueue, EnqueueBehind, Push, DueLine, DueTurn,
       Claim, Lease, Advance, Delete, Promote, Check, CheckWaiting, CheckLease, CancelFails,
       Unqueue, LeaveLine, MarkPaid, MarkPaidFails, Issue, PollActive, PollLease, PollWaiting,
       TokenTurn
  <2>3. /\ status' \in [Orders -> Statuses] /\ Kept \subseteq Kept'
        /\ stranded' \subseteq {o \in Orders : status'[o] = "CANCELLED"}
    BY <2>2 DEF UnitsInv, Statuses, Live, Kept
  <2> QED
    BY <2>1, <2>2, <2>3, UnitsStay
<1>4. ASSUME NEW p \in Threads, NEW o \in Orders, Start(p, o) PROVE UnitsInv'
  <2>1. /\ \A q \in Threads : \A i \in 2..Len(todo'[q]) : todo'[q][i].op # "release"
        /\ Releasing' = Releasing
    BY <1>4, StartReleasesNone, NoneReleased DEF At
  <2>2. CASE CreateOrder(p, o)
    <3>1. /\ status[o] = "none" /\ status' = [status EXCEPT ![o] = "PENDING"]
          /\ free > 0 /\ free' = free - 1 /\ stranded' = stranded
      BY <2>2 DEF CreateOrder
    <3>2. /\ status' \in [Orders -> Statuses] /\ o \notin Kept /\ Kept' = Kept \cup {o}
          /\ stranded' \subseteq {q \in Orders : status'[q] = "CANCELLED"}
      BY <3>1 DEF UnitsInv, Statuses, Live, Kept
    <3>3. Cardinality(Kept') = Cardinality(Kept) + 1
      BY <3>2, CountKept, FS_AddElement
    <3>4. free' \in Nat /\ free' + Cardinality(Kept') + Cardinality(Releasing) >= Stock
      BY <3>1, <3>3, CountKept DEF UnitsInv
    <3> QED
      BY <2>1, <3>2, <3>4 DEF UnitsInv
  <2>3. CASE ~CreateOrder(p, o)
    <3>1. free' = free /\ status' = status /\ stranded' = stranded
      BY <1>4, <2>3 DEF Start, PollStatus, CreatePaymentToken, CancelOrderInQueue, Notify,
         orderVars
    <3>2. /\ status' \in [Orders -> Statuses] /\ Kept \subseteq Kept'
        /\ stranded' \subseteq {q \in Orders : status'[q] = "CANCELLED"}
      BY <3>1 DEF UnitsInv, Live, Kept
    <3> QED
      BY <2>1, <3>1, <3>2, UnitsStay
  <2> QED  BY <2>2, <2>3
<1>5. CASE Sweep
  <2>1. Worker \in Threads
    BY QueueAssumption DEF QueueAssumption
  <2>2. /\ \A q \in Threads : \A i \in 2..Len(todo'[q]) : todo'[q][i].op # "release"
        /\ Releasing' = Releasing
    BY <1>5, <2>1, SweepReleasesNone, NoneReleased DEF At
  <2>3. free' = free /\ status' = status /\ stranded' = stranded
    BY <1>5 DEF Sweep, orderVars
  <2>4. /\ status' \in [Orders -> Statuses] /\ Kept \subseteq Kept'
        /\ stranded' \subseteq {q \in Orders : status'[q] = "CANCELLED"}
    BY <2>3 DEF UnitsInv, Live, Kept
  <2> QED
    BY <2>2, <2>3, <2>4, UnitsStay
<1>6. ASSUME UNCHANGED <<status, free, todo, stranded>> PROVE UnitsInv'
  BY <1>6 DEF UnitsInv, Kept, Live, Releasing, At, Idle
<1>7. ASSUME NEW o \in Orders, OrderLapses(o) \/ Midtrans(o) PROVE UnitsInv'
  BY <1>6, <1>7 DEF OrderLapses, Midtrans, orderVars
<1>8. CASE LeaseLapses \/ UNCHANGED vars
  BY <1>6, <1>8 DEF LeaseLapses, vars, orderVars
<1> QED
  BY <1>1, <1>2, <1>3, <1>4, <1>5, <1>7, <1>8, Zenon DEF Next

LEMMA InitUnits == Init => UnitsInv
<1> SUFFICES ASSUME Init PROVE UnitsInv
  OBVIOUS
<1>1. \A p \in Threads : todo[p] = <<>> /\ Len(todo[p]) = 0
  BY DEF Init
<1>2. Releasing = {} /\ Kept = {}
  BY <1>1 DEF Releasing, At, Idle, Live, Kept, Init
<1>3. Cardinality({}) = 0 /\ IsFiniteSet({})
  BY FS_EmptySet
<1> QED
  BY <1>1, <1>2, <1>3, QueueAssumption DEF Init, UnitsInv, Statuses, QueueAssumption

\* CancelOrder: however many goroutines cancel one order together and whichever of
\* their statements fail, every order that is not alive has given its unit back once
\* nothing runs, except one whose last cancellation broke off before the release.
THEOREM UnitsReturn == Spec => []NoUnitLost
<1>1. Init => QueueInv /\ UnitsInv
  BY InitInv, InitUnits
<1>2. QueueInv /\ UnitsInv /\ [Next]_vars => QueueInv' /\ UnitsInv'
  BY NextInv, NextUnits DEF QueueInv
<1>3. UnitsInv => NoUnitLost
  <2> SUFFICES ASSUME UnitsInv, Quiet PROVE free + Cardinality(Kept) >= Stock
    BY DEF NoUnitLost, Kept
  <2>1. Releasing = {}
    BY DEF Releasing, At, Quiet
  <2> QED  BY <2>1, FS_EmptySet, CountKept DEF UnitsInv
<1> QED
  BY <1>1, <1>2, <1>3, PTL DEF Spec

-----------------------------------------------------------------------------
(***************************************************************************)
(* LREM: the line without an order, whatever the line.                     *)
(***************************************************************************)
\* The least-number principle.
LEMMA LeastNat ==
  ASSUME NEW T, T \subseteq Nat, T # {}
  PROVE  \E n \in T : \A m \in T : n <= m
<1>1. IsWellFoundedOn(OpToRel(<, Nat), Nat)
  BY NatLessThanWellFounded
<1>2. PICK x \in T : \A y \in T : ~ (<<y, x>> \in OpToRel(<, Nat))
  BY <1>1, WFMin
<1>3. \A y \in T : ~ (y < x)
  BY <1>2 DEF OpToRel
<1> QED
  BY <1>3

\* What is kept of the first n places, given what is kept of the places before.
KeptUpTo(kept, line, o, n) ==
    IF n = 0 THEN <<>>
    ELSE IF line[n] = o THEN kept[n - 1] ELSE Append(kept[n - 1], line[n])

\* kept is built over the first k places the way Without builds it.
Keeps(kept, line, o, k) == kept = [n \in 0..k |-> KeptUpTo(kept, line, o, n)]

LEMMA KeepsExists ==
  ASSUME NEW line, NEW o, NEW k \in Nat
  PROVE  \E kept : Keeps(kept, line, o, k)
<1> DEFINE Bad == {j \in Nat : ~ \E kept : Keeps(kept, line, o, j)}
<1>1. SUFFICES ASSUME Bad # {} PROVE FALSE
  OBVIOUS
<1>2. Bad \subseteq Nat
  OBVIOUS
<1>3. PICK j \in Bad : \A i \in Bad : j <= i
  <2> HIDE DEF Bad
  <2> QED  BY <1>1, <1>2, LeastNat
<1>4. j # 0
  <2>1. Keeps([n \in 0..0 |-> <<>>], line, o, 0)
    BY DEF Keeps, KeptUpTo
  <2>2. 0 \notin Bad
    BY <2>1
  <2> HIDE DEF Bad
  <2> QED  BY <1>3, <2>2
<1>5. j \in Nat /\ j - 1 \in Nat /\ j - 1 \notin Bad
  <2> HIDE DEF Bad
  <2> QED  BY <1>2, <1>3, <1>4
<1>6. PICK g : Keeps(g, line, o, j - 1)
  BY <1>5
<1> DEFINE h == [n \in 0..j |-> KeptUpTo(g, line, o, n)]
<1>7. \A n \in 0..(j - 1) : h[n] = g[n]
  BY <1>5, <1>6 DEF Keeps
<1>8. \A n \in 0..j : KeptUpTo(g, line, o, n) = KeptUpTo(h, line, o, n)
  <2> HIDE DEF h
  <2> SUFFICES ASSUME NEW n \in 0..j
               PROVE  KeptUpTo(g, line, o, n) = KeptUpTo(h, line, o, n)
    OBVIOUS
  <2>1. n = 0 \/ n - 1 \in 0..(j - 1)
    BY <1>5
  <2> QED  BY <1>7, <2>1 DEF KeptUpTo
<1>9. Keeps(h, line, o, j)
  BY <1>8 DEF Keeps
<1> QED
  BY <1>3, <1>9

\* s is a line of S in which o does not stand, and which has everything else that stands
\* in the first n places of the line; nobody stands in it twice who does not there.
KeptRight(s, line, o, S, n) ==
    /\ s \in Seq(S)
    /\ \A j \in 1..Len(s) : \E i \in 1..n : s[j] = line[i] /\ line[i] # o
    /\ \A i \in 1..n : line[i] # o => \E j \in 1..Len(s) : s[j] = line[i]
    /\ IsInjective(line) => IsInjective(s)

LEMMA KeptOne ==
  ASSUME NEW S, NEW line \in Seq(S), NEW o, NEW n \in 1..Len(line), NEW s,
         KeptRight(s, line, o, S, n - 1)
  PROVE  /\ line[n] = o => KeptRight(s, line, o, S, n)
         /\ line[n] # o => KeptRight(Append(s, line[n]), line, o, S, n)
<1>0. /\ Len(line) \in Nat /\ DOMAIN line = 1..Len(line) /\ line[n] \in S
      /\ n \in Nat /\ 1..n \subseteq 1..Len(line)
  OBVIOUS
<1>1. /\ s \in Seq(S) /\ Len(s) \in Nat /\ DOMAIN s = 1..Len(s)
      /\ \A j \in 1..Len(s) : \E i \in 1..(n - 1) : s[j] = line[i] /\ line[i] # o
      /\ \A i \in 1..(n - 1) : line[i] # o => \E j \in 1..Len(s) : s[j] = line[i]
      /\ IsInjective(line) => IsInjective(s)
  BY DEF KeptRight
<1>2. \A i \in 1..n : i = n \/ i \in 1..(n - 1)
  BY <1>0
<1>3. 1..(n - 1) \subseteq 1..n /\ n \in 1..n /\ n \notin 1..(n - 1)
  BY <1>0
<1>4. ASSUME line[n] = o PROVE KeptRight(s, line, o, S, n)
  BY <1>1, <1>2, <1>3, <1>4 DEF KeptRight
<1>5. ASSUME line[n] # o PROVE KeptRight(Append(s, line[n]), line, o, S, n)
  <2> DEFINE t == Append(s, line[n])
  <2>1. /\ t \in Seq(S) /\ Len(t) = Len(s) + 1 /\ DOMAIN t = 1..(Len(s) + 1)
        /\ \A j \in 1..Len(s) : t[j] = s[j]
        /\ t[Len(s) + 1] = line[n]
    BY <1>0, <1>1
  <2> HIDE DEF t
  <2>2. \A j \in 1..Len(t) : j \in 1..Len(s) \/ j = Len(s) + 1
    BY <1>1, <2>1
  <2>3. 1..Len(s) \subseteq 1..Len(t) /\ Len(s) + 1 \in 1..Len(t)
    BY <1>1, <2>1
  <2>4. ASSUME NEW j \in 1..Len(t)
        PROVE  \E i \in 1..n : t[j] = line[i] /\ line[i] # o
    <3>1. CASE j \in 1..Len(s)
      <4>1. PICK i \in 1..(n - 1) : s[j] = line[i] /\ line[i] # o
        BY <1>1, <3>1
      <4>2. i \in 1..n /\ t[j] = s[j]
        BY <1>3, <2>1, <3>1
      <4> QED  BY <4>1, <4>2
    <3>2. CASE j = Len(s) + 1
      BY <1>3, <1>5, <2>1, <3>2
    <3> QED  BY <2>2, <3>1, <3>2
  <2>5. \A i \in 1..n : line[i] # o => \E j \in 1..Len(t) : t[j] = line[i]
    BY <1>1, <1>2, <2>1, <2>3
  <2>6. ASSUME IsInjective(line) PROVE IsInjective(t)
    <3>1. \A j \in 1..Len(s) : s[j] # line[n]
      <4> SUFFICES ASSUME NEW j \in 1..Len(s), s[j] = line[n] PROVE FALSE
        OBVIOUS
      <4>1. PICK i \in 1..(n - 1) : s[j] = line[i]
        BY <1>1
      <4>2. i \in DOMAIN line /\ n \in DOMAIN line /\ i # n
        BY <1>0, <1>3
      <4> QED  BY <2>6, <4>1, <4>2 DEF IsInjective
    <3>2. \A a, b \in 1..Len(s) : s[a] = s[b] => a = b
      BY <1>1, <2>6 DEF IsInjective
    <3> SUFFICES ASSUME NEW a \in 1..Len(t), NEW b \in 1..Len(t), t[a] = t[b]
                 PROVE  a = b
      BY <2>1 DEF IsInjective
    <3> QED  BY <2>1, <2>2, <3>1, <3>2
  <2>7. KeptRight(t, line, o, S, n)
    BY <2>1, <2>4, <2>5, <2>6 DEF KeptRight
  <2> QED  BY <2>7 DEF t
<1> QED
  BY <1>4, <1>5

LEMMA WithoutKeeps ==
  ASSUME NEW S, NEW line \in Seq(S), NEW o
  PROVE  KeptRight(Without(line, o), line, o, S, Len(line))
<1> DEFINE P(g) == Keeps(g, line, o, Len(line))
           kept == CHOOSE g : P(g)
<1>1. Len(line) \in Nat
  OBVIOUS
<1>2. P(kept)
  <2>1. \E g : P(g)
    BY <1>1, KeepsExists
  <2> HIDE DEF P
  <2> QED  BY <2>1
<1>3. Without(line, o) = kept[Len(line)]
  BY DEF Without, Keeps, KeptUpTo
<1> HIDE DEF kept
<1>4. \A n \in 0..Len(line) : kept[n] = KeptUpTo(kept, line, o, n)
  BY <1>1, <1>2 DEF Keeps
<1> DEFINE Bad == {n \in 0..Len(line) : ~ KeptRight(kept[n], line, o, S, n)}
<1>5. Bad = {}
  <2> SUFFICES ASSUME Bad # {} PROVE FALSE
    OBVIOUS
  <2>1. Bad \subseteq Nat
    BY <1>1
  <2>2. PICK n \in Bad : \A m \in Bad : n <= m
    <3> HIDE DEF Bad
    <3> QED  BY <2>1, LeastNat
  <2>3. n # 0
    <3>1. <<>> \in Seq(S) /\ Len(<<>>) = 0 /\ DOMAIN <<>> = {}
      OBVIOUS
    <3>2. KeptRight(<<>>, line, o, S, 0)
      BY <3>1 DEF KeptRight, IsInjective
    <3>3. kept[0] = <<>>
      BY <1>1, <1>4 DEF KeptUpTo
    <3> QED  BY <3>2, <3>3
  <2>4. n \in 1..Len(line) /\ n - 1 \in 0..Len(line) /\ n - 1 \notin Bad
    <3>1. n \in 0..Len(line)
      OBVIOUS
    <3>2. n \in 1..Len(line) /\ n - 1 \in 0..Len(line) /\ ~(n <= n - 1)
      BY <1>1, <2>3, <3>1
    <3> HIDE DEF Bad
    <3> QED  BY <2>2, <3>2
  <2>5. KeptRight(kept[n - 1], line, o, S, n - 1)
    BY <2>4
  <2>6. kept[n] = IF line[n] = o THEN kept[n - 1] ELSE Append(kept[n - 1], line[n])
    BY <1>4, <2>3 DEF KeptUpTo
  <2>7. KeptRight(kept[n], line, o, S, n)
    BY <2>4, <2>5, <2>6, KeptOne
  <2> QED  BY <2>7
<1> QED
  BY <1>1, <1>3, <1>5

\* LREM takes the order out of the line and nobody else, and leaves nobody there twice
\* who was there once.
LEMMA WithoutIsLREM ==
  ASSUME NEW S, NEW line \in Seq(S), NEW o
  PROVE  /\ Without(line, o) \in Seq(S)
         /\ ToSet(Without(line, o)) = ToSet(line) \ {o}
         /\ IsInjective(line) => IsInjective(Without(line, o))
         /\ line = <<>> => Without(line, o) = <<>>
<1>1. KeptRight(Without(line, o), line, o, S, Len(line))
  BY WithoutKeeps
<1> DEFINE s == Without(line, o)
<1>2. /\ s \in Seq(S) /\ DOMAIN s = 1..Len(s) /\ DOMAIN line = 1..Len(line)
      /\ \A j \in 1..Len(s) : \E i \in 1..Len(line) : s[j] = line[i] /\ line[i] # o
      /\ \A i \in 1..Len(line) : line[i] # o => \E j \in 1..Len(s) : s[j] = line[i]
      /\ IsInjective(line) => IsInjective(s)
  BY <1>1 DEF KeptRight
<1> HIDE DEF s
<1>3. ToSet(s) = ToSet(line) \ {o}
  <2>1. ToSet(s) = {s[j] : j \in 1..Len(s)} /\ ToSet(line) = {line[i] : i \in 1..Len(line)}
    BY <1>2 DEF ToSet
  <2>2. \A x \in ToSet(s) : x \in ToSet(line) /\ x # o
    BY <1>2, <2>1
  <2>3. \A x \in ToSet(line) : x # o => x \in ToSet(s)
    BY <1>2, <2>1
  <2> QED  BY <2>2, <2>3
<1>4. line = <<>> => s = <<>>
  <2> SUFFICES ASSUME line = <<>>, s # <<>> PROVE FALSE
    OBVIOUS
  <2>1. 1 \in 1..Len(s) /\ Len(line) = 0
    BY <1>2
  <2> QED  BY <1>2, <2>1
<1> QED
  BY <1>2, <1>3, <1>4 DEF s

-----------------------------------------------------------------------------
(***************************************************************************)
(* Types.  Mine(p) is an order only because of what the entries of a list  *)
(* are: all but four of the calls name an order, and a call that enqueues  *)
(* behind an owner has seen one.                                           *)
(***************************************************************************)
Nameless == {"advance", "delete", "check", "checkWaiting"}

Entries == {c \in Calls : /\ c.op \notin Nameless => c.order \in Orders
                          /\ c.op = "enqueueBehind" => c.seen \in Orders}

\* The type of everything but the lists of calls.
DataTyped ==
    /\ status \in [Orders -> Statuses]
    /\ deadline \in [Orders -> {"unpaid", "turn", "line", "past"}]
    /\ active \in Orders \cup {NoOrder}
    /\ lease \in {"none", "live", "past"}
    /\ waiting \in Seq(Orders)
    /\ free \in 0..MaxFree
    /\ tickets \in [Orders -> 0..MaxTickets]
    /\ money \in [Orders -> SUBSET {"open", "settled", "expired"}]
    /\ stranded \subseteq Orders
    /\ unasked \subseteq Orders

TodoTyped == todo \in [Threads -> Seq(Entries)]

TypeInv == DataTyped /\ TodoTyped

LEMMA EntriesAre ==
  /\ \A op \in Ops \ {"enqueueBehind"} : \A o \in Orders : Call(op, o) \in Entries
  /\ \A op \in Nameless : Call(op, NoOrder) \in Entries
  /\ \A o, a \in Orders : CallSeen("enqueueBehind", o, a) \in Entries
  /\ \A o \in Orders : \A a \in Orders \cup {NoOrder} : CallSeen("pollWaiting", o, a) \in Entries
  BY DEF Call, CallSeen, Entries, Calls, Ops, Nameless

\* The first entry of a thread that is not idle, and the entries after it.
LEMMA HeadTyped ==
  ASSUME TodoTyped, NEW p \in Threads, NEW op, At(p, op)
  PROVE  /\ Tail(todo[p]) \in Seq(Entries)
         /\ Head(todo[p]) \in Entries
         /\ op \notin Nameless => Mine(p) \in Orders
         /\ op = "enqueueBehind" => Seen(p) \in Orders
         /\ Seen(p) \in Orders \cup {NoOrder}
<1>1. todo[p] \in Seq(Entries) /\ todo[p] # <<>> /\ Head(todo[p]).op = op
  BY DEF TodoTyped, At, Idle
<1>2. Head(todo[p]) \in Entries /\ Tail(todo[p]) \in Seq(Entries)
  BY <1>1
<1> QED
  BY <1>1, <1>2 DEF Entries, Calls, Mine, Seen

\* A step of a thread that puts entries in front of its list.
TypedStep(p) == \E calls \in Seq(Entries) : Then(p, calls)

LEMMA ThenTyped ==
  ASSUME TodoTyped, NEW p \in Threads, TypedStep(p)
  PROVE  TodoTyped'
<1>1. PICK calls \in Seq(Entries) : Then(p, calls)
  BY DEF TypedStep
<1> DEFINE rest == IF Idle(p) THEN <<>> ELSE Tail(todo[p])
<1>2. rest \in Seq(Entries)
  <2>1. todo[p] \in Seq(Entries)
    BY DEF TodoTyped
  <2>2. ~Idle(p) => Tail(todo[p]) \in Seq(Entries)
    BY <2>1 DEF Idle
  <2> QED  BY <2>2
<1>3. todo' = [todo EXCEPT ![p] = calls \o rest]
  BY <1>1 DEF Then
<1> HIDE DEF rest
<1>4. calls \o rest \in Seq(Entries)
  BY <1>1, <1>2
<1> QED
  BY <1>3, <1>4 DEF TodoTyped

LEMMA SeqsOfEntries ==
  /\ <<>> \in Seq(Entries)
  /\ \A c \in Entries : <<c>> \in Seq(Entries)
  /\ \A c, d \in Entries : <<c, d>> \in Seq(Entries)
  /\ \A c, d, e \in Entries : <<c, d, e>> \in Seq(Entries)
  OBVIOUS

LEMMA RunStepTyped ==
  ASSUME TypeInv, NEW p \in Threads, Run(p)
  PROVE  TypedStep(p)
<1> USE DEF TypeInv, DataTyped
<1>0. /\ \A op \in Ops \ Nameless : At(p, op) => Mine(p) \in Orders
      /\ At(p, "enqueueBehind") => Seen(p) \in Orders
  BY HeadTyped
<1>1. CASE Enqueue(p)
  <2>1. /\ Mine(p) \in Orders
        /\ Then(p, IF active = NoOrder
                   THEN <<Call("claim", Mine(p)), Call("lease", Mine(p))>>
                   ELSE <<CallSeen("enqueueBehind", Mine(p), active)>>)
    BY <1>0, <1>1 DEF Enqueue, Ops, Nameless
  <2>2. /\ Call("claim", Mine(p)) \in Entries /\ Call("lease", Mine(p)) \in Entries
        /\ active # NoOrder => CallSeen("enqueueBehind", Mine(p), active) \in Entries
    BY <2>1, EntriesAre DEF Ops
  <2> QED  BY <2>1, <2>2, SeqsOfEntries DEF TypedStep
<1>2. CASE EnqueueBehind(p)
  <2>1. Mine(p) \in Orders /\ Seen(p) \in Orders
    BY <1>0, <1>2 DEF EnqueueBehind, Ops, Nameless
  <2>2. /\ Call("cancel", Seen(p)) \in Entries /\ Call("advance", NoOrder) \in Entries
        /\ Call("enqueue", Mine(p)) \in Entries /\ Call("push", Mine(p)) \in Entries
    BY <2>1, EntriesAre DEF Ops, Nameless
  <2> QED  BY <1>2, <2>2, SeqsOfEntries DEF TypedStep, EnqueueBehind
<1>3. CASE Push(p) \/ Lease(p)
  <2>1. Mine(p) \in Orders
    BY <1>0, <1>3 DEF Push, Lease, Ops, Nameless
  <2>2. Call("dueLine", Mine(p)) \in Entries /\ Call("dueTurn", Mine(p)) \in Entries
    BY <2>1, EntriesAre DEF Ops
  <2> QED  BY <1>3, <2>2, SeqsOfEntries DEF TypedStep, Push, Lease
<1>4. CASE \/ DueLine(p) \/ Claim(p) \/ DueTurn(p) \/ Delete(p) \/ Release(p) \/ LeaveLine(p)
           \/ Issue(p) \/ TokenTurn(p)
  BY <1>4, SeqsOfEntries
     DEF TypedStep, DueLine, Claim, DueTurn, Delete, Release, LeaveLine, Issue, TokenTurn
<1>5. CASE Advance(p)
  <2>1. waiting # <<>> => Head(waiting) \in Orders
    OBVIOUS
  <2>2. /\ Call("delete", NoOrder) \in Entries
        /\ waiting # <<>> => Call("promote", Head(waiting)) \in Entries
    BY <2>1, EntriesAre DEF Ops, Nameless
  <2> QED  BY <1>5, <2>2, SeqsOfEntries DEF TypedStep, Advance
<1>6. CASE Promote(p)
  <2>1. Mine(p) \in Orders
    BY <1>0, <1>6 DEF Promote, Ops, Nameless
  <2>2. /\ Call("claim", Mine(p)) \in Entries /\ Call("lease", Mine(p)) \in Entries
        /\ Call("advance", NoOrder) \in Entries
    BY <2>1, EntriesAre DEF Ops, Nameless
  <2> QED  BY <1>6, <2>2, SeqsOfEntries DEF TypedStep, Promote
<1>7. CASE Check(p)
  <2>1. /\ Call("checkWaiting", NoOrder) \in Entries
        /\ active # NoOrder => Call("checkLease", active) \in Entries
    BY EntriesAre DEF Ops, Nameless
  <2> QED  BY <1>7, <2>1, SeqsOfEntries DEF TypedStep, Check
<1>8. CASE CheckWaiting(p)
  <2>1. Call("advance", NoOrder) \in Entries
    BY EntriesAre DEF Nameless
  <2> QED  BY <1>8, <2>1, SeqsOfEntries DEF TypedStep, CheckWaiting
<1>9. CASE CheckLease(p) \/ PollLease(p)
  <2>1. Mine(p) \in Orders
    BY <1>0, <1>9 DEF CheckLease, PollLease, Ops, Nameless
  <2>2. Call("cancel", Mine(p)) \in Entries /\ Call("advance", NoOrder) \in Entries
    BY <2>1, EntriesAre DEF Ops, Nameless
  <2> QED  BY <1>9, <2>2, SeqsOfEntries DEF TypedStep, CheckLease, PollLease
<1>10. CASE Cancel(p)
  <2>1. Mine(p) \in Orders
    BY <1>0, <1>10 DEF Cancel, Ops, Nameless
  <2>2. Call("release", Mine(p)) \in Entries /\ Call("unqueue", Mine(p)) \in Entries
    BY <2>1, EntriesAre DEF Ops
  <2> QED  BY <1>10, <2>2, SeqsOfEntries DEF TypedStep, Cancel, AfterCancel
<1>15. CASE CancelFails(p) \/ MarkPaidFails(p)
  BY <1>15, SeqsOfEntries DEF TypedStep, CancelFails, MarkPaidFails
<1>11. CASE Unqueue(p)
  <2>1. Mine(p) \in Orders
    BY <1>0, <1>11 DEF Unqueue, Ops, Nameless
  <2>2. Call("advance", NoOrder) \in Entries /\ Call("remove", Mine(p)) \in Entries
    BY <2>1, EntriesAre DEF Ops, Nameless
  <2> QED  BY <1>11, <2>2, SeqsOfEntries DEF TypedStep, Unqueue
<1>12. CASE MarkPaid(p)
  <2>1. Mine(p) \in Orders
    BY <1>0, <1>12 DEF MarkPaid, Ops, Nameless
  <2>2. Call("issue", Mine(p)) \in Entries /\ Call("advance", NoOrder) \in Entries
    BY <2>1, EntriesAre DEF Ops, Nameless
  <2> QED  BY <1>12, <2>2, SeqsOfEntries DEF TypedStep, MarkPaid
<1>13. CASE PollActive(p)
  <2>1. Mine(p) \in Orders
    BY <1>0, <1>13 DEF PollActive, Ops, Nameless
  <2>2. /\ Call("pollLease", Mine(p)) \in Entries
        /\ CallSeen("pollWaiting", Mine(p), active) \in Entries
    BY <2>1, EntriesAre DEF Ops
  <2> QED  BY <1>13, <2>2, SeqsOfEntries DEF TypedStep, PollActive
<1>14. CASE PollWaiting(p)
  <2>1. Mine(p) \in Orders
    BY <1>0, <1>14 DEF PollWaiting, Ops, Nameless
  <2>2. /\ Call("claim", Mine(p)) \in Entries /\ Call("lease", Mine(p)) \in Entries
        /\ Call("push", Mine(p)) \in Entries
    BY <2>1, EntriesAre DEF Ops
  <2> QED  BY <1>14, <2>2, SeqsOfEntries DEF TypedStep, PollWaiting
<1> QED
  BY <1>1, <1>2, <1>3, <1>4, <1>5, <1>6, <1>7, <1>8, <1>9, <1>10, <1>11, <1>12, <1>13, <1>14,
     <1>15, Zenon DEF Run

LEMMA StartStepTyped ==
  ASSUME NEW p \in Threads, NEW o \in Orders, Start(p, o)
  PROVE  TypedStep(p)
<1>1. /\ Call("enqueue", o) \in Entries /\ Call("cancel", o) \in Entries
      /\ Call("cancelInQueue", o) \in Entries
      /\ Call("advance", NoOrder) \in Entries /\ Call("check", NoOrder) \in Entries
      /\ Call("pollActive", o) \in Entries /\ Call("tokenTurn", o) \in Entries
      /\ Call("unqueue", o) \in Entries /\ Call("markPaid", o) \in Entries
  BY EntriesAre DEF Ops, Nameless
<1> QED
  BY <1>1, SeqsOfEntries
     DEF TypedStep, Start, CreateOrder, PollStatus, CreatePaymentToken, CancelOrderInQueue, Notify

\* What a sweep puts in the worker's list: one cancellation for every order it found.
LEMMA SweepCalls ==
  ASSUME NEW found \in SetToSeqs(Expired)
  PROVE  /\ [i \in 1..Len(found) |-> Call("cancel", found[i])] \in Seq(Entries)
         /\ Len([i \in 1..Len(found) |-> Call("cancel", found[i])]) = Len(found)
         /\ Len(found) \in Nat
         /\ \A i \in 1..Len(found) : found[i] \in Expired
<1>1. Cardinality(Expired) \in Nat
  BY QueueAssumption, FS_Subset, FS_CardinalityType DEF QueueAssumption, Expired
<1>2. found \in [1..Cardinality(Expired) -> Expired]
  BY DEF SetToSeqs
<1>3. Len(found) \in Nat /\ \A i \in 1..Len(found) : found[i] \in Expired
  BY <1>1, <1>2
<1>4. \A i \in 1..Len(found) : Call("cancel", found[i]) \in Entries
  BY <1>3, EntriesAre DEF Ops, Expired
<1> QED
  BY <1>3, <1>4

LEMMA SweepStepTyped ==
  ASSUME Sweep
  PROVE  TypedStep(Worker)
  BY SweepCalls DEF Sweep, TypedStep

\* The commands to Redis and PostgreSQL, one by one.
LEMMA RunDataTyped ==
  ASSUME TypeInv, NEW p \in Threads, Run(p)
  PROVE  DataTyped'
<1> USE DEF TypeInv, DataTyped
<1>0. \A op \in Ops \ Nameless : At(p, op) => Mine(p) \in Orders
  BY HeadTyped
<1>1. CASE Push(p)
  <2>1. Mine(p) \in Orders
    BY <1>0, <1>1 DEF Push, Ops, Nameless
  <2> QED  BY <1>1, <2>1 DEF Push, orderVars
<1>2. CASE DueLine(p) \/ DueTurn(p)
  BY <1>2 DEF DueLine, DueTurn, queueVars
<1>3. CASE Claim(p)
  <2>1. Mine(p) \in Orders
    BY <1>0, <1>3 DEF Claim, Ops, Nameless
  <2> QED  BY <1>3, <2>1 DEF Claim, orderVars
<1>4. CASE Lease(p)
  BY <1>4 DEF Lease, orderVars
<1>5. CASE Advance(p)
  <2>1. waiting # <<>> => Tail(waiting) \in Seq(Orders)
    OBVIOUS
  <2> QED  BY <1>5, <2>1 DEF Advance, orderVars
<1>6. CASE Delete(p)
  BY <1>6 DEF Delete, orderVars
<1>7. CASE Cancel(p) \/ CancelFails(p)
  <2>1. status' \in [Orders -> Statuses] /\ stranded' \subseteq Orders
    BY <1>7 DEF Cancel, CancelFails, Live, Statuses
  <2> QED  BY <1>7, <2>1 DEF Cancel, CancelFails, queueVars
<1>8. CASE Release(p)
  BY <1>8, QueueAssumption DEF Release, queueVars, QueueAssumption, MaxFree
<1>9. CASE LeaveLine(p)
  BY <1>9, WithoutIsLREM DEF LeaveLine, orderVars
<1>10. CASE MarkPaid(p) \/ MarkPaidFails(p)
  <2>1. status' \in [Orders -> Statuses] /\ stranded' \subseteq Orders
    BY <1>10 DEF MarkPaid, MarkPaidFails, Statuses
  <2> QED  BY <1>10, <2>1 DEF MarkPaid, MarkPaidFails, queueVars
<1>11. CASE Issue(p)
  <2>1. Mine(p) \in Orders
    BY <1>0, <1>11 DEF Issue, Ops, Nameless
  <2>2. tickets' \in [Orders -> 0..MaxTickets]
    BY <1>11, <2>1 DEF Issue, MaxTickets
  <2> QED  BY <1>11, <2>2 DEF Issue, queueVars
<1>12. CASE TokenTurn(p)
  BY <1>12 DEF TokenTurn, queueVars, orderVars
<1>13. CASE \/ Enqueue(p) \/ EnqueueBehind(p) \/ Promote(p) \/ Check(p) \/ CheckWaiting(p)
            \/ CheckLease(p) \/ Unqueue(p) \/ PollActive(p) \/ PollLease(p) \/ PollWaiting(p)
  <2>1. UNCHANGED <<queueVars, orderVars, money>>
    BY <1>13 DEF Enqueue, EnqueueBehind, Promote, Check, CheckWaiting, CheckLease, Unqueue,
                 PollActive, PollLease, PollWaiting
  <2> QED  BY <2>1 DEF queueVars, orderVars
<1> QED
  BY <1>1, <1>2, <1>3, <1>4, <1>5, <1>6, <1>7, <1>8, <1>9, <1>10, <1>11, <1>12, <1>13,
     Zenon DEF Run

LEMMA NextTyped == TypeInv /\ [Next]_vars => TypeInv'
<1> SUFFICES ASSUME TypeInv, [Next]_vars PROVE TypeInv'
  OBVIOUS
<1>1. ASSUME NEW p \in Threads, Run(p) PROVE TypeInv'
  BY <1>1, RunStepTyped, RunDataTyped, ThenTyped DEF TypeInv
<1>2. ASSUME NEW p \in Threads, NEW o \in Orders, Start(p, o) PROVE TypeInv'
  <2>1. CASE CreateOrder(p, o)
    <3>1. DataTyped'
      BY <2>1, QueueAssumption
         DEF CreateOrder, TypeInv, DataTyped, queueVars, Statuses, MaxFree, QueueAssumption
    <3> QED  BY <1>2, <3>1, StartStepTyped, ThenTyped DEF TypeInv
  <2>2. CASE ~CreateOrder(p, o)
    <3>1. /\ UNCHANGED <<queueVars, status, deadline, free, tickets, stranded, money>>
          /\ unasked' \in {unasked, unasked \cup {o}}
      BY <1>2, <2>2 DEF Start, PollStatus, CreatePaymentToken, CancelOrderInQueue, Notify, orderVars
    <3>2. DataTyped'
      BY <3>1 DEF TypeInv, DataTyped, queueVars
    <3> QED  BY <1>2, <3>2, StartStepTyped, ThenTyped DEF TypeInv
  <2> QED  BY <2>1, <2>2
<1>3. CASE Sweep
  <2>1. DataTyped'
    BY <1>3 DEF Sweep, TypeInv, DataTyped, queueVars, orderVars
  <2> QED
    BY <1>3, <2>1, SweepStepTyped, ThenTyped, QueueAssumption DEF TypeInv, QueueAssumption
<1>4. ASSUME NEW o \in Orders, OrderLapses(o) PROVE TypeInv'
  BY <1>4 DEF OrderLapses, TypeInv, DataTyped, TodoTyped, queueVars
<1>5. ASSUME NEW o \in Orders, Midtrans(o) PROVE TypeInv'
  BY <1>5 DEF Midtrans, TypeInv, DataTyped, TodoTyped, queueVars, orderVars
<1>6. CASE LeaseLapses
  BY <1>6 DEF LeaseLapses, TypeInv, DataTyped, TodoTyped, orderVars
<1>7. CASE UNCHANGED vars
  BY <1>7 DEF vars, TypeInv, DataTyped, TodoTyped, queueVars, orderVars
<1> QED
  BY <1>1, <1>2, <1>3, <1>4, <1>5, <1>6, <1>7, Zenon DEF Next

LEMMA InitTyped == Init => TypeInv
  BY QueueAssumption
     DEF Init, TypeInv, DataTyped, TodoTyped, Statuses, MaxFree, MaxTickets, QueueAssumption

\* order_service.go and queue_service.go: every row, every key and every call a goroutine
\* has still to make is of its type, whatever goroutines run together.
THEOREM QueueTyped == Spec => []TypeOK
<1>1. TypeInv => TypeOK
  <2> SUFFICES ASSUME TypeInv PROVE TypeOK
    OBVIOUS
  <2>1. Entries \subseteq Calls
    BY DEF Entries
  <2>2. \A p \in Threads : todo[p] \in Seq(Calls)
    BY <2>1 DEF TypeInv, TodoTyped
  <2>3. todo \in [Threads -> Seq(Calls)]
    BY <2>2 DEF TypeInv, TodoTyped
  <2> QED  BY <2>3 DEF TypeInv, DataTyped, TypeOK, Statuses
<1> QED
  BY InitTyped, NextTyped, <1>1, PTL DEF Spec

=============================================================================
