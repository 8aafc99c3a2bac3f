-------------------------- MODULE SettlementProofs --------------------------
(***************************************************************************)
(* What the consumers of payments and orders promise, for any number of    *)
(* orders, messages and sessions.                                          *)
(***************************************************************************)
EXTENDS Settlement, SequenceTheorems, TLAPS

Message == [order : Orders, outcome : Outcomes]
Waiting(o) == [order |-> o, outcome |-> "waiting"]

\* The logs, the offsets and what the goroutines hold of them: a claim works on the
\* message after its position, and what is behind the position or the offset at the
\* broker waits no more.
Offsets ==
    /\ log \in [Topics -> Seq(Message)]
    /\ pos \in [Topics -> Nat] /\ marked \in [Topics -> Nat] /\ committed \in [Topics -> Nat]
    /\ up \subseteq Groups
    /\ run \in [Procs -> [pc : PC, order : Orders \cup {NoOrder}]]
    /\ \A t \in Topics :
        /\ pos[t] <= Len(log[t]) /\ marked[t] <= pos[t] /\ committed[t] <= Len(log[t])
        /\ ~ At(t, "idle") => /\ GroupOf[t] \in up
                              /\ pos[t] < Len(log[t])
                              /\ log[t][pos[t] + 1].order = Order(t)
        /\ \A i \in 1 .. Len(log[t]) :
              i <= pos[t] \/ i <= committed[t] => log[t][i].outcome # "waiting"
    /\ \A p \in Procs : ~ At(p, "idle") => Order(p) \in Orders
    /\ run["order.cancelled"].pc \in {"idle", "expire"}

\* A cancellation of the order was handled.
Cancelled(o) ==
    \E i \in DOMAIN log["order.cancelled"] :
        log["order.cancelled"][i] = [order |-> o, outcome |-> "done"]

\* A log only ever grows by messages that wait.
Grows(l) ==
    /\ l \in [Topics -> Seq(Message)]
    /\ \A t \in Topics :
        /\ Len(log[t]) <= Len(l[t])
        /\ \A i \in 1 .. Len(log[t]) : l[t][i] = log[t][i]
        /\ \A i \in 1 .. Len(l[t]) : i > Len(log[t]) => l[t][i].outcome = "waiting"

LEMMA TopicGroups ==
    /\ \A g \in Groups : \A t \in TopicsOf[g] : t \in Topics /\ GroupOf[t] = g
    /\ \A t \in Topics : GroupOf[t] \in Groups /\ t \in TopicsOf[GroupOf[t]]
  <1>1. TopicsOf["ticket-service"] = {"payment.success", "payment.failed"}
    BY DEF TopicsOf, Groups
  <1>2. TopicsOf["payment-service"] = {"order.created", "order.cancelled"}
    BY DEF TopicsOf, Groups
  <1>3. \A g \in Groups : \A t \in TopicsOf[g] : t \in Topics
    BY DEF Topics
  <1>4. \A t \in Topics : \E g \in Groups : t \in TopicsOf[g]
    BY DEF Topics
  <1>5. \A g, h \in Groups : \A t \in TopicsOf[g] : t \in TopicsOf[h] => g = h
    BY <1>1, <1>2 DEF Groups
  <1>6. \A t \in Topics : GroupOf[t] = CHOOSE g \in Groups : t \in TopicsOf[g]
    BY DEF GroupOf
  <1>7. ASSUME NEW t \in Topics
        PROVE  GroupOf[t] \in Groups /\ t \in TopicsOf[GroupOf[t]]
    BY <1>4, <1>6, Zenon
  <1> QED  BY <1>3, <1>5, <1>7

LEMMA TopicNames ==
    Topics = {"payment.success", "payment.failed", "order.created", "order.cancelled"}
  <1>1. TopicsOf["ticket-service"] = {"payment.success", "payment.failed"}
    BY DEF TopicsOf, Groups
  <1>2. TopicsOf["payment-service"] = {"order.created", "order.cancelled"}
    BY DEF TopicsOf, Groups
  <1>3. Topics = TopicsOf["ticket-service"] \cup TopicsOf["payment-service"]
    BY DEF Topics, Groups
  <1> QED  BY <1>1, <1>2, <1>3

LEMMA SameGrows == Offsets => Grows(log)
  BY LenProperties DEF Offsets, Grows

LEMMA AppendGrows ==
    ASSUME Offsets, NEW t \in Topics, NEW o \in Orders
    PROVE  Grows([log EXCEPT ![t] = Append(@, Waiting(o))])
  <1> DEFINE l == [log EXCEPT ![t] = Append(@, Waiting(o))]
  <1>1. Waiting(o) \in Message /\ log[t] \in Seq(Message)
    BY DEF Offsets, Message, Waiting, Outcomes
  <1>2. /\ Append(log[t], Waiting(o)) \in Seq(Message)
        /\ Len(Append(log[t], Waiting(o))) = Len(log[t]) + 1
        /\ \A i \in 1 .. Len(log[t]) : Append(log[t], Waiting(o))[i] = log[t][i]
        /\ Append(log[t], Waiting(o))[Len(log[t]) + 1] = Waiting(o)
    BY <1>1, AppendProperties
  <1>3. /\ l[t] = Append(log[t], Waiting(o))
        /\ \A s \in Topics \ {t} : l[s] = log[s]
        /\ l \in [Topics -> Seq(Message)]
    BY <1>2 DEF Offsets
  <1>4. \A s \in Topics : Len(log[s]) \in Nat
    BY LenProperties DEF Offsets
  <1>5. ASSUME NEW s \in Topics
        PROVE  /\ Len(log[s]) <= Len(l[s])
               /\ \A i \in 1 .. Len(log[s]) : l[s][i] = log[s][i]
               /\ \A i \in 1 .. Len(l[s]) : i > Len(log[s]) => l[s][i].outcome = "waiting"
    <2>1. CASE s = t
      <3> HIDE DEF l
      <3> QED  BY <1>2, <1>3, <1>4, <2>1 DEF Waiting
    <2>2. CASE s # t
      <3> HIDE DEF l
      <3> QED  BY <1>3, <1>4, <2>2
    <2> QED  BY <2>1, <2>2
  <1> QED  BY <1>3, <1>5 DEF Grows

\* A step that handles no message, and takes none for a consumer.
LEMMA MoveOffsets ==
    ASSUME Offsets, Grows(log'), UNCHANGED offsetVars, up' = up,
           run' \in [Procs -> [pc : PC, order : Orders \cup {NoOrder}]],
           run'["order.cancelled"].pc \in {"idle", "expire"},
           \A q \in Procs : ~ At(q, "idle")' =>
              \/ ~ At(q, "idle") /\ Order(q)' = Order(q)
              \/ q \notin Topics /\ Order(q)' \in Orders
    PROVE  Offsets' /\ \A o \in Orders : Cancelled(o)' => Cancelled(o)
  <1>1. Topics \subseteq Procs /\ "order.cancelled" \in Topics
    BY TopicNames DEF Procs
  <1>2. \A t \in Topics : /\ Len(log[t]) \in Nat /\ Len(log'[t]) \in Nat
                          /\ DOMAIN log[t] = 1 .. Len(log[t]) /\ DOMAIN log'[t] = 1 .. Len(log'[t])
    BY LenProperties DEF Offsets, Grows
  <1>3. ASSUME NEW t \in Topics, NEW i \in 1 .. Len(log'[t]), i <= pos[t] \/ i <= committed[t]
        PROVE  log'[t][i].outcome # "waiting"
    <2>1. i \in 1 .. Len(log[t])
      BY <1>2, <1>3 DEF Offsets
    <2> QED  BY <1>3, <2>1 DEF Offsets, Grows
  <1>4. ASSUME NEW t \in Topics, ~ At(t, "idle")'
        PROVE  GroupOf[t] \in up /\ pos[t] < Len(log'[t]) /\ log'[t][pos[t] + 1].order = Order(t)'
    <2>1. ~ At(t, "idle") /\ Order(t)' = Order(t)
      BY <1>1, <1>4
    <2>2. GroupOf[t] \in up /\ pos[t] + 1 \in 1 .. Len(log[t]) /\ pos[t] < Len(log[t])
          /\ log[t][pos[t] + 1].order = Order(t)
      BY <1>2, <2>1 DEF Offsets
    <2>3. log'[t][pos[t] + 1] = log[t][pos[t] + 1] /\ Len(log[t]) <= Len(log'[t])
      BY <2>2 DEF Grows
    <2> QED  BY <1>2, <2>1, <2>2, <2>3 DEF Offsets
  <1>5. \A t \in Topics : pos[t] <= Len(log'[t]) /\ committed[t] <= Len(log'[t])
    BY <1>2 DEF Offsets, Grows
  <1>6. \A q \in Procs : ~ At(q, "idle")' => Order(q)' \in Orders
    BY DEF Offsets
  <1>7. pos' = pos /\ marked' = marked /\ committed' = committed
    BY DEF offsetVars
  <1>8. Offsets'
    BY <1>3, <1>4, <1>5, <1>6, <1>7 DEF Offsets, Grows
  <1>9. ASSUME NEW o \in Orders, Cancelled(o)' PROVE Cancelled(o)
    <2>1. PICK i \in DOMAIN log'["order.cancelled"] :
            log'["order.cancelled"][i] = [order |-> o, outcome |-> "done"]
      BY <1>9 DEF Cancelled
    <2>2. i \in 1 .. Len(log["order.cancelled"])
      BY <1>1, <1>2, <2>1 DEF Grows
    <2> QED  BY <1>1, <1>2, <2>1, <2>2 DEF Grows, Cancelled
  <1> QED  BY <1>8, <1>9

\* Another message is handled: the message after the position, and nothing else, gets
\* an outcome that is not "waiting".
LEMMA EndOffsets ==
    ASSUME Offsets, NEW p \in Procs, ~ At(p, "idle"), NEW result \in {"done", "failed"},
           NEW l, Grows(l), EndWith(p, result, l), up' = up
    PROVE  /\ Offsets'
           /\ \A o \in Orders : Cancelled(o)' =>
                Cancelled(o) \/ (p = "order.cancelled" /\ result = "done" /\ o = Order(p))
  <1>1. /\ run' = [run EXCEPT ![p] = Idle]
        /\ Idle \in [pc : PC, order : Orders \cup {NoOrder}]
        /\ "order.cancelled" \in Topics /\ Topics \subseteq Procs
    BY TopicNames DEF EndWith, Idle, PC, Procs
  <1>2. \A t \in Topics : /\ Len(log[t]) \in Nat /\ Len(l[t]) \in Nat
                          /\ l[t] \in Seq(Message) /\ log[t] \in Seq(Message)
                          /\ DOMAIN l[t] = 1 .. Len(l[t]) /\ DOMAIN log[t] = 1 .. Len(log[t])
    BY LenProperties DEF Offsets, Grows
  <1>3. CASE p \notin Topics
    <2>1. log' = l /\ UNCHANGED offsetVars
      BY <1>3 DEF EndWith
    <2>2. /\ run' \in [Procs -> [pc : PC, order : Orders \cup {NoOrder}]]
          /\ run'["order.cancelled"].pc \in {"idle", "expire"}
          /\ \A q \in Procs : ~ At(q, "idle")' => ~ At(q, "idle") /\ Order(q)' = Order(q)
      BY <1>1 DEF Offsets, At, Order, Idle
    <2> QED  BY <2>1, <2>2, MoveOffsets
  <1>4. CASE p \in Topics
    <2> DEFINE n == pos[p] + 1
               new == Became(l[p][n].outcome, result)
               m == [l[p][n] EXCEPT !.outcome = new]
    <2>1. /\ log' = [l EXCEPT ![p][n].outcome = Became(@, result)]
          /\ pos' = [pos EXCEPT ![p] = @ + 1]
          /\ marked' = IF result = "done" THEN [marked EXCEPT ![p] = pos[p] + 1] ELSE marked
          /\ UNCHANGED committed
      BY <1>4 DEF EndWith, Handled
    <2>2. n \in 1 .. Len(log[p]) /\ n \in 1 .. Len(l[p]) /\ l[p][n] = log[p][n]
          /\ log[p][n].order = Order(p) /\ l[p][n] \in Message
      BY <1>2, <1>4, ElementOfSeq DEF Offsets, Grows
    <2>3. new \in {"done", "failed"} /\ (new = "done" => l[p][n].outcome = "done" \/ result = "done")
      BY DEF Became
    <2>4. m \in Message /\ m.outcome = new /\ m.order = Order(p)
      BY <2>2, <2>3 DEF Message, Outcomes
    <2>5. log' = [l EXCEPT ![p] = [l[p] EXCEPT ![n] = m]]
      BY <2>1
    <2>6. /\ [l[p] EXCEPT ![n] = m] \in Seq(Message)
          /\ Len([l[p] EXCEPT ![n] = m]) = Len(l[p])
          /\ \A j \in 1 .. Len(l[p]) : [l[p] EXCEPT ![n] = m][j] = IF j = n THEN m ELSE l[p][j]
      BY <1>2, <1>4, <2>2, <2>4, ExceptSeq
    <2> HIDE DEF m, new
    <2>7. /\ log' \in [Topics -> Seq(Message)]
          /\ \A t \in Topics : Len(log'[t]) = Len(l[t])
          /\ \A t \in Topics : \A j \in 1 .. Len(l[t]) :
                log'[t][j] = IF t = p /\ j = n THEN m ELSE l[t][j]
      BY <1>4, <2>5, <2>6 DEF Grows
    <2>8. Offsets'
      <3>1. \A t \in Topics : /\ pos'[t] = IF t = p THEN n ELSE pos[t]
                              /\ marked'[t] <= pos'[t]
                              /\ pos'[t] <= Len(l[t])
        BY <1>2, <2>1, <2>2 DEF Offsets, Grows
      <3>2. pos' \in [Topics -> Nat] /\ marked' \in [Topics -> Nat]
        BY <1>2, <1>4, <2>1, <2>2 DEF Offsets
      <3>3. /\ run' \in [Procs -> [pc : PC, order : Orders \cup {NoOrder}]]
            /\ At(p, "idle")' /\ \A q \in Procs \ {p} : run'[q] = run[q]
        BY <1>1 DEF Offsets, At, Idle
      <3>4. ASSUME NEW t \in Topics, NEW i \in 1 .. Len(log'[t]),
                   i <= pos'[t] \/ i <= committed'[t]
            PROVE  log'[t][i].outcome # "waiting"
        <4>1. i \in 1 .. Len(l[t])
          BY <2>7
        <4>2. CASE t = p /\ i = n
          BY <2>3, <2>4, <2>7, <4>1, <4>2
        <4>3. CASE ~ (t = p /\ i = n)
          <5>1. log'[t][i] = l[t][i]
            BY <2>7, <4>1, <4>3
          <5>2. i \in 1 .. Len(log[t]) /\ (i <= pos[t] \/ i <= committed[t])
            BY <1>2, <2>1, <2>2, <3>1, <3>4, <4>1, <4>3 DEF Offsets
          <5>3. log[t][i].outcome # "waiting" /\ l[t][i] = log[t][i]
            BY <5>2 DEF Offsets, Grows
          <5> QED  BY <5>1, <5>3
        <4> QED  BY <4>2, <4>3
      <3>5. ASSUME NEW t \in Topics, ~ At(t, "idle")'
            PROVE  /\ GroupOf[t] \in up' /\ pos'[t] < Len(log'[t])
                   /\ log'[t][pos'[t] + 1].order = Order(t)'
        <4>1. t # p /\ run'[t] = run[t] /\ pos'[t] = pos[t]
          BY <1>1, <3>1, <3>3, <3>5
        <4>2. ~ At(t, "idle")
          BY <3>5, <4>1 DEF At
        <4>3. pos[t] + 1 \in 1 .. Len(log[t]) /\ GroupOf[t] \in up
              /\ log[t][pos[t] + 1].order = Order(t)
          BY <1>2, <4>2 DEF Offsets
        <4>4. pos[t] + 1 \in 1 .. Len(l[t]) /\ l[t][pos[t] + 1] = log[t][pos[t] + 1]
          BY <1>2, <4>3 DEF Grows
        <4>5. log'[t][pos[t] + 1] = log[t][pos[t] + 1] /\ pos[t] < Len(l[t]) /\ Len(log'[t]) = Len(l[t])
          BY <1>2, <2>7, <4>1, <4>4 DEF Offsets
        <4> QED  BY <4>1, <4>3, <4>5 DEF Order
      <3>6. \A q \in Procs : ~ At(q, "idle")' => Order(q)' \in Orders
        BY <3>3 DEF Offsets, At, Order
      <3>7. run'["order.cancelled"].pc \in {"idle", "expire"}
        BY <1>1, <3>3 DEF Offsets, At
      <3>8. \A t \in Topics : committed'[t] <= Len(log'[t])
        BY <1>2, <2>1, <2>7 DEF Offsets, Grows
      <3> QED
        BY <2>1, <2>7, <3>1, <3>2, <3>3, <3>4, <3>5, <3>6, <3>7, <3>8 DEF Offsets
    <2>9. ASSUME NEW o \in Orders, Cancelled(o)'
          PROVE  Cancelled(o) \/ (p = "order.cancelled" /\ result = "done" /\ o = Order(p))
      <3> DEFINE c == "order.cancelled"
      <3>1. PICK i \in 1 .. Len(l[c]) : log'[c][i] = [order |-> o, outcome |-> "done"]
        <4>1. DOMAIN log'[c] = 1 .. Len(l[c])
          BY <1>1, <2>7, LenProperties
        <4> QED  BY <2>9, <4>1 DEF Cancelled
      <3>2. CASE c = p /\ i = n
        <4>1. m.outcome = "done" /\ m.order = o
          BY <1>1, <2>7, <3>1, <3>2
        <4>2. CASE result = "done"
          BY <2>4, <3>2, <4>1, <4>2
        <4>3. CASE log[c][n].outcome = "done"
          <5>1. log[c][n] = [order |-> o, outcome |-> "done"]
            BY <2>2, <2>4, <3>2, <4>1, <4>3 DEF Message
          <5> QED  BY <1>1, <1>2, <2>2, <3>2, <5>1 DEF Cancelled
        <4> QED  BY <2>2, <2>3, <2>4, <3>2, <4>1, <4>2, <4>3
      <3>3. CASE ~ (c = p /\ i = n)
        <4>1. l[c][i] = [order |-> o, outcome |-> "done"]
          BY <1>1, <2>7, <3>1, <3>3
        <4>2. i \in 1 .. Len(log[c])
          BY <1>1, <1>2, <4>1 DEF Grows
        <4> QED  BY <1>1, <1>2, <4>1, <4>2 DEF Grows, Cancelled
      <3> QED  BY <3>2, <3>3
    <2> QED  BY <2>8, <2>9
  <1> QED  BY <1>3, <1>4

-----------------------------------------------------------------------------
(* The steps, one kind at a time.                                          *)

LEMMA InitOffsets == Init => Offsets
  <1> SUFFICES ASSUME Init PROVE Offsets
    OBVIOUS
  <1>1. \A t \in Topics : log[t] = <<>> /\ Len(log[t]) = 0
    BY DEF Init
  <1>2. log \in [Topics -> Seq(Message)]
    BY DEF Init
  <1>3. \A q \in Procs : run[q] = Idle
    BY DEF Init
  <1>4. "order.cancelled" \in Procs /\ Topics \subseteq Procs
    BY TopicNames DEF Procs
  <1> QED  BY <1>1, <1>2, <1>3, <1>4 DEF Init, Offsets, At, Idle, PC, Groups

\* The goroutines end their messages, or go on with them.
LEMMA HandleOffsets ==
    ASSUME Offsets, NEW p \in Procs, Handle(p)
    PROVE  Offsets' /\ \A o \in Orders : Cancelled(o)' => Cancelled(o)
  <1>1. "order.cancelled" \in Procs /\ Topics \subseteq Procs /\ Grows(log)
    BY TopicNames, SameGrows DEF Procs
  <1>2. CASE \E result \in {"done", "failed"} :
               /\ run[p].pc \in {"read", "pay", "items", "cancel", "release"}
               /\ End(p, result) /\ up' = up
    <2>1. PICK result \in {"done", "failed"} :
            /\ run[p].pc \in {"read", "pay", "items", "cancel", "release"}
            /\ EndWith(p, result, log) /\ up' = up
      BY <1>2 DEF End
    <2>2. ~ At(p, "idle") /\ p # "order.cancelled"
      BY <2>1 DEF Offsets, At
    <2> QED  BY <1>1, <2>1, <2>2, EndOffsets
  <1>3. CASE GetOrder(p) \/ MarkPaid(p) \/ CancelOrder(p)
    <2>1. /\ log' = log /\ UNCHANGED offsetVars /\ up' = up
          /\ run[p].pc \in {"read", "pay", "cancel"}
          /\ run' \in [Procs -> [pc : PC, order : Orders \cup {NoOrder}]]
          /\ \A q \in Procs \ {p} : run'[q] = run[q]
          /\ run'[p].order = run[p].order
      <3>1. /\ log' = log /\ UNCHANGED offsetVars /\ up' = up
            /\ run[p].pc \in {"read", "pay", "cancel"}
            /\ \E where \in {"pay", "items", "release"} : Goto(p, where)
        BY <1>3 DEF GetOrder, MarkPaid, CancelOrder, At
      <3> QED  BY <3>1 DEF Goto, Offsets, PC
    <2>2. p # "order.cancelled" /\ run'["order.cancelled"].pc \in {"idle", "expire"}
      BY <1>1, <2>1 DEF Offsets
    <2>3. \A q \in Procs : ~ At(q, "idle")' => ~ At(q, "idle") /\ Order(q)' = Order(q)
      BY <2>1 DEF At, Order
    <2> QED  BY <1>1, <2>1, <2>2, <2>3, MoveOffsets
  <1>4. ASSUME NEW sent \in BOOLEAN, CancelAnnounced(p, sent)
        PROVE  Offsets' /\ \A o \in Orders : Cancelled(o)' => Cancelled(o)
    <2>1. At(p, "release") /\ up' = up
      BY <1>4 DEF CancelAnnounced
    <2>2. ~ At(p, "idle") /\ p # "order.cancelled" /\ Order(p) \in Orders
      BY <2>1 DEF Offsets, At
    <2>3. CASE sent
      <3> DEFINE l == [log EXCEPT !["order.cancelled"] = Append(@, Waiting(Order(p)))]
      <3>1. Grows(l)
        BY <2>2, TopicNames, AppendGrows
      <3>2. EndWith(p, "done", l)
        BY <1>4, <2>3 DEF CancelAnnounced, Waiting
      <3> HIDE DEF l
      <3> QED  BY <2>1, <2>2, <3>1, <3>2, EndOffsets
    <2>4. CASE ~ sent
      <3>1. EndWith(p, "done", log)
        BY <1>4, <2>4 DEF CancelAnnounced
      <3> QED  BY <1>1, <2>1, <2>2, <3>1, EndOffsets
    <2> QED  BY <2>3, <2>4
  <1>5. AlreadyProcessed(p) \/ PaymentFails(p) \/ ListOrderItemsFails(p) \/ CreateTicket(p)
          \/ CreateTicketFails(p) \/ CancelFails(p)
        => \E result \in {"done", "failed"} :
              /\ run[p].pc \in {"read", "pay", "items", "cancel", "release"}
              /\ End(p, result) /\ up' = up
    BY DEF AlreadyProcessed, PaymentFails, ListOrderItemsFails, CreateTicket,
           CreateTicketFails, CancelFails, At
  <1> QED  BY <1>2, <1>3, <1>4, <1>5, Zenon DEF Handle

\* The claims: a message is taken, or its payment is seen to, or an offset committed.
LEMMA ConsumeOffsets ==
    ASSUME Offsets, NEW t \in Topics, Consume(t)
    PROVE  /\ Offsets'
           /\ \A o \in Orders : Cancelled(o)' =>
                Cancelled(o) \/ (t = "order.cancelled" /\ At(t, "expire") /\ o = Order(t))
  <1>1. t \in Procs /\ "order.cancelled" \in Topics /\ Topics \subseteq Procs /\ Grows(log)
    BY TopicNames, SameGrows DEF Procs
  <1>2. \A s \in Topics : Len(log[s]) \in Nat
    BY LenProperties DEF Offsets
  <1>3. CASE Take(t)
    <2> DEFINE o == log[t][pos[t] + 1].order
    <2>1. /\ run' = [run EXCEPT ![t] = [pc |-> FirstStep[t], order |-> o]]
          /\ GroupOf[t] \in up /\ pos[t] < Len(log[t])
          /\ UNCHANGED <<log, pos, marked, committed, up>>
      BY <1>3 DEF Take, Ready, offsetVars
    <2>2. o \in Orders
      <3>1. pos[t] + 1 \in 1 .. Len(log[t])
        BY <1>2, <2>1 DEF Offsets
      <3>2. log[t] \in Seq(Message)
        BY DEF Offsets
      <3>3. log[t][pos[t] + 1] \in Message
        BY <3>1, <3>2, ElementOfSeq
      <3> QED  BY <3>3 DEF Message
    <2>3. FirstStep[t] \in PC /\ (t = "order.cancelled" => FirstStep[t] = "expire")
      BY TopicNames DEF FirstStep, PC
    <2>4. Offsets'
      BY <1>1, <2>1, <2>2, <2>3 DEF Offsets, At, Order
    <2> QED  BY <2>1, <2>4 DEF Cancelled
  <1>4. CASE Commit(t)
    <2>1. /\ committed' = [committed EXCEPT ![t] = marked[t]]
          /\ UNCHANGED <<log, pos, marked, up, run>>
      BY <1>4 DEF Commit
    <2>2. marked[t] <= Len(log[t])
      BY <1>2 DEF Offsets
    <2>3. Offsets'
      BY <1>2, <2>1, <2>2 DEF Offsets, At, Order
    <2> QED  BY <2>1, <2>3 DEF Cancelled
  <1>5. CASE /\ ~ At(t, "idle") /\ End(t, "done") /\ up' = up
             /\ t = "order.cancelled" => At(t, "expire")
    BY <1>1, <1>5, EndOffsets DEF End
  <1>6. \/ CreatePaymentIntent(t) \/ CreatePaymentIntentFails(t)
        \/ HandleReferenceCancelled(t) \/ CancelledBefore(t)
        \/ \E failing \in BOOLEAN : ReferenceMissing(t, failing)
        => /\ ~ At(t, "idle") /\ End(t, "done") /\ up' = up
           /\ t = "order.cancelled" => At(t, "expire")
    BY DEF CreatePaymentIntent, CreatePaymentIntentFails, HandleReferenceCancelled,
           CancelledBefore, ReferenceMissing, At
  <1> QED  BY <1>3, <1>4, <1>5, <1>6, Zenon DEF Consume

\* A session ends, or starts where the offsets say.
LEMMA SessionOffsets ==
    ASSUME Offsets, NEW g \in Groups, SessionEnds(g) \/ SessionStarts(g)
    PROVE  Offsets' /\ \A o \in Orders : Cancelled(o)' => Cancelled(o)
  <1>1. "order.cancelled" \in Topics /\ Topics \subseteq Procs
    BY TopicNames DEF Procs
  <1>2. \A s \in Topics : Len(log[s]) \in Nat /\ DOMAIN log[s] = 1 .. Len(log[s])
    BY LenProperties DEF Offsets
  <1>3. CASE SessionEnds(g)
    <2>1. /\ up' = up \ {g}
          /\ run' = [p \in Procs |-> IF p \in TopicsOf[g] THEN Idle ELSE run[p]]
          /\ UNCHANGED <<log, pos, marked, committed>>
      BY <1>3 DEF SessionEnds, offsetVars
    <2>2. \A t \in Topics : ~ At(t, "idle")' => ~ At(t, "idle") /\ GroupOf[t] # g /\ run'[t] = run[t]
      BY <1>1, <2>1, TopicGroups DEF At, Idle
    <2>3. /\ run' \in [Procs -> [pc : PC, order : Orders \cup {NoOrder}]]
          /\ run'["order.cancelled"].pc \in {"idle", "expire"}
          /\ \A p \in Procs : ~ At(p, "idle")' => Order(p)' \in Orders
      BY <1>1, <2>1 DEF Offsets, At, Order, Idle, PC
    <2>4. Offsets'
      BY <2>1, <2>2, <2>3 DEF Offsets, Order
    <2> QED  BY <2>1, <2>4 DEF Cancelled
  <1>4. CASE SessionStarts(g)
    <2>1. /\ up' = up \cup {g} /\ g \notin up
          /\ pos' = [t \in Topics |-> IF t \in TopicsOf[g] THEN Start(t) ELSE pos[t]]
          /\ marked' = [t \in Topics |-> IF t \in TopicsOf[g] THEN committed[t] ELSE marked[t]]
          /\ log' = [t \in Topics |-> IF t \in TopicsOf[g] THEN Skip(t) ELSE log[t]]
          /\ UNCHANGED <<committed, run>>
      BY <1>4 DEF SessionStarts
    <2>2. ASSUME NEW t \in Topics
          PROVE  /\ Skip(t) \in Seq(Message) /\ Len(Skip(t)) = Len(log[t])
                 /\ \A i \in 1 .. Len(log[t]) :
                      /\ Skip(t)[i].order = log[t][i].order
                      /\ i <= Start(t) => Skip(t)[i].outcome # "waiting"
                      /\ Skip(t)[i] = log[t][i] \/ Skip(t)[i].outcome = "skipped"
      <3>1. Skip(t) = [i \in 1 .. Len(log[t]) |->
                          IF i <= Start(t) /\ log[t][i].outcome = "waiting"
                          THEN [log[t][i] EXCEPT !.outcome = "skipped"] ELSE log[t][i]]
        BY <1>2 DEF Skip
      <3>2. \A i \in 1 .. Len(log[t]) : log[t][i] \in Message
        BY ElementOfSeq DEF Offsets
      <3>3. ASSUME NEW i \in 1 .. Len(log[t])
            PROVE  /\ Skip(t)[i] \in Message
                   /\ Skip(t)[i].order = log[t][i].order
                   /\ i <= Start(t) => Skip(t)[i].outcome # "waiting"
                   /\ Skip(t)[i] = log[t][i] \/ Skip(t)[i].outcome = "skipped"
        BY <3>1, <3>2 DEF Message, Outcomes
      <3>4. Skip(t) \in [1 .. Len(log[t]) -> Message]
        BY <3>1, <3>3
      <3>5. Skip(t) \in Seq(Message)
        BY <1>2, <3>4, SeqDef
      <3>6. Len(Skip(t)) \in Nat /\ 1 .. Len(Skip(t)) = 1 .. Len(log[t])
        BY <3>1, <3>5, LenProperties
      <3>7. Len(Skip(t)) = Len(log[t])
        BY <1>2, <3>6
      <3> QED  BY <3>3, <3>5, <3>7
    <2>3. \A t \in Topics : Start(t) \in Nat /\ Start(t) <= Len(log[t]) /\ committed[t] <= Start(t)
      BY <1>2 DEF Start, Offsets
    <2> HIDE DEF Start, Skip
    <2>4. \A t \in Topics : IF t \in TopicsOf[g]
                            THEN log'[t] = Skip(t) /\ pos'[t] = Start(t) /\ marked'[t] = committed[t]
                            ELSE log'[t] = log[t] /\ pos'[t] = pos[t] /\ marked'[t] = marked[t]
      BY <2>1
    <2>5. /\ log' \in [Topics -> Seq(Message)]
          /\ pos' \in [Topics -> Nat] /\ marked' \in [Topics -> Nat]
      BY <2>1, <2>2, <2>3 DEF Offsets
    <2>6. \A t \in Topics : Len(log'[t]) = Len(log[t])
      BY <2>2, <2>4
    <2>7. \A t \in Topics : /\ pos'[t] <= Len(log'[t]) /\ marked'[t] <= pos'[t]
                            /\ committed[t] <= Len(log'[t])
      BY <2>3, <2>4, <2>6 DEF Offsets
    <2>8. ASSUME NEW t \in Topics, ~ At(t, "idle")'
          PROVE  /\ GroupOf[t] \in up' /\ pos'[t] < Len(log'[t])
                 /\ log'[t][pos'[t] + 1].order = Order(t)'
      <3>1. GroupOf[t] \in up /\ t \notin TopicsOf[g] /\ run' = run
        BY <2>1, <2>8, TopicGroups DEF Offsets, At
      <3> QED  BY <2>1, <2>4, <2>8, <3>1 DEF Offsets, At, Order
    <2>9. ASSUME NEW t \in Topics, NEW i \in 1 .. Len(log'[t]), i <= pos'[t] \/ i <= committed[t]
          PROVE  log'[t][i].outcome # "waiting"
      <3>1. CASE t \in TopicsOf[g]
        BY <1>2, <2>2, <2>3, <2>4, <2>6, <2>9, <3>1 DEF Offsets
      <3>2. CASE t \notin TopicsOf[g]
        BY <2>4, <2>6, <2>9, <3>2 DEF Offsets
      <3> QED  BY <3>1, <3>2
    <2>10. Offsets'
      BY <2>1, <2>5, <2>7, <2>8, <2>9 DEF Offsets, At, Order
    <2>11. ASSUME NEW o \in Orders, Cancelled(o)' PROVE Cancelled(o)
      <3> DEFINE c == "order.cancelled"
      <3>1. DOMAIN log'[c] = 1 .. Len(log'[c])
        BY <1>1, <2>5, LenProperties
      <3>2. PICK i \in 1 .. Len(log[c]) : log'[c][i] = [order |-> o, outcome |-> "done"]
        BY <1>1, <2>6, <2>11, <3>1 DEF Cancelled
      <3>3. log[c][i] = [order |-> o, outcome |-> "done"]
        BY <1>1, <2>2, <2>4, <3>2
      <3> QED  BY <1>1, <1>2, <3>3 DEF Cancelled
    <2> QED  BY <2>10, <2>11
  <1> QED  BY <1>3, <1>4

\* What is published waits, and neither a notification nor a cancellation is a
\* consumer's.
LEMMA SourceOffsets ==
    ASSUME Offsets, NEW o \in Orders, Source(o)
    PROVE  Offsets' /\ \A q \in Orders : Cancelled(q)' => Cancelled(q)
  <1>1. /\ "order.cancelled" \in Topics /\ Topics \subseteq Procs
        /\ "order.created" \in Topics /\ Grows(log)
        /\ \A c \in {"notification", "cancellation"} : c \in Procs /\ c \notin Topics
    BY TopicNames, SameGrows DEF Procs
  <1>2. \A t \in Topics : Publish(t, o) => Grows(log')
    BY AppendGrows DEF Publish, Waiting
  <1>3. CASE run' = run /\ UNCHANGED offsetVars /\ up' = up /\ Grows(log')
    <2>1. \A q \in Procs : ~ At(q, "idle")' => ~ At(q, "idle") /\ Order(q)' = Order(q)
      BY <1>3 DEF At, Order
    <2> QED  BY <1>3, <2>1, MoveOffsets DEF Offsets
  <1>4. CreateOrder(o) => run' = run /\ UNCHANGED offsetVars /\ up' = up /\ Grows(log')
    BY <1>1 DEF CreateOrder
  <1>5. ASSUME NEW sent \in BOOLEAN, AnnounceOrder(o, sent)
        PROVE  run' = run /\ UNCHANGED offsetVars /\ up' = up /\ Grows(log')
    BY <1>1, <1>2, <1>5 DEF AnnounceOrder
  <1>6. ASSUME NEW t \in Topics, ProviderPublishes(t, o)
        PROVE  run' = run /\ UNCHANGED offsetVars /\ up' = up /\ Grows(log')
    BY <1>2, <1>6 DEF ProviderPublishes
  <1>7. ASSUME Notify(o) \/ CallCancelOrder(o)
        PROVE  Offsets' /\ \A q \in Orders : Cancelled(q)' => Cancelled(q)
    <2>1. PICK c \in {"notification", "cancellation"}, first \in {"read", "cancel"} :
            /\ run' = [run EXCEPT ![c] = [pc |-> first, order |-> o]]
            /\ log' = log /\ UNCHANGED offsetVars /\ up' = up
      BY <1>7 DEF Notify, CallCancelOrder
    <2>2. /\ run' \in [Procs -> [pc : PC, order : Orders \cup {NoOrder}]]
          /\ run'["order.cancelled"].pc \in {"idle", "expire"}
          /\ \A q \in Procs : ~ At(q, "idle")' =>
                \/ ~ At(q, "idle") /\ Order(q)' = Order(q)
                \/ q \notin Topics /\ Order(q)' \in Orders
      BY <1>1, <2>1 DEF Offsets, At, Order, PC
    <2> QED  BY <1>1, <2>1, <2>2, MoveOffsets
  <1> QED  BY <1>3, <1>4, <1>5, <1>6, <1>7, Zenon DEF Source

LEMMA NextOffsets == Offsets /\ [Next]_vars => Offsets'
  <1>1. ASSUME Offsets, UNCHANGED vars PROVE Offsets'
    BY <1>1 DEF Offsets, vars, offsetVars, At, Order
  <1> QED
    BY <1>1, HandleOffsets, ConsumeOffsets, SessionOffsets, SourceOffsets DEF Next

\* No message is committed past that its handler has not seen, whatever sessions end in
\* between, but what a first session leaves out.
THEOREM CommittedHandled == Spec => []CommittedIsHandled
  <1>1. Offsets => CommittedIsHandled
    <2> SUFFICES ASSUME Offsets, NEW t \in Topics, NEW i \in 1 .. committed[t]
                 PROVE  log[t][i].outcome # "waiting"
      BY DEF CommittedIsHandled
    <2>1. i \in 1 .. Len(log[t]) /\ i <= committed[t]
      BY LenProperties DEF Offsets
    <2> QED  BY <2>1 DEF Offsets
  <1> QED  BY <1>1, InitOffsets, NextOffsets, PTL DEF Spec

-----------------------------------------------------------------------------
(* Orders, tickets and payments.                                           *)

Data ==
    /\ status \in [Orders -> {"none", "PENDING", "PAID", "CANCELLED"}]
    /\ unsent \subseteq {o \in Orders : status[o] # "none"}
    /\ tickets \in [Orders -> 0 .. TicketCap]
    /\ payments \in [Orders -> [pending : Nat, expired : Nat]]
    /\ sessions \in 0 .. MaxSessions
    /\ broken \subseteq Orders /\ again \subseteq Orders /\ astray \subseteq Orders

Issuing(p, o) == At(p, "items") /\ Order(p) = o
Settling(p, o) == (At(p, "pay") \/ At(p, "items")) /\ Order(p) = o

\* While no two handlers met on an order and it was not cancelled after it was paid:
\* one goroutine at most is settling it, before it has a ticket.
Settled ==
    \A o \in Orders \ again :
        /\ \A p, q \in Procs : Settling(p, o) /\ Settling(q, o) => p = q
        /\ \A p \in Procs : Settling(p, o) => tickets[o] = 0
        /\ \A p \in Procs : Issuing(p, o) => status[o] = "PAID"
        /\ tickets[o] # 0 => status[o] = "PAID"
        /\ tickets[o] <= 1

Issued ==
    \A o \in Orders :
        status[o] = "PAID" /\ (\A p \in Procs : ~ Issuing(p, o)) => tickets[o] >= 1 \/ o \in broken

\* An order whose payment met its messages in turn has one payment at most, and it is
\* no longer pending once the cancellation was handled.
InTurn ==
    \A o \in Orders \ astray :
        /\ payments[o].pending + payments[o].expired <= 1
        /\ Cancelled(o) => payments[o].pending = 0

LEMMA InitData == Init => Data /\ Settled /\ Issued /\ InTurn
  <1> SUFFICES ASSUME Init PROVE Data /\ Settled /\ Issued /\ InTurn
    OBVIOUS
  <1>1. Data
    BY SettlementAssumption DEF Init, Data, TicketCap
  <1>2. Settled /\ Issued
    BY DEF Init, Settled, Issued, Settling, Issuing, At, Idle
  <1>3. InTurn
    <2>1. \A o \in Orders : payments[o].pending + payments[o].expired <= 1
                            /\ payments[o].pending = 0
      BY DEF Init
    <2> QED  BY <2>1 DEF InTurn
  <1> QED  BY <1>1, <1>2, <1>3

\* A goroutine that has ended is no longer settling; the others are where they were.
LEMMA EndRun ==
    ASSUME Offsets, NEW p \in Procs, NEW result, NEW l, EndWith(p, result, l)
    PROVE  /\ \A o \in Orders : ~ Issuing(p, o)' /\ ~ Settling(p, o)'
           /\ \A q \in Procs \ {p}, o \in Orders :
                 Issuing(q, o)' = Issuing(q, o) /\ Settling(q, o)' = Settling(q, o)
  <1>1. run' = [run EXCEPT ![p] = Idle]
    BY DEF EndWith
  <1>2. run'[p].pc = "idle" /\ \A q \in Procs \ {p} : run'[q] = run[q]
    BY <1>1 DEF Offsets, Idle
  <1> QED  BY <1>2 DEF Issuing, Settling, At, Order

LEMMA GotoRun ==
    ASSUME Offsets, NEW p \in Procs, NEW where, Goto(p, where)
    PROVE  /\ run'[p].pc = where /\ run'[p].order = run[p].order
           /\ \A q \in Procs \ {p} : run'[q] = run[q]
  BY DEF Goto, Offsets

LEMMA HandleData ==
    ASSUME Offsets, Data, Settled, Issued, NEW p \in Procs, Handle(p)
    PROVE  Data' /\ Settled' /\ Issued'
  <1>1. CASE GetOrder(p)
    <2>1. /\ At(p, "read") /\ status[Order(p)] # "PAID"
          /\ again' = IF Overlaps(p) THEN again \cup {Order(p)} ELSE again
          /\ UNCHANGED <<status, unsent, tickets, payments, sessions, broken, astray>>
          /\ Order(p) \in Orders /\ Goto(p, "pay")
      BY <1>1 DEF GetOrder, orderVars, Offsets, At
    <2>2. run'[p].pc = "pay" /\ run'[p].order = run[p].order
          /\ \A q \in Procs \ {p} : run'[q] = run[q]
      BY <2>1, GotoRun
    <2>3. Data' /\ Issued'
      BY <2>1, <2>2 DEF Data, Issued, Issuing, At, Order
    <2>4. Settled'
      BY <2>1, <2>2 DEF Settled, Settling, Issuing, At, Order, Overlaps, Data
    <2> QED  BY <2>3, <2>4
  <1>2. CASE MarkPaid(p)
    <2>1. /\ At(p, "pay") /\ status' = [status EXCEPT ![Order(p)] = "PAID"]
          /\ UNCHANGED <<unsent, tickets, payments, sessions, broken, again, astray>>
          /\ Order(p) \in Orders /\ Goto(p, "items")
      BY <1>2 DEF MarkPaid, ghostVars, Offsets, At
    <2>2. run'[p].pc = "items" /\ run'[p].order = run[p].order
          /\ \A q \in Procs \ {p} : run'[q] = run[q]
      BY <2>1, GotoRun
    <2>3. Data' /\ Issued'
      BY <2>1, <2>2 DEF Data, Issued, Issuing, At, Order
    <2>4. \A o \in Orders, q \in Procs :
            /\ Settling(q, o)' = Settling(q, o)
            /\ Issuing(q, o)' => Issuing(q, o) \/ o = Order(p)
      BY <2>1, <2>2 DEF Settling, Issuing, At, Order
    <2>5. status'[Order(p)] = "PAID" /\ \A o \in Orders \ {Order(p)} : status'[o] = status[o]
      BY <2>1 DEF Data
    <2>6. Settled'
      BY <2>1, <2>4, <2>5 DEF Settled
    <2> QED  BY <2>3, <2>6
  <1>3. CASE CancelOrder(p)
    <2>1. /\ At(p, "cancel") /\ status' = [status EXCEPT ![Order(p)] = "CANCELLED"]
          /\ again' = IF status[Order(p)] = "PAID" THEN again \cup {Order(p)} ELSE again
          /\ UNCHANGED <<unsent, tickets, payments, sessions, broken, astray>>
          /\ Order(p) \in Orders /\ Goto(p, "release")
      BY <1>3 DEF CancelOrder, Offsets, At
    <2>2. run'[p].pc = "release" /\ run'[p].order = run[p].order
          /\ \A q \in Procs \ {p} : run'[q] = run[q]
      BY <2>1, GotoRun
    <2>3. Data' /\ Issued'
      BY <2>1, <2>2 DEF Data, Issued, Issuing, At, Order
    <2>4. \A o \in Orders, q \in Procs :
            /\ Settling(q, o)' => Settling(q, o)
            /\ Issuing(q, o)' => Issuing(q, o)
      BY <2>1, <2>2 DEF Settling, Issuing, At, Order
    <2>5. \A o \in Orders \ again' : status[o] = "PAID" => status'[o] = "PAID"
      BY <2>1 DEF Data
    <2>6. Settled'
      BY <2>1, <2>4, <2>5 DEF Settled
    <2> QED  BY <2>3, <2>6
  <1>4. CASE CreateTicket(p)
    <2>1. /\ At(p, "items") /\ EndWith(p, "done", log) /\ Order(p) \in Orders
          /\ tickets' = [tickets EXCEPT ![Order(p)] = IF @ < TicketCap THEN @ + 1 ELSE @]
          /\ UNCHANGED <<status, unsent, payments, sessions, broken, again, astray>>
      BY <1>4 DEF CreateTicket, Issue, End, ghostVars, Offsets, At
    <2>2. Data' /\ tickets'[Order(p)] >= 1
      BY <2>1 DEF Data, TicketCap
    <2>3. Issued'
      BY <2>1, <2>2, EndRun DEF Issued, Issuing, Data
    <2>4. Settled'
      BY <2>1, <2>2, EndRun DEF Settled, Settling, Issuing, Data, TicketCap
    <2> QED  BY <2>2, <2>3, <2>4
  <1>5. CASE ListOrderItemsFails(p) \/ CreateTicketFails(p)
    <2>1. /\ At(p, "items") /\ Order(p) \in Orders
          /\ EndWith(p, "done", log) \/ EndWith(p, "failed", log)
          /\ broken' = broken \cup {Order(p)}
          /\ \/ tickets' = tickets
             \/ tickets' = [tickets EXCEPT ![Order(p)] = IF @ < TicketCap THEN @ + 1 ELSE @]
          /\ UNCHANGED <<status, unsent, payments, sessions, again, astray>>
      BY <1>5 DEF ListOrderItemsFails, CreateTicketFails, Issue, End, orderVars, Offsets, At
    <2>2. Data' /\ \A o \in Orders : tickets'[o] >= tickets[o]
      BY <2>1 DEF Data, TicketCap
    <2>3. Issued'
      BY <2>1, <2>2, EndRun DEF Issued, Issuing, Data
    <2>4. Settled'
      BY <2>1, <2>2, EndRun DEF Settled, Settling, Issuing, Data, TicketCap
    <2> QED  BY <2>2, <2>3, <2>4
  <1>6. CASE /\ At(p, "pay") /\ EndWith(p, "failed", log)
             /\ status' = [status EXCEPT ![Order(p)] = "PAID"]
             /\ broken' = broken \cup {Order(p)}
             /\ UNCHANGED <<unsent, tickets, payments, sessions, again, astray>>
    <2>1. Order(p) \in Orders
      BY <1>6 DEF Offsets, At
    <2>2. Data' /\ Issued'
      BY <1>6, <2>1, EndRun DEF Data, Issued, Issuing
    <2>3. \A o \in Orders, q \in Procs :
            (Settling(q, o)' => Settling(q, o)) /\ (Issuing(q, o)' => Issuing(q, o))
      BY <1>6, EndRun
    <2>4. \A o \in Orders : status[o] = "PAID" => status'[o] = "PAID"
      BY <1>6, <2>1 DEF Data
    <2>5. Settled'
      BY <1>6, <2>3, <2>4 DEF Settled
    <2> QED  BY <2>2, <2>5
  <1>7. CASE /\ ~ At(p, "items") /\ \E result, l : EndWith(p, result, l)
             /\ UNCHANGED <<orderVars, payments, sessions, ghostVars>>
    <2>1. Data' /\ UNCHANGED <<status, tickets, broken, again>>
      BY <1>7 DEF Data, orderVars, ghostVars
    <2>2. \A o \in Orders, q \in Procs : Issuing(q, o)' = Issuing(q, o)
                                         /\ (Settling(q, o)' => Settling(q, o))
      BY <1>7, EndRun DEF Issuing
    <2>3. Settled' /\ Issued'
      BY <2>1, <2>2 DEF Settled, Issued
    <2> QED  BY <2>1, <2>3
  <1>8. CASE PaymentFails(p)
    BY <1>6, <1>7, <1>8 DEF PaymentFails, End, At, orderVars, ghostVars
  <1>9. \/ AlreadyProcessed(p) \/ CancelFails(p)
        \/ \E sent \in BOOLEAN : CancelAnnounced(p, sent)
        => /\ ~ At(p, "items") /\ \E result, l : EndWith(p, result, l)
           /\ UNCHANGED <<orderVars, payments, sessions, ghostVars>>
    BY DEF AlreadyProcessed, CancelFails, CancelAnnounced, End, At
  <1> QED  BY <1>1, <1>2, <1>3, <1>4, <1>5, <1>6, <1>7, <1>8, <1>9, Zenon DEF Handle

\* The consumers of payment-service settle nothing.
LEMMA ConsumeData ==
    ASSUME Offsets, Data, Settled, Issued, NEW t \in Topics, Consume(t)
    PROVE  Data' /\ Settled' /\ Issued'
  <1>1. t \in Procs
    BY DEF Procs
  <1>2. CASE Take(t)
    <2>1. /\ At(t, "idle") /\ FirstStep[t] \notin {"pay", "items"}
          /\ run' = [run EXCEPT ![t] = [pc |-> FirstStep[t], order |-> log[t][pos[t] + 1].order]]
          /\ UNCHANGED <<orderVars, payments, sessions, ghostVars>>
      BY <1>2, TopicNames DEF Take, Ready, FirstStep
    <2>2. \A o \in Orders, q \in Procs : Issuing(q, o)' = Issuing(q, o)
                                         /\ Settling(q, o)' = Settling(q, o)
      BY <1>1, <2>1 DEF Issuing, Settling, At, Order, Offsets
    <2> QED  BY <2>1, <2>2 DEF Data, Settled, Issued, orderVars, ghostVars
  <1>3. CASE Commit(t)
    BY <1>3 DEF Commit, Data, Settled, Issued, Settling, Issuing, At, Order, orderVars, ghostVars
  <1>4. CASE /\ ~ At(t, "items") /\ EndWith(t, "done", log)
             /\ UNCHANGED <<orderVars, sessions, broken, again>>
             /\ Data'
    <2>1. \A o \in Orders, q \in Procs : Issuing(q, o)' = Issuing(q, o)
                                         /\ (Settling(q, o)' => Settling(q, o))
      BY <1>1, <1>4, EndRun DEF Issuing
    <2> QED  BY <1>4, <2>1 DEF Settled, Issued, orderVars
  <1>5. CASE CreatePaymentIntent(t) \/ HandleReferenceCancelled(t)
    <2>1. /\ ~ At(t, "items") /\ Order(t) \in Orders /\ EndWith(t, "done", log)
          /\ UNCHANGED <<orderVars, sessions, broken, again>>
      BY <1>1, <1>5 DEF CreatePaymentIntent, HandleReferenceCancelled, End, At, Offsets, ghostVars,
         orderVars
    <2>2. payments' \in [Orders -> [pending : Nat, expired : Nat]] /\ astray' \subseteq Orders
      BY <1>5, <2>1 DEF CreatePaymentIntent, HandleReferenceCancelled, Data, ghostVars
    <2>3. Data'
      BY <2>1, <2>2 DEF Data, orderVars
    <2> QED  BY <1>4, <2>1, <2>3
  <1>6. CASE \/ CreatePaymentIntentFails(t) \/ CancelledBefore(t)
             \/ \E failing \in BOOLEAN : ReferenceMissing(t, failing)
    <2>1. /\ ~ At(t, "items") /\ Order(t) \in Orders /\ EndWith(t, "done", log)
          /\ UNCHANGED <<orderVars, payments, sessions, broken, again>>
          /\ astray' \in {astray, astray \cup {Order(t)}}
      BY <1>1, <1>6 DEF CreatePaymentIntentFails, CancelledBefore, ReferenceMissing, End, At,
         Offsets, ghostVars
    <2>2. Data'
      BY <2>1 DEF Data, orderVars
    <2> QED  BY <1>4, <2>1, <2>2
  <1> QED  BY <1>2, <1>3, <1>5, <1>6, Zenon DEF Consume

LEMMA SessionData ==
    ASSUME Offsets, Data, Settled, Issued, NEW g \in Groups, SessionEnds(g) \/ SessionStarts(g)
    PROVE  Data' /\ Settled' /\ Issued'
  <1>1. CASE SessionEnds(g)
    <2>1. /\ sessions < MaxSessions /\ sessions' = sessions + 1
          /\ run' = [p \in Procs |-> IF p \in TopicsOf[g] THEN Idle ELSE run[p]]
          /\ broken' = broken \cup {Order(t) : t \in {t \in TopicsOf[g] : At(t, "items")}}
          /\ UNCHANGED <<status, unsent, tickets, payments, again, astray>>
      BY <1>1 DEF SessionEnds, orderVars
    <2>2. \A t \in TopicsOf[g] : t \in Procs /\ (At(t, "items") => Order(t) \in Orders)
      BY TopicGroups DEF Procs, Offsets, At
    <2>3. Data'
      BY <2>1, <2>2, SettlementAssumption DEF Data
    <2>4. \A o \in Orders, q \in Procs :
            /\ Settling(q, o)' => Settling(q, o)
            /\ Issuing(q, o)' => Issuing(q, o)
            /\ Issuing(q, o) => Issuing(q, o)' \/ o \in broken'
      BY <2>1 DEF Settling, Issuing, At, Order, Idle
    <2>5. broken \subseteq broken'
      BY <2>1
    <2>6. Settled'
      BY <2>1, <2>4 DEF Settled
    <2>7. Issued'
      BY <2>1, <2>4, <2>5 DEF Issued
    <2> QED  BY <2>3, <2>6, <2>7
  <1>2. CASE SessionStarts(g)
    BY <1>2 DEF SessionStarts, Data, Settled, Issued, Settling, Issuing, At, Order, orderVars,
       ghostVars
  <1> QED  BY <1>1, <1>2

LEMMA SourceData ==
    ASSUME Offsets, Data, Settled, Issued, NEW o \in Orders, Source(o)
    PROVE  Data' /\ Settled' /\ Issued'
  <1> USE DEF Data, Settled, Issued, Settling, Issuing, At, Order, orderVars, ghostVars
  <1>1. CASE CreateOrder(o)
    BY <1>1 DEF CreateOrder
  <1>2. ASSUME NEW sent \in BOOLEAN, AnnounceOrder(o, sent) PROVE Data' /\ Settled' /\ Issued'
    BY <1>2 DEF AnnounceOrder
  <1>4. ASSUME NEW t \in Topics, ProviderPublishes(t, o) PROVE Data' /\ Settled' /\ Issued'
    BY <1>4 DEF ProviderPublishes
  <1>5. ASSUME Notify(o) \/ CallCancelOrder(o) PROVE Data' /\ Settled' /\ Issued'
    <2>1. PICK c \in {"notification", "cancellation"}, first \in {"read", "cancel"} :
            /\ run[c].pc = "idle"
            /\ run' = [run EXCEPT ![c] = [pc |-> first, order |-> o]]
            /\ UNCHANGED <<orderVars, payments, sessions, ghostVars>>
      BY <1>5 DEF Notify, CallCancelOrder
    <2>2. \A q \in Procs : \/ run'[q] = run[q]
                           \/ run[q].pc = "idle" /\ run'[q].pc \in {"read", "cancel"}
      BY <2>1 DEF Offsets
    <2> QED  BY <2>1, <2>2
  <1> QED  BY <1>1, <1>2, <1>4, <1>5, Zenon DEF Source

LEMMA NextData ==
    Offsets /\ Data /\ Settled /\ Issued /\ [Next]_vars => Data' /\ Settled' /\ Issued'
  <1>1. ASSUME Data, Settled, Issued, UNCHANGED vars PROVE Data' /\ Settled' /\ Issued'
    BY <1>1 DEF Data, Settled, Issued, Settling, Issuing, At, Order, vars, orderVars, ghostVars
  <1> QED  BY <1>1, HandleData, ConsumeData, SessionData, SourceData DEF Next

\* A paid order has one ticket, however often its payment is notified or its message
\* delivered, but for the orders that again and broken name.
THEOREM TicketOnce == Spec => []OneTicketEach
  <1>1. Init => Offsets /\ Data /\ Settled /\ Issued
    BY InitOffsets, InitData
  <1>2. Offsets /\ Data /\ Settled /\ Issued /\ [Next]_vars
          => Offsets' /\ Data' /\ Settled' /\ Issued'
    BY NextOffsets, NextData
  <1>3. Settled /\ Issued => OneTicketEach
    BY DEF Settled, Issued, Issuing, OneTicketEach
  <1> QED  BY <1>1, <1>2, <1>3, PTL DEF Spec

-----------------------------------------------------------------------------
(* Payments.                                                               *)

\* A step that touches no payment and ends no cancellation.
LEMMA SameInTurn ==
    ASSUME InTurn, payments' = payments, astray' = astray,
           \A o \in Orders : Cancelled(o)' => Cancelled(o)
    PROVE  InTurn'
  BY DEF InTurn

LEMMA ConsumeInTurn ==
    ASSUME Offsets, Data, InTurn, NEW t \in Topics, Consume(t)
    PROVE  InTurn'
  <1> DEFINE ref == Order(t)
  <1>1. \A q \in Orders : Cancelled(q)' =>
            Cancelled(q) \/ (t = "order.cancelled" /\ At(t, "expire") /\ q = ref)
    BY ConsumeOffsets
  <1>2. /\ \A q \in Orders : payments[q].pending \in Nat /\ payments[q].expired \in Nat
        /\ ref \in Orders \ astray => payments[ref].pending + payments[ref].expired <= 1
    BY DEF Data, InTurn
  <1>3. t \in Procs
    BY DEF Procs
  <1>4. CASE Take(t) \/ Commit(t)
    <2>2. payments' = payments /\ astray' = astray /\ log' = log
      BY <1>4 DEF Take, Commit, ghostVars
    <2>3. \A q \in Orders : Cancelled(q)' => Cancelled(q)
      BY <2>2 DEF Cancelled
    <2> QED  BY <2>2, <2>3, SameInTurn
  <1>5. CASE CreatePaymentIntent(t)
    <2>1. /\ t = "order.created" /\ ref \in Orders
          /\ payments' = [payments EXCEPT ![ref].pending = @ + 1]
          /\ astray' = IF OutOfTurn(ref) THEN astray \cup {ref} ELSE astray
      BY <1>3, <1>5 DEF CreatePaymentIntent, Offsets, At
    <2>2. OutOfTurn(ref) <=> payments[ref].pending + payments[ref].expired > 0 \/ Cancelled(ref)
      BY DEF OutOfTurn, Cancelled
    <2>3. /\ payments'[ref].pending = payments[ref].pending + 1
          /\ payments'[ref].expired = payments[ref].expired
          /\ \A q \in Orders \ {ref} : payments'[q] = payments[q]
      BY <2>1 DEF Data
    <2>4. \A q \in Orders : Cancelled(q)' => Cancelled(q)
      BY <1>1, <2>1
    <2> HIDE DEF ref
    <2> QED  BY <1>2, <2>1, <2>2, <2>3, <2>4 DEF InTurn
  <1>6. CASE CreatePaymentIntentFails(t)
    BY <1>1, <1>6, SameInTurn DEF CreatePaymentIntentFails, ghostVars
  <1>7. CASE HandleReferenceCancelled(t)
    <2>1. /\ ref \in Orders /\ payments[ref].pending > 0
          /\ payments' = [payments EXCEPT ![ref] =
                            [pending |-> @.pending - 1, expired |-> @.expired + 1]]
          /\ astray' = astray
      BY <1>3, <1>7 DEF HandleReferenceCancelled, Offsets, At, ghostVars
    <2>2. /\ payments'[ref].pending = payments[ref].pending - 1
          /\ payments'[ref].expired = payments[ref].expired + 1
          /\ \A q \in Orders \ {ref} : payments'[q] = payments[q]
      BY <2>1 DEF Data
    <2>3. \A q \in Orders \ {ref} : Cancelled(q)' => Cancelled(q)
      BY <1>1
    <2> HIDE DEF ref
    <2>4. ref \in Orders \ astray => payments'[ref].pending = 0 /\ payments'[ref].expired = 1
      BY <1>2, <2>1, <2>2
    <2> QED  BY <2>1, <2>2, <2>3, <2>4 DEF InTurn
  <1>8. CASE CancelledBefore(t)
    <2>1. /\ ref \in Orders /\ payments[ref].expired > 0
          /\ payments' = payments /\ astray' = astray
      BY <1>3, <1>8 DEF CancelledBefore, Offsets, At, ghostVars
    <2>2. \A q \in Orders \ {ref} : Cancelled(q)' => Cancelled(q)
      BY <1>1
    <2> HIDE DEF ref
    <2>3. ref \in Orders \ astray => payments[ref].pending = 0
      BY <1>2, <2>1
    <2> QED  BY <2>1, <2>2, <2>3 DEF InTurn
  <1>9. ASSUME NEW failing \in BOOLEAN, ReferenceMissing(t, failing) PROVE InTurn'
    <2>1. /\ ref \in Orders /\ payments' = payments
          /\ failing \/ payments[ref] = [pending |-> 0, expired |-> 0]
          /\ astray' = IF failing THEN astray \cup {ref} ELSE astray
      BY <1>3, <1>9 DEF ReferenceMissing, Offsets, At
    <2>2. \A q \in Orders \ {ref} : Cancelled(q)' => Cancelled(q)
      BY <1>1
    <2> HIDE DEF ref
    <2>3. ref \in Orders \ astray' => payments[ref].pending = 0
      BY <1>2, <2>1 DEF InTurn
    <2> QED  BY <2>1, <2>2, <2>3 DEF InTurn
  <1> QED  BY <1>4, <1>5, <1>6, <1>7, <1>8, <1>9, Zenon DEF Consume

LEMMA NextInTurn == Offsets /\ Data /\ InTurn /\ [Next]_vars => InTurn'
  <1> SUFFICES ASSUME Offsets, Data, InTurn, [Next]_vars PROVE InTurn'
    OBVIOUS
  <1>1. ASSUME NEW p \in Procs, Handle(p) PROVE InTurn'
    <2>1. payments' = payments /\ astray' = astray
      BY <1>1 DEF Handle, GetOrder, AlreadyProcessed, MarkPaid, PaymentFails,
         ListOrderItemsFails, CreateTicket, CreateTicketFails, CancelOrder, CancelFails,
         CancelAnnounced, ghostVars
    <2> QED  BY <1>1, <2>1, HandleOffsets, SameInTurn
  <1>2. ASSUME NEW t \in Topics, Consume(t) PROVE InTurn'
    BY <1>2, ConsumeInTurn
  <1>3. ASSUME NEW g \in Groups, SessionEnds(g) \/ SessionStarts(g) PROVE InTurn'
    <2>1. payments' = payments /\ astray' = astray
      BY <1>3 DEF SessionEnds, SessionStarts, ghostVars
    <2> QED  BY <1>3, <2>1, SessionOffsets, SameInTurn
  <1>4. ASSUME NEW o \in Orders, Source(o) PROVE InTurn'
    <2>1. payments' = payments /\ astray' = astray
      BY <1>4 DEF Source, CreateOrder, AnnounceOrder, CallCancelOrder, ProviderPublishes, Notify,
         ghostVars
    <2> QED  BY <1>4, <2>1, SourceOffsets, SameInTurn
  <1>5. CASE UNCHANGED vars
    <2>1. payments' = payments /\ astray' = astray /\ log' = log
      BY <1>5 DEF vars, ghostVars
    <2> QED  BY <2>1 DEF InTurn, Cancelled
  <1> QED  BY <1>1, <1>2, <1>3, <1>4, <1>5 DEF Next

\* A cancelled order's payment does not stay PENDING, unless the order's messages came
\* to payment-service out of turn or a statement failed.
THEOREM PaymentFollows == Spec => []PaymentFollowsOrder
  <1>1. Init => Offsets /\ Data /\ Settled /\ Issued /\ InTurn
    BY InitOffsets, InitData
  <1>2. /\ Offsets /\ Data /\ Settled /\ Issued /\ InTurn /\ [Next]_vars
        => Offsets' /\ Data' /\ Settled' /\ Issued' /\ InTurn'
    BY NextOffsets, NextData, NextInTurn
  <1>3. InTurn => PaymentFollowsOrder
    BY DEF InTurn, Cancelled, PaymentFollowsOrder
  <1> QED  BY <1>1, <1>2, <1>3, PTL DEF Spec

\* The types of the orders, payments, logs and offsets.
THEOREM TypeCorrect == Spec => []TypeOK
  <1>1. Init => Offsets /\ Data /\ Settled /\ Issued
    BY InitOffsets, InitData
  <1>2. Offsets /\ Data /\ Settled /\ Issued /\ [Next]_vars
          => Offsets' /\ Data' /\ Settled' /\ Issued'
    BY NextOffsets, NextData
  <1>3. Offsets /\ Data => TypeOK
    <2> SUFFICES ASSUME Offsets, Data PROVE TypeOK
      OBVIOUS
    <2>1. \A t \in Topics : Len(log[t]) \in Nat /\ log[t] \in Seq(Message)
      BY LenProperties DEF Offsets
    <2>2. \A t \in Topics : /\ pos[t] \in 0 .. Len(log[t])
                            /\ marked[t] \in 0 .. pos[t]
                            /\ committed[t] \in 0 .. Len(log[t])
      BY <2>1 DEF Offsets
    <2> QED  BY <2>1, <2>2, Zenon DEF Offsets, Data, TypeOK, Message
  <1> QED  BY <1>1, <1>2, <1>3, PTL DEF Spec

=============================================================================
