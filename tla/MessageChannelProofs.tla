------------------------ MODULE MessageChannelProofs ------------------------
(***************************************************************************)
(* MessageChannel for any senders, receivers, types, groups and requests:  *)
(* what a sync send() guarantees when it returns, raises or dies, and what *)
(* a committed offset says of the messages before it.                      *)
(***************************************************************************)
EXTENDS MessageChannel, FiniteSetTheorems, TLAPS

LEMMA SendingType ==
  ASSUME TypeOK, NEW s \in Sender, send[s].step # "idle"
  PROVE  send[s] \in Sending /\ send[s].next <= send[s].last
BY DEF TypeOK, NoSend

LEMMA ServedType ==
  ASSUME TypeOK, NEW s \in Sender, send[s].step # "idle", Served(s)
  PROVE  TypeOK'
<1> DEFINE c == send[s]
           next == [c EXCEPT !.step = "produce", !.next = @ + 1]
<1>1. c \in Sending /\ c.next <= c.last
  BY SendingType
<1>2. undelivered' \in [Sender -> SUBSET Msg]
  BY DEF Served, TypeOK
<1>3. sent' \subseteq Msg
  <2>1. c.first..c.last \subseteq Msg
    BY <1>1, ConstantsAssumption DEF Sending, Msg
  <2> QED
    BY <2>1 DEF Served, TypeOK
<1>4. CASE undelivered[s] # {} \/ c.next = c.last
  <2>1. send' = [send EXCEPT ![s] = NoSend]
    BY <1>4 DEF Served
  <2>2. send' \in [Sender -> Sending \cup {NoSend}]
    BY <2>1 DEF TypeOK
  <2>3. \A q \in Sender : send'[q].next <= send'[q].last
    BY <2>1 DEF TypeOK, NoSend
  <2> QED
    BY <1>2, <1>3, <2>2, <2>3 DEF Served, TypeOK, receiving, faults
<1>5. CASE ~(undelivered[s] # {} \/ c.next = c.last)
  <2>1. send' = [send EXCEPT ![s] = next]
    BY <1>5 DEF Served
  <2>2. next \in Sending /\ next.next <= next.last
    <3>1. c.next \in Nat /\ c.last \in Msg /\ c.next + 1 \in Msg /\ c.next + 1 <= c.last
      BY <1>1, <1>5, ConstantsAssumption DEF Sending, Msg
    <3> DEFINE mid == [c EXCEPT !.step = "produce"]
    <3>2. mid \in Sending /\ mid.next = c.next /\ mid.last = c.last
      BY <1>1 DEF Sending
    <3>3. next = [mid EXCEPT !.next = c.next + 1]
      OBVIOUS
    <3> HIDE DEF mid, next
    <3> QED
      BY <3>1, <3>2, <3>3 DEF Sending
  <2> HIDE DEF next
  <2>3. send' \in [Sender -> Sending \cup {NoSend}]
    BY <2>1, <2>2 DEF TypeOK
  <2>4. \A q \in Sender : send'[q].next <= send'[q].last
    BY <2>1, <2>2 DEF TypeOK
  <2> QED
    BY <1>2, <1>3, <2>3, <2>4 DEF Served, TypeOK, receiving, faults
<1> QED
  BY <1>4, <1>5

\* commit() of a live consumer.
LEMMA CommitType ==
  ASSUME TypeOK, NEW r \in Receiver, client[r] # None, Commit(r)
  PROVE  committed' \in [Group -> [Type -> Nat \cup {None}]]
<1> DEFINE g == client[r].group
           new == [t \in Type |-> IF assigned[g][t] = r THEN pos[r][t] ELSE committed[g][t]]
<1>1. g \in Group
  BY DEF TypeOK, ConsumerOf
<1>2. new \in [Type -> Nat \cup {None}]
  BY <1>1 DEF TypeOK
<1>3. committed' = [committed EXCEPT ![g] = new]
  BY DEF Commit
<1> QED
  BY <1>1, <1>2, <1>3 DEF TypeOK

LEMMA TypeStep == TypeOK /\ Membership /\ [Next]_vars => TypeOK'
<1> SUFFICES ASSUME TypeOK, Membership, [Next]_vars PROVE TypeOK'
  OBVIOUS
<1> USE ConstantsAssumption DEF receiving, sending, faults
<1>1. ASSUME NEW s \in Sender, NEW t \in Type, NEW method \in Methods,
             NEW n \in 1..MaxList, Send(s, t, method, n)
      PROVE  TypeOK'
  <2> DEFINE new == [step |-> "produce", method |-> method, type |-> t,
                     first |-> made + 1, next |-> made + 1, last |-> made + n]
  <2>1. made' \in 0..MaxMsg /\ made + 1 \in Msg /\ made + n \in Msg /\ made + 1 <= made + n
    BY <1>1 DEF Send, TypeOK, Msg
  <2>2. lists' \subseteq Msg \X Msg
    BY <1>1, <2>1 DEF Send, TypeOK
  <2>3. new \in Sending /\ new.next <= new.last
    BY <2>1 DEF Sending
  <2>4. send' = [send EXCEPT ![s] = new]
    BY <1>1 DEF Send
  <2>5. send' \in [Sender -> Sending \cup {NoSend}]
    BY <2>3, <2>4 DEF TypeOK
  <2>6. \A q \in Sender : send'[q].next <= send'[q].last
    BY <2>3, <2>4 DEF TypeOK
  <2> QED
    BY <1>1, <2>1, <2>2, <2>5, <2>6 DEF Send, TypeOK
<1>2. ASSUME NEW s \in Sender, Produce(s)
      PROVE  TypeOK'
  <2> DEFINE new == [send[s] EXCEPT !.step = "wait"]
  <2>1. send[s] \in Sending /\ send[s].next <= send[s].last
    BY <1>2, SendingType DEF Produce
  <2>2. new \in Sending /\ new.next <= new.last
    BY <2>1 DEF Sending
  <2>3. send' = [send EXCEPT ![s] = new]
    BY <1>2 DEF Produce
  <2>4. send' \in [Sender -> Sending \cup {NoSend}]
    BY <2>2, <2>3 DEF TypeOK
  <2>5. \A q \in Sender : send'[q].next <= send'[q].last
    BY <2>2, <2>3 DEF TypeOK
  <2>6. <<send[s].type, send[s].next>> \in Type \X Msg
    BY <2>1 DEF Sending
  <2>7. queue' \in [Sender -> Seq(Type \X Msg)]
    BY <1>2, <2>6 DEF Produce, TypeOK
  <2> QED
    BY <1>2, <2>4, <2>5, <2>7 DEF Produce, TypeOK
<1>3. ASSUME NEW s \in Sender, Flush(s) \/ PollReports(s)
      PROVE  TypeOK'
  BY <1>3, ServedType DEF Flush, PollReports
<1>4. ASSUME NEW s \in Sender, Deliver(s)
      PROVE  TypeOK'
  <2>1. queue[s] \in Seq(Type \X Msg) /\ queue[s] # <<>>
    BY <1>4 DEF Deliver, TypeOK
  <2>2. Head(queue[s]) \in Type \X Msg /\ Tail(queue[s]) \in Seq(Type \X Msg)
    BY <2>1
  <2> QED
    BY <1>4, <2>2 DEF Deliver, TypeOK
<1>5. ASSUME NEW s \in Sender, GiveUp(s)
      PROVE  TypeOK'
  <2>1. queue[s] \in Seq(Type \X Msg) /\ queue[s] # <<>>
    BY <1>5 DEF GiveUp, TypeOK
  <2>2. Head(queue[s]) \in Type \X Msg /\ Tail(queue[s]) \in Seq(Type \X Msg)
    BY <2>1
  <2> QED
    BY <1>5, <2>2 DEF GiveUp, TypeOK
<1>6. ASSUME NEW s \in Sender, SenderCrash(s)
      PROVE  TypeOK'
  <2>1. send' = [send EXCEPT ![s] = NoSend]
    BY <1>6 DEF SenderCrash
  <2>2. send' \in [Sender -> Sending \cup {NoSend}]
    BY <2>1 DEF TypeOK
  <2>3. \A q \in Sender : send'[q].next <= send'[q].last
    BY <2>1 DEF TypeOK, NoSend
  <2> QED
    BY <1>6, <2>2, <2>3 DEF SenderCrash, TypeOK
<1>7. ASSUME NEW r \in Receiver, NEW q \in Request[r], InitConsumer(r, q)
      PROVE  TypeOK'
  BY <1>7 DEF InitConsumer, TypeOK
<1>8. ASSUME NEW r \in Receiver, NEW t \in Type, Receive(r, t)
      PROVE  TypeOK'
  <2>1. pos' = [pos EXCEPT ![r] = [pos[r] EXCEPT ![t] = @ + 1]]
    BY <1>8 DEF Receive
  <2>2. [pos[r] EXCEPT ![t] = @ + 1] \in [Type -> Nat] /\ pos[r][t] + 1 \in Nat
    BY DEF TypeOK
  <2> QED
    BY <1>8, <2>1, <2>2 DEF Receive, TypeOK
<1>9. ASSUME NEW r \in Receiver, NEW t \in Type, NEW g \in Group, Assign(g, t, r)
      PROVE  TypeOK'
  <2>1. pos' = [pos EXCEPT ![r] = [pos[r] EXCEPT ![t] = Start(g, t)]]
    BY <1>9 DEF Assign
  <2>2. Start(g, t) \in Nat
    BY DEF Start, TypeOK
  <2>3. [pos[r] EXCEPT ![t] = Start(g, t)] \in [Type -> Nat]
    BY <2>2 DEF TypeOK
  <2>4. assigned' = [assigned EXCEPT ![g] = [assigned[g] EXCEPT ![t] = r]]
    BY <1>9 DEF Assign
  <2>5. [assigned[g] EXCEPT ![t] = r] \in [Type -> Receiver \cup {None}]
    BY DEF TypeOK
  <2> QED
    BY <1>9, <2>1, <2>3, <2>4, <2>5 DEF Assign, TypeOK
<1>10. ASSUME NEW r \in Receiver, Handle(r)
       PROVE  TypeOK'
  <2>1. client[r] # None /\ hand[r] \in [type : Type, at : Nat]
    BY <1>10 DEF Handle, Membership, TypeOK
  <2>2. client[r].group \in Group
    BY <2>1 DEF TypeOK, ConsumerOf
  <2>3. committed' \in [Group -> [Type -> Nat \cup {None}]]
    BY <1>10, <2>1, CommitType DEF Handle, TypeOK
  <2> QED
    BY <1>10, <2>1, <2>2, <2>3 DEF Handle, TypeOK
<1>11. ASSUME NEW r \in Receiver, AutoCommit(r)
       PROVE  TypeOK'
  BY <1>11, CommitType DEF AutoCommit, TypeOK
<1>12. ASSUME NEW r \in Receiver, ReceiverCrash(r)
       PROVE  TypeOK'
  <2>1. assigned' \in [Group -> [Type -> Receiver \cup {None}]]
    BY <1>12 DEF ReceiverCrash, TypeOK
  <2> QED
    BY <1>12, <2>1 DEF ReceiverCrash, TypeOK
<1>13. ASSUME NEW g \in Group, NEW t \in Type, Revoke(g, t)
       PROVE  TypeOK'
  <2>1. assigned' = [assigned EXCEPT ![g] = [assigned[g] EXCEPT ![t] = None]]
    BY <1>13 DEF Revoke
  <2>2. [assigned[g] EXCEPT ![t] = None] \in [Type -> Receiver \cup {None}]
    BY DEF TypeOK
  <2> QED
    BY <1>13, <2>1, <2>2 DEF Revoke, TypeOK
<1>14. CASE UNCHANGED vars
  BY <1>14 DEF vars, TypeOK
<1> QED
  BY <1>1, <1>2, <1>3, <1>4, <1>5, <1>6, <1>7, <1>8, <1>9, <1>10, <1>11, <1>12, <1>13,
     <1>14 DEF Next

LEMMA MembershipStep == TypeOK /\ Membership /\ [Next]_vars => Membership'
<1> SUFFICES ASSUME TypeOK, Membership, [Next]_vars PROVE Membership'
  OBVIOUS
<1> USE ConstantsAssumption DEF receiving, sending, faults
<1>1. ASSUME NEW s \in Sender,
             \/ \E t \in Type, method \in Methods, n \in 1..MaxList : Send(s, t, method, n)
             \/ Produce(s) \/ Flush(s) \/ PollReports(s)
             \/ Deliver(s) \/ GiveUp(s) \/ SenderCrash(s)
      PROVE  Membership'
  <2>1. UNCHANGED receiving
    BY <1>1 DEF Send, Produce, Flush, PollReports, Served, Deliver, GiveUp, SenderCrash
  <2> QED
    BY <2>1 DEF Membership
<1>2. ASSUME NEW r \in Receiver, NEW q \in Request[r], InitConsumer(r, q)
      PROVE  Membership'
  <2>1. q # None
    OBVIOUS
  <2> QED
    BY <1>2, <2>1 DEF InitConsumer, Membership, TypeOK
<1>3. ASSUME NEW r \in Receiver, NEW t \in Type, Receive(r, t)
      PROVE  Membership'
  BY <1>3 DEF Receive, Membership, TypeOK
<1>4. ASSUME NEW r \in Receiver, NEW t \in Type, NEW g \in Group, Assign(g, t, r)
      PROVE  Membership'
  <2>1. assigned' = [assigned EXCEPT ![g] = [assigned[g] EXCEPT ![t] = r]]
    BY <1>4 DEF Assign
  <2>2. \A h \in Group, u \in Type :
          assigned'[h][u] = IF h = g /\ u = t THEN r ELSE assigned[h][u]
    BY <2>1 DEF TypeOK
  <2> QED
    BY <1>4, <2>2 DEF Assign, Membership
<1>5. ASSUME NEW r \in Receiver, Handle(r) \/ AutoCommit(r)
      PROVE  Membership'
  BY <1>5 DEF Handle, AutoCommit, Membership, TypeOK
<1>6. ASSUME NEW r \in Receiver, ReceiverCrash(r)
      PROVE  Membership'
  <2>1. \A h \in Group, u \in Type :
          assigned'[h][u] = IF assigned[h][u] = r THEN None ELSE assigned[h][u]
    BY <1>6 DEF ReceiverCrash
  <2>2. \A q \in Receiver : q # r => client'[q] = client[q] /\ hand'[q] = hand[q]
    BY <1>6 DEF ReceiverCrash, TypeOK
  <2>3. hand'[r] = None
    BY <1>6 DEF ReceiverCrash, TypeOK
  <2> QED
    <3>1. ASSUME NEW q \in Receiver, hand'[q] # None PROVE client'[q] # None
      BY <2>2, <2>3, <3>1 DEF Membership
    <3>2. ASSUME NEW g \in Group, NEW t \in Type, assigned'[g][t] # None
          PROVE  client'[assigned'[g][t]] # None /\ client'[assigned'[g][t]].group = g
      <4>1. assigned'[g][t] = assigned[g][t] /\ assigned[g][t] # r
        BY <2>1, <3>2
      <4>2. assigned[g][t] \in Receiver
        BY <3>2, <4>1 DEF TypeOK
      <4> QED
        BY <2>2, <3>2, <4>1, <4>2 DEF Membership
    <3> QED
      BY <3>1, <3>2 DEF Membership
<1>7. ASSUME NEW g \in Group, NEW t \in Type, Revoke(g, t)
      PROVE  Membership'
  <2>1. assigned' = [assigned EXCEPT ![g] = [assigned[g] EXCEPT ![t] = None]]
    BY <1>7 DEF Revoke
  <2>2. \A h \in Group, u \in Type :
          assigned'[h][u] = IF h = g /\ u = t THEN None ELSE assigned[h][u]
    BY <2>1 DEF TypeOK
  <2> QED
    BY <1>7, <2>2 DEF Revoke, Membership
<1>8. CASE UNCHANGED vars
  BY <1>8 DEF vars, Membership
<1> QED
  BY <1>1, <1>2, <1>3, <1>4, <1>5, <1>6, <1>7, <1>8 DEF Next

LEMMA BaseInit == Init => TypeOK /\ Membership
<1> SUFFICES ASSUME Init PROVE TypeOK /\ Membership
  OBVIOUS
<1> USE ConstantsAssumption
<1>1. send \in [Sender -> Sending \cup {NoSend}]
  BY DEF Init
<1>2. \A s \in Sender : send[s].next <= send[s].last
  BY DEF Init, NoSend
<1> QED
  BY <1>1, <1>2 DEF Init, TypeOK, Membership, Msg

\* Logs, queues, calls and consumers keep their types, and partitions belong to
\* live consumers of their group.
THEOREM TypeCorrect == Spec => [](TypeOK /\ Membership)
<1>1. TypeOK /\ Membership /\ [Next]_vars => (TypeOK /\ Membership)'
  BY TypeStep, MembershipStep
<1> QED
  BY <1>1, BaseInit, PTL DEF Spec

-----------------------------------------------------------------------------
(* Sending.                                                                *)

\* What the log and the queues have after a step of the producer.
LEMMA LogGrows ==
  ASSUME TypeOK, NEW s \in Sender, Deliver(s), NEW m \in Msg
  PROVE  /\ m \in Logged => m \in Logged'
         /\ m \in Logged' => m \in Logged \/ m = Head(queue[s])[2]
         /\ m = Head(queue[s])[2] => m \in Logged'
<1> DEFINE t == Head(queue[s])[1]
           n == Head(queue[s])[2]
<1>1. queue[s] \in Seq(Type \X Msg) /\ queue[s] # <<>>
  BY DEF Deliver, TypeOK
<1>2. t \in Type /\ n \in Msg
  BY <1>1
<1>3. log' = [log EXCEPT ![t] = Append(log[t], n)]
  BY DEF Deliver
<1>4. log[t] \in Seq(Msg)
  BY <1>2 DEF TypeOK
<1>5. /\ Len(log'[t]) = Len(log[t]) + 1 /\ Len(log[t]) \in Nat
      /\ \A k \in 1..Len(log[t]) : log'[t][k] = log[t][k]
      /\ log'[t][Len(log[t]) + 1] = n
  BY <1>2, <1>3, <1>4 DEF TypeOK
<1>6. \A u \in Type : u # t => log'[u] = log[u]
  BY <1>2, <1>3 DEF TypeOK
<1> HIDE DEF t, n
<1>7. m \in Logged => m \in Logged'
  <2>1. ASSUME NEW u \in Type, NEW k \in 1..Len(log[u]), log[u][k] = m
        PROVE  \E j \in 1..Len(log'[u]) : log'[u][j] = m
    <3>1. k \in 1..Len(log'[u]) /\ log'[u][k] = log[u][k]
      BY <1>5, <1>6
    <3> QED
      BY <2>1, <3>1
  <2> QED
    BY <2>1 DEF Logged
<1>8. m \in Logged' => m \in Logged \/ m = n
  <2>1. ASSUME NEW u \in Type, NEW k \in 1..Len(log'[u]), log'[u][k] = m, m # n
        PROVE  \E j \in 1..Len(log[u]) : log[u][j] = m
    <3>1. k \in 1..Len(log[u]) /\ log'[u][k] = log[u][k]
      <4>1. CASE u = t
        BY <1>5, <2>1, <4>1
      <4>2. CASE u # t
        BY <1>6, <2>1, <4>2
      <4> QED
        BY <4>1, <4>2
    <3> QED
      BY <2>1, <3>1
  <2> QED
    BY <2>1 DEF Logged
<1>9. m = n => m \in Logged'
  BY <1>2, <1>5 DEF Logged
<1> QED
  BY <1>7, <1>8, <1>9 DEF n

LEMMA QueueShrinks ==
  ASSUME TypeOK, NEW s \in Sender, queue[s] # <<>>,
         queue' = [queue EXCEPT ![s] = Tail(@)], NEW q \in Sender, NEW m \in Msg
  PROVE  /\ m \in Pending(q)' => m \in Pending(q)
         /\ Head(queue[s])[2] \in Pending(s)
         /\ m \in Pending(q) => m \in Pending(q)' \/ (q = s /\ m = Head(queue[s])[2])
<1> DEFINE Q == queue[s]
<1>1. Q \in Seq(Type \X Msg)
  BY DEF TypeOK
<1>2. /\ Len(Q) \in Nat /\ Len(Q) >= 1 /\ Len(Tail(Q)) = Len(Q) - 1
      /\ \A k \in 1..Len(Tail(Q)) : Tail(Q)[k] = Q[k + 1]
      /\ Head(Q) = Q[1]
  BY <1>1
<1>3. queue'[s] = Tail(Q) /\ \A p \in Sender : p # s => queue'[p] = queue[p]
  BY DEF TypeOK
<1>4. Head(Q)[2] \in Pending(s)
  <2>1. Head(Q) \in Type \X Msg
    BY <1>1
  <2> QED
    BY <1>2, <2>1 DEF Pending
<1>5. CASE q # s
  BY <1>3, <1>4, <1>5 DEF Pending
<1>6. CASE q = s
  <2>1. ASSUME NEW k \in 1..Len(Tail(Q)) PROVE k + 1 \in 1..Len(Q) /\ Tail(Q)[k] = Q[k + 1]
    BY <1>2
  <2>2. m \in Pending(s)' => m \in Pending(s)
    BY <1>3, <2>1 DEF Pending
  <2>3. ASSUME NEW k \in 1..Len(Q), k # 1
        PROVE  k - 1 \in 1..Len(Tail(Q)) /\ Tail(Q)[k - 1] = Q[k]
    BY <1>2, <2>3
  <2>4. ASSUME NEW k \in 1..Len(Q), Q[k][2] = m, m # Head(Q)[2]
        PROVE  \E j \in 1..Len(Tail(Q)) : Tail(Q)[j][2] = m
    <3>1. k # 1
      BY <1>2, <2>4
    <3> QED
      BY <2>3, <2>4, <3>1
  <2>5. m \in Pending(s) => m \in Pending(s)' \/ m = Head(Q)[2]
    BY <1>3, <2>4 DEF Pending
  <2> QED
    BY <1>4, <1>6, <2>2, <2>5
<1> QED
  BY <1>5, <1>6

LEMMA QueueGrows ==
  ASSUME TypeOK, NEW s \in Sender, Produce(s), NEW q \in Sender, NEW m \in Msg
  PROVE  /\ m \in Pending(q) => m \in Pending(q)'
         /\ m \in Pending(q)' => m \in Pending(q) \/ (q = s /\ m = send[s].next)
         /\ m = send[s].next => m \in Pending(s)'
<1> DEFINE Q == queue[s]
           x == <<send[s].type, send[s].next>>
<1>1. Q \in Seq(Type \X Msg)
  BY DEF TypeOK
<1>2. x \in Type \X Msg
  BY SendingType DEF Produce, Sending
<1>3. /\ Len(Q) \in Nat /\ Len(Append(Q, x)) = Len(Q) + 1
      /\ \A k \in 1..Len(Q) : Append(Q, x)[k] = Q[k]
      /\ Append(Q, x)[Len(Q) + 1] = x
  BY <1>1, <1>2
<1>4. queue'[s] = Append(Q, x) /\ \A p \in Sender : p # s => queue'[p] = queue[p]
  BY DEF Produce, TypeOK
<1>5. m = send[s].next => m \in Pending(s)'
  <2>1. x[2] = send[s].next
    OBVIOUS
  <2> QED
    BY <1>3, <1>4, <2>1 DEF Pending
<1>6. CASE q # s
  BY <1>4, <1>5, <1>6 DEF Pending
<1>7. CASE q = s
  <2>1. m \in Pending(s) => m \in Pending(s)'
    BY <1>3, <1>4 DEF Pending
  <2>2. m \in Pending(s)' => m \in Pending(s) \/ m = send[s].next
    BY <1>3, <1>4 DEF Pending
  <2> QED
    BY <1>5, <1>7, <2>1, <2>2
<1> QED
  BY <1>6, <1>7

\* A step that adds no message to a list or a queue.
LEMMA NothingNew ==
  ASSUME TypeOK, SendInv, Logged \subseteq Logged', UNCHANGED <<made, lists>>,
         \A q \in Sender : Pending(q)' \subseteq Pending(q),
         \A m \in Logged' : m \in Logged \/ \E q \in Sender : m \in Pending(q)
  PROVE  /\ (\A m \in Logged : m <= made)'
         /\ (\A q \in Sender : \A m \in Pending(q) : m <= made)'
         /\ (\A l \in lists : l[2] <= made)'
         /\ InOrder'
<1>1. (\A m \in Logged : m <= made)' /\ (\A q \in Sender : \A m \in Pending(q) : m <= made)'
  BY DEF SendInv, ListsApart
<1>2. (\A l \in lists : l[2] <= made)'
  BY DEF SendInv, ListsApart
<1>3. InOrder'
  <2>1. \A l \in lists : \A i, j \in l[1]..l[2] :
          i < j /\ (j \in Logged' \/ \E q \in Sender : j \in Pending(q)') => i \in Logged'
    BY DEF SendInv, InOrder
  <2> QED
    BY <2>1 DEF InOrder
<1> QED
  BY <1>1, <1>2, <1>3

\* The end of a wait, with what the two kinds of wait have in common.
LEMMA ServedStep ==
  ASSUME TypeOK, SendInv, NEW s \in Sender, send[s].step = "wait", Served(s),
         send[s].method = "sync" => queue[s] = <<>> \/ undelivered[s] # {}
  PROVE  SendInv'
<1> DEFINE c == send[s]
           ends == undelivered[s] # {} \/ c.next = c.last
           next == [c EXCEPT !.step = "produce", !.next = @ + 1]
<1>1. c \in Sending /\ c.next <= c.last
  BY SendingType
<1>2. Logged' = Logged /\ (\A q \in Sender : Pending(q)' = Pending(q)) /\ UNCHANGED <<made, lists>>
  BY DEF Served, Logged, Pending
<1>3. ASSUME undelivered[s] = {}, c.method = "sync"
      PROVE  c.first..c.next \subseteq Logged
  <2>1. Pending(s) = {}
    BY <1>3 DEF Pending
  <2>2. c.next \in Logged /\ c.first..(c.next - 1) \subseteq Logged
    BY <1>3, <2>1 DEF SendInv, SyncUnderway
  <2> QED
    BY <1>1, <2>2 DEF Sending, Msg
<1>4. sent' \subseteq Logged'
  BY <1>2, <1>3 DEF Served, SendInv
<1>5. /\ (\A m \in Logged : m <= made)'
      /\ (\A q \in Sender : \A m \in Pending(q) : m <= made)'
      /\ (\A l \in lists : l[2] <= made)'
      /\ InOrder'
  BY <1>2, NothingNew
<1>6. \A q \in Sender : q # s => send'[q] = send[q] /\ undelivered'[q] = undelivered[q]
  BY DEF Served, TypeOK
<1>7. CASE ends
  <2>1. send'[s].step = "idle"
    BY <1>7 DEF Served, TypeOK, NoSend
  <2>2. ListsApart'
    BY <1>2, <1>5, <1>6, <2>1 DEF SendInv, ListsApart
  <2>3. SyncUnderway'
    BY <1>2, <1>6, <2>1 DEF SendInv, SyncUnderway
  <2> QED
    BY <1>4, <1>5, <2>2, <2>3 DEF SendInv
<1>8. CASE ~ends
  <2>1. send'[s] = next
    BY <1>8 DEF Served, TypeOK
  <2>2. /\ send'[s].step = "produce" /\ send'[s].method = c.method
        /\ send'[s].first = c.first /\ send'[s].next = c.next + 1 /\ send'[s].last = c.last
    BY <1>1, <2>1 DEF Sending
  <2>3. c.next + 1 <= c.last /\ c.first <= c.next + 1 /\ (c.next + 1) - 1 = c.next
    BY <1>1, <1>8 DEF Sending, Msg, SendInv, ListsApart
  <2>4. ListsApart'
    <3>1. /\ 1 <= c.first /\ c.last <= made
          /\ \A l \in lists : \/ l[2] < c.first \/ l[1] > c.last
                              \/ c.method = "sync" /\ l = <<c.first, c.last>>
      BY DEF SendInv, ListsApart
    <3> QED
      BY <1>2, <1>5, <1>6, <2>2, <2>3, <3>1 DEF SendInv, ListsApart
  <2>5. SyncUnderway'
    BY <1>2, <1>3, <1>6, <1>8, <2>2, <2>3 DEF SendInv, SyncUnderway
  <2> QED
    BY <1>4, <1>5, <2>4, <2>5 DEF SendInv
<1> QED
  BY <1>7, <1>8

LEMMA SendStep == TypeOK /\ SendInv /\ [Next]_vars => SendInv'
<1> SUFFICES ASSUME TypeOK, SendInv, [Next]_vars PROVE SendInv'
  OBVIOUS
<1>1. ASSUME NEW s \in Sender, NEW t \in Type, NEW method \in Methods,
             NEW n \in 1..MaxList, Send(s, t, method, n)
      PROVE  SendInv'
  <2>1. Logged' = Logged /\ \A q \in Sender : Pending(q)' = Pending(q)
    BY <1>1 DEF Send, Logged, Pending
  <2>2. made \in Nat /\ n \in Nat /\ n >= 1 /\ made' = made + n
    BY <1>1, ConstantsAssumption DEF Send, TypeOK
  <2>3. \A m \in Msg : m \in Int
    BY ConstantsAssumption DEF Msg
  <2>4. (\A m \in Logged' : m <= made') /\ (\A q \in Sender : \A m \in Pending(q)' : m <= made')
    <3>1. Logged \subseteq Int /\ \A q \in Sender : Pending(q) \subseteq Int
      BY <2>3 DEF Logged, Pending
    <3> QED
      BY <2>1, <2>2, <3>1 DEF SendInv, ListsApart
  <2>5. lists' \subseteq lists \cup {<<made + 1, made + n>>}
    BY <1>1 DEF Send
  <2>6. \A l \in lists : l[1] \in Msg /\ l[2] \in Msg /\ l[2] <= made
    BY DEF TypeOK, SendInv, ListsApart
  <2>7. \A l \in lists' : l[2] <= made'
    BY <2>2, <2>3, <2>5, <2>6
  <2>8. /\ send'[s].method = method /\ send'[s].step = "produce"
        /\ send'[s].first = made + 1 /\ send'[s].next = made + 1 /\ send'[s].last = made + n
    BY <1>1 DEF Send, TypeOK
  <2>9. \A q \in Sender : q # s => send'[q] = send[q]
    BY <1>1 DEF Send, TypeOK
  <2>10. ListsApart'
    <3>1. ASSUME NEW q \in Sender, send'[q].step # "idle", NEW l \in lists'
          PROVE  \/ l[2] < send'[q].first \/ l[1] > send'[q].last
                 \/ send'[q].method = "sync" /\ l = <<send'[q].first, send'[q].last>>
      <4>1. CASE q = s /\ l \in lists
        BY <2>2, <2>3, <2>6, <2>8, <4>1
      <4>2. CASE q = s /\ l \notin lists
        <5>1. method = "sync" /\ l = <<made + 1, made + n>>
          BY <1>1, <4>2 DEF Send
        <5> QED
          BY <2>8, <4>2, <5>1
      <4>3. CASE q # s /\ l \in lists
        BY <2>9, <3>1, <4>3 DEF SendInv, ListsApart
      <4>4. CASE q # s /\ l \notin lists
        <5>1. l = <<made + 1, made + n>>
          BY <2>5, <4>4
        <5>2. send[q].last <= made /\ send[q].last \in Msg
          BY <2>9, <3>1, <4>4, SendingType DEF SendInv, ListsApart, Sending
        <5> QED
          BY <2>2, <2>3, <2>9, <4>4, <5>1, <5>2
      <4> QED
        BY <4>1, <4>2, <4>3, <4>4
    <3>2. ASSUME NEW q \in Sender, send'[q].step # "idle"
          PROVE  /\ 1 <= send'[q].first /\ send'[q].first <= send'[q].next
                 /\ send'[q].next <= send'[q].last /\ send'[q].last <= made'
      <4>1. CASE q = s
        BY <2>2, <2>8, <4>1
      <4>2. CASE q # s
        <5>1. send[q].last \in Msg
          BY <2>9, <3>2, <4>2, SendingType DEF Sending
        <5> QED
          BY <2>2, <2>3, <2>9, <3>2, <4>2, <5>1 DEF SendInv, ListsApart
      <4> QED
        BY <4>1, <4>2
    <3> QED
      BY <2>4, <2>7, <3>1, <3>2 DEF ListsApart
  <2>11. InOrder'
    <3>1. ASSUME NEW l \in lists', NEW i \in l[1]..l[2], NEW j \in l[1]..l[2], i < j,
                 j \in Logged \/ \E q \in Sender : j \in Pending(q)
          PROVE  i \in Logged
      <4>1. CASE l \in lists
        BY <3>1, <4>1 DEF SendInv, InOrder
      <4>2. CASE l = <<made + 1, made + n>>
        <5>1. j <= made
          BY <3>1 DEF SendInv, ListsApart
        <5> QED
          BY <2>2, <4>2, <5>1
      <4> QED
        BY <2>5, <4>1, <4>2
    <3> QED
      BY <2>1, <3>1 DEF InOrder
  <2>12. SyncUnderway'
    <3>1. \A q \in Sender : undelivered'[q] = undelivered[q]
      BY <1>1 DEF Send
    <3>2. send'[s].first..(send'[s].next - 1) = {}
      BY <2>2, <2>8
    <3> QED
      BY <2>1, <2>8, <2>9, <3>1, <3>2 DEF SendInv, SyncUnderway
  <2> QED
    BY <1>1, <2>1, <2>10, <2>11, <2>12 DEF SendInv, Send
<1>2. ASSUME NEW s \in Sender, Produce(s)
      PROVE  SendInv'
  <2> DEFINE c == send[s]
  <2>1. c \in Sending /\ c.next <= c.last
    BY <1>2, SendingType DEF Produce
  <2>2. Logged' = Logged /\ UNCHANGED <<made, lists, undelivered, sent>>
    BY <1>2 DEF Produce, Logged
  <2>3. /\ \A q \in Sender : Pending(q) \subseteq Pending(q)'
        /\ \A q \in Sender : Pending(q)' \subseteq Pending(q) \cup {c.next}
        /\ c.next \in Pending(s)'
    <3>1. c.next \in Msg
      BY <2>1 DEF Sending
    <3>2. \A q \in Sender : Pending(q) \subseteq Msg /\ Pending(q)' \subseteq Msg
      BY DEF Pending
    <3> QED
      BY <1>2, <3>1, <3>2, QueueGrows
  <2>4. \A q \in Sender : q # s => send'[q] = send[q]
    BY <1>2 DEF Produce, TypeOK
  <2>5. /\ send'[s].step = "wait" /\ send'[s].method = c.method
        /\ send'[s].first = c.first /\ send'[s].next = c.next /\ send'[s].last = c.last
    BY <1>2, <2>1 DEF Produce, Sending, TypeOK
  <2>6. /\ 1 <= c.first /\ c.first <= c.next /\ c.next <= c.last /\ c.last <= made
        /\ \A l \in lists : \/ l[2] < c.first \/ l[1] > c.last
                            \/ c.method = "sync" /\ l = <<c.first, c.last>>
    BY <1>2 DEF Produce, SendInv, ListsApart
  <2>7. c.next <= made
    BY <2>1, <2>6, ConstantsAssumption DEF Sending, Msg, TypeOK
  <2>8. ListsApart'
    <3>1. \A q \in Sender : \A m \in Pending(q)' : m <= made
      BY <2>3, <2>7 DEF SendInv, ListsApart
    <3> QED
      BY <2>2, <2>4, <2>5, <2>6, <3>1 DEF SendInv, ListsApart
  <2>9. InOrder'
    <3>1. ASSUME NEW l \in lists, NEW i \in l[1]..l[2], NEW j \in l[1]..l[2], i < j,
                 j = c.next
          PROVE  i \in Logged
      <4>1. l[1] \in Int /\ l[2] \in Int /\ c.first \in Int /\ c.last \in Int /\ c.next \in Int
        BY <2>1, ConstantsAssumption DEF TypeOK, Sending, Msg
      <4>2. c.method = "sync" /\ l = <<c.first, c.last>>
        BY <2>6, <3>1, <4>1
      <4>3. i \in c.first..(c.next - 1)
        BY <3>1, <4>1, <4>2
      <4> QED
        BY <1>2, <4>2, <4>3 DEF Produce, SendInv, SyncUnderway
    <3>2. ASSUME NEW l \in lists, NEW i \in l[1]..l[2], NEW j \in l[1]..l[2], i < j,
                 j \in Logged \/ \E q \in Sender : j \in Pending(q)'
          PROVE  i \in Logged
      BY <2>3, <3>1, <3>2 DEF SendInv, InOrder
    <3> QED
      BY <2>2, <3>2 DEF InOrder
  <2>10. SyncUnderway'
    BY <1>2, <2>2, <2>3, <2>4, <2>5 DEF Produce, SendInv, SyncUnderway
  <2> QED
    BY <2>2, <2>8, <2>9, <2>10 DEF SendInv
<1>3. ASSUME NEW s \in Sender, Flush(s) \/ PollReports(s)
      PROVE  SendInv'
  BY <1>3, ServedStep DEF Flush, PollReports
<1>4. ASSUME NEW s \in Sender, Deliver(s) \/ GiveUp(s)
      PROVE  SendInv'
  <2>1. /\ Head(queue[s])[2] \in Pending(s)
        /\ \A q \in Sender : Pending(q)' \subseteq Pending(q)
        /\ \A q \in Sender : Pending(q) \subseteq Pending(q)' \cup
             (IF q = s THEN {Head(queue[s])[2]} ELSE {})
    <3>1. queue[s] # <<>> /\ queue' = [queue EXCEPT ![s] = Tail(@)]
      BY <1>4 DEF Deliver, GiveUp
    <3>2. \A q \in Sender : Pending(q) \subseteq Msg /\ Pending(q)' \subseteq Msg
      BY DEF Pending
    <3>3. MaxMsg \in Nat /\ Head(queue[s])[2] \in Msg
      <4>1. queue[s] \in Seq(Type \X Msg)
        BY DEF TypeOK
      <4> QED
        BY <3>1, <4>1, ConstantsAssumption
    <3> QED
      BY <3>1, <3>2, <3>3, QueueShrinks
  <2>2. Logged \subseteq Logged' /\ Logged' \subseteq Logged \cup {Head(queue[s])[2]}
    <3>1. CASE Deliver(s)
      BY <3>1, LogGrows DEF Logged
    <3>2. CASE GiveUp(s)
      BY <3>2 DEF GiveUp, Logged
    <3> QED
      BY <1>4, <3>1, <3>2
  <2>3. Head(queue[s])[2] \in Logged' \cup undelivered'[s]
    <3>1. CASE Deliver(s)
      BY <2>1, <3>1, LogGrows DEF Pending
    <3>2. CASE GiveUp(s)
      BY <3>2 DEF GiveUp, TypeOK
    <3> QED
      BY <1>4, <3>1, <3>2
  <2>4. UNCHANGED <<made, lists, send, sent>>
    BY <1>4 DEF Deliver, GiveUp
  <2>5. \A q \in Sender : undelivered[q] \subseteq undelivered'[q]
    BY <1>4 DEF Deliver, GiveUp, TypeOK
  <2>6. /\ (\A m \in Logged : m <= made)'
        /\ (\A q \in Sender : \A m \in Pending(q) : m <= made)'
        /\ (\A l \in lists : l[2] <= made)'
        /\ InOrder'
    BY <2>1, <2>2, <2>4, NothingNew
  <2>7. ListsApart'
    BY <2>4, <2>6 DEF SendInv, ListsApart
  <2>8. SyncUnderway'
    <3>1. \A q \in Sender : Logged \cup Pending(q) \cup undelivered[q]
                            \subseteq Logged' \cup Pending(q)' \cup undelivered'[q]
      BY <2>1, <2>2, <2>3, <2>5
    <3> QED
      BY <2>2, <2>4, <3>1 DEF SendInv, SyncUnderway
  <2> QED
    BY <2>2, <2>4, <2>6, <2>7, <2>8 DEF SendInv
<1>5. ASSUME NEW s \in Sender, SenderCrash(s)
      PROVE  SendInv'
  <2>1. Logged' = Logged /\ UNCHANGED <<made, lists, sent>>
    BY <1>5 DEF SenderCrash, Logged
  <2>2. /\ \A q \in Sender : q # s => /\ Pending(q)' = Pending(q) /\ send'[q] = send[q]
                                      /\ undelivered'[q] = undelivered[q]
        /\ Pending(s)' = {} /\ send'[s].step = "idle"
    BY <1>5 DEF SenderCrash, Pending, TypeOK, NoSend
  <2>3. \A q \in Sender : Pending(q)' \subseteq Pending(q)
    BY <2>2
  <2>4. /\ (\A m \in Logged : m <= made)'
        /\ (\A q \in Sender : \A m \in Pending(q) : m <= made)'
        /\ (\A l \in lists : l[2] <= made)'
        /\ InOrder'
    BY <2>1, <2>3, NothingNew
  <2>5. ListsApart'
    BY <2>1, <2>2, <2>4 DEF SendInv, ListsApart
  <2>6. SyncUnderway'
    BY <2>1, <2>2 DEF SendInv, SyncUnderway
  <2> QED
    BY <2>1, <2>4, <2>5, <2>6 DEF SendInv
<1>6. ASSUME UNCHANGED <<log, sending>>
      PROVE  SendInv'
  <2>1. Logged' = Logged /\ \A q \in Sender : Pending(q)' = Pending(q)
    BY <1>6 DEF sending, Logged, Pending
  <2> QED
    BY <1>6, <2>1 DEF sending, SendInv, ListsApart, InOrder, SyncUnderway
<1>7. ASSUME \/ \E r \in Receiver :
                  \/ \E q \in Request[r] : InitConsumer(r, q)
                  \/ \E t \in Type : Receive(r, t) \/ \E g \in Group : Assign(g, t, r)
                  \/ Handle(r) \/ AutoCommit(r) \/ ReceiverCrash(r)
             \/ \E g \in Group, t \in Type : Revoke(g, t)
             \/ UNCHANGED vars
      PROVE  UNCHANGED <<log, sending>>
  BY <1>7 DEF InitConsumer, Receive, Assign, Handle, AutoCommit, ReceiverCrash, Revoke, vars
<1> QED
  BY <1>1, <1>2, <1>3, <1>4, <1>5, <1>6, <1>7 DEF Next

\* When a sync send() has returned, Kafka has its whole list, and of a list whose
\* send() raised or died it has a prefix: for any senders, types and lists,
\* though the producers of other processes deliver and fail at the same time.
THEOREM SyncSendCorrect == Spec => []SyncSendDurable
<1>1. Init => SendInv
  <2> SUFFICES ASSUME Init PROVE SendInv
    OBVIOUS
  <2>1. Logged = {} /\ \A s \in Sender : Pending(s) = {} /\ send[s].step = "idle"
    BY DEF Init, Logged, Pending, NoSend
  <2> QED
    BY <2>1 DEF Init, SendInv, ListsApart, InOrder, SyncUnderway
<1>2. SendInv => SyncSendDurable
  BY DEF SendInv, InOrder, SyncSendDurable
<1> QED
  BY <1>1, <1>2, TypeCorrect, SendStep, PTL DEF Spec

-----------------------------------------------------------------------------
(* Receiving.                                                              *)

\* commit() of a consumer moves the offsets of the partitions it holds to its
\* positions, and those only.
LEMMA CommitValues ==
  ASSUME TypeOK, NEW r \in Receiver, client[r] # None, Commit(r), NEW g \in Group, NEW t \in Type
  PROVE  committed'[g][t] = IF client[r].group = g /\ assigned[g][t] = r
                            THEN pos[r][t] ELSE committed[g][t]
<1>1. client[r].group \in Group
  BY DEF TypeOK, ConsumerOf
<1> QED
  BY <1>1 DEF Commit, TypeOK

AckInv == ReadIsHandled /\ AckedIsHandled

LEMMA AckStep ==
  Offset = "earliest" /\ TypeOK /\ Membership /\ AckInv /\ [Next]_vars => AckInv'
<1> SUFFICES ASSUME Offset = "earliest", TypeOK, Membership, AckInv, [Next]_vars PROVE AckInv'
  OBVIOUS
<1> USE ConstantsAssumption
<1> DEFINE X(t, k) == [type |-> t, at |-> k]
<1>0. Manual \subseteq Group
  BY DEF Manual
<1>1. ASSUME UNCHANGED receiving
      PROVE  AckInv'
  BY <1>1 DEF receiving, AckInv, ReadIsHandled, AckedIsHandled
<1>2. ASSUME \/ \E s \in Sender :
                  \/ \E t \in Type, method \in Methods, n \in 1..MaxList : Send(s, t, method, n)
                  \/ Produce(s) \/ Flush(s) \/ PollReports(s)
                  \/ Deliver(s) \/ GiveUp(s) \/ SenderCrash(s)
             \/ UNCHANGED vars
      PROVE  UNCHANGED receiving
  BY <1>2 DEF Send, Produce, Flush, PollReports, Served, Deliver, GiveUp, SenderCrash, vars
<1>3. ASSUME NEW r \in Receiver, NEW q \in Request[r], InitConsumer(r, q)
      PROVE  AckInv'
  BY <1>3 DEF InitConsumer, AckInv, ReadIsHandled, AckedIsHandled
<1>4. ASSUME NEW r \in Receiver, NEW t \in Type, Receive(r, t)
      PROVE  AckInv'
  <2>1. UNCHANGED <<assigned, committed, handled, client>>
    BY <1>4 DEF Receive
  <2>2. \A q \in Receiver, u \in Type :
          pos'[q][u] = IF q = r /\ u = t THEN pos[r][t] + 1 ELSE pos[q][u]
    BY <1>4 DEF Receive, TypeOK
  <2>3. \A q \in Receiver : hand'[q] = IF q = r THEN X(t, pos[r][t] + 1) ELSE hand[q]
    BY <1>4 DEF Receive, TypeOK
  <2>4. ASSUME NEW g \in Manual, NEW u \in Type, assigned[g][u] # None,
               NEW k \in 1..pos'[assigned[g][u]][u]
        PROVE  X(u, k) \in handled[g] \cup {hand'[assigned[g][u]]}
    <3>1. assigned[g][u] \in Receiver /\ g \in Group
      BY <1>0, <2>4 DEF TypeOK
    <3>2. CASE assigned[g][u] = r /\ u = t /\ k = pos[r][t] + 1
      BY <2>3, <3>2
    <3>3. CASE ~(assigned[g][u] = r /\ u = t /\ k = pos[r][t] + 1)
      <4>1. pos[assigned[g][u]][u] \in Nat
        BY <3>1 DEF TypeOK
      <4>2. k \in 1..pos[assigned[g][u]][u]
        BY <2>2, <2>4, <3>1, <3>3, <4>1
      <4>3. X(u, k) \in handled[g] \cup {hand[assigned[g][u]]}
        BY <2>4, <4>2 DEF AckInv, ReadIsHandled
      <4>4. X(u, k) \in [type : Type, at : Nat]
        BY <4>1, <4>2
      <4>5. hand[r] = None
        BY <1>4 DEF Receive
      <4>6. hand[r] # X(u, k)
        BY <4>4, <4>5
      <4> HIDE DEF X
      <4> QED
        BY <2>3, <3>1, <4>3, <4>6
    <3> QED
      BY <3>2, <3>3
  <2>5. ReadIsHandled'
    BY <2>1, <2>4 DEF ReadIsHandled, Manual
  <2> QED
    BY <2>1, <2>5 DEF AckInv, AckedIsHandled, Manual
<1>5. ASSUME NEW r \in Receiver, NEW t \in Type, NEW g \in Group, Assign(g, t, r)
      PROVE  AckInv'
  <2>1. UNCHANGED <<committed, handled, client, hand>>
    BY <1>5 DEF Assign
  <2>2. \A q \in Receiver, u \in Type :
          pos'[q][u] = IF q = r /\ u = t THEN Start(g, t) ELSE pos[q][u]
    BY <1>5 DEF Assign, TypeOK
  <2>3. \A h \in Group, u \in Type :
          assigned'[h][u] = IF h = g /\ u = t THEN r ELSE assigned[h][u]
    BY <1>5 DEF Assign, TypeOK
  <2>4. ASSUME NEW h \in Manual, NEW u \in Type, assigned'[h][u] # None,
               NEW k \in 1..pos'[assigned'[h][u]][u]
        PROVE  X(u, k) \in handled[h] \cup {hand[assigned'[h][u]]}
    <3>1. CASE h = g /\ u = t
      <4>1. k \in 1..Start(g, t)
        BY <2>2, <2>3, <2>4, <3>1
      <4>2. committed[g][t] # None /\ Start(g, t) = committed[g][t]
        BY <4>1 DEF Start
      <4> QED
        BY <3>1, <4>1, <4>2, <2>4 DEF AckInv, AckedIsHandled
    <3>2. CASE ~(h = g /\ u = t)
      <4>1. h \in Group
        BY <1>0
      <4>2. assigned'[h][u] = assigned[h][u]
        BY <2>3, <3>2, <4>1
      <4>3. assigned[h][u] \in Receiver
        BY <2>4, <4>1, <4>2 DEF TypeOK
      <4>4. client[assigned[h][u]].group = h /\ client[r].group = g
        BY <1>5, <2>4, <4>1, <4>2 DEF Assign, Membership
      <4>5. pos'[assigned[h][u]][u] = pos[assigned[h][u]][u]
        BY <2>2, <3>2, <4>3, <4>4
      <4> QED
        BY <2>4, <4>2, <4>5 DEF AckInv, ReadIsHandled
    <3> QED
      BY <3>1, <3>2
  <2>5. ReadIsHandled'
    BY <2>1, <2>4 DEF ReadIsHandled, Manual
  <2> QED
    BY <2>1, <2>5 DEF AckInv, AckedIsHandled, Manual
<1>6. ASSUME NEW r \in Receiver, Handle(r)
      PROVE  AckInv'
  <2> DEFINE g == client[r].group
  <2>1. client[r] # None /\ client[r] \in Request[r] /\ g \in Group
    BY <1>6 DEF Handle, Membership, TypeOK, ConsumerOf
  <2>2. UNCHANGED <<client, assigned, pos>>
    BY <1>6 DEF Handle
  <2>3. /\ \A h \in Group : handled[h] \subseteq handled'[h]
        /\ hand[r] \in handled'[g]
        /\ \A q \in Receiver : q # r => hand'[q] = hand[q]
    BY <1>6, <2>1 DEF Handle, TypeOK
  <2>4. ASSUME NEW h \in Manual, NEW u \in Type, assigned[h][u] # None,
               NEW k \in 1..pos[assigned[h][u]][u]
        PROVE  /\ X(u, k) \in handled'[h] \cup {hand'[assigned[h][u]]}
               /\ assigned[h][u] = r => X(u, k) \in handled'[h]
    <3>1. h \in Group
      BY <1>0
    <3>2. X(u, k) \in handled[h] \cup {hand[assigned[h][u]]}
      BY <2>4 DEF AckInv, ReadIsHandled
    <3>3. assigned[h][u] \in Receiver /\ (assigned[h][u] = r => h = g)
      BY <2>4, <3>1 DEF Membership, TypeOK
    <3> HIDE DEF X, g
    <3> QED
      BY <2>3, <3>1, <3>2, <3>3
  <2>5. ASSUME NEW h \in Manual, NEW u \in Type, committed'[h][u] # None,
               NEW k \in 1..committed'[h][u]
        PROVE  X(u, k) \in handled'[h]
    <3>1. h \in Group
      BY <1>0
    <3>2. CASE committed'[h][u] = committed[h][u]
      BY <2>3, <2>5, <3>1, <3>2 DEF AckInv, AckedIsHandled
    <3>3. CASE committed'[h][u] # committed[h][u]
      <4>1. Commit(r)
        BY <1>6, <3>3 DEF Handle
      <4>2. assigned[h][u] = r /\ committed'[h][u] = pos[r][u]
        BY <2>1, <3>1, <3>3, <4>1, CommitValues
      <4> QED
        BY <2>4, <2>5, <4>2
    <3> QED
      BY <3>2, <3>3
  <2>6. ReadIsHandled'
    BY <2>2, <2>4 DEF ReadIsHandled, Manual
  <2>7. AckedIsHandled'
    BY <2>5 DEF AckedIsHandled, Manual
  <2> QED
    BY <2>6, <2>7 DEF AckInv
<1>7. ASSUME NEW r \in Receiver, AutoCommit(r)
      PROVE  AckInv'
  <2>1. client[r] # None /\ client[r].auto /\ client[r] \in Request[r]
    BY <1>7 DEF AutoCommit, TypeOK
  <2>2. client[r].group \notin Manual
    BY <2>1 DEF Manual
  <2>3. \A h \in Manual, u \in Type : committed'[h][u] = committed[h][u]
    BY <1>0, <1>7, <2>1, <2>2, CommitValues DEF AutoCommit
  <2>4. UNCHANGED <<client, assigned, pos, hand, handled>>
    BY <1>7 DEF AutoCommit
  <2> QED
    BY <2>3, <2>4 DEF AckInv, ReadIsHandled, AckedIsHandled, Manual
<1>8. ASSUME NEW r \in Receiver, ReceiverCrash(r)
      PROVE  AckInv'
  <2>1. \A h \in Group, u \in Type :
          assigned'[h][u] = IF assigned[h][u] = r THEN None ELSE assigned[h][u]
    BY <1>8 DEF ReceiverCrash
  <2>2. UNCHANGED <<pos, committed, handled>> /\ \A q \in Receiver : q # r => hand'[q] = hand[q]
    BY <1>8 DEF ReceiverCrash, TypeOK
  <2>3. ReadIsHandled'
    <3>1. ASSUME NEW h \in Manual, NEW u \in Type, assigned'[h][u] # None
          PROVE  /\ assigned'[h][u] = assigned[h][u]
                 /\ hand'[assigned[h][u]] = hand[assigned[h][u]]
      BY <1>0, <2>1, <2>2, <3>1 DEF TypeOK
    <3> QED
      BY <2>2, <3>1 DEF AckInv, ReadIsHandled, Manual
  <2> QED
    BY <2>2, <2>3 DEF AckInv, AckedIsHandled, Manual
<1>9. ASSUME NEW g \in Group, NEW t \in Type, Revoke(g, t)
      PROVE  AckInv'
  <2>1. \A h \in Group, u \in Type :
          assigned'[h][u] = IF h = g /\ u = t THEN None ELSE assigned[h][u]
    BY <1>9 DEF Revoke, TypeOK
  <2>2. UNCHANGED <<pos, committed, handled, hand>>
    BY <1>9 DEF Revoke
  <2>3. ReadIsHandled'
    <3>1. ASSUME NEW h \in Manual, NEW u \in Type, assigned'[h][u] # None
          PROVE  assigned'[h][u] = assigned[h][u]
      BY <1>0, <2>1, <3>1
    <3> QED
      BY <2>2, <3>1 DEF AckInv, ReadIsHandled, Manual
  <2> QED
    BY <2>2, <2>3 DEF AckInv, AckedIsHandled, Manual
<1> QED
  BY <1>1, <1>2, <1>3, <1>4, <1>5, <1>6, <1>7, <1>8, <1>9 DEF Next

\* Consumers that start at the earliest message and acknowledge: whatever is
\* committed was handled, for any receivers, groups and types, and however they
\* die, lose partitions and take over.
THEOREM AckedCorrect ==
  ASSUME Offset = "earliest"
  PROVE  Spec => []AckedIsHandled
<1>1. Init => AckInv
  BY DEF Init, AckInv, ReadIsHandled, AckedIsHandled, Manual
<1>2. TypeOK /\ Membership /\ AckInv /\ [Next]_vars => AckInv'
  BY AckStep
<1>3. AckInv => AckedIsHandled
  BY DEF AckInv
<1> QED
  BY <1>1, <1>2, <1>3, TypeCorrect, PTL DEF Spec

\* A step other than a crash: what it leaves out was left out before.
LEMMA GapStable ==
  ASSUME Offset = "earliest", TypeOK, Membership, [Next]_vars,
         \A r \in Receiver : ~ReceiverCrash(r), NEW g \in Group
  PROVE  Gap(g)' \subseteq Gap(g)
<1> USE ConstantsAssumption
<1>0. SUFFICES ASSUME NEW x \in [type : Type, at : Msg],
                      Passed(g, x)', x \notin handled'[g], ~Held(g, x)'
               PROVE  Passed(g, x) /\ x \notin handled[g] /\ ~Held(g, x)
  BY DEF Gap
<1> x.type \in Type /\ x.at \in Nat /\ x # None /\ x = [type |-> x.type, at |-> x.at]
  BY DEF Msg
<1>1. ASSUME UNCHANGED receiving
      PROVE  Passed(g, x) /\ x \notin handled[g] /\ ~Held(g, x)
  BY <1>0, <1>1 DEF receiving, Passed, Held
<1>2. ASSUME \/ \E s \in Sender :
                  \/ \E t \in Type, method \in Methods, n \in 1..MaxList : Send(s, t, method, n)
                  \/ Produce(s) \/ Flush(s) \/ PollReports(s)
                  \/ Deliver(s) \/ GiveUp(s) \/ SenderCrash(s)
             \/ UNCHANGED vars
      PROVE  UNCHANGED receiving
  BY <1>2 DEF Send, Produce, Flush, PollReports, Served, Deliver, GiveUp, SenderCrash, vars
<1>3. ASSUME NEW r \in Receiver, NEW q \in Request[r], InitConsumer(r, q)
      PROVE  Passed(g, x) /\ x \notin handled[g] /\ ~Held(g, x)
  <2>1. \A p \in Receiver : hand'[p] = hand[p] /\ (client[p] # None => client'[p] = client[p])
    BY <1>3 DEF InitConsumer, TypeOK
  <2>2. ~Held(g, x)
    BY <1>0, <2>1 DEF Held
  <2> QED
    BY <1>0, <1>3, <2>2 DEF InitConsumer, Passed
<1>4. ASSUME NEW r \in Receiver, NEW t \in Type, Receive(r, t)
      PROVE  Passed(g, x) /\ x \notin handled[g] /\ ~Held(g, x)
  <2>1. UNCHANGED <<assigned, committed, handled, client>>
    BY <1>4 DEF Receive
  <2>2. \A q \in Receiver, u \in Type :
          pos'[q][u] = IF q = r /\ u = t THEN pos[r][t] + 1 ELSE pos[q][u]
    BY <1>4 DEF Receive, TypeOK
  <2>3. /\ hand'[r] = [type |-> t, at |-> pos[r][t] + 1] /\ hand[r] = None
        /\ \A q \in Receiver : q # r => hand'[q] = hand[q]
    BY <1>4 DEF Receive, TypeOK
  <2>4. ~Held(g, x)
    BY <1>0, <2>1, <2>3 DEF Held
  <2>5. Passed(g, x)
    <3>1. CASE committed[g][x.type] # None /\ x.at <= committed[g][x.type]
      BY <3>1 DEF Passed
    <3>2. CASE assigned[g][x.type] # None /\ x.at <= pos'[assigned[g][x.type]][x.type]
      <4>1. assigned[g][x.type] \in Receiver
        BY <3>2 DEF TypeOK
      <4>2. CASE assigned[g][x.type] = r /\ x.type = t /\ x.at = pos[r][t] + 1
        <5>1. x = hand'[r]
          BY <2>3, <4>2
        <5>2. client[r] # None /\ client[r].group = g
          BY <3>2, <4>2 DEF Membership
        <5> QED
          BY <1>0, <2>1, <5>1, <5>2 DEF Held
      <4>3. CASE ~(assigned[g][x.type] = r /\ x.type = t /\ x.at = pos[r][t] + 1)
        <5>1. pos[assigned[g][x.type]][x.type] \in Nat
          BY <4>1 DEF TypeOK
        <5>2. x.at <= pos[assigned[g][x.type]][x.type]
          BY <2>2, <3>2, <4>1, <4>3, <5>1
        <5> QED
          BY <3>2, <5>2 DEF Passed
      <4> QED
        BY <4>2, <4>3
    <3> QED
      BY <1>0, <2>1, <3>1, <3>2 DEF Passed
  <2> QED
    BY <1>0, <2>1, <2>4, <2>5
<1>5. ASSUME NEW r \in Receiver, NEW t \in Type, NEW h \in Group, Assign(h, t, r)
      PROVE  Passed(g, x) /\ x \notin handled[g] /\ ~Held(g, x)
  <2>1. UNCHANGED <<committed, handled, client, hand>>
    BY <1>5 DEF Assign
  <2>2. \A q \in Receiver, u \in Type :
          pos'[q][u] = IF q = r /\ u = t THEN Start(h, t) ELSE pos[q][u]
    BY <1>5 DEF Assign, TypeOK
  <2>3. \A f \in Group, u \in Type :
          assigned'[f][u] = IF f = h /\ u = t THEN r ELSE assigned[f][u]
    BY <1>5 DEF Assign, TypeOK
  <2>4. Passed(g, x)
    <3>1. CASE committed[g][x.type] # None /\ x.at <= committed[g][x.type]
      BY <3>1 DEF Passed
    <3>2. CASE assigned'[g][x.type] # None /\ x.at <= pos'[assigned'[g][x.type]][x.type]
      <4>1. CASE g = h /\ x.type = t
        <5>1. x.at <= Start(g, t) /\ x.at >= 1
          BY <2>2, <2>3, <3>2, <4>1 DEF Msg
        <5> QED
          BY <4>1, <5>1 DEF Start, Passed
      <4>2. CASE ~(g = h /\ x.type = t)
        <5>1. assigned'[g][x.type] = assigned[g][x.type] /\ assigned[g][x.type] \in Receiver
          BY <2>3, <3>2, <4>2 DEF TypeOK
        <5>2. client[assigned[g][x.type]].group = g /\ client[r].group = h
          BY <1>5, <3>2, <5>1 DEF Assign, Membership
        <5>3. pos'[assigned[g][x.type]][x.type] = pos[assigned[g][x.type]][x.type]
          BY <2>2, <4>2, <5>1, <5>2
        <5> QED
          BY <3>2, <5>1, <5>3 DEF Passed
      <4> QED
        BY <4>1, <4>2
    <3> QED
      BY <1>0, <2>1, <3>1, <3>2 DEF Passed
  <2> QED
    BY <1>0, <2>1, <2>4 DEF Held
<1>6. ASSUME NEW r \in Receiver, Handle(r) \/ AutoCommit(r)
      PROVE  Passed(g, x) /\ x \notin handled[g] /\ ~Held(g, x)
  <2>1. client[r] # None /\ client[r].group \in Group
    BY <1>6 DEF Handle, AutoCommit, Membership, TypeOK, ConsumerOf
  <2>2. UNCHANGED <<client, assigned, pos>>
    BY <1>6 DEF Handle, AutoCommit
  <2>3. /\ \A f \in Group : handled[f] \subseteq handled'[f]
        /\ \A q \in Receiver : q # r => hand'[q] = hand[q]
        /\ hand'[r] # hand[r] => hand[r] \in handled'[client[r].group]
    <3>1. CASE Handle(r)
      BY <2>1, <3>1 DEF Handle, TypeOK
    <3>2. CASE AutoCommit(r)
      BY <3>2 DEF AutoCommit
    <3> QED
      BY <1>6, <3>1, <3>2
  <2>4. ~Held(g, x)
    BY <1>0, <2>2, <2>3 DEF Held
  <2>5. committed'[g][x.type] # committed[g][x.type] =>
          assigned[g][x.type] = r /\ committed'[g][x.type] = pos[r][x.type]
    <3>1. committed' = committed \/ Commit(r)
      BY <1>6 DEF Handle, AutoCommit
    <3> QED
      BY <2>1, <3>1, CommitValues
  <2>6. Passed(g, x)
    BY <1>0, <2>2, <2>5 DEF Passed
  <2> QED
    BY <1>0, <2>3, <2>4, <2>6
<1>7. ASSUME NEW h \in Group, NEW t \in Type, Revoke(h, t)
      PROVE  Passed(g, x) /\ x \notin handled[g] /\ ~Held(g, x)
  <2>1. \A f \in Group, u \in Type :
          assigned'[f][u] = IF f = h /\ u = t THEN None ELSE assigned[f][u]
    BY <1>7 DEF Revoke, TypeOK
  <2>2. UNCHANGED <<client, pos, committed, hand, handled>>
    BY <1>7 DEF Revoke
  <2>3. assigned'[g][x.type] # None => assigned'[g][x.type] = assigned[g][x.type]
    BY <2>1
  <2>4. Passed(g, x)
    BY <1>0, <2>2, <2>3 DEF Passed
  <2> QED
    BY <1>0, <2>2, <2>4 DEF Held
<1> QED
  BY <1>1, <1>2, <1>3, <1>4, <1>5, <1>6, <1>7 DEF Next

\* A crash leaves out the message that the receiver held, and no other.
LEMMA GapAtCrash ==
  ASSUME TypeOK, NEW r \in Receiver, ReceiverCrash(r), NEW g \in Group
  PROVE  Gap(g)' \subseteq Gap(g) \cup {hand[r]}
<1>1. ASSUME NEW x \in [type : Type, at : Msg], x # hand[r],
             Passed(g, x)', x \notin handled'[g], ~Held(g, x)'
      PROVE  Passed(g, x) /\ x \notin handled[g] /\ ~Held(g, x)
  <2>1. UNCHANGED <<pos, committed, handled>>
    BY <1>1 DEF ReceiverCrash
  <2>2. \A q \in Receiver : q # r => hand'[q] = hand[q] /\ client'[q] = client[q]
    BY DEF ReceiverCrash, TypeOK
  <2>3. assigned'[g][x.type] # None => assigned'[g][x.type] = assigned[g][x.type]
    BY DEF ReceiverCrash
  <2>4. ~Held(g, x)
    BY <1>1, <2>2 DEF Held
  <2>5. Passed(g, x)
    BY <1>1, <2>1, <2>3 DEF Passed
  <2> QED
    BY <1>1, <2>1, <2>4, <2>5
<1> QED
  BY <1>1 DEF Gap

LEMMA GapStep ==
  Offset = "earliest" /\ TypeOK /\ Membership /\ GapBounded /\ [Next]_vars => GapBounded'
<1> SUFFICES ASSUME Offset = "earliest", TypeOK, Membership, GapBounded, [Next]_vars,
                    NEW g \in Group
             PROVE  IsFiniteSet(Gap(g)') /\ Cardinality(Gap(g)') <= crashes'
  BY DEF GapBounded
<1>1. crashes \in Nat /\ crashes' \in Nat /\ TypeOK'
  BY TypeStep, ConstantsAssumption DEF TypeOK
<1>2. IsFiniteSet(Gap(g)) /\ Cardinality(Gap(g)) <= crashes
  BY DEF GapBounded
<1>3. CASE \E r \in Receiver : ReceiverCrash(r)
  <2>1. PICK r \in Receiver : ReceiverCrash(r)
    BY <1>3
  <2>2. crashes' = crashes + 1
    BY <2>1 DEF ReceiverCrash
  <2>3. /\ IsFiniteSet(Gap(g) \cup {hand[r]})
        /\ \/ Cardinality(Gap(g) \cup {hand[r]}) = Cardinality(Gap(g))
           \/ Cardinality(Gap(g) \cup {hand[r]}) = Cardinality(Gap(g)) + 1
    BY <1>2, FS_AddElement
  <2>4. Gap(g)' \subseteq Gap(g) \cup {hand[r]}
    BY <2>1, GapAtCrash
  <2>5. /\ IsFiniteSet(Gap(g)')
        /\ Cardinality(Gap(g)') <= Cardinality(Gap(g) \cup {hand[r]})
    BY <2>3, <2>4, FS_Subset
  <2>6. Cardinality(Gap(g)) \in Nat /\ Cardinality(Gap(g)') \in Nat
    BY <1>2, <2>5, FS_CardinalityType
  <2> QED
    BY <1>1, <1>2, <2>2, <2>3, <2>5, <2>6
<1>4. CASE \A r \in Receiver : ~ReceiverCrash(r)
  <2>1. Gap(g)' \subseteq Gap(g)
    BY <1>4, GapStable
  <2>2. IsFiniteSet(Gap(g)') /\ Cardinality(Gap(g)') <= Cardinality(Gap(g))
    BY <1>2, <2>1, FS_Subset
  <2>3. Cardinality(Gap(g)) \in Nat /\ Cardinality(Gap(g)') \in Nat
    BY <1>2, <2>2, FS_CardinalityType
  <2>4. crashes <= crashes'
    <3>1. crashes' = crashes \/ crashes' = crashes + 1
      <4>1. CASE UNCHANGED vars
        BY <4>1 DEF vars, faults
      <4>2. ASSUME NEW s \in Sender,
                   \/ \E t \in Type, method \in Methods, n \in 1..MaxList : Send(s, t, method, n)
                   \/ Produce(s) \/ Flush(s) \/ PollReports(s)
                   \/ Deliver(s) \/ GiveUp(s) \/ SenderCrash(s)
            PROVE  crashes' = crashes \/ crashes' = crashes + 1
        BY <4>2 DEF faults, Send, Produce, Flush, PollReports, Served, Deliver, GiveUp,
           SenderCrash
      <4>3. ASSUME NEW r \in Receiver,
                   \/ \E q \in Request[r] : InitConsumer(r, q)
                   \/ \E t \in Type : Receive(r, t) \/ \E h \in Group : Assign(h, t, r)
                   \/ Handle(r) \/ AutoCommit(r)
            PROVE  crashes' = crashes
        BY <4>3 DEF faults, InitConsumer, Receive, Assign, Handle, AutoCommit
      <4>4. ASSUME NEW h \in Group, NEW t \in Type, Revoke(h, t) PROVE crashes' = crashes
        BY <4>4 DEF Revoke
      <4> QED
        BY <1>4, <4>1, <4>2, <4>3, <4>4 DEF Next
    <3> QED
      BY <1>1, <3>1
  <2> QED
    BY <1>1, <1>2, <2>2, <2>3, <2>4
<1> QED
  BY <1>3, <1>4

\* Consumers that start at the earliest message: what a group goes past without
\* handling it is at most one message for each crash, with auto_ack too and for
\* any receivers, groups and types.
THEOREM LossCorrect ==
  ASSUME Offset = "earliest"
  PROVE  Spec => []AtMostOneLostPerCrash
<1>1. Init => GapBounded
  <2> SUFFICES ASSUME Init, NEW g \in Group
               PROVE  IsFiniteSet(Gap(g)) /\ Cardinality(Gap(g)) <= crashes
    BY DEF GapBounded
  <2>1. Gap(g) = {}
    BY DEF Init, Gap, Passed
  <2> QED
    BY <2>1, FS_EmptySet DEF Init
<1>2. TypeOK /\ Membership /\ GapBounded /\ [Next]_vars => GapBounded'
  BY GapStep
<1>3. TypeOK /\ GapBounded => AtMostOneLostPerCrash
  <2> SUFFICES ASSUME TypeOK, GapBounded, NEW g \in Group
               PROVE  Cardinality({x \in [type : Type, at : Msg] :
                        /\ committed[g][x.type] # None /\ x.at <= committed[g][x.type]
                        /\ x \notin handled[g] /\ ~Held(g, x)}) <= crashes
    BY DEF AtMostOneLostPerCrash
  <2> DEFINE skipped == {x \in [type : Type, at : Msg] :
                          /\ committed[g][x.type] # None /\ x.at <= committed[g][x.type]
                          /\ x \notin handled[g] /\ ~Held(g, x)}
  <2>1. skipped \subseteq Gap(g)
    BY DEF Gap, Passed
  <2>2. IsFiniteSet(Gap(g)) /\ Cardinality(Gap(g)) <= crashes
    BY DEF GapBounded
  <2> HIDE DEF skipped
  <2>3. IsFiniteSet(skipped) /\ Cardinality(skipped) <= Cardinality(Gap(g))
    BY <2>1, <2>2, FS_Subset
  <2>4. Cardinality(skipped) \in Nat /\ Cardinality(Gap(g)) \in Nat /\ crashes \in Nat
    BY <2>2, <2>3, FS_CardinalityType, ConstantsAssumption DEF TypeOK
  <2>5. Cardinality(skipped) <= crashes
    BY <2>2, <2>3, <2>4
  <2> QED
    BY <2>5 DEF skipped
<1> QED
  BY <1>1, <1>2, <1>3, TypeCorrect, PTL DEF Spec
=============================================================================
