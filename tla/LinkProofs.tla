------------------------------ MODULE LinkProofs ------------------------------
(* What Link promises of the messages it sends: none is sent twice, and what  *)
(* one sender sends without urgency goes in the order it was accepted.        *)
EXTENDS Link, SequenceTheorems, TLAPS

(* A message is one of those accepted.                                        *)
Accepted(msg) == msg.m \in 1 .. count

(* Every variable has its type, and every message was accepted.               *)
Types ==
  /\ up \in BOOLEAN /\ session \in Nat /\ count \in Nat
  /\ queue \in Seq(Message) /\ wire \in Seq(Sent)
  /\ hand \in [DOMAIN hand -> Message] /\ DOMAIN hand \subseteq Nat
  /\ \A i \in DOMAIN queue : Accepted(queue[i])
  /\ \A s \in Busy : Accepted(hand[s])
  /\ \A i \in DOMAIN wire : Accepted(wire[i])

(* A message is in one place only: in the queue, in a hand, or sent.          *)
OnePlace ==
  /\ \A i, j \in DOMAIN queue : queue[i].m = queue[j].m => i = j
  /\ \A s, t \in Busy : hand[s].m = hand[t].m => s = t
  /\ \A i, j \in DOMAIN wire : wire[i].m = wire[j].m => i = j
  /\ \A i \in DOMAIN queue, s \in Busy : queue[i].m # hand[s].m
  /\ \A i \in DOMAIN queue, j \in DOMAIN wire : queue[i].m # wire[j].m
  /\ \A s \in Busy, j \in DOMAIN wire : hand[s].m # wire[j].m

(* Of what is not urgent: the queue is in the order of its numbers, behind    *)
(* what was taken from it; and each sender's messages are in that order.      *)
InOrder ==
  /\ \A i, j \in DOMAIN queue :
       i < j /\ ~queue[i].urgent /\ ~queue[j].urgent => queue[i].m < queue[j].m
  /\ \A i \in DOMAIN queue, s \in Busy :
       ~queue[i].urgent /\ ~hand[s].urgent => hand[s].m < queue[i].m
  /\ \A i \in DOMAIN queue, j \in DOMAIN wire :
       ~queue[i].urgent /\ ~wire[j].urgent => wire[j].m < queue[i].m
  /\ \A s \in Busy, j \in DOMAIN wire :
       ~hand[s].urgent /\ ~wire[j].urgent /\ wire[j].by = s => wire[j].m < hand[s].m
  /\ OrderKept

IInv == Types /\ OnePlace /\ InOrder

----------------------------------------------------------------------------
(* The initial state has no message.                                          *)
LEMMA InitIInv == Init => IInv
<1> SUFFICES ASSUME Init PROVE IInv
  OBVIOUS
<1> USE DEF Init
<1>1. DOMAIN hand = {} /\ Busy = {} /\ DOMAIN queue = {} /\ DOMAIN wire = {}
  BY DEF Busy
<1>e. \A S : << >> \in Seq(S)
  BY EmptySeq
<1>h. hand \in [DOMAIN hand -> Message]
  BY <1>1
<1>2. Types
  BY <1>1, <1>e, <1>h DEF Types
<1>3. OnePlace
  BY <1>1 DEF OnePlace
<1>4. InOrder
  BY <1>1 DEF InOrder, OrderKept
<1> QED
  BY <1>2, <1>3, <1>4 DEF IInv

(* A step that changes no message and no place keeps the invariant.           *)
LEMMA Same ==
  ASSUME IInv, UNCHANGED <<count, queue, hand, wire>>,
         up' \in BOOLEAN, session' \in Nat
  PROVE  IInv'
<1>1. Busy' = Busy
  BY DEF Busy
<1>2. Types'
  BY <1>1 DEF IInv, Types, Accepted
<1>3. OnePlace'
  BY <1>1 DEF IInv, OnePlace
<1>4. InOrder'
  BY <1>1 DEF IInv, InOrder, OrderKept
<1> QED
  BY <1>2, <1>3, <1>4 DEF IInv

(* Fewer messages: the queue is emptied or not, and some hands go or come     *)
(* empty.                                                                     *)
LEMMA Fewer ==
  ASSUME IInv, queue' \in {queue, << >>},
         hand' \in [DOMAIN hand' -> Message], DOMAIN hand' \subseteq Nat,
         \A s \in Busy' : s \in Busy /\ hand'[s] = hand[s],
         UNCHANGED <<up, session, count, wire>>
  PROVE  IInv'
<1>1. \A i \in DOMAIN queue' : i \in DOMAIN queue /\ queue'[i] = queue[i]
  OBVIOUS
<1>2. queue' \in Seq(Message)
  <2>1. queue \in Seq(Message)
    BY DEF IInv, Types
  <2>2. << >> \in Seq(Message)
    BY EmptySeq
  <2> QED
    BY <2>1, <2>2
<1>3. Types'
  BY <1>1, <1>2 DEF IInv, Types, Accepted
<1>4. OnePlace'
  BY <1>1 DEF IInv, OnePlace
<1>5. InOrder'
  BY <1>1 DEF IInv, InOrder, OrderKept
<1> QED
  BY <1>3, <1>4, <1>5 DEF IInv

(* write: a new message, in front of the queue or behind it.                  *)
LEMMA AcceptStep ==
  ASSUME IInv, NEW u \in BOOLEAN, Accept(u)
  PROVE  IInv'
<1> DEFINE msg == [m |-> count + 1, urgent |-> u]
<1>1. /\ count' = count + 1 /\ count \in Nat /\ msg \in Message
      /\ UNCHANGED <<up, session, hand, wire>>
  BY DEF Accept, IInv, Types, Message
<1>2. Busy' = Busy
  BY <1>1 DEF Busy
<1>q. queue \in Seq(Message)
  BY DEF IInv, Types
<1>b. /\ \A i \in DOMAIN queue : queue[i].m \in Nat /\ queue[i].m < count + 1
      /\ \A s \in Busy : hand[s].m \in Nat /\ hand[s].m < count + 1
      /\ \A i \in DOMAIN wire : wire[i].m \in Nat /\ wire[i].m < count + 1
  BY <1>1 DEF IInv, Types, Accepted
<1>p. /\ \A i \in DOMAIN queue : queue[i].m >= 1
      /\ \A s \in Busy : hand[s].m >= 1
      /\ \A i \in DOMAIN wire : wire[i].m >= 1
  BY <1>1 DEF IInv, Types, Accepted
<1>t. /\ up \in BOOLEAN /\ session \in Nat /\ wire \in Seq(Sent)
      /\ hand \in [DOMAIN hand -> Message] /\ DOMAIN hand \subseteq Nat
  BY DEF IInv, Types
<1>o. OnePlace /\ InOrder
  BY DEF IInv
<1>3. CASE u
  <2>1. queue' = <<msg>> \o queue
    BY <1>3 DEF Accept
  <2>2. /\ queue' \in Seq(Message) /\ Len(queue') = Len(queue) + 1
        /\ queue'[1] = msg
        /\ \A i \in DOMAIN queue' : i # 1 => i - 1 \in DOMAIN queue /\ queue'[i] = queue[i - 1]
        /\ DOMAIN queue' = 1 .. Len(queue') /\ DOMAIN queue = 1 .. Len(queue)
    BY <2>1, <1>1, <1>q
  <2> HIDE DEF msg
  <2>m. msg.m = count + 1 /\ msg.urgent
    BY <1>3 DEF msg
  <2>3. Types'
    <3>1. \A i \in DOMAIN queue' : queue'[i].m \in 1 .. (count + 1)
      BY <2>2, <2>m, <1>b, <1>1, <1>p
    <3>2. /\ \A s \in Busy : hand[s].m \in 1 .. (count + 1)
          /\ \A i \in DOMAIN wire : wire[i].m \in 1 .. (count + 1)
      BY <1>b, <1>1, <1>p
    <3> QED
      BY <3>1, <3>2, <2>2, <1>1, <1>2, <1>t DEF Types, Accepted
  <2>4. OnePlace'
    <3>1. \A i, j \in DOMAIN queue' : queue'[i].m = queue'[j].m => i = j
      BY <2>2, <2>m, <1>b, <1>o DEF OnePlace
    <3>2. \A i \in DOMAIN queue', s \in Busy : queue'[i].m # hand[s].m
      BY <2>2, <2>m, <1>b, <1>o DEF OnePlace
    <3>3. \A i \in DOMAIN queue', j \in DOMAIN wire : queue'[i].m # wire[j].m
      BY <2>2, <2>m, <1>b, <1>o DEF OnePlace
    <3> QED
      BY <3>1, <3>2, <3>3, <1>1, <1>2, <1>o DEF OnePlace
  <2>5. InOrder'
    <3>1. \A i, j \in DOMAIN queue' : i < j /\ ~queue'[i].urgent /\ ~queue'[j].urgent
                                        => queue'[i].m < queue'[j].m
      <4> SUFFICES ASSUME NEW i \in DOMAIN queue', NEW j \in DOMAIN queue', i < j,
                          ~queue'[i].urgent, ~queue'[j].urgent
                   PROVE  queue'[i].m < queue'[j].m
        OBVIOUS
      <4>1. i # 1 /\ j # 1 /\ i - 1 < j - 1
        BY <2>2, <2>m
      <4>2. i - 1 \in DOMAIN queue /\ queue'[i] = queue[i - 1]
        BY <2>2, <4>1
      <4>3. j - 1 \in DOMAIN queue /\ queue'[j] = queue[j - 1]
        BY <2>2, <4>1
      <4> QED
        BY <4>1, <4>2, <4>3, <1>o DEF InOrder
    <3>2. \A i \in DOMAIN queue', s \in Busy : ~queue'[i].urgent /\ ~hand[s].urgent
                                               => hand[s].m < queue'[i].m
      BY <2>2, <2>m, <1>b, <1>o DEF InOrder
    <3>3. \A i \in DOMAIN queue', j \in DOMAIN wire : ~queue'[i].urgent /\ ~wire[j].urgent
                                                      => wire[j].m < queue'[i].m
      BY <2>2, <2>m, <1>b, <1>o DEF InOrder
    <3> QED
      BY <3>1, <3>2, <3>3, <1>1, <1>2, <1>o DEF InOrder, OrderKept
  <2> QED
    BY <2>3, <2>4, <2>5 DEF IInv
<1>4. CASE ~u
  <2>1. queue' = Append(queue, msg)
    BY <1>4 DEF Accept
  <2>2. /\ queue' \in Seq(Message) /\ Len(queue') = Len(queue) + 1
        /\ queue'[Len(queue) + 1] = msg
        /\ \A i \in DOMAIN queue' : i # Len(queue) + 1 => i \in DOMAIN queue /\ queue'[i] = queue[i]
        /\ DOMAIN queue' = 1 .. Len(queue') /\ DOMAIN queue = 1 .. Len(queue)
    BY <2>1, <1>1, <1>q
  <2> HIDE DEF msg
  <2>m. msg.m = count + 1 /\ msg.urgent = FALSE
    BY <1>4 DEF msg
  <2>3. Types'
    <3>1. \A i \in DOMAIN queue' : queue'[i].m \in 1 .. (count + 1)
      BY <2>2, <2>m, <1>b, <1>1, <1>p
    <3>2. /\ \A s \in Busy : hand[s].m \in 1 .. (count + 1)
          /\ \A i \in DOMAIN wire : wire[i].m \in 1 .. (count + 1)
      BY <1>b, <1>1, <1>p
    <3> QED
      BY <3>1, <3>2, <2>2, <1>1, <1>2, <1>t DEF Types, Accepted
  <2>4. OnePlace'
    <3>1. \A i, j \in DOMAIN queue' : queue'[i].m = queue'[j].m => i = j
      BY <2>2, <2>m, <1>b, <1>o DEF OnePlace
    <3>2. \A i \in DOMAIN queue', s \in Busy : queue'[i].m # hand[s].m
      BY <2>2, <2>m, <1>b, <1>o DEF OnePlace
    <3>3. \A i \in DOMAIN queue', j \in DOMAIN wire : queue'[i].m # wire[j].m
      BY <2>2, <2>m, <1>b, <1>o DEF OnePlace
    <3> QED
      BY <3>1, <3>2, <3>3, <1>1, <1>2, <1>o DEF OnePlace
  <2>5. InOrder'
    <3>1. \A i, j \in DOMAIN queue' : i < j /\ ~queue'[i].urgent /\ ~queue'[j].urgent
                                        => queue'[i].m < queue'[j].m
      BY <2>2, <2>m, <1>b, <1>o, <1>q DEF InOrder
    <3>2. \A i \in DOMAIN queue', s \in Busy : ~queue'[i].urgent /\ ~hand[s].urgent
                                               => hand[s].m < queue'[i].m
      BY <2>2, <2>m, <1>b, <1>o DEF InOrder
    <3>3. \A i \in DOMAIN queue', j \in DOMAIN wire : ~queue'[i].urgent /\ ~wire[j].urgent
                                                      => wire[j].m < queue'[i].m
      BY <2>2, <2>m, <1>b, <1>o DEF InOrder
    <3> QED
      BY <3>1, <3>2, <3>3, <1>1, <1>2, <1>o DEF InOrder, OrderKept
  <2> QED
    BY <2>3, <2>4, <2>5 DEF IInv
<1> QED
  BY <1>3, <1>4

(* A sender takes the first of the queue.                                     *)
LEMMA TakeStep ==
  ASSUME IInv, NEW s \in DOMAIN hand, Take(s)
  PROVE  IInv'
<1>1. /\ s \notin Busy /\ queue # << >> /\ hand' = [hand EXCEPT ![s] = Head(queue)]
      /\ queue' = Tail(queue) /\ UNCHANGED <<up, session, count, wire>>
  BY DEF Take
<1>q. queue \in Seq(Message) /\ DOMAIN queue = 1 .. Len(queue)
  BY DEF IInv, Types
<1>2. /\ 1 \in DOMAIN queue /\ Head(queue) = queue[1] /\ queue[1] \in Message
      /\ queue' \in Seq(Message)
      /\ \A i \in DOMAIN queue' : i \in 1 .. (Len(queue) - 1) /\ i + 1 \in DOMAIN queue /\ queue'[i] = queue[i + 1]
  BY <1>1, <1>q
<1>3. queue[1].m \in 1 .. count /\ count \in Nat
  BY <1>2 DEF IInv, Types, Accepted
<1>4. queue[1] # None
  BY <1>3 DEF None
<1>h. hand \in [DOMAIN hand -> Message]
  BY DEF IInv, Types
<1>5. /\ DOMAIN hand' = DOMAIN hand /\ hand' \in [DOMAIN hand -> Message]
      /\ hand'[s] = queue[1] /\ \A t \in DOMAIN hand : t # s => hand'[t] = hand[t]
  BY <1>1, <1>2, <1>h
<1>6. Busy' = Busy \cup {s}
  BY <1>4, <1>5 DEF Busy
<1>7. Types'
  BY <1>1, <1>2, <1>3, <1>5, <1>6 DEF IInv, Types, Accepted, Busy
<1>8. OnePlace'
  BY <1>1, <1>2, <1>5, <1>6, <1>q DEF IInv, OnePlace, Busy
<1>9. InOrder'
  BY <1>1, <1>2, <1>5, <1>6, <1>q, SMTT(30) DEF IInv, InOrder, OrderKept, Busy
<1> QED
  BY <1>7, <1>8, <1>9 DEF IInv

(* A sender sends what it has taken.                                          *)
LEMMA SendStep ==
  ASSUME IInv, NEW s \in DOMAIN hand, Send(s)
  PROVE  IInv'
<1> DEFINE out == [m |-> hand[s].m, urgent |-> hand[s].urgent, by |-> s, in |-> session]
<1>1. /\ s \in Busy /\ wire' = Append(wire, out) /\ hand' = [hand EXCEPT ![s] = None]
      /\ UNCHANGED <<up, session, count, queue>>
  BY DEF Send
<1>w. /\ wire \in Seq(Sent) /\ hand \in [DOMAIN hand -> Message] /\ s \in Nat /\ session \in Nat
      /\ hand[s] \in Message
  BY DEF IInv, Types
<1>2. out \in Sent
  BY <1>w DEF Sent, Message
<1>3. /\ wire' \in Seq(Sent) /\ Len(wire') = Len(wire) + 1 /\ wire'[Len(wire) + 1] = out
      /\ \A i \in DOMAIN wire' : i # Len(wire) + 1 => i \in DOMAIN wire /\ wire'[i] = wire[i]
      /\ DOMAIN wire' = 1 .. Len(wire') /\ DOMAIN wire = 1 .. Len(wire)
  BY <1>1, <1>2, <1>w
<1>o. out.m = hand[s].m /\ out.urgent = hand[s].urgent /\ out.by = s
  OBVIOUS
<1> HIDE DEF out
<1>5. /\ DOMAIN hand' = DOMAIN hand /\ hand' \in [DOMAIN hand -> Message]
      /\ hand'[s] = None /\ \A t \in DOMAIN hand : t # s => hand'[t] = hand[t]
  BY <1>1, <1>w DEF None, Message
<1>6. Busy' = Busy \ {s}
  BY <1>5 DEF Busy
<1>7. Types'
  BY <1>1, <1>3, <1>o, <1>5, <1>6 DEF IInv, Types, Accepted, Busy
<1>8. OnePlace'
  BY <1>1, <1>3, <1>o, <1>5, <1>6 DEF IInv, OnePlace, Busy
<1>9. InOrder'
  BY <1>1, <1>3, <1>o, <1>5, <1>6, <1>w DEF IInv, InOrder, OrderKept, Busy
<1> QED
  BY <1>7, <1>8, <1>9 DEF IInv

(* Every step keeps the invariant.                                            *)
LEMMA StepIInv == IInv /\ [Next]_vars => IInv'
<1> SUFFICES ASSUME IInv, [Next]_vars PROVE IInv'
  OBVIOUS
<1>t. /\ up \in BOOLEAN /\ session \in Nat /\ DOMAIN hand \subseteq Nat
      /\ hand \in [DOMAIN hand -> Message] /\ None \in Message
  BY DEF IInv, Types, None, Message
<1>1. CASE Connect
  BY <1>1, <1>t, Same DEF Connect
<1>2. CASE Begin
  <2>1. /\ queue' = << >> /\ UNCHANGED <<up, session, count, wire>>
        /\ hand' = [s \in Busy \cup {session} |-> IF s \in Busy THEN hand[s] ELSE None]
        /\ session \notin DOMAIN hand
    BY <1>2 DEF Begin
  <2>2. Busy \subseteq DOMAIN hand
    BY DEF Busy
  <2>3. hand' \in [DOMAIN hand' -> Message] /\ DOMAIN hand' \subseteq Nat
    BY <2>1, <2>2, <1>t
  <2>4. \A s \in Busy' : s \in Busy /\ hand'[s] = hand[s]
    BY <2>1 DEF Busy
  <2> QED
    BY <2>1, <2>3, <2>4, Fewer
<1>3. CASE Drop
  BY <1>3, <1>t, Fewer DEF Drop, Busy
<1>4. CASE Down
  BY <1>4, <1>t, Same DEF Down
<1>5. ASSUME NEW u \in BOOLEAN, Accept(u) PROVE IInv'
  BY <1>5, AcceptStep
<1>6. ASSUME NEW s \in DOMAIN hand, Take(s) PROVE IInv'
  BY <1>6, TakeStep
<1>7. ASSUME NEW s \in DOMAIN hand, Send(s) PROVE IInv'
  BY <1>7, SendStep
<1>8. ASSUME NEW s \in DOMAIN hand, Leave(s) PROVE IInv'
  <2>1. /\ hand' = [o \in DOMAIN hand \ {s} |-> hand[o]]
        /\ UNCHANGED <<up, session, count, queue, wire>>
    BY <1>8 DEF Leave
  <2>2. hand' \in [DOMAIN hand' -> Message] /\ DOMAIN hand' \subseteq Nat
    BY <2>1, <1>t
  <2>3. \A o \in Busy' : o \in Busy /\ hand'[o] = hand[o]
    BY <2>1 DEF Busy
  <2> QED
    BY <2>1, <2>2, <2>3, Fewer
<1>9. CASE UNCHANGED vars
  BY <1>9, <1>t, Same DEF vars
<1> QED
  BY <1>1, <1>2, <1>3, <1>4, <1>5, <1>6, <1>7, <1>8, <1>9 DEF Next

----------------------------------------------------------------------------
(* The invariant holds of every behaviour.                                    *)
THEOREM Invariant == Spec => []IInv
BY InitIInv, StepIInv, PTL DEF Spec

(* No message is sent twice, and none that was not accepted.                  *)
THEOREM NeverTwice == Spec => []AtMostOnce
<1>1. IInv => AtMostOnce
  BY DEF IInv, Types, Accepted, OnePlace, AtMostOnce
<1> QED
  BY <1>1, Invariant, PTL

(* What one sender sends without urgency goes in the order of acceptance.     *)
THEOREM AlwaysInOrder == Spec => []OrderKept
<1>1. IInv => OrderKept
  BY DEF IInv, InOrder
<1> QED
  BY <1>1, Invariant, PTL
==============================================================================
