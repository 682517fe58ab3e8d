-------------------------- MODULE SerialDeviceProofs --------------------------
(* The serial device for every choice of its worlds: it keeps its types, its  *)
(* list of ports is sound, no session's message goes out in another unless    *)
(* errno was a leftover, and it sends what write accepts as Link says.        *)
EXTENDS SerialDevice, PortsProofs

----------------------------------------------------------------------------
(* The messages of a queue, by induction over its length.                     *)
Counts(q, f) ==
  /\ f[0] = << >>
  /\ \A i \in 1 .. Len(q) : f[i] = IF q[i] = END THEN f[i - 1] ELSE Append(f[i - 1], q[i])
  /\ \A i \in 0 .. Len(q) : f[i] \in Seq(Message)

(* Messages is what a pass over the queue ends with.                          *)
LEMMA MessagesIs ==
  ASSUME NEW q, q \in Seq(Message)
  PROVE  \E f : Counts(q, f) /\ Messages(q) = f[Len(q)]
<1> DEFINE N == Len(q)
           S == Seq(Message)
           base == << >>
           Do(b, i) == IF q[i] = END THEN b ELSE Append(b, q[i])
           Step == [i \in 1 .. N |-> [b \in S |-> Do(b, i)]]
           Eq(g) == g = [i \in 0 .. N |-> IF i = 0 THEN base
                                          ELSE Do(g[i - 1], i)]
           upto == CHOOSE g : Eq(g)
<1>1. N \in Nat /\ \A i \in 1 .. N : q[i] \in Message
  OBVIOUS
<1>2. base \in S
  BY EmptySeq
<1>3. \A b \in S, i \in 1 .. N : Do(b, i) \in S
  BY <1>1
<1> HIDE DEF N, S
<1>7. Messages(q) = upto[N]
  BY DEF Messages, N
<1> HIDE DEF base
<1>4. StepsIn(N, S, Step)
  BY <1>3 DEF StepsIn
<1>5. \E g : Eq(g)
  <2>1. PICK g : PassTo(N, S, base, Step, g)
    <3> HIDE DEF Step
    <3> QED
      BY <1>1, <1>2, <1>4, Pass
  <2>2. \A i \in 1 .. N : g[i] = Do(g[i - 1], i)
    <3> HIDE DEF Do
    <3> QED
      BY <2>1 DEF PassTo
  <2>3. Eq(g)
    <3> HIDE DEF Step, Do
    <3> QED
      BY <2>1, <2>2, <1>1 DEF PassTo
  <2> QED
    BY <2>3
<1>6. Eq(upto)
  <2> HIDE DEF Eq
  <2> QED
    BY <1>5
<1> HIDE DEF upto
<1>8. upto[0] = base /\ \A i \in 1 .. N : upto[i] = Do(upto[i - 1], i)
  <2> HIDE DEF Do
  <2> QED
    BY <1>6, <1>1
<1> DEFINE T == {i \in 0 .. N : upto[i] \in S}
<1>9. 0 \in T
  BY <1>2, <1>8, <1>1
<1>10. \A k \in 0 .. N : k # 0 /\ k - 1 \in T => k \in T
  <2> SUFFICES ASSUME NEW k \in 0 .. N, k # 0, k - 1 \in T PROVE k \in T
    OBVIOUS
  <2>1. k \in 1 .. N /\ upto[k - 1] \in S
    BY <1>1
  <2> HIDE DEF Do
  <2> QED
    BY <2>1, <1>3, <1>8
<1>11. \A i \in 0 .. N : upto[i] \in S
  <2> HIDE DEF T
  <2>1. 0 .. N \subseteq T
    BY <1>1, <1>9, <1>10, UpTo
  <2> QED
    BY <2>1 DEF T
<1>12. Counts(q, upto)
  BY <1>8, <1>11 DEF Counts, N, S, base
<1> QED
  BY <1>7, <1>12 DEF N

(* An empty queue holds no messages.                                          *)
LEMMA MessagesNone == Messages(<< >>) = << >>
<1>1. << >> \in Seq(Message) /\ Len(<< >>) = 0
  BY EmptySeq
<1> QED
  BY <1>1, MessagesIs DEF Counts

(* What is appended to a queue is the last of its messages.                   *)
LEMMA MessagesAppend ==
  ASSUME NEW q, q \in Seq(Message), NEW e, e \in Message
  PROVE  Messages(Append(q, e)) = IF e = END THEN Messages(q) ELSE Append(Messages(q), e)
<1> DEFINE a == Append(q, e)
<1>1. /\ a \in Seq(Message) /\ Len(a) = Len(q) + 1 /\ a[Len(q) + 1] = e /\ Len(q) \in Nat
      /\ \A i \in 1 .. Len(q) : a[i] = q[i]
  OBVIOUS
<1> HIDE DEF a
<1>2. PICK f : Counts(q, f) /\ Messages(q) = f[Len(q)]
  BY MessagesIs
<1>3. PICK g : Counts(a, g) /\ Messages(a) = g[Len(a)]
  BY <1>1, MessagesIs
<1> DEFINE N == Len(q)
           T == {i \in 0 .. N : g[i] = f[i]}
<1>4. 0 \in T
  BY <1>1, <1>2, <1>3 DEF Counts
<1>5. \A k \in 0 .. N : k # 0 /\ k - 1 \in T => k \in T
  <2> SUFFICES ASSUME NEW k \in 0 .. N, k # 0, g[k - 1] = f[k - 1] PROVE g[k] = f[k]
    OBVIOUS
  <2>1. k \in 1 .. Len(q) /\ k \in 1 .. Len(a)
    BY <1>1
  <2> QED
    BY <2>1, <1>1, <1>2, <1>3, ZenonT(60) DEF Counts
<1>6. g[N] = f[N]
  <2>0. N \in Nat
    BY <1>1
  <2> HIDE DEF T, N
  <2>1. 0 .. N \subseteq T
    BY <2>0, <1>4, <1>5, UpTo
  <2>2. N \in T
    BY <2>0, <2>1
  <2> QED
    BY <2>2 DEF T
<1>7. g[Len(a)] = IF e = END THEN g[N] ELSE Append(g[N], e)
  <2>1. Len(a) \in 1 .. Len(a) /\ Len(a) - 1 = N /\ a[Len(a)] = e
    BY <1>1
  <2> QED
    BY <2>1, <1>3 DEF Counts
<1> QED
  BY <1>2, <1>3, <1>6, <1>7 DEF a

(* What is put in front of a queue is the first of its messages.              *)
LEMMA MessagesPrepend ==
  ASSUME NEW q, q \in Seq(Message), NEW e, e \in Message
  PROVE  Messages(<<e>> \o q) = IF e = END THEN Messages(q) ELSE <<e>> \o Messages(q)
<1> DEFINE a == <<e>> \o q
           In(s) == IF e = END THEN s ELSE <<e>> \o s
<1>1. /\ a \in Seq(Message) /\ Len(a) = Len(q) + 1 /\ a[1] = e /\ Len(q) \in Nat
      /\ \A i \in 1 .. Len(q) : a[i + 1] = q[i]
  OBVIOUS
<1> HIDE DEF a
<1>2. PICK f : Counts(q, f) /\ Messages(q) = f[Len(q)]
  BY MessagesIs
<1>3. PICK g : Counts(a, g) /\ Messages(a) = g[Len(a)]
  BY <1>1, MessagesIs
<1> DEFINE N == Len(q)
           T == {i \in 0 .. N : g[i + 1] = In(f[i])}
<1>4. 0 \in T
  <2>1. 1 \in 1 .. Len(a) /\ 1 - 1 = 0
    BY <1>1
  <2>2. g[1] = IF e = END THEN << >> ELSE Append(<< >>, e)
    BY <2>1, <1>1, <1>3 DEF Counts
  <2>3. f[0] = << >>
    BY <1>2 DEF Counts
  <2>4. Append(<< >>, e) = <<e>> \o << >>
    OBVIOUS
  <2>5. g[0 + 1] = In(f[0])
    BY <2>2, <2>3, <2>4
  <2> HIDE DEF In
  <2> QED
    BY <2>5, <1>1
<1>5. \A k \in 0 .. N : k # 0 /\ k - 1 \in T => k \in T
  <2> SUFFICES ASSUME NEW k \in 0 .. N, k # 0, g[k] = In(f[k - 1]) PROVE g[k + 1] = In(f[k])
    <3>1. \A k \in 0 .. N : k # 0 => k - 1 + 1 = k
      BY <1>1
    <3> HIDE DEF In
    <3> QED
      BY <3>1
  <2>1. k \in 1 .. Len(q) /\ k + 1 \in 1 .. Len(a) /\ k + 1 - 1 = k /\ k - 1 \in 0 .. Len(q)
    BY <1>1
  <2>2. f[k] = IF q[k] = END THEN f[k - 1] ELSE Append(f[k - 1], q[k])
    BY <2>1, <1>2 DEF Counts
  <2>3. g[k + 1] = IF q[k] = END THEN g[k] ELSE Append(g[k], q[k])
    BY <2>1, <1>1, <1>3, SMTT(30) DEF Counts
  <2>4. f[k - 1] \in Seq(Message) /\ q[k] \in Message
    BY <2>1, <1>2 DEF Counts
  <2>5. Append(<<e>> \o f[k - 1], q[k]) = <<e>> \o Append(f[k - 1], q[k])
    BY <2>4, SMTT(30)
  <2> QED
    BY <2>2, <2>3, <2>5
<1>6. g[N + 1] = In(f[N])
  <2>0. N \in Nat
    BY <1>1
  <2> HIDE DEF T, N
  <2>1. 0 .. N \subseteq T
    BY <2>0, <1>4, <1>5, UpTo
  <2>2. N \in T
    BY <2>0, <2>1
  <2> QED
    BY <2>2 DEF T
<1> QED
  BY <1>1, <1>2, <1>3, <1>6 DEF a

(* The first of a queue is the first of its messages, unless it is END.       *)
LEMMA MessagesHead ==
  ASSUME NEW q, q \in Seq(Message), q # << >>
  PROVE  Messages(q) = IF Head(q) = END THEN Messages(Tail(q))
                       ELSE <<Head(q)>> \o Messages(Tail(q))
<1>1. Head(q) \in Message /\ Tail(q) \in Seq(Message) /\ q = <<Head(q)>> \o Tail(q)
  OBVIOUS
<1> QED
  BY <1>1, MessagesPrepend

----------------------------------------------------------------------------
(* The inductive invariant.                                                   *)

(* A device is opened by one task at a time, and its channel comes last.      *)
Opening ==
  /\ task = "open" => ~d.available
  /\ task \in {"thread", "opened"} => d.available /\ d.chan = "none"
  /\ d.chan # "none" => d.available

(* The writer of the newest session is started by the task that opened it.    *)
Starting ==
  /\ \A s \in 1 .. n : thr[s].pc = "none" <=> task = "thread" /\ s = n
  /\ task = "thread" => n > 0 /\ queues[n] = << >>

(* A writer waits for the queue of the newest session, or for one that stays  *)
(* empty; what it writes is a message; and the device has no other queue.     *)
Newest == IF task = "thread" THEN n - 1 ELSE n
Waiting ==
  /\ d.sq \in {0, Newest}
  /\ \A s \in 1 .. n :
       thr[s].pc = "pop" =>
         thr[s].q \in 1 .. Newest /\ (thr[s].q = Newest \/ queues[thr[s].q] = << >>)
  /\ \A s \in 1 .. n : thr[s].pc = "write" => thr[s].item # END

(* Where errno is never a leftover, only the newest writer has anything to do *)
(* and the device has its queue as long as it may write; EAGAIN goes with the *)
(* session it was met in.                                                     *)
Left(s) == thr[s].pc = "ended" \/ (thr[s].pc = "pop" /\ thr[s].q = s /\ queues[s] = << >>)
Alone ==
  ~env.again =>
    /\ d.lasterr = "again" => d.available /\ os # "windows"
    /\ \A s \in 1 .. n : s # n => Left(s)
    /\ n > 0 => /\ thr[n].pc = "pop" => thr[n].q = n
                /\ thr[n].pc \in {"pop", "write", "drain", "unset"} => d.sq = n
    /\ ~Mixed

Inv == TypeOK /\ Opening /\ Starting /\ Waiting /\ Alone
IInv == Inv /\ PortsInv

(* What the types say of the parts of the state.                              *)
LEMMA TypeFacts ==
  ASSUME TypeOK
  PROVE  /\ n \in Nat /\ DOMAIN thr = 1 .. n /\ DOMAIN queues = 1 .. n
         /\ \A s \in 1 .. n : thr[s] \in Thread /\ queues[s] \in Seq(Message)
         /\ d.sq \in 0 .. n /\ END \in Message
<1>1. thr \in Seq(Thread) /\ queues \in Seq(Seq(Message)) /\ Len(queues) = n
  BY DEF TypeOK
<1>2. n = Len(thr)
  BY DEF n
<1>3. n \in Nat /\ DOMAIN thr = 1 .. n /\ DOMAIN queues = 1 .. n
  BY <1>1, <1>2
<1>4. \A s \in 1 .. n : thr[s] \in Thread /\ queues[s] \in Seq(Message)
  BY <1>1, <1>2
<1>5. d.sq \in 0 .. n
  BY DEF TypeOK, Device
<1>6. END \in Message
  BY DEF END, Message
<1> QED
  BY <1>3, <1>4, <1>5, <1>6

(* One writer changes, or one queue.                                          *)
LEMMA WriterChanges ==
  ASSUME TypeOK, NEW s \in 1 .. n, NEW STATE v, v \in Thread, thr' = [thr EXCEPT ![s] = v]
  PROVE  /\ thr' \in Seq(Thread) /\ n' = n /\ Thread' = Thread /\ Device' = Device
         /\ thr'[s] = v /\ \A t \in 1 .. n : t # s => thr'[t] = thr[t]
<1>1. thr \in Seq(Thread)
  BY DEF TypeOK
<1>2. n = Len(thr) /\ n' = Len(thr')
  BY DEF n
<1>3. s \in 1 .. Len(thr) /\ DOMAIN thr = 1 .. n
  BY <1>1, <1>2
<1>4. thr' \in Seq(Thread) /\ Len(thr') = Len(thr)
  BY <1>1, <1>3, ExceptSeq
<1>5. n' = n
  BY <1>2, <1>4
<1>6. thr'[s] = v /\ \A t \in 1 .. n : t # s => thr'[t] = thr[t]
  BY <1>3
<1> QED
  BY <1>4, <1>5, <1>6 DEF Thread, Device

(* One queue changes.                                                         *)
LEMMA QueueChanges ==
  ASSUME TypeOK, NEW STATE k, k \in 1 .. n, NEW STATE v, v \in Seq(Message),
         queues' = [queues EXCEPT ![k] = v]
  PROVE  /\ queues' \in Seq(Seq(Message)) /\ Len(queues') = n
         /\ queues'[k] = v /\ \A j \in 1 .. n : j # k => queues'[j] = queues[j]
<1>1. queues \in Seq(Seq(Message)) /\ n = Len(queues)
  BY DEF TypeOK
<1>2. k \in 1 .. Len(queues) /\ DOMAIN queues = 1 .. n
  BY <1>1
<1>3. queues' \in Seq(Seq(Message)) /\ Len(queues') = Len(queues)
  BY <1>1, <1>2, ExceptSeq
<1>4. queues'[k] = v /\ \A j \in 1 .. n : j # k => queues'[j] = queues[j]
  BY <1>2
<1> QED
  BY <1>1, <1>3, <1>4

(* The newest queue is one of the sessions', if there is one.                 *)
LEMMA NewestFacts ==
  ASSUME TypeOK
  PROVE  Newest \in Int /\ Newest <= n /\ 1 .. Newest \subseteq 1 .. n
<1>1. n \in Nat
  BY TypeFacts
<1>2. Newest = n \/ Newest = n - 1
  BY DEF Newest
<1> DEFINE k == Newest
           N == n
<1>3. N \in Nat /\ (k = N \/ k = N - 1)
  BY <1>1, <1>2
<1> HIDE DEF k, N
<1>4. k \in Int /\ k <= N /\ 1 .. k \subseteq 1 .. N
  BY <1>3
<1> QED
  BY <1>4 DEF k, N

(* A bound on what may still happen is spent; all else about the world stays. *)
LEMMA SpendKeeps ==
  ASSUME env \in World,
         NEW what \in {"writes", "stalls", "errors", "reboots", "moves", "selects"}, Spend(what)
  PROVE  env' \in World /\ env'.again = env.again
<1> DEFINE k == env[what]
<1>1. k \in Nat
  BY DEF World
<1>2. k - 1 \in Nat /\ env' = [env EXCEPT ![what] = k - 1]
  BY <1>1 DEF Spend
<1> DEFINE j == k - 1
<1>3. j \in Nat /\ env' = [env EXCEPT ![what] = j]
  BY <1>2
<1> HIDE DEF j
<1> QED
  BY <1>3 DEF World

(* A step that leaves the ports alone keeps their invariant.                  *)
LEMMA PortsSame == ASSUME PortsInv, UNCHANGED portVars PROVE PortsInv' /\ os' = os
BY DEF PortsInv, PortsTypeOK, ListSound, portVars

(* The types after a step in which no session begins.                         *)
LEMMA TypeSame ==
  ASSUME TypeOK, thr' \in Seq(Thread), n' = n, queues' \in Seq(Seq(Message)), Len(queues') = n,
         wire' \in Seq(Written), d' \in Device,
         task' \in {"none", "open", "thread", "opened", "close", "shut"},
         want' \in DOMAIN Kind \cup {"", "soon"}, stalled' \in BOOLEAN, count' \in Nat,
         PortsInv', env' \in World
  PROVE  TypeOK'
<1>1. Thread' = Thread /\ Device' = Device
  BY DEF Thread, Device
<1>2. PortsTypeOK'
  BY DEF PortsInv
<1> QED
  BY <1>1, <1>2 DEF TypeOK

(* A queue that is empty and is not the newest stays so.                      *)
EmptyStay == \A k \in 1 .. n : k # Newest /\ queues[k] = << >> => queues'[k] = << >>

(* EAGAIN comes from a call on a device that is there, or is a leftover.      *)
ErrorKept == d'.lasterr = "again" => env.again \/ (d'.available /\ os # "windows")

(* A step of no writer, in which no session begins, keeps the invariant.      *)
LEMMA NoneMoves ==
  ASSUME IInv, UNCHANGED <<thr, wire>>, queues' \in Seq(Seq(Message)), Len(queues') = n,
         d' \in Device, d'.sq = d.sq, EmptyStay, task = "thread" => queues' = queues,
         ErrorKept, Opening',
         task' \in {"none", "open", "thread", "opened", "close", "shut"},
         task' = "thread" <=> task = "thread",
         want' \in DOMAIN Kind \cup {"", "soon"}, stalled' \in BOOLEAN, count' \in Nat,
         PortsInv', os' = os, env' \in World, env'.again = env.again
  PROVE  IInv'
<1>0. TypeOK /\ n \in Nat /\ n' = n
  BY TypeFacts DEF IInv, Inv, n
<1>1. TypeOK'
  BY <1>0, TypeSame DEF TypeOK
<1>2. Newest' = Newest
  BY <1>0 DEF Newest
<1>3. Starting'
  BY <1>0 DEF Starting, IInv, Inv
<1>4. Waiting'
  <2>1. Waiting
    BY DEF IInv, Inv
  <2>2. 1 .. Newest \subseteq 1 .. n
    BY <1>0, NewestFacts
  <2> QED
    BY <1>0, <1>2, <2>1, <2>2 DEF Waiting, EmptyStay
<1>5. Alone'
  <2> SUFFICES ASSUME ~env.again PROVE Alone'
    BY DEF Alone
  <2>1. Mixed' = Mixed
    BY <1>0 DEF Mixed, Crashed
  <2>2. \A s \in 1 .. n : s # n => Left(s)'
    <3> SUFFICES ASSUME NEW s \in 1 .. n, s # n PROVE Left(s)'
      OBVIOUS
    <3>1. Left(s)
      BY DEF Alone, IInv, Inv
    <3>2. CASE thr[s].pc = "ended"
      BY <3>2 DEF Left
    <3>3. CASE thr[s].pc = "pop" /\ thr[s].q = s /\ queues[s] = << >>
      <4>1. queues'[s] = << >>
        <5>1. CASE s # Newest
          BY <5>1, <3>3 DEF EmptyStay
        <5>2. CASE s = Newest
          BY <5>2, <3>3 DEF Newest
        <5> QED
          BY <5>1, <5>2
      <4> QED
        BY <3>3, <4>1 DEF Left
    <3> QED
      BY <3>1, <3>2, <3>3 DEF Left
  <2> QED
    BY <1>0, <2>1, <2>2 DEF Alone, ErrorKept, IInv, Inv
<1> QED
  BY <1>1, <1>3, <1>4, <1>5 DEF IInv, Inv

(* A writer that has something to do: where errno is never a leftover, the    *)
(* newest one.                                                                *)
Active(s) ==
  thr[s].pc \notin {"none", "ended"} /\ (thr[s].pc = "pop" => queues[thr[s].q] # << >>)

(* Where errno is never a leftover, only the newest writer is active, and     *)
(* while it may still write the device has its queue.                         *)
LEMMA ActiveNewest ==
  ASSUME IInv, NEW s \in 1 .. n, Active(s), ~env.again
  PROVE  /\ s = n /\ Newest = n /\ task # "thread"
         /\ thr[s].pc \in {"write", "drain", "unset"} => d.sq = n
<1>1. s = n
  BY DEF Active, Left, Alone, IInv, Inv
<1>2. task # "thread"
  BY <1>1 DEF Active, Starting, IInv, Inv
<1>3. n > 0
  BY TypeFacts DEF IInv, Inv
<1> QED
  BY <1>1, <1>2, <1>3 DEF Newest, Alone, IInv, Inv

(* A step of one writer keeps the invariant.                                  *)
LEMMA OneMoves ==
  ASSUME IInv, NEW s \in 1 .. n, Active(s),
         NEW STATE v, v \in Thread, thr' = [thr EXCEPT ![s] = v], v.pc # "none",
         v.pc = "write" => v.item # END,
         v.pc = "pop" => v.q \in 1 .. n /\ v.q = Newest,
         ~env.again => /\ v.pc # "crashed"
                       /\ v.pc \in {"pop", "write", "drain", "unset"} => d'.sq = n,
         queues' \in Seq(Seq(Message)), Len(queues') = n, EmptyStay,
         wire' \in Seq(Written),
         \A i \in DOMAIN wire' : \/ i \in DOMAIN wire /\ wire'[i] = wire[i]
                                 \/ wire'[i].by = s /\ wire'[i].in = n,
         d' \in Device, d'.sq \in {0, d.sq}, ErrorKept, Opening',
         UNCHANGED <<portVars, task, want, stalled, count>>,
         env' \in World, env'.again = env.again
  PROVE  IInv'
<1>0. TypeOK /\ n \in Nat
  BY TypeFacts DEF IInv, Inv
<1>1. thr' \in Seq(Thread) /\ n' = n /\ thr'[s] = v /\ \A t \in 1 .. n : t # s => thr'[t] = thr[t]
  BY <1>0, WriterChanges
<1>2. PortsInv' /\ os' = os
  BY PortsSame DEF IInv
<1>3. TypeOK'
  BY <1>0, <1>1, <1>2, TypeSame DEF TypeOK
<1>4. Newest' = Newest
  BY <1>1 DEF Newest
<1>5. Starting'
  <2>1. Starting /\ thr[s].pc # "none"
    BY DEF IInv, Inv, Active
  <2>2. \A t \in 1 .. n : thr'[t].pc = "none" <=> thr[t].pc = "none"
    BY <1>1, <2>1
  <2>3. task = "thread" => queues'[n] = << >>
    <3>1. task = "thread" => Newest = n - 1 /\ n \in 1 .. n
      BY <1>0, <2>1 DEF Newest, Starting
    <3>2. task = "thread" => n # Newest
      BY <1>0, <3>1
    <3> QED
      BY <2>1, <3>1, <3>2 DEF Starting, EmptyStay
  <2> QED
    BY <1>1, <2>1, <2>2, <2>3 DEF Starting
<1>6. Waiting'
  <2>1. Waiting
    BY DEF IInv, Inv
  <2>2. d'.sq \in {0, Newest}
    BY <2>1 DEF Waiting
  <2>3. \A t \in 1 .. n : thr'[t].pc = "pop" =>
          thr'[t].q \in 1 .. Newest /\ (thr'[t].q = Newest \/ queues'[thr'[t].q] = << >>)
    <3> SUFFICES ASSUME NEW t \in 1 .. n, thr'[t].pc = "pop"
                 PROVE  /\ thr'[t].q \in 1 .. Newest
                        /\ thr'[t].q = Newest \/ queues'[thr'[t].q] = << >>
      OBVIOUS
    <3>1. CASE t = s
      <4>1. v.q \in 1 .. n /\ v.q = Newest
        BY <3>1, <1>1
      <4>2. v.q \in 1 .. v.q
        BY <4>1, <1>0
      <4> QED
        BY <3>1, <4>1, <4>2, <1>1
    <3>2. CASE t # s
      <4>1. thr[t].q \in 1 .. Newest /\ (thr[t].q = Newest \/ queues[thr[t].q] = << >>)
        BY <3>2, <1>1, <2>1 DEF Waiting
      <4>2. thr[t].q \in 1 .. n
        BY <4>1, <1>0, NewestFacts
      <4> QED
        BY <3>2, <4>1, <4>2, <1>1 DEF EmptyStay
    <3> QED
      BY <3>1, <3>2
  <2>4. \A t \in 1 .. n : thr'[t].pc = "write" => thr'[t].item # END
    BY <1>1, <2>1 DEF Waiting
  <2> QED
    BY <1>1, <1>4, <2>2, <2>3, <2>4 DEF Waiting, END
<1>7. Alone'
  <2> SUFFICES ASSUME ~env.again PROVE Alone'
    BY DEF Alone
  <2>1. s = n /\ Newest = n /\ Alone
    BY ActiveNewest DEF IInv, Inv
  <2>2. \A t \in 1 .. n : t # n => Left(t)'
    <3> SUFFICES ASSUME NEW t \in 1 .. n, t # n PROVE Left(t)'
      OBVIOUS
    <3>1. Left(t) /\ thr'[t] = thr[t]
      BY <2>1, <1>1 DEF Alone
    <3>2. queues[t] = << >> => queues'[t] = << >>
      BY <2>1 DEF EmptyStay
    <3> QED
      BY <3>1, <3>2 DEF Left
  <2>3. ~Mixed'
    <3>1. ~Crashed'
      <4> SUFFICES ASSUME NEW t \in 1 .. n PROVE thr'[t].pc # "crashed"
        BY <1>1 DEF Crashed
      <4>1. thr[t].pc # "crashed"
        BY <2>1 DEF Alone, Mixed, Crashed
      <4> QED
        BY <4>1, <1>1
    <3>2. \A i \in DOMAIN wire' : wire'[i].by = wire'[i].in
      BY <2>1 DEF Alone, Mixed
    <3> QED
      BY <3>1, <3>2 DEF Mixed
  <2>4. thr'[n].pc = "pop" => thr'[n].q = n
    BY <2>1, <1>1
  <2>5. thr'[n].pc \in {"pop", "write", "drain", "unset"} => d'.sq = n
    BY <2>1, <1>1
  <2> QED
    BY <1>1, <1>2, <2>1, <2>2, <2>3, <2>4, <2>5 DEF Alone, ErrorKept
<1> QED
  BY <1>2, <1>3, <1>5, <1>6, <1>7 DEF IInv, Inv

----------------------------------------------------------------------------
(* Every action keeps the invariant: those of no writer first.                *)

(* A step that leaves the threads, their queues and what was written alone.   *)
LEMMA Calm ==
  ASSUME IInv, UNCHANGED <<thr, queues, wire, count>>, d' \in Device, d'.sq = d.sq,
         ErrorKept, Opening',
         task' \in {"none", "open", "thread", "opened", "close", "shut"},
         task' = "thread" <=> task = "thread",
         want' \in DOMAIN Kind \cup {"", "soon"}, stalled' \in BOOLEAN,
         PortsInv', os' = os, env' \in World, env'.again = env.again
  PROVE  IInv'
<1>1. queues' \in Seq(Seq(Message)) /\ Len(queues') = n /\ count' \in Nat
  BY DEF IInv, Inv, TypeOK
<1>2. EmptyStay
  BY DEF EmptyStay
<1> QED
  BY <1>1, <1>2, NoneMoves

(* What a step that leaves the ports, or the device, alone need not say.      *)
LEMMA Same ==
  ASSUME IInv
  PROVE  /\ task \in {"none", "open", "thread", "opened", "close", "shut"}
         /\ want \in DOMAIN Kind \cup {"", "soon"} /\ stalled \in BOOLEAN
         /\ d \in Device /\ d.available \in BOOLEAN /\ env \in World
         /\ env.again \in BOOLEAN /\ os \in Systems /\ sel \in DOMAIN Kind \cup {""}
         /\ UNCHANGED portVars => PortsInv' /\ os' = os
         /\ d'.lasterr = d.lasterr /\ d'.available = d.available => ErrorKept
         /\ UNCHANGED <<d, task>> => Opening'
<1>1. TypeOK /\ Opening /\ Alone
  BY DEF IInv, Inv
<1>2. UNCHANGED portVars => PortsInv' /\ os' = os
  BY PortsSame DEF IInv
<1>3. d'.lasterr = d.lasterr /\ d'.available = d.available => ErrorKept
  BY <1>1 DEF Alone, ErrorKept
<1>4. UNCHANGED <<d, task>> => Opening'
  BY <1>1 DEF Opening
<1>5. d \in Device /\ d.available \in BOOLEAN
  BY <1>1 DEF TypeOK, Device
<1>6. env \in World /\ env.again \in BOOLEAN
  BY <1>1 DEF TypeOK, World
<1>7. os \in Systems /\ sel \in DOMAIN Kind \cup {""}
  BY <1>1 DEF TypeOK, PortsTypeOK
<1> QED
  BY <1>1, <1>2, <1>3, <1>4, <1>5, <1>6, <1>7 DEF TypeOK

(* A task that begins to open a device finds it closed.                       *)
LEMMA BeginsOpen ==
  ASSUME IInv, NEW STATE p, p \in DOMAIN Kind, NEW STATE b, b \in BOOLEAN, Begins(p, b)
  PROVE  /\ d' \in Device /\ d'.sq = d.sq /\ ErrorKept /\ Opening'
         /\ task' = "open" /\ task = "none"
<1>1. d \in Device /\ d' = [d EXCEPT !.devname = p, !.button = b]
  BY Same DEF Begins
<1>2. d' \in Device /\ d'.sq = d.sq /\ d'.lasterr = d.lasterr /\ d'.available = d.available
      /\ d'.chan = d.chan
  BY <1>1 DEF Device
<1>3. task' = "open" /\ task = "none" /\ ~d.available
  BY DEF Begins
<1>4. ErrorKept
  BY <1>2, Same
<1>5. Opening'
  BY <1>2, <1>3 DEF Opening, IInv, Inv
<1> QED
  BY <1>2, <1>3, <1>4, <1>5

(* The user connects.                                                         *)
LEMMA UserConnectsStep == ASSUME IInv, UserConnects PROVE IInv'
<1>1. Begins(sel, FALSE) /\ sel \in DOMAIN Kind
  BY Same DEF UserConnects, Begins
<1>2. UNCHANGED <<thr, queues, wire, count>> /\ UNCHANGED portVars /\ UNCHANGED <<want, stalled, env>>
  BY DEF UserConnects
<1>3. d' \in Device /\ d'.sq = d.sq /\ ErrorKept /\ Opening' /\ task' = "open" /\ task = "none"
  BY <1>1, BeginsOpen
<1> QED
  BY <1>2, <1>3, Same, Calm

(* open_async ends: the channel is watched.                                   *)
LEMMA setup_readerStep == ASSUME IInv, setup_reader PROVE IInv'
<1>1. d \in Device /\ d' = [d EXCEPT !.chan = "open", !.button = TRUE]
  BY Same DEF setup_reader
<1>2. d' \in Device /\ d'.sq = d.sq /\ d'.lasterr = d.lasterr /\ d'.available = d.available
  BY <1>1 DEF Device
<1>3. task = "opened" /\ task' = "none" /\ UNCHANGED portVars
      /\ UNCHANGED <<thr, queues, wire, count, want, stalled, env>>
  BY DEF setup_reader
<1>4. ErrorKept
  BY <1>2, <1>3, Same
<1>5. Opening'
  BY <1>2, <1>3 DEF Opening, IInv, Inv
<1> QED
  BY <1>2, <1>3, <1>4, <1>5, Same, Calm

(* The user disconnects.                                                      *)
LEMMA UserDisconnectsStep == ASSUME IInv, UserDisconnects PROVE IInv'
<1>1. d \in Device /\ d' = [d EXCEPT !.button = FALSE]
  BY Same DEF UserDisconnects
<1>2. d' \in Device /\ d'.sq = d.sq /\ d'.lasterr = d.lasterr /\ d'.available = d.available
      /\ d'.chan = d.chan
  BY <1>1 DEF Device
<1>3. task = "none" /\ task' = "close" /\ UNCHANGED portVars
      /\ UNCHANGED <<thr, queues, wire, count, want, stalled, env>>
  BY DEF UserDisconnects
<1>4. ErrorKept
  BY <1>2, <1>3, Same
<1>5. Opening'
  BY <1>2, <1>3 DEF Opening, IInv, Inv
<1> QED
  BY <1>2, <1>3, <1>4, <1>5, Same, Calm

(* clearup leaves a stale EAGAIN only where errno may be a leftover.          *)
LEMMA ClearupFacts ==
  ASSUME IInv, clearup, task # "thread", task # "opened", task' = task
  PROVE  d' \in Device /\ d'.sq = d.sq /\ ErrorKept /\ Opening'
<1>1. PICK e \in IF ~Posix THEN {d.lasterr} ELSE {"other"} \cup (IF env.again THEN {"again"} ELSE {}) :
        d' = [d EXCEPT !.available = FALSE, !.chan = "none", !.lasterr = e, !.button = TRUE]
  BY DEF clearup
<1>2. d \in Device
  BY Same
<1>3. e \in {"none", "again", "other"}
  BY <1>1, <1>2 DEF Device
<1>4. d' \in Device /\ d'.sq = d.sq /\ d'.lasterr = e /\ d'.available = FALSE /\ d'.chan = "none"
  BY <1>1, <1>2, <1>3 DEF Device
<1>5. e = "again" => env.again
  <2>1. ~Posix => os = "windows"
    BY DEF Posix
  <2>2. ~env.again /\ d.lasterr = "again" => os # "windows"
    BY DEF Alone, IInv, Inv
  <2> QED
    BY <1>1, <2>1, <2>2
<1>6. ErrorKept
  BY <1>4, <1>5 DEF ErrorKept
<1>7. Opening'
  BY <1>4 DEF Opening
<1> QED
  BY <1>4, <1>6, <1>7

(* The watch of the channel notices that the device is gone.                  *)
LEMMA LostStep == ASSUME IInv, Lost PROVE IInv'
<1>1. d.available /\ UNCHANGED portVars
      /\ UNCHANGED <<thr, queues, wire, count, task, want, stalled, env>>
  BY DEF Lost
<1>2. d.chan # "none" => task # "thread" /\ task # "opened" /\ task # "open"
  BY <1>1 DEF Opening, IInv, Inv
<1>3. os' = os
  BY <1>1, Same
<1>4. CASE clearup /\ d.chan # "none"
  BY <1>1, <1>2, <1>3, <1>4, ClearupFacts, Same, Calm
<1>5. CASE d.chan = "cancelled" /\ d' = [d EXCEPT !.chan = "refused"]
  <2>1. d \in Device
    BY Same
  <2>2. d' \in Device /\ d'.sq = d.sq /\ d'.lasterr = d.lasterr /\ d'.available = d.available
        /\ d'.chan = "refused"
    BY <1>5, <2>1 DEF Device
  <2>3. ErrorKept
    BY <1>3, <2>2, Same
  <2>4. Opening'
    BY <1>1, <1>2, <1>5, <2>2 DEF Opening
  <2> QED
    BY <1>1, <2>2, <2>3, <2>4, Same, Calm
<1> QED
  BY <1>4, <1>5 DEF Lost

(* A reboot closes the device and asks for its return.                        *)
LEMMA RebootStep == ASSUME IInv, Reboot PROVE IInv'
<1>1. task = "none" /\ task' = "close" /\ want' = "soon" /\ UNCHANGED portVars
      /\ UNCHANGED <<d, thr, queues, wire, count, stalled>>
  BY DEF Reboot
<1>2. env' \in World /\ env'.again = env.again
  BY Same, SpendKeeps DEF Reboot
<1>3. ErrorKept
  BY <1>1, Same
<1>4. Opening'
  BY <1>1 DEF Opening, IInv, Inv
<1> QED
  BY <1>1, <1>2, <1>3, <1>4, Same, Calm

(* The reconnection takes the name it waits for.                              *)
LEMMA try_reopenStep == ASSUME IInv, try_reopen PROVE IInv'
<1>1. want' = d.devname /\ UNCHANGED portVars
      /\ UNCHANGED <<d, thr, queues, wire, count, stalled, task, env>>
  BY DEF try_reopen
<1>2. want' \in DOMAIN Kind \cup {"", "soon"}
  BY <1>1, Same DEF Device
<1>3. ErrorKept /\ Opening'
  BY <1>1, Same
<1> QED
  BY <1>1, <1>2, <1>3, Same, Calm

(* The reconnection finds its name selected.                                  *)
LEMMA reopenStep == ASSUME IInv, reopen PROVE IInv'
<1>1. want' = "" /\ UNCHANGED portVars /\ UNCHANGED <<thr, queues, wire, count, stalled, env>>
  BY DEF reopen
<1>2. CASE UNCHANGED <<d, task>>
  <2>1. ErrorKept /\ Opening'
    BY <1>2, Same
  <2> QED
    BY <1>1, <1>2, <2>1, Same, Calm
<1>3. CASE Begins(sel, d.button)
  <2>1. sel \in DOMAIN Kind
    BY <1>3, Same DEF Begins
  <2>2. d.button \in BOOLEAN
    BY Same DEF Device
  <2>3. d' \in Device /\ d'.sq = d.sq /\ ErrorKept /\ Opening' /\ task' = "open" /\ task = "none"
    BY <1>3, <2>1, <2>2, BeginsOpen
  <2> QED
    BY <1>1, <2>3, Same, Calm
<1> QED
  BY <1>2, <1>3 DEF reopen

(* The port stops taking data, or takes data again.                           *)
LEMMA StallStep == ASSUME IInv, Stall PROVE IInv'
<1>1. UNCHANGED portVars /\ UNCHANGED <<d, thr, queues, wire, count, task, want>>
  BY DEF Stall
<1>2. env' \in World /\ env'.again = env.again
  BY Same, SpendKeeps DEF Stall
<1>3. stalled' \in BOOLEAN
  BY DEF Stall
<1>4. ErrorKept /\ Opening'
  BY <1>1, Same
<1> QED
  BY <1>1, <1>2, <1>3, <1>4, Same, Calm

(* Only the peer or the port of the device goes.                              *)
LEMMA DeadStep ==
  ASSUME IInv, NEW STATE b, b \in BOOLEAN, d' = [d EXCEPT !.dead = b], UNCHANGED task
  PROVE  d' \in Device /\ d'.sq = d.sq /\ ErrorKept /\ Opening'
<1>1. d \in Device
  BY Same
<1>2. d' \in Device /\ d'.sq = d.sq /\ d'.lasterr = d.lasterr /\ d'.available = d.available
      /\ d'.chan = d.chan
  BY <1>1 DEF Device
<1>3. ErrorKept
  BY <1>2, Same
<1>4. Opening'
  BY <1>2 DEF Opening, IInv, Inv
<1> QED
  BY <1>2, <1>3, <1>4

(* The peer goes.                                                             *)
LEMMA HangsUpStep == ASSUME IInv, HangsUp PROVE IInv'
<1>1. d' = [d EXCEPT !.dead = TRUE] /\ UNCHANGED portVars
      /\ UNCHANGED <<thr, queues, wire, count, task, want, stalled>>
  BY DEF HangsUp
<1>2. env' \in World /\ env'.again = env.again
  BY Same, SpendKeeps DEF HangsUp
<1>3. d' \in Device /\ d'.sq = d.sq /\ ErrorKept /\ Opening'
  BY <1>1, DeadStep
<1> QED
  BY <1>1, <1>2, <1>3, Same, Calm

(* A port comes or goes.                                                      *)
LEMMA PortMovesStep == ASSUME IInv, PortMoves PROVE IInv'
<1>1. UNCHANGED <<thr, queues, wire, count, task, want, stalled>>
  BY DEF PortMoves
<1>2. env' \in World /\ env'.again = env.again
  BY Same, SpendKeeps DEF PortMoves
<1>3. env.moving \subseteq ToSet(Names)
  BY Same DEF World
<1>4. PICK p \in ToSet(Names) :
        \/ DeviceAdded(p, d.available) /\ UNCHANGED d
        \/ DeviceRemoved(p) /\ d' = [d EXCEPT !.dead = @ \/ p = d.devname]
  BY <1>3 DEF PortMoves
<1>5. CASE DeviceAdded(p, d.available) /\ UNCHANGED d
  <2>1. PortsInv' /\ os' = os
    BY <1>5, AddedStep DEF IInv, DeviceAdded
  <2>2. ErrorKept /\ Opening'
    BY <1>1, <1>5, Same
  <2> QED
    BY <1>1, <1>2, <1>5, <2>1, <2>2, Same, Calm
<1>6. CASE DeviceRemoved(p) /\ d' = [d EXCEPT !.dead = @ \/ p = d.devname]
  <2>1. PortsInv' /\ os' = os
    BY <1>6, RemovedStep DEF IInv, DeviceRemoved
  <2> DEFINE b == d.dead \/ p = d.devname
  <2>2. d' = [d EXCEPT !.dead = b] /\ b \in BOOLEAN
    BY <1>6
  <2> HIDE DEF b
  <2>3. d' \in Device /\ d'.sq = d.sq /\ ErrorKept /\ Opening'
    BY <1>1, <2>2, DeadStep
  <2> QED
    BY <1>1, <1>2, <2>1, <2>3, Same, Calm
<1> QED
  BY <1>4, <1>5, <1>6

(* The user selects a port.                                                   *)
LEMMA SelectsStep == ASSUME IInv, Selects PROVE IInv'
<1>1. UNCHANGED <<d, thr, queues, wire, count, task, want, stalled>>
  BY DEF Selects, devVars
<1>2. env' \in World /\ env'.again = env.again
  BY Same, SpendKeeps DEF Selects
<1>3. PortsInv' /\ os' = os
  BY SelectStep DEF Selects, UserSelects, IInv
<1>4. ErrorKept /\ Opening'
  BY <1>1, Same
<1> QED
  BY <1>1, <1>2, <1>3, <1>4, Same, Calm

(* The watcher's timer.                                                       *)
LEMMA WatchesStep == ASSUME IInv, Watches PROVE IInv'
<1>1. UNCHANGED <<d, thr, queues, wire, count, task, want, stalled, env>>
  BY DEF Watches, devVars
<1>2. PortsInv' /\ os' = os
  BY WatchStep DEF Watches, Watch, IInv
<1>3. ErrorKept /\ Opening'
  BY <1>1, Same
<1> QED
  BY <1>1, <1>2, <1>3, Same, Calm

(* shutdown leaves all but the channel alone; push_end only puts END in front *)
(* of the newest queue.                                                       *)
LEMMA ShutdownFacts ==
  ASSUME IInv, shutdown
  PROVE  /\ d' \in Device /\ d'.sq = d.sq /\ ErrorKept /\ d'.available = d.available
         /\ d'.chan = d.chan \/ (d.chan = "open" /\ d'.chan \in {"shut", "cancelled"})
<1>1. d \in Device
  BY Same
<1>2. d' = d \/ (d.chan = "open" /\ \E c \in {"shut", "cancelled"} : d' = [d EXCEPT !.chan = c])
  BY DEF shutdown
<1>3. /\ d' \in Device /\ d'.sq = d.sq /\ d'.available = d.available /\ d'.lasterr = d.lasterr
      /\ d'.chan = d.chan \/ (d.chan = "open" /\ d'.chan \in {"shut", "cancelled"})
  BY <1>1, <1>2 DEF Device
<1>4. ErrorKept
  BY <1>3, Same
<1> QED
  BY <1>3, <1>4

(* push_end touches the newest queue only.                                    *)
LEMMA PushEndFacts ==
  ASSUME IInv, push_end
  PROVE  queues' \in Seq(Seq(Message)) /\ Len(queues') = n /\ EmptyStay
<1>1. TypeOK /\ queues \in Seq(Seq(Message)) /\ Len(queues) = n /\ d.sq \in {0, Newest}
  BY DEF IInv, Inv, TypeOK, Waiting
<1>2. CASE d.sq = 0
  BY <1>1, <1>2 DEF push_end, EmptyStay
<1>3. CASE d.sq # 0
  <2> DEFINE q == <<END>> \o queues[d.sq]
  <2>1. d.sq \in 1 .. n /\ queues[d.sq] \in Seq(Message) /\ END \in Message
    BY <1>1, <1>3, TypeFacts
  <2>2. q \in Seq(Message) /\ queues' = [queues EXCEPT ![d.sq] = q]
    BY <2>1, <1>3 DEF push_end
  <2> HIDE DEF q
  <2>3. queues' \in Seq(Seq(Message)) /\ Len(queues') = n
        /\ \A j \in 1 .. n : j # d.sq => queues'[j] = queues[j]
    BY <1>1, <2>1, <2>2, QueueChanges
  <2> QED
    BY <1>1, <1>3, <2>3 DEF EmptyStay
<1> QED
  BY <1>2, <1>3

(* The close task: END for the writer, then the channel.                      *)
LEMMA close_asyncStep == ASSUME IInv, close_async PROVE IInv'
<1>1. UNCHANGED portVars /\ UNCHANGED <<thr, wire, count, want, stalled, env>>
  BY DEF close_async
<1>2. CASE task = "close" /\ push_end /\ task' = "shut" /\ UNCHANGED d
  <2>1. queues' \in Seq(Seq(Message)) /\ Len(queues') = n /\ EmptyStay
    BY <1>2, PushEndFacts
  <2>2. ErrorKept
    BY <1>2, Same
  <2>3. Opening'
    BY <1>2 DEF Opening, IInv, Inv
  <2>4. count \in Nat
    BY DEF IInv, Inv, TypeOK
  <2> QED
    BY <1>1, <1>2, <2>1, <2>2, <2>3, <2>4, Same, NoneMoves
<1>3. CASE task = "shut" /\ shutdown /\ task' = "none" /\ UNCHANGED queues
  <2>1. /\ d' \in Device /\ d'.sq = d.sq /\ ErrorKept /\ d'.available = d.available
        /\ d'.chan = d.chan \/ (d.chan = "open" /\ d'.chan \in {"shut", "cancelled"})
    BY <1>3, ShutdownFacts
  <2>2. Opening'
    BY <1>3, <2>1 DEF Opening, IInv, Inv
  <2> QED
    BY <1>1, <1>3, <2>1, <2>2, Same, Calm
<1> QED
  BY <1>2, <1>3 DEF close_async

(* write: a message is queued, first if it is urgent.                         *)
LEMMA writeStep == ASSUME IInv, NEW u \in BOOLEAN, write(u) PROVE IInv'
<1> DEFINE sqi == [m |-> count + 1, urgent |-> u]
           q == IF u THEN <<sqi>> \o queues[d.sq] ELSE Append(queues[d.sq], sqi)
<1>1. UNCHANGED portVars /\ UNCHANGED <<d, thr, task, want, stalled, wire>>
      /\ d.available /\ d.chan # "none" /\ d.sq # 0 /\ count' = count + 1
      /\ queues' = [queues EXCEPT ![d.sq] = q]
  BY DEF write
<1>2. TypeOK /\ count \in Nat /\ queues \in Seq(Seq(Message)) /\ d.sq \in {0, Newest}
  BY DEF IInv, Inv, TypeOK, Waiting
<1>3. d.sq \in 1 .. n /\ queues[d.sq] \in Seq(Message)
  BY <1>1, <1>2, TypeFacts
<1>4. count' \in Nat /\ sqi \in Message
  BY <1>1, <1>2 DEF Message
<1> HIDE DEF sqi
<1>5. q \in Seq(Message)
  BY <1>3, <1>4
<1> HIDE DEF q
<1>6. queues' \in Seq(Seq(Message)) /\ Len(queues') = n
      /\ \A j \in 1 .. n : j # d.sq => queues'[j] = queues[j]
  BY <1>1, <1>2, <1>3, <1>5, QueueChanges, ZenonT(60)
<1>7. EmptyStay
  BY <1>1, <1>2, <1>6 DEF EmptyStay
<1>8. task # "thread"
  BY <1>1 DEF Opening, IInv, Inv
<1>9. env' \in World /\ env'.again = env.again
  BY Same, SpendKeeps DEF write
<1>10. ErrorKept /\ Opening'
  BY <1>1, Same
<1> QED
  BY <1>1, <1>4, <1>6, <1>7, <1>8, <1>9, <1>10, Same, NoneMoves

----------------------------------------------------------------------------
(* The steps of a writer.                                                     *)

(* The variables that none of a writer's steps in thr and queues touches.     *)
LEMMA WriterSame ==
  ASSUME IInv
  PROVE  /\ queues \in Seq(Seq(Message)) /\ Len(queues) = n /\ wire \in Seq(Written)
         /\ d.sq \in {0, Newest} /\ d.sq \in 0 .. n
         /\ UNCHANGED queues => EmptyStay
         /\ UNCHANGED wire => \A i \in DOMAIN wire' : i \in DOMAIN wire /\ wire'[i] = wire[i]
         /\ UNCHANGED d => ErrorKept
<1>1. queues \in Seq(Seq(Message)) /\ Len(queues) = n /\ wire \in Seq(Written)
  BY DEF IInv, Inv, TypeOK
<1>2. d.sq \in {0, Newest} /\ d.sq \in 0 .. n
  BY TypeFacts DEF IInv, Inv, Waiting
<1>3. UNCHANGED d => ErrorKept
  BY Same
<1> QED
  BY <1>1, <1>2, <1>3 DEF EmptyStay

(* A writer leaves for its next place and nothing else of it changes.         *)
LEMMA Goes ==
  ASSUME IInv, NEW s \in 1 .. n, Active(s),
         NEW p \in {"drain", "unset", "close", "shut", "ended"},
         thr' = [thr EXCEPT ![s].pc = p],
         ~env.again => (p \in {"drain", "unset"} => d'.sq = n),
         queues' \in Seq(Seq(Message)), Len(queues') = n, EmptyStay, UNCHANGED wire,
         d' \in Device, d'.sq \in {0, d.sq}, ErrorKept, Opening',
         UNCHANGED <<portVars, task, want, stalled, count>>,
         env' \in World, env'.again = env.again
  PROVE  IInv'
<1> DEFINE v == [thr[s] EXCEPT !.pc = p]
<1>0. thr[s] \in Thread
  BY TypeFacts DEF IInv, Inv
<1>1. v \in Thread /\ v.pc = p
  BY <1>0 DEF Thread
<1>2. thr' = [thr EXCEPT ![s] = v]
  OBVIOUS
<1>3. wire' \in Seq(Written) /\ \A i \in DOMAIN wire' : i \in DOMAIN wire /\ wire'[i] = wire[i]
  BY WriterSame
<1> HIDE DEF v
<1> QED
  BY <1>1, <1>2, <1>3, OneMoves

(* The writer takes an item from its queue.                                   *)
LEMMA popStep == ASSUME IInv, NEW s \in 1 .. n, pop(s) PROVE IInv'
<1> DEFINE k == thr[s].q
           sqi == Head(queues[k])
           p == IF sqi = END THEN "drain" ELSE "write"
           v == [[thr[s] EXCEPT !.pc = p] EXCEPT !.item = sqi]
           q == Tail(queues[k])
<1>1. thr[s].pc = "pop" /\ queues[k] # << >> /\ queues' = [queues EXCEPT ![k] = q]
      /\ UNCHANGED portVars /\ UNCHANGED <<d, task, want, stalled, count, wire, env>>
      /\ thr' = [thr EXCEPT ![s] = [@ EXCEPT !.pc = p, !.item = sqi]]
  BY DEF pop
<1>2. TypeOK /\ thr[s] \in Thread /\ Newest \in Int
  BY TypeFacts, NewestFacts DEF IInv, Inv
<1>3. k = Newest /\ k \in 1 .. n
  <2>1. k \in 1 .. Newest /\ (k = Newest \/ queues[k] = << >>)
    BY <1>1 DEF IInv, Inv, Waiting
  <2> QED
    BY <1>1, <1>2, <2>1, NewestFacts
<1>4. queues[k] \in Seq(Message)
  BY <1>2, <1>3, TypeFacts
<1>5. sqi \in Message /\ q \in Seq(Message)
  BY <1>1, <1>4
<1>6. v \in Thread /\ v.pc = p /\ v.item = sqi /\ thr' = [thr EXCEPT ![s] = v]
  BY <1>1, <1>2, <1>5 DEF Thread
<1>7. Active(s)
  BY <1>1 DEF Active
<1>8. queues' \in Seq(Seq(Message)) /\ Len(queues') = n
      /\ \A j \in 1 .. n : j # k => queues'[j] = queues[j]
  <2>1. TypeOK /\ k \in 1 .. n /\ q \in Seq(Message) /\ queues' = [queues EXCEPT ![k] = q]
    BY <1>1, <1>2, <1>3, <1>5
  <2> HIDE DEF k, q
  <2> QED
    BY <2>1, QueueChanges, ZenonT(30)
<1>9. EmptyStay
  BY <1>3, <1>8 DEF EmptyStay
<1>10. ~env.again => d'.sq = n
  BY <1>1, <1>7, ActiveNewest DEF IInv, Inv, Alone
<1>11. p \in {"drain", "write"} /\ (p = "write" => sqi # END)
  OBVIOUS
<1> HIDE DEF v, p, q, sqi, k
<1> QED
  BY <1>1, <1>6, <1>7, <1>8, <1>9, <1>10, <1>11, OneMoves, WriterSame, Same

(* The writer's message goes out.                                             *)
LEMMA WriteOkStep == ASSUME IInv, NEW s \in 1 .. n, WriteOk(s) PROVE IInv'
<1> DEFINE p == IF d.sq = 0 THEN "crashed" ELSE "pop"
           v == [[thr[s] EXCEPT !.pc = p] EXCEPT !.q = d.sq]
           e == [m |-> thr[s].item.m, urgent |-> thr[s].item.urgent, by |-> s, in |-> n]
<1>1. thr[s].pc = "write" /\ wire' = Append(wire, e)
      /\ UNCHANGED portVars /\ UNCHANGED <<d, queues, task, want, stalled, count, env>>
      /\ thr' = [thr EXCEPT ![s] = [@ EXCEPT !.pc = p, !.q = d.sq]]
  BY DEF WriteOk, GoesOut, Wrote
<1>2. thr[s] \in Thread /\ n \in Nat /\ wire \in Seq(Written) /\ d.sq \in {0, Newest} /\ d.sq \in 0 .. n
  BY TypeFacts, WriterSame DEF IInv, Inv
<1>3. v \in Thread /\ v.pc = p /\ v.q = d.sq /\ thr' = [thr EXCEPT ![s] = v]
  BY <1>1, <1>2 DEF Thread
<1>4. e \in Written /\ e.by = s /\ e.in = n
  <2>1. thr[s].item.m \in Nat /\ thr[s].item.urgent \in BOOLEAN
    BY <1>2 DEF Thread, Message
  <2>2. s \in Nat
    BY <1>2
  <2> QED
    BY <1>2, <2>1, <2>2 DEF Written
<1>5. Active(s)
  BY <1>1 DEF Active
<1>6. ~env.again => d.sq = n /\ d.sq # 0
  <2>1. ~env.again => d.sq = n /\ s = n
    BY <1>1, <1>5, ActiveNewest
  <2>2. n # 0
    BY <1>2
  <2> QED
    BY <2>1, <2>2
<1>7. p = "pop" => d.sq \in 1 .. n /\ d.sq = Newest
  BY <1>2
<1>8. p \in {"crashed", "pop"} /\ (p = "crashed" => d.sq = 0)
  OBVIOUS
<1> HIDE DEF v, p, e
<1>9. /\ wire' \in Seq(Written)
      /\ \A i \in DOMAIN wire' : \/ i \in DOMAIN wire /\ wire'[i] = wire[i]
                                 \/ wire'[i].by = s /\ wire'[i].in = n
  BY <1>1, <1>2, <1>4
<1> QED
  BY <1>1, <1>3, <1>5, <1>6, <1>7, <1>8, <1>9, OneMoves, WriterSame, Same, ZenonT(60)

(* The port takes nothing: EAGAIN.                                            *)
LEMMA WriteStallsStep == ASSUME IInv, NEW s \in 1 .. n, WriteStalls(s) PROVE IInv'
<1>1. d.available /\ os # "windows" /\ d' = [d EXCEPT !.lasterr = "again"] /\ UNCHANGED portVars
      /\ UNCHANGED <<thr, queues, wire, count, task, want, stalled, env>>
  BY DEF WriteStalls, Posix
<1>2. d \in Device
  BY Same
<1>3. d' \in Device /\ d'.sq = d.sq /\ d'.available = d.available /\ d'.chan = d.chan
  BY <1>1, <1>2 DEF Device
<1>4. ErrorKept
  BY <1>1, <1>3 DEF ErrorKept
<1>5. Opening'
  BY <1>1, <1>3 DEF Opening, IInv, Inv
<1> QED
  BY <1>1, <1>3, <1>4, <1>5, Same, Calm

(* A write fails on a device that is there.                                   *)
LEMMA WriteErrorStep == ASSUME IInv, NEW s \in 1 .. n, WriteError(s) PROVE IInv'
<1>1. thr[s].pc = "write" /\ thr' = [thr EXCEPT ![s].pc = "drain"]
      /\ d' = [d EXCEPT !.lasterr = "other"] /\ UNCHANGED portVars
      /\ UNCHANGED <<queues, wire, count, task, want, stalled>>
  BY DEF WriteError, Fails
<1>2. d \in Device
  BY Same
<1>3. d' \in Device /\ d'.sq = d.sq /\ d'.available = d.available /\ d'.chan = d.chan
      /\ d'.lasterr = "other"
  BY <1>1, <1>2 DEF Device
<1>4. ErrorKept
  BY <1>3 DEF ErrorKept
<1>5. Opening'
  BY <1>1, <1>3 DEF Opening, IInv, Inv
<1>6. Active(s)
  BY <1>1 DEF Active
<1>7. ~env.again => d'.sq = n
  BY <1>1, <1>3, <1>6, ActiveNewest
<1>8. env' \in World /\ env'.again = env.again
  BY Same, SpendKeeps DEF WriteError
<1> QED
  BY <1>1, <1>3, <1>4, <1>5, <1>6, <1>7, <1>8, Goes, WriterSame

(* A write on a device that is gone.                                          *)
LEMMA WriteLateStep == ASSUME IInv, NEW s \in 1 .. n, WriteLate(s) PROVE IInv'
<1>1. thr[s].pc = "write" /\ thr' = [thr EXCEPT ![s].pc = "drain"] /\ UNCHANGED portVars
      /\ UNCHANGED <<d, queues, wire, count, task, want, stalled, env>>
  BY DEF WriteLate, Fails
<1>2. Active(s)
  BY <1>1 DEF Active
<1>3. ~env.again => d'.sq = n
  BY <1>1, <1>2, ActiveNewest
<1> QED
  BY <1>1, <1>2, <1>3, Goes, WriterSame, Same

(* The writer on its way out empties the device's queue.                      *)
LEMMA drainStep == ASSUME IInv, NEW s \in 1 .. n, drain(s) PROVE IInv'
<1>1. thr[s].pc = "drain" /\ thr' = [thr EXCEPT ![s].pc = "unset"] /\ UNCHANGED portVars
      /\ UNCHANGED <<d, wire, count, task, want, stalled, env>>
      /\ queues' = IF d.sq = 0 THEN queues ELSE [queues EXCEPT ![d.sq] = << >>]
  BY DEF drain
<1>2. Active(s)
  BY <1>1 DEF Active
<1>3. ~env.again => d'.sq = n
  BY <1>1, <1>2, ActiveNewest
<1>4. queues' \in Seq(Seq(Message)) /\ Len(queues') = n /\ EmptyStay
  <2>1. CASE d.sq = 0
    BY <1>1, <2>1, WriterSame
  <2>2. CASE d.sq # 0
    <3>1. TypeOK /\ d.sq \in 1 .. n /\ << >> \in Seq(Message)
      BY <2>2, TypeFacts DEF IInv, Inv
    <3>2. /\ queues' \in Seq(Seq(Message)) /\ Len(queues') = n
          /\ queues'[d.sq] = << >> /\ \A j \in 1 .. n : j # d.sq => queues'[j] = queues[j]
      <4> DEFINE k == d.sq
                 v == << >>
      <4>1. TypeOK /\ k \in 1 .. n /\ v \in Seq(Message) /\ queues' = [queues EXCEPT ![k] = v]
        BY <1>1, <2>2, <3>1
      <4> HIDE DEF k, v
      <4>2. /\ queues' \in Seq(Seq(Message)) /\ Len(queues') = n
            /\ queues'[k] = v /\ \A j \in 1 .. n : j # k => queues'[j] = queues[j]
        BY <4>1, QueueChanges, ZenonT(30)
      <4> QED
        BY <4>2 DEF k, v
    <3> QED
      BY <3>2 DEF EmptyStay
  <2> QED
    BY <2>1, <2>2
<1> QED
  BY <1>1, <1>2, <1>3, <1>4, Goes, WriterSame, Same

(* The writer on its way out takes the queue from the device.                 *)
LEMMA unsetStep == ASSUME IInv, NEW s \in 1 .. n, unset(s) PROVE IInv'
<1>1. thr[s].pc = "unset" /\ thr' = [thr EXCEPT ![s].pc = "close"] /\ d' = [d EXCEPT !.sq = 0]
      /\ UNCHANGED portVars /\ UNCHANGED <<queues, wire, count, task, want, stalled, env>>
  BY DEF unset
<1>2. d \in Device /\ 0 \in 0 .. n
  <2>1. n \in Nat
    BY TypeFacts DEF IInv, Inv
  <2>2. 0 \in 0 .. n
    BY <2>1
  <2> QED
    BY <2>2, Same
<1>3. d' \in Device /\ d'.sq = 0 /\ d'.available = d.available /\ d'.chan = d.chan
      /\ d'.lasterr = d.lasterr
  BY <1>1, <1>2 DEF Device
<1>4. ErrorKept
  BY <1>3, Same
<1>5. Opening'
  BY <1>1, <1>3 DEF Opening, IInv, Inv
<1>6. Active(s)
  BY <1>1 DEF Active
<1> QED
  BY <1>1, <1>3, <1>4, <1>5, <1>6, Goes, WriterSame, Same

(* The writer on its way out closes the device.                               *)
LEMMA WriterClosesStep == ASSUME IInv, NEW s \in 1 .. n, WriterCloses(s) PROVE IInv'
<1>1. UNCHANGED portVars /\ UNCHANGED <<wire, count, task, want, stalled, env>>
  BY DEF WriterCloses
<1>2. CASE thr[s].pc = "close" /\ push_end /\ thr' = [thr EXCEPT ![s].pc = "shut"] /\ UNCHANGED d
  <2>1. Active(s)
    BY <1>2 DEF Active
  <2>2. queues' \in Seq(Seq(Message)) /\ Len(queues') = n /\ EmptyStay
    BY <1>2, PushEndFacts
  <2>3. ErrorKept /\ Opening'
    BY <1>1, <1>2, Same
  <2> QED
    BY <1>1, <1>2, <2>1, <2>2, <2>3, Goes, WriterSame, Same
<1>3. CASE thr[s].pc = "shut" /\ shutdown /\ thr' = [thr EXCEPT ![s].pc = "ended"] /\ UNCHANGED queues
  <2>1. Active(s)
    BY <1>3 DEF Active
  <2>2. /\ d' \in Device /\ d'.sq = d.sq /\ ErrorKept /\ d'.available = d.available
        /\ d'.chan = d.chan \/ (d.chan = "open" /\ d'.chan \in {"shut", "cancelled"})
    BY <1>3, ShutdownFacts
  <2>3. Opening'
    BY <1>1, <2>2 DEF Opening, IInv, Inv
  <2> QED
    BY <1>1, <1>3, <2>1, <2>2, <2>3, Goes, WriterSame, Same
<1> QED
  BY <1>2, <1>3 DEF WriterCloses, Closing

----------------------------------------------------------------------------
(* The steps in which a session begins.                                       *)

(* open_device fails: the device is as it was, but for its last error.        *)
LEMMA OpenFails == ASSUME IInv, open_w, open_device(d.devname) # 1 PROVE IInv'
<1>1. task = "open" /\ task' = "none" /\ d' = [d EXCEPT !.lasterr = "other", !.button = TRUE]
      /\ UNCHANGED portVars /\ UNCHANGED <<thr, queues, wire, count, want, stalled, env>>
  BY DEF open_w
<1>2. d \in Device
  BY Same
<1>3. d' \in Device /\ d'.sq = d.sq /\ d'.available = d.available /\ d'.chan = d.chan
      /\ d'.lasterr = "other"
  BY <1>1, <1>2 DEF Device
<1>4. ErrorKept
  BY <1>3 DEF ErrorKept
<1>5. Opening'
  BY <1>1, <1>3 DEF Opening, IInv, Inv
<1> QED
  BY <1>1, <1>3, <1>4, <1>5, Same, Calm

(* A session begins: its thread is not yet started and its queue is empty;    *)
(* the older ones are left, because their writers were prompt.                *)
LEMMA OpenWorks == ASSUME IInv, open_w, open_device(d.devname) = 1 PROVE IInv'
<1> DEFINE new == [pc |-> "none", q |-> 0, item |-> END]
<1>1. task = "open" /\ Prompt /\ task' = "thread" /\ d' = [d EXCEPT !.available = TRUE, !.dead = FALSE]
      /\ thr' = Append(thr, new) /\ queues' = Append(queues, << >>)
      /\ UNCHANGED portVars /\ UNCHANGED <<wire, count, want, stalled, env>>
  BY DEF open_w
<1>2. TypeOK /\ thr \in Seq(Thread) /\ queues \in Seq(Seq(Message)) /\ Len(queues) = n
      /\ n \in Nat /\ DOMAIN thr = 1 .. n /\ d \in Device
  BY TypeFacts DEF IInv, Inv, TypeOK
<1> DEFINE N == n
<1>3. n = Len(thr) /\ n' = Len(thr')
  BY DEF n
<1>4. n' = N + 1
  <2>1. Len(Append(thr, new)) = Len(thr) + 1
    BY <1>2
  <2> QED
    BY <1>1, <1>3, <2>1
<1>5. N \in Nat /\ N + 1 \in 1 .. N + 1 /\ N + 1 - 1 = N /\ N + 1 > 0
      /\ (\A s \in 1 .. N : s \in 1 .. N + 1 /\ s # N + 1)
      /\ (\A s \in 1 .. N + 1 : s # N + 1 => s \in 1 .. N) /\ 0 .. N \subseteq 0 .. N + 1
      /\ 0 \in 0 .. N + 1
  BY <1>2
<1>6. \A s \in 1 .. N : thr'[s] = thr[s] /\ queues'[s] = queues[s]
  BY <1>1, <1>2, <1>3
<1>7. thr'[N + 1] = new /\ queues'[N + 1] = << >>
  <2>1. Append(thr, new)[Len(thr) + 1] = new
    BY <1>2
  <2>2. Append(queues, << >>)[Len(queues) + 1] = << >>
    BY <1>2, EmptySeq
  <2> QED
    BY <1>1, <1>2, <1>3, <2>1, <2>2
<1>8. d'.available = TRUE /\ d'.sq = d.sq /\ d'.chan = d.chan /\ d'.lasterr = d.lasterr
  BY <1>1, <1>2 DEF Device
<1>9. ~d.available /\ d.chan = "none" /\ (\A s \in 1 .. N : thr[s].pc # "none") /\ Newest = N
  BY <1>1 DEF IInv, Inv, Opening, Starting, Newest
<1>10. Newest' = N
  BY <1>1, <1>4, <1>5 DEF Newest
<1>11. TypeOK'
  <2>1. Thread \subseteq Thread' /\ Device \subseteq Device'
    BY <1>4, <1>5 DEF Thread, Device
  <2>2. END \in Message
    BY <1>2, TypeFacts
  <2>3. new \in Thread'
    BY <2>2, <1>4, <1>5 DEF Thread
  <2>4. thr \in Seq(Thread')
    BY <1>2, <2>1
  <2>5. thr' \in Seq(Thread')
    <3> HIDE DEF new
    <3> QED
      BY <1>1, <2>3, <2>4
  <2>6. queues' \in Seq(Seq(Message)) /\ Len(queues') = n'
    <3>1. << >> \in Seq(Message)
      BY EmptySeq
    <3>2. Append(queues, << >>) \in Seq(Seq(Message)) /\ Len(Append(queues, << >>)) = Len(queues) + 1
      BY <1>2, <3>1
    <3> QED
      BY <3>2, <1>1, <1>2, <1>4
  <2>7. d' \in Device
    BY <1>1, <1>2 DEF Device
  <2>8. PortsTypeOK'
    BY <1>1, PortsSame DEF IInv, PortsInv
  <2>9. wire' \in Seq(Written) /\ want' \in DOMAIN Kind \cup {"", "soon"} /\ stalled' \in BOOLEAN
        /\ count' \in Nat /\ env' \in World /\ Written' = Written
    BY <1>1 DEF IInv, Inv, TypeOK, Written
  <2>10. d' \in Device'
    BY <2>1, <2>7
  <2> QED
    BY <1>1, <2>5, <2>6, <2>8, <2>9, <2>10 DEF TypeOK
<1>12. Opening'
  BY <1>1, <1>8, <1>9 DEF Opening
<1> HIDE DEF N
<1>13. Starting'
  <2>1. \A s \in 1 .. N + 1 : thr'[s].pc = "none" <=> s = N + 1
    BY <1>5, <1>6, <1>7, <1>9
  <2> QED
    BY <1>1, <1>4, <1>5, <1>7, <2>1 DEF Starting
<1>14. Waiting'
  <2>1. Waiting /\ n = N
    BY DEF IInv, Inv, N
  <2>2. \A s \in 1 .. N : thr[s].pc = "pop" =>
          /\ thr[s].q \in 1 .. N /\ (thr[s].q = N \/ queues[thr[s].q] = << >>)
    BY <2>1, <1>9 DEF Waiting
  <2>3. \A s \in 1 .. N : thr'[s].pc = "pop" =>
          /\ thr'[s].q \in 1 .. N /\ (thr'[s].q = N \/ queues'[thr'[s].q] = << >>)
    BY <2>2, <1>6
  <2>4. \A s \in 1 .. N + 1 : thr'[s].pc = "pop" =>
          /\ thr'[s].q \in 1 .. N /\ (thr'[s].q = N \/ queues'[thr'[s].q] = << >>)
    BY <2>3, <1>5, <1>7
  <2>5. \A s \in 1 .. N + 1 : thr'[s].pc = "write" => thr'[s].item # END
    BY <1>5, <1>6, <1>7, <2>1 DEF Waiting
  <2>6. d'.sq \in {0, N}
    BY <1>8, <1>9, <2>1 DEF Waiting
  <2> QED
    BY <1>4, <1>10, <2>4, <2>5, <2>6 DEF Waiting, END
<1>15. Alone'
  <2> SUFFICES ASSUME ~env.again PROVE Alone'
    BY <1>1 DEF Alone
  <2>1. Alone /\ n = N /\ d.lasterr # "again" /\ ~Mixed
    BY <1>9 DEF IInv, Inv, Alone, N
  <2>2. \A s \in 1 .. N : Left(s)
    <3> SUFFICES ASSUME NEW s \in 1 .. N PROVE Left(s)
      OBVIOUS
    <3>1. CASE s # N
      BY <3>1, <2>1 DEF Alone
    <3>2. CASE s = N
      <4>1. ~Spins(s) /\ thr[s].pc # "none"
        BY <2>1, <1>9 DEF Spins
      <4>2. thr[s].pc = "ended" \/ (thr[s].pc = "pop" /\ queues[thr[s].q] = << >>)
        BY <4>1, <1>1, <2>1 DEF Prompt
      <4>3. n > 0
        BY <3>2, <2>1, <1>5
      <4>4. thr[s].pc = "pop" => thr[s].q = s
        BY <3>2, <2>1, <4>3 DEF Alone
      <4> QED
        BY <4>2, <4>4 DEF Left
    <3> QED
      BY <3>1, <3>2
  <2>3. \A s \in 1 .. N : Left(s)'
    BY <2>2, <1>6 DEF Left
  <2>4. ~Crashed'
    BY <2>1, <1>4, <1>5, <1>6, <1>7 DEF Mixed, Crashed
  <2>5. ~Mixed'
    BY <2>1, <2>4, <1>1 DEF Mixed
  <2>6. thr'[N + 1].pc = "none"
    BY <1>7
  <2> QED
    BY <1>1, <1>4, <1>5, <1>8, <2>1, <2>3, <2>5, <2>6 DEF Alone
<1>16. PortsInv'
  BY <1>1, PortsSame DEF IInv
<1> QED
  BY <1>11, <1>12, <1>13, <1>14, <1>15, <1>16 DEF IInv, Inv

(* open_device, whether it works or fails.                                    *)
LEMMA open_wStep == ASSUME IInv, open_w PROVE IInv'
BY OpenFails, OpenWorks

(* The newest writer starts, on the session's own queue; the writers that     *)
(* waited for the one before have been left with it, empty.                   *)
LEMMA start_writer_threadStep == ASSUME IInv, start_writer_thread PROVE IInv'
<1> DEFINE v == [thr[n] EXCEPT !.pc = "pop", !.q = n]
<1>1. task = "thread" /\ Prompt /\ task' = "opened" /\ d' = [d EXCEPT !.sq = n]
      /\ thr' = [thr EXCEPT ![n] = v]
      /\ UNCHANGED portVars /\ UNCHANGED <<queues, wire, count, want, stalled, env>>
  BY DEF start_writer_thread
<1>2. TypeOK /\ Starting /\ Waiting /\ Alone /\ n \in Nat /\ n > 0 /\ d \in Device /\ queues[n] = << >>
  BY <1>1, TypeFacts DEF IInv, Inv, TypeOK, Starting
<1>3. n \in 1 .. n /\ n \in 0 .. n
  BY <1>2
<1>4. thr[n] \in Thread /\ thr[n].pc = "none"
  BY <1>1, <1>2, <1>3, TypeFacts DEF Starting
<1>5. v \in Thread /\ v.pc = "pop" /\ v.q = n
  BY <1>3, <1>4 DEF Thread
<1> HIDE DEF v
<1>6. /\ thr' \in Seq(Thread) /\ n' = n /\ thr'[n] = v
      /\ \A t \in 1 .. n : t # n => thr'[t] = thr[t]
  <2> DEFINE s == n
  <2>1. TypeOK /\ s \in 1 .. n /\ v \in Thread /\ thr' = [thr EXCEPT ![s] = v]
    BY <1>1, <1>2, <1>3, <1>5
  <2> HIDE DEF s
  <2>2. /\ thr' \in Seq(Thread) /\ n' = n /\ thr'[s] = v
        /\ \A t \in 1 .. n : t # s => thr'[t] = thr[t]
    BY <2>1, WriterChanges, ZenonT(30)
  <2> QED
    BY <2>2 DEF s
<1>7. d' \in Device /\ d'.sq = n /\ d'.available = d.available /\ d'.chan = d.chan
      /\ d'.lasterr = d.lasterr
  BY <1>1, <1>2, <1>3 DEF Device
<1>8. PortsInv' /\ os' = os
  BY <1>1, PortsSame DEF IInv
<1>9. TypeOK'
  BY <1>1, <1>2, <1>6, <1>7, <1>8, TypeSame DEF TypeOK
<1>10. Opening'
  BY <1>1, <1>7 DEF Opening, IInv, Inv
<1>11. Newest' = n
  BY <1>1, <1>6 DEF Newest
<1>12. Starting'
  BY <1>1, <1>2, <1>5, <1>6 DEF Starting
<1>13. \A t \in 1 .. n : t # n /\ thr[t].pc = "pop" => thr[t].q \in 1 .. n /\ queues[thr[t].q] = << >>
  BY <1>1, <1>2, NewestFacts DEF Prompt, Spins, Waiting
<1>14. Waiting'
  <2>1. \A t \in 1 .. n : thr'[t].pc = "pop" =>
          thr'[t].q \in 1 .. n /\ (thr'[t].q = n \/ queues'[thr'[t].q] = << >>)
    BY <1>1, <1>3, <1>5, <1>6, <1>13
  <2>2. \A t \in 1 .. n : thr'[t].pc = "write" => thr'[t].item # END
    BY <1>2, <1>5, <1>6 DEF Waiting
  <2> QED
    BY <1>6, <1>7, <1>11, <2>1, <2>2 DEF Waiting, END
<1>15. Alone'
  <2> SUFFICES ASSUME ~env.again PROVE Alone'
    BY <1>1 DEF Alone
  <2>1. \A t \in 1 .. n : t # n => Left(t)'
    BY <1>1, <1>2, <1>6 DEF Alone, Left
  <2>2. ~Mixed'
    <3>1. ~Crashed /\ \A i \in DOMAIN wire : wire[i].by = wire[i].in
      BY <1>2 DEF Alone, Mixed
    <3>2. ~Crashed'
      BY <3>1, <1>5, <1>6 DEF Crashed
    <3> QED
      BY <3>1, <3>2, <1>1 DEF Mixed
  <2> QED
    BY <1>1, <1>2, <1>5, <1>6, <1>7, <1>8, <2>1, <2>2 DEF Alone
<1> QED
  BY <1>8, <1>9, <1>10, <1>12, <1>14, <1>15 DEF IInv, Inv

----------------------------------------------------------------------------
(* The invariant holds when mwp starts, in every world.                       *)
LEMMA InitIInv == ASSUME Init PROVE IInv
<1>1. PICK w \in DOMAIN Worlds : env = Worlds[w] /\ PortsInit(Worlds[w].os, Worlds[w].there)
  BY DEF Init
<1>2. env \in World /\ (env.os = "linux" => ToSet(Saved) \cap (env.there \cup env.moving) = {})
  BY <1>1, DeviceAssumption DEF DeviceAssumption
<1>3. PortsInv
  <2>1. env.os \in Systems /\ env.there \subseteq ToSet(Names)
    BY <1>2 DEF World
  <2>2. env.os = "linux" => ToSet(Saved) \cap env.there = {}
    BY <1>2
  <2>3. PortsInit(env.os, env.there)
    BY <1>1
  <2> QED
    BY <2>1, <2>2, <2>3, InitList
<1>4. d = [available |-> FALSE, chan |-> "none", sq |-> 0, lasterr |-> "none", devname |-> "",
           dead |-> FALSE, button |-> TRUE]
      /\ queues = << >> /\ thr = << >> /\ wire = << >>
      /\ task = "none" /\ want = "" /\ stalled = FALSE /\ count = 0
  BY DEF Init
<1>5. n = 0
  BY <1>4 DEF n
<1>6. TypeOK
  <2>1. thr \in Seq(Thread) /\ queues \in Seq(Seq(Message)) /\ Len(queues) = n /\ wire \in Seq(Written)
    BY <1>4, <1>5, EmptySeq
  <2>2. d \in Device
    <3>1. 0 \in 0 .. n
      BY <1>5
    <3> QED
      BY <1>4, <3>1 DEF Device
  <2> QED
    BY <1>2, <1>3, <1>4, <2>1, <2>2 DEF TypeOK, PortsInv
<1>7. \A s \in 1 .. n : FALSE
  BY <1>5
<1>8. Opening
  BY <1>4 DEF Opening
<1>9. Starting
  BY <1>4, <1>7 DEF Starting
<1>10. Waiting
  BY <1>4, <1>7 DEF Waiting
<1>11. Alone
  <2>1. ~Mixed
    <3>1. DOMAIN wire = {}
      <4>1. wire \in Seq(Written) /\ Len(wire) = 0
        BY <1>4, EmptySeq
      <4> QED
        BY <4>1
    <3> QED
      BY <1>7, <3>1 DEF Mixed, Crashed
  <2>2. ~(n > 0)
    BY <1>5
  <2> QED
    BY <1>4, <1>7, <2>1, <2>2 DEF Alone
<1> QED
  BY <1>3, <1>6, <1>8, <1>9, <1>10, <1>11 DEF IInv, Inv

(* Every step of a writer.                                                    *)
LEMMA WriterStep == ASSUME IInv, NEW s \in 1 .. n, Writer(s) PROVE IInv'
BY popStep, WriteOkStep, WriteStallsStep, WriteErrorStep, WriteLateStep, drainStep, unsetStep,
   WriterClosesStep DEF Writer

(* Every step of the device and of its ports.                                 *)
LEMMA NextIInv == ASSUME IInv, [Next]_vars PROVE IInv'
<1>1. CASE UNCHANGED vars
  <2>1. UNCHANGED portVars /\ UNCHANGED <<d, queues, thr, task, want, stalled, count, wire, env>>
    BY <1>1 DEF vars, devVars
  <2>2. ErrorKept /\ Opening'
    BY <2>1, Same
  <2> QED
    BY <2>1, <2>2, Same, Calm
<1>2. CASE Steps
  BY <1>2, UserConnectsStep, open_wStep, start_writer_threadStep, setup_readerStep, writeStep,
     WriterStep, UserDisconnectsStep, close_asyncStep, LostStep, RebootStep, try_reopenStep,
     reopenStep, StallStep, PortMovesStep, HangsUpStep, SelectsStep, WatchesStep DEF Steps
<1> QED
  BY <1>1, <1>2 DEF Next

(* The inductive invariant holds of every state mwp can reach.                *)
THEOREM DeviceInvariant == Spec => []IInv
BY InitIInv, NextIInv, PTL DEF Spec

(* Device, threads, queues, ports and the watched names keep their types,     *)
(* whatever fails and whatever the user does.                                 *)
THEOREM DeviceTypes == Spec => []TypeOK
<1>1. IInv => TypeOK
  BY DEF IInv, Inv
<1> QED
  BY <1>1, DeviceInvariant, PTL

(* start_writer_thread, push_end, clearup: a message goes out only in the     *)
(* session it was given to, and no writer meets a device without a queue,     *)
(* unless a stale EAGAIN left one spinning.                                   *)
THEOREM OneSession == Spec => []OneSessionOnly
<1>1. IInv => OneSessionOnly
  BY DEF IInv, Inv, Alone, OneSessionOnly
<1> QED
  BY <1>1, DeviceInvariant, PTL

(* prepend_combo, append_combo, remove_combo and the watcher keep every name  *)
(* in the list once, and the saved devices in it.                             *)
THEOREM ListIsSound == Spec => []ListSound
<1>1. IInv => ListSound
  BY DEF IInv, PortsInv
<1> QED
  BY <1>1, DeviceInvariant, PTL

----------------------------------------------------------------------------
(* Link, step by step. Each step of the device is one of Link or changes      *)
(* nothing Link speaks of.                                                    *)

(* Link's queue is that of the newest session whose writer was started.       *)
LEMMA LatestFacts ==
  ASSUME IInv
  PROVE  /\ Latest = Newest /\ Latest \in 0 .. n /\ d.sq \in {0, Latest}
         /\ Latest # 0 => Latest \in 1 .. n /\ queues[Latest] \in Seq(Message)
<1>1. TypeOK /\ Starting /\ d.sq \in {0, Newest} /\ n \in Nat
  BY TypeFacts DEF IInv, Inv, Waiting
<1>2. task = "thread" <=> n > 0 /\ thr[n].pc = "none"
  <2>1. n > 0 => n \in 1 .. n
    BY <1>1
  <2> QED
    BY <1>1, <2>1 DEF Starting
<1>3. Latest = Newest
  BY <1>2 DEF Latest, Newest
<1>4. Latest \in 0 .. n
  <2>1. Latest = n \/ (n > 0 /\ Latest = n - 1)
    BY DEF Latest
  <2> DEFINE k == Latest
             N == n
  <2>2. N \in Nat /\ (k = N \/ (N > 0 /\ k = N - 1))
    BY <1>1, <2>1
  <2> HIDE DEF k, N
  <2>3. k \in 0 .. N
    BY <2>2
  <2> QED
    BY <2>3 DEF k, N
<1>5. Latest # 0 => Latest \in 1 .. n
  BY <1>1, <1>4
<1> QED
  BY <1>1, <1>3, <1>4, <1>5, TypeFacts

(* What Link's sender s holds, seen from its thread.                          *)
Holds(s) == IF thr[s].pc = "write" THEN thr[s].item ELSE END

(* Link's senders, and what each holds.                                       *)
LEMMA HandFacts ==
  /\ DOMAIN Hand = {s \in 1 .. n : Current(s)}
  /\ \A s \in 1 .. n : Current(s) => Hand[s] = Holds(s)
BY DEF Hand, Holds

(* Link's busy senders are the writers with a write under way.                *)
LEMMA BusyIs == ASSUME IInv PROVE Abstract!Busy = {s \in 1 .. n : thr[s].pc = "write"}
<1>1. \A s \in 1 .. n : Current(s) => (Hand[s] # END <=> thr[s].pc = "write")
  BY HandFacts DEF Holds, IInv, Inv, Waiting
<1>2. \A s \in 1 .. n : thr[s].pc = "write" => Current(s)
  BY DEF Current
<1>3. Abstract!Busy = {s \in DOMAIN Hand : Hand[s] # END}
  BY DEF Abstract!Busy, Abstract!None, END
<1> QED
  BY <1>1, <1>2, <1>3, HandFacts

(* Hand after a step, by its domain and its values.                           *)
LEMMA HandIs ==
  ASSUME NEW STATE S, n' = n,
         \A t \in 1 .. n : Current(t)' <=> t \in S,
         S \subseteq 1 .. n
  PROVE  Hand' = [t \in S |-> Holds(t)']
<1>1. {t \in 1 .. n : Current(t)}' = S
  OBVIOUS
<1>2. Hand' = [t \in {t \in 1 .. n : Current(t)}' |-> Holds(t)']
  BY DEF Hand, Holds
<1> QED
  BY <1>1, <1>2

(* Link's senders are as before where no writer comes, goes, takes or sends.  *)
LEMMA HandSame ==
  ASSUME n' = n, \A t \in 1 .. n : Current(t)' <=> Current(t),
         \A t \in 1 .. n : Current(t) => Holds(t)' = Holds(t)
  PROVE  Hand' = Hand
<1> DEFINE S == {t \in 1 .. n : Current(t)}
<1>1. {t \in 1 .. n : Current(t)}' = S
  OBVIOUS
<1>2. Hand' = [t \in {t \in 1 .. n : Current(t)}' |-> Holds(t)']
  BY DEF Hand, Holds
<1>3. Hand = [t \in S |-> Holds(t)]
  BY DEF Hand, Holds
<1>4. \A t \in S : Holds(t)' = Holds(t)
  OBVIOUS
<1> HIDE DEF S
<1> QED
  BY <1>1, <1>2, <1>3, <1>4

(* A step that Link does not see.                                             *)
LEMMA StutterMap ==
  ASSUME UNCHANGED <<thr, queues, count, wire>>, d'.available = d.available
  PROVE  UNCHANGED Abstract!vars
<1>1. n' = n /\ Latest' = Latest
  BY DEF n, Latest
<1>2. Queue' = Queue
  BY <1>1 DEF Queue, Messages
<1>3. Hand' = Hand
  BY <1>1, HandSame DEF Current, Holds
<1> QED
  BY <1>1, <1>2, <1>3 DEF Abstract!vars

(* Link's initial state.                                                      *)
LEMMA InitMap == ASSUME Init PROVE Abstract!Init
<1>0. d = [available |-> FALSE, chan |-> "none", sq |-> 0, lasterr |-> "none", devname |-> "",
           dead |-> FALSE, button |-> TRUE]
      /\ thr = << >> /\ wire = << >> /\ count = 0
  BY DEF Init
<1>1. d.available = FALSE /\ thr = << >> /\ wire = << >> /\ count = 0
  BY <1>0
<1>2. n = 0 /\ Latest = 0
  BY <1>1 DEF n, Latest
<1>3. Queue = << >>
  BY <1>2 DEF Queue
<1>4. Hand = [s \in {} |-> Abstract!None]
  <2>1. {s \in 1 .. n : Current(s)} = {}
    <3>1. 1 .. n = {}
      BY <1>2
    <3> QED
      BY <3>1
  <2>2. Hand = [s \in {} |-> Holds(s)]
    BY <2>1 DEF Hand, Holds
  <2> QED
    BY <2>2
<1> QED
  BY <1>1, <1>2, <1>3, <1>4 DEF Abstract!Init

(* Link's queue after a step.                                                 *)
LEMMA QueueNext == Queue' = IF Latest' = 0 THEN << >> ELSE Messages(queues'[Latest'])
BY DEF Queue, Messages

(* open_w begins a session of Link, or fails.                                 *)
LEMMA SessionMap ==
  ASSUME IInv, open_w PROVE [Abstract!Next]_(Abstract!vars)
<1> DEFINE new == [pc |-> "none", q |-> 0, item |-> END]
<1>1. CASE open_device(d.devname) # 1
  <2>1. UNCHANGED <<thr, queues, count, wire>> /\ d' = [d EXCEPT !.lasterr = "other", !.button = TRUE]
    BY <1>1 DEF open_w
  <2>2. d'.available = d.available
    BY <2>1, Same DEF Device
  <2> QED
    BY <2>1, <2>2, StutterMap
<1>2. CASE open_device(d.devname) = 1
  <2>1. task = "open" /\ d' = [d EXCEPT !.available = TRUE, !.dead = FALSE]
        /\ thr' = Append(thr, new) /\ queues' = Append(queues, << >>) /\ UNCHANGED <<wire, count>>
    BY <1>2 DEF open_w
  <2>2. ~d.available /\ d'.available = TRUE
    <3>1. ~d.available
      BY <2>1 DEF IInv, Inv, Opening
    <3> QED
      BY <2>1, <3>1, Same DEF Device
  <2>3. thr \in Seq(Thread) /\ queues \in Seq(Seq(Message)) /\ Len(queues) = n /\ n \in Nat
        /\ n = Len(thr) /\ n' = Len(thr')
    BY TypeFacts DEF IInv, Inv, TypeOK, n
  <2> DEFINE N == n
  <2>4. n' = N + 1
    <3>1. Len(Append(thr, new)) = Len(thr) + 1
      BY <2>3
    <3> QED
      BY <2>1, <2>3, <3>1
  <2>5. \A s \in 1 .. N : thr'[s] = thr[s] /\ queues'[s] = queues[s]
    BY <2>1, <2>3
  <2>6. thr'[N + 1] = new
    <3>1. Append(thr, new)[Len(thr) + 1] = new
      BY <2>3
    <3> QED
      BY <2>1, <2>3, <3>1
  <2>7. N \in Nat /\ N + 1 - 1 = N /\ N + 1 > 0 /\ N + 1 \in 1 .. N + 1
        /\ (\A s \in 1 .. N : s \in 1 .. N + 1) /\ (\A s \in 1 .. N + 1 : s \in 1 .. N \/ s = N + 1)
    BY <2>3
  <2>8. Latest = N
    BY <2>1, LatestFacts DEF Newest
  <2>9. Latest' = N
    BY <2>4, <2>6, <2>7 DEF Latest
  <2>10. Queue' = Queue
    <3>1. N # 0 => N \in 1 .. N
      BY <2>7
    <3>2. N # 0 => queues'[N] = queues[N]
      BY <3>1, <2>5
    <3> HIDE DEF N
    <3> QED
      BY <3>2, <2>8, <2>9, QueueNext DEF Queue
  <2> HIDE DEF N
  <2>11. Hand' = Hand
    <3> DEFINE S == {t \in 1 .. n : Current(t)}
    <3>1. N = n
      BY DEF N
    <3>2. \A t \in 1 .. N : Current(t)' <=> Current(t)
      BY <2>5, <2>8, <2>9 DEF Current
    <3>3. \A t \in 1 .. N + 1 : t = N + 1 => ~Current(t)'
      BY <2>6 DEF Current
    <3>4. {t \in 1 .. n : Current(t)}' = S
      BY <2>4, <2>7, <3>1, <3>2, <3>3
    <3>5. Hand' = [t \in {t \in 1 .. n : Current(t)}' |-> Holds(t)']
      BY DEF Hand, Holds
    <3>6. Hand = [t \in S |-> Holds(t)]
      BY DEF Hand, Holds
    <3>7. \A t \in S : Holds(t)' = Holds(t)
      BY <2>5, <3>1 DEF Holds, END
    <3> HIDE DEF S
    <3> QED
      BY <3>4, <3>5, <3>6, <3>7
  <2>12. n' = n + 1
    BY <2>4 DEF N
  <2>13. Abstract!Connect
    BY <2>1, <2>2, <2>10, <2>11, <2>12 DEF Abstract!Connect
  <2> QED
    BY <2>13 DEF Abstract!Next
<1> QED
  BY <1>1, <1>2

(* start_writer_thread brings the session's queue and sender.                 *)
LEMMA BeginMap ==
  ASSUME IInv, ~Crashed, start_writer_thread PROVE [Abstract!Next]_(Abstract!vars)
<1> DEFINE v == [thr[n] EXCEPT !.pc = "pop", !.q = n]
<1>1. task = "thread" /\ d' = [d EXCEPT !.sq = n] /\ thr' = [thr EXCEPT ![n] = v]
      /\ UNCHANGED <<queues, wire, count>>
  BY DEF start_writer_thread
<1>2. TypeOK /\ n \in Nat /\ n > 0 /\ d \in Device /\ queues[n] = << >> /\ d.available
  BY <1>1, TypeFacts DEF IInv, Inv, TypeOK, Starting, Opening
<1>3. n \in 1 .. n /\ n \in 0 .. n /\ n # 0
  BY <1>2
<1>4. thr[n] \in Thread /\ thr[n].pc = "none"
  BY <1>1, <1>2, <1>3, TypeFacts DEF IInv, Inv, Starting
<1>5. v \in Thread /\ v.pc = "pop" /\ v.q = n
  BY <1>3, <1>4 DEF Thread
<1> HIDE DEF v
<1>6. /\ thr' \in Seq(Thread) /\ n' = n /\ thr'[n] = v
      /\ \A t \in 1 .. n : t # n => thr'[t] = thr[t]
  <2>1. TypeOK /\ n \in 1 .. n /\ v \in Thread /\ thr' = [thr EXCEPT ![n] = v]
    BY <1>1, <1>2, <1>3, <1>5
  <2> QED
    BY <2>1, WriterChanges
<1>7. d'.available = d.available
  BY <1>1, <1>2 DEF Device
<1>8. Latest' = n
  BY <1>5, <1>6 DEF Latest
<1>9. Queue' = << >>
  BY <1>1, <1>2, <1>3, <1>8, MessagesNone, QueueNext
<1>10. ~Current(n)
  BY <1>4 DEF Current
<1> DEFINE B == {s \in 1 .. n : thr[s].pc = "write"}
           S == B \cup {n}
<1>11. \A t \in 1 .. n : Current(t)' <=> t \in S
  <2> SUFFICES ASSUME NEW t \in 1 .. n PROVE Current(t)' <=> t \in S
    OBVIOUS
  <2>1. CASE t = n
    BY <2>1, <1>5, <1>6, <1>8 DEF Current
  <2>2. CASE t # n
    <3>1. thr'[t] = thr[t] /\ thr[t].pc # "crashed"
      BY <2>2, <1>6 DEF Crashed
    <3>2. thr[t].pc = "pop" => thr[t].q # n
      <4>1. thr[t].pc = "pop" => thr[t].q \in 1 .. n - 1
        BY <1>1 DEF IInv, Inv, Waiting, Newest
      <4> QED
        BY <4>1, <1>2
    <3> QED
      BY <2>2, <3>1, <3>2, <1>8 DEF Current
  <2> QED
    BY <2>1, <2>2
<1>12. Hand' = [t \in S |-> Holds(t)']
  <2>1. S \subseteq 1 .. n
    BY <1>3
  <2> HIDE DEF S
  <2> QED
    BY <2>1, <1>6, <1>11, HandIs
<1>13. Abstract!Busy = B
  BY BusyIs
<1>14. \A t \in S : Holds(t)' = IF t \in B THEN Hand[t] ELSE END
  <2> SUFFICES ASSUME NEW t \in S PROVE Holds(t)' = IF t \in B THEN Hand[t] ELSE END
    OBVIOUS
  <2>1. CASE t = n
    <3>1. n \notin B
      BY <1>4
    <3> QED
      BY <2>1, <3>1, <1>5, <1>6 DEF Holds, END
  <2>2. CASE t # n
    <3>1. t \in 1 .. n /\ thr[t].pc = "write" /\ t \in B
      BY <2>2
    <3>2. Current(t) /\ thr'[t] = thr[t]
      BY <2>2, <3>1, <1>6 DEF Current
    <3>3. Hand[t] = Holds(t)
      BY <3>1, <3>2, HandFacts
    <3> QED
      BY <3>1, <3>2, <3>3 DEF Holds
  <2> QED
    BY <2>1, <2>2
<1>15. Hand' = [s \in Abstract!Busy \cup {n} |-> IF s \in Abstract!Busy THEN Hand[s] ELSE END]
  <2> HIDE DEF B
  <2> QED
    BY <1>12, <1>13, <1>14
<1>16. n \notin DOMAIN Hand
  BY <1>10, HandFacts
<1>17. Abstract!Begin
  BY <1>1, <1>2, <1>6, <1>7, <1>9, <1>15, <1>16 DEF Abstract!Begin, Abstract!None, END
<1> QED
  BY <1>17 DEF Abstract!Next

(* What a step of one writer, or none, leaves of Link's view.                 *)
LEMMA LatestSame ==
  ASSUME IInv, n' = n, \A t \in 1 .. n : thr'[t].pc = "none" <=> thr[t].pc = "none"
  PROVE  Latest' = Latest
<1>1. n \in Nat
  BY TypeFacts DEF IInv, Inv
<1>2. n > 0 => n \in 1 .. n
  BY <1>1
<1> QED
  BY <1>2 DEF Latest

(* write accepts a message.                                                   *)
LEMMA AcceptMap ==
  ASSUME IInv, NEW u \in BOOLEAN, write(u) PROVE Abstract!Accept(u)
<1> DEFINE sqi == [m |-> count + 1, urgent |-> u]
           q == IF u THEN <<sqi>> \o queues[d.sq] ELSE Append(queues[d.sq], sqi)
<1>1. UNCHANGED <<d, thr, wire>> /\ d.available /\ d.sq # 0 /\ count' = count + 1
      /\ queues' = [queues EXCEPT ![d.sq] = q]
  BY DEF write
<1>2. TypeOK /\ count \in Nat
  BY DEF IInv, Inv, TypeOK
<1>3. d.sq = Latest /\ Latest # 0 /\ Latest \in 1 .. n /\ queues[Latest] \in Seq(Message)
  BY <1>1, LatestFacts
<1>4. sqi \in Message /\ sqi # END
  BY <1>2 DEF Message, END
<1>5. Queue = Messages(queues[Latest])
  BY <1>3 DEF Queue
<1>6. Messages(q) = IF u THEN <<sqi>> \o Queue ELSE Append(Queue, sqi)
  <2> HIDE DEF sqi
  <2>1. CASE u
    BY <2>1, <1>3, <1>4, <1>5, MessagesPrepend
  <2>2. CASE ~u
    BY <2>2, <1>3, <1>4, <1>5, MessagesAppend
  <2> QED
    BY <2>1, <2>2
<1>7. q \in Seq(Message)
  <2> HIDE DEF sqi
  <2> QED
    BY <1>3, <1>4
<1>8. n' = n /\ Latest' = Latest
  BY <1>1 DEF n, Latest
<1>9. Queue' = Messages(q)
  <2> HIDE DEF q
  <2>1. queues'[Latest] = q
    BY <1>1, <1>2, <1>3, <1>7, QueueChanges, ZenonT(60)
  <2> QED
    BY <2>1, <1>3, <1>8, QueueNext
<1>10. Hand' = Hand
  BY <1>1, <1>8, HandSame DEF Current, Holds
<1> HIDE DEF q
<1> QED
  BY <1>1, <1>6, <1>8, <1>9, <1>10 DEF Abstract!Accept

(* A writer that goes from a place where Link sees it to one where it does    *)
(* not leaves; Link does not see one that is on its way out.                  *)
LEMMA HandLeaves ==
  ASSUME IInv, NEW s \in 1 .. n, n' = n, Latest' = Latest, \A t \in 1 .. n : t # s => thr'[t] = thr[t],
         ~Current(s)'
  PROVE  Hand' = [o \in DOMAIN Hand \ {s} |-> Hand[o]]
<1> DEFINE S == {t \in 1 .. n : Current(t)} \ {s}
<1>1. \A t \in 1 .. n : Current(t)' <=> t \in S
  BY DEF Current
<1>2. Hand' = [t \in S |-> Holds(t)']
  BY <1>1, HandIs
<1>3. S = DOMAIN Hand \ {s}
  BY HandFacts
<1>4. \A t \in S : Holds(t)' = Hand[t]
  BY HandFacts DEF Holds
<1> HIDE DEF S
<1> QED
  BY <1>2, <1>3, <1>4

(* A writer Link does not see changes, and Link still does not see it.        *)
LEMMA HandStays ==
  ASSUME NEW s \in 1 .. n, n' = n, Latest' = Latest, \A t \in 1 .. n : t # s => thr'[t] = thr[t],
         ~Current(s), ~Current(s)'
  PROVE  Hand' = Hand
<1>1. \A t \in 1 .. n : Current(t)' <=> Current(t)
  BY DEF Current
<1>2. \A t \in 1 .. n : Current(t) => Holds(t)' = Holds(t)
  BY DEF Holds
<1> QED
  BY <1>1, <1>2, HandSame

(* pop: a message is taken; END sends the writer away.                        *)
LEMMA PopMap ==
  ASSUME IInv, NEW s \in 1 .. n, pop(s) PROVE Abstract!Take(s) \/ Abstract!Leave(s)
<1> DEFINE k == thr[s].q
           sqi == Head(queues[k])
           p == IF sqi = END THEN "drain" ELSE "write"
           v == [[thr[s] EXCEPT !.pc = p] EXCEPT !.item = sqi]
           q == Tail(queues[k])
<1>1. thr[s].pc = "pop" /\ queues[k] # << >> /\ queues' = [queues EXCEPT ![k] = q]
      /\ UNCHANGED <<d, count, wire>> /\ thr' = [thr EXCEPT ![s] = [@ EXCEPT !.pc = p, !.item = sqi]]
  BY DEF pop
<1>2. TypeOK /\ thr[s] \in Thread
  BY TypeFacts DEF IInv, Inv
<1>3. k = Latest /\ Latest # 0 /\ Latest \in 1 .. n /\ queues[k] \in Seq(Message)
  <2>1. k \in 1 .. Newest /\ (k = Newest \/ queues[k] = << >>)
    BY <1>1 DEF IInv, Inv, Waiting
  <2>2. k = Latest /\ k \in 1 .. n
    BY <1>1, <1>2, <2>1, NewestFacts, LatestFacts
  <2>3. k # 0
    BY <2>1, <1>2, NewestFacts
  <2> QED
    BY <2>2, <2>3, LatestFacts
<1>4. sqi \in Message /\ q \in Seq(Message)
  BY <1>1, <1>3
<1>5. v \in Thread /\ v.pc = p /\ v.item = sqi /\ thr' = [thr EXCEPT ![s] = v]
  BY <1>1, <1>2, <1>4 DEF Thread
<1>6. p \in {"drain", "write"} /\ (p = "write" <=> sqi # END)
  OBVIOUS
<1>7. Messages(queues[k]) = IF sqi = END THEN Messages(q) ELSE <<sqi>> \o Messages(q)
  BY <1>1, <1>3, MessagesHead
<1>8. Queue = Messages(queues[k])
  BY <1>3 DEF Queue
<1> HIDE DEF v, p, q, sqi, k
<1>9. /\ thr' \in Seq(Thread) /\ n' = n /\ thr'[s] = v
      /\ \A t \in 1 .. n : t # s => thr'[t] = thr[t]
  BY <1>2, <1>5, WriterChanges
<1>10. Latest' = Latest
  BY <1>1, <1>5, <1>6, <1>9, LatestSame
<1>11. Queue' = Messages(q)
  <2>1. queues'[k] = q
    BY <1>1, <1>2, <1>3, <1>4, QueueChanges
  <2> QED
    BY <2>1, <1>3, <1>10, QueueNext
<1>12. Current(s) /\ Hand[s] = END /\ s \in DOMAIN Hand /\ s \notin Abstract!Busy
  <2>1. Current(s)
    BY <1>1, <1>3 DEF Current, k
  <2> QED
    BY <2>1, <1>1, HandFacts, BusyIs DEF Holds
<1>13. CASE sqi = END
  <2>1. ~Current(s)'
    BY <1>13, <1>5, <1>6, <1>9 DEF Current
  <2>2. Hand' = [o \in DOMAIN Hand \ {s} |-> Hand[o]]
    BY <2>1, <1>9, <1>10, HandLeaves
  <2>3. Queue' = Queue
    BY <1>13, <1>7, <1>8, <1>11
  <2> QED
    BY <2>2, <2>3, <1>1, <1>9, <1>12 DEF Abstract!Leave
<1>14. CASE sqi # END
  <2>1. Current(s)' /\ Holds(s)' = sqi
    BY <1>14, <1>5, <1>6, <1>9 DEF Current, Holds
  <2> DEFINE S == {t \in 1 .. n : Current(t)}
  <2>2. \A t \in 1 .. n : Current(t)' <=> t \in S
    BY <2>1, <1>9, <1>10, <1>12 DEF Current
  <2>3. Hand' = [t \in S |-> Holds(t)']
    BY <2>2, <1>9, HandIs
  <2>4. S = DOMAIN Hand
    BY HandFacts
  <2>5. \A t \in S : Holds(t)' = IF t = s THEN sqi ELSE Hand[t]
    BY <2>1, <1>9, HandFacts DEF Holds
  <2>6. Hand' = [Hand EXCEPT ![s] = sqi]
    <3>1. Hand = [t \in DOMAIN Hand |-> Hand[t]]
      BY DEF Hand
    <3> HIDE DEF S
    <3> QED
      BY <2>3, <2>4, <2>5, <3>1
  <2>7. Messages(q) \in Seq(Message)
    BY <1>4, MessagesIs DEF Counts
  <2>8. Queue = <<sqi>> \o Messages(q)
    BY <1>14, <1>7, <1>8
  <2>9. Queue # << >> /\ Head(Queue) = sqi /\ Tail(Queue) = Messages(q)
    BY <2>7, <2>8, <1>4
  <2>10. s \in DOMAIN Hand \ Abstract!Busy /\ Hand' = [Hand EXCEPT ![s] = Head(Queue)]
         /\ Queue' = Tail(Queue)
    BY <2>6, <2>9, <1>11, <1>12
  <2> QED
    BY <2>9, <2>10, <1>1, <1>9 DEF Abstract!Take
<1> QED
  BY <1>13, <1>14

(* write_serial: what the writer holds goes out, and it asks for more.        *)
LEMMA SendMap ==
  ASSUME IInv, NEW s \in 1 .. n, WriteOk(s) PROVE Abstract!Send(s)
<1> DEFINE p == IF d.sq = 0 THEN "crashed" ELSE "pop"
           v == [[thr[s] EXCEPT !.pc = p] EXCEPT !.q = d.sq]
<1>1. thr[s].pc = "write" /\ d.available /\ UNCHANGED <<d, queues, count>>
      /\ wire' = Append(wire, [m |-> thr[s].item.m, urgent |-> thr[s].item.urgent, by |-> s, in |-> n])
      /\ thr' = [thr EXCEPT ![s] = [@ EXCEPT !.pc = p, !.q = d.sq]]
  BY DEF WriteOk, GoesOut, Wrote
<1>2. TypeOK /\ thr[s] \in Thread /\ d.sq \in 0 .. n /\ d.sq \in {0, Latest}
  BY TypeFacts, LatestFacts DEF IInv, Inv
<1>3. v \in Thread /\ v.pc = p /\ v.q = d.sq /\ thr' = [thr EXCEPT ![s] = v]
  BY <1>1, <1>2 DEF Thread
<1>4. p = "crashed" \/ (p = "pop" /\ d.sq = Latest)
  BY <1>2
<1> HIDE DEF v, p
<1>5. /\ thr' \in Seq(Thread) /\ n' = n /\ thr'[s] = v
      /\ \A t \in 1 .. n : t # s => thr'[t] = thr[t]
  BY <1>2, <1>3, WriterChanges
<1>6. Latest' = Latest
  BY <1>1, <1>3, <1>4, <1>5, LatestSame
<1>7. Queue' = Queue
  BY <1>1, <1>6, QueueNext DEF Queue
<1>8. Current(s) /\ Hand[s] = thr[s].item /\ s \in Abstract!Busy
  BY <1>1, HandFacts, BusyIs DEF Current, Holds
<1>9. Current(s)' /\ Holds(s)' = END
  BY <1>3, <1>4, <1>5, <1>6 DEF Current, Holds, END
<1> DEFINE S == {t \in 1 .. n : Current(t)}
<1>10. \A t \in 1 .. n : Current(t)' <=> t \in S
  BY <1>5, <1>6, <1>8, <1>9 DEF Current
<1>11. Hand' = [t \in S |-> Holds(t)']
  BY <1>5, <1>10, HandIs
<1>12. S = DOMAIN Hand
  BY HandFacts
<1>13. \A t \in S : Holds(t)' = IF t = s THEN END ELSE Hand[t]
  BY <1>5, <1>9, HandFacts DEF Holds
<1>14. Hand' = [Hand EXCEPT ![s] = END]
  <2>1. Hand = [t \in DOMAIN Hand |-> Hand[t]]
    BY DEF Hand
  <2> HIDE DEF S
  <2> QED
    BY <1>11, <1>12, <1>13, <2>1
<1> QED
  BY <1>1, <1>5, <1>7, <1>8, <1>14 DEF Abstract!Send, Abstract!None, END

(* A writer that fails leaves; what it holds is lost with it.                 *)
LEMMA FailMap ==
  ASSUME IInv, NEW s \in 1 .. n, thr[s].pc = "write", Fails(s),
         d'.available = d.available, UNCHANGED <<queues, count, wire>>
  PROVE  Abstract!Leave(s)
<1> DEFINE v == [thr[s] EXCEPT !.pc = "drain"]
<1>1. TypeOK /\ thr[s] \in Thread /\ thr' = [thr EXCEPT ![s] = v]
  BY TypeFacts DEF IInv, Inv, Fails
<1>2. v \in Thread /\ v.pc = "drain"
  BY <1>1 DEF Thread
<1> HIDE DEF v
<1>3. /\ thr' \in Seq(Thread) /\ n' = n /\ thr'[s] = v
      /\ \A t \in 1 .. n : t # s => thr'[t] = thr[t]
  BY <1>1, <1>2, WriterChanges
<1>4. Latest' = Latest
  BY <1>2, <1>3, LatestSame
<1>5. Queue' = Queue
  BY <1>4, QueueNext DEF Queue
<1>6. s \in DOMAIN Hand
  BY HandFacts DEF Current
<1>7. ~Current(s)'
  BY <1>2, <1>3 DEF Current
<1>8. Hand' = [o \in DOMAIN Hand \ {s} |-> Hand[o]]
  BY <1>3, <1>4, <1>7, HandLeaves
<1> QED
  BY <1>3, <1>5, <1>6, <1>8 DEF Abstract!Leave

(* A writer on its way out is no sender any more, whatever it does.           *)
LEMMA GoneMap ==
  ASSUME IInv, NEW s \in 1 .. n, thr[s].pc \in {"drain", "unset", "close", "shut"},
         NEW p \in {"unset", "close", "shut", "ended"}, thr' = [thr EXCEPT ![s].pc = p]
  PROVE  n' = n /\ Latest' = Latest /\ Hand' = Hand
<1> DEFINE v == [thr[s] EXCEPT !.pc = p]
<1>1. TypeOK /\ thr[s] \in Thread /\ thr' = [thr EXCEPT ![s] = v]
  BY TypeFacts DEF IInv, Inv
<1>2. v \in Thread /\ v.pc = p
  BY <1>1 DEF Thread
<1> HIDE DEF v
<1>3. /\ thr' \in Seq(Thread) /\ n' = n /\ thr'[s] = v
      /\ \A t \in 1 .. n : t # s => thr'[t] = thr[t]
  BY <1>1, <1>2, WriterChanges
<1>4. Latest' = Latest
  BY <1>2, <1>3, LatestSame
<1>5. ~Current(s) /\ ~Current(s)'
  BY <1>2, <1>3 DEF Current
<1> QED
  BY <1>3, <1>4, <1>5, HandStays

(* END in front of the queue is nothing that waits.                           *)
LEMMA PushEndMap ==
  ASSUME IInv, push_end, Latest' = Latest
  PROVE  Queue' = Queue
<1>1. d.sq \in {0, Latest} /\ (Latest # 0 => Latest \in 1 .. n /\ queues[Latest] \in Seq(Message))
  BY LatestFacts
<1>2. CASE d.sq = 0
  BY <1>2, QueueNext DEF push_end, Queue
<1>3. CASE d.sq # 0
  <2> DEFINE q == <<END>> \o queues[Latest]
  <2>1. TypeOK /\ END \in Message /\ Latest \in 1 .. n /\ queues[Latest] \in Seq(Message)
    BY <1>1, <1>3, TypeFacts DEF IInv, Inv
  <2>2. q \in Seq(Message) /\ queues' = [queues EXCEPT ![Latest] = q]
    <3>1. q \in Seq(Message)
      BY <2>1
    <3>2. d.sq = Latest
      BY <1>1, <1>3
    <3> QED
      BY <1>3, <3>1, <3>2 DEF push_end
  <2>3. Messages(q) = Messages(queues[Latest])
    BY <2>1, MessagesPrepend
  <2> HIDE DEF q
  <2>4. queues'[Latest] = q
    BY <2>1, <2>2, QueueChanges
  <2> QED
    BY <1>1, <1>3, <2>3, <2>4, QueueNext DEF Queue
<1> QED
  BY <1>2, <1>3

(* drain drops what waits, or finds no queue.                                 *)
LEMMA DrainMap == ASSUME IInv, NEW s \in 1 .. n, drain(s) PROVE [Abstract!Next]_(Abstract!vars)
<1>1. UNCHANGED <<d, count, wire>> /\ thr[s].pc = "drain" /\ thr' = [thr EXCEPT ![s].pc = "unset"]
      /\ queues' = IF d.sq = 0 THEN queues ELSE [queues EXCEPT ![d.sq] = << >>]
  BY DEF drain
<1>2. n' = n /\ Latest' = Latest /\ Hand' = Hand
  BY <1>1, GoneMap
<1>3. CASE d.sq = 0
  <2>1. Queue' = Queue
    BY <1>1, <1>2, <1>3, QueueNext DEF Queue
  <2> QED
    BY <2>1, <1>1, <1>2 DEF Abstract!vars
<1>4. CASE d.sq # 0
  <2>1. TypeOK /\ d.sq = Latest /\ d.sq \in 1 .. n /\ << >> \in Seq(Message)
    BY <1>4, LatestFacts DEF IInv, Inv
  <2>2. queues'[d.sq] = << >>
    BY <1>1, <1>4, <2>1, QueueChanges
  <2>3. Queue' = << >>
    BY <1>2, <1>4, <2>1, <2>2, MessagesNone, QueueNext
  <2>4. Abstract!Drop
    BY <2>3, <1>1, <1>2 DEF Abstract!Drop
  <2> QED
    BY <2>4 DEF Abstract!Next
<1> QED
  BY <1>3, <1>4

(* The rest of a writer's way out is nothing to Link.                         *)
LEMMA OutMap ==
  ASSUME IInv, NEW s \in 1 .. n, unset(s) \/ WriterCloses(s)
  PROVE  UNCHANGED Abstract!vars
<1>1. UNCHANGED <<count, wire>>
  BY DEF unset, WriterCloses
<1>2. n' = n /\ Latest' = Latest /\ Hand' = Hand
  BY GoneMap DEF unset, WriterCloses, Closing
<1>3. d'.available = d.available
  BY Same, ShutdownFacts DEF unset, WriterCloses, Closing, Device
<1>4. Queue' = Queue
  <2>1. CASE UNCHANGED queues
    BY <2>1, <1>2, QueueNext DEF Queue
  <2>2. CASE push_end
    BY <2>2, <1>2, PushEndMap
  <2> QED
    BY <2>1, <2>2 DEF unset, WriterCloses, Closing
<1> QED
  BY <1>1, <1>2, <1>3, <1>4 DEF Abstract!vars

(* Nor is the close task.                                                     *)
LEMMA CloseMap == ASSUME IInv, close_async PROVE UNCHANGED Abstract!vars
<1>1. UNCHANGED <<thr, count, wire>>
  BY DEF close_async
<1>2. CASE push_end /\ UNCHANGED d
  <2>1. n' = n /\ Latest' = Latest
    BY <1>1 DEF n, Latest
  <2>2. Hand' = Hand
    BY <1>1, <2>1, HandSame DEF Current, Holds
  <2> QED
    BY <1>1, <1>2, <2>1, <2>2, PushEndMap DEF Abstract!vars
<1>3. CASE shutdown /\ UNCHANGED queues
  BY <1>1, <1>3, ShutdownFacts, StutterMap
<1> QED
  BY <1>2, <1>3 DEF close_async

(* clearup takes the session down.                                            *)
LEMMA LostMap == ASSUME IInv, Lost PROVE [Abstract!Next]_(Abstract!vars)
<1>1. d.available /\ UNCHANGED <<thr, queues, count, wire>> /\ d \in Device
  BY Same DEF Lost
<1>2. CASE clearup
  <2>1. d'.available = FALSE
    BY <1>1, <1>2 DEF clearup, Device
  <2>2. n' = n /\ Latest' = Latest
    BY <1>1 DEF n, Latest
  <2>3. Queue' = Queue
    BY <1>1, <2>2, QueueNext DEF Queue
  <2>4. Hand' = Hand
    BY <1>1, <2>2, HandSame DEF Current, Holds
  <2>5. Abstract!Down
    BY <1>1, <2>1, <2>2, <2>3, <2>4 DEF Abstract!Down
  <2> QED
    BY <2>5 DEF Abstract!Next
<1>3. CASE d' = [d EXCEPT !.chan = "refused"]
  <2>1. d'.available = d.available
    BY <1>1, <1>3 DEF Device
  <2> QED
    BY <1>1, <2>1, StutterMap
<1> QED
  BY <1>2, <1>3 DEF Lost

(* All else is nothing to Link.                                               *)
LEMMA OtherMap ==
  ASSUME IInv,
         \/ UserConnects \/ setup_reader \/ UserDisconnects \/ Reboot \/ try_reopen \/ reopen
         \/ Stall \/ PortMoves \/ HangsUp \/ Selects \/ Watches
         \/ \E s \in 1 .. n : WriteStalls(s)
  PROVE  UNCHANGED Abstract!vars
<1>1. d \in Device
  BY Same
<1>2. UNCHANGED <<thr, queues, count, wire>>
  BY DEF UserConnects, setup_reader, UserDisconnects, Reboot, try_reopen, reopen, Stall, PortMoves,
         HangsUp, Selects, Watches, WriteStalls, devVars
<1>3. d'.available = d.available
  BY <1>1 DEF Begins, UserConnects, setup_reader, UserDisconnects, Reboot, try_reopen, reopen, Stall,
              PortMoves, HangsUp, Selects, Watches, WriteStalls, devVars, Device
<1> QED
  BY <1>2, <1>3, StutterMap

(* Every step of the device is one of Link, or none.                          *)
LEMMA NextMap == ASSUME IInv, [Next]_vars PROVE [Abstract!Next]_(Abstract!vars)
<1>1. CASE UNCHANGED vars
  <2>1. UNCHANGED <<thr, queues, count, wire, d>>
    BY <1>1 DEF vars, devVars
  <2> QED
    BY <2>1, StutterMap
<1>2. CASE ~Crashed /\ Steps
  <2>1. ASSUME NEW s \in 1 .. n, Abstract!Take(s) \/ Abstract!Send(s) \/ Abstract!Leave(s)
        PROVE  Abstract!Next
    <3>1. s \in DOMAIN Hand
      BY <2>1 DEF Abstract!Take, Abstract!Send, Abstract!Leave, Abstract!Busy
    <3> QED
      BY <2>1, <3>1 DEF Abstract!Next
  <2>2. ASSUME NEW s \in 1 .. n, Writer(s) PROVE [Abstract!Next]_(Abstract!vars)
    <3>1. CASE pop(s)
      BY <3>1, <2>1, PopMap
    <3>2. CASE WriteOk(s)
      BY <3>2, <2>1, SendMap
    <3>3. CASE WriteStalls(s)
      BY <3>3, OtherMap
    <3>4. CASE WriteError(s) \/ WriteLate(s)
      <4>1. thr[s].pc = "write" /\ Fails(s) /\ UNCHANGED <<queues, count, wire>>
        BY <3>4 DEF WriteError, WriteLate
      <4>2. d'.available = d.available
        BY <3>4, Same DEF WriteError, WriteLate, Device
      <4> QED
        BY <4>1, <4>2, <2>1, FailMap
    <3>5. CASE drain(s)
      BY <3>5, DrainMap
    <3>6. CASE unset(s) \/ WriterCloses(s)
      BY <3>6, OutMap
    <3> QED
      BY <2>2, <3>1, <3>2, <3>3, <3>4, <3>5, <3>6 DEF Writer
  <2>3. ASSUME NEW u \in BOOLEAN, write(u) PROVE Abstract!Next
    BY <2>3, AcceptMap DEF Abstract!Next
  <2> QED
    BY <1>2, <2>2, <2>3, SessionMap, BeginMap, CloseMap, LostMap, OtherMap DEF Steps
<1> QED
  BY <1>1, <1>2 DEF Next

(* The device, its threads and its queues send what write accepts as Link     *)
(* says, over all the ways to open, lose, close and reopen it.                *)
THEOREM DeviceIsLink == Spec => ImplementsLink
BY InitMap, NextMap, DeviceInvariant, PTL DEF Spec, ImplementsLink, Abstract!Spec

(* What LinkProofs shows of Link, said of the device.                         *)
Promises == INSTANCE LinkProofs WITH up <- d.available, session <- n, queue <- Queue, hand <- Hand

(* write, _write: no buffer goes out twice, or one that write did not accept, *)
(* and a writer sends what is not urgent in the order of the calls.           *)
COROLLARY DeviceSendsOnce == Spec => [](Abstract!AtMostOnce /\ Abstract!OrderKept)
<1>1. Promises!Spec => [](Promises!AtMostOnce /\ Promises!OrderKept)
  BY Promises!NeverTwice, Promises!AlwaysInOrder, PTL
<1>2. Abstract!Init <=> Promises!Init
  BY DEF Abstract!Init, Promises!Init, Abstract!None, Promises!None
<1>3. Abstract!Next => Promises!Next
  BY DEF Abstract!Next, Promises!Next, Abstract!Connect, Promises!Connect,
         Abstract!Begin, Promises!Begin, Abstract!Accept, Promises!Accept,
         Abstract!Take, Promises!Take, Abstract!Send, Promises!Send, Abstract!Leave, Promises!Leave,
         Abstract!Drop, Promises!Drop, Abstract!Down, Promises!Down,
         Abstract!Busy, Promises!Busy, Abstract!None, Promises!None
<1>4. [Abstract!Next]_(Abstract!vars) => [Promises!Next]_(Promises!vars)
  BY <1>3 DEF Abstract!vars, Promises!vars
<1>5. Promises!AtMostOnce /\ Promises!OrderKept => Abstract!AtMostOnce /\ Abstract!OrderKept
  BY DEF Promises!AtMostOnce, Promises!OrderKept, Abstract!AtMostOnce, Abstract!OrderKept
<1> QED
  BY <1>1, <1>2, <1>4, <1>5, DeviceIsLink, PTL DEF ImplementsLink, Abstract!Spec, Promises!Spec
=============================================================================
