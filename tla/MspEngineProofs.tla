-------------------------- MODULE MspEngineProofs --------------------------
(***************************************************************************)
(* What the engine's operators preserve, for every choice of the times:    *)
(* the engine keeps its type, its poll list is empty or holds a status     *)
(* request, and no operator changes avail.                                 *)
(***************************************************************************)
EXTENDS MspEngine, NaturalsInduction, WellFoundedInduction, TLAPS

Good(e)      == e \in Engine /\ PollListOK(e)
(* A good engine, up as before, that has not begun a conversation.         *)
Keeps(e, e1) ==
  Good(e1) /\ e1.avail = e.avail /\ (e1.serstate = "NORMAL" => e.serstate = "NORMAL")

----------------------------------------------------------------------------
(* A command with a natural argument is a message.                         *)
LEMMA MsgIsMessage ==
  ASSUME NEW c \in Cmds, NEW a \in Nat
  PROVE  Msg(c, a) \in Message
  BY DEF Msg, Message

(* Polls and status requests are commands.                                 *)
LEMMA PollsAreCmds == PollCmds \subseteq Cmds /\ StatusCmds \subseteq PollCmds
  BY DEF PollCmds, Cmds

(* The members of the small integer sets that the operators use.           *)
LEMMA SmallNumbers ==
  /\ AgeMax \in Nat /\ 0 \in Ages
  /\ 0 \in Leaves /\ 1 \in Leaves /\ 2 \in Leaves
  BY TimesAssumption DEF TimesAssumption, AgeMax, Ages, Leaves

(* The fields that the operators read.                                     *)
LEMMA Fields ==
  ASSUME NEW e, Good(e)
  PROVE  /\ e.avail \in BOOLEAN /\ e.armed \in BOOLEAN
         /\ e.serstate \in SERSTATE
         /\ e.mq \in Seq(Message) /\ e.wire \in Seq(Message)
         /\ e.lastmsg \in Message \cup {NoMsg}
         /\ e.requests \in Seq(PollCmds \cup {"NOOP"})
         /\ e.tcycle \in Nat /\ e.pend \in Nat
         /\ e.mleave \in Leaves /\ e.okage \in Ages /\ e.rxage \in Ages
         /\ e.due \in SUBSET RateLimited
  BY DEF Good, Engine

----------------------------------------------------------------------------
(* Handing a message to the device.                                        *)
LEMMA SendCommand ==
  ASSUME NEW e, Good(e), NEW m \in Message
  PROVE  Keeps(e, send_command(e, m))
<1>1. Append(e.wire, m) \in Seq(Message)
  BY Fields
<1>2. Keeps(e, [e EXCEPT !.wire = Append(e.wire, m)])
  BY <1>1 DEF Good, Keeps, PollListOK, Engine
<1>3. QED BY <1>2 DEF send_command

(* Queueing a message.                                                     *)
LEMMA QueueCmd ==
  ASSUME NEW e, Good(e), NEW m \in Message
  PROVE  Keeps(e, queue_cmd(e, m))
<1>1. Append(e.mq, m) \in Seq(Message)
  BY Fields
<1>2. Keeps(e, [e EXCEPT !.mq = Append(e.mq, m)])
  BY <1>1 DEF Good, Keeps, PollListOK, Engine
<1>3. QED BY <1>2 DEF queue_cmd, Keeps

(* Running the queue.                                                      *)
LEMMA RunQueue ==
  ASSUME NEW e, Good(e)
  PROVE  Keeps(e, run_queue(e))
<1>1. CASE ~(e.avail /\ e.mq # << >>)
  BY <1>1 DEF run_queue, Keeps
<1>2. CASE e.avail /\ e.mq # << >>
  <2> DEFINE e1 == [e EXCEPT !.lastmsg = Head(e.mq), !.mq = Tail(e.mq)]
  <2>1. Head(e.mq) \in Message /\ Tail(e.mq) \in Seq(Message)
    BY <1>2, Fields
  <2>2. Keeps(e, e1)
    BY <2>1 DEF Good, Keeps, PollListOK, Engine
  <2>3. Keeps(e, send_command(e1, Head(e.mq)))
    BY <2>1, <2>2, SendCommand DEF Keeps
  <2>4. QED BY <1>2, <2>3 DEF run_queue
<1>3. QED BY <1>1, <1>2

(* Sending the last message again.                                         *)
LEMMA ResendLast ==
  ASSUME NEW e, Good(e)
  PROVE  Keeps(e, resend_last(e))
<1>1. e.avail \in BOOLEAN /\ e.lastmsg \in Message \cup {NoMsg}
  BY Fields
<1>2. CASE ~e.avail
  BY <1>2 DEF resend_last, Keeps
<1>3. CASE e.avail /\ e.lastmsg # NoMsg
  BY <1>1, <1>3, SendCommand DEF resend_last
<1>4. CASE e.avail /\ e.lastmsg = NoMsg
  BY <1>4, RunQueue DEF resend_last
<1>5. QED BY <1>1, <1>2, <1>3, <1>4

----------------------------------------------------------------------------
(* A set of naturals that is not empty has a least member.                 *)
LEMMA LeastNatural ==
  ASSUME NEW T \in SUBSET Nat, T # {}
  PROVE  \E x \in T : \A y \in T : x <= y
<1>1. PICK x \in T : \A y \in T : ~(<<y, x>> \in OpToRel(<, Nat))
  BY WFMin, NatLessThanWellFounded
<1>2. \A y \in T : ~(y < x)
  BY <1>1 DEF OpToRel
<1>3. QED BY <1>2

(* Going once round a list of n comes back to the same place.              *)
LEMMA OnceRound ==
  ASSUME NEW n \in Nat, n > 0, NEW r \in 0 .. (n - 1)
  PROVE  (r + n) % n = r
  BY SMTT(30)

(* The skip loop of send_poll finds a request: from any place in a list    *)
(* that holds a status request, some request further on is not skipped,    *)
(* and the loop stops at the first such.                                   *)
LEMMA SkipLoop ==
  ASSUME NEW e, Good(e), e.requests # << >>, e.tcycle < Len(e.requests)
  PROVE  /\ NextDue(e) \in 0 .. (Len(e.requests) - 1)
         /\ Ahead(e, NextDue(e)) \in 0 .. (Len(e.requests) - 1)
         /\ Candidate(e, NextDue(e)) \in PollCmds \cup {"NOOP"}
<1> DEFINE n == Len(e.requests)
           T == {k \in 0 .. (n - 1) : ~Skipped(e, Candidate(e, k))}
<1>1. n \in Nat /\ n > 0 /\ e.tcycle \in Nat /\ DOMAIN e.requests = 1 .. n
  BY Fields
<1>2. PICK i \in 1 .. n : e.requests[i] \in StatusCmds
  BY <1>1 DEF Good, PollListOK
<1>3. \A k \in 0 .. (n - 1) : Ahead(e, k) \in 0 .. (n - 1)
  BY <1>1, SMTT(30) DEF Ahead
<1>4. \E k \in 0 .. (n - 1) : Ahead(e, k) = i - 1
  <2>1. CASE i - 1 >= e.tcycle
    <3>1. (i - 1 - e.tcycle) \in 0 .. (n - 1)
      BY <1>1, <2>1
    <3>2. (e.tcycle + (i - 1 - e.tcycle)) % n = i - 1
      BY <1>1, <2>1
    <3>3. QED BY <3>1, <3>2 DEF Ahead
  <2>2. CASE i - 1 < e.tcycle
    <3>1. (i - 1 - e.tcycle + n) \in 0 .. (n - 1)
      BY <1>1, <2>2
    <3>2. e.tcycle + (i - 1 - e.tcycle + n) = (i - 1) + n
      BY <1>1
    <3>3. (i - 1) \in 0 .. (n - 1)
      BY <1>1
    <3>4. ((i - 1) + n) % n = i - 1
      <4> HIDE DEF n
      <4>1. QED BY <1>1, <3>3, OnceRound
    <3>5. QED BY <3>1, <3>2, <3>4 DEF Ahead
  <2>3. QED BY <1>1, <2>1, <2>2
<1>5. T \in SUBSET Nat /\ T # {}
  <2>1. PICK k \in 0 .. (n - 1) : Ahead(e, k) = i - 1
    BY <1>4
  <2>2. Candidate(e, k) \in StatusCmds
    BY <1>1, <1>2, <2>1 DEF Candidate
  <2>3. ~Skipped(e, Candidate(e, k))
    BY <2>2 DEF Skipped, StatusCmds, RateLimited
  <2>4. QED BY <1>1, <2>3
<1>6. PICK k \in T : \A j \in T : k <= j
  BY <1>5, LeastNatural
<1>7. \A j \in 0 .. (k - 1) : Skipped(e, Candidate(e, j))
  BY <1>1, <1>6
<1>8. NextDue(e) \in 0 .. (n - 1)
  BY <1>6, <1>7 DEF NextDue
<1>9. Ahead(e, NextDue(e)) \in 0 .. (n - 1)
  BY <1>3, <1>8
<1>10. Candidate(e, NextDue(e)) \in PollCmds \cup {"NOOP"}
  BY <1>1, <1>9, Fields DEF Candidate
<1>11. QED BY <1>8, <1>9, <1>10

(* Sending a poll.                                                         *)
LEMMA SendPoll ==
  ASSUME NEW e, Good(e)
  PROVE  Keeps(e, send_poll(e))
<1>1. CASE e.serstate # "POLLER" \/ Len(e.requests) <= e.tcycle \/ OutOfOrder(e)
  BY <1>1 DEF send_poll, Keeps
<1>2. CASE ~(e.serstate # "POLLER" \/ Len(e.requests) <= e.tcycle
               \/ OutOfOrder(e))
  <2> DEFINE req == Candidate(e, NextDue(e))
             e1  == [e EXCEPT !.tcycle = Ahead(e, NextDue(e)),
                              !.due = e.due \ {req}, !.lastpoll = req]
  <2>1. e.requests # << >> /\ e.tcycle < Len(e.requests)
    BY <1>2, Fields
  <2>2. Ahead(e, NextDue(e)) \in Nat /\ req \in PollCmds \cup {"NOOP"}
    BY <2>1, SkipLoop, Fields
  <2>3. e.due \ {req} \in SUBSET RateLimited
    BY Fields
  <2> HIDE DEF req
  <2>4. Keeps(e, e1)
    BY <2>2, <2>3 DEF Good, Keeps, PollListOK, Engine
  <2>5. req # "NOOP" => Keeps(e1, queue_cmd(e1, Msg(req, 0)))
    BY <2>2, <2>4, QueueCmd, MsgIsMessage, PollsAreCmds DEF Keeps
  <2>6. send_poll(e) = IF req = "NOOP" THEN e1
                                       ELSE queue_cmd(e1, Msg(req, 0))
    BY <1>2 DEF send_poll, req
  <2>7. QED BY <2>4, <2>5, <2>6 DEF Keeps
<1>3. QED BY <1>1, <1>2

(* Advancing the poll loop.                                                *)
LEMMA NextPoll ==
  ASSUME NEW e, Good(e)
  PROVE  Keeps(e, next_poll(e))
<1>1. CASE e.requests = << >>
  <2>1. Keeps(e, [e EXCEPT !.divzero = TRUE])
    BY DEF Good, Keeps, PollListOK, Engine
  <2>2. QED BY <1>1, <2>1 DEF next_poll
<1>2. CASE e.requests # << >>
  <2> DEFINE t  == (e.tcycle + 1) % Len(e.requests)
             e1 == [e EXCEPT !.tcycle = t]
  <2>1. t \in Nat
    BY <1>2, Fields
  <2> HIDE DEF t
  <2>2. Keeps(e, e1)
    BY <2>1 DEF Good, Keeps, PollListOK, Engine
  <2>3. Keeps(e, run_queue(send_poll(e1)))
    BY <2>2, SendPoll, RunQueue DEF Keeps
  <2>4. next_poll(e) = run_queue(send_poll(e1))
    BY <1>2 DEF next_poll, t
  <2>5. QED BY <2>3, <2>4
<1>3. QED BY <1>1, <1>2

(* The next poll, now or deferred.                                         *)
LEMMA TimedPoll ==
  ASSUME NEW e, Good(e), NEW soon \in BOOLEAN
  PROVE  Keeps(e, timed_poll(e, soon))
<1>1. CASE e.requests = << >>
  BY <1>1 DEF timed_poll, Keeps
<1>2. CASE e.requests # << >> /\ soon
  <2>1. e.pend + 1 \in Nat
    BY Fields
  <2>2. Keeps(e, [e EXCEPT !.pend = e.pend + 1])
    BY <2>1 DEF Good, Keeps, PollListOK, Engine
  <2>3. QED BY <1>2, <2>2 DEF timed_poll
<1>3. CASE e.requests # << >> /\ ~soon
  BY <1>3, NextPoll DEF timed_poll
<1>4. QED BY <1>1, <1>2, <1>3

(* Waking the poller.                                                      *)
LEMMA ResetPoller ==
  ASSUME NEW e, Good(e), NEW t, NEW nopoll
  PROVE  Keeps(e, reset_poller(e, t, nopoll))
<1> DEFINE e1 == [e EXCEPT !.mleave = 0, !.okage = 0, !.rxage = 0,
                           !.tcycle = 0, !.serstate = "POLLER",
                           !.lastpoll = "NOOP"]
<1>1. e1 \in Engine
  BY SmallNumbers DEF Good, Engine, SERSTATE
<1>2. Keeps(e, e1)
  BY <1>1 DEF Good, Keeps, PollListOK, Engine
<1>3. Keeps(e, msg_poller(e1))
  BY <1>2, SendPoll DEF msg_poller, Keeps
<1>4. Keeps(e, [e EXCEPT !.mleave = 0])
  BY SmallNumbers DEF Good, Keeps, PollListOK, Engine
<1>5. QED BY <1>3, <1>4 DEF reset_poller

(* Emptying the slot of a poll that is not a status request.               *)
LEMMA ClearPollerItem ==
  ASSUME NEW e, Good(e), NEW c, c \notin StatusCmds
  PROVE  Keeps(e, clear_poller_item(e, c))
<1> DEFINE r == [i \in DOMAIN e.requests |->
                   IF e.requests[i] = c THEN "NOOP" ELSE e.requests[i]]
<1>1. r \in Seq(PollCmds \cup {"NOOP"}) /\ DOMAIN r = DOMAIN e.requests
  BY Fields, SMTT(30)
<1>2. r # << >> => \E i \in DOMAIN r : r[i] \in StatusCmds
  <2> SUFFICES ASSUME r # << >>
               PROVE  \E i \in DOMAIN r : r[i] \in StatusCmds
    OBVIOUS
  <2>1. e.requests # << >>
    BY <1>1, Fields
  <2>2. PICK i \in DOMAIN e.requests : e.requests[i] \in StatusCmds
    BY <2>1 DEF Good, PollListOK
  <2>3. r[i] \in StatusCmds
    BY <2>2
  <2>4. QED BY <1>1, <2>2, <2>3
<1> HIDE DEF r
<1>3. Keeps(e, [e EXCEPT !.requests = r])
  BY <1>1, <1>2, ZenonT(60) DEF Good, Keeps, PollListOK, Engine
<1>4. QED BY <1>3 DEF clear_poller_item, r

----------------------------------------------------------------------------
(* An MSP message arrives.                                                 *)
LEMMA Received ==
  ASSUME NEW e, Good(e), NEW c \in Cmds, NEW err \in BOOLEAN
  PROVE  Keeps(e, received(e, c, err))
<1> DEFINE l == IF err THEN e.lastmsg ELSE NoMsg
<1>1. l \in Message \cup {NoMsg}
  BY Fields
<1> HIDE DEF l
<1>2. Keeps(e, [e EXCEPT !.currx = c, !.okage = 0, !.rxage = 0, !.lastmsg = l])
  BY <1>1, SmallNumbers, ZenonT(60) DEF Good, Keeps, PollListOK, Engine
<1>3. QED BY <1>2 DEF received, l

(* Its handler is done.                                                    *)
LEMMA MessageHandled ==
  ASSUME NEW e, Good(e), NEW soon \in BOOLEAN
  PROVE  Keeps(e, message_handled(e, soon))
<1>1. Keeps(e, run_queue(e)) /\ Keeps(e, timed_poll(e, soon)) /\ Keeps(e, e)
  BY RunQueue, TimedPoll DEF Keeps
<1>2. Keeps(e, [e EXCEPT !.mleave = 2])
  BY SmallNumbers DEF Good, Keeps, PollListOK, Engine
<1>3. Keeps(e, run_queue([e EXCEPT !.mleave = 2]))
  BY <1>2, RunQueue DEF Keeps
<1> DEFINE p == timed_poll(e, soon)
<1>4. Keeps(e, [p EXCEPT !.mleave = 1])
  <2>1. Keeps(e, p) /\ Good(p)
    BY <1>1 DEF Keeps
  <2> HIDE DEF p
  <2>2. Keeps(p, [p EXCEPT !.mleave = 1])
    <3> DEFINE p1 == [p EXCEPT !.mleave = 1]
    <3>1. p \in Engine /\ PollListOK(p) /\ 1 \in Leaves
      BY <2>1, SmallNumbers DEF Good
    <3>2. p1 \in Engine
      BY <3>1, SMTT(30) DEF Engine
    <3>3. /\ p1.requests = p.requests /\ p1.avail = p.avail
          /\ p1.serstate = p.serstate
      BY <3>1, SMTT(30) DEF Engine
    <3> HIDE DEF p1
    <3>4. Keeps(p, p1)
      BY <3>1, <3>2, <3>3 DEF Keeps, Good, PollListOK
    <3>5. QED BY <3>4 DEF p1
  <2>3. QED BY <2>1, <2>2 DEF Keeps
<1>5. CASE e.serstate = "POLLER" /\ e.mleave = 1 /\ e.mq # << >>
  BY <1>3, <1>5 DEF message_handled
<1>6. CASE e.serstate = "POLLER" /\ e.mleave = 2
  BY <1>4, <1>6 DEF message_handled
<1>7. CASE e.serstate = "POLLER" /\ e.mleave # 2
           /\ ~(e.mleave = 1 /\ e.mq # << >>)
  BY <1>1, <1>7 DEF message_handled
<1>8. CASE e.serstate # "POLLER"
  BY <1>1, <1>8 DEF message_handled
<1>9. QED BY <1>5, <1>6, <1>7, <1>8

(* The timeout branch of the supervision timer.                            *)
LEMMA TimeoutBranch ==
  ASSUME NEW e, Good(e)
  PROVE  Keeps(e, poll_timeout(e))
<1> DEFINE e1 == IF e.lastmsg.cmd = "ADSB_VEHICLE_LIST"
                 THEN clear_poller_item(e, "ADSB_VEHICLE_LIST") ELSE e
<1>1. Keeps(e, e1)
  <2>1. "ADSB_VEHICLE_LIST" \notin StatusCmds
    BY DEF StatusCmds
  <2>2. QED BY <2>1, ClearPollerItem DEF Keeps
<1>2. Keeps(e, resend_last([e1 EXCEPT !.okage = 0, !.tcycle = 0]))
  <2> HIDE DEF e1
  <2>1. Keeps(e, [e1 EXCEPT !.okage = 0, !.tcycle = 0])
    <3> DEFINE e2 == [e1 EXCEPT !.okage = 0, !.tcycle = 0]
    <3>1. e1 \in Engine /\ PollListOK(e1) /\ 0 \in Ages
      BY <1>1, SmallNumbers DEF Keeps, Good
    <3>2. e2 \in Engine
      BY <3>1, ZenonT(30) DEF Engine
    <3>3. /\ e2.requests = e1.requests /\ e2.avail = e1.avail
          /\ e2.serstate = e1.serstate
      BY <3>1, SMTT(30) DEF Engine
    <3> HIDE DEF e2
    <3>4. Keeps(e1, e2)
      BY <3>1, <3>2, <3>3 DEF Keeps, Good, PollListOK
    <3>5. Keeps(e, e2)
      BY <1>1, <3>4 DEF Keeps
    <3>6. QED BY <3>5 DEF e2
  <2>2. QED BY <2>1, ResendLast DEF Keeps
<1>3. Keeps(e, next_poll([e EXCEPT !.lastpoll = "NOOP"]))
  <2>1. Keeps(e, [e EXCEPT !.lastpoll = "NOOP"])
    BY DEF Good, Keeps, PollListOK, Engine
  <2>2. QED BY <2>1, NextPoll DEF Keeps
<1>4. CASE e.lastmsg # NoMsg
  BY <1>2, <1>4 DEF poll_timeout
<1>5. CASE e.lastmsg = NoMsg /\ e.serstate = "POLLER"
  BY <1>3, <1>5 DEF poll_timeout
<1>6. CASE e.lastmsg = NoMsg /\ e.serstate # "POLLER"
  BY <1>6 DEF poll_timeout, Keeps
<1>7. QED BY <1>4, <1>5, <1>6
=============================================================================
