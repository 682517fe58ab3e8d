------------------------ MODULE MissionTransferProofs ------------------------
(***************************************************************************)
(* For every choice of the constants: as long as the user waits for the    *)
(* end of what was begun, no answer comes late and the FC refuses nothing, *)
(* the transfers of MissionTransfer keep their types and tell the truth:   *)
(* of an upload, a download and the approaches.                            *)
(*                                                                         *)
(* Under these premises the link is stop and wait: only the last message   *)
(* is ever unanswered, and of the messages that are not polls there is at  *)
(* most one, waiting or unanswered.  What that one message is, the current *)
(* one, tells how far the transfer has come (Stage).                       *)
(***************************************************************************)
EXTENDS MissionTransfer, MspEngineProofs

(* The premises.  Only INAV counts its waypoints for mwp, and a version    *)
(* with multi-missions or approaches is taken to be INAV's.                *)
Gentle ==
  /\ ~Overlap /\ ~env.late /\ fc.rejects = {}
  /\ fc.v4 \/ fc.lands # {} => fc.inav

(* The current message, if there is one, of engine e.                      *)
Current(e) == {m \in Message : /\ ~Polling(m)
                               /\ m = e.lastmsg \/ \E i \in DOMAIN e.mq : e.mq[i] = m}

OnlyOne(e) ==
  \A i \in DOMAIN e.mq : ~Polling(e.mq[i]) =>
    /\ e.lastmsg = NoMsg \/ Polling(e.lastmsg)
    /\ \A j \in DOMAIN e.mq : ~Polling(e.mq[j]) => i = j

PollsListed(e) ==
  \A i \in DOMAIN e.requests : e.requests[i] # "NOOP" =>
    \E j \in DOMAIN PollList : PollList[j] = e.requests[i]

(* Engine e is up, polls what is in the list only, and stops and waits.    *)
StopAndWait(e) ==
  /\ Good(e) /\ e.avail /\ PollsListed(e) /\ OnlyOne(e)
  /\ e.wire # << >> => e.lastmsg # NoMsg /\ e.wire = <<e.lastmsg>>
  /\ e.pend \in 0 .. 1 /\ (e.pend = 1 => e.lastmsg = NoMsg)

(* So it does, C are its current messages; and nothing is unanswered.      *)
At(e, C) == StopAndWait(e) /\ Current(e) = C
Open(e)  == e.lastmsg = NoMsg /\ e.wire = << >> /\ e.pend = 0

(* e1 comes of e while nothing is sent.                                    *)
Still(e, e1) == e1.lastmsg = e.lastmsg /\ e1.wire = e.wire /\ e1.pend = e.pend

----------------------------------------------------------------------------
(* A whole mission: numbered from 1, and the last waypoint flagged.        *)
Whole(ws) == Len(ws) <= WpLast /\ ws = missonx_to_wps(wps_to_missonx(ws))

(* What is known between transfers of the FC and of what mwp knows of it.  *)
Approaches == {MaxHomes + l : l \in fc.lands}
Rest(t, f) ==
  /\ Whole(f.ram)
  /\ fc.inav => t.last_wp_pts = Len(f.ram)
  /\ t.told = "uploaded" => f.fwa = Approaches

Pending(t) == t.told \in {"asked", "failed"}

(* What is known of the transfer while m is the current message.           *)
Following(m, t, f) ==
  /\ m = Msg("SET_WP", FollowMePoint)
  /\ t.wp_flag = {"FOLLOW_ME"} /\ t.npts = 1 /\ t.wpidx = 0 /\ t.wps = <<FollowMePoint>>
  /\ t.told # "uploaded" /\ Rest(t, f)

Uploading(m, t, f) ==
  /\ m.cmd = "SET_WP" /\ Pending(t)
  /\ t.wps = t.sent /\ t.npts = Len(t.sent) /\ t.wpidx < t.npts
  /\ m.arg = t.sent[t.wpidx + 1]
  /\ t.wpidx > 0 => /\ Len(f.ram) \in {t.wpidx, t.wpidx + 1}
                    /\ \A i \in DOMAIN f.ram : f.ram[i] = t.sent[i]
  /\ t.wp_flag \cap {"DOWNLOAD", "FOLLOW_ME"} = {}
  /\ "SAVE_EEPROM" \in t.wp_flag \/ {"GETINFO", "SAVE_FWA"} \subseteq t.wp_flag

Saving(m, t, f) ==
  /\ m.cmd = "WP_MISSION_SAVE" /\ Pending(t) /\ f.ram = t.sent
  /\ t.wp_flag = {"GETINFO", "RESET_POLLER", "SET_ACTIVE", "SAVE_ACTIVE"}

Counting(m, t, f) ==
  /\ m.cmd = "WP_GETINFO" /\ Whole(f.ram)
  /\ \/ t.wp_flag = {"DOWNLOAD"} /\ Pending(t)
     \/ /\ "DOWNLOAD" \notin t.wp_flag /\ t.told \in {"uploaded", "saved", "failed"}
        /\ t.told = "uploaded" => "SAVE_FWA" \in t.wp_flag

Approaching(m, t, f) ==
  /\ m.cmd = "SET_FW_APPROACH" /\ m.arg = t.safeindex /\ t.last_safehome = t.safeindex + 1
  /\ t.safeindex \in Approaches
  /\ \A a \in Approaches : a < t.safeindex => a \in f.fwa
  /\ "DOWNLOAD" \notin t.wp_flag
  /\ Whole(f.ram) /\ (fc.inav => t.last_wp_pts = Len(f.ram))

Starting(m, t, f) ==
  /\ m.cmd = "COMMON_SETTING_INFO" /\ Pending(t) /\ Rest(t, f)
  /\ t.wp_flag = {"KICK_DL"} /\ t.wps = << >>
  /\ t.npts = Len(f.ram) /\ t.npts > 0

Fetching(m, t, f) ==
  /\ m.cmd = "WP" /\ m.arg \in 1 .. WpLast /\ Pending(t) /\ Rest(t, f)
  /\ t.wps = [i \in 1 .. (m.arg - 1) |-> FcWaypoint(f, i)]
  /\ fc.v4 => t.npts = Len(f.ram)
  /\ m.arg <= Len(f.ram) \/ (~fc.v4 /\ f.ram = << >>)

Reading(m, t, f) ==
  /\ m.cmd = "FW_APPROACH" /\ m.arg = t.last_safehome - 1 /\ m.arg >= MaxHomes
  /\ Rest(t, f)

Restoring(m, t, f) ==
  m.cmd = "WP_MISSION_LOAD" /\ Pending(t) /\ Whole(f.ram)

Ending(m, t, f) ==
  /\ \/ m.cmd \in {"COMMON_SET_SETTING", "EEPROM_WRITE", "REBOOT"}
     \/ m.cmd = "WP" /\ m.arg > WpLast
  /\ Rest(t, f)

Doing(m, t, f) ==
  \/ Following(m, t, f) \/ Uploading(m, t, f) \/ Saving(m, t, f)
  \/ Counting(m, t, f) \/ Approaching(m, t, f) \/ Starting(m, t, f)
  \/ Fetching(m, t, f) \/ Reading(m, t, f) \/ Restoring(m, t, f) \/ Ending(m, t, f)

(* What mwp has told the user is true.                                     *)
ToldTruth(t, f) ==
  /\ t.told \in {"uploaded", "saved"} => f.ram = t.sent
  /\ t.told = "saved" => f.rom = t.sent
  /\ t.told = "downloaded" /\ ~t.dirty => t.mission = wps_to_missonx(f.ram)
  /\ t.told = "fallback" => f.ram \in {<< >>, Fallback}

Sound(t, f) ==
  /\ t \in Transfer /\ f \in FcState
  /\ t.upltid => t.timers # << >>
  /\ Whole(t.sent) /\ Whole(f.rom) /\ f.fwa \subseteq Approaches
  /\ Len(t.mission) <= WpLast
  /\ ToldTruth(t, f)

(* C: the current messages, none or one.                                   *)
Stage(C, t, f) ==
  /\ Sound(t, f)
  /\ C = {} => Rest(t, f)
  /\ \A m \in C : Doing(m, t, f)

IInv ==
  /\ fc \in FCKind /\ env \in Env
  /\ Gentle => StopAndWait(eng) /\ Stage(Current(eng), tr, fcm)

----------------------------------------------------------------------------
(* Waypoints and missions.                                                 *)

(* Division undoes multiplication by any number greater than the rest.     *)
LEMMA DivMod ==
  ASSUME NEW q \in Nat, NEW w \in Nat, NEW k \in Nat, k < w
  PROVE  (q * w + k) % w = k /\ (q * w + k) \div w = q
<1> DEFINE x == q * w + k
           d == x \div w
           r == x % w
<1>1. x \in Nat /\ w > 0
  <2>1. q * w \in Nat
    BY SMT
  <2> QED BY <2>1
<1>2. d \in Int /\ r \in 0 .. (w - 1) /\ x = w * d + r
  <2> HIDE DEF x
  <2> QED BY <1>1, SMTT(30)
<1>3. d = q
  <2>1. ASSUME d < q PROVE FALSE
    <3>1. PICK a \in Int : q = d + 1 + a /\ a >= 0
      <4>1. q - d - 1 \in Int /\ q - d - 1 >= 0
        BY <1>2, <2>1
      <4> QED BY <1>2, <4>1
    <3>2. w * d + w <= w * q
      BY <1>2, <3>1, SMTT(30)
    <3> QED BY <3>2, <1>2, <1>1, SMTT(30)
  <2>2. ASSUME d > q PROVE FALSE
    <3>1. PICK a \in Int : d = q + 1 + a /\ a >= 0
      <4>1. d - q - 1 \in Int /\ d - q - 1 >= 0
        BY <1>2, <2>2
      <4> QED BY <1>2, <4>1
    <3>2. w * q + w <= w * d
      BY <1>2, <3>1, SMTT(30)
    <3> QED BY <3>2, <1>2, <1>1, SMTT(30)
  <2> QED BY <1>2, <2>1, <2>2
<1>4. r = k
  <2>1. w * d = q * w
    BY <1>3, SMTT(30)
  <2> HIDE DEF d, r
  <2> QED BY <1>2, <2>1
<1> QED BY <1>3, <1>4

(* A waypoint on the wire gives back its number, its item and its flag.    *)
LEMMA Waypoint ==
  ASSUME NEW n \in 0 .. (WpLast + 2), NEW x \in Nat, NEW flag \in {0, 1}
  PROVE  /\ MSP_WP(n, x, flag) \in Nat /\ Number(MSP_WP(n, x, flag)) = n
         /\ Last(MSP_WP(n, x, flag)) <=> flag = 1
         /\ ItemOf(MSP_WP(n, x, flag)) = x
<1> DEFINE q == 2 * x + flag
           W == Width
           w == q * W + n
<1>1. WpLast \in Nat /\ W \in Nat /\ n \in Nat /\ n < W /\ W > 0 /\ q \in Nat
  BY TransferAssumption DEF TransferAssumption, Width
<1> HIDE DEF W
<1>2. w % W = n /\ w \div W = q
  <2> HIDE DEF q
  <2> QED BY <1>1, DivMod
<1>3. w \in Nat
  <2>1. q * W \in Nat
    <3> HIDE DEF q
    <3> QED BY <1>1, SMT
  <2> HIDE DEF q
  <2> QED BY <2>1, <1>1
<1>4. q % 2 = 1 <=> flag = 1
  OBVIOUS
<1>5. w \div (2 * W) = x
  <2> DEFINE k == flag * W + n
  <2>1. k \in Nat /\ k < 2 * W /\ 2 * W \in Nat
    BY <1>1
  <2>2. w = x * (2 * W) + k
    BY <1>1, SMTT(30)
  <2> HIDE DEF k, w
  <2> QED BY <2>1, <2>2, DivMod
<1> QED
  BY <1>2, <1>3, <1>4, <1>5 DEF MSP_WP, Number, Last, ItemOf, W

(* A quotient of naturals is one.                                          *)
LEMMA Quotient ==
  ASSUME NEW x \in Nat, NEW y \in Nat \ {0}
  PROVE  x \div y \in Nat
<1> DEFINE d == x \div y
           r == x % y
<1>1. d \in Int /\ r \in 0 .. (y - 1) /\ x = y * d + r
  BY SMTT(30)
<1>2. ASSUME d < 0 PROVE FALSE
  <2>1. PICK a \in Nat : d = -1 - a
    <3>1. -1 - d \in Nat
      BY <1>1, <1>2
    <3> QED BY <3>1, <1>1
  <2>2. y * d <= -y
    <3> HIDE DEF d
    <3>1. y * a \in Nat
      BY SMTT(30)
    <3>2. y * d = -y - y * a
      BY <2>1, SMTT(30)
    <3> QED BY <3>1, <3>2
  <2> HIDE DEF d, r
  <2> QED BY <1>1, <2>2
<1> HIDE DEF r
<1>3. d \in Nat
  <2> HIDE DEF d
  <2> QED BY <1>1, <1>2
<1> QED BY <1>3

(* Items from waypoints.                                                   *)
LEMMA Items ==
  ASSUME NEW ws \in Seq(Nat)
  PROVE  /\ wps_to_missonx(ws) \in Seq(Nat) /\ Len(wps_to_missonx(ws)) = Len(ws)
         /\ \A i \in 1 .. Len(ws) : wps_to_missonx(ws)[i] = ItemOf(ws[i])
<1>1. \A i \in 1 .. Len(ws) : ItemOf(ws[i]) \in Nat
  <2> TAKE i \in 1 .. Len(ws)
  <2>1. ws[i] \in Nat
    OBVIOUS
  <2>2. Width \in Nat \ {0}
    BY TransferAssumption DEF TransferAssumption, Width
  <2> DEFINE y == 2 * Width
  <2>3. y \in Nat \ {0}
    BY <2>2
  <2> HIDE DEF y
  <2>4. ws[i] \div y \in Nat
    BY <2>1, <2>3, Quotient
  <2> QED BY <2>4 DEF ItemOf, y
<1>2. DOMAIN ws = 1 .. Len(ws) /\ Len(ws) \in Nat
  OBVIOUS
<1> QED BY <1>1, <1>2 DEF wps_to_missonx

(* Waypoints from items, which they give back.                             *)
LEMMA Waypoints ==
  ASSUME NEW ms \in Seq(Nat), Len(ms) <= WpLast
  PROVE  LET ws == missonx_to_wps(ms)
         IN  /\ ws \in Seq(Nat) /\ Len(ws) = Len(ms) /\ wps_to_missonx(ws) = ms /\ Whole(ws)
             /\ \A i \in 1 .. Len(ws) : Number(ws[i]) = i /\ (Last(ws[i]) <=> i = Len(ws))
<1> DEFINE ws == missonx_to_wps(ms)
           fl(i) == IF i = Len(ms) THEN 1 ELSE 0
<1>0. WpLast \in Nat
  BY TransferAssumption DEF TransferAssumption
<1>1. DOMAIN ms = 1 .. Len(ms) /\ Len(ms) \in Nat /\ WpLast \in Nat
      /\ \A i \in 1 .. Len(ms) : ms[i] \in Nat
  BY <1>0
<1>2. \A i \in 1 .. Len(ms) : ws[i] = MSP_WP(i, ms[i], fl(i))
  BY <1>1 DEF missonx_to_wps
<1>3. \A i \in 1 .. Len(ms) : i \in 0 .. (WpLast + 2) /\ fl(i) \in {0, 1} /\ (fl(i) = 1 <=> i = Len(ms))
  <2> TAKE i \in 1 .. Len(ms)
  <2>1. i \in 0 .. (WpLast + 2)
    BY <1>1
  <2>2. fl(i) \in {0, 1} /\ (fl(i) = 1 <=> i = Len(ms))
    OBVIOUS
  <2> QED BY <2>1, <2>2
<1>4. \A i \in 1 .. Len(ms) :
        /\ ws[i] \in Nat /\ Number(ws[i]) = i /\ ItemOf(ws[i]) = ms[i]
        /\ Last(ws[i]) <=> i = Len(ms)
  <2> TAKE i \in 1 .. Len(ms)
  <2>1. ms[i] \in Nat /\ i \in 0 .. (WpLast + 2) /\ fl(i) \in {0, 1} /\ (fl(i) = 1 <=> i = Len(ms))
    BY <1>1, <1>3, ZenonT(60)
  <2> HIDE DEF fl, ws
  <2>2. ws[i] = MSP_WP(i, ms[i], fl(i))
    BY <1>2
  <2>3. /\ MSP_WP(i, ms[i], fl(i)) \in Nat /\ Number(MSP_WP(i, ms[i], fl(i))) = i
        /\ Last(MSP_WP(i, ms[i], fl(i))) <=> fl(i) = 1
        /\ ItemOf(MSP_WP(i, ms[i], fl(i))) = ms[i]
    BY <2>1, Waypoint
  <2> QED BY <2>1, <2>2, <2>3
<1>5. ws \in Seq(Nat) /\ Len(ws) = Len(ms)
  <2>1. ws = [i \in 1 .. Len(ms) |-> MSP_WP(i, ms[i], fl(i))]
    BY <1>1 DEF missonx_to_wps
  <2>2. \A i \in 1 .. Len(ms) : MSP_WP(i, ms[i], fl(i)) \in Nat
    BY <1>2, <1>4
  <2> HIDE DEF ws, fl
  <2> QED BY <2>1, <2>2, <1>1
<1> HIDE DEF ws, fl
<1>6. wps_to_missonx(ws) = ms
  <2> DEFINE xs == wps_to_missonx(ws)
  <2>1. xs \in Seq(Nat) /\ Len(xs) = Len(ms) /\ \A i \in 1 .. Len(ms) : xs[i] = ms[i]
    BY <1>4, <1>5, Items
  <2> HIDE DEF xs
  <2>2. xs = ms
    BY <2>1, <1>1
  <2> QED BY <2>2 DEF xs
<1>7. Whole(ws)
  BY <1>5, <1>6 DEF Whole, ws
<1> QED BY <1>4, <1>5, <1>6, <1>7 DEF ws

(* The waypoints of a whole mission.                                       *)
LEMMA WholeFacts ==
  ASSUME NEW ws \in Seq(Nat), Whole(ws)
  PROVE  /\ Len(ws) \in 0 .. WpLast
         /\ \A i \in 1 .. Len(ws) : /\ ws[i] \in Nat /\ Number(ws[i]) = i
                                    /\ Last(ws[i]) <=> i = Len(ws)
<1> DEFINE ms == wps_to_missonx(ws)
<1>1. ms \in Seq(Nat) /\ Len(ms) = Len(ws) /\ Len(ms) <= WpLast /\ ws = missonx_to_wps(ms)
  BY Items DEF Whole
<1>2. Len(ws) \in Nat /\ WpLast \in Nat
  BY TransferAssumption DEF TransferAssumption
<1> HIDE DEF ms
<1>3. \A i \in 1 .. Len(ws) : Number(ws[i]) = i /\ (Last(ws[i]) <=> i = Len(ws))
  BY <1>1, Waypoints
<1> QED BY <1>1, <1>2, <1>3

(* The missions of mwp and of the FC, and the fallback.                    *)
LEMMA Missions ==
  /\ \A v \in 0 .. 5 : Mission(v) \in Seq(Nat) /\ Len(Mission(v)) = Length(v)
                       /\ Length(v) \in 0 .. WpLast
  /\ Fallback \in Seq(Nat) /\ Len(Fallback) = 1 /\ Whole(Fallback)
  /\ wps_to_missonx(Fallback) = Mission(5)
<1>1. WpLast \in Nat /\ WpLast >= 1 /\ LenMine \in 0 .. WpLast /\ LenRam \in 0 .. WpLast
      /\ LenRom \in 0 .. WpLast /\ Width \in Nat
  BY TransferAssumption DEF TransferAssumption, Width
<1>2. ASSUME NEW v \in 0 .. 5
      PROVE  Mission(v) \in Seq(Nat) /\ Len(Mission(v)) = Length(v) /\ Length(v) \in 0 .. WpLast
  <2>1. Length(v) \in 0 .. WpLast
    BY <1>1 DEF Length
  <2>2. Length(v) \in Nat /\ Length(v) <= WpLast
    BY <2>1, <1>1
  <2>3. \A n \in 1 .. Length(v) : Item(v, n) \in Nat
    <3> TAKE n \in 1 .. Length(v)
    <3>1. v * Width \in Nat
      BY <1>1, SMT
    <3> QED BY <3>1, <2>2 DEF Item
  <2> HIDE DEF Length
  <2> QED BY <2>1, <2>2, <2>3 DEF Mission
<1>3. Mission(5) \in Seq(Nat) /\ Len(Mission(5)) = 1
  BY <1>2 DEF Length
<1>4. Len(Mission(5)) <= WpLast
  BY <1>1, <1>3
<1>5. /\ Fallback \in Seq(Nat) /\ Len(Fallback) = 1 /\ Whole(Fallback)
      /\ wps_to_missonx(Fallback) = Mission(5)
  BY <1>3, <1>4, Waypoints DEF Fallback
<1> QED BY <1>2, <1>5

----------------------------------------------------------------------------
(* The engine stops and waits.                                             *)

(* No message is empty; polls are messages without an argument.            *)
LEMMA Polls ==
  /\ NoMsg \notin Message
  /\ \A m \in Message : Polling(m) => m.arg = 0 /\ m.cmd \in PollCmds
  /\ \A c : (\E j \in DOMAIN PollList : PollList[j] = c) =>
       Polling(Msg(c, 0)) /\ Msg(c, 0) \in Message
  /\ StatusPoll \in StatusCmds /\ Polling(Msg(StatusPoll, 0)) /\ Msg(StatusPoll, 0) \in Message
<1>1. NoMsg \notin Message
  BY DEF NoMsg, Msg, Message, Cmds, PollCmds, StatusCmds, StartupCmds, BulkCmds
<1>2. \A i \in DOMAIN PollList : PollList[i] \in PollCmds
  BY TransferAssumption DEF TransferAssumption
<1>3. \A m \in Message : Polling(m) => m.arg = 0 /\ m.cmd \in PollCmds
  BY <1>2 DEF Polling
<1>4. ASSUME NEW c, \E j \in DOMAIN PollList : PollList[j] = c
      PROVE  Polling(Msg(c, 0)) /\ Msg(c, 0) \in Message
  <2>1. c \in Cmds
    BY <1>2, <1>4, PollsAreCmds
  <2> QED BY <2>1, <1>4, MsgIsMessage DEF Polling, Msg
<1>5. StatusPoll \in StatusCmds /\ \E j \in DOMAIN PollList : PollList[j] = StatusPoll
  BY TransferAssumption DEF TransferAssumption, StatusPoll
<1> QED BY <1>1, <1>3, <1>4, <1>5

(* The current messages depend on mq and lastmsg only.                     *)
LEMMA Unmoved ==
  ASSUME NEW C, NEW e, At(e, C), NEW e1, Good(e1), e1.avail, e1.mq = e.mq, Still(e, e1),
         PollsListed(e1)
  PROVE  At(e1, C)
  BY DEF At, StopAndWait, Current, OnlyOne, Still

(* The fields that matter here.                                            *)
LEMMA AtFields ==
  ASSUME NEW C, NEW e, At(e, C)
  PROVE  /\ Good(e) /\ e.avail /\ e \in Engine
         /\ e.mq \in Seq(Message) /\ e.lastmsg \in Message \cup {NoMsg}
         /\ e.requests \in Seq(PollCmds \cup {"NOOP"})
         /\ DOMAIN e.mq = 1 .. Len(e.mq) /\ Len(e.mq) \in Nat
         /\ \A i \in DOMAIN e.mq : e.mq[i] \in Message
  BY DEF At, StopAndWait, Good, Engine

(* Queueing a poll.                                                        *)
LEMMA QueuePoll ==
  ASSUME NEW C, NEW e, At(e, C), NEW m \in Message, Polling(m)
  PROVE  At(queue_cmd(e, m), C) /\ Still(e, queue_cmd(e, m))
<1> DEFINE q  == Append(e.mq, m)
           e1 == [e EXCEPT !.mq = q]
<1>1. queue_cmd(e, m) = e1
  BY AtFields DEF queue_cmd
<1>2. /\ DOMAIN q = 1 .. Len(e.mq) + 1 /\ q[Len(e.mq) + 1] = m
      /\ \A i \in DOMAIN e.mq : q[i] = e.mq[i] /\ i \in DOMAIN q
      /\ \A i \in DOMAIN q : i \in DOMAIN e.mq \/ i = Len(e.mq) + 1
  BY AtFields
<1>3. Good(e1) /\ e1.avail
  <2>1. Good(e) /\ e.avail
    BY AtFields
  <2>2. Keeps(e, queue_cmd(e, m))
    BY <2>1, QueueCmd
  <2> QED BY <1>1, <2>1, <2>2 DEF Keeps
<1> HIDE DEF q
<1>4. /\ e1.mq = q /\ Still(e, e1) /\ e1.requests = e.requests
  BY AtFields DEF Engine, Still
<1> HIDE DEF e1
<1>5. Current(e1) = C
  BY <1>2, <1>4 DEF At, Current, Still
<1>6. OnlyOne(e1)
  BY <1>2, <1>4 DEF At, StopAndWait, OnlyOne, Still
<1>7. At(e1, C)
  BY <1>3, <1>4, <1>5, <1>6 DEF At, StopAndWait, Still, PollsListed
<1> QED BY <1>1, <1>4, <1>7

(* Queueing another message, when there is none.                           *)
LEMMA QueueOther ==
  ASSUME NEW e, At(e, {}), NEW m \in Message, ~Polling(m)
  PROVE  At(queue_cmd(e, m), {m}) /\ Still(e, queue_cmd(e, m))
<1> DEFINE q  == Append(e.mq, m)
           e1 == [e EXCEPT !.mq = q]
<1>1. queue_cmd(e, m) = e1
  BY AtFields DEF queue_cmd
<1>2. /\ DOMAIN q = 1 .. Len(e.mq) + 1 /\ q[Len(e.mq) + 1] = m
      /\ \A i \in DOMAIN e.mq : q[i] = e.mq[i] /\ i \in DOMAIN q
      /\ \A i \in DOMAIN q : i \in DOMAIN e.mq \/ i = Len(e.mq) + 1
  BY AtFields
<1>3. Good(e1) /\ e1.avail
  <2>1. Good(e) /\ e.avail
    BY AtFields
  <2>2. Keeps(e, queue_cmd(e, m))
    BY <2>1, QueueCmd
  <2> QED BY <1>1, <2>1, <2>2 DEF Keeps
<1>a. /\ \A i \in DOMAIN e.mq : Polling(e.mq[i])
      /\ e.lastmsg = NoMsg \/ Polling(e.lastmsg)
  BY AtFields DEF At, Current
<1> HIDE DEF q
<1>4. /\ e1.mq = q /\ Still(e, e1) /\ e1.requests = e.requests
  BY AtFields DEF Engine, Still
<1> HIDE DEF e1
<1>5. Current(e1) = {m}
  <2>1. m \in Current(e1)
    BY <1>2, <1>4, AtFields DEF Current
  <2>2. ASSUME NEW x \in Current(e1) PROVE x = m
    BY <2>2, <1>2, <1>4, <1>a, Polls DEF Current, Still
  <2> QED BY <2>1, <2>2
<1>6. OnlyOne(e1)
  BY <1>2, <1>4, <1>a DEF OnlyOne, Still
<1>7. At(e1, {m})
  BY <1>3, <1>4, <1>5, <1>6 DEF At, StopAndWait, Still, PollsListed
<1> QED BY <1>1, <1>4, <1>7

(* pause_poller throws polls away only.                                    *)
LEMMA Pause ==
  ASSUME NEW e, At(e, {}), NEW s \in SERSTATE
  PROVE  At(pause_poller(e, s), {}) /\ Still(e, pause_poller(e, s))
<1>1. CASE e.nopause
  <2> DEFINE e1 == [e EXCEPT !.mleave = 1]
  <2>1. Good(e1) /\ e1.avail /\ e1.mq = e.mq /\ Still(e, e1) /\ e1.requests = e.requests
    <3>g. Good(e)
      BY AtFields
    <3>1. Keeps(e, e1)
      BY <3>g, SmallNumbers DEF Good, Keeps, PollListOK, Engine
    <3>2. e1.mq = e.mq /\ Still(e, e1) /\ e1.requests = e.requests
      BY AtFields DEF Engine, Still
    <3> QED BY <3>1, <3>2, AtFields DEF Keeps
  <2>2. PollsListed(e1)
    BY <2>1 DEF At, StopAndWait, PollsListed
  <2> HIDE DEF e1
  <2>3. At(e1, {})
    BY <2>1, <2>2, Unmoved
  <2> QED BY <1>1, <2>1, <2>3, AtFields DEF pause_poller, e1
<1>2. CASE ~e.nopause
  <2> DEFINE e1 == [e EXCEPT !.serstate = s, !.mq = << >>]
  <2>1. Good(e1) /\ e1.avail /\ e1.mq = << >> /\ Still(e, e1) /\ e1.requests = e.requests
    <3>1. e1.avail = e.avail /\ e1.mq = << >> /\ Still(e, e1) /\ e1.requests = e.requests
      BY AtFields DEF Engine, Still
    <3>g. e \in Engine
      BY AtFields
    <3>2. e1 \in Engine
      <4> DEFINE n == << >>
      <4>1. n \in Seq(Message)
        OBVIOUS
      <4>2. e1 = [e EXCEPT !.serstate = s, !.mq = n]
        OBVIOUS
      <4> HIDE DEF n, e1
      <4> QED BY <3>g, <4>1, <4>2 DEF Engine
    <3>3. PollListOK(e1)
      BY <3>1, AtFields DEF Good, PollListOK
    <3> QED BY <3>1, <3>2, <3>3, AtFields DEF Good
  <2> HIDE DEF e1
  <2>2. Current(e1) = {}
    BY <2>1 DEF At, Current, Still
  <2>3. OnlyOne(e1)
    BY <2>1 DEF OnlyOne
  <2>4. At(e1, {})
    BY <2>1, <2>2, <2>3 DEF At, StopAndWait, Still, PollsListed
  <2> QED BY <1>2, <2>1, <2>4, AtFields DEF pause_poller, e1
<1> QED BY <1>1, <1>2

(* send_poll queues a poll at most.                                        *)
LEMMA PollQueued ==
  ASSUME NEW C, NEW e, At(e, C)
  PROVE  At(send_poll(e), C) /\ Still(e, send_poll(e))
<1>1. CASE e.serstate # "POLLER" \/ Len(e.requests) <= e.tcycle \/ OutOfOrder(e)
  BY <1>1 DEF send_poll, Still
<1>2. CASE ~(e.serstate # "POLLER" \/ Len(e.requests) <= e.tcycle \/ OutOfOrder(e))
  <2> DEFINE req == Candidate(e, NextDue(e))
             e1  == [e EXCEPT !.tcycle = Ahead(e, NextDue(e)),
                              !.due = e.due \ {req}, !.lastpoll = req]
  <2>1. e.requests # << >> /\ e.tcycle < Len(e.requests) /\ Good(e)
    BY <1>2, AtFields, Fields
  <2>2. /\ Ahead(e, NextDue(e)) \in 0 .. (Len(e.requests) - 1)
        /\ req \in PollCmds \cup {"NOOP"}
    BY <2>1, SkipLoop
  <2>3. req # "NOOP" => \E j \in DOMAIN PollList : PollList[j] = req
    <3>1. Ahead(e, NextDue(e)) + 1 \in DOMAIN e.requests
      BY <2>2, AtFields
    <3> QED BY <3>1 DEF At, StopAndWait, PollsListed, Candidate
  <2>4. Ahead(e, NextDue(e)) \in Nat /\ e.due \ {req} \in SUBSET RateLimited
    BY <2>1, <2>2, AtFields, Fields
  <2> HIDE DEF req
  <2>5. Good(e1) /\ e1.avail /\ e1.mq = e.mq /\ Still(e, e1) /\ e1.requests = e.requests
    <3>1. Keeps(e, e1)
      BY <2>1, <2>2, <2>4 DEF Good, Keeps, PollListOK, Engine
    <3>2. e1.mq = e.mq /\ Still(e, e1) /\ e1.requests = e.requests
      BY AtFields DEF Engine, Still
    <3> QED BY <3>1, <3>2, AtFields DEF Keeps
  <2>6. send_poll(e) = IF req = "NOOP" THEN e1 ELSE queue_cmd(e1, Msg(req, 0))
    BY <1>2 DEF send_poll, req
  <2> HIDE DEF e1
  <2>7. At(e1, C)
    <3>1. PollsListed(e1)
      BY <2>5 DEF At, StopAndWait, PollsListed
    <3> QED BY <2>5, <3>1, Unmoved
  <2>8. req # "NOOP" => At(queue_cmd(e1, Msg(req, 0)), C) /\ Still(e1, queue_cmd(e1, Msg(req, 0)))
    BY <2>3, <2>7, Polls, QueuePoll
  <2> QED BY <2>5, <2>6, <2>7, <2>8 DEF Still
<1> QED BY <1>1, <1>2

(* run_queue sends one message, and then waits.                            *)
LEMMA QueueRun ==
  ASSUME NEW C, NEW e, At(e, C), Open(e)
  PROVE  At(run_queue(e), C) /\ run_queue(e).pend = 0
<1>1. CASE e.mq = << >>
  BY <1>1 DEF run_queue, Open
<1>2. CASE e.mq # << >>
  <2> DEFINE h == Head(e.mq)
             q == Tail(e.mq)
             w == Append(e.wire, h)
             e1 == [e EXCEPT !.lastmsg = h, !.mq = q, !.wire = w]
  <2>1. run_queue(e) = e1
    <3>1. run_queue(e) = send_command([e EXCEPT !.lastmsg = Head(e.mq), !.mq = Tail(e.mq)], Head(e.mq))
      BY <1>2, AtFields DEF run_queue
    <3>2. [e EXCEPT !.lastmsg = Head(e.mq), !.mq = Tail(e.mq)].wire = e.wire
      BY AtFields DEF Engine
    <3> QED BY <3>1, <3>2, AtFields DEF send_command, Engine
  <2>2. Good(e1) /\ e1.avail
    BY <2>1, RunQueue, AtFields DEF Keeps
  <2>3. /\ 1 \in DOMAIN e.mq /\ h = e.mq[1] /\ h \in Message
        /\ DOMAIN q = 1 .. (Len(e.mq) - 1)
        /\ \A i \in DOMAIN q : q[i] = e.mq[i + 1] /\ i + 1 \in DOMAIN e.mq
        /\ \A i \in DOMAIN e.mq : i = 1 \/ (i - 1 \in DOMAIN q /\ e.mq[i] = q[i - 1])
    BY <1>2, AtFields
  <2>4. w = <<h>>
    BY <2>3 DEF Open
  <2> HIDE DEF h, q, w
  <2>5. /\ e1.mq = q /\ e1.lastmsg = h /\ e1.wire = w /\ e1.pend = e.pend
        /\ e1.requests = e.requests
    BY AtFields DEF Engine
  <2> HIDE DEF e1
  <2>6. Current(e1) = C
    <3>1. ASSUME NEW m \in Message
          PROVE  (m = h \/ \E i \in DOMAIN q : q[i] = m)
                   <=> (\E i \in DOMAIN e.mq : e.mq[i] = m)
      BY <2>3
    <3>2. NoMsg \notin Message
      BY Polls
    <3> QED BY <3>1, <3>2, <2>5 DEF At, Current, Open
  <2>7. OnlyOne(e1)
    <3> SUFFICES ASSUME NEW i \in DOMAIN q, ~Polling(q[i])
                 PROVE  /\ Polling(h)
                        /\ \A j \in DOMAIN q : ~Polling(q[j]) => i = j
      BY <2>5 DEF OnlyOne
    <3>1. i + 1 \in DOMAIN e.mq /\ ~Polling(e.mq[i + 1]) /\ i \in Nat
      BY <2>3
    <3>2. \A j \in DOMAIN e.mq : ~Polling(e.mq[j]) => i + 1 = j
      BY <3>1 DEF At, StopAndWait, OnlyOne
    <3>3. Polling(h)
      <4>1. i + 1 # 1
        BY <2>3
      <4> QED BY <4>1, <2>3, <3>2
    <3>4. ASSUME NEW j \in DOMAIN q, ~Polling(q[j]) PROVE i = j
      <4>1. j + 1 \in DOMAIN e.mq /\ ~Polling(e.mq[j + 1])
        BY <2>3, <3>4
      <4>2. i + 1 = j + 1
        BY <4>1, <3>2
      <4> QED BY <4>2, <2>3
    <3> QED BY <3>3, <3>4
  <2>8. At(e1, C)
    BY <2>2, <2>3, <2>4, <2>5, <2>6, <2>7, Polls DEF At, StopAndWait, PollsListed, Open
  <2> QED BY <2>1, <2>5, <2>8 DEF Open
<1> QED BY <1>1, <1>2

(* The next poll.                                                          *)
LEMMA PollSent ==
  ASSUME NEW C, NEW e, At(e, C), Open(e)
  PROVE  At(next_poll(e), C)
<1>g. Good(e) /\ e.avail
  BY AtFields
<1>1. CASE e.requests = << >>
  <2> DEFINE e1 == [e EXCEPT !.divzero = TRUE]
  <2>1. Keeps(e, e1)
    BY <1>g, ZenonT(60) DEF Good, Keeps, PollListOK, Engine
  <2>2. e1.mq = e.mq /\ Still(e, e1) /\ e1.requests = e.requests
    BY AtFields DEF Engine, Still
  <2> HIDE DEF e1
  <2>3. PollsListed(e1)
    BY <2>2 DEF At, StopAndWait, PollsListed
  <2>4. At(e1, C)
    BY <1>g, <2>1, <2>2, <2>3, Unmoved DEF Keeps
  <2> QED BY <1>1, <2>4 DEF next_poll, e1
<1>2. CASE e.requests # << >>
  <2> DEFINE t  == (e.tcycle + 1) % Len(e.requests)
             e1 == [e EXCEPT !.tcycle = t]
  <2>1. t \in Nat
    BY <1>2, <1>g, Fields
  <2> HIDE DEF t
  <2>2. Keeps(e, e1)
    BY <1>g, <2>1 DEF Good, Keeps, PollListOK, Engine
  <2>3. e1.mq = e.mq /\ Still(e, e1) /\ e1.requests = e.requests
    BY AtFields DEF Engine, Still
  <2> HIDE DEF e1
  <2>4. PollsListed(e1)
    BY <2>3 DEF At, StopAndWait, PollsListed
  <2>5. At(e1, C)
    BY <1>g, <2>2, <2>3, <2>4, Unmoved DEF Keeps
  <2>6. At(send_poll(e1), C) /\ Still(e1, send_poll(e1))
    BY <2>5, PollQueued
  <2>7. Open(send_poll(e1))
    BY <2>3, <2>6 DEF Open, Still
  <2>8. At(run_queue(send_poll(e1)), C)
    BY <2>6, <2>7, QueueRun
  <2> QED BY <1>2, <2>8 DEF next_poll, e1, t
<1> QED BY <1>1, <1>2

(* Now or soon.                                                            *)
LEMMA PollTimed ==
  ASSUME NEW C, NEW e, At(e, C), Open(e), NEW soon \in BOOLEAN
  PROVE  At(timed_poll(e, soon), C)
<1>g. Good(e) /\ e.avail
  BY AtFields
<1>1. CASE e.requests = << >>
  BY <1>1 DEF timed_poll
<1>2. CASE e.requests # << >> /\ ~soon
  BY <1>2, PollSent DEF timed_poll
<1>3. CASE e.requests # << >> /\ soon
  <2> DEFINE e1 == [e EXCEPT !.pend = e.pend + 1]
  <2>1. Keeps(e, e1)
    <3>1. timed_poll(e, soon) = e1
      BY <1>3 DEF timed_poll
    <3>2. Keeps(e, timed_poll(e, soon))
      BY <1>g, TimedPoll
    <3> QED BY <3>1, <3>2
  <2>2. /\ e1.mq = e.mq /\ e1.lastmsg = e.lastmsg /\ e1.wire = e.wire
        /\ e1.pend = e.pend + 1 /\ e1.requests = e.requests
    BY AtFields DEF Engine
  <2> HIDE DEF e1
  <2>3. Current(e1) = C
    BY <2>2 DEF At, Current
  <2>4. OnlyOne(e1) /\ PollsListed(e1)
    BY <2>2 DEF At, StopAndWait, OnlyOne, PollsListed
  <2>5. At(e1, C)
    BY <1>g, <2>1, <2>2, <2>3, <2>4 DEF At, StopAndWait, Open, Keeps
  <2> QED BY <1>3, <2>5 DEF timed_poll, e1
<1> QED BY <1>1, <1>2, <1>3

(* The end of handle_serial.                                               *)
LEMMA Handled ==
  ASSUME NEW C, NEW e, At(e, C), Open(e), NEW soon \in BOOLEAN
  PROVE  At(message_handled(e, soon), C)
<1>g. Good(e) /\ e.avail
  BY AtFields
<1>1. At(run_queue(e), C) /\ At(timed_poll(e, soon), C)
  BY QueueRun, PollTimed
<1>2. ASSUME NEW d, At(d, C), NEW n \in {1, 2}
      PROVE  At([d EXCEPT !.mleave = n], C) /\ Still(d, [d EXCEPT !.mleave = n])
  <2> DEFINE e1 == [d EXCEPT !.mleave = n]
  <2>1. Good(d) /\ d.avail
    BY <1>2, AtFields
  <2>2. Keeps(d, e1)
    BY <2>1, SmallNumbers, ZenonT(60) DEF Good, Keeps, PollListOK, Engine
  <2>3. e1.mq = d.mq /\ Still(d, e1) /\ e1.requests = d.requests
    BY <2>1 DEF Good, Engine, Still
  <2> HIDE DEF e1
  <2>4. PollsListed(e1)
    BY <1>2, <2>3 DEF At, StopAndWait, PollsListed
  <2>5. At(e1, C)
    BY <1>2, <2>1, <2>2, <2>3, <2>4, Unmoved DEF Keeps
  <2> QED BY <2>3, <2>5 DEF e1
<1>3. At(run_queue([e EXCEPT !.mleave = 2]), C)
  <2> DEFINE e1 == [e EXCEPT !.mleave = 2]
  <2>1. At(e1, C) /\ Still(e, e1)
    BY <1>2
  <2> HIDE DEF e1
  <2>2. Open(e1)
    BY <2>1 DEF Still, Open
  <2> QED BY <2>1, <2>2, QueueRun DEF e1
<1>4. At([timed_poll(e, soon) EXCEPT !.mleave = 1], C)
  BY <1>1, <1>2
<1>5. CASE e.serstate = "POLLER" /\ e.mleave = 1 /\ e.mq # << >>
  BY <1>3, <1>5 DEF message_handled
<1>6. CASE e.serstate = "POLLER" /\ e.mleave = 2
  BY <1>4, <1>6 DEF message_handled
<1>7. CASE e.serstate = "POLLER" /\ e.mleave # 2 /\ ~(e.mleave = 1 /\ e.mq # << >>)
  BY <1>1, <1>7 DEF message_handled
<1>8. CASE e.serstate # "POLLER"
  BY <1>1, <1>8 DEF message_handled
<1> QED BY <1>5, <1>6, <1>7, <1>8

(* reset_poller queues a poll at most.                                     *)
LEMMA Reset ==
  ASSUME NEW C, NEW e, At(e, C)
  PROVE  At(reset_poller(e, 0, FALSE), C) /\ Still(e, reset_poller(e, 0, FALSE))
<1> DEFINE e1 == [e EXCEPT !.mleave = 0, !.okage = 0, !.rxage = 0,
                           !.tcycle = 0, !.serstate = "POLLER",
                           !.lastpoll = "NOOP"]
           e2 == [e EXCEPT !.mleave = 0]
<1>g. Good(e) /\ e.avail /\ e \in Engine
  BY AtFields
<1>1. e1 \in Engine
  BY <1>g, SmallNumbers, ZenonT(60) DEF Good, Engine, SERSTATE
<1>2. /\ e1.mq = e.mq /\ Still(e, e1) /\ e1.requests = e.requests /\ e1.avail = e.avail
      /\ e2.mq = e.mq /\ Still(e, e2) /\ e2.requests = e.requests
  BY <1>g DEF Engine, Still
<1>3. Keeps(e, e2)
  BY <1>g, SmallNumbers DEF Good, Keeps, PollListOK, Engine
<1> HIDE DEF e1, e2
<1>4. Good(e1)
  BY <1>g, <1>1, <1>2 DEF Good, PollListOK
<1>5. PollsListed(e1) /\ PollsListed(e2)
  BY <1>2 DEF At, StopAndWait, PollsListed
<1>6. At(e1, C) /\ At(e2, C)
  BY <1>g, <1>2, <1>3, <1>4, <1>5, Unmoved DEF Keeps
<1>7. At(msg_poller(e1), C) /\ Still(e1, msg_poller(e1))
  BY <1>6, PollQueued DEF msg_poller, Still
<1>8. reset_poller(e, 0, FALSE) \in {msg_poller(e1), e2}
  BY DEF reset_poller, e1, e2
<1> QED BY <1>2, <1>6, <1>7, <1>8 DEF Still

(* What is on the wire of an engine that stops and waits.                  *)
LEMMA OnTheWire ==
  ASSUME NEW C, NEW e, At(e, C), e.wire # << >>
  PROVE  /\ Head(e.wire) = e.lastmsg /\ e.lastmsg \in Message /\ e.lastmsg # NoMsg
         /\ Tail(e.wire) = << >> /\ Tail(e.wire) \in Seq(Message)
<1>1. e.lastmsg # NoMsg /\ e.wire = <<e.lastmsg>>
  BY DEF At, StopAndWait
<1>2. e.lastmsg \in Message \cup {NoMsg}
  BY AtFields
<1>3. e.lastmsg \in Message
  BY <1>1, <1>2
<1> DEFINE x == e.lastmsg
<1>4. Head(<<x>>) = x /\ Tail(<<x>>) = << >>
  OBVIOUS
<1>5. << >> \in Seq(Message)
  OBVIOUS
<1> QED BY <1>1, <1>3, <1>4, <1>5

(* A message comes in: the last one, and nothing is unanswered.            *)
LEMMA Took ==
  ASSUME NEW C, NEW e, At(e, C), e.wire # << >>
  PROVE  LET m  == Head(e.wire)
             e1 == received([e EXCEPT !.wire = Tail(@)], m.cmd, FALSE)
         IN  /\ Open(e1) /\ m \in Message
             /\ \/ Polling(m) /\ At(e1, C)
                \/ C = {m} /\ ~Polling(m) /\ At(e1, {})
<1> DEFINE m  == Head(e.wire)
           q  == Tail(e.wire)
           d  == [e EXCEPT !.wire = q]
           e1 == received(d, m.cmd, FALSE)
<1>1. Good(e) /\ e.avail /\ e \in Engine
  BY AtFields
<1>2. m = e.lastmsg /\ m \in Message /\ q = << >> /\ e.lastmsg # NoMsg
  BY OnTheWire
<1>3. q \in Seq(Message) /\ m.cmd \in Cmds
  BY <1>2, OnTheWire DEF Message
<1> HIDE DEF q, m
<1>4. Keeps(e, d)
  BY <1>1, <1>3 DEF Good, Keeps, PollListOK, Engine
<1>5. Keeps(d, e1)
  BY <1>3, <1>4, Received DEF Keeps
<1>6. /\ e1.mq = e.mq /\ e1.lastmsg = NoMsg /\ e1.wire = q /\ e1.pend = e.pend
      /\ e1.requests = e.requests
  BY <1>1 DEF received, Engine
<1> HIDE DEF e1, d
<1>7. Good(e1) /\ e1.avail
  BY <1>1, <1>4, <1>5 DEF Keeps
<1>8. Open(e1)
  BY <1>2, <1>6 DEF At, StopAndWait, Open
<1>9. OnlyOne(e1) /\ PollsListed(e1)
  BY <1>6 DEF At, StopAndWait, OnlyOne, PollsListed
<1>10. StopAndWait(e1)
  BY <1>2, <1>6, <1>7, <1>8, <1>9 DEF StopAndWait, Open
<1>11. CASE Polling(m)
  <2>1. Current(e1) = C
    BY <1>2, <1>6, <1>11, Polls DEF At, Current
  <2> QED BY <1>2, <1>8, <1>10, <1>11, <2>1 DEF At, e1, d, q, m
<1>12. CASE ~Polling(m)
  <2>1. \A i \in DOMAIN e.mq : Polling(e.mq[i])
    BY <1>2, <1>12 DEF At, StopAndWait, OnlyOne
  <2>2. Current(e1) = {}
    BY <1>6, <2>1, Polls DEF Current
  <2>3. C = {m}
    BY <1>2, <1>12, <2>1 DEF At, Current
  <2> QED BY <1>2, <1>8, <1>10, <1>12, <2>2, <2>3 DEF At, e1, d, q, m
<1> QED BY <1>11, <1>12

(* A message or its answer is lost.                                        *)
LEMMA Lost ==
  ASSUME NEW C, NEW e, At(e, C), e.wire # << >>
  PROVE  /\ At([e EXCEPT !.wire = Tail(@)], C)
         /\ Head(e.wire) = e.lastmsg /\ e.lastmsg \in Message
         /\ Polling(e.lastmsg) \/ C = {e.lastmsg}
<1> DEFINE q  == Tail(e.wire)
           e1 == [e EXCEPT !.wire = q]
<1>1. Good(e) /\ e.avail /\ e \in Engine
  BY AtFields
<1>2. Head(e.wire) = e.lastmsg /\ e.lastmsg \in Message /\ q = << >>
  BY OnTheWire
<1>3. q \in Seq(Message)
  BY OnTheWire
<1> HIDE DEF q
<1>4. Keeps(e, e1)
  BY <1>1, <1>3 DEF Good, Keeps, PollListOK, Engine
<1>5. /\ e1.mq = e.mq /\ e1.lastmsg = e.lastmsg /\ e1.wire = q /\ e1.pend = e.pend
      /\ e1.requests = e.requests
  BY <1>1 DEF Engine
<1> HIDE DEF e1
<1>6. OnlyOne(e1) /\ PollsListed(e1) /\ Current(e1) = C
  BY <1>5 DEF At, StopAndWait, OnlyOne, PollsListed, Current
<1>7. At(e1, C)
  BY <1>1, <1>2, <1>4, <1>5, <1>6 DEF At, StopAndWait, Keeps
<1>8. Polling(e.lastmsg) \/ C = {e.lastmsg}
  <2> SUFFICES ASSUME ~Polling(e.lastmsg) PROVE C = {e.lastmsg}
    OBVIOUS
  <2>1. \A i \in DOMAIN e.mq : Polling(e.mq[i])
    BY <1>2, Polls DEF At, StopAndWait, OnlyOne
  <2> QED BY <1>2, <2>1 DEF At, Current
<1> QED BY <1>2, <1>7, <1>8 DEF e1, q

(* The supervision timer sends what is unanswered again.                   *)
LEMMA TimedOutBranch ==
  ASSUME NEW C, NEW e, At(e, C), e.wire = << >>, e.pend = 0
  PROVE  At(poll_timeout(e), C)
<1>g. Good(e) /\ e.avail /\ e \in Engine
  BY AtFields
<1>1. CASE e.lastmsg = NoMsg /\ e.serstate # "POLLER"
  BY <1>1 DEF poll_timeout
<1>2. CASE e.lastmsg = NoMsg /\ e.serstate = "POLLER"
  <2> DEFINE e1 == [e EXCEPT !.lastpoll = "NOOP"]
  <2>1. Keeps(e, e1)
    BY <1>g DEF Good, Keeps, PollListOK, Engine
  <2>2. e1.mq = e.mq /\ Still(e, e1) /\ e1.requests = e.requests
    BY <1>g DEF Engine, Still
  <2> HIDE DEF e1
  <2>3. PollsListed(e1)
    BY <2>2 DEF At, StopAndWait, PollsListed
  <2>4. At(e1, C)
    BY <1>g, <2>1, <2>2, <2>3, Unmoved DEF Keeps
  <2>5. Open(e1)
    BY <1>2, <2>2 DEF Open, Still
  <2>6. At(next_poll(e1), C)
    BY <2>4, <2>5, PollSent
  <2> QED BY <1>2, <2>6 DEF poll_timeout, e1
<1>3. CASE e.lastmsg # NoMsg
  <2> DEFINE d  == IF e.lastmsg.cmd = "ADSB_VEHICLE_LIST"
                   THEN clear_poller_item(e, "ADSB_VEHICLE_LIST") ELSE e
             w  == Append(e.wire, e.lastmsg)
             e1 == [d EXCEPT !.okage = 0, !.tcycle = 0]
             e2 == [e1 EXCEPT !.wire = w]
  <2>1. Keeps(e, poll_timeout(e))
    BY <1>g, TimeoutBranch
  <2>2. /\ d.mq = e.mq /\ Still(e, d) /\ d.avail /\ d \in Engine
        /\ DOMAIN d.requests = DOMAIN e.requests
        /\ \A i \in DOMAIN e.requests : d.requests[i] \in {"NOOP", e.requests[i]}
    <3>1. "ADSB_VEHICLE_LIST" \notin StatusCmds
      BY DEF StatusCmds
    <3>2. Keeps(e, d)
      BY <1>g, <3>1, ClearPollerItem DEF Keeps
    <3>3. d.mq = e.mq /\ Still(e, d)
      BY <1>g DEF clear_poller_item, Engine, Still
    <3>4. /\ DOMAIN d.requests = DOMAIN e.requests
          /\ \A i \in DOMAIN e.requests : d.requests[i] \in {"NOOP", e.requests[i]}
      BY <1>g DEF clear_poller_item, Engine
    <3> QED BY <1>g, <3>2, <3>3, <3>4 DEF Keeps, Good
  <2> HIDE DEF d
  <2>3. e1.mq = d.mq /\ Still(d, e1) /\ e1.requests = d.requests /\ e1.avail = d.avail
        /\ e1 \in Engine
    BY <2>2, SmallNumbers, ZenonT(60) DEF Engine, Still
  <2>4. poll_timeout(e) = e2
    <3>1. poll_timeout(e) = resend_last(e1)
      BY <1>3 DEF poll_timeout, d
    <3>2. e1.lastmsg = e.lastmsg /\ e1.wire = e.wire /\ e1.avail
      BY <2>2, <2>3 DEF Still
    <3> HIDE DEF e1
    <3> QED BY <1>3, <3>1, <3>2 DEF resend_last, send_command
  <2> HIDE DEF e1
  <2>5. w = <<e.lastmsg>>
    BY AtFields
  <2> HIDE DEF w
  <2>6. /\ e2.mq = e.mq /\ e2.lastmsg = e.lastmsg /\ e2.wire = w /\ e2.pend = e.pend
        /\ e2.requests = d.requests /\ e2.avail
    BY <2>2, <2>3, ZenonT(60) DEF Still, Engine
  <2> HIDE DEF e2
  <2>7. OnlyOne(e2) /\ Current(e2) = C
    BY <2>6 DEF At, StopAndWait, OnlyOne, Current
  <2>8. PollsListed(e2)
    BY <2>2, <2>6 DEF At, StopAndWait, PollsListed
  <2>9. Good(e2)
    BY <2>1, <2>4 DEF Keeps
  <2>10. e2.pend \in 0 .. 1 /\ (e2.pend = 1 => e2.lastmsg = NoMsg)
    BY <2>6
  <2> QED BY <1>3, <2>4, <2>5, <2>6, <2>7, <2>8, <2>9, <2>10 DEF At, StopAndWait
<1> QED BY <1>1, <1>2, <1>3

----------------------------------------------------------------------------
(* Pairs.                                                                  *)
TransferPairs == [e : Engine, t : Transfer]

(* The engine of p stops and waits, and its current message is what the    *)
(* transfer is doing.  In a handler (inside) nothing is unanswered.        *)
Ok(p, f, inside) ==
  /\ p \in TransferPairs /\ StopAndWait(p.e) /\ Stage(Current(p.e), p.t, f)
  /\ inside => Open(p.e)

(* There is no current message.                                            *)
Free(p, f, inside) ==
  /\ p \in TransferPairs /\ At(p.e, {}) /\ Sound(p.t, f)
  /\ inside => Open(p.e)

(* The fields of a transfer.                                               *)
LEMMA TransferFields ==
  ASSUME NEW t, NEW f, Sound(t, f)
  PROVE  /\ t \in Transfer /\ f \in FcState
         /\ t.mission \in Seq(Nat) /\ t.wps \in Seq(Nat) /\ t.sent \in Seq(Nat)
         /\ t.timers \in Seq(Nat) /\ t.upltid \in BOOLEAN /\ t.told \in Told
         /\ t.npts \in Nat /\ t.wpidx \in Nat /\ t.last_wp_pts \in Nat
         /\ t.safeindex \in Nat /\ t.last_safehome \in Nat
         /\ t.wp_flag \in SUBSET WPDL
         /\ f.ram \in Seq(Nat) /\ f.rom \in Seq(Nat) /\ f.fwa \subseteq Nat
  BY DEF Sound, Transfer, FcState

(* Commands that are no polls.                                             *)
LEMMA NoPolls ==
  ASSUME NEW c \in Cmds, NEW a \in Nat, c \notin PollCmds \/ a > 0
  PROVE  ~Polling(Msg(c, a)) /\ Msg(c, a) \in Message
         /\ Msg(c, a).cmd = c /\ Msg(c, a).arg = a
  BY Polls, MsgIsMessage DEF Msg

(* Doing nothing.                                                          *)
LEMMA RestOk ==
  ASSUME NEW p, NEW f, NEW o, Free(p, f, o), Rest(p.t, f)
  PROVE  Ok(p, f, o)
  BY DEF Free, Ok, At, Stage

(* Asking the FC for the next thing.                                       *)
LEMMA AskOk ==
  ASSUME NEW p, NEW f, NEW o, Free(p, f, o), NEW c \in Cmds, NEW a \in Nat,
         c \notin PollCmds \/ a > 0, Doing(Msg(c, a), p.t, f)
  PROVE  Ok(Ask(p, c, a), f, o)
<1> DEFINE m == Msg(c, a)
           q == Ask(p, c, a)
<1>1. m \in Message /\ ~Polling(m)
  BY NoPolls
<1>2. At(queue_cmd(p.e, m), {m}) /\ Still(p.e, queue_cmd(p.e, m))
  BY <1>1, QueueOther DEF Free
<1>3. queue_cmd(p.e, m) \in Engine
  BY <1>2, AtFields
<1>4. q = [p EXCEPT !.e = queue_cmd(p.e, m)]
  BY DEF Ask
<1> HIDE DEF m, q
<1>5. q \in TransferPairs /\ q.e = queue_cmd(p.e, m) /\ q.t = p.t
  BY <1>3, <1>4 DEF Free, TransferPairs
<1>6. Stage({m}, p.t, f)
  BY DEF Stage, Free, m
<1>7. Ok(q, f, o)
  BY <1>2, <1>5, <1>6 DEF Ok, Free, At, Open, Still
<1> QED BY <1>7 DEF q

(* Another transfer for the same engine.                                   *)
LEMMA NewTransfer ==
  ASSUME NEW p, NEW f, NEW o, Free(p, f, o), NEW t, Sound(t, f)
  PROVE  /\ Free([p EXCEPT !.t = t], f, o)
         /\ [p EXCEPT !.t = t].t = t /\ [p EXCEPT !.t = t].e = p.e
<1>1. t \in Transfer
  BY DEF Sound
<1> QED BY <1>1 DEF Free, TransferPairs

(* Another engine for the same transfer.                                   *)
LEMMA NewCalm ==
  ASSUME NEW p, NEW f, NEW o, Free(p, f, o), NEW e, At(e, {}), Still(p.e, e)
  PROVE  /\ Free([p EXCEPT !.e = e], f, o)
         /\ [p EXCEPT !.e = e].t = p.t /\ [p EXCEPT !.e = e].e = e
<1>1. e \in Engine
  BY AtFields
<1> QED BY <1>1 DEF Free, TransferPairs, Open, Still

(* What the user was told, and of what, stays true.                        *)
LEMMA SameStory ==
  ASSUME NEW t, NEW f, Sound(t, f), NEW t1 \in Transfer,
         t1.upltid => t1.timers # << >>,
         t1.sent = t.sent, t1.mission = t.mission, t1.dirty = t.dirty,
         t1.told = t.told \/ t1.told \in {"nothing", "asked", "failed", "toobig", "empty"}
  PROVE  Sound(t1, f)
  BY DEF Sound, ToldTruth

(* The FC's items are those of the state.                                  *)
LEMMA KindFields ==
  ASSUME fc \in FCKind
  PROVE  /\ fc.inav \in BOOLEAN /\ fc.v4 \in BOOLEAN
         /\ fc.lands \subseteq Nat /\ MaxHomes \in Nat /\ MaxApproach \in Nat
         /\ WpLast \in Nat \ {0} /\ WpMax \in Nat
  BY TransferAssumption DEF TransferAssumption, FCKind

----------------------------------------------------------------------------
(* The waypoint timer.                                                     *)

(* What becomes of it: it does not run; it is the only one, and mwp still  *)
(* has its handle; and the user is still waiting.                          *)
Off(t)   == t.timers = << >>
Lone(t)  == Off(t) \/ (Len(t.timers) = 1 /\ t.upltid)
Waits(t) == Off(t) \/ (Lone(t) /\ t.told = "asked")
Reads(t) == Off(t) \/ (Lone(t) /\ t.told \in {"asked", "downloaded"})

(* With m a download is still to be started; after m none is removed.      *)
Starts(m, t) ==
  \/ m.cmd \in {"COMMON_SETTING_INFO", "WP_MISSION_LOAD"}
  \/ m.cmd = "WP_GETINFO" /\ "DOWNLOAD" \in t.wp_flag

(* With the current messages C, a timer of transfer t runs only while the  *)
(* user waits for an answer or the approaches of a download are read, and  *)
(* none runs before a download or while a mission is saved.                *)
Timed(C, t) ==
  /\ Waits(t) \/ (Reads(t) /\ \E m \in C : m.cmd = "FW_APPROACH")
  /\ \A m \in C : /\ Starts(m, t) => Off(t) /\ t.told = "asked"
                  /\ m.cmd = "WP_MISSION_SAVE" => Off(t)

(* So it is with p, or p's download has ended in the fallback.             *)
Fits(p) == p.t.told = "fallback" \/ Timed(Current(p.e), p.t)

SameClock(t, t1) == t1.timers = t.timers /\ t1.upltid = t.upltid /\ t1.told = t.told

(* Without a current message.                                              *)
LEMMA FitsFree ==
  ASSUME NEW p, NEW f, NEW o, Free(p, f, o), Waits(p.t)
  PROVE  Fits(p)
<1>1. Current(p.e) = {}
  BY DEF Free, At
<1> QED BY <1>1 DEF Fits, Timed

(* The only current message is the one that is asked for.                  *)
LEMMA Asked ==
  ASSUME NEW p, NEW f, NEW o, Free(p, f, o), NEW c \in Cmds, NEW a \in Nat,
         c \notin PollCmds \/ a > 0
  PROVE  /\ At(Ask(p, c, a).e, {Msg(c, a)}) /\ Ask(p, c, a).t = p.t
         /\ Ask(p, c, a) \in TransferPairs
<1> DEFINE m == Msg(c, a)
           q == Ask(p, c, a)
<1>1. m \in Message /\ ~Polling(m)
  BY NoPolls
<1>2. At(queue_cmd(p.e, m), {m})
  BY <1>1, QueueOther DEF Free
<1>3. queue_cmd(p.e, m) \in Engine
  BY <1>2, AtFields
<1>4. q = [p EXCEPT !.e = queue_cmd(p.e, m)]
  BY DEF Ask
<1> HIDE DEF m, q
<1>5. q \in TransferPairs /\ q.e = queue_cmd(p.e, m) /\ q.t = p.t
  BY <1>3, <1>4 DEF Free, TransferPairs
<1> QED BY <1>2, <1>5 DEF q, m

(* What may be asked: while the user waits, and before a download or while *)
(* a mission is saved.                                                     *)
MayAsk(c, t) ==
  \/ Off(t) /\ (t.told = "asked" \/ c = "WP_MISSION_SAVE")
  \/ /\ Waits(t) \/ (Reads(t) /\ c = "FW_APPROACH")
     /\ c \notin {"COMMON_SETTING_INFO", "WP_MISSION_LOAD", "WP_MISSION_SAVE"}
     /\ c = "WP_GETINFO" => "DOWNLOAD" \notin t.wp_flag

LEMMA FitsAsk ==
  ASSUME NEW p, NEW f, NEW o, Free(p, f, o), NEW c \in Cmds, NEW a \in Nat,
         c \notin PollCmds \/ a > 0,
         MayAsk(c, p.t)
  PROVE  Fits(Ask(p, c, a))
<1> DEFINE m == Msg(c, a)
           q == Ask(p, c, a)
<1>1. Current(q.e) = {m} /\ q.t = p.t
  BY Asked DEF At
<1>2. m.cmd = c
  BY DEF Msg
<1> HIDE DEF m, q
<1>3. Timed({m}, p.t)
  BY <1>2 DEF Timed, Starts, Waits, MayAsk
<1>4. Fits(q)
  BY <1>1, <1>3 DEF Fits
<1> QED BY <1>4 DEF q

(* Less flags, and other things that are not about the timer.              *)
LEMMA TimedStill ==
  ASSUME NEW C, NEW t, NEW t1, Timed(C, t), SameClock(t, t1),
         "DOWNLOAD" \in t1.wp_flag => "DOWNLOAD" \in t.wp_flag
  PROVE  Timed(C, t1)
  BY DEF Timed, SameClock, Starts, Waits, Reads, Lone, Off

(* The poller is reset.                                                    *)
LEMMA FitsReset ==
  ASSUME NEW p \in TransferPairs, NEW C, At(p.e, C), Fits(p)
  PROVE  Fits(wp_reset_poller(p))
<1> DEFINE none == << >>
           noflag == {}
           t1 == [p.t EXCEPT !.npts = 0, !.wp_flag = noflag, !.wps = none]
           e1 == reset_poller(p.e, 0, FALSE)
           q  == wp_reset_poller(p)
<1>1. At(e1, C)
  BY Reset
<1>2. q = [e |-> e1, t |-> t1]
  BY DEF wp_reset_poller
<1> HIDE DEF e1, q
<1>3. SameClock(p.t, t1) /\ t1.wp_flag = {}
  <2>1. p.t \in Transfer
    BY DEF TransferPairs
  <2> HIDE DEF none
  <2> QED BY <2>1 DEF SameClock, Transfer
<1> HIDE DEF t1
<1>4. q.e = e1 /\ q.t = t1
  BY <1>2
<1>5. ASSUME p.t.told = "fallback" PROVE Fits(q)
  BY <1>3, <1>4, <1>5 DEF Fits, SameClock
<1>6. ASSUME Timed(Current(p.e), p.t) PROVE Fits(q)
  <2>1. Timed(C, t1)
    BY <1>3, <1>6, TimedStill DEF At
  <2> QED BY <1>1, <1>4, <2>1 DEF Fits, At
<1>7. Fits(q)
  BY <1>5, <1>6 DEF Fits
<1> QED BY <1>7 DEF q

----------------------------------------------------------------------------
(* Downloading.                                                            *)

(* Telling.                                                                *)
LEMMA Telling ==
  ASSUME NEW p, NEW f, NEW o, Free(p, f, o),
         NEW w \in {"nothing", "asked", "failed", "toobig", "empty"}
  PROVE  /\ Free(Tell(p, w), f, o) /\ Tell(p, w).e = p.e
         /\ Tell(p, w).t = [p.t EXCEPT !.told = w]
<1> DEFINE t1 == [p.t EXCEPT !.told = w]
<1>1. p \in TransferPairs /\ p.t \in Transfer
  BY DEF Free, Sound
<1>2. Tell(p, w) = [p EXCEPT !.t = t1]
  BY <1>1 DEF Tell, TransferPairs
<1>3. t1 \in Transfer /\ t1.told = w /\ t1.upltid = p.t.upltid /\ t1.timers = p.t.timers
      /\ t1.sent = p.t.sent /\ t1.mission = p.t.mission /\ t1.dirty = p.t.dirty
  BY <1>1 DEF Transfer, Told
<1> HIDE DEF t1
<1>4. Sound(t1, f)
  BY <1>3, SameStory DEF Free, Sound
<1> QED BY <1>2, <1>4, NewTransfer DEF t1

(* What wpmgr is reset to.                                                 *)
LEMMA ResetBooks ==
  ASSUME NEW t, NEW f, Sound(t, f), Rest(t, f)
  PROVE  LET t1 == [t EXCEPT !.npts = 0, !.wp_flag = {}, !.wps = << >>]
         IN  Sound(t1, f) /\ Rest(t1, f)
<1> DEFINE t1 == [t EXCEPT !.npts = 0, !.wp_flag = {}, !.wps = << >>]
<1>1. t \in Transfer
  BY DEF Sound
<1>2. /\ t1.upltid = t.upltid /\ t1.timers = t.timers /\ t1.told = t.told
      /\ t1.sent = t.sent /\ t1.mission = t.mission /\ t1.dirty = t.dirty
      /\ t1.last_wp_pts = t.last_wp_pts
  BY <1>1 DEF Transfer
<1>3. t1 \in Transfer
  <2>1. << >> \in Seq(Nat) /\ {} \in SUBSET WPDL
    OBVIOUS
  <2> DEFINE n == << >>
  <2>2. t1 = [t EXCEPT !.npts = 0, !.wp_flag = {}, !.wps = n] /\ n \in Seq(Nat)
    BY <2>1
  <2> HIDE DEF n, t1
  <2> QED BY <1>1, <2>1, <2>2 DEF Transfer
<1> HIDE DEF t1
<1>4. Sound(t1, f) /\ Rest(t1, f)
  BY <1>2, <1>3, SameStory DEF Sound, Rest
<1> QED BY <1>4 DEF t1

(* wp_reset_poller queues a poll at most and resets wpmgr.                 *)
LEMMA ResetPair ==
  ASSUME NEW p \in TransferPairs, NEW f, NEW C, At(p.e, C), Sound(p.t, f), Rest(p.t, f)
  PROVE  LET q == wp_reset_poller(p)
         IN  /\ q \in TransferPairs /\ At(q.e, C) /\ Still(p.e, q.e)
             /\ Sound(q.t, f) /\ Rest(q.t, f)
<1> DEFINE t1 == [p.t EXCEPT !.npts = 0, !.wp_flag = {}, !.wps = << >>]
           e1 == reset_poller(p.e, 0, FALSE)
           q  == wp_reset_poller(p)
<1>1. Sound(t1, f) /\ Rest(t1, f)
  BY ResetBooks
<1>2. At(e1, C) /\ Still(p.e, e1)
  BY Reset
<1>3. e1 \in Engine /\ t1 \in Transfer
  BY <1>1, <1>2, AtFields DEF Sound
<1>4. q = [e |-> e1, t |-> t1]
  BY DEF wp_reset_poller
<1> HIDE DEF e1, t1, q
<1>5. q.e = e1 /\ q.t = t1 /\ q \in TransferPairs
  BY <1>3, <1>4 DEF TransferPairs
<1> QED BY <1>1, <1>2, <1>5 DEF q

(* The end of a transfer.                                                  *)
LEMMA ResetOk ==
  ASSUME NEW p, NEW f, NEW o, Free(p, f, o), Rest(p.t, f)
  PROVE  Ok(wp_reset_poller(p), f, o)
<1> DEFINE q == wp_reset_poller(p)
<1>1. q \in TransferPairs /\ At(q.e, {}) /\ Still(p.e, q.e) /\ Sound(q.t, f) /\ Rest(q.t, f)
  BY ResetPair DEF Free
<1> HIDE DEF q
<1>2. Free(q, f, o)
  BY <1>1 DEF Free, Open, Still
<1> QED BY <1>1, <1>2, RestOk DEF q

(* A last question, and the transfer ends before it is answered.           *)
LEMMA ResetAsked ==
  ASSUME NEW p, NEW f, NEW o, Free(p, f, o), NEW c \in Cmds, NEW a \in Nat,
         c \notin PollCmds \/ a > 0, Ending(Msg(c, a), p.t, f)
  PROVE  Ok(wp_reset_poller(Ask(p, c, a)), f, o)
<1> DEFINE m == Msg(c, a)
           r == Ask(p, c, a)
           q == wp_reset_poller(r)
<1>1. m \in Message /\ ~Polling(m)
  BY NoPolls
<1>2. At(queue_cmd(p.e, m), {m}) /\ Still(p.e, queue_cmd(p.e, m))
  BY <1>1, QueueOther DEF Free
<1>3. queue_cmd(p.e, m) \in Engine
  BY <1>2, AtFields
<1>4. r = [p EXCEPT !.e = queue_cmd(p.e, m)]
  BY DEF Ask
<1>5. Rest(p.t, f)
  BY DEF Ending
<1>e. \A t1 : Rest(t1, f) => Doing(m, t1, f)
  <2> TAKE t1
  <2> HAVE Rest(t1, f)
  <2>1. Ending(m, t1, f)
    BY DEF Ending
  <2> QED BY <2>1 DEF Doing
<1> HIDE DEF m, r
<1>6. r \in TransferPairs /\ r.e = queue_cmd(p.e, m) /\ r.t = p.t
  BY <1>3, <1>4 DEF Free, TransferPairs
<1>7. q \in TransferPairs /\ At(q.e, {m}) /\ Still(r.e, q.e) /\ Sound(q.t, f) /\ Rest(q.t, f)
  BY <1>2, <1>5, <1>6, ResetPair DEF Free
<1> HIDE DEF q
<1>8. Stage({m}, q.t, f)
  BY <1>7, <1>e DEF Stage
<1>9. o => Open(q.e)
  BY <1>2, <1>6, <1>7 DEF Free, Open, Still
<1> QED BY <1>7, <1>8, <1>9 DEF Ok, At, q, r, m

(* remove_tid.                                                             *)
LEMMA TidRemoved ==
  ASSUME NEW p, NEW f, NEW o, Free(p, f, o)
  PROVE  LET q == remove_tid(p)
         IN  /\ Free(q, f, o) /\ q.e = p.e
             /\ q.t.wps = p.t.wps /\ q.t.wp_flag = p.t.wp_flag /\ q.t.npts = p.t.npts
             /\ q.t.wpidx = p.t.wpidx /\ q.t.last_wp_pts = p.t.last_wp_pts
             /\ q.t.told = p.t.told /\ q.t.sent = p.t.sent /\ q.t.mission = p.t.mission
             /\ Lone(p.t) => Off(q.t)
<1> DEFINE s  == IF p.t.upltid THEN SubSeq(p.t.timers, 1, Len(p.t.timers) - 1) ELSE p.t.timers
           t1 == [p.t EXCEPT !.timers = s, !.upltid = FALSE]
<1>1. p.t \in Transfer /\ p \in TransferPairs /\ p.t.timers \in Seq(Nat)
  BY TransferFields DEF Free
<1>2. remove_tid(p) = [p EXCEPT !.t = t1]
  BY <1>1 DEF remove_tid, TransferPairs
<1>3. s \in Seq(Nat)
  <2>1. SubSeq(p.t.timers, 1, Len(p.t.timers) - 1) \in Seq(Nat)
    <3>1. \A i \in 1 .. Len(p.t.timers) - 1 : p.t.timers[i] \in Nat
      BY <1>1
    <3> QED BY <1>1, <3>1
  <2> QED BY <1>1, <2>1
<1>l. Lone(p.t) => s = << >>
  <2> SUFFICES ASSUME Lone(p.t), ~Off(p.t) PROVE s = << >>
    <3>1. Off(p.t) => s = << >>
      <4>1. ASSUME Off(p.t) PROVE ~p.t.upltid
        BY <4>1 DEF Free, Sound, Off
      <4> QED BY <4>1 DEF Off
    <3> QED BY <3>1
  <2>1. p.t.upltid /\ Len(p.t.timers) = 1
    BY DEF Lone
  <2> QED BY <1>1, <2>1
<1> HIDE DEF s
<1>4. t1 \in Transfer
  BY <1>1, <1>3 DEF Transfer
<1>5. /\ t1.upltid = FALSE /\ t1.told = p.t.told /\ t1.wps = p.t.wps /\ t1.npts = p.t.npts
      /\ t1.sent = p.t.sent /\ t1.mission = p.t.mission /\ t1.dirty = p.t.dirty
      /\ t1.last_wp_pts = p.t.last_wp_pts /\ t1.wpidx = p.t.wpidx /\ t1.wp_flag = p.t.wp_flag
      /\ t1.timers = s
  BY <1>1 DEF Transfer
<1> HIDE DEF t1
<1>6. Sound(t1, f)
  BY <1>4, <1>5, SameStory DEF Free
<1>7. Lone(p.t) => Off(t1)
  BY <1>l, <1>5 DEF Off
<1> QED BY <1>2, <1>5, <1>6, <1>7, NewTransfer

(* reset_wp_dl.                                                            *)
LEMMA ResetDlOk ==
  ASSUME NEW p, NEW f, NEW o, Free(p, f, o), Rest(p.t, f)
  PROVE  Ok(reset_wp_dl(p), f, o) /\ (Lone(p.t) => Fits(reset_wp_dl(p)))
<1>1. Free(remove_tid(p), f, o) /\ Rest(remove_tid(p).t, f)
  BY TidRemoved DEF Rest
<1>2. ASSUME Lone(p.t) PROVE Fits(wp_reset_poller(remove_tid(p)))
  <2> DEFINE q == remove_tid(p)
  <2>1. Off(q.t)
    BY <1>2, TidRemoved
  <2> HIDE DEF q
  <2>2. Free(q, f, o)
    BY <1>1 DEF q
  <2>3. Fits(q)
    BY <2>1, <2>2, FitsFree DEF Waits
  <2>4. Fits(wp_reset_poller(q))
    BY <2>2, <2>3, FitsReset DEF Free
  <2> QED BY <2>4 DEF q
<1> QED BY <1>1, <1>2, ResetOk DEF reset_wp_dl

(* The first mission with a LAND.                                          *)
LEMMA FirstLand ==
  ASSUME fc \in FCKind, NEW j \in Nat, LandsFrom(j) # {}
  PROVE  /\ mission_has_land(j) \in fc.lands /\ mission_has_land(j) >= j
         /\ mission_has_land(j) \in Nat
         /\ \A l \in fc.lands : l >= j => mission_has_land(j) <= l
<1>1. LandsFrom(j) \in SUBSET Nat
  BY KindFields DEF LandsFrom
<1>2. \E l \in LandsFrom(j) : \A k \in LandsFrom(j) : l <= k
  BY <1>1, LeastNatural
<1>3. mission_has_land(j) \in LandsFrom(j) /\ \A k \in LandsFrom(j) : mission_has_land(j) <= k
  BY <1>2 DEF mission_has_land
<1> QED BY <1>1, <1>3 DEF LandsFrom

(* A download begins.                                                      *)
LEMMA StartDownloadOk ==
  ASSUME fc \in FCKind, NEW p, NEW f, NEW o, Free(p, f, o), Rest(p.t, f), Pending(p.t),
         p.t.wps = << >>, fc.v4 => p.t.npts = Len(f.ram) /\ p.t.npts > 0
  PROVE  /\ Ok(start_download(p), f, o)
         /\ Off(p.t) /\ p.t.told = "asked" => Fits(start_download(p))
<1> DEFINE rwp == IF p.t.last_wp_pts > 0 THEN p.t.last_wp_pts ELSE WpMax
           e1  == pause_poller(p.e, "GET_WP")
           n   == (rwp + 1) * PollTimeout
           s   == Append(p.t.timers, n)
           fl  == p.t.wp_flag \cup {"ACTIVE"}
           t1  == [p.t EXCEPT !.timers = s, !.upltid = TRUE, !.wp_flag = fl]
           q   == [p EXCEPT !.e = e1, !.t = t1]
<1>1. p.t \in Transfer /\ p \in TransferPairs /\ p.t.timers \in Seq(Nat)
      /\ p.t.wp_flag \in SUBSET WPDL /\ p.t.last_wp_pts \in Nat /\ WpMax \in Nat
  BY TransferFields, KindFields DEF Free
<1>2. n \in Nat
  <2>1. rwp + 1 \in Nat /\ PollTimeout \in Nat
    BY <1>1, TimesAssumption DEF TimesAssumption
  <2> HIDE DEF rwp
  <2> QED BY <2>1, SMT
<1>3. start_download(p) = Ask(q, "WP", 1)
  <2> DEFINE r1 == [p EXCEPT !.e = e1]
             u  == [p.t EXCEPT !.timers = s, !.upltid = TRUE]
             r2 == [p EXCEPT !.e = e1, !.t = u]
  <2>1. r1.t = p.t
    BY <1>1 DEF TransferPairs
  <2>2. start_wp_timer(r1, rwp) = r2
    <3> HIDE DEF e1, rwp
    <3> QED BY <1>1, <2>1 DEF start_wp_timer, TransferPairs, Transfer
  <2>3. [r2 EXCEPT !.t.wp_flag = r2.t.wp_flag \cup {"ACTIVE"}] = q
    <3> HIDE DEF e1, s
    <3>1. r2.t = u /\ u.wp_flag = p.t.wp_flag /\ [u EXCEPT !.wp_flag = fl] = t1
      BY <1>1 DEF TransferPairs, Transfer
    <3>2. [r2 EXCEPT !.t.wp_flag = r2.t.wp_flag \cup {"ACTIVE"}] = [r2 EXCEPT !.t = [u EXCEPT !.wp_flag = fl]]
      BY <3>1, <1>1 DEF TransferPairs
    <3> HIDE DEF t1, u
    <3> QED BY <3>1, <3>2, <1>1 DEF TransferPairs
  <2> HIDE DEF q, r2, e1, rwp
  <2>4. start_download(p) = LET p1 == start_wp_timer(r1, rwp)
                            IN  Ask([p1 EXCEPT !.t.wp_flag = @ \cup {"ACTIVE"}], "WP", 1)
    BY DEF start_download, rwp, e1
  <2> QED BY <2>2, <2>3, <2>4
<1> HIDE DEF n
<1>4. s \in Seq(Nat) /\ s # << >> /\ fl \in SUBSET WPDL
  BY <1>1, <1>2, SMTT(30) DEF WPDL
<1>o. Off(p.t) => Len(s) = 1
  BY <1>1, <1>2 DEF Off
<1> HIDE DEF s, fl
<1>5. t1 \in Transfer
  BY <1>1, <1>4 DEF Transfer
<1>6. /\ t1.timers = s /\ t1.told = p.t.told /\ t1.wps = p.t.wps /\ t1.npts = p.t.npts
      /\ t1.sent = p.t.sent /\ t1.mission = p.t.mission /\ t1.dirty = p.t.dirty
      /\ t1.last_wp_pts = p.t.last_wp_pts /\ t1.upltid
  BY <1>1 DEF Transfer
<1> HIDE DEF t1
<1>7. Sound(t1, f) /\ Rest(t1, f) /\ Pending(t1)
  BY <1>4, <1>5, <1>6, SameStory DEF Free, Rest, Pending
<1>8. At(e1, {}) /\ Still(p.e, e1)
  BY Pause DEF Free, SERSTATE
<1> HIDE DEF e1
<1>9. Free(q, f, o) /\ q.t = t1
  <2>1. e1 \in Engine
    BY <1>8, AtFields
  <2>2. q \in TransferPairs /\ q.e = e1 /\ q.t = t1
    BY <1>1, <1>5, <2>1 DEF TransferPairs
  <2> HIDE DEF q
  <2> QED BY <1>7, <1>8, <2>2 DEF Free, Open, Still
<1> HIDE DEF q
<1>10. Doing(Msg("WP", 1), t1, f)
  <2>1. [i \in 1 .. 0 |-> FcWaypoint(f, i)] = << >>
    OBVIOUS
  <2>2. Len(f.ram) \in Nat /\ (Len(f.ram) = 0 => f.ram = << >>)
    BY TransferFields DEF Free
  <2>3. Msg("WP", 1).cmd = "WP" /\ Msg("WP", 1).arg = 1 /\ 1 \in 1 .. WpLast
    BY KindFields DEF Msg
  <2>4. fc.v4 \in BOOLEAN
    BY KindFields
  <2>5. 1 <= Len(f.ram) \/ (~fc.v4 /\ f.ram = << >>)
    BY <2>2, <2>4
  <2>6. t1.wps = [i \in 1 .. (1 - 1) |-> FcWaypoint(f, i)]
    BY <1>6, <2>1
  <2>7. Fetching(Msg("WP", 1), t1, f)
    BY <1>6, <1>7, <2>3, <2>5, <2>6 DEF Fetching
  <2> QED BY <2>7 DEF Doing
<1>11. "WP" \in Cmds
  BY DEF Cmds, PollCmds
<1>12. ASSUME Off(p.t), p.t.told = "asked" PROVE Fits(Ask(q, "WP", 1))
  <2>1. Waits(q.t)
    BY <1>6, <1>9, <1>o, <1>12 DEF Waits, Lone
  <2> QED BY <1>9, <1>11, <2>1, FitsAsk DEF MayAsk
<1>13. Ok(Ask(q, "WP", 1), f, o)
  BY <1>9, <1>10, <1>11, AskOk
<1> QED BY <1>3, <1>12, <1>13

(* do_download_mission.                                                    *)
LEMMA DoDownloadOk ==
  ASSUME fc \in FCKind, Gentle, NEW p, NEW f, NEW o, Free(p, f, o), Rest(p.t, f), Pending(p.t)
  PROVE  /\ Ok(do_download_mission(p), f, o)
         /\ Off(p.t) /\ p.t.told = "asked" => Fits(do_download_mission(p))
<1> DEFINE none == << >>
           noflag == {}
           t1 == [p.t EXCEPT !.wp_flag = noflag, !.wps = none, !.npts = p.t.last_wp_pts]
           t2 == [p.t EXCEPT !.wp_flag = {"KICK_DL"}, !.wps = none, !.npts = p.t.last_wp_pts]
           p1 == [p EXCEPT !.t = t1]
           p2 == [p EXCEPT !.t = t2]
<1>1. p.t \in Transfer /\ p \in TransferPairs /\ p.t.last_wp_pts \in Nat
  BY TransferFields DEF Free
<1>2. none \in Seq(Nat) /\ noflag \in SUBSET WPDL /\ {"KICK_DL"} \in SUBSET WPDL
  BY DEF WPDL
<1>3. do_download_mission(p) =
        CASE p.t.last_wp_pts = 0 /\ fc.inav -> Tell(p1, "empty")
          [] ~(p.t.last_wp_pts = 0 /\ fc.inav) /\ fc.v4 -> Ask(p2, "COMMON_SETTING_INFO", 0)
          [] ~(p.t.last_wp_pts = 0 /\ fc.inav) /\ ~fc.v4 -> start_download(p1)
  <2>1. p1 = [p EXCEPT !.t.wp_flag = {}, !.t.wps = << >>, !.t.npts = p.t.last_wp_pts]
    BY <1>1 DEF TransferPairs
  <2>2. p2 = [p1 EXCEPT !.t.wp_flag = {"KICK_DL"}]
    BY <1>1 DEF TransferPairs, Transfer
  <2> HIDE DEF p1, p2
  <2> QED BY <2>1, <2>2 DEF do_download_mission
<1> HIDE DEF none, noflag
<1>4. t1 \in Transfer /\ t2 \in Transfer
  BY <1>1, <1>2 DEF Transfer
<1>5. /\ t1.timers = p.t.timers /\ t1.upltid = p.t.upltid /\ t1.told = p.t.told
      /\ t1.sent = p.t.sent /\ t1.mission = p.t.mission /\ t1.dirty = p.t.dirty
      /\ t1.last_wp_pts = p.t.last_wp_pts /\ t1.wps = none /\ t1.npts = p.t.last_wp_pts
  BY <1>1 DEF Transfer
<1>6. /\ t2.timers = p.t.timers /\ t2.upltid = p.t.upltid /\ t2.told = p.t.told
      /\ t2.sent = p.t.sent /\ t2.mission = p.t.mission /\ t2.dirty = p.t.dirty
      /\ t2.last_wp_pts = p.t.last_wp_pts /\ t2.wps = none /\ t2.npts = p.t.last_wp_pts
      /\ t2.wp_flag = {"KICK_DL"}
  BY <1>1 DEF Transfer
<1> HIDE DEF t1, t2
<1>7. Sound(t1, f) /\ Rest(t1, f) /\ Pending(t1) /\ Sound(t2, f) /\ Rest(t2, f) /\ Pending(t2)
  <2>1. p.t.upltid => p.t.timers # << >>
    BY DEF Free, Sound
  <2> QED BY <1>4, <1>5, <1>6, <2>1, SameStory DEF Free, Rest, Pending
<1>8. Free(p1, f, o) /\ p1.t = t1 /\ Free(p2, f, o) /\ p2.t = t2
  BY <1>7, NewTransfer
<1> HIDE DEF p1, p2
<1>9. fc.inav \in BOOLEAN /\ fc.v4 \in BOOLEAN /\ (fc.v4 => fc.inav)
  BY KindFields DEF Gentle
<1>10. CASE p.t.last_wp_pts = 0 /\ fc.inav
  <2>1. Free(Tell(p1, "empty"), f, o) /\ Tell(p1, "empty").t = [t1 EXCEPT !.told = "empty"]
    BY <1>8, Telling
  <2>2. [t1 EXCEPT !.told = "empty"].told = "empty" /\ [t1 EXCEPT !.told = "empty"].last_wp_pts = t1.last_wp_pts
    BY <1>4 DEF Transfer
  <2>3. Rest(Tell(p1, "empty").t, f)
    BY <1>7, <2>1, <2>2 DEF Rest
  <2>4. Off(p.t) => Off(Tell(p1, "empty").t)
    <3>1. [t1 EXCEPT !.told = "empty"].timers = t1.timers
      BY <1>4 DEF Transfer
    <3> QED BY <1>5, <2>1, <3>1 DEF Off
  <2>5. Off(p.t) => Fits(Tell(p1, "empty"))
    BY <2>1, <2>4, FitsFree DEF Waits
  <2>6. Ok(Tell(p1, "empty"), f, o)
    BY <2>1, <2>3, RestOk
  <2> QED BY <1>3, <1>10, <2>5, <2>6
<1>11. CASE ~(p.t.last_wp_pts = 0 /\ fc.inav) /\ fc.v4
  <2>1. t2.npts = Len(f.ram) /\ t2.npts > 0
    BY <1>1, <1>6, <1>7, <1>9, <1>11 DEF Rest
  <2>2. Starting(Msg("COMMON_SETTING_INFO", 0), t2, f)
    BY <1>6, <1>7, <2>1 DEF Starting, Msg, none
  <2>3. "COMMON_SETTING_INFO" \in Cmds \ PollCmds
    BY DEF Cmds, PollCmds, StatusCmds, StartupCmds
  <2>4. Ok(Ask(p2, "COMMON_SETTING_INFO", 0), f, o)
    BY <1>8, <2>2, <2>3, AskOk DEF Doing
  <2>5. Off(p.t) /\ p.t.told = "asked" => Fits(Ask(p2, "COMMON_SETTING_INFO", 0))
    <3>1. Off(p.t) => Off(p2.t)
      BY <1>6, <1>8 DEF Off
    <3> QED BY <1>6, <1>8, <2>3, <3>1, FitsAsk DEF MayAsk
  <2> QED BY <1>3, <1>11, <2>4, <2>5
<1>12. CASE ~(p.t.last_wp_pts = 0 /\ fc.inav) /\ ~fc.v4
  <2>1. Ok(start_download(p1), f, o) /\ (Off(p1.t) /\ p1.t.told = "asked" => Fits(start_download(p1)))
    BY <1>5, <1>7, <1>8, <1>12, StartDownloadOk DEF none
  <2>2. Off(p.t) /\ p.t.told = "asked" => Off(p1.t) /\ p1.t.told = "asked"
    BY <1>5, <1>8 DEF Off
  <2> QED BY <1>3, <1>12, <2>1, <2>2
<1> QED BY <1>9, <1>10, <1>11, <1>12

(* Taking a flag away.                                                     *)
LEMMA Clearing ==
  ASSUME NEW p, NEW f, NEW o, Free(p, f, o), NEW x
  PROVE  /\ Free(Clear(p, x), f, o) /\ Clear(p, x).e = p.e
         /\ Clear(p, x).t.wp_flag = p.t.wp_flag \ {x}
         /\ Clear(p, x).t.told = p.t.told /\ Clear(p, x).t.last_wp_pts = p.t.last_wp_pts
         /\ Clear(p, x).t.wps = p.t.wps /\ Clear(p, x).t.npts = p.t.npts
         /\ Clear(p, x).t.sent = p.t.sent /\ SameClock(p.t, Clear(p, x).t)
<1> DEFINE fl == p.t.wp_flag \ {x}
           t1 == [p.t EXCEPT !.wp_flag = fl]
<1>1. p.t \in Transfer /\ p \in TransferPairs /\ fl \in SUBSET WPDL
  BY TransferFields DEF Free
<1>2. Clear(p, x) = [p EXCEPT !.t = t1]
  BY <1>1 DEF Clear, TransferPairs
<1> HIDE DEF fl
<1>3. t1 \in Transfer
  BY <1>1 DEF Transfer
<1>4. /\ t1.timers = p.t.timers /\ t1.upltid = p.t.upltid /\ t1.told = p.t.told
      /\ t1.sent = p.t.sent /\ t1.mission = p.t.mission /\ t1.dirty = p.t.dirty
      /\ t1.last_wp_pts = p.t.last_wp_pts /\ t1.wps = p.t.wps /\ t1.npts = p.t.npts
      /\ t1.wp_flag = fl
  BY <1>1 DEF Transfer
<1> HIDE DEF t1
<1>5. Sound(t1, f)
  <2>1. p.t.upltid => p.t.timers # << >>
    BY DEF Free, Sound
  <2> QED BY <1>3, <1>4, <2>1, SameStory DEF Free
<1>6. Free(Clear(p, x), f, o) /\ Clear(p, x).e = p.e /\ Clear(p, x).t = t1
  BY <1>2, <1>5, NewTransfer
<1>7. SameClock(p.t, t1)
  BY <1>4 DEF SameClock
<1> QED BY <1>4, <1>6, <1>7 DEF fl

(* Another engine and another transfer.                                    *)
LEMMA NewPair ==
  ASSUME NEW p, NEW f, NEW o, Free(p, f, o), NEW e, At(e, {}), Still(p.e, e),
         NEW t, Sound(t, f)
  PROVE  /\ Free([p EXCEPT !.e = e, !.t = t], f, o)
         /\ [p EXCEPT !.e = e, !.t = t].t = t /\ [p EXCEPT !.e = e, !.t = t].e = e
<1> DEFINE q == [p EXCEPT !.e = e, !.t = t]
<1>1. e \in Engine /\ t \in Transfer /\ p \in TransferPairs
  BY AtFields DEF Free, Sound
<1>2. q \in TransferPairs /\ q.t = t /\ q.e = e
  BY <1>1 DEF TransferPairs
<1> HIDE DEF q
<1>3. Free(q, f, o)
  BY <1>2 DEF Free, Open, Still
<1> QED BY <1>2, <1>3 DEF q

(* handle_extra_up_tasks.                                                  *)
LEMMA ExtraUpOk ==
  ASSUME fc \in FCKind, Gentle, NEW p, NEW f, NEW o, Free(p, f, o), Rest(p.t, f),
         Flagged(p, "DOWNLOAD") => Pending(p.t)
  PROVE  /\ Ok(handle_extra_up_tasks(p), f, o)
         /\ Waits(p.t) /\ (Flagged(p, "DOWNLOAD") => Off(p.t) /\ p.t.told = "asked")
              => Fits(handle_extra_up_tasks(p))
<1>1. \A x : Free(Clear(p, x), f, o) /\ Rest(Clear(p, x).t, f)
             /\ (Pending(p.t) => Pending(Clear(p, x).t)) /\ SameClock(p.t, Clear(p, x).t)
  <2> TAKE x
  <2> DEFINE t1 == Clear(p, x).t
  <2>1. Free(Clear(p, x), f, o) /\ t1.told = p.t.told /\ SameClock(p.t, t1)
        /\ t1.last_wp_pts = p.t.last_wp_pts
    BY Clearing
  <2> HIDE DEF t1
  <2>2. Rest(t1, f) /\ (Pending(p.t) => Pending(t1))
    BY <2>1 DEF Rest, Pending
  <2> QED BY <2>1, <2>2 DEF t1
<1>2. CASE Flagged(p, "DOWNLOAD")
  <2> DEFINE q == Clear(p, "DOWNLOAD")
  <2>1. Free(q, f, o) /\ Rest(q.t, f) /\ Pending(q.t) /\ SameClock(p.t, q.t)
    BY <1>1, <1>2
  <2>2. handle_extra_up_tasks(p) = do_download_mission(q)
    BY <1>2 DEF handle_extra_up_tasks
  <2> HIDE DEF q
  <2>3. /\ Ok(do_download_mission(q), f, o)
        /\ Off(q.t) /\ q.t.told = "asked" => Fits(do_download_mission(q))
    BY <2>1, DoDownloadOk
  <2>4. Off(p.t) /\ p.t.told = "asked" => Off(q.t) /\ q.t.told = "asked"
    BY <2>1 DEF SameClock, Off
  <2> QED BY <1>2, <2>2, <2>3, <2>4
<1>3. CASE ~Flagged(p, "DOWNLOAD") /\ Flagged(p, "SET_ACTIVE")
  <2> DEFINE q == Clear(p, "SET_ACTIVE")
  <2>1. Free(q, f, o) /\ Rest(q.t, f) /\ SameClock(p.t, q.t)
    BY <1>1
  <2> HIDE DEF q
  <2>2. Ending(Msg("COMMON_SET_SETTING", 1), q.t, f)
    BY <2>1 DEF Ending, Msg
  <2>3. "COMMON_SET_SETTING" \in Cmds
    BY DEF Cmds, BulkCmds
  <2>4. Ok(Ask(q, "COMMON_SET_SETTING", 1), f, o)
    BY <2>1, <2>2, <2>3, AskOk DEF Doing
  <2>5. Ok(q, f, o)
    BY <2>1, RestOk
  <2>6. Waits(p.t) => Waits(q.t)
    BY <2>1 DEF SameClock, Waits, Lone, Off
  <2>7. Waits(q.t) => Fits(q) /\ Fits(Ask(q, "COMMON_SET_SETTING", 1))
    BY <2>1, <2>3, FitsFree, FitsAsk DEF MayAsk
  <2> QED BY <1>3, <2>4, <2>5, <2>6, <2>7 DEF handle_extra_up_tasks, q
<1>4. CASE ~Flagged(p, "DOWNLOAD") /\ ~Flagged(p, "SET_ACTIVE") /\ Flagged(p, "RESET_POLLER")
  <2>1. Waits(p.t) => Fits(wp_reset_poller(p))
    BY FitsFree, FitsReset DEF Free
  <2> QED BY <1>4, <2>1, ResetOk DEF handle_extra_up_tasks
<1>5. CASE ~Flagged(p, "DOWNLOAD") /\ ~Flagged(p, "SET_ACTIVE") /\ ~Flagged(p, "RESET_POLLER")
  BY <1>5, RestOk, FitsFree DEF handle_extra_up_tasks
<1> QED BY <1>2, <1>3, <1>4, <1>5

(* The approaches of the missions from j on are still to be sent.          *)
ToSend(p, f, j) ==
  /\ Whole(f.ram) /\ (fc.inav => p.t.last_wp_pts = Len(f.ram))
  /\ ~Flagged(p, "DOWNLOAD")
  /\ \A a \in Approaches : a < MaxHomes + j => a \in f.fwa

(* wp_set_approaches.                                                      *)
LEMMA SetApproachesOk ==
  ASSUME fc \in FCKind, Gentle, NEW p, NEW f, NEW o, Free(p, f, o),
         NEW j \in Nat, ToSend(p, f, j)
  PROVE  Ok(wp_set_approaches(p, j), f, o) /\ (Waits(p.t) => Fits(wp_set_approaches(p, j)))
<1> DEFINE r == Clear(p, "SAVE_FWA")
<1>1. Free(r, f, o) /\ r.t.wp_flag = p.t.wp_flag \ {"SAVE_FWA"}
      /\ r.t.last_wp_pts = p.t.last_wp_pts
  <2>1. Free(r, f, o)
    BY Clearing
  <2>2. r.t.last_wp_pts = p.t.last_wp_pts
    BY Clearing
  <2>3. r.t.wp_flag = p.t.wp_flag \ {"SAVE_FWA"}
    BY DEF Clear, Free, Sound, TransferPairs, Transfer
  <2> QED BY <2>1, <2>2, <2>3
<1>w. Waits(p.t) => Waits(r.t)
  <2>1. SameClock(p.t, r.t)
    BY Clearing
  <2> QED BY <2>1 DEF SameClock, Waits, Lone, Off
<1>2. "DOWNLOAD" \notin r.t.wp_flag
  BY <1>1 DEF Flagged, ToSend
<1> HIDE DEF r
<1>3. CASE LandsFrom(j) = {}
  <2>1. f.fwa = Approaches
    <3>1. \A l \in fc.lands : l \in Nat /\ l < j
      BY <1>3, KindFields DEF LandsFrom
    <3>2. \A a \in Approaches : a \in f.fwa
      <4> TAKE a \in Approaches
      <4>1. PICK l \in fc.lands : a = MaxHomes + l
        BY DEF Approaches
      <4>2. a < MaxHomes + j
        BY <3>1, <4>1, KindFields
      <4> QED BY <4>2 DEF ToSend
    <3>3. f.fwa \subseteq Approaches
      BY DEF Free, Sound
    <3> QED BY <3>2, <3>3
  <2>2. Rest(r.t, f)
    BY <1>1, <2>1 DEF Rest, ToSend
  <2>3. Ok(handle_extra_up_tasks(r), f, o) /\ (Waits(r.t) => Fits(handle_extra_up_tasks(r)))
    BY <1>1, <1>2, <2>2, ExtraUpOk DEF Flagged
  <2> QED BY <1>3, <1>w, <2>3 DEF wp_set_approaches, r
<1>4. CASE LandsFrom(j) # {}
  <2> DEFINE l  == mission_has_land(j)
             k  == MaxHomes + l
             e1 == pause_poller(r.e, "EXTRA_WP")
             t1 == [r.t EXCEPT !.safeindex = k, !.last_safehome = k + 1]
             q  == [r EXCEPT !.e = e1, !.t = t1]
  <2>1. l \in fc.lands /\ l >= j /\ l \in Nat /\ \A x \in fc.lands : x >= j => l <= x
    BY <1>4, FirstLand
  <2>2. k \in Approaches /\ k \in Nat /\ k + 1 \in Nat
    BY <2>1, KindFields DEF Approaches
  <2>3. \A a \in Approaches : a < k => a \in f.fwa
    <3> TAKE a \in Approaches
    <3> HAVE a < k
    <3>1. PICK x \in fc.lands : a = MaxHomes + x
      BY DEF Approaches
    <3>2. x \in Nat /\ MaxHomes \in Nat
      BY KindFields
    <3>3. x < j
      BY <2>1, <3>1, <3>2
    <3>4. a < MaxHomes + j
      BY <3>1, <3>2, <3>3
    <3> QED BY <3>4 DEF ToSend
  <2>4. r.t \in Transfer /\ r \in TransferPairs
    BY <1>1 DEF Free, Sound
  <2>5. wp_set_approaches(p, j) = Ask(q, "SET_FW_APPROACH", k)
    <3>1. q = [r EXCEPT !.e = e1, !.t.safeindex = k, !.t.last_safehome = k + 1]
      <4> HIDE DEF e1, k
      <4> QED BY <2>4 DEF TransferPairs, Transfer
    <3> HIDE DEF q
    <3> QED BY <1>4, <3>1 DEF wp_set_approaches, r
  <2> HIDE DEF k
  <2>6. t1 \in Transfer
    BY <2>2, <2>4 DEF Transfer
  <2>7. /\ t1.timers = r.t.timers /\ t1.upltid = r.t.upltid /\ t1.told = r.t.told
        /\ t1.sent = r.t.sent /\ t1.mission = r.t.mission /\ t1.dirty = r.t.dirty
        /\ t1.last_wp_pts = r.t.last_wp_pts /\ t1.wp_flag = r.t.wp_flag
        /\ t1.safeindex = k /\ t1.last_safehome = k + 1
    BY <2>4 DEF Transfer
  <2> HIDE DEF t1
  <2>8. Sound(t1, f)
    <3>1. r.t.upltid => r.t.timers # << >>
      BY <1>1 DEF Free, Sound
    <3> QED BY <1>1, <2>6, <2>7, <3>1, SameStory DEF Free
  <2>9. At(e1, {}) /\ Still(r.e, e1)
    BY <1>1, Pause DEF Free, SERSTATE
  <2> HIDE DEF e1
  <2>10. Free(q, f, o) /\ q.t = t1
    <3>1. Free(q, f, o)
      BY <1>1, <2>8, <2>9, NewPair
    <3>2. q.t = t1
      BY <2>4 DEF TransferPairs
    <3> QED BY <3>1, <3>2
  <2> HIDE DEF q
  <2>11. Approaching(Msg("SET_FW_APPROACH", k), t1, f)
    BY <1>1, <1>2, <2>2, <2>3, <2>7 DEF Approaching, Msg, ToSend
  <2>12. "SET_FW_APPROACH" \in Cmds \ PollCmds
    BY DEF Cmds, BulkCmds, PollCmds, StatusCmds
  <2>13. Waits(p.t) => Waits(q.t)
    BY <1>w, <2>7, <2>10 DEF Waits, Lone, Off
  <2>14. Waits(q.t) => Fits(Ask(q, "SET_FW_APPROACH", k))
    BY <2>2, <2>10, <2>12, FitsAsk DEF MayAsk
  <2>15. Ok(Ask(q, "SET_FW_APPROACH", k), f, o)
    BY <2>2, <2>10, <2>11, <2>12, AskOk DEF Doing
  <2> QED BY <2>5, <2>13, <2>14, <2>15
<1> QED BY <1>3, <1>4

(* The approaches of the missions from j on are read.                      *)
LEMMA GetApproachesOk ==
  ASSUME fc \in FCKind, NEW p, NEW f, NEW o, Free(p, f, o), Rest(p.t, f), NEW j \in Nat
  PROVE  Ok(wp_get_approaches(p, j), f, o) /\ (Reads(p.t) => Fits(wp_get_approaches(p, j)))
<1>1. CASE LandsFrom(j) = {}
  BY <1>1, ResetDlOk DEF wp_get_approaches, Reads, Lone
<1>2. CASE LandsFrom(j) # {}
  <2> DEFINE k  == MaxHomes + mission_has_land(j)
             t1 == [p.t EXCEPT !.last_safehome = k + 1]
             q  == [p EXCEPT !.t = t1]
  <2>1. k \in Nat /\ k >= MaxHomes /\ k + 1 - 1 = k /\ k + 1 \in Nat
    BY <1>2, FirstLand, KindFields
  <2>2. p.t \in Transfer /\ p \in TransferPairs
    BY DEF Free, Sound
  <2>3. wp_get_approaches(p, j) = Ask(q, "FW_APPROACH", k)
    BY <1>2, <2>2 DEF wp_get_approaches, TransferPairs
  <2> HIDE DEF k
  <2>4. t1 \in Transfer
    BY <2>1, <2>2 DEF Transfer
  <2>5. /\ t1.timers = p.t.timers /\ t1.upltid = p.t.upltid /\ t1.told = p.t.told
        /\ t1.sent = p.t.sent /\ t1.mission = p.t.mission /\ t1.dirty = p.t.dirty
        /\ t1.last_wp_pts = p.t.last_wp_pts /\ t1.last_safehome = k + 1
    BY <2>2 DEF Transfer
  <2> HIDE DEF t1
  <2>6. Sound(t1, f) /\ Rest(t1, f)
    <3>1. p.t.upltid => p.t.timers # << >>
      BY DEF Free, Sound
    <3> QED BY <2>4, <2>5, <3>1, SameStory DEF Free, Rest
  <2>7. Free(q, f, o) /\ q.t = t1
    BY <2>6, NewTransfer
  <2> HIDE DEF q
  <2>8. Reading(Msg("FW_APPROACH", k), t1, f)
    BY <2>1, <2>5, <2>6 DEF Reading, Msg
  <2>9. "FW_APPROACH" \in Cmds \ PollCmds
    BY DEF Cmds, BulkCmds, PollCmds, StatusCmds
  <2>10. Reads(p.t) => Reads(q.t)
    BY <2>5, <2>7 DEF Reads, Lone, Off
  <2>11. Reads(q.t) => Fits(Ask(q, "FW_APPROACH", k))
    BY <2>1, <2>7, <2>9, FitsAsk DEF MayAsk
  <2>12. Ok(Ask(q, "FW_APPROACH", k), f, o)
    BY <2>1, <2>7, <2>8, <2>9, AskOk DEF Doing
  <2> QED BY <2>3, <2>10, <2>11, <2>12
<1> QED BY <1>1, <1>2

(* The last waypoint has come: what it says of the mission is true.        *)
LEMMA DownloadDoneOk ==
  ASSUME fc \in FCKind, NEW p, NEW f, NEW o, Free(p, f, o), Rest(p.t, f), Pending(p.t),
         wps_to_missonx(p.t.wps) = wps_to_missonx(f.ram), f.ram # << >>
  PROVE  Ok(download_done(p), f, o) /\ (Waits(p.t) => Fits(download_done(p)))
<1> DEFINE ms   == wps_to_missonx(f.ram)
           none == << >>
           t1   == [p.t EXCEPT !.mission = none, !.dirty = FALSE, !.told = "fallback"]
           t2   == [p.t EXCEPT !.mission = ms, !.dirty = FALSE, !.told = "downloaded"]
           q1   == [p EXCEPT !.t = t1]
           q2   == [p EXCEPT !.t = t2]
<1>1. p.t \in Transfer /\ p \in TransferPairs /\ f.ram \in Seq(Nat)
  BY TransferFields DEF Free
<1>2. ms \in Seq(Nat) /\ Len(ms) = Len(f.ram) /\ Len(f.ram) <= WpLast /\ none \in Seq(Nat)
      /\ Len(none) <= WpLast
  BY <1>1, Items, KindFields DEF Rest, Whole
<1>3. Len(ms) # 0
  BY <1>1, <1>2
<1>4. download_done(p) = IF check_mission_length(ms) = 0 THEN q1 ELSE wp_get_approaches(q2, 0)
  <2> DEFINE p1 == [p EXCEPT !.t.mission = << >>, !.t.dirty = FALSE]
             u  == [p.t EXCEPT !.mission = none, !.dirty = FALSE]
  <2>1. p1 = [p EXCEPT !.t = u]
    BY <1>1 DEF TransferPairs, Transfer
  <2> HIDE DEF ms
  <2>2. Tell(p1, "fallback") = q1
    <3>1. [u EXCEPT !.told = "fallback"] = t1
      BY <1>1 DEF Transfer
    <3>2. Tell(p1, "fallback") = [p EXCEPT !.t = [u EXCEPT !.told = "fallback"]]
      <4> HIDE DEF p1, u
      <4> QED BY <1>1, <2>1 DEF Tell, TransferPairs
    <3> QED BY <3>1, <3>2
  <2>3. Tell([p1 EXCEPT !.t.mission = ms], "downloaded") = q2
    <3>1. [[u EXCEPT !.mission = ms] EXCEPT !.told = "downloaded"] = t2
      BY <1>1 DEF Transfer
    <3>2. Tell([p1 EXCEPT !.t.mission = ms], "downloaded")
            = [p EXCEPT !.t = [[u EXCEPT !.mission = ms] EXCEPT !.told = "downloaded"]]
      <4> HIDE DEF p1, u
      <4> QED BY <1>1, <2>1 DEF Tell, TransferPairs
    <3> QED BY <3>1, <3>2
  <2> HIDE DEF p1, q1, q2
  <2> QED BY <2>2, <2>3 DEF download_done, p1, ms
<1> HIDE DEF none
<1>a. ms = wps_to_missonx(f.ram)
  OBVIOUS
<1> HIDE DEF ms
<1>5. t1 \in Transfer /\ t2 \in Transfer
  BY <1>1, <1>2 DEF Transfer, Told
<1>6. /\ t1.timers = p.t.timers /\ t1.upltid = p.t.upltid /\ t1.told = "fallback"
      /\ t1.sent = p.t.sent /\ t1.mission = none /\ t1.last_wp_pts = p.t.last_wp_pts
      /\ t2.timers = p.t.timers /\ t2.upltid = p.t.upltid /\ t2.told = "downloaded"
      /\ t2.sent = p.t.sent /\ t2.mission = ms /\ t2.last_wp_pts = p.t.last_wp_pts
  BY <1>1 DEF Transfer
<1> HIDE DEF t1, t2
<1>7. CASE check_mission_length(ms) = 0
  <2>1. ms = Mission(5)
    BY <1>3, <1>7 DEF check_mission_length
  <2>2. f.ram = missonx_to_wps(ms)
    BY <1>a DEF Rest, Whole
  <2>3. f.ram = Fallback
    BY <2>1, <2>2 DEF Fallback
  <2>4. Sound(t1, f) /\ Rest(t1, f)
    BY <1>2, <1>5, <1>6, <2>3 DEF Free, Sound, ToldTruth, Rest
  <2>5. Free(q1, f, o) /\ q1.t = t1
    BY <2>4, NewTransfer
  <2>6. Fits(q1)
    BY <1>6, <2>5 DEF Fits
  <2> QED BY <1>4, <1>7, <2>4, <2>5, <2>6, RestOk
<1>8. CASE check_mission_length(ms) # 0
  <2>1. Sound(t2, f) /\ Rest(t2, f)
    BY <1>2, <1>5, <1>6, <1>a DEF Free, Sound, ToldTruth, Rest
  <2>2. Free(q2, f, o) /\ q2.t = t2
    BY <2>1, NewTransfer
  <2>3. Ok(wp_get_approaches(q2, 0), f, o) /\ (Reads(q2.t) => Fits(wp_get_approaches(q2, 0)))
    BY <2>1, <2>2, GetApproachesOk
  <2>4. Waits(p.t) => Reads(q2.t)
    BY <1>6, <2>2 DEF Waits, Reads, Lone, Off
  <2> QED BY <1>4, <1>8, <2>3, <2>4
<1> QED BY <1>7, <1>8

----------------------------------------------------------------------------
(* The answers of a download.                                              *)

(* last0wp is of no importance here.                                       *)
LEMMA LastZero ==
  ASSUME NEW C, NEW e, At(e, C), NEW b \in BOOLEAN
  PROVE  At([e EXCEPT !.last0wp = b], C) /\ Still(e, [e EXCEPT !.last0wp = b])
<1> DEFINE e1 == [e EXCEPT !.last0wp = b]
<1>g. Good(e) /\ e.avail
  BY AtFields
<1>1. Keeps(e, e1)
  BY <1>g, ZenonT(60) DEF Good, Keeps, PollListOK, Engine
<1>2. e1.mq = e.mq /\ Still(e, e1) /\ e1.requests = e.requests
  BY AtFields DEF Engine, Still
<1> HIDE DEF e1
<1>3. PollsListed(e1)
  BY <1>2 DEF At, StopAndWait, PollsListed
<1>4. At(e1, C)
  BY <1>g, <1>1, <1>2, <1>3, Unmoved DEF Keeps
<1> QED BY <1>2, <1>4 DEF e1

(* Something else of the transfer changes.                                 *)
LEMMA NewBooks ==
  ASSUME NEW p, NEW f, NEW o, Free(p, f, o), NEW t1 \in Transfer,
         t1.upltid = p.t.upltid, t1.timers = p.t.timers, t1.sent = p.t.sent,
         t1.mission = p.t.mission, t1.dirty = p.t.dirty, t1.told = p.t.told
  PROVE  Sound(t1, f) /\ Free([p EXCEPT !.t = t1], f, o) /\ [p EXCEPT !.t = t1].t = t1
<1>1. p.t.upltid => p.t.timers # << >>
  BY DEF Free, Sound
<1>2. Sound(t1, f)
  BY <1>1, SameStory DEF Free
<1> QED BY <1>2, NewTransfer

(* What the FC answers for waypoint n.                                     *)
LEMMA Answered ==
  ASSUME fc \in FCKind, NEW t, NEW f, Sound(t, f), NEW n \in 1 .. WpLast
  PROVE  /\ FcWaypoint(f, n) \in Nat
         /\ n <= Len(f.ram) => FcWaypoint(f, n) = f.ram[n]
         /\ f.ram = << >> => ~Last(FcWaypoint(f, n))
<1>1. f.ram \in Seq(Nat) /\ WpLast \in Nat
  BY TransferFields, KindFields
<1>2. n \in 0 .. (WpLast + 2) /\ 0 \in {0, 1} /\ 0 \in Nat
  BY <1>1
<1>3. MSP_WP(n, 0, 0) \in Nat /\ ~Last(MSP_WP(n, 0, 0))
  BY <1>2, Waypoint
<1> QED BY <1>1, <1>3 DEF FcWaypoint

(* A waypoint comes in.                                                    *)
LEMMA GotWaypoint ==
  ASSUME fc \in FCKind, NEW p, NEW f, NEW o, Free(p, f, o),
         NEW m, Fetching(m, p.t, f)
  PROVE  /\ Ok(got_wp(p, m.arg, FcWaypoint(f, m.arg)), f, o)
         /\ Waits(p.t) => Fits(got_wp(p, m.arg, FcWaypoint(f, m.arg)))
<1> DEFINE n  == m.arg
           w  == FcWaypoint(f, n)
           e1 == [p.e EXCEPT !.last0wp = FALSE]
           p0 == [p EXCEPT !.e = e1]
           s  == Append(p.t.wps, w)
           t1 == [p.t EXCEPT !.wps = s]
           p1 == [p0 EXCEPT !.t = t1]
           done == IF fc.v4 THEN Len(s) = p.t.npts ELSE Last(w)
<1>1. /\ n \in 1 .. WpLast /\ n \in Nat /\ WpLast \in Nat /\ Pending(p.t) /\ Rest(p.t, f)
      /\ p.t.wps = [i \in 1 .. (n - 1) |-> FcWaypoint(f, i)]
      /\ fc.v4 => p.t.npts = Len(f.ram)
      /\ n <= Len(f.ram) \/ (~fc.v4 /\ f.ram = << >>)
  BY KindFields DEF Fetching
<1>2. /\ p.t \in Transfer /\ p \in TransferPairs /\ f.ram \in Seq(Nat) /\ p.t.wps \in Seq(Nat)
      /\ fc.v4 \in BOOLEAN /\ p.e \in Engine
  BY TransferFields, KindFields DEF Free, TransferPairs
<1>3. w \in Nat /\ (n <= Len(f.ram) => w = f.ram[n]) /\ (f.ram = << >> => ~Last(w))
  BY <1>1, Answered DEF Free
<1>4. At(e1, {}) /\ Still(p.e, e1)
  BY LastZero DEF Free
<1>5. Free(p0, f, o) /\ p0.t = p.t
  BY <1>4, NewCalm
<1>6. s = [i \in 1 .. n |-> FcWaypoint(f, i)] /\ s \in Seq(Nat) /\ Len(s) = n
  <2>1. Len(p.t.wps) = n - 1
    BY <1>1
  <2>2. s \in Seq(Nat) /\ Len(s) = n /\ DOMAIN s = 1 .. n /\ s[n] = w
        /\ \A i \in 1 .. (n - 1) : s[i] = p.t.wps[i]
    BY <1>1, <1>2, <1>3, <2>1
  <2>3. \A i \in 1 .. n : s[i] = FcWaypoint(f, i)
    <3> TAKE i \in 1 .. n
    <3>1. CASE i = n
      BY <2>2, <3>1
    <3>2. CASE i # n
      <4>1. i \in 1 .. (n - 1)
        BY <3>2, <1>1
      <4>2. p.t.wps[i] = FcWaypoint(f, i)
        BY <1>1, <4>1
      <4> QED BY <2>2, <4>1, <4>2
    <3> QED BY <3>1, <3>2
  <2> HIDE DEF s
  <2> QED BY <2>2, <2>3
<1>7. got_wp(p, m.arg, FcWaypoint(f, m.arg)) = IF done THEN download_done(p1) ELSE Ask(p1, "WP", n + 1)
  <2>1. n # 0 /\ ~(n > WpLast)
    BY <1>1
  <2>2. [p EXCEPT !.e.last0wp = (n = 0)] = p0
    BY <1>2, <2>1 DEF TransferPairs
  <2>3. [p0 EXCEPT !.t.wps = Append(@, w)] = p1
    <3> HIDE DEF e1, w
    <3> QED BY <1>2 DEF TransferPairs
  <2>4. p1.t.wps = s /\ p1.t.npts = p.t.npts
    <3> HIDE DEF e1, s
    <3> QED BY <1>2 DEF TransferPairs, Transfer
  <2> HIDE DEF p0, p1, s, w, n
  <2>5. got_wp(p, n, w) = handle_mm_download(p0, n, w)
    BY <2>2 DEF got_wp
  <2>6. handle_mm_download(p0, n, w) = IF done THEN download_done(p1) ELSE Ask(p1, "WP", n + 1)
    BY <2>1, <2>3, <2>4 DEF handle_mm_download
  <2> QED BY <2>5, <2>6 DEF n, w
<1> HIDE DEF s, w
<1>8. t1 \in Transfer
  BY <1>2, <1>6 DEF Transfer
<1>9. /\ t1.timers = p.t.timers /\ t1.upltid = p.t.upltid /\ t1.told = p.t.told
      /\ t1.sent = p.t.sent /\ t1.mission = p.t.mission /\ t1.dirty = p.t.dirty
      /\ t1.last_wp_pts = p.t.last_wp_pts /\ t1.wps = s /\ t1.npts = p.t.npts
  BY <1>2, SMTT(30) DEF Transfer
<1> HIDE DEF t1, p0
<1>10. Free(p1, f, o) /\ p1.t = t1
  <2>1. /\ t1.timers = p0.t.timers /\ t1.upltid = p0.t.upltid /\ t1.told = p0.t.told
        /\ t1.sent = p0.t.sent /\ t1.mission = p0.t.mission /\ t1.dirty = p0.t.dirty
    BY <1>5, <1>9
  <2>2. Free(p0, f, o)
    BY <1>5
  <2> QED BY <1>8, <2>1, <2>2, NewBooks
<1> HIDE DEF p0, p1, e1
<1>w. Waits(p.t) => Waits(p1.t)
  BY <1>9, <1>10 DEF Waits, Lone, Off
<1>11. Rest(t1, f) /\ Pending(t1)
  BY <1>1, <1>9 DEF Rest, Pending
<1>12. Whole(f.ram)
  BY <1>1 DEF Rest
<1>13. Len(f.ram) \in 0 .. WpLast /\ \A i \in 1 .. Len(f.ram) : Last(f.ram[i]) <=> i = Len(f.ram)
  BY <1>2, <1>12, WholeFacts
<1>14. done <=> n = Len(f.ram)
  <2>1. CASE fc.v4
    BY <1>1, <1>6, <2>1
  <2>2. CASE ~fc.v4 /\ n <= Len(f.ram)
    <3>1. Last(w) <=> n = Len(f.ram)
      BY <1>1, <1>3, <1>13, <2>2
    <3> QED BY <2>2, <3>1
  <2>3. CASE ~fc.v4 /\ f.ram = << >>
    BY <1>1, <1>3, <2>3
  <2> QED BY <1>1, <1>2, <2>1, <2>2, <2>3
<1>15. CASE done
  <2>a. n = Len(f.ram)
    BY <1>14, <1>15
  <2>1. s = f.ram
    <3> DEFINE r == f.ram
    <3>1. s \in Seq(Nat) /\ Len(s) = n /\ DOMAIN s = 1 .. n
      BY <1>6
    <3>2. r \in Seq(Nat) /\ Len(r) = n /\ DOMAIN r = 1 .. n
      BY <1>2, <2>a
    <3>3. \A i \in 1 .. n : s[i] = FcWaypoint(f, i)
      BY <1>6
    <3>4. \A i \in 1 .. n : FcWaypoint(f, i) = r[i]
      BY <3>2 DEF FcWaypoint
    <3> HIDE DEF n, r
    <3>5. s = r
      BY <3>1, <3>2, <3>3, <3>4, SMTT(30)
    <3> QED BY <3>5 DEF r
  <2>2. f.ram # << >>
    BY <1>1, <1>2, <1>14, <1>15
  <2>3. Ok(download_done(p1), f, o) /\ (Waits(p1.t) => Fits(download_done(p1)))
    BY <1>9, <1>10, <1>11, <2>1, <2>2, DownloadDoneOk
  <2> HIDE DEF n, done
  <2> QED BY <1>7, <1>15, <1>w, <2>3
<1>16. CASE ~done
  <2> DEFINE k == n + 1
  <2>1. n # Len(f.ram)
    BY <1>14, <1>16
  <2>2. k \in Nat /\ k > 0 /\ k - 1 = n
    BY <1>1
  <2>3. k <= Len(f.ram) \/ (~fc.v4 /\ f.ram = << >>)
    BY <1>1, <1>13, <2>1
  <2>4. Msg("WP", k).cmd = "WP" /\ Msg("WP", k).arg = k
    BY DEF Msg
  <2>5. Doing(Msg("WP", k), t1, f)
    <3>1. CASE k <= WpLast
      <4>1. k \in 1 .. WpLast
        BY <1>1, <3>1
      <4> HIDE DEF k
      <4>2. Fetching(Msg("WP", k), t1, f)
        BY <1>1, <1>6, <1>9, <1>11, <2>2, <2>3, <2>4, <4>1 DEF Fetching
      <4> QED BY <4>2 DEF Doing
    <3>2. CASE k > WpLast
      <4> HIDE DEF k
      <4>1. Ending(Msg("WP", k), t1, f)
        BY <1>11, <2>4, <3>2 DEF Ending
      <4> QED BY <4>1 DEF Doing
    <3> QED BY <1>1, <3>1, <3>2
  <2>6. "WP" \in Cmds
    BY DEF Cmds, PollCmds
  <2>7. Ok(Ask(p1, "WP", k), f, o) /\ (Waits(p1.t) => Fits(Ask(p1, "WP", k)))
    <3> HIDE DEF k
    <3>1. Ok(Ask(p1, "WP", k), f, o)
      BY <1>10, <2>2, <2>5, <2>6, AskOk
    <3>2. Waits(p1.t) => Fits(Ask(p1, "WP", k))
      BY <1>10, <2>2, <2>6, FitsAsk DEF MayAsk
    <3> QED BY <3>1, <3>2
  <2> HIDE DEF n, done
  <2> QED BY <1>7, <1>16, <1>w, <2>7
<1> QED BY <1>15, <1>16

(* A waypoint after the last number that is not special comes in.          *)
LEMMA GotNothing ==
  ASSUME fc \in FCKind, NEW p, NEW f, NEW o, Free(p, f, o), Rest(p.t, f),
         NEW n \in Nat, n > WpLast, NEW w
  PROVE  Ok(got_wp(p, n, w), f, o) /\ (Waits(p.t) => Fits(got_wp(p, n, w)))
<1> DEFINE b  == (n = 0)
           e1 == [p.e EXCEPT !.last0wp = b]
           p0 == [p EXCEPT !.e = e1]
<1>1. p \in TransferPairs /\ b \in BOOLEAN
  BY DEF Free
<1>2. At(e1, {}) /\ Still(p.e, e1)
  BY <1>1, LastZero DEF Free
<1>3. [p EXCEPT !.e.last0wp = b] = p0
  BY <1>1 DEF TransferPairs
<1>4. Free(p0, f, o) /\ p0.t = p.t
  BY <1>2, NewCalm
<1> HIDE DEF e1, p0
<1>5. got_wp(p, n, w) = p0
  <2>1. got_wp(p, n, w) = handle_mm_download([p EXCEPT !.e.last0wp = b], n, w)
    BY DEF got_wp
  <2>2. handle_mm_download(p0, n, w) = p0
    BY DEF handle_mm_download
  <2> QED BY <1>3, <2>1, <2>2
<1> QED BY <1>4, <1>5, RestOk, FitsFree

(* The mission's approaches are read one after the other.                  *)
LEMMA GotFwApproach ==
  ASSUME fc \in FCKind, NEW p, NEW f, NEW o, Free(p, f, o), NEW m, Reading(m, p.t, f),
         m.arg \in Nat
  PROVE  Ok(got_fw_approach(p, m.arg), f, o) /\ (Reads(p.t) => Fits(got_fw_approach(p, m.arg)))
<1> DEFINE j == m.arg + 1 - MaxHomes
<1>1. m.arg = p.t.last_safehome - 1 /\ m.arg >= MaxHomes /\ MaxHomes \in Nat /\ Rest(p.t, f)
  BY KindFields DEF Reading
<1>2. j \in Nat /\ m.arg # MaxHomes - 1
  BY <1>1
<1>3. got_fw_approach(p, m.arg) = wp_get_approaches(p, j)
  BY <1>1, <1>2 DEF got_fw_approach
<1> HIDE DEF j
<1> QED BY <1>1, <1>2, <1>3, GetApproachesOk

(* The FC knows the setting: the download begins.                          *)
LEMMA GotSettingInfo ==
  ASSUME fc \in FCKind, NEW p, NEW f, NEW o, Free(p, f, o), NEW m, Starting(m, p.t, f)
  PROVE  /\ Ok(common_setting_info(p), f, o)
         /\ Off(p.t) /\ p.t.told = "asked" => Fits(common_setting_info(p))
<1> DEFINE q == Clear(p, "KICK_DL")
<1>1. Free(q, f, o) /\ q.t.wps = p.t.wps /\ q.t.npts = p.t.npts /\ q.t.told = p.t.told
      /\ q.t.last_wp_pts = p.t.last_wp_pts /\ SameClock(p.t, q.t)
  BY Clearing
<1> HIDE DEF q
<1>2. Rest(q.t, f) /\ Pending(q.t) /\ q.t.wps = << >> /\ q.t.npts = Len(f.ram) /\ q.t.npts > 0
  BY <1>1 DEF Starting, Rest, Pending
<1>3. Ok(start_download(q), f, o) /\ (Off(q.t) /\ q.t.told = "asked" => Fits(start_download(q)))
  BY <1>1, <1>2, StartDownloadOk
<1>4. Flagged(p, "KICK_DL")
  BY DEF Starting, Flagged
<1>5. Off(p.t) => Off(q.t)
  BY <1>1 DEF SameClock, Off
<1> QED BY <1>1, <1>3, <1>4, <1>5 DEF common_setting_info, q

----------------------------------------------------------------------------
(* The answers of an upload.                                               *)

(* The caller on D-Bus is called back.                                     *)
LEMMA CalledBack ==
  ASSUME NEW p, NEW f, NEW o, Free(p, f, o)
  PROVE  LET q == upload_callback(p)
         IN  /\ Free(q, f, o) /\ q.e = p.e /\ q.t.wp_flag = p.t.wp_flag \ {"CALLBACK"}
             /\ q.t.told = p.t.told /\ q.t.last_wp_pts = p.t.last_wp_pts
             /\ q.t.sent = p.t.sent /\ SameClock(p.t, q.t)
<1> DEFINE r  == Clear(p, "CALLBACK")
           t1 == [r.t EXCEPT !.call = "returned"]
           q  == [r EXCEPT !.t = t1]
<1>1. Free(r, f, o) /\ r.e = p.e /\ r.t.told = p.t.told /\ r.t.last_wp_pts = p.t.last_wp_pts
      /\ r.t.sent = p.t.sent /\ SameClock(p.t, r.t)
  BY Clearing
<1>2. r.t.wp_flag = p.t.wp_flag \ {"CALLBACK"}
  BY Clearing
<1> HIDE DEF r
<1>3. r \in TransferPairs /\ r.t \in Transfer
  BY <1>1 DEF Free, Sound
<1>4. [r EXCEPT !.t.call = "returned"] = q
  BY <1>3 DEF TransferPairs
<1>5. t1 \in Transfer
  BY <1>3 DEF Transfer
<1>6. /\ t1.timers = r.t.timers /\ t1.upltid = r.t.upltid /\ t1.told = r.t.told
      /\ t1.sent = r.t.sent /\ t1.mission = r.t.mission /\ t1.dirty = r.t.dirty
      /\ t1.last_wp_pts = r.t.last_wp_pts /\ t1.wp_flag = r.t.wp_flag
  BY <1>3 DEF Transfer
<1> HIDE DEF t1
<1>7. Free(q, f, o) /\ q.t = t1
  BY <1>1, <1>5, <1>6, NewBooks
<1>8. q.e = r.e
  BY <1>3 DEF TransferPairs
<1>9. upload_callback(p) = q
  BY <1>4 DEF upload_callback, r
<1>10. SameClock(p.t, t1)
  BY <1>1, <1>6 DEF SameClock
<1> QED BY <1>1, <1>2, <1>6, <1>7, <1>8, <1>9, <1>10

(* Good news, which is true.                                               *)
LEMMA TellingWell ==
  ASSUME NEW p, NEW f, NEW o, Free(p, f, o), f.ram = p.t.sent,
         NEW w \in {"uploaded", "saved"}, w = "saved" => f.rom = p.t.sent
  PROVE  /\ Free(Tell(p, w), f, o) /\ Tell(p, w).e = p.e /\ Tell(p, w).t.told = w
         /\ Tell(p, w).t = [p.t EXCEPT !.told = w]
         /\ Tell(p, w).t.last_wp_pts = p.t.last_wp_pts /\ Tell(p, w).t.sent = p.t.sent
         /\ Tell(p, w).t.timers = p.t.timers
<1> DEFINE t1 == [p.t EXCEPT !.told = w]
<1>1. p \in TransferPairs /\ p.t \in Transfer
  BY DEF Free, Sound
<1>2. Tell(p, w) = [p EXCEPT !.t = t1]
  BY <1>1 DEF Tell, TransferPairs
<1>3. t1 \in Transfer /\ t1.told = w /\ t1.upltid = p.t.upltid /\ t1.timers = p.t.timers
      /\ t1.sent = p.t.sent /\ t1.mission = p.t.mission /\ t1.dirty = p.t.dirty
      /\ t1.last_wp_pts = p.t.last_wp_pts
  BY <1>1 DEF Transfer, Told
<1>d. t1 = [p.t EXCEPT !.told = w]
  OBVIOUS
<1> HIDE DEF t1
<1>4. Sound(t1, f)
  BY <1>3 DEF Free, Sound, ToldTruth
<1>5. Free([p EXCEPT !.t = t1], f, o) /\ [p EXCEPT !.t = t1].t = t1 /\ [p EXCEPT !.t = t1].e = p.e
  BY <1>4, NewTransfer
<1> QED BY <1>2, <1>3, <1>5, <1>d

(* The flags of an upload.                                                 *)
UploadFlags(fl) ==
  /\ fl \cap {"DOWNLOAD", "FOLLOW_ME"} = {}
  /\ "SAVE_EEPROM" \in fl \/ {"GETINFO", "SAVE_FWA"} \subseteq fl

(* Other flags.                                                            *)
LEMMA NewFlags ==
  ASSUME NEW p, NEW f, NEW o, Free(p, f, o), NEW fl \in SUBSET WPDL
  PROVE  LET q == [p EXCEPT !.t.wp_flag = fl]
         IN  /\ Free(q, f, o) /\ q.e = p.e /\ q.t.wp_flag = fl /\ q.t.told = p.t.told
             /\ q.t.sent = p.t.sent /\ q.t.last_wp_pts = p.t.last_wp_pts
             /\ SameClock(p.t, q.t)
<1> DEFINE t1 == [p.t EXCEPT !.wp_flag = fl]
<1>1. p \in TransferPairs /\ p.t \in Transfer
  BY DEF Free, Sound
<1>2. [p EXCEPT !.t.wp_flag = fl] = [p EXCEPT !.t = t1]
  BY <1>1 DEF TransferPairs
<1>3. t1 \in Transfer
  BY <1>1 DEF Transfer
<1>4. /\ t1.timers = p.t.timers /\ t1.upltid = p.t.upltid /\ t1.told = p.t.told
      /\ t1.sent = p.t.sent /\ t1.mission = p.t.mission /\ t1.dirty = p.t.dirty
      /\ t1.last_wp_pts = p.t.last_wp_pts /\ t1.wp_flag = fl
  BY <1>1 DEF Transfer
<1> HIDE DEF t1
<1>5. Free([p EXCEPT !.t = t1], f, o) /\ [p EXCEPT !.t = t1].t = t1
  BY <1>3, <1>4, NewBooks
<1>6. [p EXCEPT !.t = t1].e = p.e
  BY <1>1 DEF TransferPairs
<1>7. SameClock(p.t, t1)
  BY <1>4 DEF SameClock
<1> QED BY <1>2, <1>4, <1>5, <1>6, <1>7

(* The last acknowledgement of an upload has come: mwp says that the FC    *)
(* has the mission if no saving is to follow.                              *)
LEMMA UploadDone ==
  ASSUME fc \in FCKind, Gentle, NEW p, NEW f, NEW o, Free(p, f, o), Pending(p.t),
         f.ram = p.t.sent, UploadFlags(p.t.wp_flag)
  PROVE  Ok(upload_done(p), f, o) /\ (Lone(p.t) => Fits(upload_done(p)))
<1> DEFINE r == remove_tid(p)
           s == IF Flagged(p, "CALLBACK") THEN upload_callback(r) ELSE r
           u == Tell(s, "uploaded")
<1>1. /\ Free(r, f, o) /\ r.t.wp_flag = p.t.wp_flag /\ r.t.told = p.t.told
      /\ r.t.sent = p.t.sent /\ r.t.last_wp_pts = p.t.last_wp_pts
  BY TidRemoved
<1> HIDE DEF r
<1>2. /\ Free(s, f, o) /\ s.t.told = p.t.told /\ s.t.sent = p.t.sent
      /\ s.t.last_wp_pts = p.t.last_wp_pts
  BY <1>1, CalledBack
<1>o. Lone(p.t) => Off(r.t)
  BY TidRemoved DEF r
<1>l. Lone(p.t) => Off(s.t)
  <2>1. SameClock(r.t, s.t)
    BY <1>1, CalledBack DEF SameClock
  <2> HIDE DEF s
  <2> QED BY <1>o, <2>1 DEF SameClock, Off
<1>3. s.t.wp_flag \in {p.t.wp_flag, p.t.wp_flag \ {"CALLBACK"}}
  <2>1. upload_callback(r).t.wp_flag = r.t.wp_flag \ {"CALLBACK"}
    BY <1>1, CalledBack
  <2> QED BY <1>1, <2>1
<1>4. Whole(f.ram)
  BY DEF Free, Sound
<1>5. s.t.wp_flag \in SUBSET WPDL
  BY <1>2, TransferFields DEF Free
<1>d. upload_done(p) =
        CASE Flagged(p, "SAVE_EEPROM") ->
               Ask([s EXCEPT !.t.wp_flag = {"GETINFO", "RESET_POLLER",
                                             "SET_ACTIVE", "SAVE_ACTIVE"}],
                   "WP_MISSION_SAVE", 0)
          [] ~Flagged(p, "SAVE_EEPROM") /\ Flagged(p, "GETINFO") ->
               IF fc.inav
               THEN Ask([u EXCEPT !.t.wp_flag = @ \cup {"SET_ACTIVE", "RESET_POLLER"}],
                        "WP_GETINFO", 0)
               ELSE wp_reset_poller(u)
          [] ~Flagged(p, "SAVE_EEPROM") /\ ~Flagged(p, "GETINFO")
             /\ Flagged(p, "FOLLOW_ME") ->
               wp_reset_poller(Ask(s, "WP", WpLast + 1))
          [] OTHER -> wp_reset_poller(s)
  BY DEF upload_done, r
<1> HIDE DEF s
<1>6. CASE Flagged(p, "SAVE_EEPROM")
  <2> DEFINE fl == {"GETINFO", "RESET_POLLER", "SET_ACTIVE", "SAVE_ACTIVE"}
             q  == [s EXCEPT !.t.wp_flag = fl]
  <2>1. fl \in SUBSET WPDL
    BY DEF WPDL
  <2>f. fl = {"GETINFO", "RESET_POLLER", "SET_ACTIVE", "SAVE_ACTIVE"}
    OBVIOUS
  <2> HIDE DEF fl
  <2>2. Free(q, f, o) /\ q.t.told = p.t.told /\ q.t.sent = p.t.sent
        /\ SameClock(s.t, q.t)
    BY <1>2, <2>1, NewFlags
  <2>3. q.t.wp_flag = fl
    BY <1>2 DEF Free, Sound, TransferPairs, Transfer
  <2>4. upload_done(p) = Ask(q, "WP_MISSION_SAVE", 0)
    BY <1>6, <1>d DEF fl
  <2> HIDE DEF q
  <2>5. Saving(Msg("WP_MISSION_SAVE", 0), q.t, f)
    BY <2>2, <2>3, <2>f DEF Saving, Msg, Pending
  <2>6. "WP_MISSION_SAVE" \in Cmds \ PollCmds
    BY DEF Cmds, BulkCmds, PollCmds, StatusCmds
  <2>7. Ok(Ask(q, "WP_MISSION_SAVE", 0), f, o)
    BY <2>2, <2>5, <2>6, AskOk DEF Doing
  <2>8. Off(q.t) => Fits(Ask(q, "WP_MISSION_SAVE", 0))
    BY <2>2, <2>6, FitsAsk DEF MayAsk
  <2>9. Off(s.t) => Off(q.t)
    BY <2>2 DEF SameClock, Off
  <2> QED BY <1>l, <2>4, <2>7, <2>8, <2>9
<1>7. CASE ~Flagged(p, "SAVE_EEPROM")
  <2>1. {"GETINFO", "SAVE_FWA"} \subseteq p.t.wp_flag /\ "DOWNLOAD" \notin p.t.wp_flag
        /\ Flagged(p, "GETINFO")
    BY <1>7 DEF UploadFlags, Flagged
  <2>2. Free(u, f, o) /\ u.t.told = "uploaded" /\ u.t.last_wp_pts = s.t.last_wp_pts
    BY <1>2, TellingWell, ZenonT(60)
  <2>m. u.t.timers = s.t.timers
    BY <1>2, TellingWell, ZenonT(60)
  <2>l. Lone(p.t) => Off(u.t)
    <3> HIDE DEF u
    <3> QED BY <1>l, <2>m DEF Off
  <2>3. u.t.wp_flag = s.t.wp_flag
    BY <1>2 DEF Tell, Free, Sound, TransferPairs, Transfer
  <2>4. CASE fc.inav
    <3> DEFINE fl == u.t.wp_flag \cup {"SET_ACTIVE", "RESET_POLLER"}
               q  == [u EXCEPT !.t.wp_flag = fl]
    <3>1. fl \in SUBSET WPDL
      BY <1>5, <2>3 DEF WPDL
    <3>2. "DOWNLOAD" \notin fl /\ "SAVE_FWA" \in fl
      BY <1>3, <2>1, <2>3
    <3>3. upload_done(p) = Ask(q, "WP_GETINFO", 0)
      <4>1. [u EXCEPT !.t.wp_flag = @ \cup {"SET_ACTIVE", "RESET_POLLER"}] = q
        OBVIOUS
      <4> HIDE DEF q, u
      <4> QED BY <1>7, <1>d, <2>1, <2>4, <4>1
    <3> HIDE DEF fl, u
    <3>4. Free(q, f, o) /\ q.t.told = "uploaded"
      BY <2>2, <3>1, NewFlags
    <3>l. Off(u.t) => Off(q.t)
      BY <2>2 DEF Off, Free, Sound, TransferPairs, Transfer
    <3>5. q.t.wp_flag = fl
      BY <2>2 DEF Free, Sound, TransferPairs, Transfer
    <3> HIDE DEF q
    <3>6. Counting(Msg("WP_GETINFO", 0), q.t, f)
      BY <1>4, <3>2, <3>4, <3>5 DEF Counting, Msg
    <3>7. "WP_GETINFO" \in Cmds \ PollCmds
      BY DEF Cmds, StartupCmds, PollCmds, StatusCmds
    <3>8. Ok(Ask(q, "WP_GETINFO", 0), f, o)
      BY <3>4, <3>6, <3>7, AskOk DEF Doing
    <3>9. Off(q.t) => Fits(Ask(q, "WP_GETINFO", 0))
      BY <3>2, <3>4, <3>5, <3>7, FitsAsk DEF MayAsk, Waits
    <3> QED BY <2>l, <3>l, <3>3, <3>8, <3>9
  <2>5. CASE ~fc.inav
    <3>1. fc.lands = {}
      BY <2>5 DEF Gentle
    <3>2. Approaches = {} /\ f.fwa \subseteq Approaches
      BY <3>1 DEF Approaches, Free, Sound
    <3>3. Rest(u.t, f)
      BY <1>4, <2>5, <3>2 DEF Rest
    <3>4. Ok(wp_reset_poller(u), f, o)
      BY <2>2, <3>3, ResetOk
    <3>5. Off(u.t) => Fits(wp_reset_poller(u))
      <4> HIDE DEF u
      <4>1. Off(u.t) => Fits(u)
        BY <2>2, FitsFree DEF Waits
      <4> QED BY <2>2, <4>1, FitsReset DEF Free
    <3> HIDE DEF u
    <3> QED BY <1>7, <1>d, <2>1, <2>5, <2>l, <3>4, <3>5
  <2> QED BY <2>4, <2>5
<1> QED BY <1>6, <1>7

(* The acknowledgement of the follow-me point has come.                    *)
LEMMA FollowDone ==
  ASSUME fc \in FCKind, NEW p, NEW f, NEW o, Free(p, f, o), Rest(p.t, f),
         p.t.wp_flag = {"FOLLOW_ME"}
  PROVE  Ok(upload_done(p), f, o) /\ (Lone(p.t) => Fits(upload_done(p)))
<1> DEFINE r == remove_tid(p)
           k == WpLast + 1
<1>1. Free(r, f, o) /\ r.t.told = p.t.told /\ r.t.last_wp_pts = p.t.last_wp_pts
  BY TidRemoved
<1>2. ~Flagged(p, "CALLBACK") /\ ~Flagged(p, "SAVE_EEPROM") /\ ~Flagged(p, "GETINFO")
      /\ Flagged(p, "FOLLOW_ME")
  BY DEF Flagged
<1> HIDE DEF r
<1>3. upload_done(p) = wp_reset_poller(Ask(r, "WP", k))
  BY <1>2 DEF upload_done, r
<1>4. k \in Nat /\ k > WpLast /\ k > 0
  BY KindFields
<1> HIDE DEF k
<1>5. Ending(Msg("WP", k), r.t, f)
  BY <1>1, <1>4 DEF Ending, Msg, Rest
<1>6. "WP" \in Cmds
  BY DEF Cmds, PollCmds
<1>7. Ok(wp_reset_poller(Ask(r, "WP", k)), f, o)
  BY <1>1, <1>4, <1>5, <1>6, ResetAsked
<1>8. Lone(p.t) => Off(r.t)
  BY TidRemoved DEF r
<1>9. ASSUME Off(r.t) PROVE Fits(wp_reset_poller(Ask(r, "WP", k)))
  <2>1. Fits(Ask(r, "WP", k))
    BY <1>1, <1>4, <1>6, <1>9, FitsAsk DEF MayAsk, Waits
  <2>2. At(Ask(r, "WP", k).e, {Msg("WP", k)}) /\ Ask(r, "WP", k) \in TransferPairs
    BY <1>1, <1>4, <1>6, Asked
  <2> QED BY <2>1, <2>2, FitsReset
<1> QED BY <1>3, <1>7, <1>8, <1>9

(* What the FC has done with a command and the answer will report.         *)
Taken(m, t, f) ==
  \/ Following(m, t, f)
  \/ /\ Uploading(m, t, f) /\ Len(f.ram) = t.wpidx + 1
     /\ \A i \in DOMAIN f.ram : f.ram[i] = t.sent[i]
  \/ Saving(m, t, f) /\ f.rom = t.sent
  \/ Counting(m, t, f)
  \/ Approaching(m, t, f) /\ m.arg \in f.fwa
  \/ Starting(m, t, f) \/ Fetching(m, t, f) \/ Reading(m, t, f)
  \/ Restoring(m, t, f) /\ f.ram = f.rom
  \/ Ending(m, t, f)

(* Another place in the upload.                                            *)
LEMMA NewPlace ==
  ASSUME NEW p, NEW f, NEW o, Free(p, f, o), NEW i \in Nat
  PROVE  LET q == [p EXCEPT !.t.wpidx = i]
         IN  /\ Free(q, f, o) /\ q.e = p.e /\ q.t = [p.t EXCEPT !.wpidx = i]
             /\ q.t.wpidx = i /\ q.t.told = p.t.told /\ q.t.sent = p.t.sent
             /\ q.t.last_wp_pts = p.t.last_wp_pts
             /\ q.t.npts = p.t.npts /\ q.t.wps = p.t.wps /\ SameClock(p.t, q.t)
<1> DEFINE t1 == [p.t EXCEPT !.wpidx = i]
<1>1. p \in TransferPairs /\ p.t \in Transfer
  BY DEF Free, Sound
<1>2. [p EXCEPT !.t.wpidx = i] = [p EXCEPT !.t = t1]
  BY <1>1 DEF TransferPairs
<1>3. t1 \in Transfer
  BY <1>1 DEF Transfer
<1>4. /\ t1.timers = p.t.timers /\ t1.upltid = p.t.upltid /\ t1.told = p.t.told
      /\ t1.sent = p.t.sent /\ t1.mission = p.t.mission /\ t1.dirty = p.t.dirty
      /\ t1.last_wp_pts = p.t.last_wp_pts /\ t1.wpidx = i
      /\ t1.npts = p.t.npts /\ t1.wps = p.t.wps
  BY <1>1 DEF Transfer
<1>d. t1 = [p.t EXCEPT !.wpidx = i]
  OBVIOUS
<1> HIDE DEF t1
<1>5. Free([p EXCEPT !.t = t1], f, o) /\ [p EXCEPT !.t = t1].t = t1
  BY <1>3, <1>4, NewBooks
<1>6. [p EXCEPT !.t = t1].e = p.e
  BY <1>1 DEF TransferPairs
<1>7. SameClock(p.t, t1)
  BY <1>4 DEF SameClock
<1> QED BY <1>2, <1>4, <1>5, <1>6, <1>7, <1>d

(* A waypoint is acknowledged.                                             *)
LEMMA GotSetWp ==
  ASSUME fc \in FCKind, Gentle, NEW p, NEW f, NEW o, Free(p, f, o),
         NEW m, Taken(m, p.t, f), m.cmd = "SET_WP"
  PROVE  Ok(got_set_wp(p), f, o) /\ (Waits(p.t) => Fits(got_set_wp(p)))
<1> DEFINE i == p.t.wpidx + 1
           q == [p EXCEPT !.t.wpidx = i]
<1>1. /\ p.t.wpidx \in Nat /\ i \in Nat /\ p.t.npts \in Nat
      /\ p.t.wps \in Seq(Nat) /\ p.t.sent \in Seq(Nat) /\ f.ram \in Seq(Nat)
  BY TransferFields DEF Free
<1>2. /\ Free(q, f, o) /\ q.t.wpidx = i /\ q.t.told = p.t.told /\ q.t.sent = p.t.sent
      /\ q.t.last_wp_pts = p.t.last_wp_pts /\ q.t.npts = p.t.npts /\ q.t.wps = p.t.wps
      /\ SameClock(p.t, q.t)
  <2>1. i \in Nat
    BY <1>1
  <2> HIDE DEF i
  <2> QED BY <2>1, NewPlace
<1>w. Waits(p.t) => Waits(q.t) /\ Lone(q.t)
  BY <1>2 DEF SameClock, Waits, Lone, Off
<1>f. q.t.wp_flag = p.t.wp_flag
  BY DEF Free, Sound, TransferPairs, Transfer
<1>d. got_set_wp(p) =
        CASE p.t.wps = << >> -> p
          [] p.t.wps # << >> /\ i < p.t.npts -> Ask(q, "SET_WP", p.t.wps[i + 1])
          [] p.t.wps # << >> /\ i >= p.t.npts -> upload_done(q)
  BY DEF got_set_wp
<1> HIDE DEF q
<1>3. CASE Following(m, p.t, f)
  <2>1. p.t.wps # << >> /\ i >= p.t.npts
    BY <1>1, <1>3 DEF Following
  <2>2. q.t.wp_flag = {"FOLLOW_ME"} /\ Rest(q.t, f)
    BY <1>2, <1>3, <1>f DEF Following, Rest
  <2>3. Ok(upload_done(q), f, o) /\ (Lone(q.t) => Fits(upload_done(q)))
    BY <1>2, <2>2, FollowDone
  <2> HIDE DEF i
  <2> QED BY <1>1, <1>d, <1>w, <2>1, <2>3
<1>4. CASE /\ Uploading(m, p.t, f) /\ Len(f.ram) = i
           /\ \A k \in DOMAIN f.ram : f.ram[k] = p.t.sent[k]
  <2>1. /\ p.t.wps = p.t.sent /\ p.t.npts = Len(p.t.sent) /\ p.t.wpidx < p.t.npts
        /\ Pending(p.t)
    BY <1>4 DEF Uploading
  <2>2. UploadFlags(p.t.wp_flag)
    BY <1>4 DEF Uploading, UploadFlags
  <2>3. p.t.wps # << >>
    BY <1>1, <2>1
  <2>4. CASE i < p.t.npts
    <3> DEFINE a == p.t.wps[i + 1]
    <3>1. a \in Nat /\ a = q.t.sent[i + 1]
      <4>1. i + 1 \in 1 .. Len(p.t.sent)
        BY <1>1, <2>1, <2>4
      <4>2. a \in Nat
        <5> DEFINE u == p.t.wps
                   k == i + 1
        <5>1. u \in Seq(Nat) /\ k \in 1 .. Len(u)
          BY <1>1, <2>1, <4>1
        <5> HIDE DEF u, k
        <5>2. u[k] \in Nat
          BY <5>1
        <5> QED BY <5>2 DEF u, k
      <4>3. p.t.wps = p.t.sent /\ q.t.sent = p.t.sent
        BY <1>2, <2>1
      <4>4. a = q.t.sent[i + 1]
        <5> HIDE DEF i
        <5> QED BY <4>3
      <4> QED BY <4>2, <4>4
    <3>2. i > 0
      BY <1>1
    <3>3. got_set_wp(p) = Ask(q, "SET_WP", a)
      <4>1. ~(i >= p.t.npts)
        BY <1>1, <2>4
      <4> HIDE DEF i
      <4> QED BY <1>d, <2>3, <2>4, <4>1
    <3> HIDE DEF a, i
    <3>4. Uploading(Msg("SET_WP", a), q.t, f)
      <4>1. UploadFlags(q.t.wp_flag)
        BY <1>f, <2>2
      <4>2. Len(f.ram) \in {i, i + 1} /\ \A k \in DOMAIN f.ram : f.ram[k] = q.t.sent[k]
        BY <1>2, <1>4
      <4>3. Pending(q.t) /\ q.t.wps = q.t.sent /\ q.t.npts = Len(q.t.sent) /\ q.t.wpidx < q.t.npts
        BY <1>2, <2>1, <2>4 DEF Pending
      <4> QED BY <1>2, <3>1, <4>1, <4>2, <4>3 DEF Uploading, UploadFlags, Msg
    <3>5. "SET_WP" \in Cmds \ PollCmds
      BY DEF Cmds, BulkCmds, PollCmds, StatusCmds
    <3>6. Ok(Ask(q, "SET_WP", a), f, o)
      BY <1>2, <3>1, <3>4, <3>5, AskOk DEF Doing
    <3>7. Waits(q.t) => Fits(Ask(q, "SET_WP", a))
      BY <1>2, <3>1, <3>5, FitsAsk DEF MayAsk
    <3> QED BY <1>w, <3>3, <3>6, <3>7
  <2>5. CASE i >= p.t.npts
    <3>1. i = Len(p.t.sent)
      BY <1>1, <2>1, <2>5
    <3>2. f.ram = q.t.sent
      <4> DEFINE r == f.ram
                 s == p.t.sent
      <4>1. r \in Seq(Nat) /\ s \in Seq(Nat)
        BY <1>1
      <4>2. Len(r) = i /\ \A k \in DOMAIN r : r[k] = s[k]
        BY <1>4
      <4>3. Len(s) = i
        BY <3>1
      <4> HIDE DEF i, r, s
      <4>4. DOMAIN r = 1 .. Len(s) /\ Len(r) = Len(s)
        BY <4>1, <4>2, <4>3
      <4>5. r = s
        BY <4>1, <4>2, <4>4, SMTT(30)
      <4> QED BY <1>2, <4>5 DEF r, s
    <3>3. Pending(q.t) /\ UploadFlags(q.t.wp_flag)
      BY <1>2, <1>f, <2>1, <2>2 DEF Pending
    <3>4. Ok(upload_done(q), f, o) /\ (Lone(q.t) => Fits(upload_done(q)))
      BY <1>2, <3>2, <3>3, UploadDone
    <3>5. ~(i < p.t.npts)
      BY <1>1, <2>5
    <3> HIDE DEF i
    <3> QED BY <1>d, <1>w, <2>3, <2>5, <3>4, <3>5
  <2> QED BY <1>1, <2>4, <2>5
<1> QED
  <2>1. ~Saving(m, p.t, f) /\ ~Counting(m, p.t, f) /\ ~Approaching(m, p.t, f)
        /\ ~Starting(m, p.t, f) /\ ~Fetching(m, p.t, f) /\ ~Reading(m, p.t, f)
        /\ ~Restoring(m, p.t, f) /\ ~Ending(m, p.t, f)
    BY DEF Saving, Counting, Approaching, Starting, Fetching, Reading, Restoring, Ending
  <2> QED BY <1>3, <1>4, <2>1 DEF Taken

(* The FC has counted its waypoints.                                       *)
LEMMA GotGetinfo ==
  ASSUME fc \in FCKind, Gentle, NEW p, NEW f, NEW o, Free(p, f, o),
         NEW m, Counting(m, p.t, f)
  PROVE  /\ Ok(got_wp_getinfo(p, Len(f.ram)), f, o)
         /\ Waits(p.t) /\ (Flagged(p, "DOWNLOAD") => Off(p.t) /\ p.t.told = "asked")
              => Fits(got_wp_getinfo(p, Len(f.ram)))
<1> DEFINE r  == Clear(p, "GETINFO")
           n  == Len(f.ram)
           t1 == [r.t EXCEPT !.last_wp_pts = n]
           q  == [r EXCEPT !.t = t1]
<1>1. Free(r, f, o) /\ r.t.told = p.t.told /\ SameClock(p.t, r.t)
  BY Clearing
<1>2. r.t.wp_flag = p.t.wp_flag \ {"GETINFO"}
  BY DEF Clear, Free, Sound, TransferPairs, Transfer
<1> HIDE DEF r
<1>3. r \in TransferPairs /\ r.t \in Transfer /\ n \in Nat
  BY <1>1, TransferFields DEF Free, Sound
<1>4. [r EXCEPT !.t.last_wp_pts = n] = q
  BY <1>3 DEF TransferPairs
<1> HIDE DEF n
<1>5. t1 \in Transfer
  BY <1>3 DEF Transfer
<1>6. /\ t1.timers = r.t.timers /\ t1.upltid = r.t.upltid /\ t1.told = r.t.told
      /\ t1.sent = r.t.sent /\ t1.mission = r.t.mission /\ t1.dirty = r.t.dirty
      /\ t1.last_wp_pts = n /\ t1.wp_flag = r.t.wp_flag
  BY <1>3 DEF Transfer
<1> HIDE DEF t1
<1>7. Free(q, f, o) /\ q.t = t1
  BY <1>1, <1>5, <1>6, NewBooks
<1>8. got_wp_getinfo(p, n) = IF Flagged(p, "SAVE_FWA") THEN wp_set_approaches(q, 0)
                                                       ELSE handle_extra_up_tasks(q)
  BY <1>4 DEF got_wp_getinfo, r
<1> HIDE DEF q
<1>9. q.t.last_wp_pts = Len(f.ram) /\ q.t.told = p.t.told /\ Whole(f.ram)
      /\ q.t.wp_flag = p.t.wp_flag \ {"GETINFO"}
  BY <1>1, <1>2, <1>6, <1>7 DEF Counting, n
<1>s. SameClock(p.t, q.t)
  BY <1>1, <1>6, <1>7 DEF SameClock
<1>w. (Waits(p.t) => Waits(q.t)) /\ (Off(p.t) => Off(q.t)) /\ q.t.told = p.t.told
  BY <1>s DEF SameClock, Waits, Lone, Off
<1>10. CASE Flagged(p, "SAVE_FWA")
  <2>1. ~Flagged(q, "DOWNLOAD")
    BY <1>9, <1>10 DEF Counting, Flagged
  <2>2. \A a \in Approaches : ~(a < MaxHomes + 0)
    BY KindFields DEF Approaches
  <2>3. ToSend(q, f, 0)
    BY <1>9, <2>1, <2>2 DEF ToSend
  <2>4. Ok(wp_set_approaches(q, 0), f, o) /\ (Waits(q.t) => Fits(wp_set_approaches(q, 0)))
    BY <1>7, <2>3, SetApproachesOk
  <2> QED BY <1>8, <1>10, <1>w, <2>4 DEF n
<1>11. CASE ~Flagged(p, "SAVE_FWA")
  <2>1. q.t.told # "uploaded"
    BY <1>9, <1>11 DEF Counting, Flagged, Pending
  <2>2. Rest(q.t, f)
    BY <1>9, <2>1 DEF Rest
  <2>3. Flagged(q, "DOWNLOAD") => Pending(q.t)
    BY <1>9 DEF Counting, Flagged, Pending
  <2>4. /\ Ok(handle_extra_up_tasks(q), f, o)
        /\ Waits(q.t) /\ (Flagged(q, "DOWNLOAD") => Off(q.t) /\ q.t.told = "asked")
             => Fits(handle_extra_up_tasks(q))
    BY <1>7, <2>2, <2>3, ExtraUpOk
  <2>5. Flagged(q, "DOWNLOAD") => Flagged(p, "DOWNLOAD")
    BY <1>9 DEF Flagged
  <2> QED BY <1>8, <1>11, <1>w, <2>4, <2>5 DEF n
<1> QED BY <1>10, <1>11

(* An approach is acknowledged; the mission's next one follows.            *)
LEMMA GotSetFwApproach ==
  ASSUME fc \in FCKind, Gentle, NEW p, NEW f, NEW o, Free(p, f, o),
         NEW m, Approaching(m, p.t, f), m.arg \in f.fwa
  PROVE  Ok(got_set_fw_approach(p), f, o) /\ (Waits(p.t) => Fits(got_set_fw_approach(p)))
<1> DEFINE i  == p.t.safeindex + 1
           j  == i - MaxHomes
           t1 == [p.t EXCEPT !.safeindex = i]
           q  == [p EXCEPT !.t = t1]
<1>1. p \in TransferPairs /\ p.t \in Transfer /\ p.t.safeindex \in Nat /\ MaxHomes \in Nat
  BY TransferFields, KindFields DEF Free
<1>2. p.t.safeindex >= MaxHomes /\ i = p.t.last_safehome /\ i \in Nat /\ j \in Nat
      /\ ~(i <= MaxHomes) /\ i > MaxHomes /\ MaxHomes + j = i
  <2>1. PICK l \in fc.lands : p.t.safeindex = MaxHomes + l
    BY DEF Approaching, Approaches
  <2>2. l \in Nat
    BY KindFields
  <2>3. i = p.t.last_safehome
    BY DEF Approaching
  <2> QED BY <1>1, <2>1, <2>2, <2>3
<1>3. got_set_fw_approach(p) = wp_set_approaches(q, j)
  <2>1. [p EXCEPT !.t.safeindex = i] = q
    BY <1>1 DEF TransferPairs
  <2> HIDE DEF q
  <2> QED BY <1>2, <2>1 DEF got_set_fw_approach
<1>4. \A a \in Approaches : a < MaxHomes + j => a \in f.fwa
  <2> TAKE a \in Approaches
  <2> HAVE a < MaxHomes + j
  <2>1. a \in Nat
    BY KindFields DEF Approaches
  <2>2. CASE a = p.t.safeindex
    BY <2>2 DEF Approaching
  <2>3. CASE a < p.t.safeindex
    BY <2>3 DEF Approaching
  <2> QED BY <1>1, <1>2, <2>1, <2>2, <2>3
<1>5. t1 \in Transfer
  BY <1>1, <1>2 DEF Transfer
<1> HIDE DEF i
<1>6. /\ t1.timers = p.t.timers /\ t1.upltid = p.t.upltid /\ t1.told = p.t.told
      /\ t1.sent = p.t.sent /\ t1.mission = p.t.mission /\ t1.dirty = p.t.dirty
      /\ t1.last_wp_pts = p.t.last_wp_pts /\ t1.wp_flag = p.t.wp_flag
  BY <1>1 DEF Transfer
<1> HIDE DEF t1, j
<1>7. Free(q, f, o) /\ q.t = t1
  BY <1>5, <1>6, NewBooks
<1> HIDE DEF q
<1>8. ToSend(q, f, j)
  BY <1>4, <1>6, <1>7 DEF ToSend, Flagged, Approaching
<1>9. Waits(p.t) => Waits(q.t)
  BY <1>6, <1>7 DEF Waits, Lone, Off
<1> QED BY <1>2, <1>3, <1>7, <1>8, <1>9, SetApproachesOk

(* The FC has saved its mission.                                           *)
LEMMA GotMissionSave ==
  ASSUME fc \in FCKind, NEW p, NEW f, NEW o, Free(p, f, o),
         NEW m, Saving(m, p.t, f), f.rom = p.t.sent
  PROVE  Ok(got_mission_save(p), f, o) /\ (Off(p.t) => Fits(got_mission_save(p)))
<1> DEFINE q == Tell(p, "saved")
<1>1. f.ram = p.t.sent /\ Flagged(p, "GETINFO") /\ "DOWNLOAD" \notin p.t.wp_flag
  BY DEF Saving, Flagged
<1>2. Free(q, f, o) /\ q.t.told = "saved" /\ q.t.timers = p.t.timers
  BY <1>1, TellingWell, ZenonT(60)
<1>o. Off(p.t) => Off(q.t)
  BY <1>2 DEF Off
<1>3. q.t.wp_flag = p.t.wp_flag
  BY DEF Tell, Free, Sound, TransferPairs, Transfer
<1>4. Whole(f.ram)
  BY <1>1 DEF Free, Sound
<1>5. CASE fc.inav
  <2>1. Tell(Ask(p, "WP_GETINFO", 0), "saved") = Ask(q, "WP_GETINFO", 0)
    BY DEF Tell, Ask, Free, TransferPairs
  <2>2. got_mission_save(p) = Ask(q, "WP_GETINFO", 0)
    <3> HIDE DEF q
    <3> QED BY <1>1, <1>5, <2>1 DEF got_mission_save
  <2> HIDE DEF q
  <2>3. Counting(Msg("WP_GETINFO", 0), q.t, f)
    BY <1>1, <1>2, <1>3, <1>4 DEF Counting, Msg
  <2>4. "WP_GETINFO" \in Cmds \ PollCmds
    BY DEF Cmds, StartupCmds, PollCmds, StatusCmds
  <2>5. Ok(Ask(q, "WP_GETINFO", 0), f, o)
    BY <1>2, <2>3, <2>4, AskOk DEF Doing
  <2>6. Off(q.t) => Fits(Ask(q, "WP_GETINFO", 0))
    BY <1>1, <1>2, <1>3, <2>4, FitsAsk DEF MayAsk, Waits
  <2> QED BY <1>o, <2>2, <2>5, <2>6
<1>6. CASE ~fc.inav
  <2>1. got_mission_save(p) = q
    BY <1>1, <1>6 DEF got_mission_save
  <2> HIDE DEF q
  <2>2. Rest(q.t, f)
    BY <1>2, <1>4, <1>6 DEF Rest
  <2>3. Off(q.t) => Fits(q)
    BY <1>2, FitsFree DEF Waits
  <2> QED BY <1>2, <1>o, <2>1, <2>2, <2>3, RestOk
<1> QED BY <1>5, <1>6

(* The last acknowledgements.                                              *)
LEMMA GotLast ==
  ASSUME NEW p, NEW f, NEW o, Free(p, f, o), Rest(p.t, f)
  PROVE  /\ Ok(got_set_setting(p), f, o) /\ Ok(got_eeprom_write(p), f, o)
         /\ Waits(p.t) => Fits(got_set_setting(p)) /\ Fits(got_eeprom_write(p))
<1>1. ASSUME NEW x, NEW c \in {"EEPROM_WRITE", "REBOOT"}
      PROVE  Ok(Ask(Clear(p, x), c, 0), f, o) /\ (Waits(p.t) => Fits(Ask(Clear(p, x), c, 0)))
  <2> DEFINE q == Clear(p, x)
  <2>1. Free(q, f, o) /\ q.t.told = p.t.told /\ q.t.last_wp_pts = p.t.last_wp_pts
        /\ SameClock(p.t, q.t)
    BY Clearing
  <2> HIDE DEF q
  <2>2. Ending(Msg(c, 0), q.t, f)
    BY <2>1 DEF Ending, Rest, Msg
  <2>3. c \in Cmds \ PollCmds
    BY DEF Cmds, BulkCmds, PollCmds, StatusCmds
  <2>4. Ok(Ask(q, c, 0), f, o)
    BY <2>1, <2>2, <2>3, AskOk DEF Doing
  <2>5. Waits(p.t) => Waits(q.t)
    BY <2>1 DEF SameClock, Waits, Lone, Off
  <2>6. Waits(q.t) => Fits(Ask(q, c, 0))
    BY <1>1, <2>1, <2>3, FitsAsk DEF MayAsk
  <2> QED BY <2>4, <2>5, <2>6 DEF q
<1>2. Ok(p, f, o) /\ Ok(wp_reset_poller(p), f, o)
  BY RestOk, ResetOk
<1>w. Waits(p.t) => Fits(p) /\ Fits(wp_reset_poller(p))
  <2>1. Waits(p.t) => Fits(p)
    BY FitsFree
  <2> QED BY <2>1, FitsReset DEF Free
<1>3. Ok(got_set_setting(p), f, o) /\ (Waits(p.t) => Fits(got_set_setting(p)))
  BY <1>1, <1>2, <1>w DEF got_set_setting
<1>4. Ok(got_eeprom_write(p), f, o) /\ (Waits(p.t) => Fits(got_eeprom_write(p)))
  BY <1>1, <1>2, <1>w DEF got_eeprom_write
<1> QED BY <1>3, <1>4

(* The FC has restored its mission: it is downloaded.                      *)
LEMMA GotMissionLoad ==
  ASSUME NEW p, NEW f, NEW o, Free(p, f, o), NEW m, Restoring(m, p.t, f)
  PROVE  /\ Ok(got_mission_load(p), f, o)
         /\ Off(p.t) /\ p.t.told = "asked" => Fits(got_mission_load(p))
<1> DEFINE fl == {"DOWNLOAD"}
           q  == [p EXCEPT !.t.wp_flag = fl]
<1>1. fl \in SUBSET WPDL
  BY DEF WPDL
<1>2. q.t.wp_flag = fl
  BY DEF Free, Sound, TransferPairs, Transfer
<1>3. got_mission_load(p) = Ask(q, "WP_GETINFO", 0)
  BY DEF got_mission_load
<1>o. Off(p.t) => Off(q.t)
  BY DEF Off, Free, Sound, TransferPairs, Transfer
<1>f. fl = {"DOWNLOAD"}
  OBVIOUS
<1> HIDE DEF fl
<1>4. Free(q, f, o) /\ q.t.told = p.t.told
  BY <1>1, NewFlags
<1> HIDE DEF q
<1>5. Counting(Msg("WP_GETINFO", 0), q.t, f)
  BY <1>2, <1>4, <1>f DEF Counting, Restoring, Msg, Pending
<1>6. "WP_GETINFO" \in Cmds \ PollCmds
  BY DEF Cmds, StartupCmds, PollCmds, StatusCmds
<1>7. Ok(Ask(q, "WP_GETINFO", 0), f, o)
  BY <1>4, <1>5, <1>6, AskOk DEF Doing
<1>8. Off(q.t) /\ q.t.told = "asked" => Fits(Ask(q, "WP_GETINFO", 0))
  BY <1>4, <1>6, FitsAsk DEF MayAsk
<1> QED BY <1>o, <1>3, <1>4, <1>7, <1>8

----------------------------------------------------------------------------
(* The FC.                                                                 *)

(* What the FC has changed is what the transfer expected, and mwp has      *)
(* claimed nothing yet of what changes.                                    *)
LEMMA FcDoesOk ==
  ASSUME fc \in FCKind, Gentle, NEW t, NEW f, Sound(t, f), NEW m \in Message, Doing(m, t, f)
  PROVE  Sound(t, FcDoes(f, m)) /\ Taken(m, t, FcDoes(f, m))
<1> DEFINE g == FcDoes(f, m)
<1>0. SUFFICES Sound(t, g) /\ Taken(m, t, g)
  OBVIOUS
<1>1. m.cmd \notin fc.rejects /\ m.arg \in Nat
  BY DEF Gentle, Message
<1>2. /\ t \in Transfer /\ f \in FcState /\ f.ram \in Seq(Nat) /\ f.rom \in Seq(Nat)
      /\ t.sent \in Seq(Nat) /\ t.wpidx \in Nat /\ t.npts \in Nat /\ WpLast \in Nat \ {0}
      /\ f.fwa \in SUBSET Nat
  BY TransferFields, KindFields
<1>3. /\ t.upltid => t.timers # << >>
      /\ Whole(t.sent) /\ Whole(f.rom) /\ f.fwa \subseteq Approaches /\ Len(t.mission) <= WpLast
      /\ ToldTruth(t, f)
  BY DEF Sound
<1>s. ASSUME NEW x \in FcState, Whole(x.rom), x.fwa \subseteq Approaches, ToldTruth(t, x)
      PROVE  Sound(t, x)
  BY <1>2, <1>3, <1>s DEF Sound
<1>u. CASE m.cmd \notin {"SET_WP", "WP_MISSION_SAVE", "WP_MISSION_LOAD", "SET_FW_APPROACH",
                         "COMMON_SET_SETTING"}
  <2>1. g = f
    BY <1>1, <1>u DEF FcDoes
  <2>2. ~Following(m, t, f) /\ ~Uploading(m, t, f) /\ ~Saving(m, t, f) /\ ~Approaching(m, t, f)
        /\ ~Restoring(m, t, f)
    BY <1>u DEF Following, Uploading, Saving, Approaching, Restoring, Msg
  <2>3. Taken(m, t, f)
    BY <2>2 DEF Doing, Taken
  <2> HIDE DEF g
  <2> QED BY <2>1, <2>3
<1>4. CASE Following(m, t, f)
  <2>1. m.cmd = "SET_WP" /\ m.arg = FollowMePoint /\ Rest(t, f)
    BY <1>4 DEF Following, Msg
  <2>2. Number(FollowMePoint) = WpLast + 2
    <3> DEFINE n == WpLast + 2
    <3>1. n \in 0 .. (WpLast + 2) /\ 1 \in {0, 1}
      BY <1>2
    <3>2. Item(6, 0) \in Nat
      BY <1>2 DEF Item, Width
    <3>3. FollowMePoint = MSP_WP(n, Item(6, 0), 1)
      BY DEF FollowMePoint
    <3> HIDE DEF n
    <3>4. Number(MSP_WP(n, Item(6, 0), 1)) = n
      BY <3>1, <3>2, Waypoint
    <3> QED BY <3>3, <3>4 DEF n
  <2>3. Len(f.ram) \in 0 .. WpLast
    <3>1. Whole(f.ram)
      BY <2>1 DEF Rest
    <3> QED BY <1>2, <3>1, WholeFacts
  <2>4. Number(m.arg) # 1 /\ Number(m.arg) # Len(f.ram) + 1
    BY <1>2, <2>1, <2>2, <2>3
  <2>5. g = f
    BY <1>1, <2>1, <2>4 DEF FcDoes
  <2> HIDE DEF g
  <2> QED BY <1>4, <2>5 DEF Taken
<1>5. CASE Uploading(m, t, f)
  <2> DEFINE n == t.wpidx + 1
  <2>1. m.cmd = "SET_WP" /\ Pending(t) /\ m.arg = t.sent[n] /\ n \in 1 .. Len(t.sent) /\ n \in Nat
    BY <1>2, <1>5 DEF Uploading
  <2>2. Number(m.arg) = n
    <3> HIDE DEF n
    <3> QED BY <1>2, <1>3, <2>1, WholeFacts
  <2>3. ToldTruth(t, g)
    BY <2>1 DEF ToldTruth, Pending
  <2>4. ASSUME NEW r \in Seq(Nat), g = [f EXCEPT !.ram = r], Len(r) = n,
               \A i \in DOMAIN r : r[i] = t.sent[i]
        PROVE  Sound(t, g) /\ Taken(m, t, g)
    <3>1. g \in FcState /\ g.rom = f.rom /\ g.fwa = f.fwa /\ g.ram = r
      BY <1>2, <2>4 DEF FcState
    <3> HIDE DEF g
    <3>2. Sound(t, g)
      BY <1>3, <1>s, <2>3, <3>1
    <3>3. Uploading(m, t, g)
      <4>1. t.wpidx > 0 => Len(g.ram) \in {t.wpidx, t.wpidx + 1}
        BY <2>4, <3>1
      <4>2. \A i \in DOMAIN g.ram : g.ram[i] = t.sent[i]
        BY <2>4, <3>1
      <4> QED BY <1>5, <4>1, <4>2 DEF Uploading
    <3>4. Taken(m, t, g)
      BY <2>4, <3>1, <3>3 DEF Taken
    <3> QED BY <3>2, <3>4
  <2>5. CASE n = 1
    <3> DEFINE r == <<m.arg>>
    <3>1. g = [f EXCEPT !.ram = r]
      BY <1>1, <2>1, <2>2, <2>5 DEF FcDoes
    <3>2. r \in Seq(Nat) /\ Len(r) = n /\ \A i \in DOMAIN r : r[i] = t.sent[i]
      <4>1. m.arg = t.sent[1]
        BY <2>1, <2>5
      <4> HIDE DEF n
      <4> QED BY <1>1, <2>5, <4>1
    <3> HIDE DEF r, g
    <3> QED BY <2>4, <3>1, <3>2
  <2>6. CASE n # 1
    <3>1. /\ Len(f.ram) \in {t.wpidx, t.wpidx + 1}
          /\ \A i \in DOMAIN f.ram : f.ram[i] = t.sent[i]
      BY <1>2, <1>5, <2>6 DEF Uploading
    <3>2. CASE n = Len(f.ram) + 1
      <4> DEFINE r == Append(f.ram, m.arg)
      <4>1. g = [f EXCEPT !.ram = r]
        BY <1>1, <2>1, <2>2, <2>6, <3>2 DEF FcDoes
      <4>2. r \in Seq(Nat) /\ Len(r) = n /\ DOMAIN r = 1 .. n /\ r[n] = m.arg
            /\ \A i \in 1 .. (n - 1) : r[i] = f.ram[i] /\ i \in DOMAIN f.ram
        <5> DEFINE x == f.ram
                   y == m.arg
        <5>1. x \in Seq(Nat) /\ y \in Nat /\ n = Len(x) + 1 /\ DOMAIN x = 1 .. Len(x)
              /\ Len(x) \in Nat /\ n - 1 = Len(x) /\ r = Append(x, y)
          BY <1>1, <1>2, <3>2
        <5> HIDE DEF x, y, n, r
        <5>2. /\ Append(x, y) \in Seq(Nat) /\ Len(Append(x, y)) = Len(x) + 1
              /\ Append(x, y)[Len(x) + 1] = y
              /\ \A i \in 1 .. Len(x) : Append(x, y)[i] = x[i]
          BY <5>1
        <5>3. DOMAIN Append(x, y) = 1 .. Len(Append(x, y))
          BY <5>2
        <5>4. \A i \in 1 .. (n - 1) : r[i] = x[i] /\ i \in DOMAIN x
          BY <5>1, <5>2
        <5> QED BY <5>1, <5>2, <5>3, <5>4 DEF x, y
      <4>3. \A i \in DOMAIN r : r[i] = t.sent[i]
        <5> HIDE DEF r
        <5> TAKE i \in DOMAIN r
        <5>1. i = n \/ i \in 1 .. (n - 1)
          BY <2>1, <4>2
        <5>2. r[n] = t.sent[n]
          BY <2>1, <4>2
        <5> HIDE DEF n
        <5> QED BY <3>1, <4>2, <5>1, <5>2
      <4> HIDE DEF r, g, n
      <4> QED BY <2>4, <4>1, <4>2, <4>3
    <3>3. CASE n # Len(f.ram) + 1
      <4>1. g = f
        BY <1>1, <2>1, <2>2, <2>6, <3>3 DEF FcDoes
      <4>2. f = [f EXCEPT !.ram = f.ram]
        BY <1>2 DEF FcState
      <4>3. Len(f.ram) = n
        BY <1>2, <3>1, <3>3
      <4> HIDE DEF g, n
      <4> QED BY <1>2, <2>4, <3>1, <4>1, <4>2, <4>3
    <3> QED BY <3>2, <3>3
  <2> QED BY <2>5, <2>6
<1>6. CASE Saving(m, t, f)
  <2>1. g = [f EXCEPT !.rom = f.ram]
    BY <1>1, <1>6 DEF FcDoes, Saving
  <2>2. g \in FcState /\ g.ram = f.ram /\ g.fwa = f.fwa /\ g.rom = f.ram
    BY <1>2, <2>1 DEF FcState
  <2> HIDE DEF g
  <2>3. g.rom = t.sent /\ Saving(m, t, g) /\ Pending(t)
    BY <1>6, <2>2 DEF Saving
  <2>4. ToldTruth(t, g)
    BY <2>3 DEF ToldTruth, Pending
  <2>5. Sound(t, g)
    BY <1>3, <1>s, <2>2, <2>3, <2>4
  <2> QED BY <2>3, <2>5 DEF Taken
<1>7. CASE Approaching(m, t, f)
  <2> DEFINE w == f.fwa \cup {m.arg}
  <2>1. g = [f EXCEPT !.fwa = w]
    BY <1>1, <1>7 DEF FcDoes, Approaching
  <2>2. m.arg \in Approaches
    BY <1>7 DEF Approaching
  <2>3. w \in SUBSET Nat /\ w \subseteq Approaches /\ m.arg \in w /\ f.fwa \subseteq w
    BY <1>1, <1>2, <1>3, <2>2
  <2> HIDE DEF w
  <2>4. g \in FcState /\ g.ram = f.ram /\ g.rom = f.rom
    BY <1>2, <2>1, <2>3 DEF FcState
  <2>5. g.fwa = w
    BY <1>2, <2>1 DEF FcState
  <2> HIDE DEF g
  <2>6. ToldTruth(t, g)
    BY <1>3, <2>4 DEF ToldTruth
  <2>7. Sound(t, g)
    BY <1>3, <1>s, <2>3, <2>4, <2>5, <2>6
  <2>8. Approaching(m, t, g) /\ m.arg \in g.fwa
    BY <1>7, <2>3, <2>4, <2>5 DEF Approaching
  <2> QED BY <2>7, <2>8 DEF Taken
<1>8. CASE Restoring(m, t, f)
  <2>1. g = [f EXCEPT !.ram = f.rom]
    BY <1>1, <1>8 DEF FcDoes, Restoring
  <2>2. g \in FcState /\ g.ram = f.rom /\ g.fwa = f.fwa /\ g.rom = f.rom
    BY <1>2, <2>1 DEF FcState
  <2> HIDE DEF g
  <2>3. Restoring(m, t, g) /\ Pending(t)
    BY <1>3, <1>8, <2>2 DEF Restoring
  <2>4. ToldTruth(t, g)
    BY <2>3 DEF ToldTruth, Pending
  <2>5. Sound(t, g)
    BY <1>3, <1>s, <2>2, <2>4
  <2> QED BY <2>2, <2>3, <2>5 DEF Taken
<1>9. CASE Ending(m, t, f) /\ m.cmd = "COMMON_SET_SETTING"
  <2>1. g = [f EXCEPT !.index = m.arg]
    BY <1>1, <1>9 DEF FcDoes
  <2>2. g \in FcState /\ g.ram = f.ram /\ g.fwa = f.fwa /\ g.rom = f.rom
    BY <1>1, <1>2, <2>1 DEF FcState
  <2> HIDE DEF g
  <2>3. ToldTruth(t, g)
    BY <1>3, <2>2 DEF ToldTruth
  <2>4. Sound(t, g)
    BY <1>3, <1>s, <2>2, <2>3
  <2>5. Ending(m, t, g)
    BY <1>9, <2>2 DEF Ending, Rest
  <2> QED BY <2>4, <2>5 DEF Taken
<1> QED
  <2>1. SUFFICES ASSUME m.cmd \in {"SET_WP", "WP_MISSION_SAVE", "WP_MISSION_LOAD",
                                   "SET_FW_APPROACH", "COMMON_SET_SETTING"}
                 PROVE  Sound(t, g) /\ Taken(m, t, g)
    BY <1>u
  <2>2. ~Counting(m, t, f) /\ ~Starting(m, t, f) /\ ~Fetching(m, t, f) /\ ~Reading(m, t, f)
    BY <2>1 DEF Counting, Starting, Fetching, Reading
  <2>3. Ending(m, t, f) => m.cmd = "COMMON_SET_SETTING"
    BY <2>1 DEF Ending
  <2> QED BY <1>4, <1>5, <1>6, <1>7, <1>8, <1>9, <2>2, <2>3 DEF Doing

(* A poll changes nothing.                                                 *)
LEMMA FcPolled ==
  ASSUME NEW f, NEW m \in Message, Polling(m)
  PROVE  FcDoes(f, m) = f
<1>1. m.cmd \in PollCmds
  BY Polls
<1>2. m.cmd \notin {"SET_WP", "WP_MISSION_SAVE", "WP_MISSION_LOAD", "SET_FW_APPROACH",
                    "COMMON_SET_SETTING"}
  BY <1>1 DEF PollCmds, StatusCmds
<1> QED BY <1>2 DEF FcDoes

(* What was taken is still being done.                                     *)
LEMMA TakenIsDoing ==
  ASSUME NEW m, NEW t, NEW f, Taken(m, t, f)
  PROVE  Doing(m, t, f)
  BY DEF Taken, Doing

----------------------------------------------------------------------------
(* handle_serial.                                                          *)

(* The answer to the current message.                                      *)
LEMMA HandledOk ==
  ASSUME fc \in FCKind, Gentle, NEW p, NEW f, NEW o, Free(p, f, o),
         NEW m \in Message, Taken(m, p.t, f)
  PROVE  Ok(handle_msp(p, m, f), f, o) /\ (Timed({m}, p.t) => Fits(handle_msp(p, m, f)))
<1>1. m.arg \in Nat
  BY DEF Message
<1>t. Timed({m}, p.t) => /\ m.cmd # "FW_APPROACH" => Waits(p.t)
                         /\ Reads(p.t)
                         /\ Starts(m, p.t) => Off(p.t) /\ p.t.told = "asked"
                         /\ m.cmd = "WP_MISSION_SAVE" => Off(p.t)
  BY DEF Timed, Waits, Reads
<1>2. CASE m.cmd = "SET_WP"
  <2>1. handle_msp(p, m, f) = got_set_wp(p)
    BY <1>2 DEF handle_msp
  <2> QED BY <1>2, <1>t, <2>1, GotSetWp
<1>3. CASE Saving(m, p.t, f) /\ f.rom = p.t.sent
  <2>1. handle_msp(p, m, f) = got_mission_save(p)
    BY <1>3 DEF handle_msp, Saving
  <2>2. m.cmd = "WP_MISSION_SAVE"
    BY <1>3 DEF Saving, Msg
  <2> QED BY <1>3, <1>t, <2>1, <2>2, GotMissionSave
<1>4. CASE Counting(m, p.t, f)
  <2>1. handle_msp(p, m, f) = got_wp_getinfo(p, Len(f.ram))
    BY <1>4 DEF handle_msp, Counting
  <2>2. m.cmd = "WP_GETINFO"
    BY <1>4 DEF Counting, Msg
  <2> QED BY <1>4, <1>t, <2>1, <2>2, GotGetinfo DEF Starts, Flagged
<1>5. CASE Approaching(m, p.t, f) /\ m.arg \in f.fwa
  <2>1. handle_msp(p, m, f) = got_set_fw_approach(p)
    BY <1>5 DEF handle_msp, Approaching
  <2>2. m.cmd = "SET_FW_APPROACH"
    BY <1>5 DEF Approaching, Msg
  <2> QED BY <1>5, <1>t, <2>1, <2>2, GotSetFwApproach
<1>6. CASE Starting(m, p.t, f)
  <2>1. handle_msp(p, m, f) = common_setting_info(p)
    BY <1>6 DEF handle_msp, Starting
  <2>2. m.cmd = "COMMON_SETTING_INFO"
    BY <1>6 DEF Starting, Msg
  <2> QED BY <1>6, <1>t, <2>1, <2>2, GotSettingInfo DEF Starts
<1>7. CASE Fetching(m, p.t, f)
  <2>1. handle_msp(p, m, f) = got_wp(p, m.arg, FcWaypoint(f, m.arg))
    BY <1>7 DEF handle_msp, Fetching
  <2>2. m.cmd = "WP"
    BY <1>7 DEF Fetching
  <2> QED BY <1>7, <1>t, <2>1, <2>2, GotWaypoint
<1>8. CASE Reading(m, p.t, f)
  <2>1. handle_msp(p, m, f) = got_fw_approach(p, m.arg)
    BY <1>8 DEF handle_msp, Reading
  <2> QED BY <1>1, <1>8, <1>t, <2>1, GotFwApproach
<1>9. CASE Restoring(m, p.t, f)
  <2>1. handle_msp(p, m, f) = got_mission_load(p)
    BY <1>9 DEF handle_msp, Restoring
  <2>2. m.cmd = "WP_MISSION_LOAD"
    BY <1>9 DEF Restoring, Msg
  <2> QED BY <1>9, <1>t, <2>1, <2>2, GotMissionLoad DEF Starts
<1>10. CASE Ending(m, p.t, f)
  <2>1. Rest(p.t, f)
    BY <1>10 DEF Ending
  <2>2. Ok(p, f, o) /\ Ok(got_set_setting(p), f, o) /\ Ok(got_eeprom_write(p), f, o)
    BY <2>1, RestOk, GotLast
  <2>w. Timed({m}, p.t) => /\ Fits(p) /\ Fits(got_set_setting(p))
                           /\ Fits(got_eeprom_write(p)) /\ Waits(p.t)
    <3>1. m.cmd # "FW_APPROACH"
      BY <1>10 DEF Ending
    <3> QED BY <1>t, <2>1, <3>1, FitsFree, GotLast
  <2>3. CASE m.cmd = "COMMON_SET_SETTING"
    BY <2>2, <2>3, <2>w DEF handle_msp
  <2>4. CASE m.cmd = "EEPROM_WRITE"
    BY <2>2, <2>4, <2>w DEF handle_msp
  <2>5. CASE m.cmd = "REBOOT"
    BY <2>2, <2>5, <2>w DEF handle_msp
  <2>6. CASE m.cmd = "WP" /\ m.arg > WpLast
    <3>1. handle_msp(p, m, f) = got_wp(p, m.arg, FcWaypoint(f, m.arg))
      BY <2>6 DEF handle_msp
    <3> QED BY <1>1, <2>1, <2>6, <2>w, <3>1, GotNothing
  <2> QED BY <1>10, <2>3, <2>4, <2>5, <2>6 DEF Ending
<1> QED
  <2>1. Following(m, p.t, f) \/ Uploading(m, p.t, f) => m.cmd = "SET_WP"
    BY DEF Following, Uploading, Msg
  <2> QED BY <1>2, <1>3, <1>4, <1>5, <1>6, <1>7, <1>8, <1>9, <1>10, <2>1 DEF Taken

(* The answer to a poll.                                                   *)
LEMMA PollHandled ==
  ASSUME NEW p, NEW f, NEW o, Ok(p, f, o), NEW m \in Message, Polling(m)
  PROVE  Ok(handle_msp(p, m, f), f, o) /\ (Fits(p) => Fits(handle_msp(p, m, f)))
<1> DEFINE e1 == [p.e EXCEPT !.last0wp = TRUE]
           q  == [p EXCEPT !.e = e1]
<1>1. m.cmd \in PollCmds /\ m.arg = 0
  BY Polls
<1>2. p \in TransferPairs /\ At(p.e, Current(p.e))
  BY DEF Ok, At
<1>3. At(e1, Current(p.e)) /\ Still(p.e, e1) /\ e1 \in Engine
  BY <1>2, LastZero, AtFields
<1>4. [p EXCEPT !.e.last0wp = (m.arg = 0)] = q
  BY <1>1, <1>2 DEF TransferPairs
<1> HIDE DEF e1
<1>5. q \in TransferPairs /\ q.e = e1 /\ q.t = p.t
  BY <1>2, <1>3 DEF TransferPairs
<1> HIDE DEF q
<1>6. Ok(q, f, o)
  BY <1>2, <1>3, <1>5 DEF Ok, At, Open, Still
<1>f. Fits(p) => Fits(q)
  BY <1>3, <1>5 DEF Fits, At
<1>7. CASE m.cmd = "WP"
  <2>1. handle_msp(p, m, f) = got_wp(p, m.arg, FcWaypoint(f, m.arg))
    BY <1>7 DEF handle_msp
  <2>2. got_wp(p, m.arg, FcWaypoint(f, m.arg)) = q
    BY <1>1, <1>4 DEF got_wp, handle_mm_download
  <2> QED BY <1>6, <1>f, <2>1, <2>2
<1>8. CASE m.cmd # "WP"
  <2>1. handle_msp(p, m, f) = p
    BY <1>1, <1>8 DEF handle_msp, PollCmds, StatusCmds
  <2> QED BY <2>1
<1> QED BY <1>7, <1>8

(* A message comes in.                                                     *)
LEMMA SerialOk ==
  ASSUME fc \in FCKind, Gentle, NEW e, NEW t, NEW f, StopAndWait(e), e.wire # << >>,
         Stage(Current(e), t, f), NEW soon \in BOOLEAN
  PROVE  LET m == Head(e.wire)
             g == FcDoes(f, m)
             q == handle_serial([Pair(e, t) EXCEPT !.e.wire = Tail(@)], m, g, soon)
         IN  Ok(q, g, FALSE) /\ (Timed(Current(e), t) => Fits(q))
<1> DEFINE m  == Head(e.wire)
           g  == FcDoes(f, m)
           C  == Current(e)
           d  == [e EXCEPT !.wire = Tail(@)]
           e1 == received(d, m.cmd, FALSE)
           p  == [Pair(e, t) EXCEPT !.e.wire = Tail(@)]
           p1 == [e |-> e1, t |-> t]
           p2 == handle_msp(p1, m, g)
           q  == [p2 EXCEPT !.e = message_handled(p2.e, soon)]
<1>1. At(e, C) /\ e \in Engine /\ t \in Transfer /\ Sound(t, f)
  BY AtFields DEF At, Stage, Sound
<1>2. Open(e1) /\ m \in Message /\ (\/ Polling(m) /\ At(e1, C)
                                    \/ C = {m} /\ ~Polling(m) /\ At(e1, {}))
  BY <1>1, Took
<1>3. handle_serial(p, m, g, soon) = q
  <2>1. m.cmd \notin fc.rejects
    BY DEF Gentle
  <2>2. p = [e |-> d, t |-> t]
    BY DEF Pair
  <2> HIDE DEF p, d, m, g
  <2>3. [p EXCEPT !.e = received(@, m.cmd, m.cmd \in fc.rejects)] = p1
    <3>1. received(d, m.cmd, m.cmd \in fc.rejects) = e1
      BY <2>1 DEF received
    <3>2. p.e = d
      BY <2>2
    <3> HIDE DEF e1
    <3> QED BY <2>2, <3>1, <3>2
  <2> HIDE DEF e1, p1
  <2>4. handle_serial(p, m, g, soon)
          = [handle_msp(p1, m, g) EXCEPT !.e = message_handled(@, soon)]
    BY <2>1, <2>3 DEF handle_serial
  <2> QED BY <2>4
<1>e. e1 \in Engine
  BY <1>2, AtFields
<1> HIDE DEF e1, d
<1>4. p1 \in TransferPairs /\ p1.e = e1 /\ p1.t = t
  BY <1>1, <1>e DEF TransferPairs
<1> HIDE DEF p1, p
<1>5. Ok(p2, g, TRUE) /\ (Timed(C, t) => Fits(p2))
  <2>1. CASE Polling(m) /\ At(e1, C)
    <3>1. g = f
      BY <1>2, <2>1, FcPolled
    <3>2. Ok(p1, f, TRUE)
      BY <1>2, <1>4, <2>1 DEF Ok, At
    <3>3. Ok(p1, g, TRUE)
      BY <3>1, <3>2
    <3>4. Timed(C, t) => Fits(p1)
      BY <1>4, <2>1 DEF Fits, At
    <3> HIDE DEF m, g
    <3> QED BY <1>2, <2>1, <3>3, <3>4, PollHandled
  <2>2. CASE C = {m} /\ ~Polling(m) /\ At(e1, {})
    <3>1. Doing(m, t, f)
      BY <2>2 DEF Stage
    <3>2. Sound(t, g) /\ Taken(m, t, g)
      <4> HIDE DEF m
      <4> QED BY <1>1, <1>2, <3>1, FcDoesOk
    <3>3. Free(p1, g, TRUE)
      BY <1>2, <1>4, <2>2, <3>2 DEF Free
    <3>4. Taken(m, p1.t, g)
      BY <1>4, <3>2
    <3>5. Timed(C, t) => Timed({m}, p1.t)
      BY <1>4, <2>2
    <3> HIDE DEF m, g, C
    <3> QED BY <1>2, <3>3, <3>4, <3>5, HandledOk
  <2> QED BY <1>2, <2>1, <2>2
<1> HIDE DEF p2
<1>6. At(p2.e, Current(p2.e)) /\ Open(p2.e) /\ p2 \in TransferPairs /\ Stage(Current(p2.e), p2.t, g)
  BY <1>5 DEF Ok, At
<1>7. At(message_handled(p2.e, soon), Current(p2.e))
  BY <1>6, Handled
<1>8. message_handled(p2.e, soon) \in Engine
  BY <1>7, AtFields
<1>9. q \in TransferPairs /\ q.e = message_handled(p2.e, soon) /\ q.t = p2.t
  BY <1>6, <1>8 DEF TransferPairs
<1> HIDE DEF q, g, m
<1>11. Fits(p2) => Fits(q)
  BY <1>7, <1>9 DEF Fits, At
<1>10. Ok(q, g, FALSE)
  BY <1>6, <1>7, <1>9 DEF Ok, At
<1> QED BY <1>3, <1>5, <1>10, <1>11 DEF g, m, p

----------------------------------------------------------------------------
(* The user and the timers.                                                *)

(* An upload begins.                                                       *)
LEMMA UploadMm ==
  ASSUME fc \in FCKind, NEW p, NEW f, Free(p, f, FALSE), Rest(p.t, f),
         NEW flag \in SUBSET WPDL, UploadFlags(flag)
  PROVE  Ok(upload_mm(p, flag), f, FALSE) /\ (Off(p.t) => Fits(upload_mm(p, flag)))
<1> DEFINE ws == IF p.t.mission = << >> THEN Fallback ELSE missonx_to_wps(p.t.mission)
           e1 == pause_poller(p.e, "SET_WP")
           n  == (Len(ws) + 1) * PollTimeout
           s  == Append(p.t.timers, n)
           t0 == [p.t EXCEPT !.npts = Len(ws), !.wpidx = 0, !.wps = ws, !.wp_flag = flag,
                             !.sent = ws, !.told = "asked"]
           t1 == [t0 EXCEPT !.timers = s, !.upltid = TRUE]
           p0 == [p EXCEPT !.e = e1, !.t = t0]
           q  == [p EXCEPT !.e = e1, !.t = t1]
<1>1. CASE Len(p.t.mission) > WpMax
  <2> DEFINE u == Tell(p, "toobig")
  <2>1. Free(u, f, FALSE) /\ u.t = [p.t EXCEPT !.told = "toobig"]
    BY Telling
  <2>2. u.t.told = "toobig" /\ u.t.last_wp_pts = p.t.last_wp_pts
        /\ u.t.timers = p.t.timers
    BY <2>1 DEF Free, Sound, Transfer
  <2>3. upload_mm(p, flag) = u
    BY <1>1 DEF upload_mm
  <2> HIDE DEF u
  <2>4. Rest(u.t, f)
    BY <2>2 DEF Rest
  <2>5. Off(p.t) => Fits(u)
    BY <2>1, <2>2, FitsFree DEF Waits, Off
  <2> QED BY <2>1, <2>3, <2>4, <2>5, RestOk
<1>2. CASE ~(Len(p.t.mission) > WpMax)
  <2>1. p.t \in Transfer /\ p \in TransferPairs /\ p.t.timers \in Seq(Nat)
        /\ p.t.mission \in Seq(Nat) /\ Len(p.t.mission) <= WpLast
    BY TransferFields DEF Free, Sound
  <2>2. ws \in Seq(Nat) /\ Len(ws) \in Nat /\ Len(ws) > 0 /\ Whole(ws) /\ ws[1] \in Nat
    <3>1. CASE p.t.mission = << >>
      <4>1. ws = Fallback
        BY <3>1
      <4>2. Fallback \in Seq(Nat) /\ Len(Fallback) = 1 /\ Whole(Fallback)
        BY Missions
      <4>3. Fallback[1] \in Nat /\ Len(Fallback) > 0 /\ Len(Fallback) \in Nat
        <5>1. \A i \in 1 .. Len(Fallback) : Fallback[i] \in Nat
          BY <4>2, WholeFacts
        <5>2. 1 \in 1 .. Len(Fallback)
          BY <4>2
        <5> QED BY <4>2, <5>1, <5>2
      <4> HIDE DEF ws
      <4> QED BY <4>1, <4>2, <4>3
    <3>2. CASE p.t.mission # << >>
      <4>1. ws = missonx_to_wps(p.t.mission)
        BY <3>2
      <4>2. missonx_to_wps(p.t.mission) \in Seq(Nat) /\ Whole(missonx_to_wps(p.t.mission))
            /\ Len(missonx_to_wps(p.t.mission)) = Len(p.t.mission)
        BY <2>1, Waypoints
      <4>3. Len(p.t.mission) > 0
        BY <2>1, <3>2
      <4> HIDE DEF ws
      <4> QED BY <4>1, <4>2, <4>3
    <3> QED BY <3>1, <3>2
  <2>w. ws = IF p.t.mission = << >> THEN Fallback ELSE missonx_to_wps(p.t.mission)
    OBVIOUS
  <2> HIDE DEF ws
  <2>3. n \in Nat
    <3>1. Len(ws) + 1 \in Nat /\ PollTimeout \in Nat
      BY <2>2, TimesAssumption DEF TimesAssumption
    <3> QED BY <3>1, SMT
  <2>4. upload_mm(p, flag) = Ask(q, "SET_WP", ws[1])
    <3>1. p0 = [p EXCEPT !.t.npts = Len(ws), !.t.wpidx = 0, !.t.wps = ws,
                         !.t.wp_flag = flag, !.t.sent = ws, !.t.told = "asked",
                         !.e = pause_poller(@, "SET_WP")]
      BY <2>1 DEF TransferPairs
    <3>2. upload_mm(p, flag) = start_wp_timer(Ask(p0, "SET_WP", ws[1]), Len(ws))
      <4> HIDE DEF p0
      <4> QED BY <1>2, <2>w, <3>1 DEF upload_mm
    <3>3. t0.timers = p.t.timers /\ DOMAIN t0 = DOMAIN p.t
      BY <2>1 DEF Transfer
    <3> HIDE DEF t0, e1
    <3>4. start_wp_timer(Ask(p0, "SET_WP", ws[1]), Len(ws)) = Ask(q, "SET_WP", ws[1])
      <4> DEFINE x == queue_cmd(e1, Msg("SET_WP", ws[1]))
                 r == [p EXCEPT !.e = x, !.t = t0]
                 z == [p EXCEPT !.e = x, !.t = t1]
      <4>1. Ask(p0, "SET_WP", ws[1]) = r /\ Ask(q, "SET_WP", ws[1]) = z
        <5>1. p0.e = e1 /\ q.e = e1
          BY <2>1 DEF TransferPairs
        <5>2. [p0 EXCEPT !.e = x] = r /\ [q EXCEPT !.e = x] = z
          <6> HIDE DEF x, t1
          <6> QED BY <2>1 DEF TransferPairs
        <5> HIDE DEF p0, q, r, z
        <5> QED BY <5>1, <5>2 DEF Ask
      <4>2. r.t = t0
        BY <2>1 DEF TransferPairs
      <4>3. s = Append(t0.timers, (Len(ws) + 1) * PollTimeout)
        BY <3>3
      <4> HIDE DEF x, s
      <4>4. start_wp_timer(r, Len(ws)) = [r EXCEPT !.t.timers = s, !.t.upltid = TRUE]
        <5> HIDE DEF r
        <5> QED BY <4>2, <4>3 DEF start_wp_timer
      <4>5. [r EXCEPT !.t.timers = s, !.t.upltid = TRUE] = z
        BY <2>1, <3>3, <4>2 DEF TransferPairs
      <4> QED BY <4>1, <4>4, <4>5
    <3> QED BY <3>2, <3>4
  <2> HIDE DEF n
  <2>5. s \in Seq(Nat) /\ s # << >>
    <3> DEFINE u == p.t.timers
    <3>1. u \in Seq(Nat)
      BY <2>1
    <3> HIDE DEF u, n
    <3>2. Append(u, n) \in Seq(Nat) /\ Len(Append(u, n)) = Len(u) + 1 /\ Len(u) \in Nat
      BY <2>3, <3>1
    <3>3. Len(Append(u, n)) # 0 /\ Len(<< >>) = 0
      BY <3>2
    <3>4. Append(u, n) # << >>
      BY <3>3
    <3> QED BY <3>2, <3>4 DEF u
  <2>o. Off(p.t) => Len(s) = 1
    <3>1. s = Append(p.t.timers, n) /\ Len(Append(<< >>, n)) = 1
      BY <2>3
    <3> HIDE DEF s, n
    <3> QED BY <3>1 DEF Off
  <2> HIDE DEF s
  <2>6. t1 \in Transfer
    BY <2>1, <2>2, <2>5 DEF Transfer, Told
  <2>7. /\ t1.timers = s /\ t1.told = "asked" /\ t1.wps = ws /\ t1.npts = Len(ws)
        /\ t1.upltid
        /\ t1.sent = ws /\ t1.mission = p.t.mission /\ t1.wpidx = 0 /\ t1.wp_flag = flag
    BY <2>1 DEF Transfer
  <2> HIDE DEF t1
  <2>8. Sound(t1, f)
    BY <2>1, <2>2, <2>5, <2>6, <2>7 DEF Free, Sound, ToldTruth
  <2>9. At(e1, {}) /\ Still(p.e, e1)
    BY Pause DEF Free, SERSTATE
  <2> HIDE DEF e1
  <2>10. Free(q, f, FALSE)
    BY <2>8, <2>9, NewPair
  <2>11. q.t = t1
    BY <2>1 DEF TransferPairs
  <2> HIDE DEF q
  <2>12. Uploading(Msg("SET_WP", ws[1]), q.t, f)
    BY <2>2, <2>7, <2>11 DEF Uploading, UploadFlags, Msg, Pending
  <2>13. "SET_WP" \in Cmds \ PollCmds
    BY DEF Cmds, BulkCmds, PollCmds, StatusCmds
  <2>14. Ok(Ask(q, "SET_WP", ws[1]), f, FALSE)
    BY <2>2, <2>10, <2>12, <2>13, AskOk DEF Doing
  <2>15. ASSUME Off(p.t) PROVE Fits(Ask(q, "SET_WP", ws[1]))
    <3>1. Waits(q.t)
      BY <2>7, <2>11, <2>o, <2>15 DEF Waits, Lone
    <3> QED BY <2>2, <2>10, <2>13, <3>1, FitsAsk DEF MayAsk
  <2> QED BY <2>4, <2>14, <2>15
<1> QED BY <1>1, <1>2

(* The timers and the story may change while the work goes on.             *)
LEMMA WorkGoesOn ==
  ASSUME NEW m, NEW t, NEW f, Doing(m, t, f), NEW t1,
         t1.wps = t.wps, t1.npts = t.npts, t1.wpidx = t.wpidx, t1.sent = t.sent,
         t1.last_wp_pts = t.last_wp_pts, t1.safeindex = t.safeindex,
         t1.last_safehome = t.last_safehome, t1.told \in {t.told, "failed"},
         t1.wp_flag \in {t.wp_flag, t.wp_flag \ {"CALLBACK"}}
  PROVE  Doing(m, t1, f)
<1>1. Rest(t, f) => Rest(t1, f)
  BY DEF Rest
<1>2. Pending(t) => Pending(t1)
  BY DEF Pending
<1>3. CASE Following(m, t, f)
  <2>1. t1.wp_flag = {"FOLLOW_ME"}
    BY <1>3 DEF Following
  <2> QED BY <1>1, <1>3, <2>1 DEF Following, Doing
<1>4. CASE Uploading(m, t, f)
  <2>1. UploadFlags(t1.wp_flag)
    BY <1>4 DEF Uploading, UploadFlags
  <2> QED BY <1>2, <1>4, <2>1 DEF Uploading, Doing, UploadFlags
<1>5. CASE Saving(m, t, f)
  <2>1. t1.wp_flag = {"GETINFO", "RESET_POLLER", "SET_ACTIVE", "SAVE_ACTIVE"}
    BY <1>5 DEF Saving
  <2> QED BY <1>2, <1>5, <2>1 DEF Saving, Doing
<1>6. CASE Counting(m, t, f)
  <2>1. CASE t.wp_flag = {"DOWNLOAD"} /\ Pending(t)
    <3>1. t1.wp_flag = {"DOWNLOAD"}
      BY <2>1
    <3> QED BY <1>2, <1>6, <2>1, <3>1 DEF Counting, Doing
  <2>2. CASE ~(t.wp_flag = {"DOWNLOAD"} /\ Pending(t))
    <3>1. "DOWNLOAD" \notin t1.wp_flag /\ ("SAVE_FWA" \in t.wp_flag => "SAVE_FWA" \in t1.wp_flag)
      BY <1>6, <2>2 DEF Counting
    <3> QED BY <1>6, <2>2, <3>1 DEF Counting, Doing
  <2> QED BY <2>1, <2>2
<1>7. CASE Approaching(m, t, f)
  BY <1>7 DEF Approaching, Doing
<1>8. CASE Starting(m, t, f)
  <2>1. t1.wp_flag = {"KICK_DL"}
    BY <1>8 DEF Starting
  <2> QED BY <1>1, <1>2, <1>8, <2>1 DEF Starting, Doing
<1>9. CASE Fetching(m, t, f)
  BY <1>1, <1>2, <1>9 DEF Fetching, Doing
<1>10. CASE Reading(m, t, f)
  BY <1>1, <1>10 DEF Reading, Doing
<1>11. CASE Restoring(m, t, f)
  BY <1>2, <1>11 DEF Restoring, Doing
<1>12. CASE Ending(m, t, f)
  BY <1>1, <1>12 DEF Ending, Doing
<1> QED BY <1>3, <1>4, <1>5, <1>6, <1>7, <1>8, <1>9, <1>10, <1>11, <1>12 DEF Doing

----------------------------------------------------------------------------
(* The steps.                                                              *)

(* The stage of a state: nothing but the FC's kind is not an argument.     *)
LEMMA SameStage ==
  ASSUME fc' = fc, NEW p, NEW f, StopAndWait(p.e), Stage(Current(p.e), p.t, f),
         eng' = p.e, tr' = p.t, fcm' = f
  PROVE  StopAndWait(eng)' /\ Stage(Current(eng), tr, fcm)'
<1>1. StopAndWait(eng)'
  BY DEF StopAndWait, Good, PollListOK, PollsListed, OnlyOne, Polling
<1>2. Current(eng)' = Current(p.e)
  BY DEF Current, Polling
<1>3. Sound(tr, fcm)'
  <2>1. Sound(p.t, f)
    BY DEF Stage
  <2> QED BY <2>1 DEF Sound, Approaches, ToldTruth
<1>4. \A t, g : Rest(t, g)' <=> Rest(t, g)
  BY DEF Rest, Approaches
<1>5. \A m, t, g : Doing(m, t, g)' <=> Doing(m, t, g)
  BY <1>4 DEF Doing, Following, Uploading, Saving, Counting, Approaching, Starting,
             Fetching, Reading, Restoring, Ending, Approaches, Rest
<1> QED BY <1>2, <1>3, <1>4, <1>5 DEF Stage

(* The waypoint timer stays what it has been.                              *)
StillTimed ==
  Timed(Current(eng), tr) /\ tr'.told # "fallback" => Timed(Current(eng), tr)'

LEMMA TimedStep ==
  ASSUME NEW p, eng' = p.e, tr' = p.t, Timed(Current(eng), tr) => Fits(p)
  PROVE  StillTimed
<1>1. Current(eng)' = Current(p.e)
  BY DEF Current, Polling
<1>2. Timed(Current(p.e), p.t) => Timed(Current(eng), tr)'
  BY <1>1 DEF Timed, Starts, Waits, Reads, Lone, Off
<1> QED BY <1>2 DEF StillTimed, Fits

(* A handler ends well.                                                    *)
LEMMA Ends ==
  ASSUME fc' = fc, NEW p, NEW f, NEW o, Ok(p, f, o), Becomes(p), fcm' = f,
         Timed(Current(eng), tr) => Fits(p)
  PROVE  StopAndWait(eng)' /\ Stage(Current(eng), tr, fcm)' /\ StillTimed
  BY SameStage, TimedStep DEF Ok, Becomes

(* A message is answered.                                                  *)
LEMMA AnswerStep ==
  ASSUME IInv, Gentle, Answer
  PROVE  StopAndWait(eng)' /\ Stage(Current(eng), tr, fcm)' /\ StillTimed
<1> DEFINE m == Head(eng.wire)
           f == FcDoes(fcm, m)
           p == [Now EXCEPT !.e.wire = Tail(@)]
<1>1. PICK soon \in BOOLEAN : Becomes(handle_serial(p, m, f, soon))
  BY DEF Answer
<1>2. fcm' = f /\ fc' = fc /\ eng.wire # << >>
  BY DEF Answer
<1>3. /\ Ok(handle_serial(p, m, f, soon), f, FALSE)
      /\ Timed(Current(eng), tr) => Fits(handle_serial(p, m, f, soon))
  BY <1>2, SerialOk DEF IInv, Now
<1> HIDE DEF m, f, p
<1> QED BY <1>1, <1>2, <1>3, Ends

(* A message or its answer is lost.                                        *)
LEMMA LoseStep ==
  ASSUME IInv, Gentle, Lose
  PROVE  StopAndWait(eng)' /\ Stage(Current(eng), tr, fcm)' /\ StillTimed
<1> DEFINE m == eng.lastmsg
           e == [eng EXCEPT !.wire = Tail(@)]
           C == Current(eng)
           p == [e |-> e, t |-> tr]
<1>1. eng.wire # << >> /\ eng' = e /\ tr' = tr /\ fc' = fc
      /\ fcm' \in {fcm, FcDoes(fcm, Head(eng.wire))}
  BY DEF Lose
<1>2. At(eng, C) /\ fc \in FCKind /\ Stage(C, tr, fcm) /\ Sound(tr, fcm)
  BY DEF IInv, At, Stage
<1>3. At(e, C) /\ Head(eng.wire) = m /\ m \in Message /\ (Polling(m) \/ C = {m})
  BY <1>1, <1>2, Lost
<1>4. Stage(C, tr, fcm')
  <2>1. CASE fcm' = fcm
    BY <1>2, <2>1
  <2>2. CASE fcm' = FcDoes(fcm, m)
    <3>1. CASE Polling(m)
      BY <1>2, <1>3, <2>2, <3>1, FcPolled
    <3>2. CASE C = {m}
      <4>1. Doing(m, tr, fcm)
        BY <1>2, <3>2 DEF Stage
      <4>2. Sound(tr, FcDoes(fcm, m)) /\ Taken(m, tr, FcDoes(fcm, m))
        BY <1>2, <1>3, <4>1, FcDoesOk
      <4>3. Doing(m, tr, FcDoes(fcm, m))
        BY <4>2, TakenIsDoing
      <4> QED BY <2>2, <3>2, <4>2, <4>3 DEF Stage
    <3> QED BY <1>3, <3>1, <3>2
  <2> QED BY <1>1, <1>3, <2>1, <2>2
<1>5. p.e = e /\ p.t = tr
  OBVIOUS
<1> HIDE DEF p, e, C
<1>6. StopAndWait(p.e) /\ Current(p.e) = C
  BY <1>3, <1>5 DEF At
<1>7. Stage(Current(p.e), p.t, fcm')
  BY <1>4, <1>5, <1>6
<1>8. eng' = p.e /\ tr' = p.t
  BY <1>1, <1>5
<1>9. Timed(C, tr) => Fits(p)
  BY <1>5, <1>6 DEF Fits
<1>10. StillTimed
  BY <1>8, <1>9, TimedStep DEF C
<1> QED BY <1>1, <1>6, <1>7, <1>8, <1>10, SameStage

(* Only the engine changes.                                                *)
LEMMA EngineStep ==
  ASSUME IInv, Gentle, NEW e, At(e, Current(eng)), eng' = e, UNCHANGED <<tr, fc, fcm>>
  PROVE  StopAndWait(eng)' /\ Stage(Current(eng), tr, fcm)' /\ StillTimed
<1> DEFINE p == [e |-> e, t |-> tr]
<1>1. p.e = e /\ p.t = tr
  OBVIOUS
<1> HIDE DEF p
<1>2. StopAndWait(p.e) /\ Stage(Current(p.e), p.t, fcm)
  BY <1>1 DEF IInv, At
<1>3. Timed(Current(eng), tr) => Fits(p)
  BY <1>1 DEF Fits, At
<1> QED BY <1>1, <1>2, <1>3, SameStage, TimedStep

(* The deferred poll is sent.                                              *)
LEMMA NextPollStep ==
  ASSUME IInv, Gentle, NextPollFires
  PROVE  StopAndWait(eng)' /\ Stage(Current(eng), tr, fcm)' /\ StillTimed
<1> DEFINE n == eng.pend - 1
           e == [eng EXCEPT !.pend = n]
           C == Current(eng)
<1>1. At(eng, C) /\ Good(eng) /\ eng.avail
  BY AtFields DEF IInv, At
<1>2. eng.pend > 0 /\ eng' = next_poll(e) /\ UNCHANGED <<tr, fc, fcm>>
  BY DEF NextPollFires
<1>3. eng.pend = 1 /\ n = 0 /\ eng.lastmsg = NoMsg /\ eng.wire = << >>
  BY <1>1, <1>2 DEF At, StopAndWait
<1> HIDE DEF n
<1>4. Keeps(eng, e)
  BY <1>1, <1>3, ZenonT(60) DEF Good, Keeps, PollListOK, Engine
<1>5. e.mq = eng.mq /\ e.lastmsg = NoMsg /\ e.wire = << >> /\ e.pend = 0
      /\ e.requests = eng.requests
  BY <1>1, <1>3 DEF Good, Engine
<1> HIDE DEF e
<1>6. Current(e) = C /\ OnlyOne(e) /\ PollsListed(e)
  BY <1>1, <1>3, <1>5 DEF At, StopAndWait, Current, OnlyOne, PollsListed
<1>7. At(e, C) /\ Open(e)
  BY <1>1, <1>4, <1>5, <1>6 DEF At, StopAndWait, Open, Keeps
<1>8. At(next_poll(e), C)
  BY <1>7, PollSent
<1> QED BY <1>2, <1>8, EngineStep

(* Older ages.                                                             *)
LEMMA OlderAge ==
  ASSUME NEW a \in Ages
  PROVE  Older(a) \in Ages
  BY SmallNumbers DEF Ages, Older

(* Time passes; the link is supervised.                                    *)
LEMMA TickStep ==
  ASSUME IInv, Gentle, Tick
  PROVE  StopAndWait(eng)' /\ Stage(Current(eng), tr, fcm)' /\ StillTimed
<1> DEFINE C  == Current(eng)
           o1 == Older(eng.okage)
           o2 == Older(eng.rxage)
           e  == [eng EXCEPT !.okage = o1, !.rxage = o2, !.due = RateLimited]
           x  == IF TimedOut(e) THEN poll_timeout(e) ELSE e
           s  == [i \in DOMAIN tr.timers |-> tr.timers[i] - 1]
           t  == [tr EXCEPT !.timers = s]
           p  == [e |-> x, t |-> t]
<1>1. At(eng, C) /\ Good(eng) /\ eng.avail /\ Stage(C, tr, fcm)
  BY AtFields DEF IInv, At
<1>2. /\ eng.pend = 0 /\ eng.wire = << >> /\ eng' = x /\ tr' = t /\ UNCHANGED <<fc, fcm>>
      /\ \A i \in DOMAIN tr.timers : tr.timers[i] > 0
  BY DEF Tick, Gentle
<1>3. o1 \in Ages /\ o2 \in Ages
  BY <1>1, Fields, OlderAge
<1> HIDE DEF o1, o2
<1>4. Keeps(eng, e)
  BY <1>1, <1>3 DEF Good, Keeps, PollListOK, Engine
<1>5. e.mq = eng.mq /\ Still(eng, e) /\ e.requests = eng.requests
  BY <1>1 DEF Good, Engine, Still
<1> HIDE DEF e
<1>6. At(e, C)
  <2>1. PollsListed(e)
    BY <1>1, <1>5 DEF At, StopAndWait, PollsListed
  <2> QED BY <1>1, <1>4, <1>5, <2>1, Unmoved DEF Keeps
<1>7. At(x, C)
  <2>1. At(poll_timeout(e), C)
    BY <1>2, <1>5, <1>6, TimedOutBranch DEF Still
  <2> QED BY <1>6, <2>1
<1> HIDE DEF x
<1>8. tr \in Transfer /\ tr.timers \in Seq(Nat) /\ Sound(tr, fcm)
  <2>1. Sound(tr, fcm)
    BY <1>1 DEF Stage
  <2> QED BY <2>1, TransferFields
<1>9. s \in Seq(Nat) /\ (tr.timers # << >> => s # << >>) /\ Len(s) = Len(tr.timers)
  <2> DEFINE u == tr.timers
  <2>1. u \in Seq(Nat) /\ DOMAIN u = 1 .. Len(u) /\ Len(u) \in Nat
        /\ \A i \in 1 .. Len(u) : u[i] > 0 /\ u[i] \in Nat
    BY <1>2, <1>8
  <2>2. s = [i \in 1 .. Len(u) |-> u[i] - 1]
    BY <2>1
  <2> HIDE DEF u, s
  <2>3. \A i \in 1 .. Len(u) : u[i] - 1 \in Nat
    BY <2>1
  <2>4. s \in Seq(Nat) /\ Len(s) = Len(u)
    BY <2>1, <2>2, <2>3
  <2>5. u # << >> => s # << >>
    BY <2>1, <2>4
  <2> QED BY <2>4, <2>5 DEF u
<1> HIDE DEF s
<1>10. t \in Transfer
  BY <1>8, <1>9 DEF Transfer
<1>11. /\ t.timers = s /\ t.upltid = tr.upltid /\ t.told = tr.told /\ t.wps = tr.wps
       /\ t.npts = tr.npts /\ t.wpidx = tr.wpidx /\ t.sent = tr.sent
       /\ t.last_wp_pts = tr.last_wp_pts /\ t.safeindex = tr.safeindex
       /\ t.last_safehome = tr.last_safehome /\ t.mission = tr.mission
       /\ t.dirty = tr.dirty /\ t.wp_flag = tr.wp_flag
  BY <1>8 DEF Transfer
<1> HIDE DEF t
<1>12. Sound(t, fcm)
  <2>1. tr.upltid => tr.timers # << >>
    BY <1>8 DEF Sound
  <2> QED BY <1>8, <1>9, <1>10, <1>11, <2>1, SameStory
<1>13. Stage(C, t, fcm)
  <2>1. Rest(tr, fcm) => Rest(t, fcm)
    BY <1>11 DEF Rest
  <2>2. \A m : Doing(m, tr, fcm) => Doing(m, t, fcm)
    BY <1>11, WorkGoesOn
  <2> QED BY <1>1, <1>12, <2>1, <2>2 DEF Stage
<1>t. Timed(C, tr) => Timed(C, t)
  <2>1. tr.timers = << >> <=> s = << >>
    BY <1>8, <1>9
  <2>2. (Off(tr) <=> Off(t)) /\ (Lone(tr) <=> Lone(t))
    BY <1>9, <1>11, <2>1 DEF Off, Lone
  <2> HIDE DEF C
  <2> QED BY <1>11, <2>2 DEF Timed, Starts, Waits, Reads
<1>14. p.e = x /\ p.t = t
  OBVIOUS
<1> HIDE DEF p, C
<1>15. StopAndWait(p.e) /\ Stage(Current(p.e), p.t, fcm)
  BY <1>7, <1>13, <1>14 DEF At
<1>16. Timed(C, tr) => Fits(p)
  BY <1>7, <1>t, <1>14 DEF Fits, At
<1>17. StillTimed
  BY <1>2, <1>14, <1>16, TimedStep DEF C
<1> QED BY <1>2, <1>14, <1>15, <1>17, SameStage

(* One timer less.                                                         *)
LEMMA TimerGone ==
  ASSUME NEW u \in Seq(Nat), NEW i \in DOMAIN u
  PROVE  LET s == SubSeq(u, 1, i - 1) \o SubSeq(u, i + 1, Len(u))
         IN  s \in Seq(Nat) /\ (i < Len(u) => s # << >>) /\ (Len(u) = 1 => s = << >>)
<1> DEFINE n == Len(u)
           a == SubSeq(u, 1, i - 1)
           b == SubSeq(u, i + 1, n)
<1>1. n \in Nat /\ i \in 1 .. n /\ \A k \in 1 .. n : u[k] \in Nat
  OBVIOUS
<1>2. a \in Seq(Nat) /\ b \in Seq(Nat)
  <2>1. a \in Seq(Nat)
    <3>1. \A k \in 1 .. (i - 1) : u[k] \in Nat
      BY <1>1
    <3> QED BY <1>1, <3>1
  <2>2. b \in Seq(Nat)
    <3>1. \A k \in (i + 1) .. n : u[k] \in Nat
      BY <1>1
    <3> QED BY <1>1, <3>1
  <2> QED BY <2>1, <2>2
<1>3. Len(b) = IF i + 1 <= n THEN n - i ELSE 0
  BY <1>1, SMTT(30)
<1>7. Len(a) = IF 1 <= i - 1 THEN i - 1 ELSE 0
  BY <1>1
<1> HIDE DEF a, b, n
<1>4. a \o b \in Seq(Nat) /\ Len(a \o b) = Len(a) + Len(b) /\ Len(a) \in Nat
  BY <1>2
<1>5. i < n => Len(a \o b) > 0
  BY <1>1, <1>3, <1>4, SMTT(30)
<1>6. i < n => a \o b # << >>
  BY <1>4, <1>5
<1>8. n = 1 => Len(a \o b) = 0
  BY <1>1, <1>3, <1>4, <1>7
<1>9. n = 1 => a \o b = << >>
  BY <1>4, <1>8
<1> QED BY <1>4, <1>6, <1>9 DEF a, b, n

(* The waypoint timer fires.                                               *)
LEMMA WpTimerStep ==
  ASSUME IInv, Gentle, WpTimerFires
  PROVE  StopAndWait(eng)' /\ Stage(Current(eng), tr, fcm)' /\ StillTimed
<1>1. PICK i \in DOMAIN tr.timers :
        Becomes(wp_timeout(
          [Now EXCEPT !.t.timers = SubSeq(@, 1, i - 1) \o SubSeq(@, i + 1, Len(@)),
                      !.t.upltid = @ /\ i < Len(tr.timers)]))
  BY DEF WpTimerFires
<1>2. fc' = fc /\ fcm' = fcm
  BY DEF WpTimerFires
<1> DEFINE C  == Current(eng)
           s  == SubSeq(tr.timers, 1, i - 1) \o SubSeq(tr.timers, i + 1, Len(tr.timers))
           b  == tr.upltid /\ i < Len(tr.timers)
           t0 == [tr EXCEPT !.timers = s, !.upltid = b]
           p0 == [Now EXCEPT !.t = t0]
           p1 == IF Flagged(p0, "CALLBACK") THEN upload_callback(p0) ELSE p0
           e1 == reset_poller(eng, 0, FALSE)
           q  == [Tell(p1, "failed") EXCEPT !.e = reset_poller(@, 0, FALSE)]
<1>3. /\ At(eng, C) /\ eng \in Engine /\ Stage(C, tr, fcm) /\ Sound(tr, fcm)
      /\ tr \in Transfer /\ tr.timers \in Seq(Nat) /\ Now \in TransferPairs
      /\ Now.e = eng /\ Now.t = tr
  <2>1. At(eng, C) /\ Stage(C, tr, fcm) /\ Sound(tr, fcm)
    BY DEF IInv, At, Stage
  <2>2. eng \in Engine /\ tr \in Transfer /\ tr.timers \in Seq(Nat)
    BY <2>1, AtFields, TransferFields
  <2> QED BY <2>1, <2>2 DEF Now, Pair, TransferPairs
<1>4. Becomes(q)
  <2>1. [Now EXCEPT !.t.timers = SubSeq(@, 1, i - 1) \o SubSeq(@, i + 1, Len(@)),
                    !.t.upltid = @ /\ i < Len(tr.timers)] = p0
    BY <1>3 DEF TransferPairs, Transfer
  <2>2. wp_timeout(p0) = q
    <3> HIDE DEF p0
    <3> QED BY DEF wp_timeout
  <2> QED BY <1>1, <2>1, <2>2
<1>5. s \in Seq(Nat) /\ b \in BOOLEAN /\ (b => s # << >>)
  <2>1. s \in Seq(Nat) /\ (i < Len(tr.timers) => s # << >>)
    BY <1>3, TimerGone
  <2>2. tr.upltid \in BOOLEAN
    BY <1>3, TransferFields
  <2> HIDE DEF s
  <2> QED BY <2>1, <2>2
<1>o. Len(tr.timers) = 1 => s = << >>
  BY <1>3, TimerGone
<1>n. tr.timers # << >>
  BY <1>3
<1> HIDE DEF s, b
<1>6. t0 \in Transfer
  BY <1>3, <1>5 DEF Transfer
<1>7. /\ t0.timers = s /\ t0.upltid = b /\ t0.told = tr.told /\ t0.wps = tr.wps
      /\ t0.npts = tr.npts /\ t0.wpidx = tr.wpidx /\ t0.sent = tr.sent
      /\ t0.last_wp_pts = tr.last_wp_pts /\ t0.safeindex = tr.safeindex
      /\ t0.last_safehome = tr.last_safehome /\ t0.mission = tr.mission
      /\ t0.dirty = tr.dirty /\ t0.wp_flag = tr.wp_flag
  BY <1>3 DEF Transfer
<1> HIDE DEF t0
<1>8. p0 \in TransferPairs /\ p0.e = eng /\ p0.t = t0
  BY <1>3, <1>6 DEF TransferPairs
<1> HIDE DEF p0
<1> DEFINE t1 == [t0 EXCEPT !.wp_flag = t0.wp_flag \ {"CALLBACK"}, !.call = "returned"]
           t2 == IF Flagged(p0, "CALLBACK") THEN t1 ELSE t0
           t3 == [t2 EXCEPT !.told = "failed"]
<1>9. t1 \in Transfer
  <2> DEFINE fl == t0.wp_flag \ {"CALLBACK"}
  <2>1. fl \in SUBSET WPDL
    BY <1>6 DEF Transfer
  <2> HIDE DEF fl
  <2>2. [t0 EXCEPT !.wp_flag = fl, !.call = "returned"] \in Transfer
    BY <1>6, <2>1 DEF Transfer
  <2> QED BY <2>2 DEF fl
<1>10. /\ t1.timers = s /\ t1.upltid = b /\ t1.told = tr.told /\ t1.wps = tr.wps
       /\ t1.npts = tr.npts /\ t1.wpidx = tr.wpidx /\ t1.sent = tr.sent
       /\ t1.last_wp_pts = tr.last_wp_pts /\ t1.safeindex = tr.safeindex
       /\ t1.last_safehome = tr.last_safehome /\ t1.mission = tr.mission
       /\ t1.dirty = tr.dirty
  BY <1>6, <1>7 DEF Transfer
<1>f. t1.wp_flag = tr.wp_flag \ {"CALLBACK"}
  BY <1>6, <1>7 DEF Transfer
<1>11. p1 = [p0 EXCEPT !.t = t2]
  <2>1. upload_callback(p0) = [p0 EXCEPT !.t = t1]
    BY <1>6, <1>8 DEF upload_callback, Clear, TransferPairs, Transfer
  <2>2. p0 = [p0 EXCEPT !.t = t0]
    BY <1>8 DEF TransferPairs
  <2> HIDE DEF t1
  <2> QED BY <2>1, <2>2
<1> HIDE DEF t1, p1
<1>12. /\ t2 \in Transfer /\ t2.timers = s /\ t2.upltid = b /\ t2.told = tr.told /\ t2.wps = tr.wps
       /\ t2.npts = tr.npts /\ t2.wpidx = tr.wpidx /\ t2.sent = tr.sent
       /\ t2.last_wp_pts = tr.last_wp_pts /\ t2.safeindex = tr.safeindex
       /\ t2.last_safehome = tr.last_safehome /\ t2.mission = tr.mission
       /\ t2.dirty = tr.dirty
  BY <1>6, <1>7, <1>9, <1>10
<1>g. t2.wp_flag \in {tr.wp_flag, tr.wp_flag \ {"CALLBACK"}}
  BY <1>7, <1>f
<1> HIDE DEF t2
<1>13. t3 \in Transfer
  BY <1>12 DEF Transfer, Told
<1>14. /\ t3.timers = s /\ t3.upltid = b /\ t3.told = "failed" /\ t3.wps = tr.wps
       /\ t3.npts = tr.npts /\ t3.wpidx = tr.wpidx /\ t3.sent = tr.sent
       /\ t3.last_wp_pts = tr.last_wp_pts /\ t3.safeindex = tr.safeindex
       /\ t3.last_safehome = tr.last_safehome /\ t3.mission = tr.mission
       /\ t3.dirty = tr.dirty
  BY <1>12 DEF Transfer
<1>h. t3.wp_flag \in {tr.wp_flag, tr.wp_flag \ {"CALLBACK"}}
  <2>1. t3.wp_flag = t2.wp_flag
    BY <1>12 DEF Transfer
  <2> QED BY <1>g, <2>1
<1>15. At(e1, C) /\ Still(eng, e1) /\ e1 \in Engine
  BY <1>3, Reset, AtFields
<1>16. q.e = e1 /\ q.t = t3
  <2>1. p1 \in TransferPairs /\ p1.e = eng /\ p1.t = t2
    BY <1>8, <1>11, <1>12 DEF TransferPairs
  <2>2. Tell(p1, "failed") = [p1 EXCEPT !.t = t3]
    BY <2>1 DEF Tell, TransferPairs
  <2> HIDE DEF t3
  <2>3. Tell(p1, "failed").e = eng /\ Tell(p1, "failed").t = t3
        /\ DOMAIN Tell(p1, "failed") = {"e", "t"}
    BY <2>1, <2>2 DEF TransferPairs
  <2> QED BY <2>3
<1> HIDE DEF q, e1, t3
<1>17. Stage(C, t3, fcm)
  <2>1. Sound(t3, fcm)
    BY <1>3, <1>5, <1>13, <1>14, SameStory
  <2>2. Rest(tr, fcm) => Rest(t3, fcm)
    BY <1>14 DEF Rest
  <2>3. \A m : Doing(m, tr, fcm) => Doing(m, t3, fcm)
    BY <1>14, <1>h, WorkGoesOn
  <2> QED BY <1>3, <2>1, <2>2, <2>3 DEF Stage
<1>t. ASSUME Timed(C, tr) PROVE Timed(C, t3)
  <2>1. ~Off(tr) /\ Lone(tr)
    BY <1>n, <1>t DEF Timed, Off, Waits, Reads
  <2>2. Off(t3)
    BY <1>14, <1>o, <2>1 DEF Lone, Off
  <2>3. \A m \in C : ~Starts(m, tr)
    BY <1>t, <2>1 DEF Timed
  <2>4. \A m : Starts(m, t3) => Starts(m, tr)
    BY <1>h DEF Starts
  <2> HIDE DEF C
  <2> QED BY <2>2, <2>3, <2>4 DEF Timed, Waits
<1>18. StopAndWait(q.e) /\ Stage(Current(q.e), q.t, fcm)
  BY <1>15, <1>16, <1>17 DEF At
<1>19. eng' = q.e /\ tr' = q.t
  BY <1>4 DEF Becomes
<1>20. Timed(C, tr) => Fits(q)
  BY <1>15, <1>16, <1>t DEF Fits, At
<1> QED BY <1>2, <1>18, <1>19, <1>20, SameStage, TimedStep

(* The user begins something when nothing else is under way.               *)
LEMMA UserIsFree ==
  ASSUME IInv, Gentle, NEW op, Uses(op)
  PROVE  /\ Free(Now, fcm, FALSE) /\ Rest(tr, fcm) /\ Now.t = tr /\ Now.e = eng
         /\ Now \in TransferPairs /\ tr \in Transfer
         /\ fc \in FCKind /\ fc' = fc /\ fcm' = fcm
         /\ Timed(Current(eng), tr) => Off(tr)
<1>1. ~Busy /\ fc' = fc /\ fcm' = fcm
  BY DEF Uses, Gentle
<1>2. StopAndWait(eng) /\ Stage(Current(eng), tr, fcm) /\ fc \in FCKind
  BY DEF IInv
<1>3. Current(eng) = {}
  BY <1>1, Polls DEF Busy, Current
<1>4. At(eng, {}) /\ Sound(tr, fcm) /\ Rest(tr, fcm)
  BY <1>2, <1>3 DEF At, Stage
<1>5. eng \in Engine /\ tr \in Transfer
  BY <1>4, AtFields DEF Sound
<1>6. Now \in TransferPairs /\ Now.e = eng /\ Now.t = tr
  BY <1>5 DEF Now, Pair, TransferPairs
<1>7. Timed(Current(eng), tr) => Off(tr)
  <2>1. tr.told # "asked"
    BY <1>1 DEF Busy
  <2> QED BY <1>3, <2>1 DEF Timed, Waits
<1> QED BY <1>1, <1>2, <1>4, <1>5, <1>6, <1>7 DEF Free

(* The uploads.                                                            *)
LEMMA UploadSteps ==
  ASSUME IInv, Gentle, UserUpload \/ UserUploadAll \/ UserStore
  PROVE  StopAndWait(eng)' /\ Stage(Current(eng), tr, fcm)' /\ StillTimed
<1> DEFINE Flags == {{"GETINFO", "SAVE_FWA"}, {"GETINFO", "SAVE_FWA", "SET_ACTIVE"},
                    {"SAVE_EEPROM", "SET_ACTIVE"}}
<1>1. \A flag \in Flags : flag \in SUBSET WPDL /\ UploadFlags(flag)
  BY DEF WPDL, UploadFlags
<1>2. ASSUME NEW op, NEW flag \in Flags, Uses(op), Becomes(upload_mm(Now, flag))
      PROVE  StopAndWait(eng)' /\ Stage(Current(eng), tr, fcm)' /\ StillTimed
  <2>1. flag \in SUBSET WPDL /\ UploadFlags(flag)
    BY <1>1, <1>2
  <2>2. Free(Now, fcm, FALSE) /\ Rest(Now.t, fcm) /\ fc \in FCKind /\ fc' = fc /\ fcm' = fcm
      /\ (Timed(Current(eng), tr) => Off(Now.t))
    BY <1>2, UserIsFree
  <2>3. Ok(upload_mm(Now, flag), fcm, FALSE) /\ (Off(Now.t) => Fits(upload_mm(Now, flag)))
    BY <2>1, <2>2, UploadMm
  <2> QED BY <1>2, <2>2, <2>3, Ends
<1>3. /\ {"GETINFO", "SAVE_FWA"} \in Flags /\ {"GETINFO", "SAVE_FWA", "SET_ACTIVE"} \in Flags
      /\ {"SAVE_EEPROM", "SET_ACTIVE"} \in Flags
  OBVIOUS
<1> HIDE DEF Flags
<1>4. CASE UserUpload
  BY <1>2, <1>3, <1>4 DEF UserUpload
<1>5. CASE UserUploadAll
  BY <1>2, <1>3, <1>5 DEF UserUploadAll
<1>6. CASE UserStore
  BY <1>2, <1>3, <1>6 DEF UserStore
<1> QED BY <1>4, <1>5, <1>6

(* The upload by D-Bus.                                                    *)
LEMMA DbusStep ==
  ASSUME IInv, Gentle, DbusUpload
  PROVE  StopAndWait(eng)' /\ Stage(Current(eng), tr, fcm)' /\ StillTimed
<1> DEFINE t1 == [tr EXCEPT !.call = "waiting"]
           p  == [Now EXCEPT !.t = t1]
<1>1. PICK rom \in SUBSET {"SAVE_EEPROM"} :
        Becomes(upload_mm([Now EXCEPT !.t.call = "waiting"],
                          {"CALLBACK", "GETINFO", "SAVE_FWA"} \cup rom))
  BY DEF DbusUpload
<1> DEFINE flag == {"CALLBACK", "GETINFO", "SAVE_FWA"} \cup rom
<1>2. flag \in SUBSET WPDL /\ UploadFlags(flag)
  BY DEF WPDL, UploadFlags
<1>3. /\ Free(Now, fcm, FALSE) /\ Rest(tr, fcm) /\ fc \in FCKind /\ fc' = fc /\ fcm' = fcm
      /\ Now.t = tr /\ Now \in TransferPairs /\ tr \in Transfer
      /\ Timed(Current(eng), tr) => Off(tr)
  <2>1. Uses("dbus")
    BY DEF DbusUpload
  <2> QED BY <2>1, UserIsFree
<1>4. [Now EXCEPT !.t.call = "waiting"] = p
  BY <1>3 DEF TransferPairs
<1>5. t1 \in Transfer
  BY <1>3 DEF Transfer
<1>6. /\ t1.timers = tr.timers /\ t1.upltid = tr.upltid /\ t1.told = tr.told
      /\ t1.sent = tr.sent /\ t1.mission = tr.mission /\ t1.dirty = tr.dirty
      /\ t1.last_wp_pts = tr.last_wp_pts
  BY <1>3 DEF Transfer
<1> HIDE DEF t1
<1>7. Free(p, fcm, FALSE) /\ p.t = t1
  BY <1>3, <1>5, <1>6, NewBooks
<1>8. Rest(p.t, fcm)
  BY <1>3, <1>6, <1>7 DEF Rest
<1>o. Off(tr) => Off(p.t)
  BY <1>6, <1>7 DEF Off
<1> HIDE DEF p, flag
<1>9. Ok(upload_mm(p, flag), fcm, FALSE) /\ (Off(p.t) => Fits(upload_mm(p, flag)))
  BY <1>2, <1>3, <1>7, <1>8, UploadMm
<1>10. Becomes(upload_mm(p, flag))
  BY <1>1, <1>4 DEF flag
<1> QED BY <1>3, <1>o, <1>9, <1>10, Ends

(* A download begins.                                                      *)
LEMMA DownloadStep ==
  ASSUME IInv, Gentle, UserDownload
  PROVE  StopAndWait(eng)' /\ Stage(Current(eng), tr, fcm)' /\ StillTimed
<1> DEFINE t1 == [tr EXCEPT !.told = "asked", !.agreed = TRUE]
           p  == [Now EXCEPT !.t = t1]
<1>1. Becomes(do_download_mission([Now EXCEPT !.t.told = "asked", !.t.agreed = TRUE]))
  BY DEF UserDownload
<1>3. /\ Free(Now, fcm, FALSE) /\ Rest(tr, fcm) /\ fc \in FCKind /\ fc' = fc /\ fcm' = fcm
      /\ Now.t = tr /\ Now \in TransferPairs /\ tr \in Transfer
      /\ Timed(Current(eng), tr) => Off(tr)
  <2>1. Uses("download")
    BY DEF UserDownload
  <2> QED BY <2>1, UserIsFree
<1>4. [Now EXCEPT !.t.told = "asked", !.t.agreed = TRUE] = p
  BY <1>3 DEF TransferPairs
<1>5. t1 \in Transfer
  BY <1>3 DEF Transfer, Told
<1>6. /\ t1.timers = tr.timers /\ t1.upltid = tr.upltid /\ t1.told = "asked"
      /\ t1.sent = tr.sent /\ t1.mission = tr.mission /\ t1.dirty = tr.dirty
      /\ t1.last_wp_pts = tr.last_wp_pts
  BY <1>3 DEF Transfer
<1> HIDE DEF t1
<1>7. Sound(t1, fcm)
  <2>1. Sound(tr, fcm) /\ (tr.upltid => tr.timers # << >>)
    BY <1>3 DEF Free, Sound
  <2> QED BY <1>5, <1>6, <2>1, SameStory
<1>8. Free(p, fcm, FALSE) /\ p.t = t1
  BY <1>3, <1>7, NewTransfer
<1>9. Rest(p.t, fcm) /\ Pending(p.t)
  BY <1>3, <1>6, <1>8 DEF Rest, Pending
<1>o. (Off(tr) => Off(p.t)) /\ p.t.told = "asked"
  BY <1>6, <1>8 DEF Off
<1> HIDE DEF p
<1>10. /\ Ok(do_download_mission(p), fcm, FALSE)
       /\ Off(p.t) /\ p.t.told = "asked" => Fits(do_download_mission(p))
  BY <1>3, <1>8, <1>9, DoDownloadOk
<1>11. Becomes(do_download_mission(p))
  BY <1>1, <1>4
<1> QED BY <1>3, <1>o, <1>10, <1>11, Ends

(* The FC is told to restore its mission.                                  *)
LEMMA RestoreStep ==
  ASSUME IInv, Gentle, UserRestore
  PROVE  StopAndWait(eng)' /\ Stage(Current(eng), tr, fcm)' /\ StillTimed
<1> DEFINE p == Tell(Now, "asked")
<1>1. Becomes(Ask(p, "WP_MISSION_LOAD", 0))
  BY DEF UserRestore
<1>2. /\ Free(Now, fcm, FALSE) /\ Rest(tr, fcm) /\ fc' = fc /\ fcm' = fcm /\ Now.t = tr
      /\ tr \in Transfer /\ (Timed(Current(eng), tr) => Off(tr))
  <2>1. Uses("restore")
    BY DEF UserRestore
  <2> QED BY <2>1, UserIsFree
<1>3. Free(p, fcm, FALSE) /\ p.t = [tr EXCEPT !.told = "asked"]
  BY <1>2, Telling
<1>4. p.t.told = "asked" /\ p.t.timers = tr.timers
  BY <1>2, <1>3 DEF Transfer
<1> HIDE DEF p
<1>5. Restoring(Msg("WP_MISSION_LOAD", 0), p.t, fcm)
  BY <1>2, <1>4 DEF Restoring, Msg, Pending, Rest
<1>6. "WP_MISSION_LOAD" \in Cmds \ PollCmds
  BY DEF Cmds, BulkCmds, PollCmds, StatusCmds
<1>7. Ok(Ask(p, "WP_MISSION_LOAD", 0), fcm, FALSE)
  BY <1>3, <1>5, <1>6, AskOk DEF Doing
<1>8. Off(tr) => Fits(Ask(p, "WP_MISSION_LOAD", 0))
  BY <1>3, <1>4, <1>6, FitsAsk DEF MayAsk, Off
<1> QED BY <1>1, <1>2, <1>7, <1>8, Ends

(* The user edits the mission.                                             *)
LEMMA EditStep ==
  ASSUME IInv, Gentle, UserEdit
  PROVE  StopAndWait(eng)' /\ Stage(Current(eng), tr, fcm)' /\ StillTimed
<1> DEFINE ms == Mission(4)
           t1 == [tr EXCEPT !.mission = ms, !.dirty = TRUE, !.agreed = FALSE]
           p  == [Now EXCEPT !.t = t1]
<1>1. Becomes([Now EXCEPT !.t.mission = Mission(4), !.t.dirty = TRUE, !.t.agreed = FALSE])
  BY DEF UserEdit
<1>2. /\ Free(Now, fcm, FALSE) /\ Rest(tr, fcm) /\ fc' = fc /\ fcm' = fcm /\ Now.t = tr
      /\ Now \in TransferPairs /\ tr \in Transfer
      /\ Timed(Current(eng), tr) => Off(tr)
  <2>1. Uses("edit")
    BY DEF UserEdit
  <2> QED BY <2>1, UserIsFree
<1>3. ms \in Seq(Nat) /\ Len(ms) <= WpLast
  <2>1. 4 \in 0 .. 5 /\ WpLast \in Nat
    BY TransferAssumption DEF TransferAssumption
  <2>2. Mission(4) \in Seq(Nat) /\ Len(Mission(4)) = Length(4) /\ Length(4) \in 0 .. WpLast
    BY <2>1, Missions
  <2> QED BY <2>1, <2>2
<1>4. [Now EXCEPT !.t.mission = Mission(4), !.t.dirty = TRUE, !.t.agreed = FALSE] = p
  BY <1>2 DEF TransferPairs
<1> HIDE DEF ms
<1>5. t1 \in Transfer
  BY <1>2, <1>3, ZenonT(60) DEF Transfer
<1>6. /\ t1.timers = tr.timers /\ t1.upltid = tr.upltid /\ t1.told = tr.told
      /\ t1.sent = tr.sent /\ t1.mission = ms /\ t1.dirty = TRUE
      /\ t1.last_wp_pts = tr.last_wp_pts
  BY <1>2 DEF Transfer
<1> HIDE DEF t1
<1>7. Sound(t1, fcm)
  BY <1>2, <1>3, <1>5, <1>6 DEF Free, Sound, ToldTruth
<1>8. Free(p, fcm, FALSE) /\ p.t = t1
  BY <1>2, <1>7, NewTransfer
<1>9. Rest(p.t, fcm)
  BY <1>2, <1>6, <1>8 DEF Rest
<1>o. Off(tr) => Fits(p)
  BY <1>6, <1>8, FitsFree DEF Waits, Off
<1> HIDE DEF p
<1>10. Ok(p, fcm, FALSE)
  BY <1>8, <1>9, RestOk
<1>11. Becomes(p)
  BY <1>1, <1>4
<1> QED BY <1>2, <1>o, <1>10, <1>11, Ends

(* Follow me.                                                              *)
LEMMA FollowStep ==
  ASSUME IInv, Gentle, FollowMe
  PROVE  StopAndWait(eng)' /\ Stage(Current(eng), tr, fcm)' /\ StillTimed
<1> DEFINE ws == <<FollowMePoint>>
           fl == {"FOLLOW_ME"}
           t1 == [tr EXCEPT !.npts = 1, !.wpidx = 0, !.wps = ws, !.wp_flag = fl,
                            !.told = "nothing"]
           p  == [Now EXCEPT !.t = t1]
<1>1. Becomes(Ask([Now EXCEPT !.t.npts = 1, !.t.wpidx = 0, !.t.wps = <<FollowMePoint>>,
                              !.t.wp_flag = {"FOLLOW_ME"}, !.t.told = "nothing"],
                  "SET_WP", FollowMePoint))
  BY DEF FollowMe
<1>2. /\ Free(Now, fcm, FALSE) /\ Rest(tr, fcm) /\ fc' = fc /\ fcm' = fcm /\ Now.t = tr
      /\ Now \in TransferPairs /\ tr \in Transfer
      /\ Timed(Current(eng), tr) => Off(tr)
  <2>1. Uses("followme")
    BY DEF FollowMe
  <2> QED BY <2>1, UserIsFree
<1>3. FollowMePoint \in Nat
  <2> DEFINE n == WpLast + 2
  <2>1. WpLast \in Nat /\ n \in 0 .. (WpLast + 2) /\ 1 \in {0, 1}
    BY TransferAssumption DEF TransferAssumption
  <2>2. Item(6, 0) \in Nat
    BY <2>1 DEF Item, Width
  <2>3. FollowMePoint = MSP_WP(n, Item(6, 0), 1)
    BY DEF FollowMePoint
  <2> HIDE DEF n
  <2> QED BY <2>1, <2>2, <2>3, Waypoint
<1>4. ws \in Seq(Nat) /\ fl \in SUBSET WPDL
  <2>1. ws \in Seq(Nat)
    BY <1>3
  <2> QED BY <2>1 DEF WPDL
<1>5. [Now EXCEPT !.t.npts = 1, !.t.wpidx = 0, !.t.wps = <<FollowMePoint>>,
                  !.t.wp_flag = {"FOLLOW_ME"}, !.t.told = "nothing"] = p
  BY <1>2 DEF TransferPairs
<1>d. ws = <<FollowMePoint>> /\ fl = {"FOLLOW_ME"}
  OBVIOUS
<1> HIDE DEF ws, fl
<1>6. t1 \in Transfer
  BY <1>2, <1>4 DEF Transfer, Told
<1>7. /\ t1.timers = tr.timers /\ t1.upltid = tr.upltid /\ t1.told = "nothing"
      /\ t1.sent = tr.sent /\ t1.mission = tr.mission /\ t1.dirty = tr.dirty
      /\ t1.last_wp_pts = tr.last_wp_pts /\ t1.npts = 1 /\ t1.wpidx = 0 /\ t1.wps = ws
      /\ t1.wp_flag = fl
  BY <1>2 DEF Transfer
<1> HIDE DEF t1
<1>8. Sound(t1, fcm)
  <2>1. Sound(tr, fcm) /\ (tr.upltid => tr.timers # << >>)
    BY <1>2 DEF Free, Sound
  <2> QED BY <1>6, <1>7, <2>1, SameStory
<1>9. Free(p, fcm, FALSE) /\ p.t = t1
  BY <1>2, <1>8, NewTransfer
<1> HIDE DEF p
<1>10. Rest(p.t, fcm)
  BY <1>2, <1>7, <1>9 DEF Rest
<1>11. Following(Msg("SET_WP", FollowMePoint), p.t, fcm)
  BY <1>7, <1>9, <1>10, <1>d DEF Following
<1>12. "SET_WP" \in Cmds \ PollCmds
  BY DEF Cmds, BulkCmds, PollCmds, StatusCmds
<1>13. Ok(Ask(p, "SET_WP", FollowMePoint), fcm, FALSE)
  BY <1>3, <1>9, <1>11, <1>12, AskOk DEF Doing
<1>14. Becomes(Ask(p, "SET_WP", FollowMePoint))
  BY <1>1, <1>5
<1>15. Off(tr) => Fits(Ask(p, "SET_WP", FollowMePoint))
  <2>1. Off(tr) => Waits(p.t)
    BY <1>7, <1>9 DEF Waits, Off
  <2> QED BY <1>3, <1>9, <1>12, <2>1, FitsAsk DEF MayAsk
<1> QED BY <1>2, <1>13, <1>14, <1>15, Ends

----------------------------------------------------------------------------
(* The theorems.                                                           *)

(* The poller has just been started, and nothing has been transferred.     *)
LEMMA InitEng ==
  ASSUME Init
  PROVE  At(eng, {})
<1> DEFINE none == << >>
           b  == env.nopause
           e0 == [IdleEngine EXCEPT !.avail = TRUE, !.serstate = "POLLER",
                                    !.requests = PollList, !.nopause = b]
<1>1. eng = next_poll(e0)
  BY DEF Init
<1>2. b \in BOOLEAN
  BY TransferAssumption DEF TransferAssumption, Init, Env
<1>3. none \in Seq(Message) /\ DOMAIN none = {} /\ none = << >>
  OBVIOUS
<1>4. PollList \in Seq(PollCmds \cup {"NOOP"})
      /\ \E i \in DOMAIN PollList : PollList[i] \in StatusCmds
  <2>1. PollList \in Seq(PollCmds)
    BY TransferAssumption DEF TransferAssumption
  <2> QED BY <2>1, TransferAssumption DEF TransferAssumption
<1> HIDE DEF b
<1>5. IdleEngine \in Engine
  <2>1. /\ "NONE" \in SERSTATE /\ << >> \in Seq(Message)
        /\ << >> \in Seq(PollCmds \cup {"NOOP"})
    BY DEF SERSTATE
  <2> QED BY <2>1, SmallNumbers DEF IdleEngine, Engine
<1>6. e0 \in Engine
  BY <1>2, <1>4, <1>5 DEF Engine, SERSTATE
<1>7. /\ e0.mq = none /\ e0.lastmsg = NoMsg /\ e0.wire = << >> /\ e0.pend = 0
      /\ e0.requests = PollList /\ e0.avail
  <2>1. IdleEngine.mq = none /\ IdleEngine.lastmsg = NoMsg /\ IdleEngine.wire = << >>
        /\ IdleEngine.pend = 0
    BY DEF IdleEngine
  <2> QED BY <1>5, <2>1 DEF Engine
<1> HIDE DEF e0, none
<1>8. Good(e0)
  BY <1>4, <1>6, <1>7 DEF Good, PollListOK
<1>9. Current(e0) = {} /\ OnlyOne(e0) /\ PollsListed(e0)
  BY <1>3, <1>7, Polls DEF Current, OnlyOne, PollsListed
<1>10. At(e0, {}) /\ Open(e0)
  BY <1>7, <1>8, <1>9 DEF At, StopAndWait, Open
<1> QED BY <1>1, <1>10, PollSent

(* So it is with the missions.                                             *)
LEMMA InitBooks ==
  ASSUME Init
  PROVE  fc \in FCKind /\ env \in Env /\ Sound(tr, fcm) /\ Rest(tr, fcm)
<1>1. PICK w \in Worlds :
        fc = w.fc /\ env = w.env /\ tr = [InitTransfer EXCEPT !.mission = Mission(w.mine)]
  BY DEF Init
<1>2. fc \in FCKind /\ env \in Env /\ w.mine \in 0 .. 1
  BY <1>1, TransferAssumption DEF TransferAssumption
<1> DEFINE ms  == Mission(w.mine)
           non == << >>
           ram == missonx_to_wps(Mission(2))
           rom == missonx_to_wps(Mission(3))
<1>3. ms \in Seq(Nat) /\ Len(ms) \in 0 .. WpLast
  <2>1. w.mine \in 0 .. 5
    BY <1>2
  <2> QED BY <2>1, Missions
<1>4. WpLast \in Nat
  BY TransferAssumption DEF TransferAssumption
<1>5. non \in Seq(Nat) /\ Whole(non) /\ non = << >>
  <2>1. << >> \in Seq(Nat) /\ Len(<< >>) <= WpLast
    BY <1>4
  <2>2. LET ws == missonx_to_wps(<< >>) IN ws \in Seq(Nat) /\ Len(ws) = Len(<< >>) /\ Whole(ws)
    BY <2>1, Waypoints
  <2>3. missonx_to_wps(<< >>) = << >>
    BY <2>2
  <2> QED BY <2>1, <2>2, <2>3
<1>6. ram \in Seq(Nat) /\ Len(ram) = LenRam /\ Whole(ram)
  <2>1. Mission(2) \in Seq(Nat) /\ Len(Mission(2)) = LenRam /\ Len(Mission(2)) <= WpLast
    <3>1. Mission(2) \in Seq(Nat) /\ Len(Mission(2)) = Length(2) /\ Length(2) \in 0 .. WpLast
      BY Missions
    <3>2. Length(2) = LenRam
      BY DEF Length
    <3> QED BY <1>4, <3>1, <3>2
  <2> QED BY <2>1, Waypoints
<1>7. rom \in Seq(Nat) /\ Whole(rom)
  <2>1. Mission(3) \in Seq(Nat) /\ Len(Mission(3)) <= WpLast
    <3>1. Mission(3) \in Seq(Nat) /\ Len(Mission(3)) = Length(3) /\ Length(3) \in 0 .. WpLast
      BY Missions
    <3> QED BY <1>4, <3>1
  <2> QED BY <2>1, Waypoints
<1>8. LenRam \in Nat
  BY TransferAssumption DEF TransferAssumption
<1>9. /\ tr = [mission |-> ms, dirty |-> FALSE, agreed |-> FALSE, wps |-> non,
               wp_flag |-> {}, npts |-> 0, wpidx |-> 0, last_wp_pts |-> LenRam,
               timers |-> non, upltid |-> FALSE, safeindex |-> 0, last_safehome |-> 0,
               call |-> "none", sent |-> non, told |-> "nothing"]
      /\ fcm = [ram |-> ram, rom |-> rom, fwa |-> {}, index |-> 0]
  BY <1>1 DEF InitTransfer, Init
<1> HIDE DEF ms, non, ram, rom
<1>10. tr \in Transfer /\ fcm \in FcState
  BY <1>3, <1>5, <1>6, <1>7, <1>8, <1>9 DEF Transfer, FcState, Told
<1>11. /\ tr.upltid = FALSE /\ tr.sent = non /\ tr.told = "nothing" /\ tr.mission = ms
       /\ tr.last_wp_pts = LenRam /\ fcm.ram = ram /\ fcm.rom = rom /\ fcm.fwa = {}
  BY <1>9
<1>12. Sound(tr, fcm)
  BY <1>3, <1>4, <1>5, <1>7, <1>10, <1>11 DEF Sound, ToldTruth
<1>13. Rest(tr, fcm)
  BY <1>6, <1>11 DEF Rest
<1> QED BY <1>2, <1>12, <1>13

(* The invariant holds at first.                                           *)
LEMMA TransferInit == Init => IInv
<1> SUFFICES ASSUME Init PROVE IInv
  OBVIOUS
<1>1. At(eng, {}) /\ fc \in FCKind /\ env \in Env /\ Sound(tr, fcm) /\ Rest(tr, fcm)
  BY InitEng, InitBooks
<1> QED BY <1>1 DEF IInv, At, Stage

(* No step changes the FC's kind or makes the world gentle that was not.   *)
LEMMA WorldStep ==
  ASSUME IInv, [Next]_vars
  PROVE  fc' = fc /\ env' \in Env /\ (Gentle' => Gentle)
<1>1. env \in Env /\ env.losses \in Nat /\ env.user \in Nat
  BY DEF IInv, Env
<1>2. CASE Answer
  BY <1>1, <1>2 DEF Answer, Gentle
<1>3. CASE Lose
  BY <1>1, <1>3 DEF Lose, Gentle, Env
<1>4. CASE NextPollFires
  BY <1>1, <1>4 DEF NextPollFires, Gentle
<1>5. CASE Tick
  BY <1>1, <1>5 DEF Tick, Gentle
<1>6. CASE WpTimerFires
  BY <1>1, <1>6 DEF WpTimerFires, Gentle
<1>7. CASE \E op : Uses(op)
  <2>1. env' = [env EXCEPT !.user = env.user - 1] /\ fc' = fc /\ env.user > 0
    BY <1>7 DEF Uses
  <2> QED BY <1>1, <2>1 DEF Gentle, Env
<1>8. CASE UNCHANGED vars
  BY <1>1, <1>8 DEF vars, Gentle
<1>9. ASSUME \/ UserUpload \/ UserUploadAll \/ UserStore \/ DbusUpload
             \/ UserDownload \/ UserRestore \/ UserEdit \/ FollowMe
      PROVE  \E op : Uses(op)
  BY <1>9 DEF UserUpload, UserUploadAll, UserStore, DbusUpload, UserDownload, UserRestore,
              UserEdit, FollowMe
<1> QED BY <1>2, <1>3, <1>4, <1>5, <1>6, <1>7, <1>8, <1>9 DEF Next

(* Every step of a gentle world.                                           *)
LEMMA GentleStep ==
  ASSUME IInv, Gentle, [Next]_vars
  PROVE  StopAndWait(eng)' /\ Stage(Current(eng), tr, fcm)' /\ StillTimed
<1>1. CASE Answer
  BY <1>1, AnswerStep
<1>2. CASE Lose
  BY <1>2, LoseStep
<1>3. CASE NextPollFires
  BY <1>3, NextPollStep
<1>4. CASE Tick
  BY <1>4, TickStep
<1>5. CASE WpTimerFires
  BY <1>5, WpTimerStep
<1>6. CASE UserUpload \/ UserUploadAll \/ UserStore
  BY <1>6, UploadSteps
<1>7. CASE DbusUpload
  BY <1>7, DbusStep
<1>8. CASE UserDownload
  BY <1>8, DownloadStep
<1>9. CASE UserRestore
  BY <1>9, RestoreStep
<1>10. CASE UserEdit
  BY <1>10, EditStep
<1>11. CASE FollowMe
  BY <1>11, FollowStep
<1>12. CASE UNCHANGED vars
  <2>1. eng' = eng /\ UNCHANGED <<tr, fc, fcm>>
    BY <1>12 DEF vars
  <2>2. At(eng, Current(eng))
    BY DEF IInv, At
  <2> QED BY <2>1, <2>2, EngineStep
<1> QED BY <1>1, <1>2, <1>3, <1>4, <1>5, <1>6, <1>7, <1>8, <1>9, <1>10, <1>11, <1>12
        DEF Next

(* Every step keeps it.                                                    *)
LEMMA TransferNext == IInv /\ [Next]_vars => IInv'
<1> SUFFICES ASSUME IInv, [Next]_vars PROVE IInv'
  OBVIOUS
<1>1. fc' \in FCKind /\ env' \in Env /\ (Gentle' => Gentle) /\ fc' = fc
  BY WorldStep DEF IInv
<1>2. Gentle => StopAndWait(eng)' /\ Stage(Current(eng), tr, fcm)'
  BY GentleStep
<1>3. Gentle' => StopAndWait(eng)' /\ Stage(Current(eng), tr, fcm)'
  BY <1>1, <1>2
<1> QED BY <1>1, <1>3 DEF IInv

(* The invariant: however transfers, losses and timers follow each other,  *)
(* the current message tells how far the transfer has come.                *)
THEOREM TransferInductive == Spec => []IInv
  BY TransferInit, TransferNext, PTL DEF Spec

(* With a gentle world the link between mwp and the FC is stop and wait:   *)
(* one message is unanswered at most, and one at most is not a poll.       *)
THEOREM LinkStopsAndWaits == Spec => [](Gentle => StopAndWait(eng))
<1>1. IInv => (Gentle => StopAndWait(eng))
  BY DEF IInv
<1> QED BY <1>1, TransferInductive, PTL

(* The parts of the invariant.                                             *)
LEMMA WhatIsKnown ==
  ASSUME IInv, Gentle
  PROVE  Sound(tr, fcm) /\ (Current(eng) = {} => Rest(tr, fcm)) /\ eng \in Engine
<1>1. StopAndWait(eng) /\ Stage(Current(eng), tr, fcm)
  BY DEF IInv
<1> QED BY <1>1 DEF StopAndWait, Good, Stage

(* Every variable keeps its type, and upltid names a timer that runs: no   *)
(* handler reads a waypoint that does not exist.                           *)
THEOREM TransferTypes == Spec => [](Gentle => TypeOK)
<1>1. IInv => (Gentle => TypeOK)
  <2> SUFFICES ASSUME IInv, Gentle PROVE TypeOK
    OBVIOUS
  <2>1. Sound(tr, fcm) /\ eng \in Engine
    BY WhatIsKnown
  <2> QED BY <2>1 DEF TypeOK, Sound, IInv
<1> QED BY <1>1, TransferInductive, PTL

(* What is reported as uploaded or saved is what the FC, or its EEPROM,    *)
(* holds: the whole mission, in order.                                     *)
THEOREM UploadsAreTrue == Spec => [](Gentle => UploadFaithful)
<1>1. IInv => (Gentle => UploadFaithful)
  BY WhatIsKnown DEF UploadFaithful, Sound, ToldTruth
<1> QED BY <1>1, TransferInductive, PTL

(* What is reported as downloaded is what mwp shows, and the fallback is   *)
(* shown for an FC without a mission only.                                 *)
THEOREM DownloadsAreTrue == Spec => [](Gentle => DownloadFaithful)
<1>1. IInv => (Gentle => DownloadFaithful)
  BY WhatIsKnown DEF DownloadFaithful, Sound, ToldTruth
<1> QED BY <1>1, TransferInductive, PTL

(* When an upload is over the FC has the approach of every LAND of the     *)
(* mission and no other.                                                   *)
THEOREM ApproachesAreTrue == Spec => [](Gentle => ApproachesFaithful)
<1>1. IInv => (Gentle => ApproachesFaithful)
  <2> SUFFICES ASSUME IInv, Gentle, tr.told = "uploaded", ~Busy
               PROVE  fcm.fwa = {MaxHomes + l : l \in fc.lands}
    BY DEF ApproachesFaithful
  <2>1. Current(eng) = {}
    BY Polls DEF Busy, Current
  <2> QED BY <2>1, WhatIsKnown DEF Rest, Approaches
<1> QED BY <1>1, TransferInductive, PTL

(* An upload that has been reported as complete leaves no waypoint timer   *)
(* that could still warn of a failure, as long as no download has ended in *)
(* the fallback: that one does not remove its timer.                       *)
THEOREM FailuresAreTrue == Spec /\ []Gentle => FailureIsTrue
<1> DEFINE InTime == Timed(Current(eng), tr)
<1>1. Init => InTime
  <2> SUFFICES ASSUME Init PROVE InTime
    OBVIOUS
  <2>1. At(eng, {})
    BY InitEng
  <2>2. tr.timers = << >>
    BY DEF Init, InitTransfer
  <2> QED BY <2>1, <2>2 DEF Timed, Waits, Off, At
<1>2. IInv /\ Gentle /\ InTime /\ (tr.told # "fallback")' /\ [Next]_vars => InTime'
  BY GentleStep DEF StillTimed
<1>3. InTime => (tr.told \in {"uploaded", "saved"} => tr.timers = << >>)
  BY DEF Timed, Waits, Reads, Off
<1> HIDE DEF InTime
<1> QED BY <1>1, <1>2, <1>3, TransferInductive, PTL DEF Spec, FailureIsTrue
=============================================================================
