-------------------------- MODULE MspSessionProofs --------------------------
(***************************************************************************)
(* For every choice of the constants: MspSession keeps its types, its poll *)
(* list always lets the skip loop of send_poll end, a device that is down  *)
(* is silent, and a conversation begins with IDENT.  The three invariants  *)
(* are inductive together: the skip loop types what send_poll stores, and  *)
(* the handlers run only while the device is up.                           *)
(*                                                                         *)
(* For sessions of MSP alone (PlainMsp) the second part proves what the    *)
(* poller needs: a poll list that is not empty, built from what the FC is. *)
(* There one command is under way at a time, and it says what the flags    *)
(* have learnt.                                                            *)
(***************************************************************************)
EXTENDS MspSession, MspEngineProofs

Pairs          == [e : Engine, st : Flags]
GoodPair(p)    == p \in Pairs /\ Good(p.e)
PairKept(p, q) ==
  /\ GoodPair(q) /\ q.e.avail = p.e.avail
  /\ q.e.serstate = "NORMAL" => p.e.serstate = "NORMAL"

(* So do the steps that begin a conversation.                              *)
PairUp(p, q) == GoodPair(q) /\ q.e.avail = p.e.avail

----------------------------------------------------------------------------
(* Replacing the engine, or flags, of a pair.                              *)
LEMMA NewEngine ==
  ASSUME NEW p, GoodPair(p), NEW e, Keeps(p.e, e)
  PROVE  PairKept(p, [p EXCEPT !.e = e])
  BY DEF GoodPair, PairKept, Pairs, Keeps, Good

(* Other flags, the engine as it is.                                       *)
LEMMA NewFlags ==
  ASSUME NEW p, GoodPair(p), NEW s \in Flags
  PROVE  PairKept(p, [p EXCEPT !.st = s])
  BY DEF GoodPair, PairKept, Pairs

(* Both at once.                                                           *)
LEMMA NewBoth ==
  ASSUME NEW p, GoodPair(p), NEW e, Keeps(p.e, e), NEW s \in Flags
  PROVE  PairKept(p, [p EXCEPT !.e = e, !.st = s])
  BY DEF GoodPair, PairKept, Pairs, Keeps, Good

(* The flags that the handlers read.                                       *)
LEMMA FlagFields ==
  ASSUME NEW p, GoodPair(p)
  PROVE  /\ p.e \in Engine /\ Good(p.e) /\ p.st \in Flags
         /\ p.st.opening \in Nat /\ p.st.starttasks \in Nat
         /\ p.st.msp_get_status \in StatusCmds /\ p.st.msp_get_status \in Cmds
         /\ p.st.vers \in Levels /\ p.st.idcount \in Int
         /\ p.st.nticks \in Ticks /\ p.st.last_tm \in TmAges
         /\ p.st.nopoll \in BOOLEAN /\ p.st.seenMSP \in BOOLEAN
         /\ p.st.navcap \in NAVCAPS
  BY PollsAreCmds DEF GoodPair, Pairs, Flags

(* Queueing, running the queue and waking the poller on a pair.            *)
LEMMA AskKept ==
  ASSUME NEW p, GoodPair(p), NEW m \in Message
  PROVE  PairKept(p, Ask(p, m))
  BY NewEngine, QueueCmd DEF Ask, GoodPair

(* Queueing a command without argument.                                    *)
LEMMA AskForKept ==
  ASSUME NEW p, GoodPair(p), NEW c \in Cmds
  PROVE  PairKept(p, AskFor(p, c))
  BY AskKept, MsgIsMessage DEF AskFor

(* Queueing the status request of this firmware.                           *)
LEMMA AskStatusKept ==
  ASSUME NEW p, GoodPair(p)
  PROVE  PairKept(p, AskStatus(p))
  BY AskForKept, FlagFields DEF AskStatus

(* Handing the next command of the queue to the device.                    *)
LEMMA RunKept ==
  ASSUME NEW p, GoodPair(p)
  PROVE  PairKept(p, Run(p))
  BY NewEngine, RunQueue DEF Run, GoodPair

(* Waking the poller.                                                      *)
LEMMA ResetKept ==
  ASSUME NEW p, GoodPair(p)
  PROVE  PairKept(p, Reset(p))
  BY NewEngine, ResetPoller DEF Reset, GoodPair

(* What is kept stays kept.                                                *)
LEMMA KeptTrans ==
  ASSUME NEW p, NEW q, NEW r, PairKept(p, q), PairKept(q, r)
  PROVE  PairKept(p, r)
  BY DEF PairKept

----------------------------------------------------------------------------
(* serial_reset and the start of the conversation.                         *)
LEMMA FlagValues ==
  /\ 0 \in Ticks /\ 0 \in TmAges /\ 1 \in TmAges /\ 0 \in Levels
  /\ "STATUS" \in StatusCmds /\ "STATUS_EX" \in StatusCmds
  /\ "INAV_STATUS" \in StatusCmds
  /\ "NONE" \in NAVCAPS /\ "INAV" \in NAVCAPS /\ "NAVCONFIG" \in NAVCAPS
  BY TimesAssumption
  DEF TimesAssumption, Ticks, TickMax, TmAges, Levels, StatusCmds, NAVCAPS

(* serial_reset leaves the engine at rest, with an empty poll list.        *)
LEMMA SerialResetKept ==
  ASSUME NEW p, GoodPair(p)
  PROVE  PairKept(p, serial_reset(p))
<1> DEFINE e1 == [p.e EXCEPT !.serstate = "NONE", !.requests = << >>,
                      !.tcycle = 0, !.lastpoll = "NOOP", !.currx = "NOOP",
                      !.last0wp = FALSE, !.armed = FALSE, !.due = {},
                      !.okage = 0, !.rxage = 0]
           s1 == [forget_fc(p.st) EXCEPT !.nticks = 0, !.last_tm = 0,
                                         !.idcount = 0, !.dac = FALSE]
<1>1. /\ e1 \in Engine /\ e1.requests = << >> /\ e1.avail = p.e.avail
      /\ e1.serstate = "NONE"
  <2>1. p.e \in Engine
    BY FlagFields
  <2>2. << >> \in Seq(PollCmds \cup {"NOOP"}) /\ {} \in SUBSET RateLimited
    OBVIOUS
  <2>3. "NONE" \in SERSTATE
    BY DEF SERSTATE
  <2>4. e1 \in Engine
    BY <2>1, <2>2, <2>3, SmallNumbers DEF Engine
  <2>5. e1.requests = << >> /\ e1.avail = p.e.avail /\ e1.serstate = "NONE"
    BY <2>1 DEF Engine
  <2>6. QED BY <2>4, <2>5
<1>2. s1 \in Flags
  <2>1. p.st \in Flags
    BY FlagFields
  <2>2. forget_fc(p.st) \in Flags
    BY <2>1, FlagValues, ZenonT(60) DEF Flags, forget_fc
  <2>3. 0 \in Int
    OBVIOUS
  <2>4. QED BY <2>2, <2>3, FlagValues, Zenon DEF Flags
<1>3. Good(e1)
  BY <1>1 DEF Good, PollListOK
<1>4. serial_reset(p) = [e |-> e1, st |-> s1]
  BY DEF serial_reset
<1> HIDE DEF e1, s1
<1>5. QED BY <1>1, <1>2, <1>3, <1>4 DEF PairKept, GoodPair, Pairs

(* begin_normal queues IDENT and sends the head of the queue.              *)
LEMMA BeginNormalKept ==
  ASSUME NEW p, GoodPair(p)
  PROVE  PairUp(p, begin_normal(p))
<1> DEFINE e1 == [p.e EXCEPT !.serstate = "NORMAL"]
           q  == [p EXCEPT !.e.serstate = "NORMAL"]
<1>1. Good(e1) /\ e1.avail = p.e.avail
  BY ZenonT(60) DEF GoodPair, Pairs, Good, PollListOK, Engine, SERSTATE
<1>2. q = [p EXCEPT !.e = e1]
  BY DEF GoodPair, Pairs
<1>3. PairUp(p, q)
  BY <1>1, <1>2 DEF PairUp, GoodPair, Pairs, Good
<1> HIDE DEF q
<1>4. PairKept(q, AskFor(q, "IDENT"))
  BY <1>3, AskForKept DEF PairUp, Cmds, StartupCmds
<1>5. PairKept(AskFor(q, "IDENT"), Run(AskFor(q, "IDENT")))
  BY <1>4, RunKept DEF PairKept
<1>6. QED BY <1>3, <1>4, <1>5 DEF begin_normal, q, PairKept, PairUp

----------------------------------------------------------------------------
(* The start tasks.                                                        *)
LEMMA TakeTask ==
  ASSUME NEW t \in Nat, NEW bit \in {STATUS, SAFEHOMES, GEOZONES, STATUSX},
         Has(t, bit)
  PROVE  t - bit \in Nat
  BY DEF Has, STATUS, SAFEHOMES, GEOZONES, STATUSX

(* Flags with new start tasks, and whether the status is then still known. *)
LEMMA NewTasks ==
  ASSUME NEW p, GoodPair(p), NEW t \in Nat
  PROVE  /\ PairKept(p, [p EXCEPT !.st.starttasks = t])
         /\ PairKept(p, [p EXCEPT !.st.starttasks = t,
                                  !.st.have_status = FALSE])
<1>1. p.st \in Flags
  BY FlagFields
<1>2. [p.st EXCEPT !.starttasks = t] \in Flags
  BY <1>1 DEF Flags
<1>3. [p.st EXCEPT !.starttasks = t, !.have_status = FALSE] \in Flags
  BY <1>1 DEF Flags
<1>4. /\ PairKept(p, [p EXCEPT !.st = [p.st EXCEPT !.starttasks = t]])
      /\ PairKept(p, [p EXCEPT !.st = [p.st EXCEPT !.starttasks = t,
                                                   !.have_status = FALSE]])
  BY <1>2, <1>3, NewFlags
<1>5. QED BY <1>4 DEF GoodPair, Pairs

(* The next start task: a bit is taken only where it is set.               *)
LEMMA MiscStartupKept ==
  ASSUME NEW p, GoodPair(p)
  PROVE  PairKept(p, handle_misc_startup(p))
<1> DEFINE t == p.st.starttasks
<1>1. t \in Nat
  BY FlagFields
<1>2. \A n \in Nat :
        /\ PairKept(p, AskStatus([p EXCEPT !.st.starttasks = n]))
        /\ PairKept(p, AskStatus([p EXCEPT !.st.starttasks = n,
                                           !.st.have_status = FALSE]))
        /\ \A c \in Cmds :
             PairKept(p, AskFor([p EXCEPT !.st.starttasks = n], c))
  <2> TAKE n \in Nat
  <2> DEFINE q == [p EXCEPT !.st.starttasks = n]
             r == [p EXCEPT !.st.starttasks = n, !.st.have_status = FALSE]
  <2>1. PairKept(p, q) /\ PairKept(p, r)
    BY NewTasks
  <2> HIDE DEF q, r
  <2>2. PairKept(p, AskStatus(q)) /\ PairKept(p, AskStatus(r))
    BY <2>1, AskStatusKept, KeptTrans DEF PairKept
  <2>3. \A c \in Cmds : PairKept(p, AskFor(q, c))
    BY <2>1, AskForKept, KeptTrans DEF PairKept
  <2>4. QED BY <2>2, <2>3 DEF q, r
<1>3. "SAFEHOME" \in Cmds /\ "GEOZONE" \in Cmds
  BY DEF Cmds, BulkCmds
<1>4. CASE p.e.armed /\ ArmedMspPlacebo
  BY <1>2, <1>4 DEF handle_misc_startup
<1>5. CASE ~(p.e.armed /\ ArmedMspPlacebo)
  <2>1. CASE Has(t, STATUS)
    BY <1>1, <1>2, <1>5, <2>1, TakeTask DEF handle_misc_startup
  <2>2. CASE ~Has(t, STATUS) /\ Has(t, SAFEHOMES)
    BY <1>1, <1>2, <1>3, <1>5, <2>2, TakeTask DEF handle_misc_startup
  <2>3. CASE ~Has(t, STATUS) /\ ~Has(t, SAFEHOMES) /\ Has(t, GEOZONES)
    BY <1>1, <1>2, <1>3, <1>5, <2>3, TakeTask DEF handle_misc_startup
  <2>4. CASE ~Has(t, STATUS) /\ ~Has(t, SAFEHOMES) /\ ~Has(t, GEOZONES)
             /\ Has(t, STATUSX)
    BY <1>1, <1>2, <1>5, <2>4, TakeTask DEF handle_misc_startup
  <2>5. CASE ~Has(t, STATUS) /\ ~Has(t, SAFEHOMES) /\ ~Has(t, GEOZONES)
             /\ ~Has(t, STATUSX)
    BY <1>5, <2>5 DEF handle_misc_startup, PairKept
  <2>6. QED BY <2>1, <2>2, <2>3, <2>4, <2>5
<1>6. QED BY <1>4, <1>5

(* ACTIVEBOXES adds to the tasks.                                          *)
LEMMA StartTasksNat ==
  ASSUME NEW t \in Nat, NEW v, NEW autogz
  PROVE  set_starttasks(t, v, autogz) \in Nat
  BY DEF set_starttasks, STATUS, SAFEHOMES, GEOZONES, STATUSX

(* The chain of settings.                                                  *)
LEMMA NextSettingNat ==
  ASSUME NEW a \in Nat, NEW v, NEW offset
  PROVE  next_setting(a, v, offset) \in Nat
  BY DEF next_setting

(* The answer to a setting asks for the next, or ends the chain.           *)
LEMMA SettingInfoKept ==
  ASSUME NEW p, GoodPair(p), NEW a \in Nat, NEW offset
  PROVE  PairKept(p, common_setting_info(p, a, offset))
<1> DEFINE nxt == next_setting(a, p.st.vers, offset)
           ask == Ask(p, Msg("COMMON_SETTING_INFO", nxt))
           can == [p EXCEPT !.st.can_startup = TRUE]
           p1  == IF nxt # 0 THEN ask ELSE can
           Clr(q) == [q EXCEPT !.st.need_startup = FALSE,
                               !.st.can_startup = FALSE]
<1>1. nxt \in Nat /\ "COMMON_SETTING_INFO" \in Cmds
  BY NextSettingNat DEF Cmds, StartupCmds
<1> HIDE DEF nxt
<1>2. PairKept(p, ask)
  BY <1>1, AskKept, MsgIsMessage
<1>3. PairKept(p, can)
  <2>1. [p.st EXCEPT !.can_startup = TRUE] \in Flags
    BY DEF GoodPair, Pairs, Flags
  <2>2. PairKept(p, [p EXCEPT !.st = [p.st EXCEPT !.can_startup = TRUE]])
    BY <2>1, NewFlags
  <2>3. QED BY <2>2 DEF GoodPair, Pairs
<1>4. PairKept(p, p1)
  BY <1>2, <1>3
<1> HIDE DEF p1, ask, can
<1>5. PairKept(p1, Clr(p1))
  <2>1. GoodPair(p1)
    BY <1>4 DEF PairKept
  <2>2. [p1.st EXCEPT !.need_startup = FALSE, !.can_startup = FALSE] \in Flags
    BY <2>1, ZenonT(60) DEF GoodPair, Pairs, Flags
  <2>3. PairKept(p1, [p1 EXCEPT !.st = [p1.st EXCEPT !.need_startup = FALSE,
                                                     !.can_startup = FALSE]])
    BY <2>1, <2>2, NewFlags
  <2>4. QED BY <2>1, <2>3 DEF GoodPair, Pairs
<1>6. PairKept(p, handle_misc_startup(Clr(p1)))
  BY <1>4, <1>5, MiscStartupKept DEF PairKept
<1>7. common_setting_info(p, a, offset) =
        IF p1.st.need_startup /\ p1.st.can_startup
        THEN handle_misc_startup(Clr(p1)) ELSE p1
  BY DEF common_setting_info, p1, ask, can, nxt
<1>8. QED BY <1>4, <1>6, <1>7

----------------------------------------------------------------------------
(* The poll list.                                                          *)

(* A list that begins with a status request still does when it is extended.*)
StartsWithStatus(s) ==
  s \in Seq(PollCmds \cup {"NOOP"}) /\ Len(s) > 0 /\ s[1] \in StatusCmds

(* Appending a poll, or none.                                              *)
LEMMA Extended ==
  ASSUME NEW s, StartsWithStatus(s), NEW cond, NEW c \in PollCmds
  PROVE  StartsWithStatus(s \o (IF cond THEN <<c>> ELSE << >>))
<1>1. CASE cond
  <2>1. <<c>> \in Seq(PollCmds \cup {"NOOP"})
    OBVIOUS
  <2>2. s \o <<c>> \in Seq(PollCmds \cup {"NOOP"}) /\ Len(s \o <<c>>) > 0
    BY <2>1 DEF StartsWithStatus
  <2>3. (s \o <<c>>)[1] = s[1]
    BY <2>1 DEF StartsWithStatus
  <2>4. QED BY <1>1, <2>2, <2>3 DEF StartsWithStatus
<1>2. CASE ~cond
  <2>1. s \o << >> = s
    BY DEF StartsWithStatus
  <2>2. QED BY <1>2, <2>1
<1>3. QED BY <1>1, <1>2

(* The list that build_pollreqs makes begins with a status request.        *)
LEMMA PollRequests ==
  ASSUME NEW s, s.msp_get_status \in StatusCmds, NEW f
  PROVE  StartsWithStatus(build_pollreqs(s, f))
<1> DEFINE If(cond, c) == IF cond THEN <<c>> ELSE << >>
           gps == "GPS" \in f.sensors
           r0 == <<s.msp_get_status, "ANALOG">>
           r1 == r0 \o If(gps /\ s.navcap # "NONE", "NAV_STATUS")
           r2 == r1 \o If(gps, "RAW_GPS")
           r3 == r2 \o If(gps, "COMP_GPS")
           r4 == r3 \o If(gps /\ s.navcap # "NAVCONFIG", "GPSSTATISTICS")
           r5 == r4 \o If(gps, "WP")
           r6 == r5 \o If("ACC" \in f.sensors, "ATTITUDE")
           r7 == r6 \o If("BARO" \in f.sensors, "ALTITUDE")
           r8 == r7 \o If(s.vers >= hasAdsbList /\ f.adsb,
                          "ADSB_VEHICLE_LIST")
<1>1. build_pollreqs(s, f) = r8
  BY DEF build_pollreqs
<1>2. /\ "ANALOG" \in PollCmds /\ "NAV_STATUS" \in PollCmds
      /\ "RAW_GPS" \in PollCmds /\ "COMP_GPS" \in PollCmds
      /\ "GPSSTATISTICS" \in PollCmds /\ "WP" \in PollCmds
      /\ "ATTITUDE" \in PollCmds /\ "ALTITUDE" \in PollCmds
      /\ "ADSB_VEHICLE_LIST" \in PollCmds
  BY DEF PollCmds
<1>3. StartsWithStatus(r0)
  BY <1>2, PollsAreCmds DEF StartsWithStatus
<1> HIDE DEF r0
<1>4. StartsWithStatus(r1)
  BY <1>2, <1>3, Extended
<1> HIDE DEF r1
<1>5. StartsWithStatus(r2)
  BY <1>2, <1>4, Extended
<1> HIDE DEF r2
<1>6. StartsWithStatus(r3)
  BY <1>2, <1>5, Extended
<1> HIDE DEF r3
<1>7. StartsWithStatus(r4)
  BY <1>2, <1>6, Extended
<1> HIDE DEF r4
<1>8. StartsWithStatus(r5)
  BY <1>2, <1>7, Extended
<1> HIDE DEF r5
<1>9. StartsWithStatus(r6)
  BY <1>2, <1>8, Extended
<1> HIDE DEF r6
<1>10. StartsWithStatus(r7)
  BY <1>2, <1>9, Extended
<1> HIDE DEF r7
<1>11. StartsWithStatus(r8)
  BY <1>2, <1>10, Extended
<1> HIDE DEF r8
<1>12. QED BY <1>1, <1>11

(* handle_msp_status: a new poll list, and the poller started.             *)
LEMMA StatusHandledKept ==
  ASSUME NEW p, GoodPair(p), NEW f, NEW arm \in BOOLEAN
  PROVE  PairKept(p, handle_msp_status(p, f, arm))
<1> DEFINE p1 == [p EXCEPT !.e.armed = arm, !.st.have_status = TRUE]
           r  == build_pollreqs(p.st, f)
           p2 == [p1 EXCEPT !.e.requests = r]
           p3 == [p2 EXCEPT !.e.tcycle = 0, !.e.serstate = "POLLER"]
<1>1. PairKept(p, p1)
  <2>1. Keeps(p.e, [p.e EXCEPT !.armed = arm])
    BY ZenonT(60) DEF GoodPair, Pairs, Keeps, Good, PollListOK, Engine
  <2>2. [p.st EXCEPT !.have_status = TRUE] \in Flags
    BY DEF GoodPair, Pairs, Flags
  <2>3. p1 = [p EXCEPT !.e = [p.e EXCEPT !.armed = arm],
                       !.st = [p.st EXCEPT !.have_status = TRUE]]
    BY DEF GoodPair, Pairs
  <2>4. QED BY <2>1, <2>2, <2>3, NewBoth
<1>2. StartsWithStatus(r)
  BY PollRequests, FlagFields
<1> HIDE DEF p1, r
<1>3. PairKept(p1, p2)
  <2>1. GoodPair(p1)
    BY <1>1 DEF PairKept
  <2>2. [p1.e EXCEPT !.requests = r] \in Engine
    BY <1>2, <2>1, ZenonT(60) DEF GoodPair, Pairs, StartsWithStatus, Engine
  <2>3. Keeps(p1.e, [p1.e EXCEPT !.requests = r])
    <3>1. 1 \in DOMAIN r /\ r[1] \in StatusCmds
      BY <1>2 DEF StartsWithStatus
    <3>2. [p1.e EXCEPT !.requests = r].requests = r
          /\ [p1.e EXCEPT !.requests = r].avail = p1.e.avail
      BY <2>1, FlagFields DEF Engine
    <3>3. QED BY <2>2, <3>1, <3>2 DEF Keeps, Good, PollListOK
  <2>4. QED BY <2>1, <2>3, NewEngine DEF GoodPair, Pairs
<1> HIDE DEF p2
<1>4. PairKept(p2, p3)
  <2>1. GoodPair(p2) /\ Good(p2.e)
    BY <1>3 DEF PairKept, GoodPair
  <2>2. Keeps(p2.e, [p2.e EXCEPT !.tcycle = 0, !.serstate = "POLLER"])
    BY <2>1, ZenonT(60) DEF Keeps, Good, PollListOK, Engine, SERSTATE
  <2>3. QED BY <2>1, <2>2, NewEngine DEF GoodPair, Pairs
<1> HIDE DEF p3
<1>5. PairKept(p, p2) /\ PairKept(p, p3)
  BY <1>1, <1>3, <1>4, KeptTrans
<1>6. \/ handle_msp_status(p, f, arm) = p1
      \/ handle_msp_status(p, f, arm) = p2
      \/ handle_msp_status(p, f, arm) = p3
  BY DEF handle_msp_status, p1, p2, p3, r
<1>7. QED BY <1>1, <1>5, <1>6

----------------------------------------------------------------------------
(* The answers.                                                            *)
LEMMA FcFields ==
  ASSUME NEW f \in FCKind
  PROVE  /\ f.vers \in Levels /\ f.inav \in BOOLEAN /\ f.nvert \in Nat
         /\ f.navconfig \in BOOLEAN /\ f.silent \in BOOLEAN
  BY DEF FCKind

(* What follows an answer, or an error, is a startup command.              *)
LEMMA StartupMessages ==
  /\ StartupCmds \subseteq Cmds /\ BulkCmds \subseteq Cmds
  /\ \A f, v : \A c \in Chained : Follows(c, f, v) \in StartupCmds
  /\ \A c \in ErrorChained : ErrorFollows(c) \in StartupCmds
<1>1. \A f, v : \A c \in Chained : Follows(c, f, v) \in StartupCmds
  BY DEF Chained, Follows, StartupCmds
<1>2. \A c \in ErrorChained : ErrorFollows(c) \in StartupCmds
  BY DEF ErrorChained, ErrorFollows, StartupCmds
<1>3. QED BY <1>1, <1>2 DEF Cmds

(* After RX_MAP: the mission's length and the boxes, or the status.        *)
LEMMA RxmapNextKept ==
  ASSUME NEW p, GoodPair(p)
  PROVE  PairKept(p, rxmap_next(p))
<1> DEFINE q == IF p.st.inav THEN Run(AskFor(p, "WP_GETINFO")) ELSE p
<1>1. /\ "STATUS" \in Cmds /\ "WP_GETINFO" \in Cmds /\ "ACTIVEBOXES" \in Cmds
  BY DEF Cmds, PollCmds, StatusCmds, StartupCmds
<1>2. PairKept(p, q)
  <2>1. PairKept(p, AskFor(p, "WP_GETINFO"))
    BY <1>1, AskForKept
  <2>2. PairKept(p, Run(AskFor(p, "WP_GETINFO")))
    BY <2>1, RunKept, KeptTrans DEF PairKept
  <2>3. PairKept(p, p)
    BY DEF PairKept
  <2>4. QED BY <2>2, <2>3
<1> HIDE DEF q
<1>3. PairKept(p, AskFor(q, "ACTIVEBOXES")) /\ PairKept(p, AskFor(p, "STATUS"))
  BY <1>1, <1>2, AskForKept, KeptTrans DEF PairKept
<1>4. QED BY <1>3 DEF rxmap_next, q

(* The answer to IDENT.                                                    *)
LEMMA IdentKept ==
  ASSUME NEW p, GoodPair(p), NEW f
  PROVE  PairKept(p, got_ident(p, f))
<1> DEFINE p1 == [p EXCEPT !.st.idcount = 0, !.st.identified = TRUE]
           n  == IF f.navconfig THEN "NAVCONFIG" ELSE "NONE"
           p2 == [p1 EXCEPT !.st.vers = 0, !.st.navcap = n]
<1>1. PairKept(p, p1)
  <2>1. 0 \in Int
    OBVIOUS
  <2>2. p.st \in Flags
    BY FlagFields
  <2>3. [p.st EXCEPT !.idcount = 0, !.identified = TRUE] \in Flags
    BY <2>1, <2>2, Zenon DEF Flags
  <2>4. p1 = [p EXCEPT !.st = [p.st EXCEPT !.idcount = 0, !.identified = TRUE]]
    BY DEF GoodPair, Pairs
  <2>5. QED BY <2>3, <2>4, NewFlags
<1> HIDE DEF p1
<1>2. PairKept(p1, p2)
  <2>1. GoodPair(p1) /\ p1.st \in Flags
    BY <1>1, FlagFields DEF PairKept
  <2>2. n \in NAVCAPS
    BY FlagValues
  <2> HIDE DEF n
  <2>3. [p1.st EXCEPT !.vers = 0, !.navcap = n] \in Flags
    BY <2>1, <2>2, FlagValues DEF Flags
  <2>4. p2 = [p1 EXCEPT !.st = [p1.st EXCEPT !.vers = 0, !.navcap = n]]
    BY <2>1 DEF GoodPair, Pairs
  <2>5. QED BY <2>1, <2>3, <2>4, NewFlags
<1> HIDE DEF p2
<1>3. PairKept(p, AskFor(p2, "API_VERSION"))
  BY <1>1, <1>2, AskForKept, KeptTrans DEF PairKept, Cmds, StartupCmds
<1>4. QED BY <1>1, <1>3 DEF got_ident, p1, p2, n

(* The answer to FC_VARIANT.                                               *)
LEMMA VariantKept ==
  ASSUME NEW p, GoodPair(p), NEW f \in FCKind
  PROVE  PairKept(p, got_variant(p, f))
<1> DEFINE p1 == [p EXCEPT !.st.inav = FALSE]
           n  == IF f.inav THEN "INAV" ELSE p.st.navcap
           p2 == [p1 EXCEPT !.st.have_fcv = TRUE, !.st.inav = f.inav,
                            !.st.navcap = n]
<1>1. p.st \in Flags /\ f.inav \in BOOLEAN
  BY FlagFields, FcFields
<1>2. n \in NAVCAPS
  BY FlagFields, FlagValues
<1> HIDE DEF n
<1>3. PairKept(p, p1)
  <2>1. [p.st EXCEPT !.inav = FALSE] \in Flags
    BY <1>1 DEF Flags
  <2>2. QED BY <2>1, NewFlags DEF GoodPair, Pairs
<1>4. p1.st.navcap = p.st.navcap
  BY <1>1 DEF GoodPair, Pairs, Flags
<1>5. PairKept(p1, p2)
  <2>1. GoodPair(p1) /\ p1.st \in Flags
    BY <1>3, FlagFields DEF PairKept
  <2> HIDE DEF p1
  <2>2. [p1.st EXCEPT !.have_fcv = TRUE, !.inav = f.inav, !.navcap = n]
          \in Flags
    BY <1>1, <1>2, <2>1, ZenonT(60) DEF Flags
  <2>3. p2 = [p1 EXCEPT !.st = [p1.st EXCEPT !.have_fcv = TRUE,
                                  !.inav = f.inav, !.navcap = n]]
    BY <2>1 DEF GoodPair, Pairs
  <2>4. QED BY <2>1, <2>2, <2>3, NewFlags
<1>6. got_variant(p, f) =
        IF p.st.have_fcv THEN p1
        ELSE AskFor(p2, IF f.inav THEN "FEATURE" ELSE "BOXNAMES")
  BY <1>4 DEF got_variant, n, GoodPair, Pairs, Flags
<1> HIDE DEF p1, p2
<1>7. PairKept(p, p2)
  BY <1>3, <1>5, KeptTrans
<1>8. PairKept(p, AskFor(p2, "FEATURE")) /\ PairKept(p, AskFor(p2, "BOXNAMES"))
  BY <1>7, AskForKept, KeptTrans DEF PairKept, Cmds, StartupCmds
<1>9. QED BY <1>3, <1>6, <1>8

(* The answer to FC_VERSION.                                               *)
LEMMA VersionKept ==
  ASSUME NEW p, GoodPair(p), NEW f \in FCKind
  PROVE  PairKept(p, got_version(p, f))
<1> DEFINE p1 == [p EXCEPT !.st.have_fcvv = TRUE, !.st.vers = f.vers]
           gs == IF ~f.msp2 THEN "STATUS"
                 ELSE IF f.vers >= hasV2STATUS THEN "INAV_STATUS"
                                               ELSE "STATUS_EX"
           p2 == [p1 EXCEPT !.st.msp_get_status = gs]
           c  == IF f.tz /\ f.msp2 /\ f.vers >= hasTZ
                 THEN "COMMON_SET_TZ" ELSE "BUILD_INFO"
<1>1. p.st \in Flags /\ f.vers \in Levels /\ gs \in StatusCmds
  BY FlagFields, FcFields, FlagValues
<1>2. c \in Cmds /\ "BOXNAMES" \in Cmds
  BY DEF Cmds, StartupCmds
<1> HIDE DEF gs, c
<1>3. PairKept(p, p1)
  <2>1. [p.st EXCEPT !.have_fcvv = TRUE, !.vers = f.vers] \in Flags
    BY <1>1 DEF Flags
  <2>2. p1 = [p EXCEPT !.st = [p.st EXCEPT !.have_fcvv = TRUE,
                                           !.vers = f.vers]]
    BY DEF GoodPair, Pairs
  <2>3. QED BY <2>1, <2>2, NewFlags
<1> HIDE DEF p1
<1>4. PairKept(p1, p2)
  <2>1. GoodPair(p1) /\ p1.st \in Flags
    BY <1>3, FlagFields DEF PairKept
  <2>2. [p1.st EXCEPT !.msp_get_status = gs] \in Flags
    BY <1>1, <2>1 DEF Flags
  <2>3. QED BY <2>1, <2>2, NewFlags DEF GoodPair, Pairs
<1> HIDE DEF p2
<1>5. PairKept(p, AskFor(p2, c)) /\ PairKept(p, AskFor(p1, "BOXNAMES"))
  BY <1>2, <1>3, <1>4, AskForKept, KeptTrans DEF PairKept
<1>6. \/ got_version(p, f) = p
      \/ got_version(p, f) = AskFor(p2, c)
      \/ got_version(p, f) = AskFor(p1, "BOXNAMES")
  BY <1>1 DEF got_version, p1, p2, gs, c, Flags
<1>7. QED BY <1>5, <1>6 DEF PairKept

(* The answer to ACTIVEBOXES sets the start tasks.                         *)
LEMMA ActiveboxesKept ==
  ASSUME NEW p, GoodPair(p), NEW f
  PROVE  PairKept(p, got_activeboxes(p, f))
<1> DEFINE t  == set_starttasks(p.st.starttasks, p.st.vers,
                                f.gz /\ AutoGeozones)
           p1 == [p EXCEPT !.st.need_startup = TRUE, !.st.starttasks = t]
<1>1. p.st \in Flags /\ p.st.starttasks \in Nat
  BY FlagFields
<1>2. t \in Nat
  BY <1>1, StartTasksNat
<1>3. got_activeboxes(p, f) = IF p.st.vers >= hasTZ
                              THEN Ask(p1, Msg("COMMON_SETTING_INFO", 1))
                              ELSE p1
  BY <1>1 DEF got_activeboxes, GoodPair, Pairs, Flags
<1> HIDE DEF t
<1>4. PairKept(p, p1)
  <2>1. [p.st EXCEPT !.need_startup = TRUE, !.starttasks = t] \in Flags
    BY <1>1, <1>2 DEF Flags
  <2>2. p1 = [p EXCEPT !.st = [p.st EXCEPT !.need_startup = TRUE,
                                           !.starttasks = t]]
    BY DEF GoodPair, Pairs
  <2>3. QED BY <2>1, <2>2, NewFlags
<1> HIDE DEF p1
<1>5. Msg("COMMON_SETTING_INFO", 1) \in Message
  BY MsgIsMessage DEF Cmds, StartupCmds
<1>6. PairKept(p, Ask(p1, Msg("COMMON_SETTING_INFO", 1)))
  BY <1>4, <1>5, AskKept, KeptTrans DEF PairKept
<1>7. QED BY <1>3, <1>4, <1>6

(* The end of a start task: the poller is woken, then the next task.       *)
LEMMA TaskOverKept ==
  ASSUME NEW p, GoodPair(p)
  PROVE  PairKept(p, handle_misc_startup(Reset(p)))
  BY ResetKept, MiscStartupKept, KeptTrans DEF PairKept

(* Safehomes, approaches and geozones, one after the other.                *)
LEMMA BulkKept ==
  ASSUME NEW p, GoodPair(p), NEW f \in FCKind, NEW id \in Nat
  PROVE  /\ PairKept(p, got_safehome(p, id))
         /\ PairKept(p, got_fw_approach(p, id))
         /\ PairKept(p, got_geozone(p, id, f))
         /\ PairKept(p, got_gzvertex(p, id, f))
<1>1. \A c \in BulkCmds : PairKept(p, Ask(p, Msg(c, id + 1)))
                           /\ PairKept(p, AskFor(p, c))
  BY AskKept, AskForKept, MsgIsMessage, StartupMessages
<1>2. PairKept(p, handle_misc_startup(Reset(p)))
  BY TaskOverKept
<1>3. "SAFEHOME" \in BulkCmds /\ "FW_APPROACH" \in BulkCmds
      /\ "GEOZONE" \in BulkCmds /\ "GEOZONE_VERTEX" \in BulkCmds
  BY DEF BulkCmds
<1>4. PairKept(p, got_safehome(p, id))
  BY <1>1, <1>3 DEF got_safehome
<1>5. PairKept(p, got_fw_approach(p, id))
  BY <1>1, <1>2, <1>3 DEF got_fw_approach
<1>6. PairKept(p, got_gzvertex(p, id, f))
  BY <1>1, <1>2, <1>3 DEF got_gzvertex
<1>7. PairKept(p, got_geozone(p, id, f))
  <2>1. f.nvert \in Nat /\ MaxGz \in Nat
    BY FcFields, SessionAssumption DEF SessionAssumption
  <2>2. \/ got_geozone(p, id, f) = Ask(p, Msg("GEOZONE", id + 1))
        \/ got_geozone(p, id, f) = AskFor(p, "GEOZONE_VERTEX")
        \/ got_geozone(p, id, f) = handle_misc_startup(Reset(p))
    BY <2>1 DEF got_geozone
  <2>3. QED BY <1>1, <1>2, <1>3, <2>2
<1>8. QED BY <1>4, <1>5, <1>6, <1>7

(* The answer to a status request.                                         *)
LEMMA StatusKept ==
  ASSUME NEW p, GoodPair(p), NEW f, NEW arm \in BOOLEAN
  PROVE  PairKept(p, got_status(p, f, arm))
<1> DEFINE p1 == handle_msp_status(p, f, arm)
<1>1. PairKept(p, p1)
  BY StatusHandledKept
<1>2. got_status(p, f, arm) = IF p1.st.starttasks # 0
                              THEN handle_misc_startup(p1) ELSE p1
  BY DEF got_status
<1> HIDE DEF p1
<1>3. PairKept(p, handle_misc_startup(p1))
  BY <1>1, MiscStartupKept, KeptTrans DEF PairKept
<1>4. QED BY <1>1, <1>2, <1>3

(* The answer to REBOOT closes the device and asks for its return.         *)
LEMMA RebootKept ==
  ASSUME NEW p, GoodPair(p)
  PROVE  PairKept(p, got_reboot(p))
<1>1. Keeps(p.e, [p.e EXCEPT !.closing = TRUE])
  BY DEF GoodPair, Pairs, Keeps, Good, PollListOK, Engine
<1>2. [p.st EXCEPT !.reopen = TRUE] \in Flags
  BY DEF GoodPair, Pairs, Flags
<1>3. PairKept(p, [p EXCEPT !.e = [p.e EXCEPT !.closing = TRUE],
                            !.st = [p.st EXCEPT !.reopen = TRUE]])
  BY <1>1, <1>2, NewBoth
<1>4. QED BY <1>3 DEF got_reboot, GoodPair, Pairs

(* Every answer.                                                           *)
LEMMA HandleMspKept ==
  ASSUME NEW p, GoodPair(p), NEW m \in Message, NEW f \in FCKind,
         NEW arm \in BOOLEAN
  PROVE  PairKept(p, handle_msp(p, m, f, arm))
<1>1. m.cmd \in Cmds /\ m.arg \in Nat
  BY DEF Message
<1>2. m.cmd \in Chained => PairKept(p, AskFor(p, Follows(m.cmd, f, p.st.vers)))
  <2> SUFFICES ASSUME m.cmd \in Chained
               PROVE  PairKept(p, AskFor(p, Follows(m.cmd, f, p.st.vers)))
    OBVIOUS
  <2>1. Follows(m.cmd, f, p.st.vers) \in Cmds
    BY StartupMessages
  <2>2. QED BY <2>1, AskForKept
<1>3. /\ PairKept(p, got_ident(p, f)) /\ PairKept(p, got_variant(p, f))
      /\ PairKept(p, got_version(p, f)) /\ PairKept(p, rxmap_next(p))
      /\ PairKept(p, got_activeboxes(p, f))
  BY IdentKept, VariantKept, VersionKept, RxmapNextKept, ActiveboxesKept
<1>4. /\ PairKept(p, common_setting_info(p, m.arg, f.offset))
      /\ PairKept(p, got_status(p, f, arm)) /\ PairKept(p, got_reboot(p))
  BY <1>1, SettingInfoKept, StatusKept, RebootKept
<1>5. /\ PairKept(p, got_safehome(p, m.arg))
      /\ PairKept(p, got_fw_approach(p, m.arg))
      /\ PairKept(p, got_geozone(p, m.arg, f))
      /\ PairKept(p, got_gzvertex(p, m.arg, f))
  BY <1>1, BulkKept
<1>6. PairKept(p, [p EXCEPT !.e.last0wp = (m.arg = 0)])
  <2>1. Keeps(p.e, [p.e EXCEPT !.last0wp = (m.arg = 0)])
    <3> DEFINE b == (m.arg = 0)
    <3>1. b \in BOOLEAN
      OBVIOUS
    <3> HIDE DEF b
    <3>2. Keeps(p.e, [p.e EXCEPT !.last0wp = b])
      BY <3>1, ZenonT(60) DEF GoodPair, Pairs, Keeps, Good, PollListOK, Engine
    <3>3. QED BY <3>2 DEF b
  <2>2. QED BY <2>1, NewEngine DEF GoodPair, Pairs
<1>7. PairKept(p, p)
  BY DEF PairKept
<1>8. CASE m.cmd = "WP"
  <2>1. handle_msp(p, m, f, arm) = [p EXCEPT !.e.last0wp = (m.arg = 0)]
    BY <1>8, Zenon DEF handle_msp, Chained, StatusCmds
  <2>2. QED BY <1>6, <2>1
<1>9. CASE m.cmd # "WP"
  BY <1>2, <1>3, <1>4, <1>5, <1>7, <1>9 DEF handle_msp
<1>10. QED BY <1>8, <1>9

(* Every error.                                                            *)
LEMMA MspErrorKept ==
  ASSUME NEW p, GoodPair(p), NEW m \in Message
  PROVE  PairKept(p, handle_msp_error(p, m))
<1> DEFINE n == IF m.cmd = "IDENT" THEN -7200 ELSE p.st.idcount
           i == [p EXCEPT !.st.idcount = n]
           S(c) == [p EXCEPT !.st.msp_get_status = c]
           h == handle_msp_error(p, m)
<1>1. n \in Int /\ p.st \in Flags
  BY FlagFields
<1>2. \/ m.cmd \in ErrorChained /\ h = Run(AskFor(i, ErrorFollows(m.cmd)))
      \/ h = Run(rxmap_next(p))
      \/ h = [p EXCEPT !.e = clear_poller_item(p.e, "ADSB_VEHICLE_LIST")]
      \/ h = Run(AskStatus(S("STATUS_EX")))
      \/ h = Run(AskStatus(S("STATUS")))
      \/ h = Run(p)
      \/ h = handle_misc_startup(p)
      \/ h = Run(AskStatus(p))
  <2>1. [p EXCEPT !.st.idcount = IF m.cmd = "IDENT" THEN -7200 ELSE @] = i
    BY <1>1 DEF GoodPair, Pairs, Flags
  <2>2. [p EXCEPT !.e = clear_poller_item(@, "ADSB_VEHICLE_LIST")]
          = [p EXCEPT !.e = clear_poller_item(p.e, "ADSB_VEHICLE_LIST")]
    OBVIOUS
  <2>3. h = handle_msp_error(p, m)
    OBVIOUS
  <2> HIDE DEF h, i, n
  <2>4. QED BY <2>1, <2>2, <2>3 DEF handle_msp_error
<1> HIDE DEF n, h
<1>3. PairKept(p, i)
  <2>1. [p.st EXCEPT !.idcount = n] \in Flags
    BY <1>1 DEF Flags
  <2>2. QED BY <2>1, NewFlags DEF GoodPair, Pairs
<1>4. \A c \in StatusCmds : PairKept(p, S(c))
  <2> TAKE c \in StatusCmds
  <2>1. [p.st EXCEPT !.msp_get_status = c] \in Flags
    BY <1>1 DEF Flags
  <2>2. QED BY <2>1, NewFlags DEF GoodPair, Pairs
<1>5. m.cmd \in ErrorChained =>
        PairKept(p, Run(AskFor(i, ErrorFollows(m.cmd))))
  <2> HIDE DEF i
  <2> SUFFICES ASSUME m.cmd \in ErrorChained
               PROVE  PairKept(p, Run(AskFor(i, ErrorFollows(m.cmd))))
    OBVIOUS
  <2>1. PairKept(p, AskFor(i, ErrorFollows(m.cmd)))
    BY <1>3, StartupMessages, AskForKept, KeptTrans DEF PairKept
  <2>2. QED BY <2>1, RunKept, KeptTrans DEF PairKept
<1>6. PairKept(p, Run(rxmap_next(p))) /\ PairKept(p, Run(p))
  BY RxmapNextKept, RunKept, KeptTrans DEF PairKept
<1>7. PairKept(p, [p EXCEPT !.e = clear_poller_item(p.e, "ADSB_VEHICLE_LIST")])
  <2>1. "ADSB_VEHICLE_LIST" \notin StatusCmds
    BY DEF StatusCmds
  <2>2. Keeps(p.e, clear_poller_item(p.e, "ADSB_VEHICLE_LIST"))
    BY <2>1, ClearPollerItem, FlagFields
  <2>3. QED BY <2>2, NewEngine
<1>8. \A c \in StatusCmds : PairKept(p, Run(AskStatus(S(c))))
  <2> TAKE c \in StatusCmds
  <2>1. PairKept(p, S(c))
    BY <1>4
  <2> HIDE DEF S
  <2>2. PairKept(p, AskStatus(S(c)))
    BY <2>1, AskStatusKept, KeptTrans DEF PairKept
  <2>3. QED BY <2>2, RunKept, KeptTrans DEF PairKept
<1>9. PairKept(p, Run(AskStatus(p))) /\ PairKept(p, handle_misc_startup(p))
  BY AskStatusKept, RunKept, MiscStartupKept, KeptTrans DEF PairKept
<1>10. "STATUS" \in StatusCmds /\ "STATUS_EX" \in StatusCmds
  BY DEF StatusCmds
<1> HIDE DEF i, S
<1>11. PairKept(p, h)
  BY <1>2, <1>5, <1>6, <1>7, <1>8, <1>9, <1>10
<1>12. QED BY <1>11 DEF h

----------------------------------------------------------------------------
(* The handlers of messages and frames.                                    *)
LEMMA MessageHandledKept ==
  ASSUME NEW p, GoodPair(p), NEW soon \in BOOLEAN
  PROVE  PairKept(p, [p EXCEPT !.e = message_handled(@, soon)])
<1>1. Keeps(p.e, message_handled(p.e, soon))
  BY MessageHandled, FlagFields
<1>2. QED BY <1>1, NewEngine DEF GoodPair, Pairs

(* A whole MSP message: received, handled, and what comes after.           *)
LEMMA HandleSerialKept ==
  ASSUME NEW p, GoodPair(p), NEW m \in Message, NEW f \in FCKind,
         NEW arm \in BOOLEAN, NEW err \in BOOLEAN, NEW soon \in BOOLEAN
  PROVE  PairKept(p, handle_serial(p, m, f, arm, err, soon))
<1> DEFINE p1 == [p EXCEPT !.e = received(@, m.cmd, err),
                           !.st.seenMSP = TRUE, !.st.last_tm = 0]
           p2 == IF err THEN handle_msp_error(p1, m)
                        ELSE handle_msp(p1, m, f, arm)
<1>1. PairKept(p, p1)
  <2>1. Keeps(p.e, received(p.e, m.cmd, err))
    BY Received, FlagFields DEF Message
  <2>2. [p.st EXCEPT !.seenMSP = TRUE, !.last_tm = 0] \in Flags
    BY FlagValues DEF GoodPair, Pairs, Flags
  <2>3. PairKept(p, [p EXCEPT !.e = received(p.e, m.cmd, err),
                      !.st = [p.st EXCEPT !.seenMSP = TRUE, !.last_tm = 0]])
    BY <2>1, <2>2, NewBoth
  <2>4. p1 = [p EXCEPT !.e = received(p.e, m.cmd, err),
                       !.st = [p.st EXCEPT !.seenMSP = TRUE, !.last_tm = 0]]
    BY DEF GoodPair, Pairs
  <2>5. QED BY <2>3, <2>4
<1> HIDE DEF p1
<1>2. PairKept(p, p2)
  BY <1>1, HandleMspKept, MspErrorKept, KeptTrans DEF PairKept
<1>3. handle_serial(p, m, f, arm, err, soon)
        = [p2 EXCEPT !.e = message_handled(@, soon)]
  BY DEF handle_serial, p1
<1> HIDE DEF p2
<1>4. QED BY <1>2, <1>3, MessageHandledKept, KeptTrans DEF PairKept

(* An LTM frame; the first that says disarmed wakes the poller.            *)
LEMMA LtmKept ==
  ASSUME NEW p, GoodPair(p), NEW says \in {"nothing", "armed", "disarmed"}
  PROVE  PairKept(p, handle_ltm(p, says))
<1> DEFINE p1 == [p EXCEPT !.st.dac = TRUE]
           p2 == [p1 EXCEPT !.e.armed = FALSE]
           p3 == [p EXCEPT !.e.armed = TRUE, !.st.dac = FALSE]
<1>1. \/ handle_ltm(p, says) = p   \/ handle_ltm(p, says) = p3
      \/ handle_ltm(p, says) = p1  \/ handle_ltm(p, says) = Reset(p2)
  BY DEF handle_ltm
<1>2. PairKept(p, p1)
  <2>1. [p.st EXCEPT !.dac = TRUE] \in Flags
    BY DEF GoodPair, Pairs, Flags
  <2>2. QED BY <2>1, NewFlags DEF GoodPair, Pairs
<1>3. PairKept(p, p3)
  <2>1. Keeps(p.e, [p.e EXCEPT !.armed = TRUE])
    BY ZenonT(60) DEF GoodPair, Pairs, Keeps, Good, PollListOK, Engine
  <2>2. [p.st EXCEPT !.dac = FALSE] \in Flags
    BY DEF GoodPair, Pairs, Flags
  <2>3. PairKept(p, [p EXCEPT !.e = [p.e EXCEPT !.armed = TRUE],
                              !.st = [p.st EXCEPT !.dac = FALSE]])
    BY <2>1, <2>2, NewBoth
  <2>4. QED BY <2>3 DEF GoodPair, Pairs
<1> HIDE DEF p1, p3
<1>4. PairKept(p1, p2)
  <2>1. GoodPair(p1) /\ Good(p1.e)
    BY <1>2 DEF PairKept, GoodPair
  <2>2. Keeps(p1.e, [p1.e EXCEPT !.armed = FALSE])
    <3> DEFINE e == p1.e
               e1 == [e EXCEPT !.armed = FALSE]
    <3>1. e \in Engine /\ PollListOK(e)
      BY <2>1 DEF Good
    <3> HIDE DEF e
    <3>2. e1 \in Engine
      BY <3>1, ZenonT(30) DEF Engine
    <3>3. /\ e1.requests = e.requests /\ e1.avail = e.avail
          /\ e1.serstate = e.serstate
      BY <3>1, SMTT(30) DEF Engine
    <3> HIDE DEF e1
    <3>4. Keeps(e, e1)
      BY <3>1, <3>2, <3>3 DEF Keeps, Good, PollListOK
    <3>5. QED BY <3>4 DEF e, e1
  <2>3. QED BY <2>1, <2>2, NewEngine DEF GoodPair, Pairs
<1> HIDE DEF p2
<1>5. PairKept(p, Reset(p2))
  BY <1>2, <1>4, ResetKept, KeptTrans DEF PairKept
<1>6. QED BY <1>1, <1>2, <1>3, <1>5 DEF PairKept

(* A MAVLink frame.                                                        *)
LEMMA MavlinkKept ==
  ASSUME NEW p, GoodPair(p), NEW says
  PROVE  PairKept(p, handle_mavlink(p, says))
<1> DEFINE b == (says = "armed")
<1>1. b \in BOOLEAN
  OBVIOUS
<1>2. handle_mavlink(p, says) = IF says = "nothing" THEN p
                                ELSE [p EXCEPT !.e.armed = b]
  BY DEF handle_mavlink
<1> HIDE DEF b
<1>3. Keeps(p.e, [p.e EXCEPT !.armed = b])
  BY <1>1, ZenonT(60) DEF GoodPair, Pairs, Keeps, Good, PollListOK, Engine
<1>4. PairKept(p, [p EXCEPT !.e.armed = b])
  BY <1>3, NewEngine DEF GoodPair, Pairs
<1>5. QED BY <1>2, <1>4 DEF PairKept

(* Telemetry takes over.                                                   *)
LEMMA TelemInitKept ==
  ASSUME NEW p, GoodPair(p)
  PROVE  PairKept(p, telem_init(p))
<1> DEFINE a == FirstFrameAge(p.st.nticks)
<1>1. a \in TmAges
  BY FlagFields, TimesAssumption
  DEF TimesAssumption, FirstFrameAge, TmAges, Ticks, TickMax
<1>2. telem_init(p) = [p EXCEPT !.e.serstate = "TELEM", !.st.last_tm = a]
  BY DEF telem_init
<1> HIDE DEF a
<1>3. Keeps(p.e, [p.e EXCEPT !.serstate = "TELEM"])
  BY ZenonT(60) DEF GoodPair, Pairs, Keeps, Good, PollListOK, Engine, SERSTATE
<1>4. [p.st EXCEPT !.last_tm = a] \in Flags
  BY <1>1, FlagFields DEF Flags
<1>5. PairKept(p, [p EXCEPT !.e = [p.e EXCEPT !.serstate = "TELEM"],
                            !.st = [p.st EXCEPT !.last_tm = a]])
  BY <1>3, <1>4, NewBoth
<1>6. QED BY <1>2, <1>5 DEF GoodPair, Pairs

(* A whole telemetry frame.                                                *)
LEMMA TelemetryKept ==
  ASSUME NEW p, GoodPair(p), NEW ltm \in BOOLEAN,
         NEW says \in {"nothing", "armed", "disarmed"}
  PROVE  PairKept(p, handle_telemetry(p, ltm, says))
<1> DEFINE b  == p.st.nopoll \/ ~p.st.seenMSP
           p0 == [p EXCEPT !.st.nopoll = b]
           p1 == IF ltm THEN handle_ltm(p0, says) ELSE handle_mavlink(p, says)
           a  == IF p.st.nticks > 0 THEN 1 ELSE p1.st.last_tm
           p3 == [p1 EXCEPT !.st.last_tm = a]
           p2 == IF p.st.last_tm = 0 THEN telem_init(p1) ELSE p3
<1>1. b \in BOOLEAN
  OBVIOUS
<1>2. handle_telemetry(p, ltm, says)
        = [p2 EXCEPT !.e = message_handled([@ EXCEPT !.rxage = 0], FALSE)]
  BY DEF handle_telemetry
<1> HIDE DEF b
<1>3. PairKept(p, p0)
  <2>1. [p.st EXCEPT !.nopoll = b] \in Flags
    BY <1>1, FlagFields DEF Flags
  <2>2. QED BY <2>1, NewFlags DEF GoodPair, Pairs
<1> HIDE DEF p0
<1>4. PairKept(p, p1)
  BY <1>3, LtmKept, MavlinkKept, KeptTrans DEF PairKept
<1> HIDE DEF p1
<1>5. GoodPair(p1) /\ a \in TmAges
  BY <1>4, FlagFields, FlagValues DEF PairKept
<1> HIDE DEF a
<1>6. PairKept(p1, p3)
  <2>1. [p1.st EXCEPT !.last_tm = a] \in Flags
    BY <1>5, FlagFields DEF Flags
  <2>2. QED BY <1>5, <2>1, NewFlags DEF GoodPair, Pairs
<1> HIDE DEF p3
<1>7. PairKept(p, p2)
  BY <1>4, <1>5, <1>6, TelemInitKept, KeptTrans
<1> HIDE DEF p2
<1>8. Keeps(p2.e, [p2.e EXCEPT !.rxage = 0])
  <2>1. Good(p2.e)
    BY <1>7 DEF PairKept, GoodPair
  <2>2. QED BY <2>1, SmallNumbers, ZenonT(60) DEF Keeps, Good, PollListOK, Engine
<1>9. Keeps(p2.e, message_handled([p2.e EXCEPT !.rxage = 0], FALSE))
  BY <1>8, MessageHandled DEF Keeps
<1>10. PairKept(p2, [p2 EXCEPT !.e =
                       message_handled([p2.e EXCEPT !.rxage = 0], FALSE)])
  BY <1>7, <1>9, NewEngine DEF PairKept
<1>11. QED BY <1>2, <1>7, <1>10, KeptTrans

----------------------------------------------------------------------------
(* The supervision timer.                                                  *)
LEMMA RestartPollLoopKept ==
  ASSUME NEW p, GoodPair(p)
  PROVE  PairUp(p, restart_poll_loop(p))
  BY SerialResetKept, BeginNormalKept DEF restart_poll_loop, PairKept, PairUp

(* The telemetry has stopped: back to MSP.                                 *)
LEMMA TelemetryTimeoutKept ==
  ASSUME NEW p, GoodPair(p)
  PROVE  PairUp(p, restart_on_telemetry_timeout(p))
<1> DEFINE e1 == [p.e EXCEPT !.serstate = "NORMAL", !.lastpoll = "NOOP"]
           s1 == [p.st EXCEPT !.have_status = FALSE, !.identified = FALSE,
                              !.last_tm = 0]
           p1 == [p EXCEPT !.e.serstate = "NORMAL", !.e.lastpoll = "NOOP",
                           !.st.have_status = FALSE, !.st.identified = FALSE,
                           !.st.last_tm = 0]
<1>1. Good(e1) /\ e1.avail = p.e.avail
  BY ZenonT(60) DEF GoodPair, Pairs, Good, PollListOK, Engine, SERSTATE
<1>2. s1 \in Flags
  BY FlagValues, ZenonT(60) DEF GoodPair, Pairs, Flags
<1>3. p1 = [p EXCEPT !.e = e1, !.st = s1]
  BY DEF GoodPair, Pairs
<1>4. restart_on_telemetry_timeout(p) = Run(AskStatus(p1))
  BY DEF restart_on_telemetry_timeout
<1> HIDE DEF p1, e1, s1
<1>5. PairUp(p, p1)
  BY <1>1, <1>2, <1>3 DEF PairUp, GoodPair, Pairs, Good
<1>6. PairUp(p, AskStatus(p1))
  BY <1>5, AskStatusKept DEF PairKept, PairUp
<1>7. QED BY <1>4, <1>6, RunKept DEF PairKept, PairUp

(* An unanswered command: sent again, or the device is given up.           *)
LEMMA OnTimeoutKept ==
  ASSUME NEW p, GoodPair(p)
  PROVE  PairKept(p, on_timeout(p))
<1> DEFINE n  == p.st.idcount + 1
           c1 == [p EXCEPT !.st.idcount = n]
           c2 == [p EXCEPT !.st.idcount = 0, !.e.closing = TRUE]
           p1 == CASE p.e.lastmsg.cmd # "IDENT" -> p
                   [] p.e.lastmsg.cmd = "IDENT" /\ n # IdentLimit -> c1
                   [] p.e.lastmsg.cmd = "IDENT" /\ n = IdentLimit -> c2
<1>1. n \in Int /\ 0 \in Int /\ p.st \in Flags
  BY FlagFields
<1>2. on_timeout(p) = [p1 EXCEPT !.e = poll_timeout(@)]
  BY DEF on_timeout
<1> HIDE DEF n
<1>3. PairKept(p, c1)
  <2>1. [p.st EXCEPT !.idcount = n] \in Flags
    BY <1>1 DEF Flags
  <2>2. QED BY <2>1, NewFlags DEF GoodPair, Pairs
<1>4. PairKept(p, c2)
  <2>1. [p.st EXCEPT !.idcount = 0] \in Flags
    BY <1>1, Zenon DEF Flags
  <2>2. Keeps(p.e, [p.e EXCEPT !.closing = TRUE])
    BY DEF GoodPair, Pairs, Keeps, Good, PollListOK, Engine
  <2>3. PairKept(p, [p EXCEPT !.e = [p.e EXCEPT !.closing = TRUE],
                              !.st = [p.st EXCEPT !.idcount = 0]])
    BY <2>1, <2>2, NewBoth
  <2>4. QED BY <2>3 DEF GoodPair, Pairs
<1> HIDE DEF c1, c2
<1>5. PairKept(p, p1)
  BY <1>3, <1>4 DEF PairKept
<1> HIDE DEF p1
<1>6. Keeps(p1.e, poll_timeout(p1.e))
  BY <1>5, FlagFields, TimeoutBranch DEF PairKept
<1>7. PairKept(p1, [p1 EXCEPT !.e = poll_timeout(p1.e)])
  BY <1>5, <1>6, NewEngine DEF PairKept
<1>8. QED BY <1>2, <1>5, <1>7, KeptTrans

(* Time passing keeps the types and moves nothing.                         *)
LEMMA ElapsedKept ==
  ASSUME NEW p, GoodPair(p), NEW d \in SUBSET RateLimited
  PROVE  /\ PairKept(p, elapsed(p, d))
         /\ elapsed(p, d).e.serstate = p.e.serstate
         /\ elapsed(p, d).e.wire = p.e.wire
<1> DEFINE n == IF p.st.nticks < TickMax THEN p.st.nticks + 1 ELSE p.st.nticks
           a == IF p.st.last_tm \in 1 .. (MavIntvl + 1)
                THEN p.st.last_tm + 1 ELSE p.st.last_tm
           o == Older(p.e.okage)
           r == Older(p.e.rxage)
           u == p.e.due \cup d
           e1 == [p.e EXCEPT !.okage = o, !.rxage = r, !.due = u]
           s1 == [p.st EXCEPT !.nticks = n, !.last_tm = a]
<1>1. p.e \in Engine /\ p.st \in Flags /\ Good(p.e)
  BY FlagFields
<1>2. p.e.okage \in Ages /\ p.e.rxage \in Ages /\ p.e.due \in SUBSET RateLimited
  BY <1>1 DEF Engine
<1>3. o \in Ages /\ r \in Ages
  BY <1>2, SmallNumbers DEF Older, Ages
<1>4. n \in Ticks /\ a \in TmAges
  BY FlagFields, TimesAssumption DEF TimesAssumption, Ticks, TickMax, TmAges
<1>5. u \in SUBSET RateLimited
  BY <1>2
<1>6. elapsed(p, d) = [p EXCEPT !.e = e1, !.st = s1]
  BY ZenonT(60) DEF elapsed, GoodPair, Pairs, Engine, Flags
<1> HIDE DEF n, a, o, r, u
<1>7. Keeps(p.e, e1) /\ e1.serstate = p.e.serstate /\ e1.wire = p.e.wire
  BY <1>1, <1>3, <1>5, ZenonT(60) DEF Keeps, Good, PollListOK, Engine
<1>8. s1 \in Flags
  BY <1>1, <1>4 DEF Flags
<1> HIDE DEF e1, s1
<1>9. [p EXCEPT !.e = e1, !.st = s1].e = e1
  BY DEF GoodPair, Pairs
<1>10. PairKept(p, [p EXCEPT !.e = e1, !.st = s1])
  BY <1>7, <1>8, NewBoth
<1> DEFINE q == [p EXCEPT !.e = e1, !.st = s1]
<1>11. elapsed(p, d) = q /\ PairKept(p, q) /\ q.e = e1
  BY <1>6, <1>9, <1>10
<1> HIDE DEF q
<1>12. QED BY <1>7, <1>11

(* The whole timer. It begins no conversation in an engine at rest.        *)
LEMMA PollTimerKept ==
  ASSUME NEW p, GoodPair(p)
  PROVE  /\ PairUp(p, poll_timer(p)) /\ (~p.e.avail => poll_timer(p) = p)
         /\ p.e.serstate = "NONE" => poll_timer(p).e.serstate # "NORMAL"
<1> DEFINE z == [p EXCEPT !.e.okage = 0, !.e.rxage = 0]
<1>1. PairKept(p, z)
  <2>1. Keeps(p.e, [p.e EXCEPT !.okage = 0, !.rxage = 0])
    BY SmallNumbers DEF GoodPair, Pairs, Keeps, Good, PollListOK, Engine
  <2>2. PairKept(p, [p EXCEPT !.e = [p.e EXCEPT !.okage = 0, !.rxage = 0]])
    BY <2>1, NewEngine
  <2>3. QED BY <2>2 DEF GoodPair, Pairs
<1>2. p.e.avail \in BOOLEAN
  BY FlagFields, Fields
<1>3. /\ PairUp(p, restart_on_telemetry_timeout(p))
      /\ PairUp(p, restart_poll_loop(p)) /\ PairUp(p, on_timeout(p))
      /\ PairUp(p, p)
  BY TelemetryTimeoutKept, RestartPollLoopKept, OnTimeoutKept DEF PairKept, PairUp
<1>4. CASE ~p.e.avail
  BY <1>3, <1>4 DEF poll_timer
<1>5. CASE p.e.avail /\ p.e.serstate = "NONE"
  BY <1>1, <1>5 DEF poll_timer, PairKept, PairUp
<1>6. CASE p.e.avail /\ p.e.serstate = "TELEM"
  BY <1>3, <1>6 DEF poll_timer
<1>7. CASE p.e.avail /\ p.e.serstate \notin {"NONE", "TELEM"}
  BY <1>3, <1>7 DEF poll_timer
<1>8. QED BY <1>2, <1>4, <1>5, <1>6, <1>7

----------------------------------------------------------------------------
(* The device.                                                             *)
Quiet(e) == ~e.avail => e.serstate = "NONE" /\ e.wire = << >>

(* connect_serial puts the engine at rest before the device is open.       *)
LEMMA ConnectSerialKept ==
  ASSUME NEW p, GoodPair(p), Quiet(p.e)
  PROVE  GoodPair(connect_serial(p)) /\ Quiet(connect_serial(p).e)
<1> DEFINE e1 == [p.e EXCEPT !.serstate = "NONE"]
           s1 == [p.st EXCEPT !.opening = p.st.opening + 1]
<1>1. Keeps(p.e, e1) /\ e1.serstate = "NONE" /\ e1.wire = p.e.wire
  BY ZenonT(60) DEF GoodPair, Pairs, Keeps, Good, PollListOK, Engine, SERSTATE
<1>2. s1 \in Flags
  <2>1. p.st.opening + 1 \in Nat
    BY FlagFields
  <2>2. QED BY <2>1, FlagFields DEF Flags
<1>3. connect_serial(p) = [p EXCEPT !.e = e1, !.st = s1]
  BY DEF connect_serial, GoodPair, Pairs, Flags
<1> HIDE DEF e1, s1
<1>4. PairKept(p, [p EXCEPT !.e = e1, !.st = s1])
  BY <1>1, <1>2, NewBoth
<1>5. [p EXCEPT !.e = e1, !.st = s1].e = e1
  BY DEF GoodPair, Pairs
<1>6. Quiet(e1)
  BY <1>1 DEF Quiet, Keeps
<1>7. QED BY <1>3, <1>4, <1>5, <1>6 DEF PairKept

(* The device is open: everything is reset, then IDENT or telemetry.       *)
LEMMA CompleteSetupKept ==
  ASSUME NEW p, GoodPair(p), p.st.opening > 0, NEW mode
  PROVE  /\ GoodPair(serial_complete_setup(p, mode))
         /\ serial_complete_setup(p, mode).e.avail
<1> DEFINE n  == p.st.opening - 1
           b  == (mode = "listen")
           e1 == [p.e EXCEPT !.avail = TRUE, !.closing = FALSE, !.wire = << >>]
           s1 == [p.st EXCEPT !.nopoll = b, !.button = TRUE, !.opening = n]
           q  == [p EXCEPT !.e = e1, !.st = s1]
           p1 == serial_reset(q)
<1>1. n \in Nat /\ b \in BOOLEAN
  BY FlagFields
<1>2. [p EXCEPT !.e.avail = TRUE, !.e.closing = FALSE, !.e.wire = << >>,
                !.st.nopoll = (mode = "listen"), !.st.button = TRUE,
                !.st.opening = @ - 1] = q
  BY ZenonT(60) DEF GoodPair, Pairs, Flags
<1>3. serial_complete_setup(p, mode) =
        IF mode = "MSP" THEN begin_normal(p1)
                        ELSE [p1 EXCEPT !.e.serstate = "TELEM"]
  BY <1>2 DEF serial_complete_setup
<1> HIDE DEF n, b
<1>4. e1 \in Engine /\ Good(e1) /\ e1.avail = TRUE
  <2>1. << >> \in Seq(Message)
    OBVIOUS
  <2>2. QED BY <2>1, ZenonT(60) DEF GoodPair, Pairs, Good, PollListOK, Engine
<1>5. s1 \in Flags
  BY <1>1 DEF GoodPair, Pairs, Flags
<1> HIDE DEF e1, s1
<1>6. GoodPair(q) /\ q.e.avail = TRUE
  BY <1>4, <1>5 DEF GoodPair, Pairs
<1> HIDE DEF q
<1>7. GoodPair(p1) /\ p1.e.avail = TRUE
  BY <1>6, SerialResetKept DEF PairKept
<1> HIDE DEF p1
<1>8. PairUp(p1, begin_normal(p1))
  BY <1>7, BeginNormalKept
<1>9. PairKept(p1, [p1 EXCEPT !.e.serstate = "TELEM"])
  <2>0. Good(p1.e)
    BY <1>7, FlagFields
  <2>1. Keeps(p1.e, [p1.e EXCEPT !.serstate = "TELEM"])
    BY <2>0, ZenonT(60) DEF Keeps, Good, PollListOK, Engine, SERSTATE
  <2>2. PairKept(p1, [p1 EXCEPT !.e = [p1.e EXCEPT !.serstate = "TELEM"]])
    BY <1>7, <2>1, NewEngine
  <2>3. QED BY <1>7, <2>2 DEF GoodPair, Pairs
<1>10. QED BY <1>3, <1>7, <1>8, <1>9 DEF PairKept, PairUp

(* close_serial leaves a quiet engine.                                     *)
LEMMA CloseSerialKept ==
  ASSUME NEW p, GoodPair(p)
  PROVE  GoodPair(close_serial(p)) /\ Quiet(close_serial(p).e)
<1> DEFINE e1 == [p.e EXCEPT !.serstate = "NONE", !.avail = FALSE,
                             !.closing = FALSE, !.wire = << >>]
           s1 == [p.st EXCEPT !.nopoll = FALSE, !.last_tm = 0, !.button = TRUE]
<1>1. Good(e1) /\ e1.serstate = "NONE" /\ e1.wire = << >>
  <2>1. /\ << >> \in Seq(Message) /\ "NONE" \in SERSTATE
        /\ p.e \in Engine /\ PollListOK(p.e)
    BY DEF GoodPair, Pairs, Good, SERSTATE
  <2>2. e1 \in Engine
    BY <2>1, ZenonT(30) DEF Engine
  <2>3. e1.requests = p.e.requests /\ e1.serstate = "NONE" /\ e1.wire = << >>
    BY <2>1 DEF Engine
  <2> HIDE DEF e1
  <2>4. QED BY <2>1, <2>2, <2>3 DEF Good, PollListOK
<1>2. s1 \in Flags
  BY FlagValues DEF GoodPair, Pairs, Flags
<1>3. close_serial(p) = [p EXCEPT !.e = e1, !.st = s1]
  BY ZenonT(60) DEF close_serial, GoodPair, Pairs
<1> HIDE DEF e1, s1
<1>4. GoodPair([p EXCEPT !.e = e1, !.st = s1])
      /\ [p EXCEPT !.e = e1, !.st = s1].e = e1
  BY <1>1, <1>2 DEF GoodPair, Pairs, Good
<1>5. QED BY <1>1, <1>3, <1>4 DEF Quiet

(* A deferred poll that fires after the device went down sends nothing.    *)
LEMMA NextPollQuiet ==
  ASSUME NEW e, Good(e), Quiet(e)
  PROVE  Good(next_poll(e)) /\ Quiet(next_poll(e))
<1>1. Keeps(e, next_poll(e))
  BY NextPoll
<1>2. CASE e.avail
  BY <1>1, <1>2 DEF Keeps, Quiet
<1>3. CASE ~e.avail
  <2> DEFINE e1 == [e EXCEPT !.tcycle = (e.tcycle + 1) % Len(e.requests)]
  <2>1. e1.avail = e.avail /\ e1.serstate = e.serstate /\ e1.wire = e.wire
    BY DEF Good, Engine
  <2>2. next_poll(e) = IF e.requests = << >> THEN [e EXCEPT !.divzero = TRUE]
                       ELSE run_queue(send_poll(e1))
    BY DEF next_poll
  <2> HIDE DEF e1
  <2>3. send_poll(e1) = e1
    BY <1>3, <2>1 DEF send_poll, Quiet
  <2>4. run_queue(e1) = e1
    BY <1>3, <2>1 DEF run_queue
  <2>5. /\ [e EXCEPT !.divzero = TRUE].serstate = e.serstate
        /\ [e EXCEPT !.divzero = TRUE].wire = e.wire
    BY DEF Good, Engine
  <2>6. QED BY <1>1, <1>3, <2>1, <2>2, <2>3, <2>4, <2>5 DEF Quiet, Keeps
<1>4. QED BY <1>2, <1>3

----------------------------------------------------------------------------
(* The inductive invariant. TypeOK alone is not inductive: what send_poll  *)
(* stores is typed only if its skip loop ends, and that is SkipLoopEnds.   *)
IInv == TypeOK /\ SkipLoopEnds /\ DownIsQuiet

(* The invariant in the terms of the lemmas above.                         *)
LEMMA NowIsGood ==
  IInv <=> /\ GoodPair(Now) /\ Quiet(eng)
           /\ fc \in FCKind /\ env \in Env
  BY DEF IInv, TypeOK, SkipLoopEnds, DownIsQuiet, GoodPair, Pairs, Good,
         Quiet, Now, Pair

(* A step to a good pair whose device is quiet when it is down.            *)
LEMMA StepTo ==
  ASSUME NEW q, GoodPair(q), Quiet(q.e), Becomes(q),
         fc' \in FCKind, env' \in Env
  PROVE  IInv'
  BY DEF Becomes, IInv, TypeOK, SkipLoopEnds, DownIsQuiet, GoodPair, Pairs,
         Good, Quiet, PollListOK

(* What the environment may still do is counted down to 0.                 *)
LEMMA EnvStep ==
  ASSUME env \in Env
  PROVE  /\ env.breaks > 0 => [env EXCEPT !.breaks = @ - 1] \in Env
         /\ env.frames > 0 => [env EXCEPT !.frames = @ - 1] \in Env
         /\ env.user > 0 => [env EXCEPT !.user = @ - 1] \in Env
  BY DEF Env

(* A handler that keeps the pair, from a pair whose device is up.          *)
LEMMA KeptUp ==
  ASSUME NEW p, NEW q, PairKept(p, q), p.e.avail
  PROVE  GoodPair(q) /\ Quiet(q.e)
  BY DEF PairKept, Quiet

(* An idle engine, before the first connect, satisfies the invariant.      *)
THEOREM InitEstablishes == Init => IInv
<1> SUFFICES ASSUME Init PROVE IInv
  OBVIOUS
<1>1. eng \in Engine /\ eng.requests = << >> /\ Quiet(eng)
  <2>1. << >> \in Seq(Message) /\ << >> \in Seq(PollCmds \cup {"NOOP"})
        /\ {} \in SUBSET RateLimited /\ "NONE" \in SERSTATE
    BY DEF SERSTATE
  <2>2. IdleEngine \in Engine
    BY <2>1, SmallNumbers DEF IdleEngine, Engine
  <2>3. QED BY <2>2 DEF Init, IdleEngine, Quiet
<1>2. st \in Flags
  BY FlagValues DEF Init, InitFlags, Flags
<1>3. fc \in FCKind
  BY WorldAssumption DEF WorldAssumption, Init
<1>4. env \in Env
  BY WorldAssumption DEF WorldAssumption, Init
<1>5. QED
  BY <1>1, <1>2, <1>3, <1>4
  DEF IInv, TypeOK, SkipLoopEnds, PollListOK, DownIsQuiet, Quiet

(* One step per action.                                                    *)
THEOREM NextPreserves == IInv /\ [Next]_vars => IInv'
<1> SUFFICES ASSUME IInv, [Next]_vars PROVE IInv'
  OBVIOUS
<1>0. /\ GoodPair(Now) /\ Quiet(eng) /\ fc \in FCKind /\ env \in Env
      /\ Now.e = eng /\ Now.st = st /\ eng \in Engine /\ st \in Flags
      /\ Good(eng)
  BY NowIsGood DEF Now, Pair, GoodPair, Pairs
<1>1. CASE Connect
  <2> DEFINE p == [Now EXCEPT !.st.button = FALSE]
  <2>1. GoodPair(p) /\ p.e = eng
    <3>1. [st EXCEPT !.button = FALSE] \in Flags
      BY <1>0, ZenonT(60) DEF Flags
    <3>2. PairKept(Now, [Now EXCEPT !.st = [st EXCEPT !.button = FALSE]])
      BY <1>0, <3>1, NewFlags
    <3>3. QED BY <1>0, <3>2 DEF PairKept, Now, Pair
  <2>2. GoodPair(connect_serial(p)) /\ Quiet(connect_serial(p).e)
    BY <1>0, <2>1, ConnectSerialKept
  <2>3. Becomes(connect_serial(p)) /\ fc' = fc /\ env' = env
    BY <1>1 DEF Connect
  <2> HIDE DEF p
  <2>4. QED BY <1>0, <2>2, <2>3, StepTo
<1>2. CASE ConnectRefused
  <2> DEFINE q == [Now EXCEPT !.st.button = FALSE, !.e.serstate = "NONE"]
  <2>1. GoodPair(q) /\ Quiet(q.e)
    <3>1. [st EXCEPT !.button = FALSE] \in Flags
      BY <1>0, ZenonT(60) DEF Flags
    <3>2. Keeps(eng, [eng EXCEPT !.serstate = "NONE"])
          /\ Quiet([eng EXCEPT !.serstate = "NONE"])
      <4> DEFINE e1 == [eng EXCEPT !.serstate = "NONE"]
      <4>1. eng \in Engine /\ PollListOK(eng) /\ Quiet(eng)
        BY <1>0 DEF Good
      <4>2. e1 \in Engine
        BY <4>1, ZenonT(30) DEF Engine, SERSTATE
      <4>3. /\ e1.requests = eng.requests /\ e1.avail = eng.avail
            /\ e1.wire = eng.wire /\ e1.serstate = "NONE"
        BY <4>1, SMTT(30) DEF Engine
      <4> HIDE DEF e1
      <4>4. Keeps(eng, e1) /\ Quiet(e1)
        BY <4>1, <4>2, <4>3 DEF Keeps, Good, PollListOK, Quiet
      <4>5. QED BY <4>4 DEF e1
    <3>3. PairKept(Now, [Now EXCEPT !.e = [eng EXCEPT !.serstate = "NONE"],
                                    !.st = [st EXCEPT !.button = FALSE]])
      BY <1>0, <3>1, <3>2, NewBoth
    <3>4. q = [Now EXCEPT !.e = [eng EXCEPT !.serstate = "NONE"],
                          !.st = [st EXCEPT !.button = FALSE]]
          /\ q.e = [eng EXCEPT !.serstate = "NONE"]
      BY DEF Now, Pair
    <3>5. QED BY <3>2, <3>3, <3>4 DEF PairKept
  <2>2. Becomes(q) /\ fc' = fc /\ env' \in Env
    BY <1>0, <1>2, EnvStep DEF ConnectRefused
  <2> HIDE DEF q
  <2>3. QED BY <1>0, <2>1, <2>2, StepTo
<1>3. CASE OpenDone
  <2>1. PICK mode \in Modes : Becomes(serial_complete_setup(Now, mode))
    BY <1>3 DEF OpenDone
  <2>2. Now.st.opening > 0 /\ fc' = fc /\ env' = env
    BY <1>0, <1>3 DEF OpenDone
  <2> DEFINE q == serial_complete_setup(Now, mode)
  <2>3. GoodPair(q) /\ Quiet(q.e)
    BY <1>0, <2>2, CompleteSetupKept DEF Quiet
  <2>4. Becomes(q)
    BY <2>1
  <2> HIDE DEF q
  <2>5. QED BY <1>0, <2>2, <2>3, <2>4, StepTo
<1>4. CASE OpenFails
  <2> DEFINE q == [Now EXCEPT !.st.opening = @ - 1, !.st.button = TRUE,
                              !.e.armed = FALSE]
             s1 == [st EXCEPT !.opening = st.opening - 1, !.button = TRUE]
             e1 == [eng EXCEPT !.armed = FALSE]
  <2>1. s1 \in Flags
    <3>1. st.opening - 1 \in Nat
      BY <1>0, <1>4 DEF OpenFails, Flags
    <3>2. QED BY <1>0, <3>1, ZenonT(60) DEF Flags
  <2>2. Keeps(eng, e1) /\ Quiet(e1)
    BY <1>0, ZenonT(60) DEF Keeps, Good, PollListOK, Engine, Quiet
  <2>3. PairKept(Now, [Now EXCEPT !.e = e1, !.st = s1])
    <3> HIDE DEF e1, s1
    <3>1. QED BY <1>0, <2>1, <2>2, NewBoth
  <2>4. q = [Now EXCEPT !.e = e1, !.st = s1] /\ q.e = e1
    BY <1>0 DEF Now, Pair, Flags
  <2>5. Becomes(q) /\ fc' = fc /\ env' \in Env
    BY <1>0, <1>4, EnvStep DEF OpenFails
  <2> HIDE DEF q, e1, s1
  <2>6. QED BY <1>0, <2>2, <2>3, <2>4, <2>5, StepTo DEF PairKept
<1>5. CASE Disconnect
  <2> DEFINE q == [Now EXCEPT !.e.closing = TRUE, !.st.button = FALSE]
             s1 == [st EXCEPT !.button = FALSE]
             e1 == [eng EXCEPT !.closing = TRUE]
  <2>1. s1 \in Flags
    BY <1>0, ZenonT(60) DEF Flags
  <2>2. Keeps(eng, e1) /\ Quiet(e1)
    BY <1>0, ZenonT(60) DEF Keeps, Good, PollListOK, Engine, Quiet
  <2>3. q = [Now EXCEPT !.e = e1, !.st = s1] /\ q.e = e1
    BY <1>0 DEF Now, Pair, Flags
  <2>4. Becomes(q) /\ fc' = fc /\ env' \in Env
    BY <1>0, <1>5, EnvStep DEF Disconnect
  <2> HIDE DEF q, e1, s1
  <2>5. PairKept(Now, [Now EXCEPT !.e = e1, !.st = s1])
    BY <1>0, <2>1, <2>2, NewBoth
  <2>6. QED BY <1>0, <2>2, <2>3, <2>4, <2>5, StepTo DEF PairKept
<1>6. CASE SerialLost
  <2>1. Becomes(close_serial(Now)) /\ fc' = fc /\ env' \in Env
    BY <1>0, <1>6, EnvStep DEF SerialLost
  <2>2. GoodPair(close_serial(Now)) /\ Quiet(close_serial(Now).e)
    BY <1>0, CloseSerialKept
  <2>3. QED BY <1>0, <2>1, <2>2, StepTo
<1>7. CASE TryReopen
  <2> DEFINE p == [Now EXCEPT !.st.reopen = FALSE]
  <2>1. GoodPair(p) /\ p.e = eng
    <3>1. [st EXCEPT !.reopen = FALSE] \in Flags
      BY <1>0, ZenonT(60) DEF Flags
    <3>2. PairKept(Now, [Now EXCEPT !.st = [st EXCEPT !.reopen = FALSE]])
      BY <1>0, <3>1, NewFlags
    <3>3. QED BY <1>0, <3>2 DEF PairKept, Now, Pair
  <2>2. Becomes(try_reopen(p)) /\ fc' = fc /\ env' = env
    BY <1>7 DEF TryReopen
  <2> HIDE DEF p
  <2>3. GoodPair(connect_serial(p)) /\ Quiet(connect_serial(p).e)
    BY <1>0, <2>1, ConnectSerialKept
  <2>4. GoodPair(try_reopen(p)) /\ Quiet(try_reopen(p).e)
    BY <1>0, <2>1, <2>3 DEF try_reopen
  <2>5. QED BY <1>0, <2>2, <2>4, StepTo
<1>8. CASE Answer
  <2> DEFINE m == Head(eng.wire)
             p == [Now EXCEPT !.e.wire = Tail(@)]
  <2>1. PICK arm \in Arms(m), soon \in BOOLEAN :
          Becomes(handle_serial(p, m, fc, arm, Rejects(fc, m), soon))
    BY <1>8 DEF Answer
  <2>2. eng.avail /\ eng.wire # << >> /\ fc' = fc /\ env' = env
    BY <1>8 DEF Answer
  <2>3. m \in Message /\ Tail(eng.wire) \in Seq(Message)
    BY <1>0, <2>2, Fields
  <2>4. GoodPair(p) /\ p.e.avail
    <3>1. Keeps(eng, [eng EXCEPT !.wire = Tail(eng.wire)])
      BY <1>0, <2>3, ZenonT(60) DEF Keeps, Good, PollListOK, Engine
    <3>2. PairKept(Now, [Now EXCEPT !.e = [eng EXCEPT !.wire = Tail(eng.wire)]])
      BY <1>0, <3>1, NewEngine
    <3>3. QED BY <1>0, <2>2, <3>2 DEF PairKept, Now, Pair
  <2>5. arm \in BOOLEAN
    BY <2>1 DEF Arms
  <2>6. Rejects(fc, m) \in BOOLEAN
    BY DEF Rejects
  <2> DEFINE q == handle_serial(p, m, fc, arm, Rejects(fc, m), soon)
  <2>7. Becomes(q)
    BY <2>1
  <2> HIDE DEF m, p
  <2>8. PairKept(p, q)
    BY <1>0, <2>3, <2>4, <2>5, <2>6, HandleSerialKept
  <2> HIDE DEF q
  <2>9. QED BY <1>0, <2>2, <2>4, <2>7, <2>8, KeptUp, StepTo
<1>9. CASE Lose
  <2> DEFINE e1 == [eng EXCEPT !.wire = Tail(eng.wire)]
  <2>1. eng.wire # << >> /\ eng' = e1 /\ st' = st /\ fc' = fc /\ env' = env
    BY <1>9 DEF Lose
  <2>2. Tail(eng.wire) \in Seq(Message)
    BY <1>0, <2>1, Fields
  <2>3. Good(e1) /\ Quiet(e1)
    BY <1>0, <2>1, <2>2, ZenonT(60) DEF Good, PollListOK, Engine, Quiet
  <2> HIDE DEF e1
  <2>4. QED
    BY <1>0, <2>1, <2>3
    DEF IInv, TypeOK, SkipLoopEnds, DownIsQuiet, Good, PollListOK, Quiet
<1>10. CASE FcDies
  <2>1. fc' \in FCKind /\ env' \in Env /\ eng' = eng /\ st' = st
    <3>1. [fc EXCEPT !.silent = TRUE] \in FCKind
      BY <1>0 DEF FCKind
    <3>2. QED BY <1>0, <1>10, <3>1, EnvStep DEF FcDies
  <2>2. QED
    BY <1>0, <2>1
    DEF IInv, TypeOK, SkipLoopEnds, DownIsQuiet, Good, PollListOK, Quiet
<1>11. CASE Frame
  <2>1. PICK ltm \in BOOLEAN, says \in {"nothing", "armed", "disarmed"} :
          Becomes(handle_telemetry(Now, ltm, says))
    BY <1>11 DEF Frame
  <2>2. Now.e.avail /\ fc' = fc /\ env' \in Env
    BY <1>0, <1>11, EnvStep DEF Frame
  <2> DEFINE q == handle_telemetry(Now, ltm, says)
  <2>3. PairKept(Now, q) /\ Becomes(q)
    BY <1>0, <2>1, TelemetryKept
  <2> HIDE DEF q
  <2>4. QED BY <1>0, <2>2, <2>3, KeptUp, StepTo
<1>12. CASE UserReboot
  <2>1. Now.e.avail /\ Becomes(AskFor(Now, "REBOOT")) /\ fc' = fc
        /\ env' \in Env
    BY <1>0, <1>12, EnvStep DEF UserReboot
  <2>2. PairKept(Now, AskFor(Now, "REBOOT"))
    BY <1>0, AskForKept DEF Cmds, BulkCmds
  <2>3. QED BY <1>0, <2>1, <2>2, KeptUp, StepTo
<1>13. CASE NextPollFires
  <2> DEFINE e1 == [eng EXCEPT !.pend = eng.pend - 1]
  <2>1. eng.pend > 0 /\ eng' = next_poll(e1) /\ st' = st /\ fc' = fc
        /\ env' = env
    BY <1>13 DEF NextPollFires
  <2>2. Good(e1) /\ Quiet(e1)
    <3>1. eng.pend - 1 \in Nat
      BY <1>0, <2>1 DEF Engine
    <3>2. QED BY <1>0, <3>1, ZenonT(60) DEF Good, PollListOK, Engine, Quiet
  <2> HIDE DEF e1
  <2>3. Good(eng') /\ Quiet(eng')
    BY <2>1, <2>2, NextPollQuiet
  <2>4. QED
    BY <1>0, <2>1, <2>3
    DEF IInv, TypeOK, SkipLoopEnds, DownIsQuiet, Good, PollListOK, Quiet
<1>14. CASE Tick
  <2>1. PICK d \in SUBSET RateLimited : Becomes(poll_timer(elapsed(Now, d)))
    BY <1>14 DEF Tick
  <2>2. fc' = fc /\ env' = env
    BY <1>14 DEF Tick
  <2> DEFINE p == elapsed(Now, d)
  <2>3. PairKept(Now, p) /\ p.e.serstate = eng.serstate /\ p.e.wire = eng.wire
    BY <1>0, ElapsedKept
  <2>4. Becomes(poll_timer(p))
    BY <2>1
  <2> HIDE DEF p
  <2>5. GoodPair(p) /\ Quiet(p.e)
    BY <1>0, <2>3 DEF PairKept, Quiet
  <2>6. PairUp(p, poll_timer(p)) /\ (~p.e.avail => poll_timer(p) = p)
    BY <2>5, PollTimerKept
  <2>7. GoodPair(poll_timer(p)) /\ Quiet(poll_timer(p).e)
    BY <2>5, <2>6 DEF PairUp, Quiet
  <2>8. QED BY <1>0, <2>2, <2>4, <2>7, StepTo
<1>15. CASE UNCHANGED vars
  BY <1>0, <1>15
  DEF vars, IInv, TypeOK, SkipLoopEnds, DownIsQuiet, Good, PollListOK, Quiet
<1>16. QED
  BY <1>1, <1>2, <1>3, <1>4, <1>5, <1>6, <1>7, <1>8, <1>9, <1>10, <1>11,
     <1>12, <1>13, <1>14, <1>15 DEF Next

(* The session keeps its types, for every choice of the constants: no      *)
(* handler of the code leaves a flag, a queue or the poll list in a state  *)
(* that the next one cannot read.                                          *)
THEOREM TypeCorrect == Spec => []TypeOK
<1>1. IInv => TypeOK
  BY DEF IInv
<1>2. QED BY InitEstablishes, NextPreserves, <1>1, PTL DEF Spec

(* The do ... while (skip) loop of send_poll always ends: every poll list  *)
(* that build_pollreqs makes and that clear_poller_item empties of an item *)
(* still holds a status request.                                           *)
THEOREM SkipLoopAlwaysEnds == Spec => []SkipLoopEnds
<1>1. IInv => SkipLoopEnds
  BY DEF IInv
<1>2. QED BY InitEstablishes, NextPreserves, <1>1, PTL DEF Spec

(* Nothing is sent while the device is down, whatever timer still fires.   *)
THEOREM DownAlwaysQuiet == Spec => []DownIsQuiet
<1>1. IInv => DownIsQuiet
  BY DEF IInv
<1>2. QED BY InitEstablishes, NextPreserves, <1>1, PTL DEF Spec

----------------------------------------------------------------------------
(* A conversation begins with IDENT.                                       *)

(* With an empty mq the IDENT that begin_normal queues is what it sends.   *)
LEMMA IdentGoesFirst ==
  ASSUME NEW p, GoodPair(p), p.e.avail, p.e.mq = << >>
  PROVE  begin_normal(p).e.lastmsg = Msg("IDENT", 0)
<1> DEFINE m  == Msg("IDENT", 0)
           e1 == [p.e EXCEPT !.serstate = "NORMAL"]
           e2 == [e1 EXCEPT !.mq = Append(e1.mq, m)]
<1>1. p.e \in Engine
  BY FlagFields
<1>2. e1.avail /\ e1.mq = << >> /\ e1 \in Engine
  BY <1>1 DEF Engine, SERSTATE
<1>3. queue_cmd(e1, m) = e2
  BY <1>2 DEF queue_cmd
<1>4. begin_normal(p).e = run_queue(queue_cmd(e1, m))
  BY <1>1 DEF begin_normal, Run, AskFor, Ask, GoodPair, Pairs
<1> DEFINE l == <<m>>
<1>5. Append(<< >>, m) = l /\ Head(l) = m /\ l # << >>
  <2> HIDE DEF m
  <2>1. QED OBVIOUS
<1>6. e1.mq = << >>
  BY <1>2
<1> HIDE DEF m
<1>7. e2 = [e1 EXCEPT !.mq = l]
  BY <1>5, <1>6
<1> HIDE DEF l
<1>8. e2.avail /\ e2.mq = l /\ DOMAIN e2 = DOMAIN p.e
  BY <1>2, <1>7 DEF Engine
<1> HIDE DEF e1
<1>9. e2.mq # << >> /\ Head(e2.mq) = m
  BY <1>5, <1>8
<1> HIDE DEF e2
<1>10. run_queue(e2).lastmsg = m
  <2>1. DOMAIN e2 = DOMAIN p.e /\ "lastmsg" \in DOMAIN e2
    BY <1>1, <1>8 DEF Engine
  <2>2. run_queue(e2) = send_command([e2 EXCEPT !.lastmsg = m, !.mq = Tail(e2.mq)], m)
    BY <1>9, <1>8 DEF run_queue
  <2>3. QED BY <2>1, <2>2 DEF send_command
<1>11. QED BY <1>3, <1>4, <1>10 DEF m

(* What an opened device starts with: IDENT if mq is empty, else silence.  *)
LEMMA SetupBeginsFresh ==
  ASSUME NEW p, GoodPair(p), p.st.opening > 0, p.e.mq = << >>, NEW mode,
         serial_complete_setup(p, mode).e.serstate = "NORMAL"
  PROVE  serial_complete_setup(p, mode).e.lastmsg = Msg("IDENT", 0)
<1> DEFINE n  == p.st.opening - 1
           b  == (mode = "listen")
           e1 == [p.e EXCEPT !.avail = TRUE, !.closing = FALSE, !.wire = << >>]
           s1 == [p.st EXCEPT !.nopoll = b, !.button = TRUE, !.opening = n]
           q  == [p EXCEPT !.e = e1, !.st = s1]
           p1 == serial_reset(q)
<1>1. n \in Nat /\ b \in BOOLEAN
  BY FlagFields
<1>2. [p EXCEPT !.e.avail = TRUE, !.e.closing = FALSE, !.e.wire = << >>,
                !.st.nopoll = (mode = "listen"), !.st.button = TRUE,
                !.st.opening = @ - 1] = q
  BY ZenonT(60) DEF GoodPair, Pairs, Flags
<1>3. serial_complete_setup(p, mode) =
        IF mode = "MSP" THEN begin_normal(p1)
                        ELSE [p1 EXCEPT !.e.serstate = "TELEM"]
  BY <1>2 DEF serial_complete_setup
<1> HIDE DEF n, b
<1>4. Good(e1) /\ e1.avail = TRUE /\ e1.mq = << >>
  <2>1. << >> \in Seq(Message)
    OBVIOUS
  <2>2. QED BY <2>1, ZenonT(60) DEF GoodPair, Pairs, Good, PollListOK, Engine
<1>5. s1 \in Flags
  BY <1>1 DEF GoodPair, Pairs, Flags
<1> HIDE DEF e1, s1
<1>6. GoodPair(q) /\ q.e.avail = TRUE /\ q.e.mq = << >>
  BY <1>4, <1>5 DEF GoodPair, Pairs, Good
<1>7. p1.e.mq = << >>
  BY <1>6 DEF serial_reset, GoodPair, Pairs, Engine
<1> HIDE DEF q
<1>8. GoodPair(p1) /\ p1.e.avail = TRUE
  BY <1>6, SerialResetKept DEF PairKept
<1> HIDE DEF p1
<1>9. [p1 EXCEPT !.e.serstate = "TELEM"].e.serstate = "TELEM"
  BY <1>8 DEF GoodPair, Pairs, Engine
<1>10. mode = "MSP"
  BY <1>3, <1>9
<1>11. QED BY <1>3, <1>7, <1>8, <1>10, IdentGoesFirst

(* No other step begins a conversation from rest.                          *)
LEMMA OnlySetupBegins ==
  ASSUME IInv, Next, ~OpenDone, eng.serstate = "NONE"
  PROVE  eng'.serstate # "NORMAL"
<1>0. /\ GoodPair(Now) /\ Quiet(eng) /\ fc \in FCKind
      /\ Now.e = eng /\ Now.st = st /\ eng \in Engine /\ st \in Flags
      /\ Good(eng)
  BY NowIsGood DEF Now, Pair, GoodPair, Pairs
<1>a. ASSUME NEW p, NEW q, PairKept(p, q), p.e.serstate = "NONE", Becomes(q)
      PROVE  eng'.serstate # "NORMAL"
  BY <1>a DEF PairKept, Becomes
<1>1. CASE Connect \/ ConnectRefused \/ SerialLost
  <2>1. CASE Connect
    BY <1>0, <2>1 DEF Connect, connect_serial, Becomes, Now, Pair, Engine
  <2>2. CASE ConnectRefused
    BY <1>0, <2>2 DEF ConnectRefused, Becomes, Now, Pair, Engine
  <2>3. CASE SerialLost
    BY <1>0, <2>3 DEF SerialLost, close_serial, Becomes, Now, Pair, Engine
  <2>4. QED BY <1>1, <2>1, <2>2, <2>3
<1>2. CASE OpenFails \/ Disconnect \/ Lose \/ FcDies
  <2>1. CASE OpenFails
    BY <1>0, <2>1 DEF OpenFails, Becomes, Now, Pair, Engine
  <2>2. CASE Disconnect
    BY <1>0, <2>2 DEF Disconnect, Becomes, Now, Pair, Engine
  <2>3. CASE Lose
    BY <1>0, <2>3 DEF Lose, Engine
  <2>4. CASE FcDies
    BY <2>4 DEF FcDies
  <2>5. QED BY <1>2, <2>1, <2>2, <2>3, <2>4
<1>3. CASE TryReopen
  BY <1>0, <1>3 DEF TryReopen, try_reopen, connect_serial, Becomes, Now, Pair,
                    Engine
<1>4. CASE Answer
  <2> DEFINE m == Head(eng.wire)
             p == [Now EXCEPT !.e.wire = Tail(@)]
  <2>1. PICK arm \in Arms(m), soon \in BOOLEAN :
          Becomes(handle_serial(p, m, fc, arm, Rejects(fc, m), soon))
    BY <1>4 DEF Answer
  <2>2. m \in Message /\ Tail(eng.wire) \in Seq(Message)
    BY <1>0, <1>4, Fields DEF Answer
  <2>3. GoodPair(p) /\ p.e.serstate = "NONE"
    <3>1. Keeps(eng, [eng EXCEPT !.wire = Tail(eng.wire)])
      BY <1>0, <2>2, ZenonT(60) DEF Keeps, Good, PollListOK, Engine
    <3>2. PairKept(Now, [Now EXCEPT !.e = [eng EXCEPT !.wire = Tail(eng.wire)]])
      BY <1>0, <3>1, NewEngine
    <3>3. QED BY <1>0, <3>2 DEF PairKept, Now, Pair, Engine
  <2>4. arm \in BOOLEAN /\ Rejects(fc, m) \in BOOLEAN
    BY <2>1 DEF Arms, Rejects
  <2> DEFINE q == handle_serial(p, m, fc, arm, Rejects(fc, m), soon)
  <2>5. Becomes(q)
    BY <2>1
  <2> HIDE DEF m, p
  <2>6. PairKept(p, q)
    BY <1>0, <2>2, <2>3, <2>4, HandleSerialKept
  <2> HIDE DEF q
  <2>7. QED BY <1>a, <2>3, <2>5, <2>6
<1>5. CASE Frame
  <2>1. PICK ltm \in BOOLEAN, says \in {"nothing", "armed", "disarmed"} :
          Becomes(handle_telemetry(Now, ltm, says))
    BY <1>5 DEF Frame
  <2> DEFINE q == handle_telemetry(Now, ltm, says)
  <2>2. PairKept(Now, q) /\ Becomes(q)
    BY <1>0, <2>1, TelemetryKept
  <2> HIDE DEF q
  <2>3. QED BY <1>0, <1>a, <2>2
<1>6. CASE UserReboot
  <2>1. PairKept(Now, AskFor(Now, "REBOOT"))
    BY <1>0, AskForKept DEF Cmds, BulkCmds
  <2>2. Becomes(AskFor(Now, "REBOOT"))
    BY <1>6 DEF UserReboot
  <2>3. QED BY <1>0, <1>a, <2>1, <2>2
<1>7. CASE NextPollFires
  <2> DEFINE e1 == [eng EXCEPT !.pend = eng.pend - 1]
  <2>1. eng.pend > 0 /\ eng' = next_poll(e1)
    BY <1>7 DEF NextPollFires
  <2>2. Good(e1) /\ e1.serstate = "NONE"
    <3>1. eng.pend - 1 \in Nat
      BY <1>0, <2>1 DEF Engine
    <3>2. QED BY <1>0, <3>1, ZenonT(60) DEF Good, PollListOK, Engine
  <2> HIDE DEF e1
  <2>3. Keeps(e1, next_poll(e1))
    BY <2>2, NextPoll
  <2>4. QED BY <2>1, <2>2, <2>3 DEF Keeps
<1>8. CASE Tick
  <2>1. PICK d \in SUBSET RateLimited : Becomes(poll_timer(elapsed(Now, d)))
    BY <1>8 DEF Tick
  <2> DEFINE p == elapsed(Now, d)
  <2>2. PairKept(Now, p) /\ p.e.serstate = eng.serstate
    BY <1>0, ElapsedKept
  <2>3. Becomes(poll_timer(p))
    BY <2>1
  <2> HIDE DEF p
  <2>4. poll_timer(p).e.serstate # "NORMAL"
    BY <2>2, PollTimerKept DEF PairKept
  <2>5. QED BY <2>3, <2>4 DEF Becomes
<1>9. QED
  BY <1>1, <1>2, <1>3, <1>4, <1>5, <1>6, <1>7, <1>8 DEF Next

(* A session that begins talking with nothing left in mq begins with       *)
(* IDENT: serial_complete_setup is the only step that takes an engine at   *)
(* rest to NORMAL, whatever the session before it left in its flags, its   *)
(* timers or the poll list.                                                *)
THEOREM ConversationsBeginFresh == Spec => FreshStart
<1> DEFINE A == eng.serstate = "NONE" /\ eng'.serstate = "NORMAL"
                  /\ eng.mq = << >> => eng'.lastmsg = Msg("IDENT", 0)
<1>1. IInv /\ [Next]_vars => [A]_vars
  <2> SUFFICES ASSUME IInv, Next, eng.serstate = "NONE",
                      eng'.serstate = "NORMAL", eng.mq = << >>
               PROVE  eng'.lastmsg = Msg("IDENT", 0)
    OBVIOUS
  <2>1. OpenDone
    BY OnlySetupBegins
  <2>2. PICK mode \in Modes : Becomes(serial_complete_setup(Now, mode))
    BY <2>1 DEF OpenDone
  <2>3. GoodPair(Now) /\ Now.st.opening > 0 /\ Now.e.mq = << >>
    BY <2>1, NowIsGood DEF OpenDone, Now, Pair
  <2> DEFINE q == serial_complete_setup(Now, mode)
  <2>4. eng' = q.e
    BY <2>2 DEF Becomes
  <2>5. q.e.serstate = "NORMAL" => q.e.lastmsg = Msg("IDENT", 0)
    BY <2>3, SetupBeginsFresh
  <2> HIDE DEF q
  <2>6. QED BY <2>4, <2>5
<1>2. QED BY InitEstablishes, NextPreserves, <1>1, PTL DEF Spec, FreshStart

----------------------------------------------------------------------------
(* What holds beyond this in a session of MSP alone: no answer comes after *)
(* its timeout, no telemetry is pushed, no user reboots the FC or picks a  *)
(* busy device.  Links may lose commands and answers and break at any time,*)
(* the FC may be of any kind, answer any command with an error, and die.   *)
PlainMsp ==
  /\ ~LateReplies
  /\ \A w \in Worlds : w.env.frames = 0 /\ w.env.user = 0

(* The commands before inav is known, and then before the version is.      *)
Early  == {"IDENT", "API_VERSION", "NAME", "INAV_MIXER", "BOARD_INFO",
           "FC_VARIANT"}
Middle == {"FEATURE", "BLACKBOX_CONFIG", "DATAFLASH_SUMMARY", "FC_VERSION"}

(* An INAV FC that answers what identifies it: the error branch of these   *)
(* commands goes on without the FC's variant or version.                   *)
Identifying == {"API_VERSION", "BOARD_INFO", "FC_VARIANT"} \cup Middle
Telling(f)  == f.inav /\ f.rejects \cap Identifying = {}
Knows(s, f) == Telling(f) => s.inav /\ s.vers = f.vers

(* What the flags say when command c is under way in the startup           *)
(* conversation: an autoloading chain never runs with the start tasks at   *)
(* 0, so reset_poller does not start the poller at its end.                *)
Bulk == {"SAFEHOME", "FW_APPROACH", "GEOZONE", "GEOZONE_VERTEX"}
Learnt(s, f, c) ==
  CASE c \in Early             -> ~s.have_fcv /\ ~s.have_fcvv
    [] c \in Middle            -> s.inav /\ ~s.have_fcvv
    [] c \notin Early \cup Middle -> s.inav /\ s.vers = f.vers
Fits(s, f, c) ==
  /\ c # "REBOOT"
  /\ c \in Bulk => s.starttasks # 0
  /\ c = "COMMON_SETTING_INFO" => s.need_startup
  /\ Telling(f) => Learnt(s, f, c)

(* STATUSX, or what it became when it was added to itself, is the last     *)
(* task to go.                                                             *)
TasksOK(s) == s.starttasks = 0 \/ s.starttasks >= 8

(* The pairs a handler may pass through. Talks: a conversation that nothing*)
(* breaks. Open: nothing is under way. Free: and what may be sent again    *)
(* fits. Asked, Sent: one command is queued, or on the wire. TwoAsked,     *)
(* TwoSent: the same after RX_MAP, which asks for two. Polls: the poller   *)
(* runs on what it knows.                                                  *)
WpInfo == Msg("WP_GETINFO", 0)
Boxes  == Msg("ACTIVEBOXES", 0)

Calm(p) ==
  /\ GoodPair(p)
  /\ p.e.avail = TRUE /\ p.e.mleave = 0 /\ p.e.divzero = FALSE
  /\ TasksOK(p.st) /\ p.st.reopen = FALSE /\ p.st.opening = 0
  /\ p.st.can_startup = FALSE
Talks(p) ==
  /\ Calm(p) /\ p.e.closing = FALSE
  /\ p.e.serstate = "NORMAL" /\ p.e.pend = 0
Open(p)  == Talks(p) /\ p.e.wire = << >> /\ p.e.mq = << >>
Free(p, f) ==
  Open(p) /\ (p.e.lastmsg = NoMsg \/ Fits(p.st, f, p.e.lastmsg.cmd))
Asked(p, f) ==
  /\ Talks(p) /\ p.e.wire = << >>
  /\ \E m \in Message : p.e.mq = <<m>> /\ Fits(p.st, f, m.cmd)
Sent(p, f) ==
  /\ Talks(p) /\ p.e.mq = << >>
  /\ \E m \in Message :
       p.e.wire = <<m>> /\ p.e.lastmsg = m /\ Fits(p.st, f, m.cmd)
TwoAsked(p, f) ==
  /\ Talks(p) /\ p.e.wire = <<WpInfo>> /\ p.e.mq = <<Boxes>>
  /\ Fits(p.st, f, "ACTIVEBOXES")
TwoSent(p, f) ==
  /\ Talks(p) /\ p.e.wire = <<WpInfo, Boxes>> /\ p.e.mq = << >>
  /\ p.e.lastmsg = Boxes /\ Fits(p.st, f, "ACTIVEBOXES")
OnlyPolls(e) ==
  /\ \A i \in 1 .. Len(e.wire) : e.wire[i].cmd \in PollCmds
  /\ e.lastmsg = NoMsg \/ e.lastmsg.cmd \in PollCmds
Polls(p, f) ==
  /\ Calm(p) /\ p.e.serstate = "POLLER" /\ p.e.mq = << >>
  /\ p.e.requests # << >> /\ p.st.starttasks = 0 /\ Knows(p.st, f)
  /\ OnlyPolls(p.e)

Outcome(p, f) ==
  \/ Free(p, f) \/ Asked(p, f) \/ Sent(p, f)
  \/ TwoAsked(p, f) \/ TwoSent(p, f) \/ Polls(p, f)

----------------------------------------------------------------------------
(* Other flags for a pair that has nothing under way.                      *)
LEMMA OpenFlags ==
  ASSUME NEW p, Open(p), NEW s \in Flags, TasksOK(s), s.reopen = FALSE,
         s.opening = 0 /\ s.can_startup = FALSE
  PROVE  /\ Open([p EXCEPT !.st = s])
         /\ [p EXCEPT !.st = s].st = s /\ [p EXCEPT !.st = s].e = p.e
<1> DEFINE q == [p EXCEPT !.st = s]
<1>1. GoodPair(q)
  BY NewFlags DEF Open, Talks, Calm, PairKept
<1>2. q.e = p.e /\ q.st = s
  BY DEF Open, Talks, Calm, GoodPair, Pairs
<1> HIDE DEF q
<1>3. QED BY <1>1, <1>2 DEF Open, Talks, Calm, q

(* A question asked when nothing is under way.                             *)
LEMMA AskOpen ==
  ASSUME NEW p, Open(p), NEW f, NEW m \in Message, Fits(p.st, f, m.cmd)
  PROVE  /\ Asked(Ask(p, m), f) /\ Ask(p, m).st = p.st
         /\ Ask(p, m).e.mq = <<m>>
<1> DEFINE q == Ask(p, m)
           l == <<m>>
           e1 == [p.e EXCEPT !.mq = l]
<1>1. p.e \in Engine /\ p.e.avail /\ p.e.mq = << >>
  BY DEF Open, Talks, Calm, GoodPair, Pairs
<1>2. Append(<< >>, m) = l
  OBVIOUS
<1> HIDE DEF l
<1>3. queue_cmd(p.e, m) = e1
  BY <1>1, <1>2 DEF queue_cmd
<1>4. q.e = e1 /\ q.st = p.st
  BY <1>3 DEF Ask, Open, Talks, Calm, GoodPair, Pairs
<1>5. /\ e1.mq = l /\ e1.wire = p.e.wire /\ e1.serstate = p.e.serstate
      /\ e1.pend = p.e.pend /\ e1.avail = p.e.avail
      /\ e1.closing = p.e.closing /\ e1.mleave = p.e.mleave
      /\ e1.divzero = p.e.divzero
  BY <1>1 DEF Engine
<1> HIDE DEF e1
<1>6. GoodPair(q)
  BY AskKept DEF Open, Talks, Calm, PairKept
<1> HIDE DEF q
<1>7. Talks(q) /\ q.e.wire = << >>
  BY <1>4, <1>5, <1>6 DEF Open, Talks, Calm
<1>8. q.e.mq = l /\ Fits(q.st, f, m.cmd)
  BY <1>4, <1>5
<1>9. QED BY <1>4, <1>5, <1>7, <1>8 DEF Asked, l, q

(* The same for a command without argument.                                *)
LEMMA AskForOpen ==
  ASSUME NEW p, Open(p), NEW f, NEW c \in Cmds, Fits(p.st, f, c)
  PROVE  /\ Asked(AskFor(p, c), f) /\ AskFor(p, c).st = p.st
         /\ AskFor(p, c).e.mq = <<Msg(c, 0)>>
<1>1. Msg(c, 0) \in Message /\ Msg(c, 0).cmd = c
  BY MsgIsMessage DEF Msg
<1>2. QED BY <1>1, AskOpen DEF AskFor

(* The queued command is handed to the device.                             *)
LEMMA RunAsked ==
  ASSUME NEW p, NEW f, Asked(p, f)
  PROVE  /\ Sent(Run(p), f) /\ Run(p).st = p.st
         /\ Run(p).e.wire = p.e.mq
<1> DEFINE q == Run(p)
<1>1. PICK m \in Message : p.e.mq = <<m>> /\ Fits(p.st, f, m.cmd)
  BY DEF Asked
<1> DEFINE l == <<m>>
           z == << >>
           e1 == [p.e EXCEPT !.lastmsg = m, !.mq = z]
           e2 == [e1 EXCEPT !.wire = l]
<1>2. p.e \in Engine /\ p.e.avail /\ p.e.wire = << >>
  BY DEF Asked, Talks, Calm, GoodPair, Pairs
<1>3. Head(l) = m /\ Tail(l) = z /\ l # << >> /\ Append(<< >>, m) = l
  OBVIOUS
<1> HIDE DEF l, z
<1>4. run_queue(p.e) = send_command(e1, m)
  BY <1>1, <1>2, <1>3 DEF run_queue, l
<1>5. e1.wire = << >>
  BY <1>2 DEF Engine
<1> HIDE DEF e1
<1>6. send_command(e1, m) = e2
  BY <1>3, <1>5 DEF send_command
<1>7. q.e = e2 /\ q.st = p.st
  BY <1>4, <1>6 DEF Run, Asked, Talks, Calm, GoodPair, Pairs
<1>8. /\ e2.mq = z /\ e2.wire = l /\ e2.serstate = p.e.serstate
      /\ e2.lastmsg = m
      /\ e2.pend = p.e.pend /\ e2.avail = p.e.avail
      /\ e2.closing = p.e.closing /\ e2.mleave = p.e.mleave
      /\ e2.divzero = p.e.divzero
  BY <1>2 DEF Engine, e1
<1> HIDE DEF e2
<1>9. GoodPair(q)
  BY RunKept DEF Asked, Talks, Calm, PairKept
<1> HIDE DEF q
<1>10. Talks(q) /\ q.e.mq = << >>
  BY <1>7, <1>8, <1>9 DEF Asked, Talks, Calm, z
<1>11. q.e.wire = l /\ q.e.lastmsg = m /\ Fits(q.st, f, m.cmd)
  BY <1>1, <1>7, <1>8
<1>12. QED BY <1>1, <1>7, <1>10, <1>11 DEF Sent, l, q

----------------------------------------------------------------------------
(* What fits when the FC is known, and what is known when it fits.         *)
LEMMA LateFits ==
  ASSUME NEW s, NEW f, NEW c, c \notin Early \cup Middle, c # "REBOOT",
         c \in Bulk => s.starttasks # 0,
         c = "COMMON_SETTING_INFO" => s.need_startup, Knows(s, f)
  PROVE  Fits(s, f, c)
  BY DEF Fits, Learnt, Knows

(* So a command of the late startup fits only when the FC is known.        *)
LEMMA FitsKnows ==
  ASSUME NEW s, NEW f, NEW c, c \notin Early \cup Middle, Fits(s, f, c)
  PROVE  Knows(s, f)
  BY DEF Fits, Learnt, Knows

(* The status request may be asked for as soon as the FC is known.         *)
LEMMA AskStatusOpen ==
  ASSUME NEW p, Open(p), NEW f, Knows(p.st, f)
  PROVE  Asked(AskStatus(p), f) /\ AskStatus(p).st = p.st
<1>1. p.st.msp_get_status \in StatusCmds /\ p.st.msp_get_status \in Cmds
  BY FlagFields DEF Open, Talks, Calm
<1>2. Fits(p.st, f, p.st.msp_get_status)
  BY <1>1, LateFits DEF StatusCmds, Early, Middle, Bulk
<1>3. QED BY <1>1, <1>2, AskForOpen DEF AskStatus

(* Taking a task leaves no tasks or at least 8: the tasks below STATUSX    *)
(* go before it.                                                           *)
LEMMA TakeLeaves ==
  ASSUME NEW t \in Nat, t = 0 \/ t >= 8
  PROVE  /\ \A bit \in {STATUS, SAFEHOMES, GEOZONES} :
              Has(t, bit) => t - bit \in Nat /\ t - bit >= 8
         /\ /\ ~Has(t, STATUS) /\ ~Has(t, SAFEHOMES) /\ ~Has(t, GEOZONES)
            /\ Has(t, STATUSX)
            => t - STATUSX \in Nat /\ (t - STATUSX = 0 \/ t - STATUSX >= 8)
  BY DEF Has, STATUS, SAFEHOMES, GEOZONES, STATUSX

(* New tasks for a pair that has nothing under way.                        *)
LEMMA OpenTasks ==
  ASSUME NEW p, Open(p), NEW f, Knows(p.st, f), NEW t \in Nat, t = 0 \/ t >= 8
  PROVE  /\ LET q == [p EXCEPT !.st.starttasks = t]
            IN  Open(q) /\ Knows(q.st, f) /\ q.st.starttasks = t
         /\ LET q == [p EXCEPT !.st.starttasks = t, !.st.have_status = FALSE]
            IN  Open(q) /\ Knows(q.st, f)
<1> DEFINE s1 == [p.st EXCEPT !.starttasks = t]
           s2 == [p.st EXCEPT !.starttasks = t, !.have_status = FALSE]
<1>1. /\ p.st \in Flags /\ p.st.reopen = FALSE /\ p.st.opening = 0
      /\ p.st.can_startup = FALSE
  BY DEF Open, Talks, Calm, GoodPair, Pairs
<1>2. /\ s1 \in Flags /\ s1.starttasks = t /\ s1.reopen = FALSE
      /\ s1.opening = 0 /\ s1.can_startup = FALSE
      /\ s1.inav = p.st.inav /\ s1.vers = p.st.vers
  BY <1>1 DEF Flags
<1>3. /\ s2 \in Flags /\ s2.starttasks = t /\ s2.reopen = FALSE
      /\ s2.opening = 0 /\ s2.can_startup = FALSE
      /\ s2.inav = p.st.inav /\ s2.vers = p.st.vers
  BY <1>1 DEF Flags
<1>4. /\ [p EXCEPT !.st.starttasks = t] = [p EXCEPT !.st = s1]
      /\ [p EXCEPT !.st.starttasks = t, !.st.have_status = FALSE]
           = [p EXCEPT !.st = s2]
  BY DEF Open, Talks, Calm, GoodPair, Pairs
<1> HIDE DEF s1, s2
<1>5. /\ Open([p EXCEPT !.st = s1]) /\ [p EXCEPT !.st = s1].st = s1
      /\ Open([p EXCEPT !.st = s2]) /\ [p EXCEPT !.st = s2].st = s2
  BY <1>2, <1>3, OpenFlags, ZenonT(60) DEF TasksOK
<1>6. Knows(s1, f) /\ Knows(s2, f)
  BY <1>2, <1>3 DEF Knows
<1>7. QED BY <1>2, <1>4, <1>5, <1>6

(* The next start task, if there is one. An autoloading task leaves        *)
(* STATUSX to do.                                                          *)
LEMMA MiscStartupFree ==
  ASSUME NEW p, NEW f, Free(p, f), Knows(p.st, f)
  PROVE  Outcome(handle_misc_startup(p), f)
<1> DEFINE t == p.st.starttasks
<1>1. t \in Nat /\ (t = 0 \/ t >= 8) /\ Open(p)
  BY FlagFields DEF Free, Open, Talks, Calm, TasksOK
<1>2. \A n \in Nat : n = 0 \/ n >= 8 =>
        /\ Asked(AskStatus([p EXCEPT !.st.starttasks = n]), f)
        /\ Asked(AskStatus([p EXCEPT !.st.starttasks = n,
                                     !.st.have_status = FALSE]), f)
        /\ n # 0 => \A c \in Bulk :
             Asked(AskFor([p EXCEPT !.st.starttasks = n], c), f)
  <2> SUFFICES
        ASSUME NEW n \in Nat, n = 0 \/ n >= 8
        PROVE  /\ Asked(AskStatus([p EXCEPT !.st.starttasks = n]), f)
               /\ Asked(AskStatus([p EXCEPT !.st.starttasks = n,
                                            !.st.have_status = FALSE]), f)
               /\ n # 0 => \A c \in Bulk :
                    Asked(AskFor([p EXCEPT !.st.starttasks = n], c), f)
    BY ZenonT(60)
  <2> DEFINE q == [p EXCEPT !.st.starttasks = n]
             r == [p EXCEPT !.st.starttasks = n, !.st.have_status = FALSE]
  <2>1. /\ Open(q) /\ Knows(q.st, f) /\ q.st.starttasks = n
        /\ Open(r) /\ Knows(r.st, f)
    BY <1>1, OpenTasks, ZenonT(60)
  <2> HIDE DEF q, r
  <2>2. Asked(AskStatus(q), f) /\ Asked(AskStatus(r), f)
    BY <2>1, AskStatusOpen
  <2>3. ASSUME n # 0, NEW c \in Bulk
        PROVE  Asked(AskFor(q, c), f)
    <3>1. /\ c \in Cmds /\ c \notin Early \cup Middle /\ c # "REBOOT"
          /\ c # "COMMON_SETTING_INFO"
      BY DEF Bulk, Early, Middle, Cmds, BulkCmds
    <3>2. Fits(q.st, f, c)
      BY <2>1, <2>3, <3>1, LateFits
    <3>3. QED BY <2>1, <3>1, <3>2, AskForOpen
  <2>4. QED BY <2>2, <2>3 DEF q, r
<1>3. "SAFEHOME" \in Bulk /\ "GEOZONE" \in Bulk
  BY DEF Bulk
<1>4. CASE p.e.armed /\ ArmedMspPlacebo
  BY <1>2, <1>4 DEF handle_misc_startup, Outcome
<1>5. CASE ~(p.e.armed /\ ArmedMspPlacebo)
  <2>1. CASE Has(t, STATUS)
    BY <1>1, <1>2, <1>5, <2>1, TakeLeaves DEF handle_misc_startup, Outcome
  <2>2. CASE ~Has(t, STATUS) /\ Has(t, SAFEHOMES)
    <3> DEFINE n == t - SAFEHOMES
    <3>1. n \in Nat /\ n >= 8 /\ n # 0
      BY <1>1, <2>2, TakeLeaves
    <3> HIDE DEF n
    <3>2. Asked(AskFor([p EXCEPT !.st.starttasks = n], "SAFEHOME"), f)
      BY <1>2, <1>3, <3>1
    <3>3. QED BY <1>5, <2>2, <3>2 DEF handle_misc_startup, Outcome, n
  <2>3. CASE ~Has(t, STATUS) /\ ~Has(t, SAFEHOMES) /\ Has(t, GEOZONES)
    <3> DEFINE n == t - GEOZONES
    <3>1. n \in Nat /\ n >= 8 /\ n # 0
      BY <1>1, <2>3, TakeLeaves
    <3> HIDE DEF n
    <3>2. Asked(AskFor([p EXCEPT !.st.starttasks = n], "GEOZONE"), f)
      BY <1>2, <1>3, <3>1
    <3>3. QED BY <1>5, <2>3, <3>2 DEF handle_misc_startup, Outcome, n
  <2>4. CASE ~Has(t, STATUS) /\ ~Has(t, SAFEHOMES) /\ ~Has(t, GEOZONES)
             /\ Has(t, STATUSX)
    <3>1. t - STATUSX \in Nat /\ (t - STATUSX = 0 \/ t - STATUSX >= 8)
      BY <1>1, <2>4, TakeLeaves
    <3>2. Asked(AskStatus([p EXCEPT !.st.starttasks = t - STATUSX,
                                    !.st.have_status = FALSE]), f)
      BY <1>2, <3>1
    <3>3. QED BY <1>5, <2>4, <3>2 DEF handle_misc_startup, Outcome
  <2>5. CASE ~Has(t, STATUS) /\ ~Has(t, SAFEHOMES) /\ ~Has(t, GEOZONES)
             /\ ~Has(t, STATUSX)
    BY <1>5, <2>5 DEF handle_misc_startup, Outcome
  <2>6. QED BY <2>1, <2>2, <2>3, <2>4, <2>5
<1>6. QED BY <1>4, <1>5

----------------------------------------------------------------------------
(* The answers, when nothing else is under way.                            *)

(* A startup command or a status request fits what has been learnt so far. *)
LEMMA LearntFits ==
  ASSUME NEW s, NEW f, NEW c \in StartupCmds \cup StatusCmds,
         c # "COMMON_SETTING_INFO",
         Telling(f) => Learnt(s, f, c)
  PROVE  Fits(s, f, c)
  BY DEF Fits, StartupCmds, StatusCmds, Bulk

(* A chained answer asks for a command that needs to know as much.         *)
LEMMA ChainedAnswered ==
  ASSUME NEW p, NEW f, Open(p), NEW c \in Chained, Fits(p.st, f, c), NEW v
  PROVE  Asked(AskFor(p, Follows(c, f, v)), f)
<1> DEFINE d == Follows(c, f, v)
<1>1. d \in StartupCmds /\ d # "COMMON_SETTING_INFO"
  BY StartupMessages, ZenonT(60) DEF Chained, Follows
<1>2. (d \in Early <=> c \in Early) /\ (d \in Middle <=> c \in Middle)
  BY DEF Follows, Chained, Early, Middle
<1> HIDE DEF d
<1>3. Telling(f) => Learnt(p.st, f, d)
  BY <1>2 DEF Fits, Learnt
<1>4. Fits(p.st, f, d) /\ d \in Cmds
  BY <1>1, <1>3, LearntFits, StartupMessages
<1>5. QED BY <1>4, AskForOpen DEF d

(* The answer to IDENT: API_VERSION is next, if it is the first.           *)
LEMMA IdentAnswered ==
  ASSUME NEW p, NEW f, Open(p), p.e.lastmsg = NoMsg, Fits(p.st, f, "IDENT")
  PROVE  Outcome(got_ident(p, f), f)
<1> DEFINE n  == IF f.navconfig THEN "NAVCONFIG" ELSE "NONE"
           s1 == [p.st EXCEPT !.idcount = 0, !.identified = TRUE]
           s2 == [s1 EXCEPT !.vers = 0, !.navcap = n]
           q1 == [p EXCEPT !.st.idcount = 0, !.st.identified = TRUE]
           q2 == [q1 EXCEPT !.st.vers = 0, !.st.navcap = n]
           p1 == [p EXCEPT !.st = s1]
           p2 == [p EXCEPT !.st = s2]
<1>1. /\ p.st \in Flags /\ p.st.reopen = FALSE /\ p.st.opening = 0
      /\ p.st.can_startup = FALSE /\ TasksOK(p.st)
  BY DEF Open, Talks, Calm, GoodPair, Pairs
<1>2. got_ident(p, f) =
        IF p.st.identified THEN p1 ELSE AskFor(p2, "API_VERSION")
  <2>1. q1 = p1 /\ q2 = p2
    BY DEF Open, Talks, Calm, GoodPair, Pairs
  <2>2. got_ident(p, f) =
          IF p.st.identified THEN q1 ELSE AskFor(q2, "API_VERSION")
    BY DEF got_ident
  <2> HIDE DEF p1, p2, q1, q2
  <2>3. QED BY <2>1, <2>2
<1>3. n \in NAVCAPS
  BY FlagValues
<1> HIDE DEF n
<1>4. /\ s1 \in Flags /\ s1.starttasks = p.st.starttasks /\ s1.reopen = FALSE
      /\ s1.opening = 0 /\ s1.can_startup = FALSE
  <2>1. 0 \in Int
    OBVIOUS
  <2>2. s1 \in Flags
    BY <1>1, <2>1, Zenon DEF Flags
  <2>3. QED BY <1>1, <2>2 DEF Flags
<1>5. /\ s2 \in Flags /\ s2.starttasks = p.st.starttasks /\ s2.reopen = FALSE
      /\ s2.opening = 0 /\ s2.can_startup = FALSE
      /\ s2.have_fcv = p.st.have_fcv
      /\ s2.have_fcvv = p.st.have_fcvv
  <2>1. s1 \in Flags /\ s1.have_fcv = p.st.have_fcv
        /\ s1.have_fcvv = p.st.have_fcvv
    BY <1>1, <1>4 DEF Flags
  <2> HIDE DEF s1
  <2>2. s2 \in Flags
    BY <1>3, <2>1, FlagValues DEF Flags
  <2>3. QED BY <1>1, <1>4, <2>1, <2>2 DEF Flags
<1> HIDE DEF s1, s2
<1>6. /\ Open(p1) /\ p1.e.lastmsg = NoMsg
      /\ Open(p2) /\ p2.st = s2
  BY <1>1, <1>4, <1>5, OpenFlags, ZenonT(60) DEF TasksOK
<1>7. Fits(p2.st, f, "API_VERSION")
  BY <1>5, <1>6 DEF Fits, Learnt, Early, Middle, Bulk
<1>8. Asked(AskFor(p2, "API_VERSION"), f)
  BY <1>6, <1>7, AskForOpen, StartupMessages DEF StartupCmds
<1>9. QED BY <1>2, <1>6, <1>8 DEF Outcome, Free

(* The answer to FC_VARIANT: from here on inav is known.                   *)
LEMMA VariantAnswered ==
  ASSUME NEW p, NEW f \in FCKind, Open(p), p.e.lastmsg = NoMsg,
         Fits(p.st, f, "FC_VARIANT")
  PROVE  Outcome(got_variant(p, f), f)
<1> DEFINE s1 == [p.st EXCEPT !.inav = FALSE]
           n  == IF f.inav THEN "INAV" ELSE p.st.navcap
           s2 == [s1 EXCEPT !.have_fcv = TRUE, !.inav = f.inav, !.navcap = n]
           q1 == [p EXCEPT !.st.inav = FALSE]
           q2 == [q1 EXCEPT !.st.have_fcv = TRUE, !.st.inav = f.inav,
                            !.st.navcap = IF f.inav THEN "INAV" ELSE @]
           p1 == [p EXCEPT !.st = s1]
           p2 == [p EXCEPT !.st = s2]
           c  == IF f.inav THEN "FEATURE" ELSE "BOXNAMES"
<1>1. /\ p.st \in Flags /\ p.st.reopen = FALSE /\ p.st.opening = 0
      /\ p.st.can_startup = FALSE
      /\ TasksOK(p.st) /\ f.inav \in BOOLEAN /\ n \in NAVCAPS
  BY FcFields, FlagFields, FlagValues DEF Open, Talks, Calm, GoodPair, Pairs
<1>2. got_variant(p, f) = IF p.st.have_fcv THEN p1 ELSE AskFor(p2, c)
  <2>1. q1 = p1
    BY DEF Open, Talks, Calm, GoodPair, Pairs
  <2>2. q2 = p2
    BY <1>1 DEF Open, Talks, Calm, GoodPair, Pairs, Flags
  <2>3. got_variant(p, f) = IF p.st.have_fcv THEN q1 ELSE AskFor(q2, c)
    BY DEF got_variant
  <2> HIDE DEF p1, p2, q1, q2, c
  <2>4. QED BY <2>1, <2>2, <2>3
<1> HIDE DEF n
<1>3. /\ s1 \in Flags /\ s1.starttasks = p.st.starttasks /\ s1.reopen = FALSE
      /\ s1.opening = 0 /\ s1.can_startup = FALSE
      /\ s1.have_fcvv = p.st.have_fcvv
  BY <1>1 DEF Flags
<1>4. /\ s2 \in Flags /\ s2.starttasks = p.st.starttasks /\ s2.reopen = FALSE
      /\ s2.opening = 0 /\ s2.can_startup = FALSE
      /\ s2.inav = f.inav /\ s2.have_fcvv = p.st.have_fcvv
  <2> HIDE DEF s1
  <2>1. s2 \in Flags
    BY <1>1, <1>3, ZenonT(60) DEF Flags
  <2>2. QED BY <1>1, <1>3, <2>1 DEF Flags
<1> HIDE DEF s1, s2
<1>5. /\ Open(p1) /\ p1.e.lastmsg = NoMsg
      /\ Open(p2) /\ p2.st = s2
  BY <1>1, <1>3, <1>4, OpenFlags, ZenonT(60) DEF TasksOK
<1>6. Telling(f) => Learnt(s2, f, c)
  <2> SUFFICES ASSUME Telling(f) PROVE Learnt(s2, f, c)
    OBVIOUS
  <2>1. f.inav /\ ~p.st.have_fcvv
    BY DEF Telling, Fits, Learnt, Early
  <2>2. QED BY <1>4, <2>1 DEF Learnt, Early, Middle
<1>7. c \in StartupCmds /\ c # "COMMON_SETTING_INFO"
  BY DEF StartupCmds
<1> HIDE DEF c
<1>8. Asked(AskFor(p2, c), f)
  BY <1>5, <1>6, <1>7, LearntFits, AskForOpen, StartupMessages
<1>9. QED BY <1>2, <1>5, <1>8 DEF Outcome, Free

(* The answer to FC_VERSION: from here on the FC is known.                 *)
LEMMA VersionAnswered ==
  ASSUME NEW p, NEW f \in FCKind, Open(p), p.e.lastmsg = NoMsg,
         Fits(p.st, f, "FC_VERSION")
  PROVE  Outcome(got_version(p, f), f)
<1> DEFINE gs == IF ~f.msp2 THEN "STATUS"
                 ELSE IF f.vers >= hasV2STATUS THEN "INAV_STATUS"
                                               ELSE "STATUS_EX"
           s1 == [p.st EXCEPT !.have_fcvv = TRUE, !.vers = f.vers]
           s2 == [s1 EXCEPT !.msp_get_status = gs]
           p1 == [p EXCEPT !.st = s1]
           p2 == [p EXCEPT !.st = s2]
           c  == IF f.tz /\ f.msp2 /\ f.vers >= hasTZ
                 THEN "COMMON_SET_TZ" ELSE "BUILD_INFO"
<1>1. /\ p.st \in Flags /\ p.st.reopen = FALSE /\ p.st.opening = 0
      /\ p.st.can_startup = FALSE
      /\ TasksOK(p.st) /\ f.vers \in Levels /\ gs \in StatusCmds
  BY FcFields, FlagValues DEF Open, Talks, Calm, GoodPair, Pairs
<1>2. \/ got_version(p, f) = p
      \/ p.st.inav /\ got_version(p, f) = AskFor(p2, c)
      \/ ~p.st.inav /\ got_version(p, f) = AskFor(p1, "BOXNAMES")
  <2>1. [p EXCEPT !.st.have_fcvv = TRUE, !.st.vers = f.vers] = p1
    BY DEF Open, Talks, Calm, GoodPair, Pairs
  <2>2. [p1 EXCEPT !.st.msp_get_status = gs] = p2
    BY DEF Open, Talks, Calm, GoodPair, Pairs
  <2>3. p.st.have_fcvv \in BOOLEAN /\ p.st.inav \in BOOLEAN
    BY <1>1 DEF Flags
  <2> HIDE DEF p1, p2
  <2>4. QED BY <2>1, <2>2, <2>3 DEF got_version
<1> HIDE DEF gs
<1>3. /\ s1 \in Flags /\ s1.starttasks = p.st.starttasks /\ s1.reopen = FALSE
      /\ s1.opening = 0 /\ s1.can_startup = FALSE
      /\ s1.inav = p.st.inav /\ s1.vers = f.vers
  BY <1>1 DEF Flags
<1>4. /\ s2 \in Flags /\ s2.starttasks = p.st.starttasks /\ s2.reopen = FALSE
      /\ s2.opening = 0 /\ s2.can_startup = FALSE
      /\ s2.inav = p.st.inav /\ s2.vers = f.vers
  <2> HIDE DEF s1
  <2>1. s2 \in Flags
    BY <1>1, <1>3 DEF Flags
  <2>2. QED BY <1>1, <1>3, <2>1 DEF Flags
<1> HIDE DEF s1, s2
<1>5. /\ Open(p1) /\ p1.st = s1 /\ Open(p2) /\ p2.st = s2
  BY <1>1, <1>3, <1>4, OpenFlags, ZenonT(60) DEF TasksOK
<1>6. Telling(f) => p.st.inav
  BY DEF Fits, Learnt, Early, Middle
<1>7. /\ c \in StartupCmds /\ c # "COMMON_SETTING_INFO"
      /\ "BOXNAMES" \in StartupCmds
      /\ Telling(f) => Learnt(s2, f, c) /\ Learnt(s1, f, "BOXNAMES")
  BY <1>3, <1>4, <1>6 DEF Learnt, Early, Middle, StartupCmds
<1> HIDE DEF c
<1>8. Asked(AskFor(p2, c), f) /\ Asked(AskFor(p1, "BOXNAMES"), f)
  <2> HIDE DEF p1, p2
  <2>1. Fits(s2, f, c)
    BY <1>7, LearntFits
  <2>2. Fits(s1, f, "BOXNAMES")
    BY <1>7, LearntFits
  <2>3. QED BY <1>5, <1>7, <2>1, <2>2, AskForOpen, StartupMessages
<1>9. QED BY <1>2, <1>8 DEF Outcome, Free

(* ACTIVEBOXES: tasks are added to what is there, STATUSX among them.      *)
LEMMA StartTasksMany ==
  ASSUME NEW t \in Nat, NEW v, NEW autogz
  PROVE  set_starttasks(t, v, autogz) >= 8
  BY DEF set_starttasks, STATUS, SAFEHOMES, GEOZONES, STATUSX

(* The answer to ACTIVEBOXES: the start tasks begin with one to do.        *)
LEMMA ActiveboxesAnswered ==
  ASSUME NEW p, NEW f, Open(p), p.e.lastmsg = NoMsg,
         Fits(p.st, f, "ACTIVEBOXES")
  PROVE  Outcome(got_activeboxes(p, f), f)
<1> DEFINE t  == set_starttasks(p.st.starttasks, p.st.vers,
                                f.gz /\ AutoGeozones)
           s1 == [p.st EXCEPT !.need_startup = TRUE, !.starttasks = t]
           q1 == [p EXCEPT !.st.need_startup = TRUE, !.st.starttasks = t]
           p1 == [p EXCEPT !.st = s1]
           m  == Msg("COMMON_SETTING_INFO", 1)
<1>1. /\ p.st \in Flags /\ p.st.reopen = FALSE /\ p.st.opening = 0
      /\ p.st.can_startup = FALSE /\ p.st.starttasks \in Nat
  BY FlagFields DEF Open, Talks, Calm, GoodPair, Pairs
<1>2. t \in Nat /\ t >= 8
  BY <1>1, StartTasksNat, StartTasksMany
<1>3. got_activeboxes(p, f) = IF p.st.vers >= hasTZ THEN Ask(q1, m) ELSE q1
  BY <1>1 DEF got_activeboxes, Open, Talks, Calm, GoodPair, Pairs, Flags
<1> HIDE DEF t
<1>4. q1 = p1
  BY DEF Open, Talks, Calm, GoodPair, Pairs
<1>5. /\ s1 \in Flags /\ s1.starttasks = t /\ s1.reopen = FALSE
      /\ s1.opening = 0 /\ s1.can_startup = FALSE /\ s1.need_startup
      /\ s1.inav = p.st.inav /\ s1.vers = p.st.vers
  BY <1>1, <1>2 DEF Flags
<1> HIDE DEF q1, s1
<1>6. Open(p1) /\ p1.st = s1 /\ p1.e.lastmsg = NoMsg
  BY <1>2, <1>5, OpenFlags DEF TasksOK
<1>7. Knows(p1.st, f)
  BY <1>5, <1>6 DEF Fits, Learnt, Knows, Early, Middle
<1> HIDE DEF p1
<1>8. m \in Message /\ m.cmd = "COMMON_SETTING_INFO"
  BY MsgIsMessage, StartupMessages DEF StartupCmds, Msg
<1> HIDE DEF m
<1>9. Fits(p1.st, f, m.cmd)
  BY <1>5, <1>6, <1>7, <1>8, LateFits DEF Early, Middle, Bulk
<1>10. Asked(Ask(p1, m), f)
  BY <1>6, <1>8, <1>9, AskOpen
<1>11. QED BY <1>3, <1>4, <1>6, <1>10 DEF Outcome, Free

(* A setting asks for the next; the end of the chain starts the tasks.     *)
LEMMA SettingAnswered ==
  ASSUME NEW p, NEW f, Open(p), p.e.lastmsg = NoMsg, NEW a \in Nat,
         NEW offset, Fits(p.st, f, "COMMON_SETTING_INFO")
  PROVE  Outcome(common_setting_info(p, a, offset), f)
<1> DEFINE nxt == next_setting(a, p.st.vers, offset)
           m   == Msg("COMMON_SETTING_INFO", nxt)
           can == [p EXCEPT !.st.can_startup = TRUE]
           Clr(q) == [q EXCEPT !.st.need_startup = FALSE,
                               !.st.can_startup = FALSE]
           s2  == [p.st EXCEPT !.need_startup = FALSE, !.can_startup = FALSE]
           p2  == [p EXCEPT !.st = s2]
<1>1. /\ p.st \in Flags /\ p.st.reopen = FALSE /\ p.st.opening = 0
      /\ p.st.can_startup = FALSE /\ TasksOK(p.st) /\ p.st.need_startup
  BY DEF Open, Talks, Calm, GoodPair, Pairs, Fits
<1>2. Knows(p.st, f)
  BY FitsKnows DEF Early, Middle
<1>3. m \in Message /\ m.cmd = "COMMON_SETTING_INFO"
  BY NextSettingNat, MsgIsMessage, StartupMessages DEF StartupCmds, Msg
<1>4. CASE nxt # 0
  <2>1. common_setting_info(p, a, offset) =
          IF Ask(p, m).st.need_startup /\ Ask(p, m).st.can_startup
          THEN handle_misc_startup(Clr(Ask(p, m))) ELSE Ask(p, m)
    BY <1>4 DEF common_setting_info
  <2> HIDE DEF m, nxt
  <2>2. Asked(Ask(p, m), f) /\ Ask(p, m).st = p.st
    BY <1>3, AskOpen
  <2>3. QED BY <1>1, <2>1, <2>2 DEF Outcome
<1>5. CASE nxt = 0
  <2>1. common_setting_info(p, a, offset) =
          IF can.st.need_startup /\ can.st.can_startup
          THEN handle_misc_startup(Clr(can)) ELSE can
    BY <1>5 DEF common_setting_info
  <2>2. can.st.need_startup /\ can.st.can_startup /\ Clr(can) = p2
    BY <1>1, ZenonT(60) DEF Open, Talks, Calm, GoodPair, Pairs, Flags
  <2> HIDE DEF can, Clr, nxt, m
  <2>3. common_setting_info(p, a, offset) = handle_misc_startup(p2)
    BY <2>1, <2>2
  <2>4. /\ s2 \in Flags /\ s2.starttasks = p.st.starttasks
        /\ s2.reopen = FALSE /\ s2.opening = 0 /\ s2.can_startup = FALSE
        /\ s2.inav = p.st.inav /\ s2.vers = p.st.vers
    <3>1. p.st \in Flags
      BY <1>1
    <3>2. s2 \in Flags
      BY <3>1, ZenonT(30) DEF Flags
    <3>3. /\ s2.starttasks = p.st.starttasks /\ s2.reopen = p.st.reopen
          /\ s2.opening = p.st.opening /\ s2.can_startup = FALSE
      BY <3>1, SMTT(30) DEF Flags
    <3>4. s2.inav = p.st.inav /\ s2.vers = p.st.vers
      BY <3>1, SMTT(30) DEF Flags
    <3> HIDE DEF s2
    <3>5. QED BY <1>1, <3>2, <3>3, <3>4
  <2> HIDE DEF s2
  <2>5. Open(p2) /\ p2.st = s2 /\ p2.e.lastmsg = NoMsg
    <3>1. TasksOK(s2)
      BY <1>1, <2>4 DEF TasksOK
    <3>2. /\ s2 \in Flags /\ s2.reopen = FALSE
          /\ s2.opening = 0 /\ s2.can_startup = FALSE
      BY <2>4
    <3>3. Open(p2) /\ p2.st = s2 /\ p2.e = p.e
      BY <3>1, <3>2, OpenFlags
    <3> HIDE DEF p2
    <3>4. QED BY <3>3
  <2>6. Knows(p2.st, f)
    BY <1>2, <2>4, <2>5 DEF Knows
  <2> HIDE DEF p2
  <2>7. QED BY <2>3, <2>5, <2>6, MiscStartupFree DEF Free
<1>6. QED BY <1>4, <1>5

(* While tasks remain the poller is not woken.                             *)
LEMMA ResetIdle ==
  ASSUME NEW p, Open(p), p.st.starttasks # 0
  PROVE  Reset(p) = p
<1>1. p.e \in Engine /\ p.e.mleave = 0
  BY DEF Open, Talks, Calm, GoodPair, Pairs
<1>2. reset_poller(p.e, p.st.starttasks, p.st.nopoll)
        = [p.e EXCEPT !.mleave = 0]
  BY DEF reset_poller
<1>3. [p.e EXCEPT !.mleave = 0] = p.e
  BY <1>1 DEF Engine
<1>4. QED BY <1>2, <1>3 DEF Reset, Open, Talks, Calm, GoodPair, Pairs

(* Safehomes, approaches and geozones: the next of the chain, or the next  *)
(* task.                                                                   *)
LEMMA BulkAnswered ==
  ASSUME NEW p, NEW f \in FCKind, Open(p), p.e.lastmsg = NoMsg,
         NEW c \in Bulk, Fits(p.st, f, c), NEW id \in Nat
  PROVE  /\ Outcome(got_safehome(p, id), f)
         /\ Outcome(got_fw_approach(p, id), f)
         /\ Outcome(got_geozone(p, id, f), f)
         /\ Outcome(got_gzvertex(p, id, f), f)
<1>1. Knows(p.st, f) /\ p.st.starttasks # 0
  BY FitsKnows DEF Early, Middle, Bulk, Fits
<1>2. \A d \in Bulk : \A a \in Nat : Outcome(Ask(p, Msg(d, a)), f)
  <2> SUFFICES ASSUME NEW d \in Bulk, NEW a \in Nat
               PROVE  Outcome(Ask(p, Msg(d, a)), f)
    OBVIOUS
  <2> DEFINE m == Msg(d, a)
  <2>1. m \in Message /\ m.cmd = d
    BY MsgIsMessage, StartupMessages DEF Bulk, BulkCmds, Msg
  <2>2. Fits(p.st, f, d)
    BY <1>1, LateFits DEF Early, Middle, Bulk
  <2> HIDE DEF m
  <2>3. Asked(Ask(p, m), f)
    BY <2>1, <2>2, AskOpen
  <2>4. QED BY <2>3 DEF Outcome, m
<1>3. Outcome(handle_misc_startup(Reset(p)), f)
  BY <1>1, ResetIdle, MiscStartupFree DEF Free
<1>4. /\ "SAFEHOME" \in Bulk /\ "FW_APPROACH" \in Bulk /\ "GEOZONE" \in Bulk
      /\ "GEOZONE_VERTEX" \in Bulk /\ id + 1 \in Nat
  BY DEF Bulk
<1>5. Outcome(got_safehome(p, id), f)
  BY <1>2, <1>4 DEF got_safehome, AskFor
<1>6. Outcome(got_fw_approach(p, id), f)
  BY <1>2, <1>3, <1>4 DEF got_fw_approach
<1>7. Outcome(got_gzvertex(p, id, f), f)
  BY <1>2, <1>3, <1>4 DEF got_gzvertex
<1>8. Outcome(got_geozone(p, id, f), f)
  <2>1. f.nvert \in Nat /\ MaxGz \in Nat
    BY FcFields, SessionAssumption DEF SessionAssumption
  <2>2. \/ got_geozone(p, id, f) = Ask(p, Msg("GEOZONE", id + 1))
        \/ got_geozone(p, id, f) = AskFor(p, "GEOZONE_VERTEX")
        \/ got_geozone(p, id, f) = handle_misc_startup(Reset(p))
    BY <2>1 DEF got_geozone
  <2>3. QED BY <1>2, <1>3, <1>4, <2>2 DEF AskFor
<1>9. QED BY <1>5, <1>6, <1>7, <1>8

(* handle_msp_status keeps what is under way, and sets POLLER only with a  *)
(* poll list and with no start task to do.                                 *)
LEMMA StatusHandled ==
  ASSUME NEW p, Calm(p), NEW f, NEW arm \in BOOLEAN
  PROVE  LET h == handle_msp_status(p, f, arm)
         IN  /\ Calm(h)
             /\ h.e.wire = p.e.wire /\ h.e.mq = p.e.mq
             /\ h.e.lastmsg = p.e.lastmsg /\ h.e.pend = p.e.pend
             /\ h.e.closing = p.e.closing
             /\ h.st.starttasks = p.st.starttasks
             /\ h.st.inav = p.st.inav /\ h.st.vers = p.st.vers
             /\ \/ h.e.serstate = p.e.serstate
                \/ /\ h.e.serstate = "POLLER" /\ h.e.requests # << >>
                   /\ h.st.starttasks = 0
             /\ p.e.requests # << >> => h.e.requests # << >>
<1> DEFINE h  == handle_msp_status(p, f, arm)
           r  == build_pollreqs(p.st, f)
           q1 == [p EXCEPT !.e.armed = arm, !.st.have_status = TRUE]
           q2 == [q1 EXCEPT !.e.requests = r]
           q3 == [q2 EXCEPT !.e.tcycle = 0, !.e.serstate = "POLLER"]
           s1 == [p.st EXCEPT !.have_status = TRUE]
           e1 == [p.e EXCEPT !.armed = arm]
           e2 == [e1 EXCEPT !.requests = r]
           e3 == [e2 EXCEPT !.tcycle = 0, !.serstate = "POLLER"]
<1>1. GoodPair(p) /\ GoodPair(h) /\ p.e \in Engine /\ p.st \in Flags
  BY StatusHandledKept DEF Calm, PairKept, GoodPair, Pairs
<1>2. r # << >>
  BY <1>1, PollRequests, FlagFields DEF StartsWithStatus
<1>3. \/ h = q1
      \/ h = q2
      \/ h = q3 /\ p.st.starttasks = 0
  BY DEF handle_msp_status
<1> HIDE DEF h, r
<1>4. /\ q1 = [p EXCEPT !.e = e1, !.st = s1]
      /\ q2 = [p EXCEPT !.e = e2, !.st = s1]
      /\ q3 = [p EXCEPT !.e = e3, !.st = s1]
  BY <1>1 DEF GoodPair, Pairs
<1> HIDE DEF q1, q2, q3
<1>5. /\ s1.starttasks = p.st.starttasks /\ s1.inav = p.st.inav
      /\ s1.vers = p.st.vers /\ s1.reopen = p.st.reopen
      /\ s1.opening = p.st.opening /\ s1.can_startup = p.st.can_startup
  BY <1>1 DEF Flags
<1> DEFINE Like(e) ==
             /\ e.wire = p.e.wire /\ e.mq = p.e.mq /\ e.lastmsg = p.e.lastmsg
             /\ e.pend = p.e.pend /\ e.avail = p.e.avail
             /\ e.closing = p.e.closing /\ e.mleave = p.e.mleave
             /\ e.divzero = p.e.divzero
<1>6. Like(e1) /\ e1.serstate = p.e.serstate /\ e1.requests = p.e.requests
  BY <1>1 DEF Engine
<1>7. Like(e2) /\ e2.serstate = p.e.serstate /\ e2.requests = r
  BY <1>1 DEF Engine
<1>8. Like(e3) /\ e3.serstate = "POLLER" /\ e3.requests = r
  BY <1>1 DEF Engine
<1> HIDE DEF s1, e1, e2, e3
<1>9. h.st = s1 /\ Like(h.e)
      /\ \/ h.e.serstate = p.e.serstate /\ h.e.requests \in {p.e.requests, r}
         \/ h.e.serstate = "POLLER" /\ h.e.requests = r /\ p.st.starttasks = 0
  <2>1. CASE h = q1
    <3>1. h.e = e1 /\ h.st = s1
      BY <1>1, <1>4, <2>1 DEF GoodPair, Pairs
    <3>2. QED BY <1>6, <3>1
  <2>2. CASE h = q2
    <3>1. h.e = e2 /\ h.st = s1
      BY <1>1, <1>4, <2>2 DEF GoodPair, Pairs
    <3>2. QED BY <1>7, <3>1
  <2>3. CASE h = q3 /\ p.st.starttasks = 0
    <3>1. h.e = e3 /\ h.st = s1
      BY <1>1, <1>4, <2>3 DEF GoodPair, Pairs
    <3>2. QED BY <1>8, <2>3, <3>1
  <2>4. QED BY <1>3, <2>1, <2>2, <2>3
<1>10. Calm(h)
  BY <1>1, <1>5, <1>9 DEF Calm, TasksOK
<1>11. QED BY <1>2, <1>5, <1>9, <1>10 DEF h

(* The answer to a status request: the poller, or the next task.           *)
LEMMA StatusAnswered ==
  ASSUME NEW p, NEW f, Open(p), p.e.lastmsg = NoMsg, Knows(p.st, f),
         NEW arm \in BOOLEAN
  PROVE  Outcome(got_status(p, f, arm), f)
<1> DEFINE h == handle_msp_status(p, f, arm)
<1>1. /\ Calm(h)
      /\ h.e.wire = << >> /\ h.e.mq = << >>
      /\ h.e.lastmsg = NoMsg /\ h.e.pend = 0 /\ h.e.closing = FALSE
      /\ Knows(h.st, f)
      /\ \/ h.e.serstate = "NORMAL"
         \/ /\ h.e.serstate = "POLLER" /\ h.e.requests # << >>
            /\ h.st.starttasks = 0
  BY StatusHandled DEF Open, Talks, Knows
<1>2. got_status(p, f, arm) = IF h.st.starttasks # 0
                              THEN handle_misc_startup(h) ELSE h
  BY DEF got_status
<1> HIDE DEF h
<1>3. CASE h.e.serstate = "NORMAL"
  <2>1. Free(h, f)
    BY <1>1, <1>3 DEF Free, Open, Talks
  <2>2. QED BY <1>1, <1>2, <2>1, MiscStartupFree DEF Outcome
<1>4. CASE h.e.serstate = "POLLER" /\ h.e.requests # << >>
           /\ h.st.starttasks = 0
  <2>1. Polls(h, f)
    BY <1>1, <1>4 DEF Polls, OnlyPolls
  <2>2. QED BY <1>2, <1>4, <2>1 DEF Outcome
<1>5. QED BY <1>1, <1>3, <1>4

(* A second element for a sequence of one.                                 *)
LEMMA AppendOne ==
  ASSUME NEW a, NEW b
  PROVE  Append(<<a>>, b) = <<a, b>>
<1>1. <<a>> \in Seq({a, b}) /\ <<a, b>> \in Seq({a, b})
  OBVIOUS
<1>2. Len(Append(<<a>>, b)) = 2
  BY <1>1
<1>3. Append(<<a>>, b)[1] = a /\ Append(<<a>>, b)[2] = b
  BY <1>1
<1>4. Append(<<a>>, b) \in Seq({a, b})
  BY <1>1
<1> DEFINE s == Append(<<a>>, b)
           t == <<a, b>>
<1>5. s \in Seq({a, b}) /\ t \in Seq({a, b}) /\ Len(s) = 2 /\ Len(t) = 2
      /\ s[1] = t[1] /\ s[2] = t[2]
  BY <1>1, <1>2, <1>3, <1>4
<1> HIDE DEF s, t
<1>6. \A i \in 1 .. 2 : s[i] = t[i]
  BY <1>5
<1>7. s = [i \in 1 .. 2 |-> s[i]] /\ t = [i \in 1 .. 2 |-> t[i]]
  BY <1>5
<1>8. s = t
  BY <1>6, <1>7
<1>9. QED BY <1>8 DEF s, t

(* The second of the two questions that RX_MAP leads to is sent.           *)
LEMMA RunTwo ==
  ASSUME NEW p, NEW f, TwoAsked(p, f)
  PROVE  TwoSent(Run(p), f)
<1> DEFINE l   == <<Boxes>>
           two == <<WpInfo, Boxes>>
           z   == << >>
           e1  == [p.e EXCEPT !.lastmsg = Boxes, !.mq = z]
           e2  == [e1 EXCEPT !.wire = two]
           q   == Run(p)
<1>1. /\ p.e \in Engine /\ p.e.avail = TRUE /\ GoodPair(p)
      /\ p.e.mq = l /\ p.e.wire = <<WpInfo>>
  BY DEF TwoAsked, Talks, Calm, GoodPair, Pairs
<1>2. Head(l) = Boxes /\ Tail(l) = z /\ l # << >>
  OBVIOUS
<1>3. Append(<<WpInfo>>, Boxes) = two
  BY AppendOne
<1> HIDE DEF l, z, two
<1>4. e1.wire = <<WpInfo>>
  BY <1>1 DEF Engine
<1>5. run_queue(p.e) = e2
  <2> HIDE DEF e1
  <2>1. run_queue(p.e) = send_command(e1, Boxes)
    BY <1>1, <1>2 DEF run_queue, e1
  <2>2. QED BY <1>3, <1>4, <2>1 DEF send_command
<1>6. q.e = e2 /\ q.st = p.st
  BY <1>1, <1>5 DEF Run, GoodPair, Pairs
<1>7. GoodPair(q)
  BY <1>1, RunKept DEF PairKept
<1>8. /\ e2.mq = z /\ e2.wire = two /\ e2.lastmsg = Boxes
      /\ e2.pend = p.e.pend /\ e2.avail = p.e.avail
      /\ e2.closing = p.e.closing /\ e2.mleave = p.e.mleave
      /\ e2.divzero = p.e.divzero /\ e2.serstate = p.e.serstate
  BY <1>1 DEF Engine
<1> HIDE DEF e1, e2, q
<1>9. Talks(q)
  BY <1>6, <1>7, <1>8 DEF TwoAsked, Talks, Calm
<1>10. QED BY <1>6, <1>8, <1>9 DEF TwoAsked, TwoSent, two, z, q

(* After RX_MAP: two questions at once for INAV, whether it was answered   *)
(* (then the second waits in the queue) or was an error.                   *)
LEMMA RxmapAnswered ==
  ASSUME NEW p, NEW f, Open(p), Knows(p.st, f)
  PROVE  Outcome(rxmap_next(p), f) /\ Outcome(Run(rxmap_next(p)), f)
<1>1. \A c \in {"STATUS", "WP_GETINFO", "ACTIVEBOXES"} :
        c \in Cmds /\ Fits(p.st, f, c)
  BY LateFits DEF Early, Middle, Bulk, Cmds, PollCmds, StatusCmds, StartupCmds
<1>2. \A c \in {"STATUS", "WP_GETINFO", "ACTIVEBOXES"} :
        /\ Asked(AskFor(p, c), f) /\ AskFor(p, c).st = p.st
        /\ AskFor(p, c).e.mq = <<Msg(c, 0)>>
        /\ Sent(Run(AskFor(p, c)), f) /\ Run(AskFor(p, c)).st = p.st
        /\ Run(AskFor(p, c)).e.wire = AskFor(p, c).e.mq
  BY <1>1, AskForOpen, RunAsked, ZenonT(60)
<1>3. CASE p.st.navcap = "NAVCONFIG"
  BY <1>2, <1>3 DEF rxmap_next, Outcome
<1>4. CASE p.st.navcap # "NAVCONFIG" /\ ~p.st.inav
  BY <1>2, <1>4 DEF rxmap_next, Outcome
<1>5. CASE p.st.navcap # "NAVCONFIG" /\ p.st.inav
  <2> DEFINE q  == Run(AskFor(p, "WP_GETINFO"))
             l  == <<Boxes>>
             e1 == [q.e EXCEPT !.mq = l]
             r  == AskFor(q, "ACTIVEBOXES")
  <2>1. /\ Talks(q) /\ q.st = p.st /\ q.e.mq = << >> /\ q.e.wire = <<WpInfo>>
        /\ Fits(q.st, f, "ACTIVEBOXES")
    BY <1>1, <1>2 DEF Sent, WpInfo
  <2>2. rxmap_next(p) = r
    BY <1>5 DEF rxmap_next
  <2> HIDE DEF q
  <2>3. q.e \in Engine /\ q.e.avail = TRUE /\ GoodPair(q)
    BY <2>1 DEF Talks, Calm, GoodPair, Pairs
  <2>4. GoodPair(r)
    BY <1>1, <2>3, AskForKept DEF PairKept
  <2>5. Append(<< >>, Boxes) = l
    OBVIOUS
  <2> HIDE DEF l
  <2>6. r.e = e1 /\ r.st = q.st
    <3>1. queue_cmd(q.e, Boxes) = e1
      BY <2>1, <2>3, <2>5 DEF queue_cmd
    <3>2. QED BY <2>3, <3>1 DEF AskFor, Ask, Boxes, GoodPair, Pairs
  <2>7. /\ e1.mq = l /\ e1.wire = q.e.wire
        /\ e1.pend = q.e.pend /\ e1.avail = q.e.avail
        /\ e1.closing = q.e.closing /\ e1.mleave = q.e.mleave
        /\ e1.divzero = q.e.divzero /\ e1.serstate = q.e.serstate
    BY <2>3 DEF Engine
  <2> HIDE DEF e1, r
  <2>8. Talks(r)
    BY <2>1, <2>4, <2>6, <2>7 DEF Talks, Calm
  <2>9. TwoAsked(r, f)
    BY <2>1, <2>6, <2>7, <2>8 DEF TwoAsked, l
  <2>10. QED BY <2>2, <2>9, RunTwo DEF Outcome
<1>6. QED BY <1>3, <1>4, <1>5

(* Engines that differ in nothing a conversation depends on.               *)
Alike(e, e1) ==
  /\ e1.wire = e.wire /\ e1.mq = e.mq /\ e1.lastmsg = e.lastmsg
  /\ e1.pend = e.pend /\ e1.avail = e.avail /\ e1.closing = e.closing
  /\ e1.mleave = e.mleave /\ e1.divzero = e.divzero
  /\ e1.serstate = e.serstate

(* Such an engine in the place of another.                                 *)
LEMMA OpenEngine ==
  ASSUME NEW p, NEW f, Free(p, f), NEW e, Good(e), Alike(p.e, e)
  PROVE  Free([p EXCEPT !.e = e], f)
<1> DEFINE q == [p EXCEPT !.e = e]
<1>1. GoodPair(p) /\ p.e.serstate = e.serstate
  BY DEF Free, Open, Talks, Calm, Alike
<1>2. GoodPair(q)
  BY <1>1 DEF GoodPair, Pairs, Good
<1>3. q.e = e /\ q.st = p.st
  BY <1>1 DEF GoodPair, Pairs
<1> HIDE DEF q
<1>4. QED BY <1>2, <1>3 DEF Free, Open, Talks, Calm, Alike, q

(* The whole answer.                                                       *)
LEMMA AnswerOpen ==
  ASSUME NEW p, NEW f \in FCKind, Open(p), p.e.lastmsg = NoMsg,
         NEW m \in Message, Fits(p.st, f, m.cmd), NEW arm \in BOOLEAN
  PROVE  Outcome(handle_msp(p, m, f, arm), f)
<1> DEFINE h == handle_msp(p, m, f, arm)
<1>1. m.arg \in Nat /\ m.cmd # "REBOOT" /\ Free(p, f)
  BY DEF Message, Fits, Free
<1>2. CASE m.cmd = "IDENT"
  BY <1>2, IdentAnswered DEF handle_msp, Chained, StatusCmds
<1>3. CASE m.cmd \in Chained
  <2>1. h = AskFor(p, Follows(m.cmd, f, p.st.vers))
    BY <1>3 DEF handle_msp, Chained, StatusCmds
  <2>2. QED BY <1>3, <2>1, ChainedAnswered DEF Outcome
<1>4. CASE m.cmd = "FC_VARIANT"
  BY <1>4, VariantAnswered DEF handle_msp, Chained, StatusCmds
<1>5. CASE m.cmd = "FC_VERSION"
  BY <1>5, VersionAnswered DEF handle_msp, Chained, StatusCmds
<1>6. CASE m.cmd = "RX_MAP"
  <2>1. Knows(p.st, f)
    BY <1>6, FitsKnows DEF Early, Middle
  <2>2. QED BY <1>6, <2>1, RxmapAnswered DEF handle_msp, Chained, StatusCmds
<1>7. CASE m.cmd = "ACTIVEBOXES"
  BY <1>7, ActiveboxesAnswered DEF handle_msp, Chained, StatusCmds
<1>8. CASE m.cmd = "COMMON_SETTING_INFO"
  BY <1>1, <1>8, SettingAnswered DEF handle_msp, Chained, StatusCmds
<1>9. CASE m.cmd \in StatusCmds
  <2>1. Knows(p.st, f)
    BY <1>9, FitsKnows DEF Early, Middle, StatusCmds
  <2>2. h = got_status(p, f, arm)
    BY <1>9 DEF handle_msp, Chained, StatusCmds
  <2>3. QED BY <2>1, <2>2, StatusAnswered
<1>10. CASE m.cmd \in Bulk
  <2>1. /\ Outcome(got_safehome(p, m.arg), f)
        /\ Outcome(got_fw_approach(p, m.arg), f)
        /\ Outcome(got_geozone(p, m.arg, f), f)
        /\ Outcome(got_gzvertex(p, m.arg, f), f)
    BY <1>1, <1>10, BulkAnswered
  <2>2. \/ h = got_safehome(p, m.arg)   \/ h = got_fw_approach(p, m.arg)
        \/ h = got_geozone(p, m.arg, f) \/ h = got_gzvertex(p, m.arg, f)
    BY <1>10 DEF handle_msp, Bulk, Chained, StatusCmds
  <2>3. QED BY <2>1, <2>2
<1>11. CASE m.cmd = "WP"
  <2> DEFINE b == (m.arg = 0)
             e1 == [p.e EXCEPT !.last0wp = b]
  <2>1. h = [p EXCEPT !.e.last0wp = (m.arg = 0)]
    BY <1>11, Zenon DEF handle_msp, Chained, StatusCmds
  <2>2. [p EXCEPT !.e.last0wp = (m.arg = 0)] = [p EXCEPT !.e = e1]
    BY DEF Open, Talks, Calm, GoodPair, Pairs
  <2>3. b \in BOOLEAN
    OBVIOUS
  <2> HIDE DEF b
  <2>4. Good(e1) /\ Alike(p.e, e1)
    BY <2>3 DEF Open, Talks, Calm, GoodPair, Pairs, Good, PollListOK, Engine,
                Alike
  <2> HIDE DEF e1
  <2>5. QED BY <1>1, <2>1, <2>2, <2>4, OpenEngine DEF Outcome
<1>12. CASE m.cmd \notin {"IDENT", "FC_VARIANT", "FC_VERSION", "RX_MAP",
                          "ACTIVEBOXES", "COMMON_SETTING_INFO", "WP"}
            /\ m.cmd \notin Chained /\ m.cmd \notin StatusCmds
            /\ m.cmd \notin Bulk
  <2>1. h = p
    BY <1>1, <1>12 DEF handle_msp, Bulk
  <2>2. QED BY <1>1, <2>1 DEF Outcome
<1>13. QED
  BY <1>2, <1>3, <1>4, <1>5, <1>6, <1>7, <1>8, <1>9, <1>10, <1>11, <1>12

----------------------------------------------------------------------------
(* The errors, when nothing else is under way.                             *)

(* An identifying FC refuses none of the commands that identify it.        *)
LEMMA NotRefused ==
  ASSUME NEW f, NEW m, Rejects(f, m), Telling(f)
  PROVE  m.cmd \notin Identifying
<1>1. m.cmd \in f.rejects \/ m.cmd = "COMMON_SETTING_INFO"
  BY DEF Rejects
<1>2. QED BY <1>1 DEF Telling, Identifying, Middle

(* A chained command answered with an error asks for the next one.         *)
LEMMA ChainedRefused ==
  ASSUME NEW p, NEW f, Open(p), NEW m \in Message, m.cmd \in ErrorChained,
         Fits(p.st, f, m.cmd), Rejects(f, m)
  PROVE  Outcome(handle_msp_error(p, m), f)
<1> DEFINE n  == IF m.cmd = "IDENT" THEN -7200 ELSE p.st.idcount
           s1 == [p.st EXCEPT !.idcount = n]
           q1 == [p EXCEPT !.st.idcount = IF m.cmd = "IDENT" THEN -7200 ELSE @]
           p1 == [p EXCEPT !.st = s1]
           d  == ErrorFollows(m.cmd)
<1>1. /\ p.st \in Flags /\ p.st.reopen = FALSE /\ p.st.opening = 0
      /\ p.st.can_startup = FALSE /\ TasksOK(p.st) /\ n \in Int
  BY FlagFields DEF Open, Talks, Calm
<1>2. q1 = p1
  BY <1>1 DEF Open, Talks, Calm, GoodPair, Pairs, Flags
<1>3. handle_msp_error(p, m) = Run(AskFor(q1, d))
  BY DEF handle_msp_error, ErrorChained
<1> HIDE DEF n, q1
<1>4. /\ s1 \in Flags /\ s1.starttasks = p.st.starttasks /\ s1.reopen = FALSE
      /\ s1.opening = 0 /\ s1.can_startup = FALSE /\ s1.inav = p.st.inav
      /\ s1.vers = p.st.vers /\ s1.have_fcv = p.st.have_fcv
      /\ s1.have_fcvv = p.st.have_fcvv
  BY <1>1 DEF Flags
<1> HIDE DEF s1
<1>5. Open(p1) /\ p1.st = s1
  BY <1>1, <1>4, OpenFlags, ZenonT(60) DEF TasksOK
<1>6. d \in StartupCmds /\ d # "COMMON_SETTING_INFO"
  BY StartupMessages DEF ErrorFollows, ErrorChained
<1>7. ASSUME Telling(f) PROVE Learnt(s1, f, d)
  <2>1. m.cmd # "API_VERSION"
    BY <1>7, NotRefused DEF Identifying
  <2>2. /\ d \in Early <=> m.cmd \in Early
        /\ m.cmd \notin Middle /\ d \notin Middle
    BY <2>1 DEF ErrorFollows, ErrorChained, Early, Middle
  <2>3. Learnt(p.st, f, m.cmd)
    BY <1>7 DEF Fits
  <2> HIDE DEF d
  <2>4. QED BY <1>4, <2>2, <2>3 DEF Learnt
<1> HIDE DEF d, p1
<1>8. Fits(s1, f, d)
  BY <1>6, <1>7, LearntFits
<1>9. Asked(AskFor(p1, d), f)
  BY <1>5, <1>6, <1>8, AskForOpen, StartupMessages
<1>10. Sent(Run(AskFor(p1, d)), f)
  BY <1>9, RunAsked
<1>11. QED BY <1>2, <1>3, <1>10 DEF Outcome

(* A status request refused: another is asked for.                         *)
LEMMA OtherStatus ==
  ASSUME NEW p, NEW f, Open(p), Knows(p.st, f), NEW c \in StatusCmds
  PROVE  Sent(Run(AskStatus([p EXCEPT !.st.msp_get_status = c])), f)
<1> DEFINE s1 == [p.st EXCEPT !.msp_get_status = c]
           p1 == [p EXCEPT !.st = s1]
<1>1. /\ p.st \in Flags /\ p.st.reopen = FALSE /\ p.st.opening = 0
      /\ p.st.can_startup = FALSE /\ TasksOK(p.st)
  BY FlagFields DEF Open, Talks, Calm
<1>2. [p EXCEPT !.st.msp_get_status = c] = p1
  BY DEF Open, Talks, Calm, GoodPair, Pairs
<1>3. /\ s1 \in Flags /\ s1.starttasks = p.st.starttasks /\ s1.reopen = FALSE
      /\ s1.opening = 0 /\ s1.can_startup = FALSE /\ s1.inav = p.st.inav
      /\ s1.vers = p.st.vers
  BY <1>1 DEF Flags
<1> HIDE DEF s1
<1>4. Open(p1) /\ p1.st = s1
  BY <1>1, <1>3, OpenFlags, ZenonT(60) DEF TasksOK
<1>5. Knows(p1.st, f)
  BY <1>3, <1>4 DEF Knows
<1> HIDE DEF p1
<1>6. Sent(Run(AskStatus(p1)), f)
  BY <1>4, <1>5, AskStatusOpen, RunAsked
<1>7. QED BY <1>2, <1>6

(* The whole error.                                                        *)
LEMMA ErrorOpen ==
  ASSUME NEW p, NEW f \in FCKind, Free(p, f), NEW m \in Message,
         Fits(p.st, f, m.cmd), Rejects(f, m)
  PROVE  Outcome(handle_msp_error(p, m), f)
<1> DEFINE h == handle_msp_error(p, m)
<1>1. Open(p)
  BY DEF Free
<1>2. CASE m.cmd \in ErrorChained
  BY <1>1, <1>2, ChainedRefused
<1>3. CASE m.cmd \notin ErrorChained
  <2>1. Knows(p.st, f)
    <3>1. Telling(f) => m.cmd \notin Early \cup Middle
      BY <1>3, NotRefused DEF Identifying, Early, Middle, ErrorChained
    <3>2. QED BY <3>1 DEF Knows, Fits, Learnt
  <2>2. Sent(Run(AskStatus(p)), f)
    BY <1>1, <2>1, AskStatusOpen, RunAsked
  <2>3. CASE m.cmd = "RX_MAP"
    <3>1. h = Run(rxmap_next(p))
      BY <2>3 DEF handle_msp_error, ErrorChained
    <3>2. QED BY <1>1, <2>1, <3>1, RxmapAnswered
  <2>4. CASE m.cmd = "ADSB_VEHICLE_LIST"
    <3> DEFINE e1 == clear_poller_item(p.e, "ADSB_VEHICLE_LIST")
    <3>1. h = [p EXCEPT !.e = e1]
      BY <2>4 DEF handle_msp_error, ErrorChained
    <3>2. "ADSB_VEHICLE_LIST" \notin StatusCmds
      BY DEF StatusCmds
    <3>3. Good(e1)
      BY <1>1, <3>2, ClearPollerItem DEF Open, Talks, Calm, GoodPair, Keeps
    <3>4. Alike(p.e, e1)
      BY <1>1 DEF clear_poller_item, Alike, Open, Talks, Calm, GoodPair, Pairs,
                  Engine
    <3> HIDE DEF e1
    <3>5. QED BY <3>1, <3>3, <3>4, OpenEngine DEF Outcome
  <2>5. CASE m.cmd \in {"INAV_STATUS", "ACTIVEBOXES", "STATUS_EX"}
    <3>1. \E c \in StatusCmds :
            h = Run(AskStatus([p EXCEPT !.st.msp_get_status = c]))
      BY <2>5 DEF handle_msp_error, ErrorChained, StatusCmds
    <3>2. QED BY <1>1, <2>1, <3>1, OtherStatus DEF Outcome
  <2>6. CASE m.cmd \in {"WP_GETINFO", "COMMON_SET_SETTING"}
    <3>1. h = Run(p)
      BY <2>6 DEF handle_msp_error, ErrorChained
    <3>2. Run(p) = p
      BY <1>1 DEF Run, run_queue, Open, Talks, Calm, GoodPair, Pairs
    <3>3. QED BY <3>1, <3>2 DEF Outcome
  <2>7. CASE m.cmd \in {"GEOZONE", "GEOZONE_VERTEX"}
    <3>1. h = handle_misc_startup(p) \/ h = Run(AskStatus(p))
      BY <2>7 DEF handle_msp_error, ErrorChained
    <3>2. QED BY <2>1, <2>2, <3>1, MiscStartupFree DEF Outcome
  <2>8. CASE m.cmd \notin {"RX_MAP", "ADSB_VEHICLE_LIST", "INAV_STATUS",
                           "ACTIVEBOXES", "STATUS_EX", "WP_GETINFO",
                           "COMMON_SET_SETTING", "GEOZONE", "GEOZONE_VERTEX"}
    <3>1. h = Run(AskStatus(p))
      BY <1>3, <2>8 DEF handle_msp_error
    <3>2. QED BY <2>2, <3>1 DEF Outcome
  <2>9. QED BY <2>3, <2>4, <2>5, <2>6, <2>7, <2>8
<1>4. QED BY <1>2, <1>3

----------------------------------------------------------------------------
(* The poller.                                                             *)

(* Engines that differ in nothing the poller depends on but what it sends. *)
Like(e, e1) ==
  /\ e1.requests = e.requests /\ e1.pend = e.pend /\ e1.avail = e.avail
  /\ e1.closing = e.closing /\ e1.mleave = e.mleave
  /\ e1.divzero = e.divzero /\ e1.serstate = e.serstate

(* One more poll is queued and sent.                                       *)
LEMMA OneMorePoll ==
  ASSUME NEW e, Good(e), e.avail = TRUE, e.mq = << >>, OnlyPolls(e),
         NEW c \in PollCmds
  PROVE  LET e1 == run_queue(queue_cmd(e, Msg(c, 0)))
         IN  Good(e1) /\ e1.mq = << >> /\ OnlyPolls(e1) /\ Like(e, e1)
<1> DEFINE m  == Msg(c, 0)
           l  == <<m>>
           z  == << >>
           w  == Append(e.wire, m)
           e1 == [e EXCEPT !.mq = l]
           e2 == [e1 EXCEPT !.lastmsg = m, !.mq = z]
           e3 == [e2 EXCEPT !.wire = w]
           r  == run_queue(queue_cmd(e, m))
<1>1. /\ m \in Message /\ m.cmd \in PollCmds /\ e \in Engine
      /\ e.wire \in Seq(Message)
  BY MsgIsMessage, PollsAreCmds, Fields DEF Msg, Good
<1>2. Good(r)
  BY <1>1, QueueCmd, RunQueue DEF Keeps
<1> HIDE DEF m
<1>3. Append(<< >>, m) = l /\ Head(l) = m /\ Tail(l) = z /\ l # << >>
  OBVIOUS
<1> HIDE DEF l, z
<1>4. queue_cmd(e, m) = e1
  BY <1>3 DEF queue_cmd
<1>5. e1.avail = TRUE /\ e1.mq = l /\ e2.wire = e.wire
  BY <1>1 DEF Engine
<1>6. r = e3
  <2> HIDE DEF e1, w
  <2>1. run_queue(e1) = send_command(e2, m)
    BY <1>3, <1>5 DEF run_queue
  <2> HIDE DEF e2
  <2>2. send_command(e2, m) = e3
    BY <1>5 DEF send_command, w
  <2>3. QED BY <1>4, <2>1, <2>2
<1> HIDE DEF w
<1>7. e3.mq = z /\ e3.wire = w /\ e3.lastmsg = m /\ Like(e, e3)
  BY <1>1 DEF Engine, Like
<1> HIDE DEF e1, e2, e3
<1>8. \A i \in 1 .. Len(w) : w[i].cmd \in PollCmds
  BY <1>1 DEF OnlyPolls, w
<1>9. OnlyPolls(e3)
  BY <1>1, <1>7, <1>8 DEF OnlyPolls
<1> HIDE DEF r
<1>10. QED BY <1>2, <1>6, <1>7, <1>9 DEF z, m, r

(* The next turn of the poll loop.                                         *)
LEMMA NextPollOnly ==
  ASSUME NEW e, Good(e), e.avail = TRUE, e.mq = << >>, OnlyPolls(e),
         e.requests # << >>
  PROVE  LET e1 == next_poll(e)
         IN  Good(e1) /\ e1.mq = << >> /\ OnlyPolls(e1) /\ Like(e, e1)
<1> DEFINE t  == (e.tcycle + 1) % Len(e.requests)
           e1 == [e EXCEPT !.tcycle = t]
           req == Candidate(e1, NextDue(e1))
           u  == Ahead(e1, NextDue(e1))
           e2 == [e1 EXCEPT !.tcycle = u, !.due = e1.due \ {req},
                            !.lastpoll = req]
<1>1. e \in Engine /\ t \in Nat
  BY Fields DEF Good
<1>2. next_poll(e) = run_queue(send_poll(e1))
  BY DEF next_poll
<1> HIDE DEF t
<1>3. /\ Good(e1) /\ e1.avail = TRUE /\ e1.mq = << >> /\ OnlyPolls(e1)
      /\ Like(e, e1) /\ e1.requests # << >>
  BY <1>1 DEF Good, PollListOK, OnlyPolls, Like, Engine
<1> HIDE DEF e1
<1>4. CASE \/ e1.serstate # "POLLER" \/ Len(e1.requests) <= e1.tcycle
           \/ OutOfOrder(e1)
  <2>1. send_poll(e1) = e1 /\ run_queue(e1) = e1
    BY <1>3, <1>4 DEF send_poll, run_queue
  <2>2. QED BY <1>2, <1>3, <2>1
<1>5. CASE ~(e1.serstate # "POLLER" \/ Len(e1.requests) <= e1.tcycle
               \/ OutOfOrder(e1))
  <2>1. e1.tcycle < Len(e1.requests)
    BY <1>3, <1>5, Fields
  <2>2. /\ u \in Nat /\ req \in PollCmds \cup {"NOOP"}
        /\ e1.due \ {req} \in SUBSET RateLimited
    BY <1>3, <2>1, SkipLoop, Fields
  <2>3. send_poll(e1) = IF req = "NOOP" THEN e2 ELSE queue_cmd(e2, Msg(req, 0))
    BY <1>5 DEF send_poll
  <2> HIDE DEF u, req
  <2>4. /\ Good(e2) /\ e2.avail = TRUE /\ e2.mq = << >> /\ OnlyPolls(e2)
        /\ Like(e1, e2)
    BY <1>3, <2>2, ZenonT(60) DEF Good, PollListOK, OnlyPolls, Like, Engine
  <2> HIDE DEF e2
  <2>5. CASE req = "NOOP"
    <3>1. run_queue(e2) = e2
      BY <2>4 DEF run_queue
    <3>2. QED BY <1>2, <1>3, <2>3, <2>4, <2>5, <3>1 DEF Like
  <2>6. CASE req # "NOOP"
    <3> DEFINE r == run_queue(queue_cmd(e2, Msg(req, 0)))
    <3>1. Good(r) /\ r.mq = << >> /\ OnlyPolls(r) /\ Like(e2, r)
      BY <2>2, <2>4, <2>6, OneMorePoll
    <3>2. next_poll(e) = r
      BY <1>2, <2>3, <2>6
    <3> HIDE DEF r
    <3>3. QED BY <1>3, <2>4, <3>1, <3>2 DEF Like
  <2>7. QED BY <2>5, <2>6
<1>6. QED BY <1>4, <1>5

(* Another engine that polls, in the place of one.                         *)
LEMMA PollsEngine ==
  ASSUME NEW p, NEW f, Polls(p, f), NEW e, Good(e), e.mq = << >>,
         OnlyPolls(e), e.requests # << >>, e.avail = p.e.avail,
         e.closing = p.e.closing, e.mleave = p.e.mleave,
         e.divzero = p.e.divzero, e.serstate = p.e.serstate
  PROVE  Polls([p EXCEPT !.e = e], f)
<1> DEFINE q == [p EXCEPT !.e = e]
<1>1. GoodPair(p) /\ p.e \in Engine
  BY DEF Polls, Calm, GoodPair, Pairs
<1>2. GoodPair(q) /\ q.e = e /\ q.st = p.st
  BY <1>1 DEF GoodPair, Pairs, Good
<1> HIDE DEF q
<1>3. QED BY <1>2 DEF Polls, Calm, q

(* The status is asked for, while the poller runs.                         *)
LEMMA RunAskPolls ==
  ASSUME NEW p, NEW f, Polls(p, f), NEW c \in StatusCmds
  PROVE  Polls(Run(AskFor(p, c)), f)
<1> DEFINE e1 == run_queue(queue_cmd(p.e, Msg(c, 0)))
<1>1. /\ Good(p.e) /\ p.e.avail = TRUE /\ p.e.mq = << >> /\ OnlyPolls(p.e)
      /\ c \in PollCmds
  BY PollsAreCmds DEF Polls, Calm, GoodPair
<1>2. Good(e1) /\ e1.mq = << >> /\ OnlyPolls(e1) /\ Like(p.e, e1)
  BY <1>1, OneMorePoll
<1>3. Run(AskFor(p, c)) = [p EXCEPT !.e = e1]
  BY DEF Run, AskFor, Ask, Polls, Calm, GoodPair, Pairs
<1> HIDE DEF e1
<1>4. Polls([p EXCEPT !.e = e1], f)
  BY <1>2, PollsEngine DEF Like, Polls
<1>5. QED BY <1>3, <1>4

(* The answer to a poll.                                                   *)
LEMMA AnswerPolls ==
  ASSUME NEW p, NEW f, Polls(p, f), NEW m \in Message, m.cmd \in PollCmds,
         NEW arm \in BOOLEAN
  PROVE  Polls(handle_msp(p, m, f, arm), f)
<1>1. CASE m.cmd \in StatusCmds
  <2> DEFINE h == handle_msp_status(p, f, arm)
  <2>1. handle_msp(p, m, f, arm) = got_status(p, f, arm)
    BY <1>1 DEF handle_msp, Chained, StatusCmds
  <2>2. /\ Calm(h) /\ h.e.wire = p.e.wire /\ h.e.mq = p.e.mq
        /\ h.e.lastmsg = p.e.lastmsg /\ h.st.starttasks = 0
        /\ h.e.serstate = "POLLER" /\ h.e.requests # << >>
        /\ h.st.inav = p.st.inav /\ h.st.vers = p.st.vers
    BY StatusHandled DEF Polls
  <2>3. got_status(p, f, arm) = h
    BY <2>2 DEF got_status
  <2> HIDE DEF h
  <2>4. QED BY <2>1, <2>2, <2>3 DEF Polls, OnlyPolls, Knows
<1>2. CASE m.cmd = "WP"
  <2> DEFINE b == (m.arg = 0)
             e1 == [p.e EXCEPT !.last0wp = b]
  <2>1. handle_msp(p, m, f, arm) = [p EXCEPT !.e.last0wp = (m.arg = 0)]
    BY <1>2, Zenon DEF handle_msp, Chained, StatusCmds
  <2>2. [p EXCEPT !.e.last0wp = (m.arg = 0)] = [p EXCEPT !.e = e1]
    BY DEF Polls, Calm, GoodPair, Pairs
  <2>3. b \in BOOLEAN
    OBVIOUS
  <2> HIDE DEF b
  <2>4. /\ Good(e1) /\ e1.mq = p.e.mq /\ e1.wire = p.e.wire
        /\ e1.lastmsg = p.e.lastmsg /\ Like(p.e, e1)
    BY <2>3, ZenonT(60) DEF Polls, Calm, GoodPair, Pairs, Good, PollListOK, Engine, Like
  <2> HIDE DEF e1
  <2>5. OnlyPolls(e1)
    BY <2>4 DEF OnlyPolls, Polls
  <2>6. Polls([p EXCEPT !.e = e1], f)
    <3>1. e1.mq = << >> /\ e1.requests # << >>
      BY <2>4 DEF Like, Polls
    <3>2. /\ e1.avail = p.e.avail /\ e1.closing = p.e.closing
          /\ e1.mleave = p.e.mleave /\ e1.divzero = p.e.divzero
          /\ e1.serstate = p.e.serstate
      BY <2>4 DEF Like
    <3>3. QED BY <2>4, <2>5, <3>1, <3>2, PollsEngine
  <2>7. QED BY <2>1, <2>2, <2>6
<1>3. CASE m.cmd \notin StatusCmds /\ m.cmd # "WP"
  <2>1. handle_msp(p, m, f, arm) = p
    BY <1>3 DEF handle_msp, Chained, PollCmds
  <2>2. QED BY <2>1
<1>4. QED BY <1>1, <1>2, <1>3

(* A poll refused.                                                         *)
LEMMA ErrorPolls ==
  ASSUME NEW p, NEW f, Polls(p, f), NEW m \in Message, m.cmd \in PollCmds
  PROVE  Polls(handle_msp_error(p, m), f)
<1> DEFINE h == handle_msp_error(p, m)
<1>1. /\ GoodPair(p) /\ p.e \in Engine /\ p.st \in Flags
      /\ p.st.msp_get_status \in StatusCmds
  BY FlagFields DEF Polls, Calm, GoodPair, Pairs
<1>2. CASE m.cmd = "ADSB_VEHICLE_LIST"
  <2> DEFINE e1 == clear_poller_item(p.e, "ADSB_VEHICLE_LIST")
  <2>1. h = [p EXCEPT !.e = e1]
    BY <1>2 DEF handle_msp_error, ErrorChained
  <2>2. "ADSB_VEHICLE_LIST" \notin StatusCmds
    BY DEF StatusCmds
  <2>3. Good(e1)
    BY <1>1, <2>2, ClearPollerItem DEF GoodPair, Keeps
  <2>4. e1.requests # << >>
    <3> DEFINE r == [i \in DOMAIN p.e.requests |->
                       IF p.e.requests[i] = "ADSB_VEHICLE_LIST" THEN "NOOP"
                       ELSE p.e.requests[i]]
    <3>1. e1.requests = r /\ DOMAIN r = DOMAIN p.e.requests
      BY <1>1 DEF clear_poller_item, Engine
    <3>2. DOMAIN p.e.requests = 1 .. Len(p.e.requests) /\ Len(p.e.requests) > 0
      BY <1>1 DEF Polls, Engine
    <3>3. 1 \in DOMAIN e1.requests
      BY <3>1, <3>2
    <3>4. QED BY <3>3
  <2>5. Alike(p.e, e1)
    BY <1>1 DEF clear_poller_item, Alike, Engine
  <2> HIDE DEF e1
  <2>6. OnlyPolls(e1) /\ e1.mq = << >>
    BY <2>5 DEF OnlyPolls, Polls, Alike
  <2>7. QED BY <2>1, <2>3, <2>4, <2>5, <2>6, PollsEngine DEF Alike
<1>3. CASE m.cmd \in {"INAV_STATUS", "STATUS_EX"}
  <2>1. PICK c \in StatusCmds :
          h = Run(AskStatus([p EXCEPT !.st.msp_get_status = c]))
    BY <1>3 DEF handle_msp_error, ErrorChained, StatusCmds
  <2> DEFINE s1 == [p.st EXCEPT !.msp_get_status = c]
             p1 == [p EXCEPT !.st = s1]
  <2>2. [p EXCEPT !.st.msp_get_status = c] = p1
    BY <1>1 DEF GoodPair, Pairs
  <2>3. /\ s1 \in Flags /\ s1.starttasks = p.st.starttasks
        /\ s1.reopen = p.st.reopen /\ s1.opening = p.st.opening
        /\ s1.can_startup = p.st.can_startup /\ s1.inav = p.st.inav
        /\ s1.vers = p.st.vers /\ s1.msp_get_status = c
    BY <1>1 DEF Flags
  <2> HIDE DEF s1
  <2>4. GoodPair(p1) /\ p1.st = s1 /\ p1.e = p.e
    BY <1>1, <2>3 DEF GoodPair, Pairs
  <2> HIDE DEF p1
  <2>5. Polls(p1, f)
    BY <2>3, <2>4 DEF Polls, Calm, TasksOK, Knows
  <2>6. Polls(Run(AskFor(p1, c)), f)
    BY <2>5, RunAskPolls
  <2>7. AskStatus(p1) = AskFor(p1, c)
    BY <2>3, <2>4 DEF AskStatus
  <2>8. QED BY <2>1, <2>2, <2>6, <2>7
<1>4. CASE m.cmd \notin {"ADSB_VEHICLE_LIST", "INAV_STATUS", "STATUS_EX"}
  <2>1. h = Run(AskStatus(p))
    BY <1>4 DEF handle_msp_error, ErrorChained, PollCmds, StatusCmds
  <2>2. QED BY <1>1, <2>1, RunAskPolls DEF AskStatus
<1>5. QED BY <1>2, <1>3, <1>4

----------------------------------------------------------------------------
(* What comes after a message.                                             *)

(* A conversation that waits for the answer to one command, and all that   *)
(* may be at rest between two steps.                                       *)
Waiting(p, f) ==
  /\ Talks(p) /\ p.e.mq = << >>
  /\ \E m \in Message : /\ p.e.wire = <<m>> /\ p.e.lastmsg \in {m, NoMsg}
                        /\ Fits(p.st, f, m.cmd)
Settles(p, f) == Free(p, f) \/ Waiting(p, f) \/ TwoSent(p, f) \/ Polls(p, f)

(* The poll loop goes on, now or a little later.                           *)
LEMMA TimedPollPolls ==
  ASSUME NEW p, NEW f, Polls(p, f), NEW soon \in BOOLEAN
  PROVE  Polls([p EXCEPT !.e = timed_poll(p.e, soon)], f)
<1>1. /\ Good(p.e) /\ p.e.avail = TRUE /\ p.e.mq = << >> /\ OnlyPolls(p.e)
      /\ p.e.requests # << >> /\ p.e \in Engine
  BY DEF Polls, Calm, GoodPair, Pairs
<1>2. CASE soon
  <2> DEFINE n  == p.e.pend + 1
             e1 == [p.e EXCEPT !.pend = n]
  <2>1. n \in Nat
    BY <1>1, Fields
  <2>2. timed_poll(p.e, soon) = e1
    BY <1>1, <1>2 DEF timed_poll
  <2> HIDE DEF n
  <2>3. /\ Good(e1) /\ e1.mq = p.e.mq /\ e1.wire = p.e.wire
        /\ e1.lastmsg = p.e.lastmsg /\ e1.requests = p.e.requests
        /\ e1.avail = p.e.avail /\ e1.closing = p.e.closing
        /\ e1.mleave = p.e.mleave /\ e1.divzero = p.e.divzero
        /\ e1.serstate = p.e.serstate
    BY <1>1, <2>1 DEF Good, PollListOK, Engine
  <2> HIDE DEF e1
  <2>4. OnlyPolls(e1)
    BY <1>1, <2>3 DEF OnlyPolls
  <2>5. QED BY <1>1, <2>2, <2>3, <2>4, PollsEngine
<1>3. CASE ~soon
  <2> DEFINE e1 == next_poll(p.e)
  <2>1. Good(e1) /\ e1.mq = << >> /\ OnlyPolls(e1) /\ Like(p.e, e1)
    BY <1>1, NextPollOnly
  <2>2. timed_poll(p.e, soon) = e1
    BY <1>1, <1>3 DEF timed_poll
  <2> HIDE DEF e1
  <2>3. QED BY <1>1, <2>1, <2>2, PollsEngine DEF Like
<1>4. QED BY <1>2, <1>3

(* What handle_serial does last settles what the handler has begun.        *)
LEMMA MessageSettles ==
  ASSUME NEW p, NEW f, Outcome(p, f), NEW soon \in BOOLEAN
  PROVE  Settles([p EXCEPT !.e = message_handled(@, soon)], f)
<1> DEFINE q == [p EXCEPT !.e = message_handled(p.e, soon)]
<1>1. CASE Free(p, f) \/ Sent(p, f) \/ TwoSent(p, f)
  <2>1. p.e.serstate = "NORMAL" /\ p.e.mq = << >> /\ p \in Pairs
    BY <1>1 DEF Free, Open, Sent, TwoSent, Talks, Calm, GoodPair
  <2>2. message_handled(p.e, soon) = p.e
    BY <2>1 DEF message_handled
  <2>3. q = p
    BY <2>1, <2>2 DEF Pairs
  <2>4. QED BY <1>1, <2>3 DEF Settles, Sent, Waiting
<1>2. CASE Asked(p, f) \/ TwoAsked(p, f)
  <2>1. p.e.serstate = "NORMAL" /\ p.e.mq # << >>
    <3>1. \A m : <<m>> # << >>
      OBVIOUS
    <3>2. p.e.mq # << >>
      BY <1>2, <3>1 DEF Asked, TwoAsked
    <3>3. QED BY <1>2, <3>2 DEF Asked, TwoAsked, Talks
  <2>2. q = Run(p)
    BY <2>1 DEF message_handled, Run
  <2>3. Sent(Run(p), f) \/ TwoSent(Run(p), f)
    BY <1>2, RunAsked, RunTwo
  <2> HIDE DEF q
  <2>4. Settles(q, f)
    BY <2>2, <2>3 DEF Settles, Sent, Waiting
  <2>5. QED BY <2>4 DEF q
<1>3. CASE Polls(p, f)
  <2>1. p.e.serstate = "POLLER" /\ p.e.mq = << >> /\ p.e.mleave = 0
    BY <1>3 DEF Polls, Calm
  <2>2. message_handled(p.e, soon) = timed_poll(p.e, soon)
    BY <2>1 DEF message_handled
  <2>3. QED BY <1>3, <2>2, TimedPollPolls DEF Settles
<1>4. QED BY <1>1, <1>2, <1>3 DEF Outcome

(* The flags that Fits reads.                                              *)
SameKnowledge(s, s1) ==
  /\ s1.starttasks = s.starttasks /\ s1.need_startup = s.need_startup
  /\ s1.have_fcv = s.have_fcv /\ s1.have_fcvv = s.have_fcvv
  /\ s1.inav = s.inav /\ s1.vers = s.vers

(* What fits depends on the flags that the command is chosen by.           *)
LEMMA FitsStill ==
  ASSUME NEW s, NEW s1, SameKnowledge(s, s1), NEW f
  PROVE  /\ \A c : Fits(s, f, c) => Fits(s1, f, c)
         /\ Knows(s, f) => Knows(s1, f)
  BY DEF SameKnowledge, Fits, Knows, Learnt

(* A message is taken off the wire and received.                           *)
LEMMA MessageReceived ==
  ASSUME NEW p, Calm(p), p.e.wire # << >>, NEW c \in Cmds,
         NEW err \in BOOLEAN
  PROVE  LET q  == [p EXCEPT !.e.wire = Tail(@)]
             p1 == [q EXCEPT !.e = received(@, c, err),
                             !.st.seenMSP = TRUE, !.st.last_tm = 0]
         IN  /\ Calm(p1) /\ SameKnowledge(p.st, p1.st)
             /\ p1.e.wire = Tail(p.e.wire) /\ p1.e.mq = p.e.mq
             /\ p1.e.pend = p.e.pend /\ p1.e.serstate = p.e.serstate
             /\ p1.e.closing = p.e.closing
             /\ p1.e.requests = p.e.requests
             /\ p1.e.lastmsg = IF err THEN p.e.lastmsg ELSE NoMsg
<1> DEFINE q  == [p EXCEPT !.e.wire = Tail(@)]
           p1 == [q EXCEPT !.e = received(@, c, err),
                           !.st.seenMSP = TRUE, !.st.last_tm = 0]
           w  == Tail(p.e.wire)
           l  == IF err THEN p.e.lastmsg ELSE NoMsg
           e0 == [p.e EXCEPT !.wire = w]
           e1 == [e0 EXCEPT !.currx = c, !.okage = 0, !.rxage = 0,
                            !.lastmsg = l]
           s1 == [p.st EXCEPT !.seenMSP = TRUE, !.last_tm = 0]
<1>1. p.e \in Engine /\ Good(p.e) /\ p.st \in Flags /\ p \in Pairs
  BY DEF Calm, GoodPair, Pairs
<1>2. w \in Seq(Message) /\ l \in Message \cup {NoMsg}
  BY <1>1, Fields
<1>3. q = [p EXCEPT !.e = e0]
  BY <1>1 DEF Pairs
<1> HIDE DEF w
<1>4. /\ e0 \in Engine /\ e0.lastmsg = p.e.lastmsg
  BY <1>1, <1>2 DEF Engine
<1>5. received(e0, c, err) = e1
  BY <1>4 DEF received
<1>6. p1 = [p EXCEPT !.e = e1, !.st = s1]
  <2> HIDE DEF e0, e1
  <2>1. q.e = e0 /\ q.st = p.st /\ q = [e |-> e0, st |-> p.st]
    BY <1>1, <1>3 DEF Pairs
  <2> HIDE DEF q
  <2>2. QED BY <1>1, <1>5, <2>1 DEF Pairs
<1> HIDE DEF l
<1>7. /\ e1 \in Engine /\ e1.wire = w /\ e1.lastmsg = l /\ e1.mq = p.e.mq
      /\ e1.pend = p.e.pend /\ e1.avail = p.e.avail
      /\ e1.closing = p.e.closing /\ e1.mleave = p.e.mleave
      /\ e1.divzero = p.e.divzero /\ e1.serstate = p.e.serstate
      /\ e1.requests = p.e.requests
  BY <1>1, <1>2, SmallNumbers, ZenonT(60) DEF Engine
<1>8. Good(e1)
  BY <1>1, <1>7 DEF Good, PollListOK
<1>9. /\ s1 \in Flags /\ SameKnowledge(p.st, s1)
      /\ s1.reopen = p.st.reopen /\ s1.opening = p.st.opening
      /\ s1.can_startup = p.st.can_startup
  BY <1>1, FlagValues DEF Flags, SameKnowledge
<1> HIDE DEF p1, e1, s1
<1>10. p1.e = e1 /\ p1.st = s1 /\ p1 \in Pairs
  BY <1>1, <1>6, <1>7, <1>9 DEF Pairs
<1>11. Calm(p1)
  BY <1>7, <1>8, <1>9, <1>10 DEF Calm, GoodPair, TasksOK, SameKnowledge
<1>12. QED BY <1>7, <1>9, <1>10, <1>11 DEF w, l, p1

(* A whole MSP message.                                                    *)
LEMMA SerialSettles ==
  ASSUME NEW p, NEW f \in FCKind, Settles(p, f), p.e.wire # << >>,
         NEW arm \in BOOLEAN, NEW soon \in BOOLEAN
  PROVE  LET m == Head(p.e.wire)
         IN  Settles(handle_serial([p EXCEPT !.e.wire = Tail(@)], m, f, arm,
                                   Rejects(f, m), soon), f)
<1> DEFINE m   == Head(p.e.wire)
           err == Rejects(f, m)
           q   == [p EXCEPT !.e.wire = Tail(@)]
           p1  == [q EXCEPT !.e = received(@, m.cmd, err),
                            !.st.seenMSP = TRUE, !.st.last_tm = 0]
           p2  == IF err THEN handle_msp_error(p1, m)
                         ELSE handle_msp(p1, m, f, arm)
<1>1. Calm(p) /\ p.e.wire \in Seq(Message)
  BY Fields DEF Settles, Free, Open, Waiting, TwoSent, Polls, Talks, Calm,
                GoodPair
<1>2. m \in Message /\ m.cmd \in Cmds /\ err \in BOOLEAN
  <2>1. m \in Message
    BY <1>1
  <2>2. err \in BOOLEAN
    BY DEF Rejects
  <2> HIDE DEF m, err
  <2>3. QED BY <2>1, <2>2 DEF Message
<1>3. /\ Calm(p1) /\ SameKnowledge(p.st, p1.st)
      /\ p1.e.wire = Tail(p.e.wire) /\ p1.e.mq = p.e.mq
      /\ p1.e.pend = p.e.pend /\ p1.e.serstate = p.e.serstate
      /\ p1.e.closing = p.e.closing
      /\ p1.e.requests = p.e.requests
      /\ p1.e.lastmsg = IF err THEN p.e.lastmsg ELSE NoMsg
  BY <1>1, <1>2, MessageReceived, ZenonT(60)
<1>4. handle_serial(q, m, f, arm, err, soon)
        = [p2 EXCEPT !.e = message_handled(@, soon)]
  BY DEF handle_serial
<1>5. ASSUME Outcome(p2, f)
      PROVE  Settles(handle_serial(q, m, f, arm, err, soon), f)
  <2> HIDE DEF p2
  <2>1. QED BY <1>4, <1>5, MessageSettles
<1> HIDE DEF p1
<1>6. CASE Waiting(p, f)
  <2>1. PICK x \in Message : /\ p.e.wire = <<x>> /\ p.e.lastmsg \in {x, NoMsg}
                             /\ Fits(p.st, f, x.cmd)
    BY <1>6 DEF Waiting
  <2>2. m = x /\ Tail(p.e.wire) = << >>
    BY <2>1
  <2> HIDE DEF m
  <2>3. Open(p1) /\ Fits(p1.st, f, m.cmd)
    BY <1>3, <1>6, <2>1, <2>2, FitsStill DEF Open, Waiting, Talks
  <2>4. Free(p1, f) /\ (~err => p1.e.lastmsg = NoMsg)
    BY <1>3, <2>1, <2>2, <2>3 DEF Free
  <2>5. Outcome(p2, f)
    <3>0. err = Rejects(f, m)
      OBVIOUS
    <3> HIDE DEF err
    <3>1. CASE err
      <4>1. Outcome(handle_msp_error(p1, m), f)
        BY <1>2, <2>3, <2>4, <3>0, <3>1, ErrorOpen
      <4>2. QED BY <3>1, <4>1
    <3>2. CASE ~err
      BY <1>2, <2>3, <2>4, <3>2, AnswerOpen
    <3>3. QED BY <3>1, <3>2
  <2> HIDE DEF p2
  <2>6. Settles(handle_serial(q, m, f, arm, err, soon), f)
    BY <1>5, <2>5
  <2>7. QED BY <2>6 DEF m
<1>7. CASE TwoSent(p, f)
  <2>1. m = WpInfo /\ Tail(p.e.wire) = <<Boxes>>
    BY <1>7 DEF TwoSent
  <2>2. m.cmd = "WP_GETINFO"
    BY <2>1 DEF WpInfo, Msg
  <2> HIDE DEF m
  <2>3. /\ p1.e.mq = << >> /\ p1.e.lastmsg \in {Boxes, NoMsg}
        /\ p1.e.serstate = "NORMAL"
    BY <1>3, <1>7 DEF TwoSent, Talks
  <2>4. p2 = p1
    <3>1. Run(p1) = p1
      BY <1>3, <2>3 DEF Run, run_queue, Calm, GoodPair, Pairs
    <3>2. handle_msp_error(p1, m) = p1
      BY <2>2, <3>1 DEF handle_msp_error, ErrorChained
    <3>3. handle_msp(p1, m, f, arm) = p1
      BY <2>2 DEF handle_msp, Chained, StatusCmds
    <3>4. QED BY <3>2, <3>3
  <2>5. [p1 EXCEPT !.e = message_handled(@, soon)] = p1
    <3>1. message_handled(p1.e, soon) = p1.e
      BY <2>3 DEF message_handled
    <3>2. QED BY <1>3, <3>1 DEF Calm, GoodPair, Pairs
  <2>6. Boxes \in Message /\ Boxes.cmd = "ACTIVEBOXES"
    BY MsgIsMessage, StartupMessages DEF Boxes, Msg, StartupCmds
  <2>7. Waiting(p1, f)
    <3>1. Fits(p.st, f, "ACTIVEBOXES")
      BY <1>7 DEF TwoSent
    <3>2. Fits(p1.st, f, "ACTIVEBOXES")
      BY <1>3, <3>1, FitsStill
    <3>3. p.e.closing = FALSE /\ p.e.pend = 0
      BY <1>7 DEF TwoSent, Talks
    <3>4. Talks(p1)
      BY <1>3, <2>3, <3>3 DEF Talks
    <3>5. p1.e.wire = <<Boxes>>
      BY <1>3, <2>1
    <3>6. QED BY <2>3, <2>6, <3>2, <3>4, <3>5 DEF Waiting
  <2> HIDE DEF p2
  <2>8. Settles(handle_serial(q, m, f, arm, err, soon), f)
    BY <1>4, <2>4, <2>5, <2>7 DEF Settles
  <2>9. QED BY <2>8 DEF m
<1>8. CASE Polls(p, f)
  <2>1. m.cmd \in PollCmds /\ \A i \in 1 .. Len(Tail(p.e.wire)) :
                                Tail(p.e.wire)[i].cmd \in PollCmds
    BY <1>1, <1>8 DEF Polls, OnlyPolls
  <2> HIDE DEF m
  <2>2. OnlyPolls(p1.e)
    BY <1>3, <1>8, <2>1 DEF OnlyPolls, Polls
  <2>3. Polls(p1, f)
    BY <1>3, <1>8, <2>2, FitsStill DEF Polls, SameKnowledge
  <2>4. Polls(p2, f)
    BY <1>2, <2>1, <2>3, AnswerPolls, ErrorPolls
  <2> HIDE DEF p2
  <2>5. Settles(handle_serial(q, m, f, arm, err, soon), f)
    BY <1>5, <2>4 DEF Outcome
  <2>6. QED BY <2>5 DEF m
<1>9. CASE Free(p, f)
  BY <1>9 DEF Free, Open
<1>10. QED BY <1>6, <1>7, <1>8, <1>9 DEF Settles

----------------------------------------------------------------------------
(* The whole session, between two steps.                                   *)

(* What no step changes. Closed: the device is down, and either one open   *)
(* is under way or deferred polls of the session before are still to fire. *)
(* Begun: a conversation, whatever is on its wire.                         *)
Steady(p) ==
  /\ GoodPair(p)
  /\ p.e.mq = << >> /\ p.e.mleave = 0 /\ p.e.divzero = FALSE
  /\ TasksOK(p.st) /\ p.st.reopen = FALSE /\ p.st.can_startup = FALSE
Closed(p) ==
  /\ Steady(p) /\ p.e.avail = FALSE /\ p.e.serstate = "NONE"
  /\ p.e.wire = << >>
  /\ p.e.pend = 0 \/ (p.e.requests # << >> /\ p.st.opening = 0)
  /\ p.st.opening = 0 \/ (p.st.opening = 1 /\ p.st.button = FALSE)
Begun(p) ==
  /\ Steady(p) /\ p.e.avail = TRUE /\ p.e.serstate = "NORMAL"
  /\ p.e.pend = 0 /\ p.st.opening = 0

(* A conversation with a silent FC, or with a device about to be closed,   *)
(* goes nowhere; the poller runs on until the device is closed.            *)
Runs(p, f) ==
  \/ Closed(p)
  \/ Begun(p) /\ (p.e.closing \/ f.silent)
  \/ Polls(p, f)
  \/ ~f.silent /\ Settles(p, f)

(* Whatever the session before it left behind, IDENT is what is sent.      *)
LEMMA Begins ==
  ASSUME NEW p, Steady(p), p.e.avail = TRUE, p.e.closing = FALSE,
         p.e.wire = << >>, p.e.pend = 0, p.st.opening = 0, NEW f
  PROVE  Sent(begin_normal(serial_reset(p)), f)
<1> DEFINE e1 == [p.e EXCEPT !.serstate = "NONE", !.requests = << >>,
                      !.tcycle = 0, !.lastpoll = "NOOP", !.currx = "NOOP",
                      !.last0wp = FALSE, !.armed = FALSE, !.due = {},
                      !.okage = 0, !.rxage = 0]
           s1 == [forget_fc(p.st) EXCEPT !.nticks = 0, !.last_tm = 0,
                                         !.idcount = 0, !.dac = FALSE]
           e2 == [e1 EXCEPT !.serstate = "NORMAL"]
           r  == serial_reset(p)
           q  == [r EXCEPT !.e.serstate = "NORMAL"]
<1>1. p.e \in Engine /\ p.st \in Flags
  BY DEF Steady, GoodPair, Pairs
<1>2. r = [e |-> e1, st |-> s1]
  BY DEF serial_reset
<1>3. /\ s1.starttasks = p.st.starttasks /\ s1.reopen = p.st.reopen
      /\ s1.opening = p.st.opening /\ s1.can_startup = p.st.can_startup
      /\ s1.have_fcv = FALSE /\ s1.have_fcvv = FALSE
  BY <1>1 DEF Flags, forget_fc
<1>4. /\ e1.wire = p.e.wire /\ e1.mq = p.e.mq /\ e1.pend = p.e.pend
      /\ e1.avail = p.e.avail /\ e1.closing = p.e.closing
      /\ e1.mleave = p.e.mleave /\ e1.divzero = p.e.divzero
  BY <1>1 DEF Engine
<1>5. GoodPair(r) /\ r.e = e1 /\ r.st = s1
  BY <1>2, SerialResetKept DEF Steady, PairKept
<1> HIDE DEF e1, s1
<1>6. q = [e |-> e2, st |-> s1]
  BY <1>2
<1> HIDE DEF r
<1>7. e1 \in Engine /\ s1 \in Flags /\ Good(e1)
  BY <1>5 DEF GoodPair, Pairs
<1>8. Good(e2)
  BY <1>7, ZenonT(60) DEF Good, PollListOK, Engine, SERSTATE
<1>9. /\ e2.wire = e1.wire /\ e2.mq = e1.mq /\ e2.pend = e1.pend
      /\ e2.avail = e1.avail /\ e2.closing = e1.closing
      /\ e2.mleave = e1.mleave /\ e2.divzero = e1.divzero
      /\ e2.serstate = "NORMAL"
  BY <1>7 DEF Engine
<1> HIDE DEF e2
<1>10. GoodPair(q) /\ q.e = e2 /\ q.st = s1
  BY <1>6, <1>7, <1>8 DEF GoodPair, Pairs, Good
<1>11. begin_normal(r) = Run(AskFor(q, "IDENT"))
  BY DEF begin_normal
<1> HIDE DEF q
<1>12. Open(q)
  BY <1>3, <1>4, <1>9, <1>10 DEF Open, Talks, Calm, Steady, TasksOK
<1>13. Fits(q.st, f, "IDENT") /\ "IDENT" \in Cmds
  BY <1>3, <1>10 DEF Fits, Learnt, Early, Middle, Bulk, Cmds, StartupCmds
<1>14. Sent(Run(AskFor(q, "IDENT")), f)
  BY <1>12, <1>13, AskForOpen, RunAsked
<1>15. QED BY <1>11, <1>14 DEF r

(* The same with commands of a dead FC still on the wire.                  *)
LEMMA BeginsAnyway ==
  ASSUME NEW p, Steady(p), p.e.avail = TRUE, p.st.opening = 0
  PROVE  p.e.pend = 0 => Begun(begin_normal(serial_reset(p)))
<1> SUFFICES ASSUME p.e.pend = 0 PROVE Begun(begin_normal(serial_reset(p)))
  OBVIOUS
<1> DEFINE e1 == [p.e EXCEPT !.serstate = "NONE", !.requests = << >>,
                      !.tcycle = 0, !.lastpoll = "NOOP", !.currx = "NOOP",
                      !.last0wp = FALSE, !.armed = FALSE, !.due = {},
                      !.okage = 0, !.rxage = 0]
           s1 == [forget_fc(p.st) EXCEPT !.nticks = 0, !.last_tm = 0,
                                         !.idcount = 0, !.dac = FALSE]
           m  == Msg("IDENT", 0)
           l  == <<m>>
           z  == << >>
           e2 == [e1 EXCEPT !.serstate = "NORMAL"]
           e3 == [e2 EXCEPT !.mq = l]
           e4 == [e3 EXCEPT !.lastmsg = m, !.mq = z]
           w  == Append(p.e.wire, m)
           e5 == [e4 EXCEPT !.wire = w]
           r  == serial_reset(p)
           b  == begin_normal(r)
<1>1. p.e \in Engine /\ p.st \in Flags
  BY DEF Steady, GoodPair, Pairs
<1>2. GoodPair(r) /\ GoodPair(b)
  BY SerialResetKept, BeginNormalKept DEF Steady, PairKept, PairUp
<1>3. r = [e |-> e1, st |-> s1]
  BY DEF serial_reset
<1>4. /\ s1.starttasks = p.st.starttasks /\ s1.reopen = p.st.reopen
      /\ s1.opening = p.st.opening /\ s1.can_startup = p.st.can_startup
  BY <1>1 DEF Flags, forget_fc
<1>5. /\ e1.wire = p.e.wire /\ e1.mq = << >> /\ e1.pend = p.e.pend
      /\ e1.avail = TRUE /\ e1.mleave = p.e.mleave
      /\ e1.divzero = p.e.divzero /\ DOMAIN e1 = DOMAIN p.e
  BY <1>1 DEF Engine, Steady
<1>6. e1 \in Engine
  BY <1>2, <1>3 DEF GoodPair, Pairs
<1> HIDE DEF e1, s1
<1>7. Append(<< >>, m) = l /\ Head(l) = m /\ Tail(l) = z /\ l # << >>
  OBVIOUS
<1> HIDE DEF m, l, z
<1>8. e2.avail = TRUE /\ e2.mq = << >> /\ e2.wire = p.e.wire
  BY <1>5, <1>6 DEF Engine
<1>9. /\ e3.avail = TRUE /\ e3.mq = l /\ e4.wire = p.e.wire
  BY <1>5, <1>6 DEF Engine
<1>10. b = [e |-> run_queue(queue_cmd(e2, m)), st |-> s1]
  <2> DEFINE r1 == [r EXCEPT !.e.serstate = "NORMAL"]
             k  == queue_cmd(e2, m)
  <2>1. r1.e = e2 /\ r1.st = s1 /\ r1 = [e |-> e2, st |-> s1]
    BY <1>3
  <2>2. b = Run(AskFor(r1, "IDENT"))
    BY DEF begin_normal
  <2> HIDE DEF e2, r1, b
  <2>3. AskFor(r1, "IDENT") = [e |-> k, st |-> s1]
    BY <2>1 DEF AskFor, Ask, m
  <2> HIDE DEF k
  <2>4. Run([e |-> k, st |-> s1]) = [e |-> run_queue(k), st |-> s1]
    BY DEF Run
  <2>5. QED BY <2>2, <2>3, <2>4 DEF k
<1>11. /\ e5.wire = w /\ e5.mq = z /\ e5.pend = e1.pend
       /\ e5.avail = TRUE /\ e5.mleave = e1.mleave
       /\ e5.divzero = e1.divzero /\ e5.serstate = "NORMAL"
  <2> HIDE DEF w
  <2>1. QED BY <1>5, <1>6 DEF Engine
<1> HIDE DEF w
<1>12. run_queue(queue_cmd(e2, m)) = e5
  <2> HIDE DEF e2
  <2>1. queue_cmd(e2, m) = e3
    BY <1>7, <1>8 DEF queue_cmd
  <2> HIDE DEF e3
  <2>2. run_queue(e3) = send_command(e4, m)
    BY <1>7, <1>9 DEF run_queue
  <2> HIDE DEF e4
  <2>3. send_command(e4, m) = e5
    BY <1>9 DEF send_command, w
  <2>4. QED BY <2>1, <2>2, <2>3
<1> HIDE DEF e2, e3, e4, e5, r, b
<1>13. b.e = e5 /\ b.st = s1
  BY <1>10, <1>12
<1>14. Begun(b)
  BY <1>2, <1>4, <1>5, <1>11, <1>13 DEF Begun, Steady, TasksOK, z
<1>15. QED BY <1>14 DEF b, r

(* Time alone changes nothing of this.                                     *)
Aged(p, q) ==
  /\ GoodPair(q) /\ Alike(p.e, q.e) /\ q.e.requests = p.e.requests
  /\ SameKnowledge(p.st, q.st) /\ q.st.reopen = p.st.reopen
  /\ q.st.opening = p.st.opening /\ q.st.can_startup = p.st.can_startup
  /\ q.st.button = p.st.button

(* The ages of the engine and the session's clocks move.                   *)
LEMMA ElapsedAges ==
  ASSUME NEW p, GoodPair(p), NEW d \in SUBSET RateLimited
  PROVE  Aged(p, elapsed(p, d))
<1> DEFINE n == IF p.st.nticks < TickMax THEN p.st.nticks + 1 ELSE p.st.nticks
           a == IF p.st.last_tm \in 1 .. (MavIntvl + 1)
                THEN p.st.last_tm + 1 ELSE p.st.last_tm
           o == Older(p.e.okage)
           r == Older(p.e.rxage)
           u == p.e.due \cup d
           e1 == [p.e EXCEPT !.okage = o, !.rxage = r, !.due = u]
           s1 == [p.st EXCEPT !.nticks = n, !.last_tm = a]
<1>1. p.e \in Engine /\ p.st \in Flags /\ p \in Pairs
  BY FlagFields DEF GoodPair
<1>2. elapsed(p, d) = [p EXCEPT !.e = e1, !.st = s1]
  BY ZenonT(60) DEF elapsed, GoodPair, Pairs, Engine, Flags
<1>3. GoodPair(elapsed(p, d))
  BY ElapsedKept DEF PairKept
<1> HIDE DEF n, a, o, r, u
<1>4. Alike(p.e, e1) /\ e1.requests = p.e.requests
  BY <1>1 DEF Alike, Engine
<1>5. /\ SameKnowledge(p.st, s1) /\ s1.reopen = p.st.reopen
      /\ s1.opening = p.st.opening /\ s1.can_startup = p.st.can_startup
      /\ s1.button = p.st.button
  BY <1>1 DEF SameKnowledge, Flags
<1> HIDE DEF e1, s1
<1>6. elapsed(p, d).e = e1 /\ elapsed(p, d).st = s1
  BY <1>1, <1>2 DEF Pairs
<1>7. QED BY <1>3, <1>4, <1>5, <1>6 DEF Aged

(* So what the session was it still is.                                    *)
LEMMA AgedStays ==
  ASSUME NEW p, NEW q, Aged(p, q), NEW f
  PROVE  /\ Free(p, f) => Free(q, f)
         /\ Polls(p, f) => Polls(q, f)
         /\ Begun(p) => Begun(q)
         /\ Closed(p) => Closed(q)
<1>1. Calm(p) => Calm(q)
  BY DEF Aged, Alike, SameKnowledge, Calm, TasksOK
<1>2. Free(p, f) => Free(q, f)
  <2>1. q.e.lastmsg = p.e.lastmsg /\ SameKnowledge(p.st, q.st)
    BY DEF Aged, Alike
  <2>2. Fits(p.st, f, p.e.lastmsg.cmd) => Fits(q.st, f, q.e.lastmsg.cmd)
    BY <2>1, FitsStill
  <2>3. QED BY <1>1, <2>2 DEF Aged, Alike, Free, Open, Talks
<1>3. Polls(p, f) => Polls(q, f)
  BY <1>1, FitsStill DEF Aged, Alike, SameKnowledge, Polls, OnlyPolls
<1>4. Steady(p) => Steady(q)
  BY DEF Aged, Alike, SameKnowledge, Steady, TasksOK
<1>5. QED BY <1>2, <1>3, <1>4 DEF Aged, Alike, Begun, Closed

(* An unanswered command is sent again; what else it disturbs.             *)
LEMMA TimeoutResends ==
  ASSUME NEW e, Good(e), e.avail = TRUE, e.lastmsg # NoMsg
  PROVE  LET e1 == poll_timeout(e)
         IN  /\ Good(e1) /\ e1.wire = Append(e.wire, e.lastmsg)
             /\ e1.mq = e.mq /\ e1.lastmsg = e.lastmsg
             /\ e1.pend = e.pend /\ e1.avail = e.avail
             /\ e1.closing = e.closing /\ e1.mleave = e.mleave
             /\ e1.divzero = e.divzero /\ e1.serstate = e.serstate
             /\ e.requests # << >> => e1.requests # << >>
<1> DEFINE c  == clear_poller_item(e, "ADSB_VEHICLE_LIST")
           e1 == IF e.lastmsg.cmd = "ADSB_VEHICLE_LIST" THEN c ELSE e
           e2 == [e1 EXCEPT !.okage = 0, !.tcycle = 0]
           w  == Append(e.wire, e.lastmsg)
           e3 == [e2 EXCEPT !.wire = w]
           r  == poll_timeout(e)
<1>1. e \in Engine /\ Good(r)
  BY TimeoutBranch DEF Keeps, Good
<1>2. r = resend_last(e2)
  BY DEF poll_timeout
<1>3. /\ Alike(e, c) /\ c \in Engine
      /\ e.requests # << >> => c.requests # << >>
  <2> DEFINE q == [i \in DOMAIN e.requests |->
                     IF e.requests[i] = "ADSB_VEHICLE_LIST" THEN "NOOP"
                     ELSE e.requests[i]]
  <2>1. c.requests = q /\ DOMAIN q = DOMAIN e.requests /\ Alike(e, c)
    BY <1>1 DEF clear_poller_item, Engine, Alike
  <2>2. DOMAIN e.requests = 1 .. Len(e.requests)
        /\ (e.requests # << >> => Len(e.requests) > 0)
    BY <1>1 DEF Engine
  <2>3. e.requests # << >> => 1 \in DOMAIN c.requests
    BY <2>1, <2>2
  <2>4. "ADSB_VEHICLE_LIST" \notin StatusCmds
    BY DEF StatusCmds
  <2>5. c \in Engine
    BY <2>4, ClearPollerItem DEF Keeps, Good
  <2> HIDE DEF c, q
  <2>6. e.requests # << >> => c.requests # << >>
    BY <2>3
  <2>7. QED BY <2>1, <2>5, <2>6
<1> HIDE DEF c, r
<1>4. /\ Alike(e, e1) /\ e1 \in Engine
      /\ e.requests # << >> => e1.requests # << >>
  BY <1>1, <1>3 DEF Alike
<1> HIDE DEF e1
<1>5. Alike(e1, e2) /\ e2 \in Engine /\ e2.requests = e1.requests
  BY <1>4, SmallNumbers DEF Alike, Engine
<1> HIDE DEF e2, w
<1>6. r = e3
  <2>1. e2.avail /\ e2.lastmsg = e.lastmsg /\ e2.wire = e.wire
    BY <1>4, <1>5 DEF Alike
  <2>2. r = send_command(e2, e.lastmsg)
    BY <1>2, <2>1 DEF resend_last
  <2>3. send_command(e2, e.lastmsg) = e3
    BY <2>1 DEF send_command, w
  <2>4. QED BY <2>2, <2>3
<1>7. /\ e3.wire = w /\ e3.mq = e2.mq /\ e3.lastmsg = e2.lastmsg
      /\ e3.pend = e2.pend /\ e3.avail = e2.avail
      /\ e3.closing = e2.closing /\ e3.mleave = e2.mleave
      /\ e3.divzero = e2.divzero /\ e3.serstate = e2.serstate
      /\ e3.requests = e2.requests
  BY <1>5 DEF Engine
<1> HIDE DEF e3
<1>8. QED BY <1>1, <1>4, <1>5, <1>6, <1>7 DEF Alike, w, r

(* The timeout branch of the timer, which counts the unanswered IDENTs and *)
(* gives the device up at the limit: nothing else of the flags changes.    *)
LEMMA CountedTimeout ==
  ASSUME NEW p, GoodPair(p), p.e.avail = TRUE
  PROVE  \E p1 :
           /\ on_timeout(p) = [p1 EXCEPT !.e = poll_timeout(p1.e)]
           /\ GoodPair(p1)
           /\ \/ p1.e = p.e
              \/ /\ p.e.lastmsg.cmd = "IDENT"
                 /\ p1.e = [p.e EXCEPT !.closing = TRUE]
           /\ SameKnowledge(p.st, p1.st) /\ p1.st.reopen = p.st.reopen
           /\ p1.st.opening = p.st.opening
           /\ p1.st.can_startup = p.st.can_startup
<1> DEFINE n  == p.st.idcount + 1
           c1 == [p EXCEPT !.st.idcount = n]
           c2 == [p EXCEPT !.st.idcount = 0, !.e.closing = TRUE]
           s1 == [p.st EXCEPT !.idcount = n]
           s2 == [p.st EXCEPT !.idcount = 0]
           e2 == [p.e EXCEPT !.closing = TRUE]
<1>1. n \in Int /\ 0 \in Int /\ p.st \in Flags /\ p \in Pairs /\ p.e \in Engine
      /\ Good(p.e)
  BY FlagFields DEF GoodPair
<1> HIDE DEF n
<1>2. c1 = [p EXCEPT !.st = s1] /\ c2 = [p EXCEPT !.e = e2, !.st = s2]
  BY <1>1 DEF Pairs
<1>3. /\ s1 \in Flags /\ SameKnowledge(p.st, s1)
      /\ s1.reopen = p.st.reopen /\ s1.opening = p.st.opening
      /\ s1.can_startup = p.st.can_startup
  BY <1>1 DEF Flags, SameKnowledge
<1>4. /\ s2 \in Flags /\ SameKnowledge(p.st, s2)
      /\ s2.reopen = p.st.reopen /\ s2.opening = p.st.opening
      /\ s2.can_startup = p.st.can_startup
  <2>1. s2 \in Flags
    BY <1>1, Zenon DEF Flags
  <2>2. QED BY <1>1, <2>1 DEF Flags, SameKnowledge
<1>5. Good(e2)
  BY <1>1, ZenonT(60) DEF Good, PollListOK, Engine
<1> HIDE DEF s1, s2
<1>6. c1.e = p.e /\ c1.st = s1 /\ GoodPair(c1)
  BY <1>1, <1>2, <1>3 DEF Pairs, GoodPair
<1>7. c2.e = e2 /\ c2.st = s2 /\ GoodPair(c2)
  <2> HIDE DEF e2
  <2>1. QED BY <1>1, <1>2, <1>4, <1>5 DEF Pairs, GoodPair, Good
<1>8. SameKnowledge(p.st, p.st)
  BY DEF SameKnowledge
<1>9. CASE p.e.lastmsg.cmd # "IDENT"
  <2>1. on_timeout(p) = [p EXCEPT !.e = poll_timeout(p.e)]
    BY <1>9 DEF on_timeout
  <2>2. QED BY <1>8, <2>1
<1>10. CASE p.e.lastmsg.cmd = "IDENT" /\ n # IdentLimit
  <2>1. on_timeout(p) = [c1 EXCEPT !.e = poll_timeout(@)]
    BY <1>10 DEF on_timeout, n
  <2> HIDE DEF c1
  <2>2. on_timeout(p) = [c1 EXCEPT !.e = poll_timeout(c1.e)]
    BY <2>1
  <2>3. QED BY <1>3, <1>6, <2>2
<1>11. CASE p.e.lastmsg.cmd = "IDENT" /\ n = IdentLimit
  <2>1. on_timeout(p) = [c2 EXCEPT !.e = poll_timeout(@)]
    BY <1>11 DEF on_timeout, n
  <2> HIDE DEF c2
  <2>2. on_timeout(p) = [c2 EXCEPT !.e = poll_timeout(c2.e)]
    BY <2>1
  <2>3. QED BY <1>4, <1>7, <1>11, <2>2
<1>12. QED BY <1>9, <1>10, <1>11

(* The timeout of a conversation.                                          *)
LEMMA NormalTimeout ==
  ASSUME NEW p, GoodPair(p), p.e.avail = TRUE, p.e.serstate = "NORMAL"
  PROVE  LET q == on_timeout(p)
         IN  /\ GoodPair(q) /\ q.e.mq = p.e.mq /\ q.e.lastmsg = p.e.lastmsg
             /\ q.e.pend = p.e.pend /\ q.e.avail = p.e.avail
             /\ q.e.mleave = p.e.mleave /\ q.e.divzero = p.e.divzero
             /\ q.e.serstate = p.e.serstate
             /\ q.e.wire = IF p.e.lastmsg = NoMsg THEN p.e.wire
                           ELSE Append(p.e.wire, p.e.lastmsg)
             /\ q.e.closing = TRUE \/ q.e.closing = p.e.closing
             /\ SameKnowledge(p.st, q.st) /\ q.st.reopen = p.st.reopen
             /\ q.st.opening = p.st.opening
             /\ q.st.can_startup = p.st.can_startup
<1> DEFINE q == on_timeout(p)
<1>1. PICK p1 :
        /\ q = [p1 EXCEPT !.e = poll_timeout(p1.e)]
        /\ GoodPair(p1)
        /\ \/ p1.e = p.e
           \/ p.e.lastmsg.cmd = "IDENT" /\ p1.e = [p.e EXCEPT !.closing = TRUE]
        /\ SameKnowledge(p.st, p1.st) /\ p1.st.reopen = p.st.reopen
        /\ p1.st.opening = p.st.opening
        /\ p1.st.can_startup = p.st.can_startup
  BY CountedTimeout
<1>2. p.e \in Engine
  BY DEF GoodPair, Pairs
<1>3. /\ p1.e.wire = p.e.wire /\ p1.e.mq = p.e.mq
      /\ p1.e.lastmsg = p.e.lastmsg /\ p1.e.pend = p.e.pend
      /\ p1.e.avail = p.e.avail /\ p1.e.mleave = p.e.mleave
      /\ p1.e.divzero = p.e.divzero /\ p1.e.serstate = p.e.serstate
      /\ p1.e.closing = TRUE \/ p1.e.closing = p.e.closing
  BY <1>1, <1>2 DEF Engine
<1>4. GoodPair(q)
  BY OnTimeoutKept DEF PairKept
<1>5. p1 \in Pairs /\ Good(p1.e)
  BY <1>1 DEF GoodPair
<1>6. q.st = p1.st /\ q.e = poll_timeout(p1.e)
  BY <1>1, <1>5 DEF Pairs
<1> HIDE DEF q
<1>7. CASE p.e.lastmsg = NoMsg
  <2>1. poll_timeout(p1.e) = p1.e
    BY <1>3, <1>7 DEF poll_timeout
  <2>2. QED BY <1>1, <1>3, <1>4, <1>6, <1>7, <2>1 DEF q
<1>8. CASE p.e.lastmsg # NoMsg
  <2> DEFINE r == poll_timeout(p1.e)
  <2>1. /\ r.wire = Append(p1.e.wire, p1.e.lastmsg) /\ r.mq = p1.e.mq
        /\ r.lastmsg = p1.e.lastmsg /\ r.pend = p1.e.pend
        /\ r.avail = p1.e.avail /\ r.closing = p1.e.closing
        /\ r.mleave = p1.e.mleave /\ r.divzero = p1.e.divzero
        /\ r.serstate = p1.e.serstate
    BY <1>3, <1>5, <1>8, TimeoutResends
  <2> HIDE DEF r
  <2>2. q.e = r
    BY <1>6 DEF r
  <2>3. QED BY <1>1, <1>3, <1>4, <1>6, <1>8, <2>1, <2>2 DEF q
<1>9. QED BY <1>7, <1>8

(* A conversation goes on after its timeout, or the device is given up.    *)
LEMMA TimeoutBegun ==
  ASSUME NEW p, Begun(p)
  PROVE  Begun(on_timeout(p))
<1> DEFINE q == on_timeout(p)
<1>1. /\ GoodPair(q) /\ q.e.mq = p.e.mq /\ q.e.pend = p.e.pend
      /\ q.e.avail = p.e.avail /\ q.e.mleave = p.e.mleave
      /\ q.e.divzero = p.e.divzero /\ q.e.serstate = p.e.serstate
      /\ SameKnowledge(p.st, q.st) /\ q.st.reopen = p.st.reopen
      /\ q.st.opening = p.st.opening
      /\ q.st.can_startup = p.st.can_startup
  BY NormalTimeout DEF Begun, Steady
<1> HIDE DEF q
<1>2. QED BY <1>1 DEF Begun, Steady, TasksOK, SameKnowledge, q

(* If nothing is under way, what was sent last is sent again.              *)
LEMMA TimeoutFree ==
  ASSUME NEW p, NEW f, Free(p, f)
  PROVE  LET q == on_timeout(p)
         IN  \/ Begun(q) /\ q.e.closing
             \/ Free(q, f)
             \/ Waiting(q, f)
<1> DEFINE q == on_timeout(p)
<1>1. /\ GoodPair(p) /\ p.e.avail = TRUE /\ p.e.serstate = "NORMAL"
      /\ p.e.wire = << >> /\ p.e.mq = << >> /\ p.e.pend = 0
      /\ p.e.mleave = 0 /\ p.e.divzero = FALSE /\ p.e.closing = FALSE
      /\ TasksOK(p.st) /\ p.st.reopen = FALSE /\ p.st.opening = 0
      /\ p.st.can_startup = FALSE
      /\ p.e.lastmsg = NoMsg \/ Fits(p.st, f, p.e.lastmsg.cmd)
      /\ p.e.lastmsg \in Message \cup {NoMsg}
  BY Fields DEF Free, Open, Talks, Calm, GoodPair
<1>2. /\ GoodPair(q) /\ q.e.mq = << >> /\ q.e.lastmsg = p.e.lastmsg
      /\ q.e.pend = 0 /\ q.e.avail = TRUE
      /\ q.e.mleave = 0 /\ q.e.divzero = FALSE
      /\ q.e.serstate = "NORMAL"
      /\ q.e.wire = IF p.e.lastmsg = NoMsg THEN << >>
                    ELSE Append(<< >>, p.e.lastmsg)
      /\ q.e.closing = TRUE \/ q.e.closing = FALSE
      /\ SameKnowledge(p.st, q.st) /\ q.st.reopen = FALSE
      /\ q.st.opening = 0
      /\ q.st.can_startup = FALSE
  BY <1>1, NormalTimeout, ZenonT(60)
<1> HIDE DEF q
<1>3. TasksOK(q.st)
  BY <1>1, <1>2 DEF TasksOK, SameKnowledge
<1>4. CASE q.e.closing = TRUE
  <2>1. Begun(q) /\ q.e.closing
    BY <1>2, <1>3, <1>4 DEF Begun, Steady
  <2>2. QED BY <2>1 DEF q
<1>5. CASE q.e.closing = FALSE /\ p.e.lastmsg = NoMsg
  <2>1. Free(q, f)
    BY <1>2, <1>3, <1>5 DEF Free, Open, Talks, Calm
  <2>2. QED BY <2>1 DEF q
<1>6. CASE q.e.closing = FALSE /\ p.e.lastmsg # NoMsg
  <2>1. p.e.lastmsg \in Message /\ q.e.wire = <<p.e.lastmsg>>
    BY <1>1, <1>2, <1>6, AppendOne
  <2>2. Fits(q.st, f, p.e.lastmsg.cmd)
    <3>1. Fits(p.st, f, p.e.lastmsg.cmd)
      BY <1>1, <1>6
    <3>2. SameKnowledge(p.st, q.st)
      BY <1>2
    <3>3. QED BY <3>1, <3>2, FitsStill
  <2>3. Talks(q)
    BY <1>2, <1>3, <1>6 DEF Talks, Calm
  <2>4. Waiting(q, f)
    BY <1>2, <2>1, <2>2, <2>3 DEF Waiting
  <2>5. QED BY <2>4 DEF q
<1>7. QED BY <1>2, <1>4, <1>5, <1>6

(* The poller goes on after a timeout: what was sent last is sent again,   *)
(* or the next item has its turn.                                          *)
LEMMA TimeoutPolls ==
  ASSUME NEW p, NEW f, Polls(p, f)
  PROVE  Polls(on_timeout(p), f)
<1> DEFINE q == on_timeout(p)
<1>1. PICK p1 :
        /\ q = [p1 EXCEPT !.e = poll_timeout(p1.e)]
        /\ GoodPair(p1)
        /\ \/ p1.e = p.e
           \/ p.e.lastmsg.cmd = "IDENT" /\ p1.e = [p.e EXCEPT !.closing = TRUE]
        /\ SameKnowledge(p.st, p1.st) /\ p1.st.reopen = p.st.reopen
        /\ p1.st.opening = p.st.opening
        /\ p1.st.can_startup = p.st.can_startup
  BY CountedTimeout DEF Polls, Calm
<1>2. p.e.lastmsg.cmd # "IDENT"
  BY DEF Polls, OnlyPolls, NoMsg, Msg, PollCmds, StatusCmds
<1> HIDE DEF q
<1>3. Polls(p1, f)
  BY <1>1, <1>2, FitsStill DEF Polls, Calm, SameKnowledge, TasksOK
<1>4. /\ Good(p1.e) /\ p1.e.avail = TRUE /\ p1.e.mq = << >>
      /\ OnlyPolls(p1.e) /\ p1.e.requests # << >> /\ p1.e \in Engine
      /\ p1.e.serstate = "POLLER"
  BY <1>3 DEF Polls, Calm, GoodPair, Pairs
<1> DEFINE r == poll_timeout(p1.e)
<1>5. CASE p1.e.lastmsg # NoMsg
  <2>1. /\ Good(r) /\ r.wire = Append(p1.e.wire, p1.e.lastmsg)
        /\ r.mq = p1.e.mq /\ r.lastmsg = p1.e.lastmsg
        /\ r.pend = p1.e.pend /\ r.avail = p1.e.avail
        /\ r.closing = p1.e.closing /\ r.mleave = p1.e.mleave
        /\ r.divzero = p1.e.divzero /\ r.serstate = p1.e.serstate
        /\ r.requests # << >>
    BY <1>4, <1>5, TimeoutResends
  <2> HIDE DEF r
  <2>2. p1.e.wire \in Seq(Message) /\ p1.e.lastmsg \in Message
        /\ p1.e.lastmsg.cmd \in PollCmds
    BY <1>4, <1>5, Fields DEF OnlyPolls
  <2> DEFINE w == Append(p1.e.wire, p1.e.lastmsg)
  <2>3. \A i \in 1 .. Len(w) : w[i].cmd \in PollCmds
    BY <1>4, <2>2 DEF OnlyPolls
  <2> HIDE DEF w
  <2>4. OnlyPolls(r)
    BY <2>1, <2>2, <2>3 DEF OnlyPolls, w
  <2>5. Polls([p1 EXCEPT !.e = r], f)
    BY <1>3, <1>4, <2>1, <2>4, PollsEngine
  <2>6. QED BY <1>1, <2>5 DEF q, r
<1>6. CASE p1.e.lastmsg = NoMsg
  <2> DEFINE e1 == [p1.e EXCEPT !.lastpoll = "NOOP"]
  <2>1. /\ Good(e1) /\ e1.avail = TRUE /\ e1.mq = << >> /\ OnlyPolls(e1)
        /\ e1.requests # << >> /\ Like(p1.e, e1)
    BY <1>4 DEF Good, PollListOK, Engine, OnlyPolls, Like
  <2>2. r = next_poll(e1)
    BY <1>4, <1>6 DEF poll_timeout
  <2> HIDE DEF e1
  <2>3. Good(r) /\ r.mq = << >> /\ OnlyPolls(r) /\ Like(e1, r)
    BY <2>1, <2>2, NextPollOnly
  <2> HIDE DEF r
  <2>4. Polls([p1 EXCEPT !.e = r], f)
    BY <1>3, <2>1, <2>3, PollsEngine DEF Like
  <2>5. QED BY <1>1, <2>4 DEF q, r
<1>7. QED BY <1>5, <1>6

(* The whole timer, when nothing is on the wire of an FC that answers.     *)
LEMMA TimerRuns ==
  ASSUME NEW p, NEW f \in FCKind, Runs(p, f), p.e.closing = FALSE,
         p.e.pend = 0, p.e.wire = << >> \/ f.silent
  PROVE  Runs(poll_timer(p), f)
<1>1. CASE Closed(p)
  <2>1. poll_timer(p) = p
    BY <1>1 DEF Closed, poll_timer
  <2>2. QED BY <1>1, <2>1 DEF Runs
<1>2. CASE Begun(p) /\ f.silent
  <2>1. poll_timer(p) = on_timeout(p) \/ poll_timer(p) = p
    BY <1>2 DEF Begun, poll_timer
  <2>2. QED BY <1>2, <2>1, TimeoutBegun DEF Runs
<1>3. CASE ~f.silent /\ Free(p, f)
  <2>1. poll_timer(p) = on_timeout(p) \/ poll_timer(p) = p
    BY <1>3 DEF Free, Open, Talks, Calm, poll_timer
  <2>2. \/ Begun(on_timeout(p)) /\ on_timeout(p).e.closing
        \/ Settles(on_timeout(p), f)
    BY <1>3, TimeoutFree DEF Settles
  <2>3. QED BY <1>3, <2>1, <2>2 DEF Runs, Settles
<1>4. CASE Polls(p, f)
  <2>1. \/ poll_timer(p) = on_timeout(p) \/ poll_timer(p) = p
        \/ poll_timer(p) = restart_poll_loop(p)
    BY <1>4 DEF Polls, Calm, poll_timer
  <2>2. Steady(p) /\ p.e.avail = TRUE /\ p.st.opening = 0
    BY <1>4 DEF Polls, Calm, Steady
  <2>3. Runs(restart_poll_loop(p), f)
    <3>1. CASE f.silent
      <4>1. Begun(restart_poll_loop(p))
        BY <2>2, BeginsAnyway DEF restart_poll_loop
      <4>2. QED BY <3>1, <4>1 DEF Runs
    <3>2. CASE ~f.silent
      <4>1. Sent(restart_poll_loop(p), f)
        BY <2>2, <3>2, Begins DEF restart_poll_loop
      <4>2. Settles(restart_poll_loop(p), f)
        BY <4>1 DEF Sent, Waiting, Settles
      <4>3. QED BY <3>2, <4>2 DEF Runs
    <3>3. QED BY <3>1, <3>2
  <2>4. Polls(on_timeout(p), f)
    BY <1>4, TimeoutPolls
  <2>5. QED BY <1>4, <2>1, <2>3, <2>4 DEF Runs
<1>5. CASE ~f.silent /\ (Waiting(p, f) \/ TwoSent(p, f))
  <2>1. p.e.wire # << >>
    <3>1. CASE Waiting(p, f)
      <4>1. PICK m \in Message : p.e.wire = <<m>>
        BY <3>1 DEF Waiting
      <4>2. <<m>> # << >>
        OBVIOUS
      <4>3. QED BY <4>1, <4>2
    <3>2. CASE TwoSent(p, f)
      <4>1. p.e.wire = <<WpInfo, Boxes>>
        BY <3>2 DEF TwoSent
      <4>2. <<WpInfo, Boxes>> # << >>
        OBVIOUS
      <4>3. QED BY <4>1, <4>2
    <3>3. QED BY <1>5, <3>1, <3>2
  <2>2. QED BY <1>5, <2>1
<1>6. QED BY <1>1, <1>2, <1>3, <1>4, <1>5 DEF Runs, Settles

(* A command or an answer is lost.                                         *)
LEMMA LossRuns ==
  ASSUME NEW p, NEW f, Runs(p, f), p.e.wire # << >>
  PROVE  Runs([p EXCEPT !.e = [p.e EXCEPT !.wire = Tail(p.e.wire)]], f)
<1> DEFINE w  == Tail(p.e.wire)
           e1 == [p.e EXCEPT !.wire = w]
           q  == [p EXCEPT !.e = e1]
<1>1. p \in Pairs /\ Good(p.e) /\ p.e \in Engine /\ p.e.wire \in Seq(Message)
  BY Fields DEF Runs, Closed, Begun, Settles, Free, Open, Waiting, TwoSent,
     Polls, Talks, Calm, Steady, GoodPair, Pairs
<1>2. w \in Seq(Message)
      /\ \A c : (\A i \in 1 .. Len(p.e.wire) : p.e.wire[i].cmd \in c)
                  => \A i \in 1 .. Len(w) : w[i].cmd \in c
  BY <1>1
<1> HIDE DEF w
<1>3. /\ Good(e1) /\ e1.wire = w /\ e1.mq = p.e.mq /\ e1.lastmsg = p.e.lastmsg
      /\ e1.pend = p.e.pend /\ e1.avail = p.e.avail
      /\ e1.closing = p.e.closing /\ e1.mleave = p.e.mleave
      /\ e1.divzero = p.e.divzero /\ e1.serstate = p.e.serstate
      /\ e1.requests = p.e.requests
  BY <1>1, <1>2, ZenonT(60) DEF Good, PollListOK, Engine
<1> HIDE DEF e1
<1>4. q.e = e1 /\ q.st = p.st /\ GoodPair(q)
  BY <1>1, <1>3 DEF Pairs, GoodPair, Good
<1> HIDE DEF q
<1>5. Calm(p) => Calm(q)
  BY <1>3, <1>4 DEF Calm
<1>6. CASE Closed(p)
  BY <1>6 DEF Closed
<1>7. CASE Begun(p) /\ (p.e.closing \/ f.silent)
  <2>1. Begun(q) /\ (q.e.closing \/ f.silent)
    BY <1>3, <1>4, <1>7 DEF Begun, Steady
  <2>2. QED BY <2>1 DEF Runs, q, e1, w
<1>8. CASE ~f.silent /\ Free(p, f)
  BY <1>8 DEF Free, Open
<1>9. CASE ~f.silent /\ Waiting(p, f)
  <2>1. PICK m \in Message : /\ p.e.wire = <<m>> /\ p.e.lastmsg \in {m, NoMsg}
                             /\ Fits(p.st, f, m.cmd)
    BY <1>9 DEF Waiting
  <2>2. w = << >>
    BY <2>1 DEF w
  <2>3. Talks(q)
    BY <1>3, <1>4, <1>5, <1>9 DEF Waiting, Talks
  <2>4. q.e.mq = << >>
    BY <1>3, <1>4, <1>9 DEF Waiting
  <2>5. q.e.lastmsg = NoMsg \/ Fits(q.st, f, q.e.lastmsg.cmd)
    BY <1>3, <1>4, <2>1
  <2>6. Free(q, f)
    BY <1>3, <1>4, <2>2, <2>3, <2>4, <2>5 DEF Free, Open
  <2>7. QED BY <1>9, <2>6 DEF Runs, Settles, q, e1, w
<1>10. CASE ~f.silent /\ TwoSent(p, f)
  <2>1. w = <<Boxes>>
    BY <1>10 DEF TwoSent, w
  <2>2. Boxes \in Message /\ Boxes.cmd = "ACTIVEBOXES"
    BY MsgIsMessage, StartupMessages DEF Boxes, Msg, StartupCmds
  <2>3. Talks(q)
    BY <1>3, <1>4, <1>5, <1>10 DEF TwoSent, Talks
  <2>4. Waiting(q, f)
    BY <1>3, <1>4, <1>10, <2>1, <2>2, <2>3 DEF Waiting, TwoSent
  <2>5. QED BY <1>10, <2>4 DEF Runs, Settles, q, e1, w
<1>11. CASE Polls(p, f)
  <2>1. OnlyPolls(q.e)
    BY <1>2, <1>3, <1>4, <1>11 DEF OnlyPolls, Polls
  <2>2. Polls(q, f)
    BY <1>3, <1>4, <1>5, <1>11, <2>1 DEF Polls
  <2>3. QED BY <2>2 DEF Runs, q, e1, w
<1>12. QED BY <1>6, <1>7, <1>8, <1>9, <1>10, <1>11 DEF Runs, Settles

(* A deferred poll is sent.                                                *)
LEMMA DeferredRuns ==
  ASSUME NEW p, NEW f, Runs(p, f), p.e.pend > 0
  PROVE  Runs([p EXCEPT !.e =
                 next_poll([p.e EXCEPT !.pend = p.e.pend - 1])], f)
<1>1. Closed(p) \/ Polls(p, f)
  BY DEF Runs, Begun, Settles, Free, Open, Waiting, TwoSent, Talks
<1> DEFINE n  == p.e.pend - 1
           e1 == [p.e EXCEPT !.pend = n]
           e2 == next_poll(e1)
           q  == [p EXCEPT !.e = e2]
<1>2. Good(p.e) /\ p.e \in Engine /\ n \in Nat /\ p \in Pairs
  BY <1>1, Fields DEF Closed, Steady, Polls, Calm, GoodPair, Pairs, Good
<1> HIDE DEF n
<1>3. /\ Good(e1) /\ e1.wire = p.e.wire /\ e1.mq = p.e.mq
      /\ e1.lastmsg = p.e.lastmsg /\ e1.avail = p.e.avail
      /\ e1.closing = p.e.closing /\ e1.mleave = p.e.mleave
      /\ e1.divzero = p.e.divzero /\ e1.serstate = p.e.serstate
      /\ e1.requests = p.e.requests
  BY <1>2 DEF Good, PollListOK, Engine
<1> HIDE DEF e1
<1>4. CASE Polls(p, f)
  <2>1. /\ e1.avail = TRUE /\ e1.mq = << >> /\ OnlyPolls(e1)
        /\ e1.requests # << >>
    BY <1>3, <1>4 DEF Polls, Calm, OnlyPolls
  <2>2. Good(e2) /\ e2.mq = << >> /\ OnlyPolls(e2) /\ Like(e1, e2)
    BY <1>3, <2>1, NextPollOnly
  <2> HIDE DEF e2
  <2>3. Polls(q, f)
    BY <1>3, <1>4, <2>1, <2>2, PollsEngine DEF Like
  <2>4. QED BY <2>3 DEF Runs, e2, e1, n
<1>5. CASE Closed(p)
  <2> DEFINE t  == (e1.tcycle + 1) % Len(e1.requests)
             e3 == [e1 EXCEPT !.tcycle = t]
  <2>1. /\ e1.avail = FALSE /\ e1.serstate = "NONE" /\ e1.wire = << >>
        /\ e1.requests # << >> /\ p.st.opening = 0 /\ e1 \in Engine
    BY <1>3, <1>5 DEF Closed, Good
  <2>2. e2 = run_queue(send_poll(e3))
    BY <2>1 DEF next_poll
  <2> HIDE DEF t
  <2>3. /\ e3.wire = e1.wire /\ e3.mq = e1.mq
        /\ e3.avail = e1.avail /\ e3.mleave = e1.mleave
        /\ e3.divzero = e1.divzero /\ e3.serstate = e1.serstate
        /\ e3.requests = e1.requests
    BY <2>1 DEF Engine
  <2> HIDE DEF e3
  <2>4. e2 = e3
    BY <2>1, <2>2, <2>3 DEF send_poll, run_queue
  <2>5. Good(e2)
    BY <1>3, NextPoll DEF Keeps
  <2> HIDE DEF e2
  <2>6. q.e = e2 /\ q.st = p.st /\ GoodPair(q)
    BY <1>2, <2>5 DEF Pairs, GoodPair, Good
  <2> HIDE DEF q
  <2>7. Closed(q)
    BY <1>3, <1>5, <2>1, <2>3, <2>4, <2>6 DEF Closed, Steady
  <2>8. QED BY <2>7 DEF Runs, q, e2, e1, n
<1>6. QED BY <1>1, <1>4, <1>5

(* The user opens the device.                                              *)
LEMMA ConnectRuns ==
  ASSUME NEW p, NEW f, Runs(p, f), p.e.avail = FALSE, p.e.pend = 0,
         p.st.button = TRUE
  PROVE  Runs(connect_serial([p EXCEPT !.st.button = FALSE]), f)
<1>1. Closed(p)
  BY DEF Runs, Begun, Settles, Free, Open, Waiting, TwoSent, Polls, Talks, Calm
<1>2. p.st.opening = 0 /\ p.e \in Engine /\ p.st \in Flags /\ p \in Pairs
      /\ Good(p.e)
  BY <1>1 DEF Closed, Steady, GoodPair, Pairs
<1> DEFINE s1 == [p.st EXCEPT !.button = FALSE, !.opening = 1]
           e1 == [p.e EXCEPT !.serstate = "NONE"]
           q  == [p EXCEPT !.e = e1, !.st = s1]
<1>3. e1 = p.e
  BY <1>1, <1>2 DEF Closed, Engine
<1>4. /\ s1 \in Flags /\ s1.opening = 1 /\ s1.button = FALSE
      /\ s1.starttasks = p.st.starttasks /\ s1.reopen = p.st.reopen
      /\ s1.can_startup = p.st.can_startup
  BY <1>2 DEF Flags
<1>5. connect_serial([p EXCEPT !.st.button = FALSE]) = q
  <2>1. p.st.opening + 1 = 1
    BY <1>2
  <2>2. [p EXCEPT !.st.button = FALSE].st.opening + 1 = 1
    BY <1>2, <2>1 DEF Pairs, Flags
  <2>3. QED BY <1>2, <2>2 DEF connect_serial, Pairs, Flags
<1> HIDE DEF s1, e1
<1>6. q.e = p.e /\ q.st = s1 /\ GoodPair(q)
  BY <1>2, <1>3, <1>4 DEF Pairs, GoodPair
<1> HIDE DEF q
<1>7. Closed(q)
  BY <1>1, <1>4, <1>6 DEF Closed, Steady, TasksOK
<1>8. QED BY <1>5, <1>7 DEF Runs

(* The device is open, and only MSP is spoken over it.                     *)
LEMMA SetupRuns ==
  ASSUME NEW p, NEW f, Runs(p, f), p.st.opening > 0
  PROVE  Runs(serial_complete_setup(p, "MSP"), f)
<1>1. Closed(p) /\ p.st.opening = 1 /\ p.e.pend = 0
  BY DEF Runs, Closed, Begun, Settles, Free, Open, Waiting, TwoSent, Polls,
     Talks, Calm
<1> DEFINE b  == ("MSP" = "listen")
           z  == << >>
           e1 == [p.e EXCEPT !.avail = TRUE, !.closing = FALSE, !.wire = z]
           n  == p.st.opening - 1
           s1 == [p.st EXCEPT !.nopoll = b, !.button = TRUE, !.opening = n]
           q  == [p EXCEPT !.e = e1, !.st = s1]
<1>2. p.e \in Engine /\ p.st \in Flags /\ p \in Pairs /\ Good(p.e)
  BY <1>1 DEF Closed, Steady, GoodPair, Pairs
<1>3. b \in BOOLEAN /\ z \in Seq(Message) /\ n = 0
  BY <1>1
<1>4. serial_complete_setup(p, "MSP") = begin_normal(serial_reset(q))
  <2>1. [p EXCEPT !.e.avail = TRUE, !.e.closing = FALSE, !.e.wire = z,
                  !.st.nopoll = b, !.st.button = TRUE,
                  !.st.opening = @ - 1] = q
    BY <1>2, ZenonT(60) DEF Pairs, Flags
  <2>2. QED BY <2>1 DEF serial_complete_setup
<1> HIDE DEF b, z, n
<1>5. /\ Good(e1) /\ e1.avail = TRUE /\ e1.closing = FALSE /\ e1.wire = z
      /\ e1.mq = p.e.mq /\ e1.mleave = p.e.mleave
      /\ e1.divzero = p.e.divzero /\ e1.pend = p.e.pend
  BY <1>2, <1>3, ZenonT(60) DEF Good, PollListOK, Engine
<1>6. /\ s1 \in Flags /\ s1.opening = 0
      /\ s1.starttasks = p.st.starttasks /\ s1.reopen = p.st.reopen
      /\ s1.can_startup = p.st.can_startup
  BY <1>2, <1>3, ZenonT(60) DEF Flags
<1> HIDE DEF e1, s1
<1>7. q.e = e1 /\ q.st = s1 /\ GoodPair(q)
  BY <1>2, <1>5, <1>6 DEF Pairs, GoodPair, Good
<1> HIDE DEF q
<1>8. Steady(q)
  BY <1>1, <1>5, <1>6, <1>7 DEF Closed, Steady, TasksOK
<1>9. Sent(begin_normal(serial_reset(q)), f)
  BY <1>1, <1>5, <1>6, <1>7, <1>8, Begins DEF Closed, z
<1> DEFINE r == begin_normal(serial_reset(q))
<1> HIDE DEF r
<1>10. Sent(r, f)
  BY <1>9 DEF r
<1>11. Settles(r, f) /\ Begun(r)
  BY <1>10 DEF Sent, Waiting, Settles, Begun, Steady, Talks, Calm
<1>12. Runs(r, f)
  BY <1>11 DEF Runs
<1>13. QED BY <1>4, <1>12 DEF r

(* The device is up in what is begun and in what is polled.                *)
LEMMA UpIsSteady ==
  ASSUME NEW p, NEW f, Runs(p, f), p.e.avail
  PROVE  /\ Steady(p) /\ p.st.opening = 0 /\ p.e.avail = TRUE
         /\ Polls(p, f) \/ Begun(p)
<1>1. ASSUME Polls(p, f)
      PROVE  Steady(p) /\ p.st.opening = 0 /\ p.e.avail = TRUE
  BY <1>1 DEF Polls, Calm, Steady
<1>2. ASSUME Settles(p, f), ~Polls(p, f) PROVE Begun(p)
  BY <1>2 DEF Settles, Free, Open, Waiting, TwoSent, Talks, Calm, Begun, Steady
<1>3. ~Closed(p)
  BY DEF Closed
<1>4. QED BY <1>1, <1>2, <1>3 DEF Runs, Begun

(* The link is lost, or has been closed.                                   *)
LEMMA LostRuns ==
  ASSUME NEW p, NEW f, Runs(p, f), p.e.avail
  PROVE  Runs(close_serial(p), f)
<1>1. Steady(p) /\ p.st.opening = 0 /\ (p.e.pend = 0 \/ p.e.requests # << >>)
  BY UpIsSteady DEF Polls, Begun
<1> DEFINE z  == << >>
           e1 == [p.e EXCEPT !.serstate = "NONE", !.avail = FALSE,
                             !.closing = FALSE, !.wire = z]
           s1 == [p.st EXCEPT !.nopoll = FALSE, !.last_tm = 0, !.button = TRUE]
           q  == close_serial(p)
<1>2. p.e \in Engine /\ p.st \in Flags /\ p \in Pairs
  BY <1>1 DEF Steady, GoodPair, Pairs
<1>3. q = [p EXCEPT !.e = e1, !.st = s1]
  BY <1>2, ZenonT(60) DEF close_serial, Pairs
<1>4. GoodPair(q)
  BY <1>1, CloseSerialKept DEF Steady
<1> HIDE DEF z
<1>5. /\ e1.avail = FALSE /\ e1.wire = z /\ e1.serstate = "NONE"
      /\ e1.mq = p.e.mq /\ e1.mleave = p.e.mleave
      /\ e1.divzero = p.e.divzero /\ e1.pend = p.e.pend
      /\ e1.requests = p.e.requests
  BY <1>2 DEF Engine
<1>6. /\ s1.opening = p.st.opening
      /\ s1.starttasks = p.st.starttasks /\ s1.reopen = p.st.reopen
      /\ s1.can_startup = p.st.can_startup
  BY <1>2 DEF Flags
<1> HIDE DEF e1, s1, q
<1>7. q.e = e1 /\ q.st = s1
  BY <1>2, <1>3 DEF Pairs
<1>8. Closed(q)
  BY <1>1, <1>4, <1>5, <1>6, <1>7 DEF Closed, Steady, TasksOK, z
<1>9. QED BY <1>8 DEF Runs, q

(* The user disconnects: the poller runs until the signal comes.           *)
LEMMA DisconnectRuns ==
  ASSUME NEW p, NEW f, Runs(p, f), p.e.avail
  PROVE  Runs([p EXCEPT !.e.closing = TRUE, !.st.button = FALSE], f)
<1> DEFINE e1 == [p.e EXCEPT !.closing = TRUE]
           s1 == [p.st EXCEPT !.button = FALSE]
           q  == [p EXCEPT !.e = e1, !.st = s1]
<1>1. Steady(p) /\ (Polls(p, f) \/ Begun(p))
  BY UpIsSteady
<1>2. p.e \in Engine /\ p.st \in Flags /\ p \in Pairs /\ Good(p.e)
  BY <1>1 DEF Steady, GoodPair, Pairs
<1>3. [p EXCEPT !.e.closing = TRUE, !.st.button = FALSE] = q
  BY <1>2 DEF Pairs
<1>4. /\ Good(e1) /\ e1.wire = p.e.wire /\ e1.mq = p.e.mq
      /\ e1.lastmsg = p.e.lastmsg /\ e1.avail = p.e.avail
      /\ e1.closing = TRUE /\ e1.mleave = p.e.mleave
      /\ e1.divzero = p.e.divzero /\ e1.serstate = p.e.serstate
      /\ e1.requests = p.e.requests /\ e1.pend = p.e.pend
  BY <1>2, ZenonT(60) DEF Good, PollListOK, Engine
<1>5. /\ s1 \in Flags /\ SameKnowledge(p.st, s1)
      /\ s1.opening = p.st.opening /\ s1.reopen = p.st.reopen
      /\ s1.can_startup = p.st.can_startup
  BY <1>2 DEF Flags, SameKnowledge
<1> HIDE DEF e1, s1
<1>6. q.e = e1 /\ q.st = s1 /\ GoodPair(q)
  BY <1>2, <1>4, <1>5 DEF Pairs, GoodPair, Good
<1> HIDE DEF q
<1>7. CASE Begun(p)
  <2>1. Begun(q) /\ q.e.closing
    BY <1>4, <1>5, <1>6, <1>7, ZenonT(60) DEF Begun, Steady, TasksOK, SameKnowledge
  <2>2. QED BY <1>3, <2>1 DEF Runs
<1>8. CASE Polls(p, f)
  <2>1. OnlyPolls(q.e)
    BY <1>4, <1>6, <1>8 DEF Polls, OnlyPolls
  <2>2. Knows(q.st, f)
    BY <1>5, <1>6, <1>8, FitsStill DEF Polls
  <2>3. Polls(q, f)
    BY <1>4, <1>5, <1>6, <1>8, <2>1, <2>2, ZenonT(60)
    DEF Polls, Calm, TasksOK, SameKnowledge
  <2>4. QED BY <1>3, <2>3 DEF Runs
<1>9. QED BY <1>1, <1>7, <1>8

(* The device could not be opened.                                         *)
LEMMA OpenFailsRuns ==
  ASSUME NEW p, NEW f, Runs(p, f), p.st.opening > 0
  PROVE  Runs([p EXCEPT !.st.opening = @ - 1, !.st.button = TRUE,
                        !.e.armed = FALSE], f)
<1> DEFINE n  == p.st.opening - 1
           e1 == [p.e EXCEPT !.armed = FALSE]
           s1 == [p.st EXCEPT !.opening = n, !.button = TRUE]
           q  == [p EXCEPT !.e = e1, !.st = s1]
<1>1. Closed(p) /\ p.st.opening = 1
  BY DEF Runs, Closed, Begun, Settles, Free, Open, Waiting, TwoSent, Polls,
     Talks, Calm
<1>2. p.e \in Engine /\ p.st \in Flags /\ p \in Pairs /\ Good(p.e) /\ n = 0
  BY <1>1 DEF Closed, Steady, GoodPair, Pairs
<1>3. [p EXCEPT !.st.opening = @ - 1, !.st.button = TRUE,
                !.e.armed = FALSE] = q
  BY <1>2 DEF Pairs, Flags
<1> HIDE DEF n
<1>4. /\ Good(e1) /\ e1.wire = p.e.wire /\ e1.mq = p.e.mq
      /\ e1.avail = p.e.avail /\ e1.mleave = p.e.mleave
      /\ e1.divzero = p.e.divzero /\ e1.serstate = p.e.serstate
      /\ e1.pend = p.e.pend
  BY <1>2, ZenonT(60) DEF Good, PollListOK, Engine
<1>5. /\ s1 \in Flags /\ s1.opening = 0 /\ s1.reopen = p.st.reopen
      /\ s1.can_startup = p.st.can_startup
      /\ s1.starttasks = p.st.starttasks
  BY <1>2, ZenonT(60) DEF Flags
<1> HIDE DEF e1, s1
<1>6. q.e = e1 /\ q.st = s1 /\ GoodPair(q)
  BY <1>2, <1>4, <1>5 DEF Pairs, GoodPair, Good
<1> HIDE DEF q
<1>7. Closed(q)
  BY <1>1, <1>4, <1>5, <1>6 DEF Closed, Steady, TasksOK
<1>8. QED BY <1>3, <1>7 DEF Runs

(* The FC falls silent.                                                    *)
LEMMA DiesRuns ==
  ASSUME NEW p, NEW f \in FCKind, Runs(p, f)
  PROVE  LET g == [f EXCEPT !.silent = TRUE]
         IN  Runs(p, g)
<1> DEFINE g == [f EXCEPT !.silent = TRUE]
<1>1. g.silent /\ g.inav = f.inav /\ g.vers = f.vers /\ g.rejects = f.rejects
  BY DEF FCKind
<1> HIDE DEF g
<1>2. Telling(g) = Telling(f)
  BY <1>1 DEF Telling
<1>3. Polls(p, f) => Polls(p, g)
  BY <1>1, <1>2 DEF Polls, Knows
<1>4. Settles(p, f) => Polls(p, f) \/ Begun(p)
  BY DEF Settles, Free, Open, Waiting, TwoSent, Talks, Calm, Begun, Steady
<1>5. Runs(p, g)
  BY <1>1, <1>3, <1>4 DEF Runs
<1>6. QED BY <1>5 DEF g

----------------------------------------------------------------------------
(* The inductive invariant of a session of MSP alone.                      *)
RunsInv ==
  /\ IInv
  /\ env.frames = 0 /\ env.user = 0
  /\ Runs(Now, fc)

(* A step to a pair that runs.                                             *)
LEMMA RunsStep ==
  ASSUME RunsInv, [Next]_vars, NEW q, Becomes(q), NEW STATE f, f = fc',
         Runs(q, f), env'.frames = env.frames, env'.user = env.user
  PROVE  RunsInv'
<1>1. IInv'
  BY NextPreserves DEF RunsInv
<1>2. q \in Pairs
  BY DEF Runs, Closed, Begun, Settles, Free, Open, Waiting, TwoSent, Polls,
     Talks, Calm, Steady, GoodPair
<1>3. q = [e |-> q.e, st |-> q.st]
  BY <1>2 DEF Pairs
<1>4. Now' = q
  BY <1>3 DEF Becomes, Now, Pair
<1>5. Runs(Now, fc)'
  BY <1>4
<1>6. QED BY <1>1, <1>5 DEF RunsInv

(* Before the first connect nothing is under way.                          *)
LEMMA RunsInit ==
  ASSUME PlainMsp
  PROVE  Init => RunsInv
<1> SUFFICES ASSUME Init PROVE RunsInv
  OBVIOUS
<1>1. IInv
  BY InitEstablishes
<1>2. env.frames = 0 /\ env.user = 0
  BY DEF Init, PlainMsp
<1>3. GoodPair(Now) /\ Now.e = eng /\ Now.st = st
  BY <1>1, NowIsGood DEF Now, Pair
<1>4. /\ eng.mq = << >> /\ eng.mleave = 0 /\ eng.divzero = FALSE
      /\ eng.avail = FALSE /\ eng.serstate = "NONE" /\ eng.wire = << >>
      /\ eng.pend = 0
  BY DEF Init, IdleEngine
<1>5. /\ st.starttasks = 0 /\ st.reopen = FALSE /\ st.can_startup = FALSE
      /\ st.opening = 0
  BY DEF Init, InitFlags
<1>6. Closed(Now)
  BY <1>3, <1>4, <1>5 DEF Closed, Steady, TasksOK
<1>7. QED BY <1>1, <1>2, <1>6 DEF RunsInv, Runs

(* The FC stays what it is, until it falls silent.                         *)
SameKind(f, g) == g.inav = f.inav /\ g.rejects = f.rejects

(* One step per action that the surroundings leave.                        *)
LEMMA RunsNext ==
  ASSUME PlainMsp
  PROVE  RunsInv /\ [Next]_vars => RunsInv' /\ SameKind(fc, fc')
<1> SUFFICES ASSUME RunsInv, [Next]_vars PROVE RunsInv' /\ SameKind(fc, fc')
  OBVIOUS
<1>1. /\ Runs(Now, fc) /\ Now.e = eng /\ Now.st = st
      /\ GoodPair(Now) /\ fc \in FCKind /\ eng \in Engine /\ st \in Flags
      /\ env \in Env /\ env.frames = 0 /\ env.user = 0
      /\ SameKind(fc, fc)
  BY NowIsGood DEF RunsInv, Now, Pair, GoodPair, Pairs, SameKind
<1>2. /\ ~ConnectRefused /\ ~Frame /\ ~UserReboot
      /\ [env EXCEPT !.breaks = @ - 1].frames = env.frames
      /\ [env EXCEPT !.breaks = @ - 1].user = env.user
  BY <1>1 DEF ConnectRefused, Frame, UserReboot, Env
<1>3. ~TryReopen
  BY <1>1 DEF TryReopen, Runs, Closed, Begun, Settles, Free, Open, Waiting,
     TwoSent, Polls, Talks, Calm, Steady
<1>4. CASE Connect
  <2> DEFINE q == connect_serial([Now EXCEPT !.st.button = FALSE])
  <2>1. Becomes(q) /\ fc' = fc /\ env' = env
        /\ eng.avail = FALSE /\ st.button = TRUE /\ eng.pend = 0
    BY <1>1, <1>4 DEF Connect, Settled, Engine, Flags
  <2>2. Runs(q, fc)
    BY <1>1, <2>1, ConnectRuns
  <2> HIDE DEF q
  <2>3. QED BY <1>1, <2>1, <2>2, RunsStep
<1>5. CASE OpenDone
  <2>1. PICK mode \in Modes : Becomes(serial_complete_setup(Now, mode))
    BY <1>5 DEF OpenDone
  <2>2. mode = "MSP" /\ st.opening > 0 /\ fc' = fc /\ env' = env
    BY <1>1, <1>5 DEF OpenDone, Modes
  <2>3. Runs(serial_complete_setup(Now, "MSP"), fc)
    BY <1>1, <2>2, SetupRuns
  <2>4. QED BY <1>1, <2>1, <2>2, <2>3, RunsStep
<1>6. CASE SerialLost
  <2>1. Becomes(close_serial(Now)) /\ fc' = fc /\ eng.avail
        /\ env'.frames = env.frames /\ env'.user = env.user
    BY <1>1, <1>2, <1>6 DEF SerialLost
  <2>2. Runs(close_serial(Now), fc)
    BY <1>1, <2>1, LostRuns
  <2>3. QED BY <1>1, <2>1, <2>2, RunsStep
<1>7. CASE Answer
  <2> DEFINE m == Head(eng.wire)
             p == [Now EXCEPT !.e.wire = Tail(@)]
  <2>1. PICK arm \in Arms(m), soon \in BOOLEAN :
          Becomes(handle_serial(p, m, fc, arm, Rejects(fc, m), soon))
    BY <1>7 DEF Answer
  <2>2. /\ eng.avail /\ ~eng.closing /\ eng.wire # << >> /\ ~fc.silent
        /\ fc' = fc /\ env' = env
    BY <1>7 DEF Answer
  <2>3. Settles(Now, fc)
    BY <1>1, <2>2 DEF Runs, Closed, Settles
  <2>4. arm \in BOOLEAN
    BY <2>1 DEF Arms
  <2>5. Settles(handle_serial([Now EXCEPT !.e.wire = Tail(@)],
                              Head(Now.e.wire), fc, arm,
                              Rejects(fc, Head(Now.e.wire)), soon), fc)
    BY <1>1, <2>2, <2>3, <2>4, SerialSettles
  <2> DEFINE q == handle_serial(p, m, fc, arm, Rejects(fc, m), soon)
  <2>6. Settles(q, fc) /\ Becomes(q)
    BY <1>1, <2>1, <2>5
  <2> HIDE DEF q
  <2>7. Runs(q, fc)
    BY <2>2, <2>6 DEF Runs
  <2>8. QED BY <1>1, <2>2, <2>6, <2>7, RunsStep
<1>8. CASE Lose
  <2> DEFINE q == [Now EXCEPT !.e = [eng EXCEPT !.wire = Tail(eng.wire)]]
  <2>1. /\ eng.wire # << >> /\ eng' = [eng EXCEPT !.wire = Tail(eng.wire)]
        /\ st' = st /\ fc' = fc /\ env' = env
    BY <1>8 DEF Lose
  <2>2. Becomes(q)
    BY <2>1 DEF Becomes, Now, Pair
  <2>3. Runs(q, fc)
    BY <1>1, <2>1, LossRuns
  <2> HIDE DEF q
  <2>4. QED BY <1>1, <2>1, <2>2, <2>3, RunsStep
<1>9. CASE NextPollFires
  <2> DEFINE e1 == next_poll([eng EXCEPT !.pend = eng.pend - 1])
             q  == [Now EXCEPT !.e = e1]
  <2>1. /\ eng.pend > 0 /\ eng' = e1
        /\ st' = st /\ fc' = fc /\ env' = env
    BY <1>9 DEF NextPollFires
  <2>2. Runs(q, fc)
    BY <1>1, <2>1, DeferredRuns
  <2> HIDE DEF e1
  <2>3. Becomes(q)
    BY <2>1 DEF Becomes, Now, Pair
  <2> HIDE DEF q
  <2>4. QED BY <1>1, <2>1, <2>2, <2>3, RunsStep
<1>10. CASE Tick
  <2>1. PICK d \in SUBSET RateLimited : Becomes(poll_timer(elapsed(Now, d)))
    BY <1>10 DEF Tick
  <2>2. /\ eng.pend = 0 /\ eng.closing = FALSE
        /\ eng.wire = << >> \/ fc.silent
        /\ fc' = fc /\ env' = env
    BY <1>1, <1>10 DEF Tick, Settled, PlainMsp, Engine
  <2> DEFINE p == elapsed(Now, d)
  <2>3. Aged(Now, p)
    BY <1>1, ElapsedAges
  <2> HIDE DEF p
  <2>4. p.e.closing = FALSE /\ p.e.pend = 0 /\ p.e.wire = eng.wire
    BY <1>1, <2>2, <2>3 DEF Aged, Alike
  <2>5. Runs(p, fc)
    <3>1. CASE Closed(Now)
      BY <2>3, <3>1, AgedStays DEF Runs
    <3>2. CASE Begun(Now) /\ fc.silent
      BY <2>3, <3>2, AgedStays DEF Runs
    <3>3. CASE Polls(Now, fc) \/ (~fc.silent /\ Free(Now, fc))
      BY <2>3, <3>3, AgedStays DEF Runs, Settles
    <3>4. CASE ~fc.silent /\ Waiting(Now, fc)
      <4>1. PICK m \in Message : eng.wire = <<m>>
        BY <1>1, <3>4 DEF Waiting
      <4>2. <<m>> # << >>
        OBVIOUS
      <4>3. QED BY <2>2, <3>4, <4>1, <4>2
    <3>5. CASE ~fc.silent /\ TwoSent(Now, fc)
      <4>1. eng.wire = <<WpInfo, Boxes>>
        BY <1>1, <3>5 DEF TwoSent
      <4>2. <<WpInfo, Boxes>> # << >>
        OBVIOUS
      <4>3. QED BY <2>2, <3>5, <4>1, <4>2
    <3>6. QED
      BY <1>1, <2>2, <3>1, <3>2, <3>3, <3>4, <3>5 DEF Runs, Settles
  <2>6. Runs(poll_timer(p), fc)
    BY <1>1, <2>2, <2>4, <2>5, TimerRuns
  <2>7. QED BY <1>1, <2>1, <2>2, <2>6, RunsStep DEF p
<1>11. CASE UNCHANGED vars
  <2>1. Becomes(Now) /\ fc' = fc /\ env' = env
    BY <1>1, <1>11 DEF Becomes, vars
  <2>2. QED BY <1>1, <2>1, RunsStep
<1>12. CASE Disconnect
  <2> DEFINE q == [Now EXCEPT !.e.closing = TRUE, !.st.button = FALSE]
  <2>1. Becomes(q) /\ fc' = fc /\ eng.avail
        /\ env'.frames = env.frames /\ env'.user = env.user
    BY <1>2, <1>12 DEF Disconnect
  <2>2. Runs(q, fc)
    BY <1>1, <2>1, DisconnectRuns
  <2> HIDE DEF q
  <2>3. QED BY <1>1, <2>1, <2>2, RunsStep
<1>13. CASE OpenFails
  <2> DEFINE q == [Now EXCEPT !.st.opening = @ - 1, !.st.button = TRUE,
                              !.e.armed = FALSE]
  <2>1. Becomes(q) /\ fc' = fc /\ st.opening > 0
        /\ env'.frames = env.frames /\ env'.user = env.user
    BY <1>2, <1>13 DEF OpenFails
  <2>2. Runs(q, fc)
    BY <1>1, <2>1, OpenFailsRuns
  <2> HIDE DEF q
  <2>3. QED BY <1>1, <2>1, <2>2, RunsStep
<1>14. CASE FcDies
  <2> DEFINE g == [fc EXCEPT !.silent = TRUE]
  <2>1. /\ Becomes(Now) /\ fc' = g
        /\ env'.frames = env.frames /\ env'.user = env.user
    BY <1>1, <1>2, <1>14 DEF FcDies, Becomes
  <2>2. Runs(Now, g)
    BY <1>1, DiesRuns
  <2>3. SameKind(fc, g)
    BY <1>1 DEF SameKind, FCKind
  <2> HIDE DEF g
  <2>4. QED BY <1>1, <2>1, <2>2, <2>3, RunsStep
<1>15. QED
  BY <1>2, <1>3, <1>4, <1>5, <1>6, <1>7, <1>8, <1>9, <1>10, <1>11, <1>12,
     <1>13, <1>14 DEF Next

(* A session that runs divides by nothing, and its poller polls what has   *)
(* been learnt.                                                            *)
LEMMA RunsKnow ==
  ASSUME RunsInv
  PROVE  /\ NoDivZero
         /\ eng.serstate = "POLLER" => eng.requests # << >> /\ Knows(st, fc)
  BY DEF RunsInv, Runs, Closed, Begun, Settles, Free, Open, Waiting, TwoSent,
     Polls, Talks, Calm, Steady, NoDivZero, Now, Pair

(* In a session of MSP alone next_poll never divides by the length of an   *)
(* empty poll list: the poller starts only where handle_msp_status has     *)
(* just built one, since whatever wakes the poller during the start tasks  *)
(* finds one of them still to do.                                          *)
THEOREM PollListNeverEmpty ==
  ASSUME PlainMsp
  PROVE  Spec => []NoDivZero
<1>1. Init => RunsInv
  BY RunsInit
<1>2. RunsInv /\ [Next]_vars => RunsInv'
  BY RunsNext
<1>3. RunsInv => NoDivZero
  BY RunsKnow
<1>4. QED BY <1>1, <1>2, <1>3, PTL DEF Spec

(* Such a session polls an INAV FC as the one that it is, if the FC        *)
(* answers what it is identified by: the poll list is built from the true  *)
(* version, whatever was lost on the way and sent again.                   *)
THEOREM PollerKnowsTheFC ==
  ASSUME PlainMsp, \A w \in Worlds : w.fc.inav => Telling(w.fc)
  PROVE  Spec => []PollsWhatItKnows
<1> DEFINE Told == fc.inav => Telling(fc)
<1>1. Init => RunsInv /\ Told
  BY RunsInit DEF Init
<1>2. RunsInv /\ Told /\ [Next]_vars => RunsInv' /\ Told'
  BY RunsNext DEF SameKind, Telling
<1>3. RunsInv /\ Told => PollsWhatItKnows
  BY RunsKnow DEF Knows, PollsWhatItKnows
<1> HIDE DEF Told
<1>4. QED BY <1>1, <1>2, <1>3, PTL DEF Spec
=============================================================================
