----------------------------- MODULE MspEngine -----------------------------
(***************************************************************************)
(* The MSP message engine of mwp: the command queue mq, the command that   *)
(* awaits its answer (lastmsg), the round robin poll loop and the 10 ms    *)
(* supervision timer of mwp-handle_serial.vala, with pause_poller of       *)
(* mwp-wp_io_handler.vala.                                                 *)
(*                                                                         *)
(* The engine's globals are one record e and every function of the code is *)
(* an operator from e to e, so that a handler that calls several of them   *)
(* is their composition and one action of the specifications built on it.  *)
(*                                                                         *)
(* Abstractions.  nticks - lastok and nticks - lastrx are the saturating   *)
(* ages okage and rxage; the comparisons of last_an and last_ga with       *)
(* nticks are the set due of rate limited polls whose interval has passed; *)
(* the payload of a message is one small number, arg.  Messages that have  *)
(* been handed to the device and are not yet answered or lost are wire.    *)
(***************************************************************************)
EXTENDS Integers, Sequences, FiniteSets

CONSTANTS
  PollTimeout,     \* conf.polltimeout / TIMINTVL
  MavIntvl,        \* MAVINTVL, extra patience for slow commands
  RestartIntvl     \* RESTARTINTVL, silence after which the poller restarts

ASSUME TimesAssumption ==
  /\ PollTimeout \in Nat \ {0}
  /\ MavIntvl \in Nat \ {0}
  /\ RestartIntvl \in Nat
  /\ RestartIntvl > PollTimeout + MavIntvl

SERSTATE == {"NONE", "NORMAL", "POLLER", "SET_WP", "GET_WP", "EXTRA_WP",
             "MISC_BULK", "TELEM", "MISC_WORK"}

(* The commands that the models name. "INVALID" marks an empty lastmsg and *)
(* "NOOP" an emptied slot of the poll list.                                *)
StatusCmds == {"STATUS", "STATUS_EX", "INAV_STATUS"}
PollCmds   == StatusCmds \cup
              {"ANALOG", "NAV_STATUS", "RAW_GPS", "COMP_GPS",
               "GPSSTATISTICS", "WP", "ATTITUDE", "ALTITUDE",
               "ADSB_VEHICLE_LIST"}
StartupCmds == {"IDENT", "API_VERSION", "NAME", "INAV_MIXER", "BOARD_INFO",
                "FC_VARIANT", "FEATURE", "BLACKBOX_CONFIG",
                "DATAFLASH_SUMMARY", "FC_VERSION", "COMMON_SET_TZ",
                "BUILD_INFO", "COMMON_SERIAL_CONFIG", "BOXIDS", "BOXNAMES",
                "RX_MAP", "WP_GETINFO", "ACTIVEBOXES", "COMMON_SETTING_INFO"}
BulkCmds == {"SET_WP", "WP_MISSION_SAVE", "WP_MISSION_LOAD", "EEPROM_WRITE",
             "COMMON_SET_SETTING", "FW_APPROACH", "SET_FW_APPROACH",
             "SAFEHOME", "SET_SAFEHOME", "GEOZONE", "GEOZONE_VERTEX",
             "SET_GEOZONE", "SET_GEOZONE_VERTEX", "REBOOT", "DEBUGMSG"}
Cmds == PollCmds \cup StartupCmds \cup BulkCmds

(* Polls that send_poll skips until their own interval has passed.         *)
RateLimited == {"ANALOG", "ADSB_VEHICLE_LIST"}
SlowCmds    == {"WP_MISSION_SAVE", "EEPROM_WRITE", "ADSB_VEHICLE_LIST"}

Msg(c, a) == [cmd |-> c, arg |-> a]
Message   == [cmd : Cmds, arg : Nat]
NoMsg     == Msg("INVALID", 0)

(* Ages saturate where no comparison of the code can tell more.            *)
AgeMax   == RestartIntvl
Ages     == 0 .. AgeMax
Older(a) == IF a < AgeMax THEN a + 1 ELSE a

(* mleave: 0 off, 1 a queued command is next, 2 a poll is next.            *)
Leaves == 0 .. 2

Engine ==
  [avail    : BOOLEAN,            \* msp.available
   closing  : BOOLEAN,            \* msp.close() called, serial_lost to come
   serstate : SERSTATE,
   mq       : Seq(Message),
   lastmsg  : Message \cup {NoMsg},
   wire     : Seq(Message),
   requests : Seq(PollCmds \cup {"NOOP"}),
   tcycle   : Nat,
   lastpoll : PollCmds \cup {"NOOP"},      \* OOOMgr.lastpoll
   currx    : Cmds \cup {"NOOP"},          \* OOOMgr.currx
   last0wp  : BOOLEAN,                     \* OOOMgr.last0wp
   nopause  : BOOLEAN,            \* conf.no_poller_pause
   mleave   : Leaves,
   armed    : BOOLEAN,
   due      : SUBSET RateLimited,
   pend     : Nat,                \* next_poll timeouts set by timed_poll
   okage    : Ages,
   rxage    : Ages,
   divzero  : BOOLEAN]            \* next_poll divided by requests.length = 0

IdleEngine ==
  [avail |-> FALSE, closing |-> FALSE, serstate |-> "NONE", mq |-> << >>,
   lastmsg |-> NoMsg, wire |-> << >>, requests |-> << >>, tcycle |-> 0,
   lastpoll |-> "NOOP", currx |-> "NOOP", last0wp |-> FALSE,
   nopause |-> FALSE, mleave |-> 0, armed |-> FALSE, due |-> {},
   pend |-> 0, okage |-> 0, rxage |-> 0, divzero |-> FALSE]

----------------------------------------------------------------------------
(* The queue.                                                              *)

send_command(e, m) == [e EXCEPT !.wire = Append(@, m)]

queue_cmd(e, m) == IF e.avail THEN [e EXCEPT !.mq = Append(@, m)] ELSE e

run_queue(e) ==
  IF e.avail /\ e.mq # << >>
  THEN send_command([e EXCEPT !.lastmsg = Head(e.mq), !.mq = Tail(e.mq)],
                    Head(e.mq))
  ELSE e

resend_last(e) ==
  CASE ~e.avail                      -> e
    [] e.avail /\ e.lastmsg # NoMsg  -> send_command(e, e.lastmsg)
    [] e.avail /\ e.lastmsg = NoMsg  -> run_queue(e)

----------------------------------------------------------------------------
(* The poll loop.                                                          *)

lost_poll(e, c) == \E i \in DOMAIN e.requests : e.requests[i] = c

OutOfOrder(e) ==
  /\ e.lastpoll # "NOOP"
  /\ e.lastpoll # e.currx
  /\ lost_poll(e, e.currx)
  /\ (e.currx # "WP" \/ e.last0wp)

Skipped(e, c) == \/ c \in RateLimited \ e.due
                 \/ c = "GPSSTATISTICS" /\ e.armed

(* The request k places on from tcycle, in the code's do ... while (skip). *)
Ahead(e, k) == (e.tcycle + k) % Len(e.requests)
Candidate(e, k) == e.requests[Ahead(e, k) + 1]

NextDue(e) ==
  CHOOSE k \in 0 .. (Len(e.requests) - 1) :
    /\ ~Skipped(e, Candidate(e, k))
    /\ \A j \in 0 .. (k - 1) : Skipped(e, Candidate(e, j))

(* The list holds a status request, which is never skipped, or is empty.   *)
PollListOK(e) ==
  e.requests # << >> =>
    \E i \in DOMAIN e.requests : e.requests[i] \in StatusCmds

send_poll(e) ==
  IF e.serstate # "POLLER" \/ Len(e.requests) <= e.tcycle \/ OutOfOrder(e)
  THEN e
  ELSE LET req == Candidate(e, NextDue(e))
           e1  == [e EXCEPT !.tcycle = Ahead(e, NextDue(e)),
                            !.due = @ \ {req}, !.lastpoll = req]
       IN  IF req = "NOOP" THEN e1 ELSE queue_cmd(e1, Msg(req, 0))

(* Mutant: tcycle is not advanced.                                         *)
next_poll_stuck(e) ==
  IF e.requests = << >> THEN [e EXCEPT !.divzero = TRUE]
                        ELSE run_queue(send_poll(e))

next_poll(e) ==
  IF e.requests = << >>
  THEN [e EXCEPT !.divzero = TRUE]
  ELSE run_queue(send_poll(
         [e EXCEPT !.tcycle = (e.tcycle + 1) % Len(e.requests)]))

(* soon: less than MSP_WAITMS since the last poll, so the poll is deferred.*)
timed_poll(e, soon) ==
  CASE e.requests = << >>          -> e
    [] e.requests # << >> /\ soon  -> [e EXCEPT !.pend = @ + 1]
    [] e.requests # << >> /\ ~soon -> next_poll(e)

msg_poller(e) ==
  IF e.avail /\ e.serstate = "POLLER" THEN send_poll(e) ELSE e

reset_poller(e, starttasks, nopoll) ==
  IF /\ e.avail /\ ~e.nopause
     /\ starttasks = 0
     /\ e.serstate \notin {"NONE", "TELEM"}
     /\ ~nopoll
  THEN msg_poller([e EXCEPT !.mleave = 0, !.okage = 0, !.rxage = 0,
                            !.tcycle = 0, !.serstate = "POLLER",
                            !.lastpoll = "NOOP"])
  ELSE [e EXCEPT !.mleave = 0]

pause_poller(e, s) ==
  CASE ~e.avail                   -> e
    [] e.avail /\ e.nopause   -> [e EXCEPT !.mleave = 1]
    [] e.avail /\ ~e.nopause  -> [e EXCEPT !.serstate = s, !.mq = << >>]

(* Mutant: clears the other items.                                         *)
clear_poller_others(e, c) ==
  [e EXCEPT !.requests = [i \in DOMAIN e.requests |->
                            IF e.requests[i] # c THEN "NOOP"
                                                 ELSE e.requests[i]]]

clear_poller_item(e, c) ==
  [e EXCEPT !.requests = [i \in DOMAIN e.requests |->
                            IF e.requests[i] = c THEN "NOOP"
                                                 ELSE e.requests[i]]]

----------------------------------------------------------------------------
(* Receiving. An MSP message makes the link current (currx, lastok,        *)
(* lastrx); an answer, unlike an error, also empties lastmsg.              *)

received(e, c, err) ==
  [e EXCEPT !.currx = c, !.okage = 0, !.rxage = 0,
            !.lastmsg = IF err THEN @ ELSE NoMsg]

(* What handle_serial does last, after the message has been handled.       *)
message_handled(e, soon) ==
  IF e.serstate = "POLLER"
  THEN CASE e.mleave = 1 /\ e.mq # << >> ->
              run_queue([e EXCEPT !.mleave = 2])
         [] e.mleave = 2 ->
              [timed_poll(e, soon) EXCEPT !.mleave = 1]
         [] e.mleave # 2 /\ ~(e.mleave = 1 /\ e.mq # << >>) ->
              IF e.mq # << >> THEN run_queue(e) ELSE timed_poll(e, soon)
  ELSE IF e.mq # << >> THEN run_queue(e) ELSE e

----------------------------------------------------------------------------
(* The supervision timer.                                                  *)

tlimit(m) == PollTimeout + IF m.cmd \in SlowCmds THEN MavIntvl ELSE 0

TimedOut(e) == e.okage >= tlimit(e.lastmsg)

(* Mutant: only the poller is looked after.                                *)
poll_timeout_kick(e) ==
  IF e.serstate = "POLLER" THEN next_poll([e EXCEPT !.lastpoll = "NOOP"]) ELSE e

(* Mutant: whatever is idle is kicked.                                     *)
poll_timeout_any(e) ==
  IF e.lastmsg # NoMsg
  THEN resend_last([e EXCEPT !.okage = 0, !.tcycle = 0])
  ELSE next_poll([e EXCEPT !.lastpoll = "NOOP"])

(* The timeout branch: an unanswered command is sent again; an idle poller *)
(* is kicked. Other idle states are left as they are.                      *)
poll_timeout(e) ==
  CASE e.lastmsg # NoMsg ->
         resend_last([(IF e.lastmsg.cmd = "ADSB_VEHICLE_LIST"
                       THEN clear_poller_item(e, "ADSB_VEHICLE_LIST") ELSE e)
                      EXCEPT !.okage = 0, !.tcycle = 0])
    [] e.lastmsg = NoMsg /\ e.serstate = "POLLER" ->
         next_poll([e EXCEPT !.lastpoll = "NOOP"])
    [] e.lastmsg = NoMsg /\ e.serstate # "POLLER" -> e
=============================================================================
