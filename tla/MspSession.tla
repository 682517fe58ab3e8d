----------------------------- MODULE MspSession -----------------------------
(***************************************************************************)
(* One mwp process talking MSP to a flight controller (FC) over a link     *)
(* that loses, delays and breaks: opening and closing the device, the      *)
(* startup conversation that identifies the FC, the start tasks, the poll  *)
(* loop, pushed telemetry, the supervision timer and the reopen after a    *)
(* reboot.  Built on the operators of MspEngine.                           *)
(*                                                                         *)
(* A handler of the code may change the engine and the session's own       *)
(* flags, so handlers map pairs p = [e |-> engine, st |-> flags].  The FC  *)
(* is external: fc records what its answers make the handlers do.          *)
(***************************************************************************)
EXTENDS MspEngine

CONSTANTS
  Worlds,           \* the flight controllers to consider, each in its surroundings
  IdentLimit,       \* conf.ident_limit
  MaxHomes,         \* Safehome.MAXHOMES
  MaxGz,            \* GeoZoneManager.MAXGZ
  AutoSafehomes,    \* conf.autoload_safehomes
  AutoGeozones,     \* conf.autoload_geozones
  ArmedMspPlacebo,  \* conf.armed_msp_placebo
  LateReplies,      \* may an answer come after its timeout?
  WireMax, PendMax, \* bounds on unanswered commands and deferred polls
  OpenMax           \* bound on open_async calls under way

ASSUME SessionAssumption ==
  /\ IdentLimit \in Int
  /\ MaxHomes \in Nat \ {0} /\ MaxGz \in Nat \ {0}
  /\ {AutoSafehomes, AutoGeozones, ArmedMspPlacebo, LateReplies}
       \subseteq BOOLEAN
  /\ {WireMax, PendMax, OpenMax} \subseteq Nat

(* Firmware levels that the code's FCVERS comparisons tell apart.          *)
Levels    == 0 .. 9      \* 0: not known, or older than 1.4
hasMoreWP == 1           \* 1.4
hasTZ     == 2           \* 1.7.4
hasV2STATUS == 3         \* 1.8.1
hasPOI    == 4           \* after hasJUMP (2.5.0), up to 2.6.0
hasSAFEAPI == 5          \* 2.7.0; the safehome task needs more than that
hasFWApp  == 7           \* 7.1.0
hasAdsbList == 8         \* 7.1.1
hasGeoZones == 9         \* 8.0.0

FCKind ==
  [silent    : BOOLEAN,            \* never answers
   msp2      : BOOLEAN,            \* API_VERSION >= mspV2
   mixer     : BOOLEAN,            \* API_VERSION >= mixer
   navconfig : BOOLEAN,            \* MultiWii NAV, IDENT capability bit 0x10
   inav      : BOOLEAN,            \* FC_VARIANT is "INAV"
   flash     : BOOLEAN,            \* BLACKBOX_CONFIG reports SD flash
   tz        : BOOLEAN,            \* a TZ offset is to be set
   vers      : Levels,
   offset    : BOOLEAN,            \* nav_rth_home_offset_distance # 0
   gz        : BOOLEAN,            \* feature GEOZONE
   nvert     : Nat,                \* vertices of its geozones
   sensors   : SUBSET {"GPS", "ACC", "BARO"},
   adsb      : BOOLEAN,            \* conf.msp2_adsb asks for the list
   rejects   : SUBSET Cmds,        \* answered with an MSP error
   nosetting : SUBSET (1 .. 8)]    \* settings it does not know

(* External: how much the surroundings may still do to a session.          *)
Env ==
  [lossy  : BOOLEAN,   \* the link loses commands and answers
   breaks : Nat,       \* the link or the user breaks the session
   frames : Nat,       \* pushed telemetry frames arrive
   user   : Nat]       \* the user reboots the FC or picks a busy device

ASSUME WorldAssumption == Worlds \subseteq [fc : FCKind, env : Env]

VARIABLES
  eng,     \* the message engine
  st,      \* the session's flags
  fc,      \* external: the flight controller
  env      \* external: what may still happen to the session

vars == <<eng, st, fc, env>>

(* Bits of StartupTasks, which the code adds and subtracts as numbers.     *)
STATUS    == 1
SAFEHOMES == 2
GEOZONES  == 4
STATUSX   == 16
Has(tasks, bit) == (tasks \div bit) % 2 = 1

TickMax == MavIntvl + 3
Ticks   == 0 .. TickMax           \* saturating
TmAges  == 0 .. (MavIntvl + 2)    \* 0: last_tm unset, else its age + 1

(* "INAV" is WAYPOINTS|NAVSTATUS, "NAVCONFIG" is these and NAVCONFIG.      *)
NAVCAPS == {"NONE", "INAV", "NAVCONFIG"}

Flags ==
  [opening      : Nat,        \* open_async calls under way
   button       : BOOLEAN,    \* conbutton.sensitive
   reopen       : BOOLEAN,    \* a try_reopen timer is running
   nopoll       : BOOLEAN,
   seenMSP      : BOOLEAN,
   nticks       : Ticks,
   last_tm      : TmAges,
   idcount      : Int,
   msp_get_status : StatusCmds,
   identified   : BOOLEAN,    \* icount > 0
   inav         : BOOLEAN,
   navcap       : NAVCAPS,
   dac          : BOOLEAN,    \* dac > 0: an LTM frame said disarmed
   have_fcv     : BOOLEAN,
   have_fcvv    : BOOLEAN,
   vers         : Levels,     \* vi.fc_vers
   have_status  : BOOLEAN,
   need_startup : BOOLEAN,
   can_startup  : BOOLEAN,
   starttasks   : Nat]

----------------------------------------------------------------------------
(* Helpers on pairs.                                                       *)

Pair(e, s) == [e |-> e, st |-> s]
Ask(p, m)  == [p EXCEPT !.e = queue_cmd(@, m)]
AskFor(p, c) == Ask(p, Msg(c, 0))
Run(p)     == [p EXCEPT !.e = run_queue(@)]
Reset(p)   == [p EXCEPT !.e = reset_poller(@, p.st.starttasks, p.st.nopoll)]
AskStatus(p) == AskFor(p, p.st.msp_get_status)

forget_fc(s) ==
  [s EXCEPT !.msp_get_status = "STATUS", !.identified = FALSE,
            !.inav = FALSE, !.navcap = "NONE", !.have_fcv = FALSE,
            !.have_fcvv = FALSE, !.vers = 0, !.have_status = FALSE]

(* serial_reset: note what it leaves alone: mq, lastmsg, mleave, nopoll,   *)
(* starttasks, need_startup, can_startup and seenMSP.                      *)
serial_reset(p) ==
  [e  |-> [p.e EXCEPT !.serstate = "NONE", !.requests = << >>, !.tcycle = 0,
                      !.lastpoll = "NOOP", !.currx = "NOOP",
                      !.last0wp = FALSE, !.armed = FALSE, !.due = {},
                      !.okage = 0, !.rxage = 0],
   st |-> [forget_fc(p.st) EXCEPT !.nticks = 0, !.last_tm = 0,
                                  !.idcount = 0, !.dac = FALSE]]

(* Mutant: the queue runs before IDENT is in it.                           *)
begin_normal_late(p) ==
  AskFor(Run([p EXCEPT !.e.serstate = "NORMAL"]), "IDENT")

(* Start of the MSP conversation, on connect and on the long restart.      *)
begin_normal(p) ==
  Run(AskFor([p EXCEPT !.e.serstate = "NORMAL"], "IDENT"))

----------------------------------------------------------------------------
(* The start tasks.                                                        *)

(* Mutant: the last task is taken even when it is not there.               *)
handle_misc_startup_again(p) ==
  LET t == p.st.starttasks
  IN  IF Has(t, STATUS)
      THEN AskStatus([p EXCEPT !.st.starttasks = t - STATUS])
      ELSE AskStatus([p EXCEPT !.st.starttasks = t - STATUSX,
                               !.st.have_status = FALSE])

handle_misc_startup(p) ==
  LET t == p.st.starttasks
      Take(bit) == [p EXCEPT !.st.starttasks = t - bit]
  IN  IF p.e.armed /\ ArmedMspPlacebo
      THEN AskStatus([p EXCEPT !.st.starttasks = 0, !.st.have_status = FALSE])
      ELSE CASE Has(t, STATUS)    -> AskStatus(Take(STATUS))
             [] ~Has(t, STATUS) /\ Has(t, SAFEHOMES) ->
                  AskFor(Take(SAFEHOMES), "SAFEHOME")
             [] ~Has(t, STATUS) /\ ~Has(t, SAFEHOMES) /\ Has(t, GEOZONES) ->
                  AskFor(Take(GEOZONES), "GEOZONE")
             [] ~Has(t, STATUS) /\ ~Has(t, SAFEHOMES) /\ ~Has(t, GEOZONES)
                /\ Has(t, STATUSX) ->
                  AskStatus([Take(STATUSX) EXCEPT !.st.have_status = FALSE])
             [] OTHER -> p

(* Mutant: safehomes wait for the wrong version.                           *)
set_starttasks_newer(t, v, autogz) ==
  t + (IF v >= hasFWApp /\ AutoSafehomes THEN SAFEHOMES + STATUS ELSE 0)
    + STATUSX

(* ACTIVEBOXES: which tasks this session has, added to what is there.      *)
set_starttasks(t, v, autogz) ==
  LET t1 == t + (IF v > hasSAFEAPI /\ AutoSafehomes THEN SAFEHOMES ELSE 0)
      t2 == t1 + (IF v >= hasGeoZones /\ autogz THEN GEOZONES ELSE 0)
      t3 == t2 + (IF t2 # 0 THEN STATUS ELSE 0)
  IN  t3 + STATUSX

(* The settings asked for one after the other: 1 safe distance, 2 eph,     *)
(* 3 min sats, 4 home offset distance and 5 direction, 6 safehome distance,*)
(* 7 approach length, 8 loiter radius; 0 is the end of the chain.          *)
next_setting(a, v, offset) ==
  CASE a \in {1, 2, 7} -> a + 1
    [] a = 3 -> IF v = hasPOI THEN 4 ELSE 6
    [] a = 4 -> IF offset THEN 5 ELSE IF v >= hasSAFEAPI THEN 6 ELSE 0
    [] a = 5 -> IF v >= hasSAFEAPI THEN 6 ELSE 0
    [] a = 6 -> IF v >= hasFWApp THEN 7 ELSE 0
    [] a \notin 1 .. 7 -> 0

common_setting_info(p, a, offset) ==
  LET nxt == next_setting(a, p.st.vers, offset)
      p1  == IF nxt # 0 THEN Ask(p, Msg("COMMON_SETTING_INFO", nxt))
                        ELSE [p EXCEPT !.st.can_startup = TRUE]
  IN  IF p1.st.need_startup /\ p1.st.can_startup
      THEN handle_misc_startup([p1 EXCEPT !.st.need_startup = FALSE,
                                          !.st.can_startup = FALSE])
      ELSE p1

----------------------------------------------------------------------------
(* The poll list and the status message that starts the poller.            *)

(* "ANALOG" stands for ANALOG2 as well.                                    *)
build_pollreqs(s, f) ==
  LET If(cond, c) == IF cond THEN <<c>> ELSE << >>
      gps == "GPS" \in f.sensors
  IN  <<s.msp_get_status, "ANALOG">>
      \o If(gps /\ s.navcap # "NONE", "NAV_STATUS")
      \o If(gps, "RAW_GPS") \o If(gps, "COMP_GPS")
      \o If(gps /\ s.navcap # "NAVCONFIG", "GPSSTATISTICS")
      \o If(gps, "WP")
      \o If("ACC" \in f.sensors, "ATTITUDE")
      \o If("BARO" \in f.sensors, "ALTITUDE")
      \o If(s.vers >= hasAdsbList /\ f.adsb, "ADSB_VEHICLE_LIST")

(* arm: the armed bit of the answer.                                       *)
handle_msp_status(p, f, arm) ==
  LET p1    == [p EXCEPT !.e.armed = arm, !.st.have_status = TRUE]
      p2    == [p1 EXCEPT !.e.requests = build_pollreqs(p.st, f)]
  IN  CASE p.st.nopoll -> p1
        [] ~p.st.nopoll /\ p.st.starttasks = 0 /\ ~p.st.have_status ->
             [p2 EXCEPT !.e.tcycle = 0, !.e.serstate = "POLLER"]
        [] ~p.st.nopoll /\ p.st.starttasks = 0 /\ p.st.have_status
           /\ p.e.requests = << >> /\ "GPS" \in f.sensors -> p2
        [] OTHER -> p1

----------------------------------------------------------------------------
(* handle_msp, the answers.                                                *)

rxmap_next(p) ==
  IF p.st.navcap = "NAVCONFIG"
  THEN AskFor(p, "STATUS")
  ELSE AskFor(IF p.st.inav THEN Run(AskFor(p, "WP_GETINFO")) ELSE p,
              "ACTIVEBOXES")

(* Answers that always lead to the same next question.                     *)
Follows(c, f, v) ==
  CASE c = "API_VERSION"       -> IF f.msp2 THEN "NAME" ELSE "BOARD_INFO"
    [] c = "NAME"              -> IF f.mixer THEN "INAV_MIXER" ELSE "BOARD_INFO"
    [] c = "INAV_MIXER"        -> "BOARD_INFO"
    [] c = "BOARD_INFO"        -> "FC_VARIANT"
    [] c = "FEATURE"           -> "BLACKBOX_CONFIG"
    [] c = "BLACKBOX_CONFIG"   -> IF f.flash THEN "DATAFLASH_SUMMARY"
                                             ELSE "FC_VERSION"
    [] c = "DATAFLASH_SUMMARY" -> "FC_VERSION"
    [] c = "COMMON_SET_TZ"     -> "BUILD_INFO"
    [] c = "BUILD_INFO"        -> "COMMON_SERIAL_CONFIG"
    [] c = "COMMON_SERIAL_CONFIG" ->
         IF v >= hasMoreWP THEN "BOXIDS" ELSE "BOXNAMES"
    [] c \in {"BOXIDS", "BOXNAMES"} -> "RX_MAP"

Chained == {"API_VERSION", "NAME", "INAV_MIXER", "BOARD_INFO", "FEATURE",
            "BLACKBOX_CONFIG", "DATAFLASH_SUMMARY", "COMMON_SET_TZ",
            "BUILD_INFO", "COMMON_SERIAL_CONFIG", "BOXIDS", "BOXNAMES"}

got_ident(p, f) ==
  LET p1 == [p EXCEPT !.st.idcount = 0, !.st.identified = TRUE]
  IN  IF p.st.identified THEN p1
      ELSE AskFor([p1 EXCEPT !.st.vers = 0,
                             !.st.navcap = IF f.navconfig THEN "NAVCONFIG"
                                                          ELSE "NONE"],
                  "API_VERSION")

(* Mutant: inav is cleared last.                                           *)
got_variant_cleared(p, f) ==
  LET p1 == [p EXCEPT !.st.inav = FALSE]
  IN  IF p.st.have_fcv THEN p1
      ELSE AskFor([p1 EXCEPT !.st.have_fcv = TRUE,
                             !.st.navcap = IF f.inav THEN "INAV" ELSE @],
                  IF f.inav THEN "FEATURE" ELSE "BOXNAMES")

(* inav is cleared before the have_fcv test, whatever its outcome.         *)
got_variant(p, f) ==
  LET p1 == [p EXCEPT !.st.inav = FALSE]
  IN  IF p.st.have_fcv THEN p1
      ELSE AskFor([p1 EXCEPT !.st.have_fcv = TRUE, !.st.inav = f.inav,
                             !.st.navcap = IF f.inav THEN "INAV" ELSE @],
                  IF f.inav THEN "FEATURE" ELSE "BOXNAMES")

got_version(p, f) ==
  LET p1 == [p EXCEPT !.st.have_fcvv = TRUE, !.st.vers = f.vers]
      gs == IF ~f.msp2 THEN "STATUS"
            ELSE IF f.vers >= hasV2STATUS THEN "INAV_STATUS" ELSE "STATUS_EX"
  IN  CASE p.st.have_fcvv -> p
        [] ~p.st.have_fcvv /\ p.st.inav ->
             AskFor([p1 EXCEPT !.st.msp_get_status = gs],
                    IF f.tz /\ f.msp2 /\ f.vers >= hasTZ
                    THEN "COMMON_SET_TZ" ELSE "BUILD_INFO")
        [] ~p.st.have_fcvv /\ ~p.st.inav -> AskFor(p1, "BOXNAMES")

got_activeboxes(p, f) ==
  LET p1 == [p EXCEPT !.st.need_startup = TRUE,
                      !.st.starttasks = set_starttasks(@, p.st.vers,
                                                       f.gz /\ AutoGeozones)]
  IN  IF p.st.vers >= hasTZ THEN Ask(p1, Msg("COMMON_SETTING_INFO", 1)) ELSE p1

got_safehome(p, id) ==
  IF id + 1 < MaxHomes THEN Ask(p, Msg("SAFEHOME", id + 1))
                       ELSE AskFor(p, "FW_APPROACH")

got_fw_approach(p, id) ==
  IF id = MaxHomes - 1 THEN handle_misc_startup(Reset(p))
                       ELSE Ask(p, Msg("FW_APPROACH", id + 1))

got_geozone(p, id, f) ==
  CASE id + 1 < MaxGz -> Ask(p, Msg("GEOZONE", id + 1))
    [] id + 1 >= MaxGz /\ f.nvert > 0 -> AskFor(p, "GEOZONE_VERTEX")
    [] id + 1 >= MaxGz /\ f.nvert = 0 -> handle_misc_startup(Reset(p))

got_gzvertex(p, v, f) ==
  IF v + 1 < f.nvert THEN Ask(p, Msg("GEOZONE_VERTEX", v + 1))
                     ELSE handle_misc_startup(Reset(p))

got_status(p, f, arm) ==
  LET p1 == handle_msp_status(p, f, arm)
  IN  IF p1.st.starttasks # 0 THEN handle_misc_startup(p1) ELSE p1

got_reboot(p) == [p EXCEPT !.e.closing = TRUE, !.st.reopen = TRUE]

handle_msp(p, m, f, arm) ==
  CASE m.cmd = "IDENT"       -> got_ident(p, f)
    [] m.cmd \in Chained     -> AskFor(p, Follows(m.cmd, f, p.st.vers))
    [] m.cmd = "FC_VARIANT"  -> got_variant(p, f)
    [] m.cmd = "FC_VERSION"  -> got_version(p, f)
    [] m.cmd = "RX_MAP"      -> rxmap_next(p)
    [] m.cmd = "ACTIVEBOXES" -> got_activeboxes(p, f)
    [] m.cmd = "COMMON_SETTING_INFO" -> common_setting_info(p, m.arg, f.offset)
    [] m.cmd \in StatusCmds  -> got_status(p, f, arm)
    [] m.cmd = "WP"          -> [p EXCEPT !.e.last0wp = (m.arg = 0)]
    [] m.cmd = "SAFEHOME"    -> got_safehome(p, m.arg)
    [] m.cmd = "FW_APPROACH" -> got_fw_approach(p, m.arg)
    [] m.cmd = "GEOZONE"     -> got_geozone(p, m.arg, f)
    [] m.cmd = "GEOZONE_VERTEX" -> got_gzvertex(p, m.arg, f)
    [] m.cmd = "REBOOT"      -> got_reboot(p)
    [] OTHER                 -> p

(* handle_msp, the errors: lastmsg is not emptied.                         *)
ErrorFollows(c) ==
  CASE c \in {"NAME", "INAV_MIXER"}      -> "BOARD_INFO"
    [] c = "COMMON_SERIAL_CONFIG"        -> "BOXIDS"
    [] c \in {"API_VERSION", "BOXIDS"}   -> "BOXNAMES"
    [] c = "IDENT"                       -> "API_VERSION"
    [] c = "COMMON_SET_TZ"               -> "BUILD_INFO"

ErrorChained == {"NAME", "INAV_MIXER", "COMMON_SERIAL_CONFIG", "API_VERSION",
                 "BOXIDS", "IDENT", "COMMON_SET_TZ"}

handle_msp_error(p, m) ==
  CASE m.cmd \in ErrorChained ->
         Run(AskFor([p EXCEPT !.st.idcount =
                                IF m.cmd = "IDENT" THEN -7200 ELSE @],
                    ErrorFollows(m.cmd)))
    [] m.cmd = "RX_MAP" -> Run(rxmap_next(p))
    [] m.cmd = "ADSB_VEHICLE_LIST" ->
         [p EXCEPT !.e = clear_poller_item(@, "ADSB_VEHICLE_LIST")]
    [] m.cmd \in {"INAV_STATUS", "ACTIVEBOXES"} ->
         Run(AskStatus([p EXCEPT !.st.msp_get_status = "STATUS_EX"]))
    [] m.cmd = "STATUS_EX" ->
         Run(AskStatus([p EXCEPT !.st.msp_get_status = "STATUS"]))
    [] m.cmd \in {"WP_GETINFO", "COMMON_SET_SETTING"} -> Run(p)
    [] m.cmd \in {"GEOZONE", "GEOZONE_VERTEX"} ->
         IF p.st.starttasks # 0 THEN handle_misc_startup(p)
                                ELSE Run(AskStatus(p))
    [] OTHER -> Run(AskStatus(p))

Rejects(f, m) == \/ m.cmd \in f.rejects
                 \/ m.cmd = "COMMON_SETTING_INFO" /\ m.arg \in f.nosetting

----------------------------------------------------------------------------
(* The device: connect_serial, open_async, serial_lost, try_reopen.        *)

Now == Pair(eng, st)
Becomes(p) == eng' = p.e /\ st' = p.st

connect_serial(p) == [p EXCEPT !.e.serstate = "NONE", !.st.opening = @ + 1]

(* Neither a user nor the reopen timer (6 s) nor a tick of this coarse     *)
(* clock is as quick as the MSP_WAITMS that a deferred poll waits or as    *)
(* the serial_lost signal that follows a close.                            *)
Settled == eng.pend = 0 /\ ~eng.closing

(* handle_connect: the button is insensitive until the open has finished.  *)
Connect ==
  /\ ~eng.avail /\ st.button /\ Settled /\ st.opening < OpenMax
  /\ Becomes(connect_serial([Now EXCEPT !.st.button = FALSE]))
  /\ UNCHANGED <<fc, env>>

(* The chosen device belongs to a radar, the forwarder or the tracker:     *)
(* connect_serial warns and returns.                                       *)
ConnectRefused ==
  /\ ~eng.avail /\ st.button /\ Settled /\ env.user > 0
  /\ Becomes([Now EXCEPT !.st.button = FALSE, !.e.serstate = "NONE"])
  /\ env' = [env EXCEPT !.user = @ - 1]
  /\ UNCHANGED fc

(* serial_complete_setup. Mode: MSP, a protocol or address that is only    *)
(* listened to, or a device URI with "mavlink", which waits for telemetry. *)
Modes == {"MSP"} \cup IF env.frames > 0 THEN {"listen", "mavlink"} ELSE {}

serial_complete_setup(p, mode) ==
  LET p1 == serial_reset([p EXCEPT !.e.avail = TRUE, !.e.closing = FALSE,
                                   !.e.wire = << >>,
                                   !.st.nopoll = (mode = "listen"),
                                   !.st.button = TRUE,
                                   !.st.opening = @ - 1])
  IN  IF mode = "MSP" THEN begin_normal(p1)
                      ELSE [p1 EXCEPT !.e.serstate = "TELEM"]

OpenDone ==
  /\ st.opening > 0
  /\ \E mode \in Modes : Becomes(serial_complete_setup(Now, mode))
  /\ UNCHANGED <<fc, env>>

OpenFails ==
  /\ st.opening > 0 /\ env.breaks > 0
  /\ Becomes([Now EXCEPT !.st.opening = @ - 1, !.st.button = TRUE,
                          !.e.armed = FALSE])
  /\ env' = [env EXCEPT !.breaks = @ - 1]
  /\ UNCHANGED fc

(* handle_connect with the button labelled "Disconnect".                   *)
Disconnect ==
  /\ eng.avail /\ ~eng.closing /\ st.button /\ env.breaks > 0
  /\ Becomes([Now EXCEPT !.e.closing = TRUE, !.st.button = FALSE])
  /\ env' = [env EXCEPT !.breaks = @ - 1]
  /\ UNCHANGED fc

(* Mutants: the button stays insensitive; serstate is left as it was.      *)
close_serial_button(p) ==
  [p EXCEPT !.e.serstate = "NONE", !.e.avail = FALSE, !.e.closing = FALSE,
            !.e.wire = << >>, !.st.nopoll = FALSE, !.st.last_tm = 0]

close_serial_state(p) ==
  [p EXCEPT !.e.avail = FALSE, !.e.closing = FALSE, !.e.wire = << >>,
            !.st.nopoll = FALSE, !.st.last_tm = 0, !.st.button = TRUE]

(* close_serial and MWSerial.clearup, both on the serial_lost signal.      *)
close_serial(p) ==
  [p EXCEPT !.e.serstate = "NONE", !.e.avail = FALSE, !.e.closing = FALSE,
            !.e.wire = << >>, !.st.nopoll = FALSE, !.st.last_tm = 0,
            !.st.button = TRUE]

SerialLost ==
  /\ eng.avail
  /\ \/ eng.closing /\ env' = env
     \/ ~eng.closing /\ env.breaks > 0 /\ env' = [env EXCEPT !.breaks = @ - 1]
  /\ Becomes(close_serial(Now))
  /\ UNCHANGED fc

(* Mutant: the test of msp.available is inverted.                          *)
try_reopen_if_open(p) == IF p.e.avail THEN connect_serial(p) ELSE p

try_reopen(p) == IF p.e.avail THEN p ELSE connect_serial(p)

TryReopen ==
  /\ st.reopen /\ Settled /\ st.opening < OpenMax
  /\ Becomes(try_reopen([Now EXCEPT !.st.reopen = FALSE]))
  /\ UNCHANGED <<fc, env>>

----------------------------------------------------------------------------
(* Messages.                                                               *)

(* handle_serial for an MSP message that came back for m.                  *)
handle_serial(p, m, f, arm, err, soon) ==
  LET p1 == [p EXCEPT !.e = received(@, m.cmd, err),
                      !.st.seenMSP = TRUE, !.st.last_tm = 0]
      p2 == IF err THEN handle_msp_error(p1, m) ELSE handle_msp(p1, m, f, arm)
  IN  [p2 EXCEPT !.e = message_handled(@, soon)]

Arms(m) == IF m.cmd \in StatusCmds THEN BOOLEAN ELSE {FALSE}

Answer ==
  /\ eng.avail /\ ~eng.closing /\ eng.wire # << >> /\ ~fc.silent
  /\ LET m == Head(eng.wire)
         p == [Now EXCEPT !.e.wire = Tail(@)]
     IN  \E arm \in Arms(m), soon \in BOOLEAN :
           /\ soon => eng.pend < PendMax
           /\ Becomes(handle_serial(p, m, fc, arm, Rejects(fc, m), soon))
  /\ UNCHANGED <<fc, env>>

Lose ==
  /\ eng.wire # << >>
  /\ env.lossy \/ fc.silent
  /\ eng' = [eng EXCEPT !.wire = Tail(@)]
  /\ UNCHANGED <<st, fc, env>>

(* External: the FC loses power while the device stays open.               *)
FcDies ==
  /\ ~fc.silent /\ env.breaks > 0
  /\ fc' = [fc EXCEPT !.silent = TRUE]
  /\ env' = [env EXCEPT !.breaks = @ - 1]
  /\ UNCHANGED <<eng, st>>

(* A pushed LTM or MAVLink frame; says: what it tells about arming. The    *)
(* first LTM frame that says disarmed wakes the poller.                    *)
handle_ltm(p, says) ==
  LET p1 == [p EXCEPT !.st.dac = TRUE]
  IN  CASE says = "nothing"  -> p
        [] says = "armed"    -> [p EXCEPT !.e.armed = TRUE, !.st.dac = FALSE]
        [] says = "disarmed" -> IF p.e.armed /\ ~p.st.dac
                                THEN Reset([p1 EXCEPT !.e.armed = FALSE])
                                ELSE p1

handle_mavlink(p, says) ==
  IF says = "nothing" THEN p ELSE [p EXCEPT !.e.armed = (says = "armed")]

(* telem_init sets last_tm to nticks, its caller then to 2.                *)
FirstFrameAge(t) == IF t < 2 \/ t - 2 > MavIntvl THEN MavIntvl + 2 ELSE t - 1

telem_init(p) == [p EXCEPT !.e.serstate = "TELEM",
                           !.st.last_tm = FirstFrameAge(p.st.nticks)]

handle_telemetry(p, ltm, says) ==
  LET p1 == IF ltm
            THEN handle_ltm([p EXCEPT !.st.nopoll = @ \/ ~p.st.seenMSP], says)
            ELSE handle_mavlink(p, says)
      p2 == IF p.st.last_tm = 0
            THEN telem_init(p1)
            ELSE [p1 EXCEPT !.st.last_tm = IF p.st.nticks > 0 THEN 1 ELSE @]
  IN  [p2 EXCEPT !.e = message_handled([@ EXCEPT !.rxage = 0], FALSE)]

Frame ==
  /\ eng.avail /\ ~eng.closing /\ env.frames > 0
  /\ \E ltm \in BOOLEAN, says \in {"nothing", "armed", "disarmed"} :
       Becomes(handle_telemetry(Now, ltm, says))
  /\ env' = [env EXCEPT !.frames = @ - 1]
  /\ UNCHANGED fc

(* The menu action that queues REBOOT: nothing runs the queue there.       *)
UserReboot ==
  /\ eng.avail /\ ~eng.armed /\ st.have_fcvv /\ env.user > 0
  /\ Becomes(AskFor(Now, "REBOOT"))
  /\ env' = [env EXCEPT !.user = @ - 1]
  /\ UNCHANGED fc

(* The timeout that timed_poll set.                                        *)
NextPollFires ==
  /\ eng.pend > 0
  /\ eng' = next_poll([eng EXCEPT !.pend = @ - 1])
  /\ UNCHANGED <<st, fc, env>>

----------------------------------------------------------------------------
(* The supervision timer.                                                  *)

(* "Restart poll loop": the poller has heard nothing for RESTARTINTVL.     *)
restart_poll_loop(p) == begin_normal(serial_reset(p))

(* Mutants: nopoll is not looked at; MSP must have been seen before.       *)
telemetry_over_any(p) == p.st.last_tm = MavIntvl + 2

telemetry_over_seen(p) ==
  ~p.st.nopoll /\ p.st.seenMSP /\ p.st.last_tm = MavIntvl + 2

telemetry_over(p) == ~p.st.nopoll /\ p.st.last_tm = MavIntvl + 2

(* "Restart poller on telemetry timeout".                                  *)
restart_on_telemetry_timeout(p) ==
  Run(AskStatus([p EXCEPT !.e.serstate = "NORMAL", !.e.lastpoll = "NOOP",
                          !.st.have_status = FALSE, !.st.identified = FALSE,
                          !.st.last_tm = 0]))

(* Mutant: the count of unanswered IDENTs stays where it is.               *)
on_timeout_uncounted(p) == [p EXCEPT !.e = poll_timeout(@)]

(* The timeout branch, with the count of unanswered IDENTs.                *)
on_timeout(p) ==
  LET n  == p.st.idcount + 1
      p1 == CASE p.e.lastmsg.cmd # "IDENT" -> p
              [] p.e.lastmsg.cmd = "IDENT" /\ n # IdentLimit ->
                   [p EXCEPT !.st.idcount = n]
              [] p.e.lastmsg.cmd = "IDENT" /\ n = IdentLimit ->
                   [p EXCEPT !.st.idcount = 0, !.e.closing = TRUE]
  IN  [p1 EXCEPT !.e = poll_timeout(@)]

poll_timer(p) ==
  CASE ~p.e.avail -> p
    [] p.e.avail /\ p.e.serstate = "NONE" ->
         [p EXCEPT !.e.okage = 0, !.e.rxage = 0]
    [] p.e.avail /\ p.e.serstate = "TELEM" ->
         IF telemetry_over(p) THEN restart_on_telemetry_timeout(p) ELSE p
    [] p.e.avail /\ p.e.serstate \notin {"NONE", "TELEM"} ->
         CASE p.e.serstate = "POLLER" /\ p.e.rxage >= RestartIntvl ->
                restart_poll_loop(p)
           [] ~(p.e.serstate = "POLLER" /\ p.e.rxage >= RestartIntvl)
              /\ TimedOut(p.e) -> on_timeout(p)
           [] OTHER -> p

(* Time passes; d: rate limited polls whose interval is over.              *)
elapsed(p, d) ==
  [p EXCEPT !.e.okage = Older(@), !.e.rxage = Older(@), !.e.due = @ \cup d,
            !.st.nticks = IF @ < TickMax THEN @ + 1 ELSE @,
            !.st.last_tm = IF @ \in 1 .. (MavIntvl + 1) THEN @ + 1 ELSE @]

Tick ==
  /\ Settled /\ Len(eng.wire) < WireMax
  /\ LateReplies \/ eng.wire = << >> \/ fc.silent
  /\ \E d \in SUBSET RateLimited :
       Becomes(poll_timer(elapsed(Now, d)))
  /\ UNCHANGED <<fc, env>>

----------------------------------------------------------------------------
InitFlags ==
  [opening |-> 0, button |-> TRUE, reopen |-> FALSE, nopoll |-> FALSE, seenMSP |-> FALSE,
   nticks |-> 0, last_tm |-> 0, idcount |-> 0, msp_get_status |-> "STATUS",
   identified |-> FALSE, inav |-> FALSE, navcap |-> "NONE",
   dac |-> FALSE, have_fcv |-> FALSE, have_fcvv |-> FALSE, vers |-> 0,
   have_status |-> FALSE, need_startup |-> FALSE, can_startup |-> FALSE,
   starttasks |-> 0]

Init ==
  /\ eng = IdleEngine
  /\ st = InitFlags
  /\ \E w \in Worlds : fc = w.fc /\ env = w.env

Next ==
  \/ Connect \/ ConnectRefused \/ OpenDone \/ OpenFails \/ Disconnect \/ SerialLost \/ TryReopen
  \/ Answer \/ Lose \/ FcDies \/ Frame \/ UserReboot \/ NextPollFires \/ Tick

(* The main loop runs what is ready (timers, the open callback, the lost   *)
(* signal); what is on the wire is answered or lost, and commands that are *)
(* sent again and again are answered in the end.                           *)
Fairness ==
  /\ WF_vars(OpenDone) /\ WF_vars(TryReopen)
  /\ WF_vars(eng.closing /\ SerialLost)
  /\ WF_vars(NextPollFires) /\ WF_vars(Tick)
  /\ WF_vars(Answer \/ Lose) /\ SF_vars(Answer)

Spec == Init /\ [][Next]_vars /\ Fairness

----------------------------------------------------------------------------
(* Properties.                                                             *)

(* Every variable keeps its type.                                          *)
TypeOK == eng \in Engine /\ st \in Flags /\ fc \in FCKind /\ env \in Env

(* next_poll never divides by the length of an empty poll list.            *)
NoDivZero == ~eng.divzero

(* The do ... while (skip) loop of send_poll ends: a poll list that is not *)
(* empty holds a status request, whatever has been built, emptied of its   *)
(* ADSB item or reset meanwhile, and a status request is never skipped.    *)
SkipLoopEnds == PollListOK(eng)

(* While the device is down the engine is at rest and nothing is sent,     *)
(* though timers set before it went down (deferred polls, the reopen, the  *)
(* supervision timer) still fire.                                          *)
DownIsQuiet == ~eng.avail => eng.serstate = "NONE" /\ eng.wire = << >>

(* A polling session knows what it polls: an INAV FC is known as INAV with *)
(* its true version, from which the poll list has been built.              *)
PollsWhatItKnows ==
  eng.serstate = "POLLER" =>
    eng.requests # << >> /\ (fc.inav => st.inav /\ st.vers = fc.vers)

(* Where startup may come to rest: the ACTIVEBOXES answer was lost         *)
(* after its WP_GETINFO answer, asked for in the same breath, had emptied  *)
(* lastmsg.                                                                *)
AtActiveboxes == eng.lastmsg = NoMsg /\ eng.wire = << >> /\ eng.currx = "WP_GETINFO"

(* A session that begins talking begins with IDENT, whatever the session   *)
(* before it left behind, unless that is a command in mq: what was queued  *)
(* around a user's REBOOT survives the close and goes first.               *)
FreshStart ==
  [][eng.serstate = "NONE" /\ eng'.serstate = "NORMAL" /\ eng.mq = << >>
       => eng'.lastmsg = Msg("IDENT", 0)]_vars

(* The startup conversation ends: the poller runs, or the link goes down,  *)
(* or it has come to rest for want of ACTIVEBOXES, and nowhere else.       *)
StartupCompletes ==
  eng.avail /\ eng.serstate = "NORMAL"
    ~> ~eng.avail \/ eng.serstate # "NORMAL" \/ AtActiveboxes

(* With autoload-safehomes, an FC that has safehomes is asked for them     *)
(* after it has answered ACTIVEBOXES, unless the link goes down first.     *)
SafehomesLoaded ==
  eng.avail /\ st.need_startup /\ st.vers > hasSAFEAPI /\ AutoSafehomes
    ~> ~eng.avail \/ fc.silent \/ eng.lastmsg.cmd = "SAFEHOME"

(* A session that never hears from the FC is closed by the ident limit.    *)
SilentFcGivesUp ==
  eng.avail /\ eng.serstate = "NORMAL" /\ eng.currx = "NOOP" /\ fc.silent
    ~> ~eng.avail

(* While the poller runs every item of its list has its turn again and     *)
(* again, except those that are rate limited or depend on the arm state.   *)
EveryItemPolled ==
  \A c \in PollCmds \ (RateLimited \cup {"GPSSTATISTICS"}) :
    []<>(eng.serstate # "POLLER" \/ ~lost_poll(eng, c) \/ eng.lastpoll = c)

(* A session that pushed telemetry has taken over returns to MSP once the  *)
(* telemetry has stopped.                                                  *)
TelemetryGivesWay ==
  eng.avail /\ eng.serstate = "TELEM" /\ ~st.nopoll /\ st.last_tm > 0
    /\ env.frames = 0
    ~> ~eng.avail \/ eng.serstate # "TELEM"

(* It does so if no MSP command was under way when the telemetry took over.*)
QuietTelemetryGivesWay ==
  eng.avail /\ eng.serstate = "TELEM" /\ ~st.nopoll /\ st.last_tm > 0
    /\ env.frames = 0 /\ eng.wire = << >> /\ eng.mq = << >> /\ Settled
    ~> ~eng.avail \/ eng.serstate # "TELEM"

(* Once a session only listens and what it had sent is settled, nothing    *)
(* more is sent.                                                           *)
ListenOnly ==
  [][eng.avail /\ st.nopoll /\ st'.nopoll /\ eng.wire = << >>
       => eng'.wire = << >>]_vars

(* After the FC has acknowledged a reboot, a new MSP session begins.       *)
RebootReconnects ==
  eng.closing /\ st.reopen
    ~> eng.avail /\ ~eng.closing /\ eng.serstate = "NORMAL"

(* The Connect button comes back: a click that opens or closes the device  *)
(* ends in a session or in a closed device from which one can connect      *)
(* again.  A click that connect_serial refuses does not bring it back.     *)
ButtonComesBack == ~st.button /\ (eng.avail \/ st.opening > 0) ~> st.button
=============================================================================
