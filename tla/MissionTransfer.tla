-------------------------- MODULE MissionTransfer --------------------------
(***************************************************************************)
(* Mission transfer between mwp and the FC: upload (one mission, all, to   *)
(* EEPROM, by D-Bus), download, restore from EEPROM and follow-me, with    *)
(* the approaches that go with a mission, the waypoint timer and the       *)
(* return to polling.  Built on the operators of MspEngine; the session is *)
(* up, the FC known and disarmed and the poller running.                   *)
(*                                                                         *)
(* Handlers map pairs p = [e |-> engine, t |-> transfer].  A mission is a  *)
(* sequence of items; on the wire an item has its number and the flag of   *)
(* the last one.  A mission set is the sequence of all its items: how it   *)
(* is cut into missions matters for LAND items and their approaches only,  *)
(* which are those of the set's missions fc.lands, whoever holds the set.  *)
(***************************************************************************)
EXTENDS MspEngine

CONSTANTS
  PollList,        \* what build_pollreqs made of this FC
  Worlds,          \* the FCs considered, each in its surroundings; and
                   \* what mwp begins with, mine: 1 its mission, 0 none
  MaxHomes,        \* Safehome.MAXHOMES
  MaxApproach,     \* FWApproach.MAXAPPROACH
  WpMax,           \* wp_max, what the FC can hold
  WpLast,          \* 253, the last number that is not special
  LenMine, LenRam, LenRom,   \* lengths of the missions of mwp and the FC
  Overlap,         \* does the user begin one thing before another has ended?
  WireMax, PendMax \* bounds on unanswered commands and deferred polls

Ops == {"upload", "uploadall", "store", "dbus", "download", "restore", "edit",
        "followme"}

(* An FC: inav; vi.fc_vers >= FCVERS.hasWP_V4; the missions of a set that  *)
(* have a LAND item, if it knows approaches; the commands that it refuses; *)
(* and what the user does with it.                                         *)
FCKind == [inav : BOOLEAN, v4 : BOOLEAN,
           lands : SUBSET (0 .. (MaxApproach - MaxHomes - 1)),
           rejects : SUBSET Cmds, ops : SUBSET Ops]

(* External: what the surroundings may still do: operations that the user  *)
(* begins, messages that are lost; may an answer come late? And the        *)
(* setting no-poller-pause.                                                *)
Env == [user : Nat, losses : Nat, late : BOOLEAN, nopause : BOOLEAN]

ASSUME TransferAssumption ==
  /\ PollList \in Seq(PollCmds)
  /\ \E i \in DOMAIN PollList : PollList[i] \in StatusCmds
  /\ Overlap \in BOOLEAN
  /\ {MaxHomes, MaxApproach} \subseteq Nat
  /\ Worlds \subseteq [fc : FCKind, env : Env, mine : 0 .. 1]
  /\ {WpMax, LenMine, LenRam, LenRom} \subseteq Nat
  /\ WpLast \in Nat \ {0}
  /\ {LenMine, LenRam, LenRom} \subseteq 0 .. WpLast
  /\ {WireMax, PendMax} \subseteq Nat

VARIABLES
  eng,     \* the message engine
  tr,      \* wpmgr, the waypoint timer and mwp's mission
  fc,      \* external: the FC, as mwp knows it
  fcm,     \* external: the FC's missions
  env      \* external: what may still happen

vars == <<eng, tr, fc, fcm, env>>

----------------------------------------------------------------------------
(* Missions. Versions: 0 none, 1 mwp's, 2 the FC's, 3 the FC's EEPROM's,   *)
(* 4 mwp's after an edit, 5 the RTH that stands for an empty mission, 6    *)
(* the follow-me point. 254 and 255 are the two numbers after WpLast.      *)
Width    == WpLast + 3
Item(v, n) == v * Width + n
Length(v) == CASE v = 0 -> 0 [] v \in {1, 4} -> LenMine [] v = 2 -> LenRam
               [] v = 3 -> LenRom [] v = 5 -> 1
Mission(v) == [n \in 1 .. Length(v) |-> Item(v, n)]

(* MSP_WP: an item with its number and its flag (1 is 0xa5).               *)
MSP_WP(no, item, flag) == (2 * item + flag) * Width + no
Number(w) == w % Width
Last(w)   == (w \div Width) % 2 = 1
ItemOf(w) == w \div (2 * Width)

(* Items are numbered anew and the last one flagged, whatever they were.   *)
missonx_to_wps(ms) ==
  [k \in DOMAIN ms |-> MSP_WP(k, ms[k], IF k = Len(ms) THEN 1 ELSE 0)]

Fallback == missonx_to_wps(Mission(5))

WPDL == {"DOWNLOAD", "SAVE_EEPROM", "GETINFO", "CALLBACK", "SET_ACTIVE",
         "SAVE_ACTIVE", "RESET_POLLER", "KICK_DL", "FOLLOW_ME", "SAVE_FWA",
         "REBOOT", "ACTIVE"}

(* What the user was told of the operation last begun; "asked": nothing    *)
(* yet.                                                                    *)
Told == {"nothing", "asked", "uploaded", "saved", "downloaded", "fallback",
         "failed", "toobig", "empty"}

Transfer ==
  [mission : Seq(Nat),   \* MissionManager.msx
   dirty   : BOOLEAN,         \* MissionManager.is_dirty
   agreed  : BOOLEAN,         \* the user agreed to lose the changes
   wps     : Seq(Nat),   \* wpmgr.wps, .wp_flag, .npts, .wpidx
   wp_flag : SUBSET WPDL,
   npts    : Nat,
   wpidx   : Nat,
   last_wp_pts : Nat,
   timers  : Seq(Nat),        \* ticks left to each running waypoint timer
   upltid  : BOOLEAN,         \* upltid is the last of them
   safeindex     : Nat,
   last_safehome : Nat,
   call    : {"none", "waiting", "returned"},  \* D-Bus upload_mission
   sent    : Seq(Nat),   \* the mission last given to upload_mm
   told    : Told]

----------------------------------------------------------------------------
(* Helpers on pairs.                                                       *)

Pair(e, t) == [e |-> e, t |-> t]
Ask(p, c, a) == [p EXCEPT !.e = queue_cmd(@, Msg(c, a))]
Run(p)       == [p EXCEPT !.e = run_queue(@)]
Tell(p, what) == [p EXCEPT !.t.told = what]
Flagged(p, x) == x \in p.t.wp_flag
Clear(p, x)   == [p EXCEPT !.t.wp_flag = @ \ {x}]

(* A second timer may be started while the first one runs: upltid then     *)
(* forgets the first. Ticks are those of the poll timeout.                 *)
start_wp_timer(p, n) ==
  [p EXCEPT !.t.timers = Append(@, (n + 1) * PollTimeout), !.t.upltid = TRUE]

(* Mutants: the source is not removed; its id is not forgotten.            *)
remove_tid_running(p) == [p EXCEPT !.t.upltid = FALSE]

remove_tid_kept(p) ==
  [p EXCEPT !.t.timers = IF p.t.upltid THEN SubSeq(@, 1, Len(@) - 1) ELSE @]

remove_tid(p) ==
  [p EXCEPT !.t.timers = IF p.t.upltid THEN SubSeq(@, 1, Len(@) - 1) ELSE @,
            !.t.upltid = FALSE]

wp_reset_poller(p) ==
  [e |-> reset_poller(p.e, 0, FALSE),
   t |-> [p.t EXCEPT !.npts = 0, !.wp_flag = {}, !.wps = << >>]]

reset_wp_dl(p) == wp_reset_poller(remove_tid(p))

(* The segments with a LAND from j on, and the first of them.              *)
LandsFrom(j) == {l \in fc.lands : l >= j}
mission_has_land(j) == CHOOSE l \in LandsFrom(j) : \A k \in LandsFrom(j) : l <= k

----------------------------------------------------------------------------
(* Download.                                                               *)

start_download(p) ==
  LET rwp == IF p.t.last_wp_pts > 0 THEN p.t.last_wp_pts ELSE WpMax
      p1  == start_wp_timer([p EXCEPT !.e = pause_poller(@, "GET_WP")], rwp)
  IN  Ask([p1 EXCEPT !.t.wp_flag = @ \cup {"ACTIVE"}], "WP", 1)

(* Setting 0 is nav_wp_multi_mission_index.                                *)
do_download_mission(p) ==
  LET p1 == [p EXCEPT !.t.wp_flag = {}, !.t.wps = << >>,
                      !.t.npts = p.t.last_wp_pts]
  IN  CASE p.t.last_wp_pts = 0 /\ fc.inav -> Tell(p1, "empty")
        [] ~(p.t.last_wp_pts = 0 /\ fc.inav) /\ fc.v4 ->
             Ask([p1 EXCEPT !.t.wp_flag = {"KICK_DL"}], "COMMON_SETTING_INFO", 0)
        [] ~(p.t.last_wp_pts = 0 /\ fc.inav) /\ ~fc.v4 -> start_download(p1)

common_setting_info(p) ==
  IF Flagged(p, "KICK_DL") THEN start_download(Clear(p, "KICK_DL")) ELSE p

wp_get_approaches(p, j) ==
  IF LandsFrom(j) = {} THEN reset_wp_dl(p)
  ELSE LET k == MaxHomes + mission_has_land(j)
       IN  Ask([p EXCEPT !.t.last_safehome = k + 1], "FW_APPROACH", k)

(* Each waypoint received becomes an item, whatever its number; those      *)
(* after the last flagged one make a mission too.                          *)
wps_to_missonx(ws) == [i \in DOMAIN ws |-> ItemOf(ws[i])]

(* A lone RTH counts as no mission.                                        *)
check_mission_length(ms) == IF ms = Mission(5) THEN 0 ELSE Len(ms)

(* The download is complete. The mission on display is cleared first.      *)
download_done(p) ==
  LET ms == wps_to_missonx(p.t.wps)
      p1 == [p EXCEPT !.t.mission = << >>, !.t.dirty = FALSE]
  IN  IF check_mission_length(ms) = 0
      THEN Tell(p1, "fallback")
      ELSE wp_get_approaches(Tell([p1 EXCEPT !.t.mission = ms], "downloaded"), 0)

(* Mutant: one waypoint too few.                                           *)
handle_mm_download_short(p, n, w) ==
  LET p1 == [p EXCEPT !.t.wps = Append(@, w)]
  IN  CASE n = 0 \/ n > WpLast -> p
        [] n \in 1 .. WpLast /\ Len(p1.t.wps) + 1 = p1.t.npts -> download_done(p1)
        [] n \in 1 .. WpLast /\ Len(p1.t.wps) + 1 # p1.t.npts -> Ask(p1, "WP", n + 1)

(* The answer to a request for waypoint n: w. The FC numbers w as asked.   *)
handle_mm_download(p, n, w) ==
  IF n = 0 \/ n > WpLast THEN p
  ELSE LET p1 == [p EXCEPT !.t.wps = Append(@, w)]
           done == IF fc.v4 THEN Len(p1.t.wps) = p1.t.npts ELSE Last(w)
       IN  IF done THEN download_done(p1) ELSE Ask(p1, "WP", n + 1)

got_wp(p, n, w) == handle_mm_download([p EXCEPT !.e.last0wp = (n = 0)], n, w)

got_fw_approach(p, id) ==
  CASE id # p.t.last_safehome - 1 -> Ask(p, "FW_APPROACH", id + 1)
    [] id = p.t.last_safehome - 1 /\ id = MaxHomes - 1 ->
         [p EXCEPT !.e = reset_poller(@, 0, FALSE)]
    [] id = p.t.last_safehome - 1 /\ id # MaxHomes - 1 ->
         wp_get_approaches(p, id + 1 - MaxHomes)

----------------------------------------------------------------------------
(* Upload.                                                                 *)

upload_mm(p, flag) ==
  LET ws == IF p.t.mission = << >> THEN Fallback ELSE missonx_to_wps(p.t.mission)
      p1 == [p EXCEPT !.t.npts = Len(ws), !.t.wpidx = 0, !.t.wps = ws,
                      !.t.wp_flag = flag, !.t.sent = ws, !.t.told = "asked",
                      !.e = pause_poller(@, "SET_WP")]
  IN  IF Len(p.t.mission) > WpMax
      THEN Tell(p, "toobig")
      ELSE start_wp_timer(Ask(p1, "SET_WP", ws[1]), Len(ws))

upload_callback(p) == [Clear(p, "CALLBACK") EXCEPT !.t.call = "returned"]

(* Flags are looked at in this order, one of them at a time; SET_ACTIVE on *)
(* an FC without multi-missions does nothing at all.                       *)
handle_extra_up_tasks(p) ==
  CASE Flagged(p, "DOWNLOAD") -> do_download_mission(Clear(p, "DOWNLOAD"))
    [] ~Flagged(p, "DOWNLOAD") /\ Flagged(p, "SET_ACTIVE") ->
         IF fc.v4 THEN Ask(Clear(p, "SET_ACTIVE"), "COMMON_SET_SETTING", 1)
                     ELSE Clear(p, "SET_ACTIVE")
    [] ~Flagged(p, "DOWNLOAD") /\ ~Flagged(p, "SET_ACTIVE")
       /\ Flagged(p, "RESET_POLLER") -> wp_reset_poller(p)
    [] OTHER -> p

(* Mutant: the index of the segment is lost.                               *)
wp_set_approaches_first(p, j) ==
  IF LandsFrom(j) = {} \/ j > 0
  THEN handle_extra_up_tasks(Clear(p, "SAVE_FWA"))
  ELSE LET k == MaxHomes
       IN  Ask([Clear(p, "SAVE_FWA") EXCEPT !.e = pause_poller(@, "EXTRA_WP"),
                                            !.t.safeindex = k,
                                            !.t.last_safehome = k + 1],
               "SET_FW_APPROACH", k)

wp_set_approaches(p, j) ==
  IF LandsFrom(j) = {} THEN handle_extra_up_tasks(Clear(p, "SAVE_FWA"))
  ELSE LET k == MaxHomes + mission_has_land(j)
       IN  Ask([Clear(p, "SAVE_FWA") EXCEPT !.e = pause_poller(@, "EXTRA_WP"),
                                            !.t.safeindex = k,
                                            !.t.last_safehome = k + 1],
               "SET_FW_APPROACH", k)

(* Every waypoint has been acknowledged.                                   *)
upload_done(p) ==
  LET p1 == remove_tid(p)
      p2 == IF Flagged(p, "CALLBACK") THEN upload_callback(p1) ELSE p1
      p3 == Tell(p2, "uploaded")
  IN  CASE Flagged(p, "SAVE_EEPROM") ->
             Ask([p2 EXCEPT !.t.wp_flag = {"GETINFO", "RESET_POLLER",
                                           "SET_ACTIVE", "SAVE_ACTIVE"}],
                 "WP_MISSION_SAVE", 0)
        [] ~Flagged(p, "SAVE_EEPROM") /\ Flagged(p, "GETINFO") ->
             IF fc.inav
             THEN Ask([p3 EXCEPT !.t.wp_flag = @ \cup {"SET_ACTIVE", "RESET_POLLER"}],
                      "WP_GETINFO", 0)
             ELSE wp_reset_poller(p3)
        [] ~Flagged(p, "SAVE_EEPROM") /\ ~Flagged(p, "GETINFO")
           /\ Flagged(p, "FOLLOW_ME") ->
             wp_reset_poller(Ask(p2, "WP", WpLast + 1))
        [] OTHER -> wp_reset_poller(p2)

(* Mutant: every other waypoint is sent.                                   *)
got_set_wp_skip(p) ==
  LET i == p.t.wpidx + 1
      p1 == [p EXCEPT !.t.wpidx = i + 1]
  IN  CASE p.t.wps = << >> -> p
        [] p.t.wps # << >> /\ i + 1 < p.t.npts -> Ask(p1, "SET_WP", p.t.wps[i + 2])
        [] p.t.wps # << >> /\ i + 1 >= p.t.npts -> upload_done(p1)

(* An acknowledgement names no waypoint: each one moves wpidx on.          *)
got_set_wp(p) ==
  LET i == p.t.wpidx + 1
      p1 == [p EXCEPT !.t.wpidx = i]
  IN  CASE p.t.wps = << >> -> p
        [] p.t.wps # << >> /\ i < p.t.npts -> Ask(p1, "SET_WP", p.t.wps[i + 1])
        [] p.t.wps # << >> /\ i >= p.t.npts -> upload_done(p1)

got_wp_getinfo(p, count) ==
  LET p1 == [Clear(p, "GETINFO") EXCEPT !.t.last_wp_pts = count]
  IN  IF Flagged(p, "SAVE_FWA") THEN wp_set_approaches(p1, 0)
                                ELSE handle_extra_up_tasks(p1)

got_set_fw_approach(p) ==
  LET i  == p.t.safeindex + 1
      p1 == [p EXCEPT !.t.safeindex = i]
  IN  CASE i = p.t.last_safehome /\ i <= MaxHomes ->
             [Ask(p1, "EEPROM_WRITE", 0) EXCEPT !.e = reset_poller(@, 0, FALSE)]
        [] i = p.t.last_safehome /\ i > MaxHomes ->
             wp_set_approaches(p1, i - MaxHomes)
        [] i # p.t.last_safehome /\ i < MaxApproach ->
             Ask(p1, "SET_FW_APPROACH", i)
        [] i # p.t.last_safehome /\ i >= MaxApproach -> p1

got_mission_save(p) ==
  IF ~Flagged(p, "GETINFO") THEN p
  ELSE Tell(IF fc.inav THEN Ask(p, "WP_GETINFO", 0) ELSE p, "saved")

got_set_setting(p) ==
  CASE Flagged(p, "SAVE_ACTIVE") -> Ask(Clear(p, "SAVE_ACTIVE"), "EEPROM_WRITE", 0)
    [] ~Flagged(p, "SAVE_ACTIVE") /\ Flagged(p, "RESET_POLLER") -> wp_reset_poller(p)
    [] OTHER -> p

got_eeprom_write(p) ==
  CASE Flagged(p, "REBOOT") -> Ask(Clear(p, "REBOOT"), "REBOOT", 0)
    [] ~Flagged(p, "REBOOT") /\ Flagged(p, "RESET_POLLER") -> wp_reset_poller(p)
    [] OTHER -> p

got_mission_load(p) ==
  Ask([p EXCEPT !.t.wp_flag = {"DOWNLOAD"}], "WP_GETINFO", 0)

----------------------------------------------------------------------------
(* External: what the FC does with a command, and what it answers. It takes*)
(* waypoint 1 as the start of a new mission, and otherwise the next one.   *)
FcState == [ram : Seq(Nat), rom : Seq(Nat), fwa : SUBSET Nat,
            index : Nat]

FcDoes(f, m) ==
  CASE m.cmd \in fc.rejects -> f
    [] m.cmd \notin fc.rejects /\ m.cmd = "SET_WP" ->
         IF Number(m.arg) = 1 THEN [f EXCEPT !.ram = <<m.arg>>]
         ELSE IF Number(m.arg) = Len(f.ram) + 1
              THEN [f EXCEPT !.ram = Append(@, m.arg)] ELSE f
    [] m.cmd \notin fc.rejects /\ m.cmd = "WP_MISSION_SAVE" -> [f EXCEPT !.rom = f.ram]
    [] m.cmd \notin fc.rejects /\ m.cmd = "WP_MISSION_LOAD" -> [f EXCEPT !.ram = f.rom]
    [] m.cmd \notin fc.rejects /\ m.cmd = "SET_FW_APPROACH" -> [f EXCEPT !.fwa = @ \cup {m.arg}]
    [] m.cmd \notin fc.rejects /\ m.cmd = "COMMON_SET_SETTING" -> [f EXCEPT !.index = m.arg]
    [] OTHER -> f

FcWaypoint(f, n) == IF n \in DOMAIN f.ram THEN f.ram[n] ELSE MSP_WP(n, 0, 0)

----------------------------------------------------------------------------
(* Messages.                                                               *)

handle_msp(p, m, f) ==
  CASE m.cmd = "SET_WP"          -> got_set_wp(p)
    [] m.cmd = "WP"              -> got_wp(p, m.arg, FcWaypoint(f, m.arg))
    [] m.cmd = "WP_GETINFO"      -> got_wp_getinfo(p, Len(f.ram))
    [] m.cmd = "FW_APPROACH"     -> got_fw_approach(p, m.arg)
    [] m.cmd = "SET_FW_APPROACH" -> got_set_fw_approach(p)
    [] m.cmd = "WP_MISSION_SAVE" -> got_mission_save(p)
    [] m.cmd = "WP_MISSION_LOAD" -> got_mission_load(p)
    [] m.cmd = "COMMON_SET_SETTING"  -> got_set_setting(p)
    [] m.cmd = "COMMON_SETTING_INFO" -> common_setting_info(p)
    [] m.cmd = "EEPROM_WRITE"    -> got_eeprom_write(p)
    [] OTHER                     -> p

(* The status poll is what the default of the error cases asks for.        *)
StatusPoll == CHOOSE c \in StatusCmds : \E i \in DOMAIN PollList : PollList[i] = c

handle_msp_error(p, m) ==
  IF m.cmd \in {"WP_GETINFO", "COMMON_SET_SETTING"} THEN Run(p)
                                                    ELSE Run(Ask(p, StatusPoll, 0))

handle_serial(p, m, f, soon) ==
  LET err == m.cmd \in fc.rejects
      p1  == [p EXCEPT !.e = received(@, m.cmd, err)]
      p2  == IF err THEN handle_msp_error(p1, m) ELSE handle_msp(p1, m, f)
  IN  [p2 EXCEPT !.e = message_handled(@, soon)]

Now == Pair(eng, tr)
Becomes(p) == eng' = p.e /\ tr' = p.t

Answer ==
  /\ eng.wire # << >>
  /\ LET m == Head(eng.wire)
         f == FcDoes(fcm, m)
     IN  /\ \E soon \in BOOLEAN :
              /\ soon => eng.pend < PendMax
              /\ Becomes(handle_serial([Now EXCEPT !.e.wire = Tail(@)], m, f, soon))
         /\ fcm' = f
  /\ UNCHANGED <<fc, env>>

(* A command is lost on its way, or its answer is.                         *)
Lose ==
  /\ eng.wire # << >> /\ env.losses > 0
  /\ fcm' \in {fcm, FcDoes(fcm, Head(eng.wire))}
  /\ eng' = [eng EXCEPT !.wire = Tail(@)]
  /\ env' = [env EXCEPT !.losses = @ - 1]
  /\ UNCHANGED <<tr, fc>>

NextPollFires ==
  /\ eng.pend > 0
  /\ eng' = next_poll([eng EXCEPT !.pend = @ - 1])
  /\ UNCHANGED <<tr, fc, fcm, env>>

----------------------------------------------------------------------------
(* The user.                                                               *)

Polling(m) == m.arg = 0 /\ \E i \in DOMAIN PollList : PollList[i] = m.cmd

(* The user has not heard of the last operation, or it is being finished.  *)
Busy ==
  \/ tr.told = "asked"
  \/ \E i \in DOMAIN eng.mq : ~Polling(eng.mq[i])
  \/ eng.lastmsg # NoMsg /\ ~Polling(eng.lastmsg)

Uses(op) ==
  /\ op \in fc.ops /\ env.user > 0 /\ eng.pend = 0
  /\ Busy => Overlap
  /\ env' = [env EXCEPT !.user = @ - 1]
  /\ UNCHANGED <<fc, fcm>>

UserUpload == Uses("upload") /\ Becomes(upload_mm(Now, {"GETINFO", "SAVE_FWA"}))

(* The menu has this entry for FCs with multi-missions, and those about the*)
(* EEPROM for INAV (mission_eeprom).                                       *)
UserUploadAll ==
  /\ Uses("uploadall") /\ fc.v4
  /\ Becomes(upload_mm(Now, {"GETINFO", "SAVE_FWA", "SET_ACTIVE"}))

UserStore ==
  Uses("store") /\ fc.inav /\ Becomes(upload_mm(Now, {"SAVE_EEPROM", "SET_ACTIVE"}))

(* MBus.svc.upload_mission, which then waits for its callback.             *)
DbusUpload ==
  /\ Uses("dbus") /\ tr.call = "none"
  /\ \E rom \in SUBSET {"SAVE_EEPROM"} :
       Becomes(upload_mm([Now EXCEPT !.t.call = "waiting"],
                         {"CALLBACK", "GETINFO", "SAVE_FWA"} \cup rom))

(* check_mission_clean asks first if there are changes.                    *)
UserDownload ==
  /\ Uses("download")
  /\ Becomes(do_download_mission([Now EXCEPT !.t.told = "asked",
                                             !.t.agreed = TRUE]))

UserRestore ==
  Uses("restore") /\ fc.inav /\ Becomes(Ask(Tell(Now, "asked"), "WP_MISSION_LOAD", 0))

UserEdit ==
  /\ Uses("edit") /\ tr.mission = Mission(1)
  /\ Becomes([Now EXCEPT !.t.mission = Mission(4), !.t.dirty = TRUE,
                         !.t.agreed = FALSE])

FollowMePoint == MSP_WP(WpLast + 2, Item(6, 0), 1)

(* followme_set_wp: nothing is paused and no timer runs.                   *)
FollowMe ==
  /\ Uses("followme") /\ eng.serstate = "POLLER"
  /\ Becomes(Ask([Now EXCEPT !.t.npts = 1, !.t.wpidx = 0,
                             !.t.wps = <<FollowMePoint>>,
                             !.t.wp_flag = {"FOLLOW_ME"}, !.t.told = "nothing"],
                 "SET_WP", FollowMePoint))

----------------------------------------------------------------------------
(* Timers.                                                                 *)

(* Mutants: a waiting caller is forgotten; the poller is not reset.        *)
wp_timeout_uncalled(p) ==
  [Tell(p, "failed") EXCEPT !.e = reset_poller(@, 0, FALSE)]

wp_timeout_silent(p) ==
  Tell(IF Flagged(p, "CALLBACK") THEN upload_callback(p) ELSE p, "failed")

(* The body of start_wp_timer's timeout: wpmgr is left as it is.           *)
wp_timeout(p) ==
  LET p1 == Tell(IF Flagged(p, "CALLBACK") THEN upload_callback(p) ELSE p, "failed")
  IN  [p1 EXCEPT !.e = reset_poller(@, 0, FALSE)]

WpTimerFires ==
  \E i \in DOMAIN tr.timers :
    /\ tr.timers[i] = 0
    /\ Becomes(wp_timeout(
         [Now EXCEPT !.t.timers = SubSeq(@, 1, i - 1) \o SubSeq(@, i + 1, Len(@)),
                     !.t.upltid = @ /\ i < Len(tr.timers)]))
    /\ UNCHANGED <<fc, fcm, env>>

(* The restart of the session after RESTARTINTVL of silence is MspSession's*)
(* matter: here the FC is heard before that.                               *)
Tick ==
  /\ eng.pend = 0 /\ Len(eng.wire) < WireMax
  /\ env.late \/ eng.wire = << >>
  /\ \A i \in DOMAIN tr.timers : tr.timers[i] > 0
  /\ eng.serstate = "POLLER" => eng.rxage + 1 < RestartIntvl
  /\ LET e == [eng EXCEPT !.okage = Older(@), !.rxage = Older(@),
                          !.due = RateLimited]
     IN  eng' = IF TimedOut(e) THEN poll_timeout(e) ELSE e
  /\ tr' = [tr EXCEPT !.timers = [i \in DOMAIN @ |-> @[i] - 1]]
  /\ UNCHANGED <<fc, fcm, env>>

----------------------------------------------------------------------------
InitTransfer ==
  [mission |-> Mission(1), dirty |-> FALSE, agreed |-> FALSE, wps |-> << >>,
   wp_flag |-> {}, npts |-> 0, wpidx |-> 0, last_wp_pts |-> LenRam,
   timers |-> << >>, upltid |-> FALSE, safeindex |-> 0, last_safehome |-> 0,
   call |-> "none", sent |-> << >>, told |-> "nothing"]

(* The poller has just been started.                                       *)
Init ==
  /\ \E w \in Worlds :
       /\ fc = w.fc /\ env = w.env
       /\ tr = [InitTransfer EXCEPT !.mission = Mission(w.mine)]
  /\ eng = next_poll([IdleEngine EXCEPT !.avail = TRUE, !.serstate = "POLLER",
                                        !.requests = PollList,
                                        !.nopause = env.nopause])
  /\ fcm = [ram |-> missonx_to_wps(Mission(2)), rom |-> missonx_to_wps(Mission(3)),
            fwa |-> {}, index |-> 0]

Next ==
  \/ Answer \/ Lose \/ NextPollFires \/ Tick \/ WpTimerFires
  \/ UserUpload \/ UserUploadAll \/ UserStore \/ DbusUpload
  \/ UserDownload \/ UserRestore \/ UserEdit \/ FollowMe

(* Timers fire; what is on the wire is answered or lost.                   *)
Fairness == /\ WF_vars(NextPollFires) /\ WF_vars(Tick) /\ WF_vars(WpTimerFires)
            /\ WF_vars(Answer \/ Lose)

Spec == Init /\ [][Next]_vars /\ Fairness

----------------------------------------------------------------------------
(* Properties.                                                             *)

(* Every variable keeps its type, and upltid names a timer that runs.      *)
TypeOK ==
  /\ tr.upltid => tr.timers # << >>
  /\ eng \in Engine /\ tr \in Transfer /\ fc \in FCKind /\ fcm \in FcState
  /\ env \in Env

UnderWay(c) ==
  \/ eng.lastmsg.cmd = c
  \/ \E i \in DOMAIN eng.mq : eng.mq[i].cmd = c
  \/ \E i \in DOMAIN eng.wire : eng.wire[i].cmd = c

(* Once mwp has said "Mission uploaded" and no waypoint is under way any   *)
(* more, the FC holds the mission that was given to upload_mm, and so does *)
(* its EEPROM if it was to be saved there.                                 *)
UploadFaithful ==
  tr.told \in {"uploaded", "saved"} /\ ~UnderWay("SET_WP") =>
    fcm.ram = tr.sent /\ (tr.told = "saved" => fcm.rom = tr.sent)

(* Once mwp has ticked a download off, it shows the FC's mission; and it   *)
(* says "Fallback safe mission, 0 points" of an FC without a mission only: *)
(* what it had on display is gone by then.                                 *)
DownloadFaithful ==
  /\ tr.told = "downloaded" /\ ~tr.dirty => tr.mission = wps_to_missonx(fcm.ram)
  /\ tr.told = "fallback" => fcm.ram \in {<< >>, Fallback}

(* mwp does not warn "The transfer has probably failed" of an upload that  *)
(* it has reported as complete: by then no waypoint timer runs, neither the*)
(* upload's nor one that an earlier operation has left behind. A download  *)
(* that ends in the fallback does leave its timer.                         *)
FailureIsTrue ==
  [](tr.told # "fallback")
    => [](tr.told \in {"uploaded", "saved"} => tr.timers = << >>)

(* When an upload is over and the poller runs again, the FC has the        *)
(* approach of every LAND of the mission and no other, unless answers come *)
(* late: a late acknowledgement is taken for that of the next approach.    *)
ApproachesFaithful ==
  ~env.late /\ tr.told = "uploaded" /\ eng.serstate = "POLLER" /\ ~Busy =>
    fcm.fwa = {MaxHomes + l : l \in fc.lands}

(* A transfer only pauses the poller: it runs again, however the transfer  *)
(* ends, unless answers come late (an approach's late acknowledgement ends *)
(* the queue early, and nothing is sent any more).                         *)
PollerResumes == []<>(env.late \/ eng.serstate = "POLLER")

(* With no-poller-pause every poll has its turn, during transfers too.     *)
PollsGoOn ==
  \A i \in DOMAIN PollList : []<>(env.nopause => eng.lastpoll = PollList[i])

(* UploadMission returns to its caller on D-Bus.                           *)
CallReturns == tr.call = "waiting" ~> tr.call = "returned"

(* A mission with changes is not replaced unless the user has agreed.      *)
ChangesKept == [][tr.dirty /\ ~tr.agreed => tr'.mission = tr.mission]_vars
=============================================================================
