------------------------------- MODULE Replay -------------------------------
(* The replay of a raw log: mwp-log-replay as a child, sending to a UDP port  *)
(* of mwp's, and what mwp sets aside while it runs (mwp-log_runner.vala); the *)
(* connection it takes the place of, as far as the replay needs it.           *)
EXTENDS Speech

VARIABLES
  child_pid,   \* LogPlay.child_pid
  replayer,    \* the mode: none or raw
  replay_paused,
  ui,          \* replay: its menu entry; stop: stop-replay; button: conbutton
  link,        \* msp: off, live (a flight controller) or replay (the UDP port)
  ro,          \* msp is not to be written to
  log,         \* conf.logarmed, and xlog, its value set aside
  lost,        \* serial_lost is to come
  done         \* complete is to come (Windows: posted to the main loop)

replayVars == <<child_pid, replayer, replay_paused, ui, link, ro, log, lost, done>>

(* The main loop answers the user; it is quitting while the link closes.      *)
Up    == main = "up"
Loops == main \in {"up", "quitting"}

(* A closed channel is reported before the user does anything else.           *)
Settled == ~lost

----------------------------------------------------------------------------
Replays(p) == procs[p].ours /\ procs[p].image = "replay"

(* The channel is shut; its watch reports it (module SerialDevice).           *)
close == lost' = (link # "off")

(* Mutant of set_replay_menus: entries are enabled, and never disabled.       *)
MenusStay(on) == [ui EXCEPT !.replay = @ \/ on]

set_replay_menus(on) == [ui EXCEPT !.replay = on]

(* The table after a pause, or its end.                                       *)
handle_replay_pause(t) ==
  IF child_pid = 0 THEN t
  ELSE IF ~replay_paused THEN suspend(child_pid, t) ELSE resume(child_pid, t)

do_replay_pause ==
  /\ Up /\ Settled /\ replayer # "none"
  /\ Spend("pauses")
  /\ replay_paused' = ~replay_paused
  /\ procs' = handle_replay_pause(procs)
  /\ UNCHANGED <<child_pid, replayer, ui, link, ro, log, lost, done, main, speechVars>>

(* Mutant of stop_replayer: a paused child is killed, not continued.          *)
KillsAsleep(t) == IF child_pid # 0 THEN kill({child_pid}, t) ELSE t

(* The table after stop_replayer: a child that is paused is continued first.  *)
stop_replayer(t) ==
  LET woken == IF replay_paused THEN handle_replay_pause(t) ELSE t
  IN IF child_pid # 0 THEN kill({child_pid}, woken) ELSE woken

stop_replay ==
  /\ Up /\ Settled /\ ui.stop
  /\ procs' = stop_replayer(procs)
  /\ child_pid' = 0
  /\ replay_paused' = FALSE
  /\ UNCHANGED <<replayer, ui, link, ro, log, lost, done, main, speechVars, env>>

(* mwp-log-replay starts, or cannot be started.                               *)
spawn_otx_task ==
  \/ \E p \in Pids : /\ procs[p].state = "free"
                     /\ procs' = run_argv("replay", p, procs)
                     /\ child_pid' = p
                     /\ env' = [env EXCEPT !.replays = @ - 1]
  \/ /\ env.fails > 0
     /\ env' = [env EXCEPT !.replays = @ - 1, !.fails = @ - 1]
     /\ child_pid' = 0 /\ UNCHANGED procs

(* From the menu. Without a UDP port nothing but ro has changed.              *)
run_replay ==
  /\ Up /\ Settled /\ ui.replay /\ env.replays > 0
  /\ ro' = TRUE
  /\ \/ /\ link' = "replay"
        /\ replay_paused' = FALSE
        /\ log' = [armed |-> FALSE, x |-> log.armed]
        /\ replayer' = "raw"
        /\ ui' = [set_replay_menus(FALSE) EXCEPT !.stop = TRUE, !.button = FALSE]
        /\ spawn_otx_task
     \/ /\ env.fails > 0
        /\ env' = [env EXCEPT !.replays = @ - 1, !.fails = @ - 1, !.noudp = TRUE]
        /\ log' = [log EXCEPT !.x = log.armed]
        /\ UNCHANGED <<child_pid, replayer, replay_paused, ui, link, procs>>
  /\ UNCHANGED <<lost, done, main, speechVars>>

----------------------------------------------------------------------------
(* Mutant of cleanup_replay: the link stays read-only.                        *)
StaysReadOnly ==
  IF replayer = "none" THEN UNCHANGED <<ui, ro, log, replay_paused, lost, audio>>
  ELSE /\ close
       /\ UNCHANGED ro
       /\ ui' = [set_replay_menus(TRUE) EXCEPT !.stop = FALSE, !.button = TRUE]
       /\ audio' = (audio /\ ~env.audioarmed)
       /\ log' = [log EXCEPT !.armed = log.x]
       /\ replay_paused' = FALSE

(* Nothing, if a loss of the link has ended the replay before.                *)
cleanup_replay ==
  IF replayer = "none" THEN UNCHANGED <<ui, ro, log, replay_paused, lost, audio>>
  ELSE /\ close
       /\ ro' = FALSE
       /\ ui' = [set_replay_menus(TRUE) EXCEPT !.stop = FALSE, !.button = TRUE]
       /\ audio' = (audio /\ ~env.audioarmed)
       /\ log' = [log EXCEPT !.armed = log.x]
       /\ replay_paused' = FALSE

(* The child has ended: the handler of the signal complete.                   *)
complete == cleanup_replay /\ replayer' = "none" /\ child_pid' = 0

(* Windows: the thread wwait closes its handle, and then posts complete.      *)
waitproc(p) ==
  /\ ~Posix /\ procs[p].state = "ended" /\ main \notin {"gone", "crashed"}
  /\ procs' = close_pid(p)
  /\ done' = (done \/ Replays(p))
  /\ UNCHANGED <<child_pid, replayer, replay_paused, ui, link, ro, log, lost, main, env, speechVars>>

windone ==
  /\ Loops /\ done
  /\ done' = FALSE
  /\ complete
  /\ UNCHANGED <<link, main, procs, env, voice, thread, msgs, helper, talking>>

(* POSIX: the child watch reaps a process and emits complete.                 *)
ChildWatch(p) ==
  /\ Posix /\ Loops /\ procs[p].state = "ended"
  /\ procs' = close_pid(p)
  /\ IF Replays(p) THEN complete
     ELSE UNCHANGED <<child_pid, replayer, replay_paused, ui, ro, log, lost, audio>>
  /\ UNCHANGED <<link, done, main, env, voice, thread, msgs, helper, talking>>

----------------------------------------------------------------------------
(* The connection.                                                            *)

(* connect_serial, open_async and serial_complete_setup.                      *)
connect ==
  /\ Up /\ Settled /\ ui.button /\ link = "off"
  /\ Spend("connects")
  /\ link' = "live"
  /\ ui' = set_replay_menus(FALSE)
  /\ UNCHANGED <<child_pid, replayer, replay_paused, ro, log, lost, done, main, procs, speechVars>>

disconnect ==
  /\ Up /\ Settled /\ ui.button /\ link = "live"
  /\ close
  /\ ui' = [ui EXCEPT !.button = FALSE]
  /\ UNCHANGED <<child_pid, replayer, replay_paused, link, ro, log, done, main, procs, env, speechVars>>

(* serial_lost, delivered: the link is cleared up.                            *)
close_serial ==
  /\ Loops /\ lost
  /\ lost' = FALSE /\ link' = "off"
  /\ audio' = IF replayer = "none" THEN audio /\ ~env.audioarmed ELSE audio
  /\ replayer' = "none"
  /\ ui' = [set_replay_menus(TRUE) EXCEPT !.button = TRUE]
  /\ UNCHANGED <<child_pid, replay_paused, ro, log, done, main, procs, env,
                 voice, thread, msgs, helper, talking>>

(* The window is closed: an open link first, then final_clean. SIGINT and     *)
(* SIGTERM go straight to it.                                                 *)
close_request ==
  /\ Up /\ Settled
  /\ IF link = "off" THEN final_clean /\ UNCHANGED lost
     ELSE main' = "quitting" /\ close /\ UNCHANGED msgs
  /\ UNCHANGED <<child_pid, replayer, replay_paused, ui, link, ro, log, done, procs, env,
                 voice, thread, helper, talking, audio>>

closed ==
  /\ main = "quitting" /\ link = "off"
  /\ final_clean
  /\ UNCHANGED <<replayVars, procs, env, voice, thread, helper, talking, audio>>

on_exit ==
  /\ Loops
  /\ final_clean
  /\ UNCHANGED <<replayVars, procs, env, voice, thread, helper, talking, audio>>
=============================================================================
