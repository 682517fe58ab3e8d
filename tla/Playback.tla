------------------------------ MODULE Playback ------------------------------
(* Speech, the replay of raw logs, and the programs both start, in one mwp:   *)
(* one main loop, the audio thread, the child's and the helper's processes.   *)
EXTENDS Replay

vars == <<main, procs, env, speechVars, replayVars>>

Init ==
  /\ env \in Worlds
  /\ procs = [p \in Pids |-> Free]
  /\ main = "starting"
  /\ voice = [si |-> 0, say |-> "ss_say"] /\ thread = "none"
  /\ msgs = << >> /\ helper = NoHelper /\ talking = 0 /\ audio = TRUE
  /\ child_pid = 0 /\ replayer = "none" /\ replay_paused = FALSE
  /\ ui = [replay |-> TRUE, stop |-> FALSE, button |-> TRUE]
  /\ link = "off" /\ ro = FALSE /\ log = [armed |-> TRUE, x |-> FALSE]
  /\ lost = FALSE /\ done = FALSE

Starts == start_audio /\ UNCHANGED replayVars

(* The timer does not speak while a replay is paused.                         *)
Announces ==
  /\ Up /\ Spend("says")
  /\ (announce /\ ~replay_paused) \/ gps_crit \/ say
  /\ UNCHANGED <<main, procs, replayVars, voice, thread, helper, talking, audio>>

(* The check button, or an arming craft.                                      *)
Toggles ==
  /\ Up /\ audio' = ~audio
  /\ UNCHANGED <<main, procs, env, replayVars, voice, thread, msgs, helper, talking>>

(* A line-of-sight or terrain analysis clears the plots away.                 *)
Plots ==
  /\ Up /\ Spend("plots") /\ terminate_plots
  /\ UNCHANGED <<main, replayVars, speechVars>>

Lives == main \notin {"gone", "crashed"}

AudioThread == Lives /\ (Pops \/ Writes \/ Says) /\ UNCHANGED replayVars

Callback == Lives /\ end_of_speech /\ UNCHANGED replayVars

Wakes == Lives /\ EndsEarly /\ UNCHANGED replayVars

HelperSide == Reads /\ UNCHANGED replayVars

Exits == Joined /\ UNCHANGED replayVars

Reaps == \E p \in Pids : ChildWatch(p) \/ waitproc(p)

User == run_replay \/ do_replay_pause \/ stop_replay \/ connect \/ disconnect
        \/ close_request \/ on_exit \/ Announces \/ Toggles \/ Plots

Loop == Starts \/ Reaps \/ windone \/ close_serial \/ closed \/ Exits

Die  == \E p \in Pids : Dies(p) /\ UNCHANGED <<main, speechVars, replayVars>>

Host == \E p \in Pids : (Ends(p) \/ Appears(p)) /\ UNCHANGED <<main, speechVars, replayVars>>

(* mwp is gone; what it started may live on.                                  *)
Ended == main \in {"gone", "crashed"} /\ UNCHANGED vars

Next == User \/ Loop \/ AudioThread \/ Callback \/ Wakes \/ HelperSide \/ Die \/ Host \/ Ended

(* What mwp's own threads do, what a signal does; and a helper that reads     *)
(* what it is sent, a daemon that reports what it has said.                   *)
Fairness ==
  /\ WF_vars(Starts) /\ WF_vars(Reaps) /\ WF_vars(windone)
  /\ WF_vars(close_serial) /\ WF_vars(closed) /\ WF_vars(Exits)
  /\ WF_vars(AudioThread) /\ WF_vars(Callback) /\ WF_vars(HelperSide) /\ WF_vars(Die)

Spec == Init /\ [][Next]_vars /\ Fairness

----------------------------------------------------------------------------
(* Every variable has its type.                                               *)
TypeOK ==
  /\ env \in World
  /\ procs \in [Pids -> Process]
  /\ main \in {"starting", "up", "quitting", "joining", "gone", "crashed"}
  /\ voice \in [si : Int, say : {"ss_say", "ep_say", "sd_say", "fl_say"}]
  /\ thread \in {"none", "pop", "say", "said", "waiting", "over"}
  /\ msgs \in Seq(Vox)
  /\ helper \in [efdin : {-1, 1}, epid : Pids \cup {-1}, pipe : 0 .. PipeMax]
  /\ talking \in Nat /\ audio \in BOOLEAN
  /\ child_pid \in Pids \cup {0} /\ replayer \in {"none", "raw"}
  /\ replay_paused \in BOOLEAN /\ ui \in [replay : BOOLEAN, stop : BOOLEAN, button : BOOLEAN]
  /\ link \in {"off", "live", "replay"} /\ ro \in BOOLEAN
  /\ log \in [armed : BOOLEAN, x : BOOLEAN] /\ lost \in BOOLEAN /\ done \in BOOLEAN

(* Stop and Pause reach the replay: until mwp quits, every replay process it  *)
(* has not killed is the one that child_pid names; on POSIX child_pid names   *)
(* no other process, after any number of replays; and the child is stopped    *)
(* exactly when mwp shows the replay as paused.                               *)
ChildInHand ==
  /\ main = "up" =>
       \A p \in Pids : Replays(p) /\ Alive(procs, p) /\ ~procs[p].dying => child_pid = p
  /\ Posix /\ child_pid # 0 => Replays(child_pid)
  /\ child_pid # 0 /\ (Posix \/ env.ntdll) /\ Replays(child_pid) /\ Alive(procs, child_pid) =>
       (replay_paused <=> procs[child_pid].state = "stopped")

(* Outside a replay nothing of it is left: the next connection can be written *)
(* to and is logged as configured (not after a UDP port could not be had).    *)
(* When mwp has ended in order, its voice helper is not left running.         *)
NothingLeftBehind ==
  /\ main = "up" /\ replayer = "none" /\ ~env.noudp => ~ro /\ log.armed /\ ~ui.stop
  /\ main = "gone" =>
       \A p \in Pids : procs[p].image = "voice" /\ Alive(procs, p) => procs[p].dying

(* The end of mwp joins the audio thread: it comes, unless the thread waits   *)
(* for the end of an announcement that is reported too early or never.        *)
ExitCompletes == main = "joining" ~> (main \in {"gone", "crashed"} \/ WaitsInVain)

Restored == replayer = "none" /\ ui.replay /\ ui.button /\ ~ui.stop

(* A replay that was stopped, paused or not, or whose child has ended, is     *)
(* over: its menu entry and the button are back.                              *)
ReplayEnds ==
  (\E p \in Pids : /\ Replays(p) /\ main = "up"
                   /\ procs[p].state = "ended" \/ procs[p].dying)
    ~> (Restored \/ main # "up")
=============================================================================
