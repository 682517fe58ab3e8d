------------------------------- MODULE Speech -------------------------------
(* Speech: the backends of speech_wrapper.c, chosen and loaded at start; the  *)
(* audio thread of mwp-tts.vala with its queue of announcements; the voice    *)
(* helper that takes a backend's place; and the end of mwp, which joins the   *)
(* thread. The main loop, the thread and the speech daemon's callbacks run    *)
(* concurrently.                                                              *)
EXTENDS Processes, Sequences

CONSTANTS
  Worlds,      \* external: what is installed, and what happens
  QueueMax,    \* message clears a longer queue; 10 in the source
  PipeMax      \* external: what a pipe holds, in announcements

VARIABLES
  main,        \* the main loop: starting, up, quitting, joining, gone or crashed
  voice,       \* speech_wrapper's pointer _speech_say, and SPEAKER_API si
  thread,      \* the audio thread: where it is
  msgs,        \* its AsyncQueue
  helper,      \* efdin, epid; pipe (external): what the helper has yet to read
  talking,     \* external: announcements whose end the daemon has yet to report
  audio        \* audio_cb is active

speechVars == <<voice, thread, msgs, helper, talking, audio>>

World == [os : {"posix", "windows"}, ntdll : BOOLEAN,
          built : SUBSET {"espeak", "speechd", "flite"},
          speech_api : {"none", "espeak", "speechd", "flite"},
          exvox : BOOLEAN, audioarmed : BOOLEAN, lib : {"missing", "failed", "partial", "mute", "ok"},
          says : Nat, ends : Nat, others : Nat, plots : Nat,
          replays : Nat, pauses : Nat, fails : Nat, connects : Nat, noudp : BOOLEAN]

ASSUME SpeechAssumption ==
  /\ Worlds \subseteq World
  /\ QueueMax \in Nat /\ PipeMax \in Nat \ {0}

----------------------------------------------------------------------------
(* The backends. lib is how the chosen library turns out: missing; failed, it *)
(* does not start (no audio, no daemon, no voice); partial, symbols are       *)
(* missing; mute, no end of speech is reported; ok.                           *)
API_NONE == 0
API_ESPEAK == 1
API_SPEECHD == 2
API_FLITE == 3
RATE == 22050     \* external: what espeak_Initialize returns when it works
SPEAKERS == 0 .. 4

get_speech_api_mask == env.built

spapi == IF env.exvox \/ env.speech_api \notin get_speech_api_mask THEN "none" ELSE env.speech_api

m_module_build_path == env.lib # "missing"     \* and g_module_open opens it

ep_init == CASE ~m_module_build_path -> API_NONE
             [] env.lib = "failed"  -> -1
             [] env.lib = "partial" -> RATE
             [] OTHER -> API_ESPEAK
sd_init == IF m_module_build_path /\ env.lib \notin {"failed", "partial"} THEN API_SPEECHD ELSE API_NONE
fl_init == IF m_module_build_path /\ env.lib \notin {"failed", "partial"} THEN API_FLITE ELSE API_NONE
ss_init == 0

(* The pointers _speech_init and _speech_say that each api selects.           *)
speech_set_api(api) ==
  CASE api = "espeak"  -> [init |-> ep_init, say |-> "ep_say"]
    [] api = "speechd" -> [init |-> sd_init, say |-> "sd_say"]
    [] api = "flite"   -> [init |-> fl_init, say |-> "fl_say"]
    [] OTHER           -> [init |-> ss_init, say |-> "ss_say"]

speech_init(api) ==
  LET f == speech_set_api(api)
  IN [si |-> f.init, say |-> IF f.init = API_NONE THEN "ss_say" ELSE f.say]

(* The symbols the say function calls were all found.                         *)
Ready == CASE voice.say = "ep_say" -> ep_init = API_ESPEAK
           [] voice.say = "sd_say" -> sd_init = API_SPEECHD
           [] voice.say = "fl_say" -> fl_init = API_FLITE
           [] OTHER -> TRUE

----------------------------------------------------------------------------
(* The queue. *)

Vox == {"HEADING", "RANGE_BRG", "GPS_CRIT", "AUDIO_TEST", "DONE"}

message(c, urgent, q) ==
  LET kept == IF Len(q) > QueueMax THEN << >> ELSE q
  IN IF urgent THEN <<c>> \o kept ELSE Append(kept, c)

(* The timer's announcements, a warning, the test in the preferences.         *)
announce == audio /\ msgs' = message("RANGE_BRG", FALSE, message("HEADING", FALSE, msgs))
gps_crit == audio /\ msgs' = message("GPS_CRIT", TRUE, msgs)
say      == msgs' = message("AUDIO_TEST", FALSE, msgs)

----------------------------------------------------------------------------
(* The audio thread. *)

HelperReads == Alive(procs, helper.epid) /\ procs[helper.epid].image = "voice"

(* DONE: the pipe is closed and the helper killed.                            *)
finish ==
  /\ helper' = [helper EXCEPT !.efdin = -1, !.epid = -1]
  /\ procs' = IF helper.epid > 0 THEN kill({helper.epid}, procs) ELSE procs

(* An announcement may turn out to have nothing to say.                       *)
Pops ==
  /\ thread = "pop" /\ msgs # << >>
  /\ msgs' = Tail(msgs)
  /\ IF Head(msgs) = "DONE"
     THEN finish /\ thread' = "over"
     ELSE thread' \in {"pop", "say"} /\ UNCHANGED <<helper, procs>>
  /\ UNCHANGED <<main, voice, talking, audio, env>>

(* A write to the pipe waits while it is full and somebody has its other end. *)
Writes ==
  /\ thread = "say" /\ helper.efdin # -1
  /\ IF HelperReads
     THEN helper.pipe < PipeMax /\ helper' = [helper EXCEPT !.pipe = @ + 1]
     ELSE UNCHANGED helper
  /\ thread' = "pop"
  /\ UNCHANGED <<main, voice, msgs, talking, audio, procs, env>>

(* Through pointers that were never set, the call ends mwp.                   *)
Speaks(f, then) ==
  /\ thread = "say" /\ helper.efdin = -1 /\ voice.say = f
  /\ IF Ready THEN thread' = then /\ UNCHANGED main
              ELSE main' = "crashed" /\ UNCHANGED thread

ss_say == Speaks("ss_say", "pop") /\ UNCHANGED talking
ep_say == Speaks("ep_say", "pop") /\ UNCHANGED talking
fl_say == Speaks("fl_say", "pop") /\ UNCHANGED talking

(* spd_say, which may fail, and then g_cond_wait: for a signal that may have  *)
(* been given in between, or never is. The wait may also end by itself.        *)
sd_say ==
  \/ /\ Speaks("sd_say", "said")
     /\ IF env.lib = "ok" THEN talking' \in {talking, talking + 1} ELSE UNCHANGED talking
  \/ thread = "said" /\ thread' = "waiting" /\ UNCHANGED <<main, talking>>

Says ==
  /\ ss_say \/ ep_say \/ fl_say \/ sd_say
  /\ UNCHANGED <<voice, msgs, helper, audio, procs, env>>

EndsEarly ==
  /\ thread = "waiting" /\ thread' = "pop"
  /\ UNCHANGED <<main, voice, msgs, helper, talking, audio, procs, env>>

(* On a thread of the daemon's library, which does not take s_mutex.          *)
end_of_speech ==
  /\ talking > 0 /\ talking' = talking - 1
  /\ thread' = IF thread = "waiting" THEN "pop" ELSE thread
  /\ UNCHANGED <<main, voice, msgs, helper, audio, procs, env>>

(* The helper reads what was written.                                         *)
Reads ==
  /\ helper.epid > 0 /\ HelperReads /\ helper.pipe > 0
  /\ helper' = [helper EXCEPT !.pipe = @ - 1]
  /\ UNCHANGED <<main, voice, thread, msgs, talking, audio, procs, env>>

----------------------------------------------------------------------------
(* start_audio and audio_close, on the main thread. *)

NoHelper == [efdin |-> -1, epid |-> -1, pipe |-> 0]

(* The voice helper, or a backend. SPEAKERS is read at si for the log: beyond *)
(* its ends, mwp may go on or end; so it does with a voice that is not there. *)
audio_init ==
  IF env.exvox
  THEN /\ voice' = [si |-> 0, say |-> "ss_say"]
       /\ \/ \E p \in Pids : /\ procs[p].state = "free"
                             /\ procs' = run_argv("voice", p, procs)
                             /\ helper' = [NoHelper EXCEPT !.efdin = 1, !.epid = p]
             /\ UNCHANGED env
          \/ Spend("fails") /\ UNCHANGED <<procs, helper>>
       /\ main' = "up"
  ELSE /\ voice' = speech_init(spapi)
       /\ main' \in IF voice'.si \notin SPEAKERS THEN {"up", "crashed"}
                    ELSE IF spapi = "flite" /\ env.lib = "failed" THEN {"crashed"}
                    ELSE {"up"}
       /\ UNCHANGED <<procs, helper, env>>

start_audio ==
  /\ main = "starting"
  /\ audio_init
  /\ thread' = "pop"
  /\ UNCHANGED <<msgs, talking, audio>>

(* Mutant of audio_close: the queue is cleared of DONE too.                   *)
ClearsLast == msgs' = << >>

audio_close == msgs' = message("DONE", FALSE, << >>)

(* final_clean begins: the timer is off, the thread is told, and joined.      *)
final_clean == main' = "joining" /\ audio_close

(* The thread is joined, a helper that is left is killed, mwp ends.           *)
Joined ==
  /\ main = "joining" /\ thread = "over"
  /\ main' = "gone"
  /\ procs' = IF helper.epid > 0 THEN kill({helper.epid}, procs) ELSE procs
  /\ UNCHANGED <<voice, thread, msgs, helper, talking, audio, env>>

(* The thread waits for the end of an announcement nobody will report.        *)
WaitsInVain == thread = "waiting" /\ talking = 0
=============================================================================
