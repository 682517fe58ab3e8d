----------------------------- MODULE MCPlayback -----------------------------
(* Worlds for the run of Playback: each backend, and replays beside a helper. *)
EXTENDS Playback

Base == [os |-> "posix", ntdll |-> TRUE, built |-> {"espeak", "speechd", "flite"},
         speech_api |-> "none", exvox |-> FALSE, audioarmed |-> FALSE, lib |-> "ok",
         says |-> 0, ends |-> 0, others |-> 0, plots |-> 0,
         replays |-> 0, pauses |-> 0, fails |-> 0, connects |-> 0, noudp |-> FALSE]

Backends == {[Base EXCEPT !.speech_api = a, !.lib = l, !.says = 3] :
               a \in {"espeak", "speechd", "flite"},
               l \in {"missing", "failed", "partial", "mute", "ok"}}
Helpers  == {[Base EXCEPT !.exvox = TRUE, !.says = 3, !.ends = 1, !.fails = 1, !.others = 1]}
Replays2 == {[Base EXCEPT !.os = o, !.ntdll = d, !.audioarmed = TRUE, !.replays = 2, !.pauses = 2,
                          !.fails = 1, !.ends = 1, !.connects = 1, !.plots = 1, !.others = 1] :
               o \in {"posix", "windows"}, d \in BOOLEAN}
Both     == {[Base EXCEPT !.exvox = TRUE, !.says = 1, !.replays = 1, !.pauses = 1, !.ends = 1,
                          !.others = 1]}
NotBuilt == {[Base EXCEPT !.built = {}, !.speech_api = "flite", !.says = 1]}

Some == Backends \cup Helpers \cup Replays2 \cup Both \cup NotBuilt
=============================================================================
