------------------------------ MODULE Processes ------------------------------
(* ProcessLauncher: the programs mwp starts, signals and looks up by name, on *)
(* a POSIX host (posixspawn.vala) and on Windows (winspawn.vala, winproc.c,   *)
(* win_suspend_resume.c). The host's table is a function from process numbers *)
(* to processes; an operation gives the table it leaves. A number is used     *)
(* again once its process is freed: reaped, or its last handle closed.        *)
EXTENDS Integers, FiniteSets

CONSTANT Pids        \* external: the numbers the host hands out

ASSUME PidsAssumption == Pids \subseteq Nat \ {0}

VARIABLES
  env,     \* external: the host, and what may still happen on it
  procs    \* external: the host's processes

Images == {"none", "voice", "replay", "gnuplot", "other"}
States == {"free", "running", "stopped", "ended"}

Free == [image |-> "none", ours |-> FALSE, state |-> "free", dying |-> FALSE]

Posix == env.os # "windows"
Alive(t, p) == t[p].state \in {"running", "stopped"}

(* What happens on the host a bounded number of times.                        *)
Spend(what) == env[what] > 0 /\ env' = [env EXCEPT ![what] = @ - 1]

----------------------------------------------------------------------------
(* run_argv, run_command: the program in the process p the host gave it.      *)
Started(image, ours) == [image |-> image, ours |-> ours, state |-> "running", dying |-> FALSE]

create_win_process(image, p, t) == [t EXCEPT ![p] = Started(image, TRUE)]
spawn_async(image, p, t)        == [t EXCEPT ![p] = Started(image, TRUE)]
run_argv(image, p, t) ==
  IF Posix THEN spawn_async(image, p, t) ELSE create_win_process(image, p, t)

(* TerminateProcess: at once. mwp's own processes keep their number while the *)
(* thread wwait holds a handle.                                               *)
proc_kill(ps, t) ==
  [p \in Pids |-> IF p \notin ps \/ ~Alive(t, p) THEN t[p]
                  ELSE IF t[p].ours THEN [t[p] EXCEPT !.state = "ended"] ELSE Free]

(* TERM and QUIT: a stopped process gets them once it is continued.           *)
signal(ps, t) ==
  [p \in Pids |-> IF p \in ps /\ Alive(t, p) THEN [t[p] EXCEPT !.dying = TRUE] ELSE t[p]]

kill(ps, t) == IF Posix THEN signal(ps, t) ELSE proc_kill(ps, t)

Moves(p, from, to, t) == IF t[p].state = from THEN [t EXCEPT ![p].state = to] ELSE t

(* NtSuspendProcess and NtResumeProcess are looked up in NTDLL, and may not   *)
(* be there.                                                                  *)
InitializeExports == env.ntdll
winsuspend(p, t)  == IF InitializeExports THEN Moves(p, "running", "stopped", t) ELSE t
winresume(p, t)   == IF InitializeExports THEN Moves(p, "stopped", "running", t) ELSE t

suspend(p, t) == IF Posix THEN Moves(p, "running", "stopped", t) ELSE winsuspend(p, t)
resume(p, t)  == IF Posix THEN Moves(p, "stopped", "running", t) ELSE winresume(p, t)

(* By the name of the program alone: the check of the owner on Linux opens    *)
(* "<pid>uid_map", which is never there, and Windows has none. (FreeBSD and   *)
(* macOS list the processes of mwp's user.)                                   *)
pid_from_name(image) == {p \in Pids : procs[p].image = image}

terminate_plots == procs' = kill(pid_from_name("gnuplot"), procs)

(* The table without the process p, which has ended.                          *)
close_pid(p) == [procs EXCEPT ![p] = Free]

----------------------------------------------------------------------------
(* The host. *)

(* A signal takes effect, or a program of mwp's ends by itself.               *)
Gone(p) == procs' = [procs EXCEPT ![p] = IF @.ours THEN [@ EXCEPT !.state = "ended"] ELSE Free]
Dies(p) == procs[p].state = "running" /\ procs[p].dying /\ Gone(p) /\ UNCHANGED env
Ends(p) == procs[p].state = "running" /\ procs[p].ours /\ Spend("ends") /\ Gone(p)

(* Somebody else's program gets a free number.                                *)
Appears(p) ==
  /\ procs[p].state = "free"
  /\ Spend("others")
  /\ \E image \in {"gnuplot", "other"} :
       procs' = [procs EXCEPT ![p] = Started(image, FALSE)]

Process == [image : Images, ours : BOOLEAN, state : States, dying : BOOLEAN]
=============================================================================
