----------------------------- MODULE SerialDevice -----------------------------
(* MWSerial as mwp's main connection: the tasks that open and close it, the   *)
(* watch that notices its loss, the writer thread of each session and its     *)
(* queue, and the reconnection after a reboot; the port is one of Ports.      *)
(*                                                                            *)
(* The main loop, the Task's thread and the writers run concurrently; a step  *)
(* is what one of them does between two accesses to what they share. A buffer *)
(* is its number in the order of write's calls; writes are whole.             *)
EXTENDS Ports

CONSTANTS Worlds     \* external: what is done and what fails, by name

VARIABLES
  d,        \* the device: available, io_chan, sq (its session), lasterr, devname;
            \* button: conbutton is sensitive; dead (external): port or peer is gone
  queues,   \* the AsyncQueue of each session
  thr,      \* the writer thread of each session: where it is, its queue, its item
  task,     \* open_async or close_async, and the step it is at
  want,     \* try_reopen: the name it waits for; "soon" before it is called
  stalled,  \* external: the port takes no data
  count,    \* the calls of write that were not refused
  wire,     \* what was written: the buffer, by which thread, in which session
  env       \* external: the world and what may still happen in it

devVars == <<d, queues, thr, task, want, stalled, count, wire>>
vars    == <<portVars, devVars, env>>

Posix == os # "windows"
n     == Len(thr)        \* the sessions so far

(* again: errno may be EAGAIN when the device is lost, a leftover of whatever *)
(* call the main loop made last.                                              *)
World == [os : Systems, there : SUBSET ToSet(Names),
          moving : SUBSET ToSet(Names), moves : Nat, selects : Nat,
          sessions : Nat, writes : Nat, stalls : Nat, errors : Nat, reboots : Nat,
          badspeed : BOOLEAN, again : BOOLEAN]

ASSUME DeviceAssumption ==
  /\ \A w \in DOMAIN Worlds : Worlds[w] \in World
  /\ \A w \in DOMAIN Worlds :
       Worlds[w].os = "linux" => ToSet(Saved) \cap (Worlds[w].there \cup Worlds[w].moving) = {}

Spend(what) == env[what] > 0 /\ env' = [env EXCEPT ![what] = @ - 1]

Message == [m : Nat, urgent : BOOLEAN]
END     == [m |-> 0, urgent |-> FALSE]      \* SQI with len 0

(* A saved URI is always there.                                               *)
Reachable(p) == p \in plugged \/ (p \in DOMAIN Kind /\ Kind[p] = "uri")

----------------------------------------------------------------------------
(* The calls that may fail (rserial.c, btdev.c). A descriptor is 1, or -1.    *)

(* The host's serial ports take any speed, or none that is not a constant.    *)
rate_to_constant == IF env.badspeed THEN 0 ELSE 1
set_fd_speed     == IF rate_to_constant = 0 THEN -1 ELSE 0

open_tty(p)     == IF Reachable(p) /\ set_fd_speed # -1 THEN 1 ELSE -1
open_windows(p) == IF Reachable(p) THEN 1 ELSE -1
open_serial(p)  == IF Posix THEN open_tty(p) ELSE open_windows(p)

(* Bluetooth sockets are there on Linux and FreeBSD.                          *)
connect_socket(p)    == IF Reachable(p) THEN 0 ELSE -1
connect_bt_device(p) ==
  IF os \in {"linux", "bsd"} /\ connect_socket(p) = 0 THEN 1 ELSE -1

open_device(p) == IF p \in DOMAIN Kind /\ Kind[p] = "bt" THEN connect_bt_device(p) ELSE open_serial(p)

----------------------------------------------------------------------------
(* Opening.                                                                   *)

Begins(p, button) ==
  /\ task = "none" /\ ~d.available /\ n < env.sessions /\ p # ""
  /\ task' = "open" /\ d' = [d EXCEPT !.devname = p, !.button = button]

UserConnects ==
  /\ d.button /\ Begins(sel, FALSE)
  /\ UNCHANGED <<portVars, queues, thr, want, stalled, count, wire, env>>

(* A writer that retries for ever a write its session did not live to see.    *)
Spins(s) == Posix /\ thr[s].pc = "write" /\ d.lasterr = "again"

(* A writer has left its last session, if it does, long before the next is    *)
(* opened: it takes 100 us, a reconnection seconds.                           *)
Prompt ==
  \A s \in 1 .. n : \/ thr[s].pc \in {"none", "ended"} \/ Spins(s)
                    \/ thr[s].pc = "pop" /\ queues[thr[s].q] = << >>

open_w ==
  /\ task = "open" /\ Prompt
  /\ IF open_device(d.devname) = 1
     THEN /\ d' = [d EXCEPT !.available = TRUE, !.dead = FALSE]
          /\ thr' = Append(thr, [pc |-> "none", q |-> 0, item |-> END])
          /\ queues' = Append(queues, << >>)
          /\ task' = "thread"
     ELSE /\ d' = [d EXCEPT !.lasterr = "other", !.button = TRUE]
          /\ task' = "none"
          /\ UNCHANGED <<thr, queues>>
  /\ UNCHANGED <<portVars, want, stalled, count, wire, env>>

start_writer_thread ==
  /\ task = "thread" /\ Prompt
  /\ d' = [d EXCEPT !.sq = n]
  /\ thr' = [thr EXCEPT ![n] = [@ EXCEPT !.pc = "pop", !.q = n]]
  /\ task' = "opened"
  /\ UNCHANGED <<portVars, queues, want, stalled, count, wire, env>>

setup_reader ==
  /\ task = "opened"
  /\ d' = [d EXCEPT !.chan = "open", !.button = TRUE]
  /\ task' = "none"
  /\ UNCHANGED <<portVars, queues, thr, want, stalled, count, wire, env>>

----------------------------------------------------------------------------
(* Writing. The callers of write ask for available first.                     *)

(* Mutant: an urgent message takes the place of those that wait.              *)
UrgentOnly(u) ==
  LET sqi == [m |-> count + 1, urgent |-> u]
  IN  /\ d.available /\ d.chan # "none" /\ d.sq # 0 /\ Spend("writes")
      /\ count' = count + 1
      /\ queues' = [queues EXCEPT ![d.sq] = IF u THEN <<sqi>> ELSE Append(@, sqi)]
      /\ UNCHANGED <<portVars, d, thr, task, want, stalled, wire>>

write(u) ==
  LET sqi == [m |-> count + 1, urgent |-> u]
  IN  /\ d.available /\ d.chan # "none" /\ d.sq # 0 /\ Spend("writes")
      /\ count' = count + 1
      /\ queues' = [queues EXCEPT ![d.sq] = IF u THEN <<sqi>> \o @ ELSE Append(@, sqi)]
      /\ UNCHANGED <<portVars, d, thr, task, want, stalled, wire>>

(* The thread asks its field sq for its next item: another session's queue,   *)
(* if there is one by then. A null sq ends the program (only Spins gets here).*)
Wrote(s) == thr' = [thr EXCEPT ![s] = [@ EXCEPT !.pc = IF d.sq = 0 THEN "crashed" ELSE "pop",
                                                !.q = d.sq]]

pop(s) ==
  /\ thr[s].pc = "pop" /\ queues[thr[s].q] # << >>
  /\ LET sqi == Head(queues[thr[s].q])
     IN  thr' = [thr EXCEPT ![s] = [@ EXCEPT !.pc = IF sqi = END THEN "drain" ELSE "write",
                                             !.item = sqi]]
  /\ queues' = [queues EXCEPT ![thr[s].q] = Tail(@)]
  /\ UNCHANGED <<portVars, d, task, want, stalled, count, wire, env>>

(* write_serial, by what comes of it.                                         *)
GoesOut(s) == wire' = Append(wire, [m |-> thr[s].item.m, urgent |-> thr[s].item.urgent,
                                    by |-> s, in |-> n])
Fails(s)   == thr' = [thr EXCEPT ![s].pc = "drain"]
Sound      == d.chan # "shut" /\ ~d.dead

(* Mutant: the retry of what was written.                                     *)
WriteAgain(s) ==
  /\ thr[s].pc = "write" /\ d.available /\ Sound /\ ~stalled
  /\ GoesOut(s) /\ (Wrote(s) \/ UNCHANGED thr)
  /\ UNCHANGED <<portVars, d, queues, task, want, stalled, count, env>>

WriteOk(s) ==
  /\ thr[s].pc = "write" /\ d.available /\ Sound /\ ~stalled
  /\ GoesOut(s) /\ Wrote(s)
  /\ UNCHANGED <<portVars, d, queues, task, want, stalled, count, env>>

(* EAGAIN: the thread tries again. Windows waits in the call.                 *)
WriteStalls(s) ==
  /\ thr[s].pc = "write" /\ d.available /\ Sound /\ stalled
  /\ Posix /\ d.lasterr # "again"
  /\ d' = [d EXCEPT !.lasterr = "again"]
  /\ UNCHANGED <<portVars, queues, thr, task, want, stalled, count, wire, env>>

WriteError(s) ==
  /\ thr[s].pc = "write" /\ d.available
  /\ \/ ~Sound /\ UNCHANGED env
     \/ Sound /\ Spend("errors")
  /\ d' = [d EXCEPT !.lasterr = "other"]
  /\ Fails(s)
  /\ UNCHANGED <<portVars, queues, task, want, stalled, count, wire>>

(* _write of a device that is gone: -1, and lasterr is an older call's.       *)
WriteLate(s) ==
  /\ thr[s].pc = "write" /\ ~d.available /\ ~Spins(s)
  /\ Fails(s)
  /\ UNCHANGED <<portVars, d, queues, task, want, stalled, count, wire, env>>

drain(s) ==
  /\ thr[s].pc = "drain"
  /\ queues' = IF d.sq = 0 THEN queues ELSE [queues EXCEPT ![d.sq] = << >>]
  /\ thr' = [thr EXCEPT ![s].pc = "unset"]
  /\ UNCHANGED <<portVars, d, task, want, stalled, count, wire, env>>

unset(s) ==
  /\ thr[s].pc = "unset"
  /\ d' = [d EXCEPT !.sq = 0]
  /\ thr' = [thr EXCEPT ![s].pc = "close"]
  /\ UNCHANGED <<portVars, queues, task, want, stalled, count, wire, env>>

----------------------------------------------------------------------------
(* close, called by the close task and by a writer on its way out.            *)

(* Mutant: the writer is not told.                                            *)
NoEnd == queues' = queues

push_end == queues' = IF d.sq = 0 THEN queues ELSE [queues EXCEPT ![d.sq] = <<END>> \o @]

(* Mutant: the channel is left to the reader.                                 *)
NoShutdown == d' = d

shutdown ==
  d' = IF d.available /\ d.chan = "open"
       THEN [d EXCEPT !.chan = IF Posix THEN "shut" ELSE "cancelled"]
       ELSE d

Closing(s) ==
  \/ /\ thr[s].pc = "close" /\ push_end
     /\ thr' = [thr EXCEPT ![s].pc = "shut"] /\ UNCHANGED d
  \/ /\ thr[s].pc = "shut" /\ shutdown
     /\ thr' = [thr EXCEPT ![s].pc = "ended"] /\ UNCHANGED queues

WriterCloses(s) ==
  /\ Closing(s)
  /\ UNCHANGED <<portVars, task, want, stalled, count, wire, env>>

UserDisconnects ==
  /\ task = "none" /\ d.button /\ d.available /\ d.chan # "none"
  /\ task' = "close" /\ d' = [d EXCEPT !.button = FALSE]
  /\ UNCHANGED <<portVars, queues, thr, want, stalled, count, wire, env>>

close_async ==
  /\ \/ task = "close" /\ push_end /\ task' = "shut" /\ UNCHANGED d
     \/ task = "shut" /\ shutdown /\ task' = "none" /\ UNCHANGED queues
  /\ UNCHANGED <<portVars, thr, want, stalled, count, wire, env>>

(* Mutant: the last error stays.                                              *)
ClearupKeeps == d' = [d EXCEPT !.available = FALSE, !.chan = "none", !.button = TRUE]

(* serial_lost: the watch of the channel, or the end of sfetch.               *)
clearup ==
  \E e \in IF ~Posix THEN {d.lasterr} ELSE {"other"} \cup (IF env.again THEN {"again"} ELSE {}) :
    d' = [d EXCEPT !.available = FALSE, !.chan = "none", !.lasterr = e, !.button = TRUE]

Writing == \E s \in 1 .. n : thr[s].pc = "write"

(* dos.close fails while a write is under way, and then serial_lost is not    *)
(* emitted.                                                                   *)
Lost ==
  /\ d.available
  /\ \/ d.chan = "shut" /\ clearup
     \/ d.chan = "open" /\ d.dead /\ clearup
     \/ d.chan = "cancelled" /\ clearup
     \/ d.chan = "cancelled" /\ Writing /\ d' = [d EXCEPT !.chan = "refused"]
  /\ UNCHANGED <<portVars, queues, thr, task, want, stalled, count, wire, env>>

----------------------------------------------------------------------------
(* A reboot of the FC, or the end of the CLI terminal: the device is closed;  *)
(* after 4 s try_reopen waits for its name to be selected, at 2 s intervals.  *)

Reboot ==
  /\ task = "none" /\ d.available /\ d.chan # "none" /\ want = "" /\ Spend("reboots")
  /\ task' = "close" /\ want' = "soon"
  /\ UNCHANGED <<portVars, d, queues, thr, stalled, count, wire>>

try_reopen ==
  /\ want = "soon" /\ want' = d.devname
  /\ UNCHANGED <<portVars, d, queues, thr, task, stalled, count, wire, env>>

reopen ==
  /\ want \notin {"", "soon"} /\ sel = want
  /\ want' = ""
  /\ IF d.available \/ n = env.sessions THEN UNCHANGED <<d, task>> ELSE Begins(sel, d.button)
  /\ UNCHANGED <<portVars, queues, thr, stalled, count, wire, env>>
----------------------------------------------------------------------------
(* What the host and its user do.                                             *)

Stall == Spend("stalls") /\ stalled' = ~stalled
         /\ UNCHANGED <<portVars, d, queues, thr, task, want, count, wire>>

(* A port takes longer to come back than the main loop to notice its loss.    *)
PortMoves ==
  /\ Spend("moves")
  /\ \E p \in env.moving :
       \/ /\ p \notin plugged /\ ~(d.available /\ p = d.devname)
          /\ DeviceAdded(p, d.available) /\ UNCHANGED d
       \/ p \in plugged /\ DeviceRemoved(p) /\ d' = [d EXCEPT !.dead = @ \/ p = d.devname]
  /\ UNCHANGED <<queues, thr, task, want, stalled, count, wire>>

HangsUp ==
  /\ d.available /\ ~d.dead /\ Spend("errors")
  /\ d' = [d EXCEPT !.dead = TRUE]
  /\ UNCHANGED <<portVars, queues, thr, task, want, stalled, count, wire>>

Selects == Spend("selects") /\ (\E p \in ToSet(combo) : UserSelects(p)) /\ UNCHANGED devVars

Watches == Watch /\ UNCHANGED <<devVars, env>>

Init ==
  \E w \in DOMAIN Worlds :
    /\ env = Worlds[w]
    /\ PortsInit(Worlds[w].os, Worlds[w].there)
    /\ d = [available |-> FALSE, chan |-> "none", sq |-> 0, lasterr |-> "none", devname |-> "",
            dead |-> FALSE, button |-> TRUE]
    /\ queues = << >> /\ thr = << >> /\ wire = << >>
    /\ task = "none" /\ want = "" /\ stalled = FALSE /\ count = 0

Writer(s) ==
  \/ pop(s) \/ WriteOk(s) \/ WriteStalls(s) \/ WriteError(s) \/ WriteLate(s)
  \/ drain(s) \/ unset(s) \/ WriterCloses(s)

Steps ==
  \/ UserConnects \/ open_w \/ start_writer_thread \/ setup_reader
  \/ \E u \in BOOLEAN : write(u)
  \/ \E s \in 1 .. n : Writer(s)
  \/ UserDisconnects \/ close_async \/ Lost
  \/ Reboot \/ try_reopen \/ reopen
  \/ Stall \/ PortMoves \/ HangsUp \/ Selects \/ Watches

Crashed == \E s \in 1 .. n : thr[s].pc = "crashed"
Next    == ~Crashed /\ Steps

WatchSettled == os = "linux" \/ Crashed \/ Watched = Combo

(* Threads and the main loop run; the timers of the watcher and of the        *)
(* reconnection fire.                                                         *)
Fairness ==
  /\ WF_vars(~Crashed /\ (open_w \/ start_writer_thread \/ setup_reader \/ close_async))
  /\ \A s \in 1 .. 2 : WF_vars(~Crashed /\ s <= n /\ Writer(s))
  /\ WF_vars(~Crashed /\ Lost)
  /\ WF_vars(~Crashed /\ (try_reopen \/ reopen))
  /\ []<>WatchSettled \/ []<><<Watches>>_vars      \* WF_vars(Watches)

Spec == Init /\ [][Next]_vars /\ Fairness
----------------------------------------------------------------------------
(* Every variable keeps its type.                                             *)
Device ==
  [available : BOOLEAN, chan : {"none", "open", "shut", "cancelled", "refused"},
   sq : 0 .. n, lasterr : {"none", "again", "other"}, devname : DOMAIN Kind \cup {""},
   dead : BOOLEAN, button : BOOLEAN]
Thread ==
  [pc : {"none", "pop", "write", "drain", "unset", "close", "shut", "ended", "crashed"},
   q : 0 .. n, item : Message]
Written == [m : Nat, urgent : BOOLEAN, by : Nat, in : Nat]
TypeOK ==
  /\ d \in Device /\ thr \in Seq(Thread)
  /\ queues \in Seq(Seq(Message)) /\ Len(queues) = n
  /\ wire \in Seq(Written)
  /\ task \in {"none", "open", "thread", "opened", "close", "shut"}
  /\ want \in DOMAIN Kind \cup {"", "soon"} /\ stalled \in BOOLEAN /\ count \in Nat
  /\ PortsTypeOK /\ env \in World

(* A crash takes a writer that was left spinning by a stale EAGAIN, and so    *)
(* does a message that goes out in another session than its own.              *)
Mixed == Crashed \/ \E i \in DOMAIN wire : wire[i].by # wire[i].in
OneSessionOnly == Mixed => env.again

(* The messages of a queue, without the ENDs among them.                      *)
Messages(q) ==
  LET upto[i \in 0 .. Len(q)] ==
        IF i = 0 THEN << >> ELSE IF q[i] = END THEN upto[i - 1] ELSE Append(upto[i - 1], q[i])
  IN  upto[Len(q)]

(* What write accepts is sent as Link says: at most once, in order, urgent    *)
(* messages first, and while a session is up.                                 *)
Latest     == IF n > 0 /\ thr[n].pc = "none" THEN n - 1 ELSE n
Current(s) == \/ thr[s].pc \in {"write", "crashed"}
              \/ thr[s].pc = "pop" /\ thr[s].q = Latest
Queue      == IF Latest = 0 THEN << >> ELSE Messages(queues[Latest])
Hand       == [s \in {s \in 1 .. n : Current(s)} |->
                 IF thr[s].pc = "write" THEN thr[s].item ELSE END]
Abstract == INSTANCE Link WITH up <- d.available, session <- n, queue <- Queue, hand <- Hand
ImplementsLink == Abstract!Spec

(* A message that waits in an open session is written, unless the session     *)
(* ends or the port takes nothing.                                            *)
Waits(k) ==
  /\ d.chan = "open" /\ n > 0
  /\ \/ \E i \in DOMAIN queues[n] : queues[n][i].m = k
     \/ thr[n].pc = "write" /\ thr[n].item.m = k
EveryWriteGoesOut ==
  \A k \in 1 .. 3 :
    Waits(k) ~> \/ \E i \in DOMAIN wire : wire[i].m = k
                \/ d.chan # "open" \/ stalled \/ Crashed

(* A device that refuses writes, its writer gone, goes down: mwp does not     *)
(* show a connection over which nothing can be sent any more. (A writer that  *)
(* was left spinning may mute the next session, and then it stays mute.)      *)
MuteGoesDown ==
  (d.chan = "open" /\ d.sq = 0 /\ ~env.again) ~> (~d.available \/ d.chan = "refused")

(* Disconnect ends the connection and the writer with it, except on a port    *)
(* that takes no data.                                                        *)
CloseCompletes ==
  (task = "close" /\ ~env.again)
    ~> \/ ~d.available /\ (n = 0 \/ thr[n].pc = "ended")
       \/ d.chan = "refused" \/ stalled

(* The reconnection does not wait for ever for a USB port that has come back, *)
(* if no other port and no user takes its place.                              *)
ReopenEnds ==
  \A p \in {p \in ToSet(Names) : Kind[p] = "usb"} :
    (want = p /\ env.moving = {p} /\ env.selects = 0)
      ~> (want = "" \/ p \notin plugged \/ d.devname # p)
==============================================================================
