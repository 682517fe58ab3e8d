--------------------------- MODULE PlaybackProofs ---------------------------
(* Proofs about Playback: the types; the replay's child is the one that Stop  *)
(* and Pause reach (ChildInHand); and what is set aside for a replay is put   *)
(* back, the voice helper not left running (NothingLeftBehind).               *)
EXTENDS Playback, TLAPS

(* mwp has not been told to end.                                              *)
Runs == main \in {"starting", "up"}

(* A number that is free belongs to no process of mwp's.                      *)
Freed == \A p \in Pids : procs[p].state = "free" => ~procs[p].ours

(* A replay that is over: none is in the table, no end of one is to come.     *)
Over == ~done /\ \A p \in Pids : ~Replays(p)

(* One replay at a time. The menu entry, the connect button and the loss of   *)
(* a link all mean that there is none; nor is there one once its end is       *)
(* posted.                                                                    *)
OneReplay ==
  Runs =>
    /\ \A p, q \in Pids : Replays(p) /\ Replays(q) => p = q
    /\ done => \A p \in Pids : ~Replays(p)
    /\ replayer = "none" => Over
    /\ ui.replay \/ ui.button \/ lost => replayer = "none"

(* A replay that was not stopped is the child; while it lives it is stopped   *)
(* exactly when shown as paused.                                              *)
Child ==
  /\ Runs => \A p \in Pids : Replays(p) /\ Alive(procs, p) /\ ~procs[p].dying => child_pid = p
  /\ Posix /\ child_pid # 0 => Replays(child_pid)
  /\ child_pid # 0 /\ (Posix \/ env.ntdll) /\ Replays(child_pid) /\ Alive(procs, child_pid) =>
       (replay_paused <=> procs[child_pid].state = "stopped")

(* What a replay sets aside: the value that logging is armed with again.      *)
Aside ==
  Runs /\ ~env.noudp =>
    IF replayer = "none" THEN ~ro /\ log.armed /\ ~ui.stop ELSE log.x

(* A voice helper that was not told to end is the one in hand. There is none  *)
(* before mwp has started one, and none when mwp is gone.                     *)
Voice(p) == procs[p].image = "voice" /\ Alive(procs, p) /\ ~procs[p].dying

Helped ==
  /\ \A p \in Pids : Voice(p) => helper.epid = p
  /\ main \in {"starting", "gone"} => \A p \in Pids : ~Voice(p)

(* The inductive invariant.                                                   *)
IInv == TypeOK /\ Freed /\ OneReplay /\ Child /\ Aside /\ Helped

----------------------------------------------------------------------------
(* The host's table, under what mwp does to it. *)

(* The host is what it was, and no UDP port has been refused meanwhile.       *)
SameHost == env'.os = env.os /\ env'.ntdll = env.ntdll /\ env'.noudp = env.noudp

Counters == {"says", "ends", "others", "plots", "replays", "pauses", "fails", "connects"}

(* What happens a bounded number of times changes its counter and no more.    *)
LEMMA Spends ==
  ASSUME env \in World, NEW what \in Counters, Spend(what)
  PROVE  env' \in World /\ SameHost
  <1>1. CASE what = "says" BY <1>1 DEF Spend, World, SameHost
  <1>2. CASE what = "ends" BY <1>2 DEF Spend, World, SameHost
  <1>3. CASE what = "others" BY <1>3 DEF Spend, World, SameHost
  <1>4. CASE what = "plots" BY <1>4 DEF Spend, World, SameHost
  <1>5. CASE what = "replays" BY <1>5 DEF Spend, World, SameHost
  <1>6. CASE what = "pauses" BY <1>6 DEF Spend, World, SameHost
  <1>7. CASE what = "fails" BY <1>7 DEF Spend, World, SameHost
  <1>8. CASE what = "connects" BY <1>8 DEF Spend, World, SameHost
  <1> QED BY <1>1, <1>2, <1>3, <1>4, <1>5, <1>6, <1>7, <1>8 DEF Counters

(* A replay at large: alive, and not told to end.                             *)
AtLarge(p) == Replays(p) /\ Alive(procs, p) /\ ~procs[p].dying

Table == procs \in [Pids -> Process] /\ Freed

(* No process becomes a replay or a voice helper, and none is taken back from *)
(* its end.                                                                   *)
NoneStarts ==
  /\ Table'
  /\ \A p \in Pids : /\ Replays(p)' => Replays(p)
                     /\ AtLarge(p)' => AtLarge(p)
                     /\ Voice(p)' => Voice(p)

(* Moreover no process is stopped or continued, and on POSIX none is gone.    *)
NoneMoves ==
  /\ NoneStarts
  /\ \A p \in Pids : /\ Posix /\ Replays(p) => Replays(p)'
                     /\ Replays(p)' /\ Alive(procs, p)' =>
                          Alive(procs, p) /\ procs'[p].state = procs[p].state

(* No process changes.                                                         *)
LEMMA Untouched ==
  ASSUME Table, UNCHANGED procs
  PROVE  NoneMoves
  BY DEF Table, Freed, NoneMoves, NoneStarts, Replays, AtLarge, Voice, Alive

(* One process, changed to another of the table.                              *)
LEMMA OneMoved ==
  ASSUME procs \in [Pids -> Process], NEW p \in Pids, NEW r \in Process,
         procs' = [procs EXCEPT ![p] = r]
  PROVE  /\ procs' \in [Pids -> Process]
         /\ procs'[p] = r
         /\ \A q \in Pids \ {p} : procs'[q] = procs[q]
  OBVIOUS

(* A free entry of the table belongs to nobody.                                *)
LEMMA FreeIsProcess == Free \in Process /\ ~Free.ours /\ Free.image = "none" /\ Free.state = "free"
  BY DEF Free, Process, Images, States

(* A new process runs.                                                         *)
LEMMA StartedIsProcess ==
  ASSUME NEW image \in Images, NEW ours \in BOOLEAN
  PROVE  /\ Started(image, ours) \in Process
         /\ Started(image, ours).image = image
         /\ Started(image, ours).ours = ours
         /\ Started(image, ours).state = "running"
         /\ Started(image, ours).dying = FALSE
  BY DEF Started, Process, Images, States

(* Each process is as it was, at its end, or gone.                            *)
Fate(p) ==
  \/ procs'[p] = procs[p]
  \/ procs[p].state # "free" /\ procs'[p] = [procs[p] EXCEPT !.dying = TRUE]
  \/ procs'[p] = [procs[p] EXCEPT !.state = "ended"]
  \/ procs'[p] = Free

(* Processes that only end, or come that are not mwp's, leave no replay where  *)
(* there was none.                                                             *)
LEMMA Fates ==
  ASSUME Table, DOMAIN procs' = Pids, procs' = [p \in Pids |-> procs'[p]],
         \A p \in Pids : Fate(p) /\ (Posix /\ procs'[p] = Free => ~procs[p].ours)
  PROVE  NoneMoves
  <1>1. ASSUME NEW p \in Pids
        PROVE  /\ procs'[p] \in Process
               /\ procs'[p].state = "free" => ~procs'[p].ours
               /\ Replays(p)' => Replays(p)
               /\ AtLarge(p)' => AtLarge(p)
               /\ Voice(p)' => Voice(p)
               /\ Posix /\ Replays(p) => Replays(p)'
               /\ Replays(p)' /\ Alive(procs, p)' => Alive(procs, p) /\ procs'[p].state = procs[p].state
    <2>1. procs[p] \in Process /\ (procs[p].state = "free" => ~procs[p].ours)
      BY DEF Table, Freed
    <2>2. CASE procs'[p] = procs[p]
      BY <2>1, <2>2 DEF Replays, AtLarge, Voice, Alive
    <2>3. CASE procs[p].state # "free" /\ procs'[p] = [procs[p] EXCEPT !.dying = TRUE]
      BY <2>1, <2>3, ZenonT(60) DEF Replays, AtLarge, Voice, Alive, Process
    <2>4. CASE procs'[p] = [procs[p] EXCEPT !.state = "ended"]
      BY <2>1, <2>4 DEF Replays, AtLarge, Voice, Alive, Process, States
    <2>5. CASE procs'[p] = Free
      BY <2>1, <2>5, FreeIsProcess DEF Replays, AtLarge, Voice, Alive
    <2> QED BY <2>2, <2>3, <2>4, <2>5 DEF Fate
  <1>2. procs' \in [Pids -> Process]
    BY <1>1
  <1> QED BY <1>1, <1>2 DEF NoneMoves, NoneStarts, Table, Freed

(* kill: what is killed is at its end, and nothing else has changed.          *)
LEMMA Kills ==
  ASSUME Table, NEW ps, procs' = kill(ps, procs)
  PROVE  NoneMoves /\ \A p \in Pids : p \in ps => ~AtLarge(p)' /\ ~Voice(p)'
  <1>1. CASE Posix
    <2>1. procs' = [p \in Pids |-> IF p \in ps /\ Alive(procs, p)
                                   THEN [procs[p] EXCEPT !.dying = TRUE] ELSE procs[p]]
      BY <1>1 DEF kill, signal
    <2>2. \A p \in Pids : Fate(p) /\ (Posix /\ procs'[p] = Free => ~procs[p].ours)
      <3>1. ASSUME NEW p \in Pids
            PROVE  Fate(p) /\ (procs'[p] = Free => ~procs[p].ours)
        <4>1. procs[p] \in Process
          BY DEF Table
        <4>2. CASE p \in ps /\ Alive(procs, p)
          <5>1. procs'[p] = [procs[p] EXCEPT !.dying = TRUE]
            BY <2>1, <4>2
          <5>2. procs'[p].ours = procs[p].ours
            BY <5>1, <4>1 DEF Process
          <5> QED BY <4>2, <5>1, <5>2, FreeIsProcess DEF Alive, Fate
        <4>3. CASE ~(p \in ps /\ Alive(procs, p))
          BY <2>1, <4>3, FreeIsProcess DEF Fate
        <4> QED BY <4>2, <4>3
      <3> QED BY <3>1
    <2>3. NoneMoves
      BY <2>1, <2>2, Fates
    <2>4. ASSUME NEW p \in Pids, p \in ps
          PROVE  Alive(procs, p)' => procs'[p].dying
      <3>1. procs[p] \in Process
        BY DEF Table
      <3>2. procs'[p] = IF Alive(procs, p) THEN [procs[p] EXCEPT !.dying = TRUE] ELSE procs[p]
        BY <2>1, <2>4
      <3> QED BY <3>1, <3>2 DEF Alive, Process
    <2> QED BY <2>3, <2>4 DEF AtLarge, Voice
  <1>2. CASE ~Posix
    <2>1. procs' = [p \in Pids |-> IF p \notin ps \/ ~Alive(procs, p) THEN procs[p]
                                   ELSE IF procs[p].ours THEN [procs[p] EXCEPT !.state = "ended"] ELSE Free]
      BY <1>2 DEF kill, proc_kill
    <2>2. \A p \in Pids : Fate(p) /\ (Posix /\ procs'[p] = Free => ~procs[p].ours)
      BY <1>2, <2>1 DEF Fate
    <2>3. NoneMoves
      BY <2>1, <2>2, Fates
    <2>4. ASSUME NEW p \in Pids, p \in ps
          PROVE  ~Alive(procs, p)'
      <3>1. procs[p] \in Process
        BY DEF Table
      <3>2. procs'[p] = IF ~Alive(procs, p) THEN procs[p]
                        ELSE IF procs[p].ours THEN [procs[p] EXCEPT !.state = "ended"] ELSE Free
        BY <2>1, <2>4
      <3> QED BY <3>1, <3>2, FreeIsProcess DEF Alive, Process
    <2> QED BY <2>3, <2>4 DEF AtLarge, Voice
  <1> QED BY <1>1, <1>2

(* A process is reaped, or a handle closed.                                   *)
LEMMA Closes ==
  ASSUME Table, NEW p \in Pids, procs' = close_pid(p)
  PROVE  /\ NoneStarts /\ ~Replays(p)'
         /\ \A q \in Pids \ {p} : procs'[q] = procs[q]
  <1>1. /\ procs' \in [Pids -> Process] /\ procs'[p] = Free
        /\ \A q \in Pids \ {p} : procs'[q] = procs[q]
    BY FreeIsProcess, OneMoved DEF close_pid, Table
  <1> QED BY <1>1, FreeIsProcess DEF Table, Freed, NoneStarts, Replays, AtLarge, Voice, Alive

(* What the host does: a process ends, or somebody else's appears.            *)
LEMMA HostMoves ==
  ASSUME env \in World, Table, NEW p \in Pids, Dies(p) \/ Ends(p) \/ Appears(p)
  PROVE  NoneMoves /\ env' \in World /\ SameHost
  <1>0. procs[p] \in Process
    BY DEF Table
  <1>1. CASE Dies(p) \/ Ends(p)
    <2> DEFINE r == IF procs[p].ours THEN [procs[p] EXCEPT !.state = "ended"] ELSE Free
    <2>1. procs' = [procs EXCEPT ![p] = r]
      BY <1>1 DEF Dies, Ends, Gone
    <2>2. r \in Process
      BY <1>0, FreeIsProcess DEF Process, States
    <2>3. r = Free => ~procs[p].ours
      BY <1>0, FreeIsProcess DEF Process
    <2>4. /\ procs' \in [Pids -> Process] /\ procs'[p] = r
          /\ \A q \in Pids \ {p} : procs'[q] = procs[q]
      <3> HIDE DEF r
      <3> QED BY <2>1, <2>2, OneMoved DEF Table
    <2>5. \A q \in Pids : Fate(q) /\ (Posix /\ procs'[q] = Free => ~procs[q].ours)
      BY <2>3, <2>4, FreeIsProcess DEF Fate, Table, Freed
    <2>6. NoneMoves
      BY <2>4, <2>5, Fates
    <2>7. env' \in World /\ SameHost
      BY <1>1, Spends DEF Dies, Ends, Counters, SameHost
    <2> QED BY <2>6, <2>7
  <1>2. CASE Appears(p)
    <2>1. PICK image \in {"gnuplot", "other"} : procs' = [procs EXCEPT ![p] = Started(image, FALSE)]
      BY <1>2 DEF Appears
    <2>2. /\ Started(image, FALSE) \in Process /\ ~Started(image, FALSE).ours
          /\ Started(image, FALSE).image # "voice" /\ Started(image, FALSE).state = "running"
      BY StartedIsProcess DEF Images
    <2>3. /\ procs' \in [Pids -> Process] /\ procs'[p] = Started(image, FALSE)
          /\ \A q \in Pids \ {p} : procs'[q] = procs[q]
      <3> DEFINE r == Started(image, FALSE)
      <3>1. r \in Process /\ procs' = [procs EXCEPT ![p] = r]
        BY <2>1, <2>2
      <3> HIDE DEF r
      <3>2. /\ procs' \in [Pids -> Process] /\ procs'[p] = r
            /\ \A q \in Pids \ {p} : procs'[q] = procs[q]
        BY <3>1, OneMoved DEF Table
      <3> QED BY <3>2 DEF r
    <2>4. ~procs[p].ours
      BY <1>2 DEF Appears, Table, Freed
    <2>5. NoneStarts
      BY <2>2, <2>3 DEF NoneStarts, Table, Freed, Replays, AtLarge, Voice, Alive
    <2>6. NoneMoves
      BY <2>2, <2>3, <2>4, <2>5 DEF NoneMoves, Replays, Alive
    <2>7. env' \in World /\ SameHost
      BY <1>2, Spends DEF Appears, Counters
    <2> QED BY <2>6, <2>7
  <1> QED BY <1>1, <1>2

(* A program is started in a free number.                                     *)
LEMMA Begins ==
  ASSUME Table, NEW image \in Images, NEW p \in Pids, procs' = run_argv(image, p, procs)
  PROVE  /\ Table' /\ procs'[p] = Started(image, TRUE)
         /\ \A q \in Pids \ {p} : procs'[q] = procs[q]
  <1> DEFINE r == Started(image, TRUE)
  <1>1. r \in Process /\ procs' = [procs EXCEPT ![p] = r] /\ r.state = "running"
    BY StartedIsProcess DEF run_argv, spawn_async, create_win_process
  <1>2. r = Started(image, TRUE)
    OBVIOUS
  <1> HIDE DEF r
  <1>3. /\ procs' \in [Pids -> Process] /\ procs'[p] = r
        /\ \A q \in Pids \ {p} : procs'[q] = procs[q]
    BY <1>1, OneMoved DEF Table
  <1> QED BY <1>1, <1>2, <1>3 DEF Table, Freed

(* A process is stopped, or continued, if it was running, or stopped.         *)
LEMMA Pauses ==
  ASSUME NEW t \in [Pids -> Process], NEW p \in Pids,
         NEW from \in {"running", "stopped"}, NEW to \in {"running", "stopped"}
  PROVE  /\ Moves(p, from, to, t) \in [Pids -> Process]
         /\ \A q \in Pids \ {p} : Moves(p, from, to, t)[q] = t[q]
         /\ Moves(p, from, to, t)[p].image = t[p].image
         /\ Moves(p, from, to, t)[p].ours = t[p].ours
         /\ Moves(p, from, to, t)[p].dying = t[p].dying
         /\ Moves(p, from, to, t)[p].state = IF t[p].state = from THEN to ELSE t[p].state
  <1>0. t[p] \in Process
    OBVIOUS
  <1>1. CASE t[p].state = from
    <2> DEFINE r == [t[p] EXCEPT !.state = to]
    <2>1. /\ r \in Process /\ r.image = t[p].image /\ r.ours = t[p].ours
          /\ r.dying = t[p].dying /\ r.state = to
      BY <1>0 DEF Process, States
    <2>2. Moves(p, from, to, t) = [t EXCEPT ![p] = r]
      BY <1>1 DEF Moves
    <2> HIDE DEF r
    <2>3. [t EXCEPT ![p] = r] \in [Pids -> Process] /\ [t EXCEPT ![p] = r][p] = r
          /\ \A q \in Pids \ {p} : [t EXCEPT ![p] = r][q] = t[q]
      BY <2>1
    <2> QED BY <1>1, <2>1, <2>2, <2>3
  <1>2. CASE t[p].state # from
    BY <1>2 DEF Moves
  <1> QED BY <1>1, <1>2

(* What a pause, or its end, does to a process of mwp's: nothing where the    *)
(* host cannot stop it; else it is stopped or continued.                      *)
Paused(t, u, p, on) ==
  /\ u \in [Pids -> Process]
  /\ \A q \in Pids \ {p} : u[q] = t[q]
  /\ u[p].image = t[p].image /\ u[p].ours = t[p].ours /\ u[p].dying = t[p].dying
  /\ Alive(u, p) <=> Alive(t, p)
  /\ ~Alive(t, p) => u[p].state = t[p].state
  /\ (Posix \/ env.ntdll) /\ Alive(t, p) => u[p].state = IF on THEN "stopped" ELSE "running"

(* handle_replay_pause stops the child, or continues it, or does nothing       *)
(* where the system cannot.                                                    *)
LEMMA Suspends ==
  ASSUME NEW t \in [Pids -> Process], child_pid \in Pids
  PROVE  Paused(t, handle_replay_pause(t), child_pid, ~replay_paused)
  <1> DEFINE from == IF replay_paused THEN "stopped" ELSE "running"
             to   == IF replay_paused THEN "running" ELSE "stopped"
             u    == Moves(child_pid, from, to, t)
  <1>1. child_pid # 0
    BY PidsAssumption
  <1>2. handle_replay_pause(t) = IF Posix \/ env.ntdll THEN u ELSE t
    BY <1>1 DEF handle_replay_pause, suspend, resume, winsuspend, winresume, InitializeExports
  <1>3. from \in {"running", "stopped"} /\ to \in {"running", "stopped"}
    OBVIOUS
  <1>4. /\ u \in [Pids -> Process]
        /\ \A q \in Pids \ {child_pid} : u[q] = t[q]
        /\ u[child_pid].image = t[child_pid].image /\ u[child_pid].ours = t[child_pid].ours
        /\ u[child_pid].dying = t[child_pid].dying
        /\ u[child_pid].state = IF t[child_pid].state = from THEN to ELSE t[child_pid].state
    <2> HIDE DEF from, to
    <2> QED BY <1>3, Pauses
  <1>5. CASE Posix \/ env.ntdll
    <2>1. handle_replay_pause(t) = u
      BY <1>2, <1>5
    <2> HIDE DEF u
    <2> QED BY <1>4, <2>1 DEF Paused, Alive
  <1>6. CASE ~(Posix \/ env.ntdll)
    BY <1>2, <1>6 DEF Paused
  <1> QED BY <1>5, <1>6

(* Stop: the child, paused or not, is at its end.                             *)
LEMMA Stops ==
  ASSUME Table, NEW p \in Pids, child_pid = p, procs' = stop_replayer(procs)
  PROVE  NoneStarts /\ ~AtLarge(p)'
  <1> DEFINE woken == IF replay_paused THEN handle_replay_pause(procs) ELSE procs
  <1>1. procs' = kill({p}, woken)
    BY PidsAssumption DEF stop_replayer
  <1>2. /\ woken \in [Pids -> Process] /\ \A q \in Pids \ {p} : woken[q] = procs[q]
        /\ woken[p].image = procs[p].image
        /\ woken[p].ours = procs[p].ours
        /\ woken[p].dying = procs[p].dying
        /\ Alive(woken, p) <=> Alive(procs, p)
        /\ woken[p].state = "free" => procs[p].state = "free"
    BY Suspends DEF Table, Paused, Alive
  <1> HIDE DEF woken
  <1>3. /\ procs' \in [Pids -> Process] /\ \A q \in Pids \ {p} : procs'[q] = woken[q]
        /\ \/ procs'[p] = Free
           \/ ~Alive(woken, p) /\ procs'[p] = woken[p]
           \/ /\ procs'[p] = [woken[p] EXCEPT !.state = "ended"]
              /\ Alive(woken, p)
           \/ /\ procs'[p] = [woken[p] EXCEPT !.dying = TRUE]
              /\ Alive(woken, p)
    <2>1. CASE Posix
      <3>1. procs' = [q \in Pids |-> IF q = p /\ Alive(woken, q)
                                     THEN [woken[q] EXCEPT !.dying = TRUE] ELSE woken[q]]
        BY <1>1, <2>1 DEF kill, signal
      <3>2. \A q \in Pids : [woken[q] EXCEPT !.dying = TRUE] \in Process
        BY <1>2, ZenonT(60) DEF Process
      <3> QED BY <1>2, <3>1, <3>2
    <2>2. CASE ~Posix
      <3>1. procs' = [q \in Pids |-> IF q # p \/ ~Alive(woken, q) THEN woken[q]
                                     ELSE IF woken[q].ours THEN [woken[q] EXCEPT !.state = "ended"] ELSE Free]
        BY <1>1, <2>2 DEF kill, proc_kill
      <3>2. \A q \in Pids : [woken[q] EXCEPT !.state = "ended"] \in Process
        BY <1>2 DEF Process, States
      <3> QED BY <1>2, <3>1, <3>2, FreeIsProcess
    <2> QED BY <2>1, <2>2
  <1>4. /\ procs'[p].state = "free" => ~procs'[p].ours
        /\ Replays(p)' => Replays(p)
        /\ ~AtLarge(p)' /\ ~Voice(p)'
    <2>1. woken[p] \in Process
      BY <1>2
    <2> DEFINE w == woken[p]
    <2>2. CASE procs'[p] = Free
      BY <2>2, FreeIsProcess DEF Replays, AtLarge, Voice, Alive
    <2>3. CASE ~Alive(woken, p) /\ procs'[p] = w
      BY <1>2, <2>3 DEF Table, Freed, Replays, AtLarge, Voice, Alive
    <2>4. CASE procs'[p] = [w EXCEPT !.state = "ended"]
      <3>1. /\ procs'[p].state = "ended" /\ procs'[p].image = w.image
            /\ procs'[p].ours = w.ours
        BY <2>1, <2>4 DEF Process
      <3> QED BY <1>2, <3>1 DEF Replays, AtLarge, Voice, Alive
    <2>5. CASE Alive(woken, p) /\ procs'[p] = [w EXCEPT !.dying = TRUE]
      <3>1. /\ procs'[p].state = w.state /\ procs'[p].image = w.image
            /\ procs'[p].ours = w.ours /\ procs'[p].dying
        BY <2>1, <2>5 DEF Process
      <3> QED BY <1>2, <2>5, <3>1 DEF Replays, AtLarge, Voice, Alive
    <2> QED BY <1>3, <2>2, <2>3, <2>4, <2>5
  <1> QED BY <1>2, <1>3, <1>4 DEF Table, Freed, NoneStarts, Replays, AtLarge, Voice, Alive

----------------------------------------------------------------------------
(* What each part of the invariant depends on. *)

(* mwp does not come back, and does not end, in this step.                    *)
MainKept == (Runs' => Runs) /\ (main' \in {"starting", "gone"} => main' = main)

(* No second replay begins by a step that starts none.                         *)
LEMMA OneReplayKept ==
  ASSUME OneReplay, Runs' => Runs, NoneStarts, UNCHANGED <<done, replayer, ui, lost>>
  PROVE  OneReplay'
  BY DEF OneReplay, Over, NoneStarts

(* No replay begins, is stopped, continued or taken back from its end, and on *)
(* POSIX none is gone.                                                        *)
ReplaysStay ==
  \A p \in Pids : /\ AtLarge(p)' => AtLarge(p)
                  /\ Posix /\ Replays(p) => Replays(p)'
                  /\ Replays(p)' /\ Alive(procs, p)' =>
                       Replays(p) /\ Alive(procs, p) /\ procs'[p].state = procs[p].state

(* The child in hand stays the replay that is going on.                        *)
LEMMA ChildKept ==
  ASSUME Child, Runs' => Runs, ReplaysStay, SameHost, UNCHANGED <<child_pid, replay_paused>>,
         child_pid \in Pids \cup {0}
  PROVE  Child'
  <1>1. Posix' <=> Posix
    BY DEF SameHost, Posix
  <1>2. (Runs => \A p \in Pids : AtLarge(p) => child_pid = p)'
    BY DEF Child, ReplaysStay, AtLarge
  <1>3. (Posix /\ child_pid # 0 => Replays(child_pid))'
    BY <1>1 DEF Child, ReplaysStay
  <1>4. (child_pid # 0 /\ (Posix \/ env.ntdll) /\ Replays(child_pid) /\ Alive(procs, child_pid) =>
           (replay_paused <=> procs[child_pid].state = "stopped"))'
    BY <1>1 DEF Child, ReplaysStay, SameHost
  <1> QED BY <1>2, <1>3, <1>4 DEF Child, AtLarge

(* Nobody else touches what the replay has set aside.                          *)
LEMMA AsideKept ==
  ASSUME Aside, Runs' => Runs, SameHost, UNCHANGED <<replayer, ro, log, ui>>
  PROVE  Aside'
  BY DEF Aside, SameHost

(* The helper in hand stays the one that is not told to end.                   *)
LEMMA HelpedKept ==
  ASSUME Helped, MainKept, NoneStarts, helper'.epid = helper.epid
  PROVE  Helped'
  BY DEF Helped, MainKept, NoneStarts

(* The types in parts.                                                        *)
HostTypes == env \in World /\ procs \in [Pids -> Process]

SpeechTypes ==
  /\ main \in {"starting", "up", "quitting", "joining", "gone", "crashed"}
  /\ voice \in [si : Int, say : {"ss_say", "ep_say", "sd_say", "fl_say"}]
  /\ thread \in {"none", "pop", "say", "said", "waiting", "over"}
  /\ msgs \in Seq(Vox)
  /\ helper \in [efdin : {-1, 1}, epid : Pids \cup {-1}, pipe : 0 .. PipeMax]
  /\ talking \in Nat /\ audio \in BOOLEAN

ReplayTypes ==
  /\ child_pid \in Pids \cup {0} /\ replayer \in {"none", "raw"}
  /\ replay_paused \in BOOLEAN /\ ui \in [replay : BOOLEAN, stop : BOOLEAN, button : BOOLEAN]
  /\ link \in {"off", "live", "replay"} /\ ro \in BOOLEAN
  /\ log \in [armed : BOOLEAN, x : BOOLEAN] /\ lost \in BOOLEAN /\ done \in BOOLEAN

(* The types are those of the parts.                                           *)
LEMMA Types == TypeOK <=> HostTypes /\ SpeechTypes /\ ReplayTypes
  BY DEF TypeOK, HostTypes, SpeechTypes, ReplayTypes

(* So they are after a step.                                                   *)
LEMMA TypesPrimed == TypeOK' <=> HostTypes' /\ SpeechTypes' /\ ReplayTypes'
  BY DEF TypeOK, HostTypes, SpeechTypes, ReplayTypes

(* A step of speech alone.                                                     *)
LEMMA ReplayTypesKept ==
  ASSUME TypeOK, UNCHANGED replayVars
  PROVE  ReplayTypes'
  BY Types DEF ReplayTypes, replayVars

(* A step of the replay alone.                                                 *)
LEMMA SpeechTypesKept ==
  ASSUME TypeOK, UNCHANGED speechVars, UNCHANGED main
  PROVE  SpeechTypes'
  BY Types DEF SpeechTypes, speechVars

(* What the process lemmas need.                                               *)
LEMMA TableHolds ==
  ASSUME IInv
  PROVE  Table
  BY DEF IInv, TypeOK, Table

(* A step the replay has no part in.                                          *)
LEMMA Calm ==
  ASSUME IInv, TypeOK', MainKept, NoneMoves, SameHost, UNCHANGED replayVars,
         helper'.epid = helper.epid
  PROVE  IInv'
  <1>1. OneReplay'
    BY OneReplayKept DEF IInv, MainKept, NoneMoves, replayVars
  <1>2. Child'
    <2>1. ReplaysStay
      BY DEF NoneMoves, NoneStarts, ReplaysStay
    <2> QED BY <2>1, ChildKept DEF IInv, MainKept, TypeOK, replayVars
  <1>3. Aside'
    BY AsideKept DEF IInv, MainKept, replayVars
  <1>4. Helped'
    BY HelpedKept DEF IInv, NoneMoves
  <1> QED BY <1>1, <1>2, <1>3, <1>4 DEF IInv, NoneMoves, NoneStarts, Table

(* The same step as seen by one that leaves the table and the host alone.     *)
LEMMA Untroubled ==
  ASSUME IInv, TypeOK', MainKept, UNCHANGED <<procs, env>>, UNCHANGED replayVars,
         helper'.epid = helper.epid
  PROVE  IInv'
  BY Calm, TableHolds, Untouched DEF SameHost

----------------------------------------------------------------------------
(* Speech. *)

(* message puts what is to be said in the queue.                               *)
LEMMA Messages ==
  ASSUME NEW c \in Vox, NEW urgent \in BOOLEAN, NEW q \in Seq(Vox)
  PROVE  message(c, urgent, q) \in Seq(Vox)
  BY DEF message

(* speech_init finds a voice or none.                                          *)
LEMMA Inits ==
  ASSUME NEW api
  PROVE  speech_init(api) \in [si : Int, say : {"ss_say", "ep_say", "sd_say", "fl_say"}]
  BY DEF speech_init, speech_set_api, ep_init, sd_init, fl_init, ss_init, API_NONE, API_ESPEAK,
         API_SPEECHD, API_FLITE, RATE

(* The helper in hand is killed, if there is one.                             *)
LEMMA HelperEnds ==
  ASSUME IInv, procs' = IF helper.epid > 0 THEN kill({helper.epid}, procs) ELSE procs
  PROVE  NoneMoves /\ \A p \in Pids : ~Voice(p)'
  <1>0. helper.epid \in Pids \cup {-1} /\ \A p \in Pids : Voice(p) => helper.epid = p
    BY DEF IInv, TypeOK, Helped
  <1>1. CASE helper.epid > 0
    <2>1. PICK e \in Pids : e = helper.epid
      BY <1>0, <1>1
    <2>2. procs' = kill({e}, procs)
      BY <1>1, <2>1
    <2>3. NoneMoves /\ ~Voice(e)'
      BY <2>2, Kills, TableHolds
    <2> QED BY <1>0, <2>1, <2>3 DEF NoneMoves, NoneStarts
  <1>2. CASE ~(helper.epid > 0)
    <2>1. NoneMoves
      BY <1>2, TableHolds, Untouched
    <2> QED BY <1>0, <1>2, <2>1, PidsAssumption DEF NoneMoves, NoneStarts
  <1> QED BY <1>1, <1>2

(* mwp starts, with its audio thread and perhaps the voice helper.             *)
LEMMA StartsKeeps ==
  ASSUME IInv, Starts
  PROVE  IInv'
  <1>0. /\ main = "starting" /\ main' \in {"up", "crashed"}
        /\ thread' = "pop" /\ UNCHANGED <<msgs, talking, audio, replayVars>>
    BY DEF Starts, start_audio, audio_init
  <1>1. /\ voice' \in [si : Int, say : {"ss_say", "ep_say", "sd_say", "fl_say"}]
        /\ \/ \E p \in Pids : /\ procs[p].state = "free" /\ UNCHANGED env
                              /\ procs' = run_argv("voice", p, procs)
                              /\ helper' = [NoHelper EXCEPT !.efdin = 1, !.epid = p]
           \/ Spend("fails") /\ UNCHANGED <<procs, helper>>
           \/ UNCHANGED <<procs, helper, env>>
    <2>0. audio_init
      BY DEF Starts, start_audio
    <2>1. CASE env.exvox
      <3>1. voice' = [si |-> 0, say |-> "ss_say"]
        BY <2>0, <2>1 DEF audio_init
      <3>2. \/ /\ \E p \in Pids : /\ procs[p].state = "free"
                                  /\ procs' = run_argv("voice", p, procs)
                                  /\ helper' = [NoHelper EXCEPT !.efdin = 1, !.epid = p]
               /\ UNCHANGED env
            \/ Spend("fails") /\ UNCHANGED <<procs, helper>>
        BY <2>0, <2>1, ZenonT(30) DEF audio_init
      <3>3. voice' \in [si : Int, say : {"ss_say", "ep_say", "sd_say", "fl_say"}]
        BY <3>1
      <3> QED BY <3>2, <3>3, ZenonT(30)
    <2>2. CASE ~env.exvox
      <3>1. voice' = speech_init(spapi) /\ UNCHANGED <<procs, helper, env>>
        BY <2>0, <2>2 DEF audio_init
      <3>2. speech_init(spapi) \in [si : Int, say : {"ss_say", "ep_say", "sd_say", "fl_say"}]
        BY Inits
      <3> QED BY <3>1, <3>2
    <2> QED BY <2>1, <2>2
  <1>2. CASE UNCHANGED <<procs, helper, env>> \/ (Spend("fails") /\ UNCHANGED <<procs, helper>>)
    <2>1. env' \in World /\ SameHost
      BY <1>2, Spends DEF IInv, TypeOK, Counters, SameHost
    <2>2. TypeOK'
      <3>1. SpeechTypes'
        BY <1>0, <1>1, <1>2, Types DEF IInv, SpeechTypes
      <3>2. HostTypes'
        BY <1>2, <2>1, Types DEF IInv, HostTypes
      <3> QED BY <1>0, <3>1, <3>2, TypesPrimed, ReplayTypesKept DEF IInv
    <2>3. MainKept
      BY <1>0 DEF MainKept, Runs
    <2> QED BY <1>0, <1>2, <2>1, <2>2, <2>3, Calm, TableHolds, Untouched
  <1>3. ASSUME NEW p \in Pids, procs[p].state = "free", UNCHANGED env,
               procs' = run_argv("voice", p, procs),
               helper' = [NoHelper EXCEPT !.efdin = 1, !.epid = p]
        PROVE  IInv'
    <2>1. /\ Table' /\ procs'[p] = Started("voice", TRUE)
          /\ \A q \in Pids \ {p} : procs'[q] = procs[q]
      BY <1>3, Begins, TableHolds DEF Images
    <2>2. procs'[p].image = "voice" /\ procs'[p].ours /\ ~procs[p].ours
      BY <1>3, <2>1 DEF Started, IInv, Freed
    <2>3. helper' = [efdin |-> 1, epid |-> p, pipe |-> 0]
      BY <1>3 DEF NoHelper
    <2>4. TypeOK'
      <3>1. helper' \in [efdin : {-1, 1}, epid : Pids \cup {-1}, pipe : 0 .. PipeMax]
        BY <2>3, SpeechAssumption
      <3>2. SpeechTypes'
        BY <1>0, <1>1, <3>1, Types DEF IInv, SpeechTypes
      <3>3. HostTypes'
        BY <1>3, <2>1, Types DEF IInv, HostTypes, Table
      <3> QED BY <1>0, <3>2, <3>3, TypesPrimed, ReplayTypesKept DEF IInv
    <2>5. \A q \in Pids : Replays(q)' <=> Replays(q)
      BY <2>1, <2>2 DEF Replays
    <2>6. OneReplay'
      BY <1>0, <2>5 DEF IInv, OneReplay, Over, Runs, replayVars
    <2>7. \A q \in Pids : Replays(q) => procs'[q] = procs[q]
      BY <2>1, <2>2 DEF Replays
    <2>8. Child'
      <3>1. ReplaysStay
        BY <2>5, <2>7 DEF ReplaysStay, AtLarge, Alive
      <3> QED BY <1>0, <1>3, <3>1, ChildKept DEF IInv, TypeOK, SameHost, Runs, replayVars
    <2>9. Aside'
      BY <1>0, <1>3 DEF IInv, Aside, Runs, replayVars
    <2>10. Helped'
      BY <1>0, <2>1, <2>3 DEF IInv, Helped, Voice, Alive
    <2> QED BY <2>1, <2>4, <2>6, <2>8, <2>9, <2>10 DEF IInv, Table
  <1> QED BY <1>1, <1>2, <1>3

(* The thread takes DONE: the helper is killed.                               *)
LEMMA PopsKeeps ==
  ASSUME IInv, Pops, UNCHANGED replayVars
  PROVE  IInv'
  <1>0. /\ msgs \in Seq(Vox) /\ msgs # << >> /\ msgs' = Tail(msgs)
        /\ UNCHANGED <<main, voice, talking, audio, env, replayVars>>
        /\ thread' \in {"pop", "say", "over"}
    BY DEF Pops, IInv, TypeOK
  <1>1. MainKept /\ SameHost /\ ReplayTypes' /\ msgs' \in Seq(Vox)
    BY <1>0, ReplayTypesKept DEF MainKept, SameHost, Runs, IInv
  <1>2. CASE UNCHANGED <<helper, procs>>
    <2>1. SpeechTypes' /\ HostTypes'
      BY <1>0, <1>1, <1>2, Types DEF IInv, SpeechTypes, HostTypes
    <2> QED BY <1>0, <1>1, <1>2, <2>1, TypesPrimed, Untroubled
  <1>3. CASE finish
    <2>1. NoneMoves /\ \A p \in Pids : ~Voice(p)'
      BY <1>3, HelperEnds DEF finish
    <2>2. /\ helper' \in [efdin : {-1, 1}, epid : Pids \cup {-1}, pipe : 0 .. PipeMax]
      BY <1>3 DEF finish, IInv, TypeOK
    <2>3. TypeOK'
      <3>1. SpeechTypes'
        BY <1>0, <1>1, <2>2, Types DEF IInv, SpeechTypes
      <3>2. HostTypes'
        BY <1>0, <2>1, Types DEF IInv, HostTypes, NoneMoves, NoneStarts, Table
      <3> QED BY <1>1, <3>1, <3>2, TypesPrimed
    <2>4. OneReplay'
      BY <1>0, <1>1, <2>1, OneReplayKept DEF IInv, MainKept, NoneMoves, replayVars
    <2>5. Child'
      <3>1. ReplaysStay
        BY <2>1 DEF NoneMoves, NoneStarts, ReplaysStay
      <3> QED BY <1>0, <1>1, <3>1, ChildKept DEF IInv, MainKept, TypeOK, replayVars
    <2>6. Aside'
      BY <1>0, <1>1, AsideKept DEF IInv, MainKept, replayVars
    <2>7. Helped'
      BY <2>1 DEF Helped
    <2> QED BY <2>1, <2>3, <2>4, <2>5, <2>6, <2>7 DEF IInv, NoneMoves, NoneStarts, Table
  <1> QED BY <1>2, <1>3 DEF Pops

(* The audio thread is joined, the helper killed, and mwp is gone.             *)
LEMMA ExitsKeeps ==
  ASSUME IInv, Exits
  PROVE  IInv'
  <1>0. /\ main' = "gone" /\ UNCHANGED <<voice, thread, msgs, helper, talking, audio, env, replayVars>>
        /\ procs' = IF helper.epid > 0 THEN kill({helper.epid}, procs) ELSE procs
    BY DEF Exits, Joined
  <1>1. NoneMoves /\ \A p \in Pids : ~Voice(p)'
    BY <1>0, HelperEnds
  <1>2. ~Runs'
    BY <1>0 DEF Runs
  <1>3. TypeOK'
    <2>1. SpeechTypes'
      BY <1>0, Types DEF IInv, SpeechTypes
    <2>2. HostTypes'
      BY <1>0, <1>1, Types DEF IInv, HostTypes, NoneMoves, NoneStarts, Table
    <2> QED BY <1>0, <2>1, <2>2, TypesPrimed, ReplayTypesKept DEF IInv
  <1>4. Child'
    <2>1. ReplaysStay
      BY <1>1 DEF NoneMoves, NoneStarts, ReplaysStay
    <2> QED BY <1>0, <1>2, <2>1, ChildKept DEF IInv, TypeOK, replayVars, SameHost
  <1> QED BY <1>1, <1>2, <1>3, <1>4 DEF IInv, NoneMoves, NoneStarts, Table, OneReplay, Aside, Helped

(* A step of the thread, the daemon or the helper that touches no process.    *)
LEMMA Talks ==
  ASSUME IInv, SpeechTypes', MainKept, UNCHANGED <<procs, env, replayVars>>, helper'.epid = helper.epid
  PROVE  IInv'
  <1>1. HostTypes'
    BY Types DEF IInv, HostTypes
  <1> QED BY <1>1, Untroubled, TypesPrimed, ReplayTypesKept DEF IInv

(* Every step of the audio thread.                                             *)
LEMMA AudioThreadKeeps ==
  ASSUME IInv, AudioThread
  PROVE  IInv'
  <1>0. SpeechTypes /\ UNCHANGED replayVars /\ main \notin {"gone", "crashed"}
    BY Types DEF IInv, AudioThread, Lives
  <1>1. CASE Pops
    BY <1>0, <1>1, PopsKeeps
  <1>2. CASE Writes
    <2>0. /\ helper \in [efdin : {-1, 1}, epid : Pids \cup {-1}, pipe : 0 .. PipeMax]
          /\ UNCHANGED <<main, voice, msgs, talking, audio, procs, env>> /\ thread' = "pop"
      BY <1>0, <1>2 DEF Writes, SpeechTypes
    <2>1. /\ helper' \in [efdin : {-1, 1}, epid : Pids \cup {-1}, pipe : 0 .. PipeMax]
          /\ helper'.epid = helper.epid
      <3>1. \/ UNCHANGED helper
            \/ helper.pipe < PipeMax /\ helper' = [helper EXCEPT !.pipe = helper.pipe + 1]
        BY <1>2 DEF Writes
      <3> QED BY <2>0, <3>1, SpeechAssumption
    <2>2. SpeechTypes'
      BY <1>0, <2>0, <2>1 DEF SpeechTypes
    <2> QED BY <1>0, <2>0, <2>1, <2>2, Talks DEF MainKept, Runs
  <1>3. CASE Says
    <2>1. /\ UNCHANGED <<voice, msgs, helper, audio, procs, env>>
          /\ main' \in {main, "crashed"} /\ talking' \in Nat
          /\ thread' \in {"none", "pop", "say", "said", "waiting", "over"}
      BY <1>0, <1>3 DEF Says, ss_say, ep_say, fl_say, sd_say, Speaks, SpeechTypes
    <2>2. SpeechTypes'
      BY <1>0, <2>1 DEF SpeechTypes
    <2> QED BY <1>0, <2>1, <2>2, Talks DEF MainKept, Runs
  <1> QED BY <1>1, <1>2, <1>3 DEF AudioThread

(* The end of speech, and the helper's side of its pipe.                       *)
LEMMA CallbackKeeps ==
  ASSUME IInv, Callback \/ Wakes \/ HelperSide
  PROVE  IInv'
  <1>0. SpeechTypes /\ UNCHANGED replayVars
    BY Types DEF IInv, Callback, Wakes, HelperSide
  <1>1. /\ UNCHANGED <<main, voice, msgs, audio, procs, env>>
        /\ talking' \in Nat /\ thread' \in {"none", "pop", "say", "said", "waiting", "over"}
    BY <1>0 DEF Callback, Wakes, HelperSide, end_of_speech, EndsEarly, Reads, SpeechTypes
  <1>2. /\ helper' \in [efdin : {-1, 1}, epid : Pids \cup {-1}, pipe : 0 .. PipeMax]
        /\ helper'.epid = helper.epid
    <2>0. helper \in [efdin : {-1, 1}, epid : Pids \cup {-1}, pipe : 0 .. PipeMax]
      BY <1>0 DEF SpeechTypes
    <2>1. \/ UNCHANGED helper
          \/ helper.pipe > 0 /\ helper' = [helper EXCEPT !.pipe = helper.pipe - 1]
      BY DEF Callback, Wakes, HelperSide, end_of_speech, EndsEarly, Reads
    <2> QED BY <2>0, <2>1, SpeechAssumption
  <1>3. SpeechTypes'
    BY <1>0, <1>1, <1>2 DEF SpeechTypes
  <1> QED BY <1>0, <1>1, <1>2, <1>3, Talks DEF MainKept, Runs

----------------------------------------------------------------------------
(* The host, the user's other actions, and the end of mwp. *)

(* Processes of others come and go, and a killed one ends.                     *)
LEMMA HostKeeps ==
  ASSUME IInv, Die \/ Host
  PROVE  IInv'
  <1>1. PICK p \in Pids : (Dies(p) \/ Ends(p) \/ Appears(p)) /\ UNCHANGED <<main, speechVars, replayVars>>
    BY DEF Die, Host
  <1>2. NoneMoves /\ env' \in World /\ SameHost
    BY <1>1, HostMoves, TableHolds DEF IInv, TypeOK
  <1>3. SpeechTypes' /\ ReplayTypes'
    BY <1>1, SpeechTypesKept, ReplayTypesKept DEF IInv
  <1>4. HostTypes'
    BY <1>2 DEF HostTypes, NoneMoves, NoneStarts, Table
  <1> QED BY <1>1, <1>2, <1>3, <1>4, TypesPrimed, Calm DEF MainKept, Runs, speechVars

(* Something is to be said.                                                    *)
LEMMA AnnouncesKeeps ==
  ASSUME IInv, Announces
  PROVE  IInv'
  <1>1. env' \in World /\ SameHost
    BY Spends DEF Announces, Counters, IInv, TypeOK
  <1>2. msgs \in Seq(Vox)
    BY DEF IInv, TypeOK
  <1>3. msgs' \in Seq(Vox)
    <2>1. CASE announce
      <3>1. message("HEADING", FALSE, msgs) \in Seq(Vox)
        BY <1>2, Messages DEF Vox
      <3> QED BY <2>1, <3>1, Messages DEF announce, Vox
    <2>2. CASE gps_crit
      BY <1>2, <2>2, Messages DEF gps_crit, Vox
    <2>3. CASE say
      BY <1>2, <2>3, Messages DEF say, Vox
    <2> QED BY <2>1, <2>2, <2>3 DEF Announces
  <1>4. UNCHANGED <<main, procs, replayVars, voice, thread, helper, talking, audio>>
    BY DEF Announces
  <1>5. SpeechTypes'
    BY <1>3, <1>4, Types DEF IInv, SpeechTypes
  <1>6. HostTypes'
    BY <1>1, <1>4, Types DEF IInv, HostTypes
  <1> QED BY <1>1, <1>4, <1>5, <1>6, TypesPrimed, ReplayTypesKept, Calm, TableHolds, Untouched
          DEF IInv, MainKept, Runs

(* The user mutes or unmutes.                                                  *)
LEMMA TogglesKeeps ==
  ASSUME IInv, Toggles
  PROVE  IInv'
  <1>1. audio' \in BOOLEAN /\ UNCHANGED <<main, procs, env, replayVars, voice, thread, msgs, helper, talking>>
    BY DEF Toggles
  <1>2. SpeechTypes'
    BY <1>1, Types DEF IInv, SpeechTypes
  <1> QED BY <1>1, <1>2, Talks DEF MainKept, Runs

(* The plots of a log are closed.                                              *)
LEMMA PlotsKeeps ==
  ASSUME IInv, Plots
  PROVE  IInv'
  <1>1. env' \in World /\ SameHost
    BY Spends DEF Plots, Counters, IInv, TypeOK
  <1>2. NoneMoves
    BY Kills, TableHolds DEF Plots, terminate_plots
  <1>3. UNCHANGED <<main, replayVars, speechVars>>
    BY DEF Plots
  <1>4. HostTypes'
    BY <1>1, <1>2 DEF HostTypes, NoneMoves, NoneStarts, Table
  <1> QED BY <1>1, <1>2, <1>3, <1>4, TypesPrimed, SpeechTypesKept, ReplayTypesKept, Calm
          DEF IInv, MainKept, Runs, speechVars

(* final_clean posts the message that ends the audio thread.                   *)
LEMMA FinalMessage ==
  ASSUME final_clean
  PROVE  main' = "joining" /\ msgs' \in Seq(Vox)
  <1>1. << >> \in Seq(Vox) /\ "DONE" \in Vox
    BY DEF Vox
  <1> QED BY <1>1, Messages DEF final_clean, audio_close

(* SIGINT, SIGTERM, or the link that the closing of the window waited for.    *)
LEMMA CleanKeeps ==
  ASSUME IInv, closed \/ on_exit
  PROVE  IInv'
  <1>1. /\ final_clean /\ UNCHANGED <<replayVars, procs, env, voice, thread, helper, talking, audio>>
    BY DEF closed, on_exit
  <1>2. SpeechTypes'
    BY <1>1, FinalMessage, Types DEF IInv, SpeechTypes
  <1> QED BY <1>1, <1>2, FinalMessage, Talks DEF MainKept, Runs

----------------------------------------------------------------------------
(* The replay, and the connection. *)

(* The window closes: at once, or when the link is down.                       *)
LEMMA ClosesWindow ==
  ASSUME IInv, close_request
  PROVE  IInv'
  <1>1. /\ main' \in {"joining", "quitting"} /\ msgs' \in Seq(Vox) /\ lost' \in BOOLEAN
        /\ UNCHANGED <<child_pid, replayer, replay_paused, ui, link, ro, log, done, procs, env,
                       voice, thread, helper, talking, audio>>
    <2>1. msgs \in Seq(Vox) /\ lost \in BOOLEAN
      BY DEF IInv, TypeOK
    <2> QED BY <2>1, FinalMessage DEF close_request, close
  <1>2. TypeOK'
    <2>1. SpeechTypes' /\ HostTypes' /\ ReplayTypes'
      BY <1>1, Types DEF IInv, SpeechTypes, HostTypes, ReplayTypes
    <2> QED BY <2>1, TypesPrimed
  <1>3. ~Runs' /\ main' \notin {"starting", "gone"} /\ SameHost
    BY <1>1 DEF Runs, SameHost
  <1>4. NoneMoves
    BY <1>1, TableHolds, Untouched
  <1>5. Child'
    <2>1. ReplaysStay
      BY <1>4 DEF NoneMoves, NoneStarts, ReplaysStay
    <2> QED BY <1>1, <1>3, <2>1, ChildKept DEF IInv, TypeOK
  <1>6. Helped'
    BY <1>1, <1>3, <1>4, HelpedKept DEF IInv, MainKept, NoneMoves
  <1> QED BY <1>2, <1>3, <1>4, <1>5, <1>6 DEF IInv, NoneMoves, NoneStarts, Table, OneReplay, Aside

(* What the user does to the link has no effect on a replay.                  *)
LEMMA LinkKeeps ==
  ASSUME IInv, connect \/ disconnect
  PROVE  IInv'
  <1>1. /\ UNCHANGED <<child_pid, replayer, replay_paused, ro, log, done, main, procs, speechVars>>
        /\ main = "up" /\ ui.button
        /\ lost' \in BOOLEAN /\ link' \in {"off", "live", "replay"}
    BY Types DEF connect, disconnect, Up, close, IInv, ReplayTypes
  <1>2. /\ ui' \in [replay : BOOLEAN, stop : BOOLEAN, button : BOOLEAN]
        /\ ui'.stop = ui.stop
    BY ZenonT(60) DEF connect, disconnect, set_replay_menus, IInv, TypeOK
  <1>3. env' \in World /\ SameHost
    BY Spends DEF connect, disconnect, Counters, IInv, TypeOK, SameHost
  <1>4. replayer = "none"
    BY <1>1 DEF IInv, OneReplay, Runs
  <1>5. TypeOK'
    <2>1. HostTypes' /\ ReplayTypes'
      BY <1>1, <1>2, <1>3, Types DEF IInv, HostTypes, ReplayTypes
    <2> QED BY <1>1, <2>1, TypesPrimed, SpeechTypesKept DEF IInv
  <1>6. NoneMoves
    BY <1>1, TableHolds, Untouched
  <1>7. OneReplay'
    BY <1>1, <1>4 DEF IInv, OneReplay, Over, Runs, Replays
  <1>8. Child'
    <2>1. ReplaysStay
      BY <1>6 DEF NoneMoves, NoneStarts, ReplaysStay
    <2> QED BY <1>1, <1>3, <2>1, ChildKept DEF IInv, TypeOK, Runs
  <1>9. Aside'
    BY <1>1, <1>2, <1>3 DEF IInv, Aside, Runs, SameHost
  <1>10. Helped'
    BY <1>1, <1>6, HelpedKept DEF IInv, MainKept, NoneMoves, Runs, speechVars
  <1> QED BY <1>5, <1>6, <1>7, <1>8, <1>9, <1>10 DEF IInv, NoneMoves, NoneStarts, Table

(* Pause: the child is stopped or continued, where the host can do it.        *)
LEMMA PauseKeeps ==
  ASSUME IInv, do_replay_pause
  PROVE  IInv'
  <1>1. /\ UNCHANGED <<child_pid, replayer, ui, link, ro, log, lost, done, main, speechVars>>
        /\ replay_paused' = ~replay_paused /\ procs' = handle_replay_pause(procs)
        /\ env' \in World /\ SameHost
    BY Spends DEF do_replay_pause, Counters, IInv, TypeOK
  <1>2. Table
    BY TableHolds
  <1>3. \/ child_pid = 0 /\ procs' = procs
        \/ child_pid \in Pids /\ Paused(procs, procs', child_pid, ~replay_paused)
    BY <1>1, <1>2, Suspends DEF IInv, TypeOK, handle_replay_pause, Table
  <1>4. /\ NoneStarts
        /\ \A p \in Pids : Replays(p)' <=> Replays(p)
        /\ \A p \in Pids : Alive(procs, p)' <=> Alive(procs, p)
    <2>1. CASE procs' = procs
      BY <1>2, <2>1, Untouched DEF NoneMoves, Replays, Alive
    <2>2. ASSUME NEW c \in Pids, Paused(procs, procs', c, ~replay_paused)
          PROVE  /\ NoneStarts
                 /\ \A p \in Pids : Replays(p)' <=> Replays(p)
                 /\ \A p \in Pids : Alive(procs, p)' <=> Alive(procs, p)
      <3>1. \A p \in Pids : /\ procs'[p].image = procs[p].image
                            /\ procs'[p].ours = procs[p].ours
                            /\ procs'[p].dying = procs[p].dying
                            /\ Alive(procs, p)' <=> Alive(procs, p)
                            /\ procs'[p].state = "free" => procs[p].state = "free"
        BY <2>2 DEF Paused, Alive
      <3>2. procs' \in [Pids -> Process]
        BY <2>2 DEF Paused
      <3> QED BY <1>2, <3>1, <3>2 DEF NoneStarts, Table, Freed, Replays, AtLarge, Voice
    <2> QED BY <1>3, <2>1, <2>2
  <1>5. TypeOK'
    <2>1. ReplayTypes'
      BY <1>1, Types DEF IInv, ReplayTypes
    <2>2. HostTypes'
      BY <1>1, <1>4 DEF HostTypes, NoneStarts, Table
    <2> QED BY <1>1, <2>1, <2>2, TypesPrimed, SpeechTypesKept DEF IInv
  <1>6. OneReplay'
    BY <1>1, <1>4, OneReplayKept DEF IInv, Runs
  <1>7. Child'
    <2>0. PICK c \in Pids \cup {0} : c = child_pid /\ c = child_pid'
      BY <1>1 DEF IInv, TypeOK
    <2>1. (Runs => \A p \in Pids : AtLarge(p) => child_pid = p)'
      BY <1>1, <1>4 DEF IInv, Child, Runs, NoneStarts, AtLarge
    <2>2. (Posix <=> Posix') /\ env'.ntdll = env.ntdll
      BY <1>1 DEF SameHost, Posix
    <2>3. (Posix /\ child_pid # 0 => Replays(child_pid))'
      BY <1>4, <2>0, <2>2 DEF IInv, Child
    <2>4. ASSUME c # 0, Posix' \/ env'.ntdll, Replays(c)', Alive(procs, c)'
          PROVE  replay_paused' <=> procs'[c].state = "stopped"
      <3>1. c \in Pids /\ Alive(procs, c) /\ (Posix \/ env.ntdll)
        BY <1>4, <2>2, <2>4
      <3>2. Paused(procs, procs', c, ~replay_paused)
        BY <1>3, <2>0, <2>4
      <3> QED BY <1>1, <3>1, <3>2 DEF Paused, IInv, TypeOK
    <2> QED BY <2>0, <2>1, <2>3, <2>4 DEF Child, AtLarge
  <1>8. Aside'
    BY <1>1, AsideKept DEF IInv, Runs
  <1>9. Helped'
    BY <1>1, <1>4, HelpedKept DEF IInv, MainKept, Runs, speechVars
  <1> QED BY <1>4, <1>5, <1>6, <1>7, <1>8, <1>9 DEF IInv, NoneStarts, Table

(* Stop: the only replay there was is at its end.                             *)
LEMMA StopKeeps ==
  ASSUME IInv, stop_replay
  PROVE  IInv'
  <1>1. /\ UNCHANGED <<replayer, ui, link, ro, log, lost, done, main, speechVars, env>>
        /\ main = "up" /\ child_pid' = 0 /\ replay_paused' = FALSE
        /\ procs' = stop_replayer(procs)
    BY DEF stop_replay, Up
  <1>2. NoneStarts /\ \A p \in Pids : child_pid = p => ~AtLarge(p)'
    <2>1. CASE child_pid = 0
      <3>1. procs' = procs
        BY <1>1, <2>1 DEF stop_replayer, handle_replay_pause
      <3> QED BY <2>1, <3>1, PidsAssumption, TableHolds, Untouched DEF NoneMoves
    <2>2. ASSUME NEW p \in Pids, child_pid = p
          PROVE  NoneStarts /\ ~AtLarge(p)'
      BY <1>1, <2>2, Stops, TableHolds
    <2> QED BY <2>1, <2>2 DEF IInv, TypeOK
  <1>3. TypeOK'
    <2>1. ReplayTypes'
      BY <1>1, Types, ZenonT(60) DEF IInv, ReplayTypes
    <2>2. HostTypes'
      BY <1>1, <1>2, Types DEF IInv, HostTypes, NoneStarts, Table
    <2> QED BY <1>1, <2>1, <2>2, TypesPrimed, SpeechTypesKept DEF IInv
  <1>4. OneReplay'
    BY <1>1, <1>2, OneReplayKept DEF IInv, Runs
  <1>5. Child'
    <2>1. \A p \in Pids : ~AtLarge(p)'
      BY <1>1, <1>2 DEF IInv, Child, Runs, NoneStarts, AtLarge
    <2> QED BY <1>1, <2>1 DEF Child, AtLarge
  <1>6. Aside'
    BY <1>1, AsideKept DEF IInv, Runs, SameHost
  <1>7. Helped'
    BY <1>1, <1>2, HelpedKept DEF IInv, MainKept, Runs, speechVars
  <1> QED BY <1>2, <1>3, <1>4, <1>5, <1>6, <1>7 DEF IInv, NoneStarts, Table

(* A replay that fails at once spends two counters.                            *)
LEMMA TwoSpent ==
  ASSUME NEW e \in World, e.replays > 0, e.fails > 0
  PROVE  LET f == [e EXCEPT !.replays = e.replays - 1, !.fails = e.fails - 1]
             g == [e EXCEPT !.replays = e.replays - 1, !.fails = e.fails - 1, !.noudp = TRUE]
         IN /\ f \in World /\ f.os = e.os /\ f.ntdll = e.ntdll /\ f.noudp = e.noudp
            /\ g \in World /\ g.os = e.os /\ g.ntdll = e.ntdll /\ g.noudp
  <1>1. e.replays - 1 \in Nat /\ e.fails - 1 \in Nat
    BY DEF World
  <1> DEFINE a == e.replays - 1
             b == e.fails - 1
  <1> HIDE DEF a, b
  <1>2. a \in Nat /\ b \in Nat
    BY <1>1 DEF a, b
  <1>3. LET f == [e EXCEPT !.replays = a, !.fails = b]
        IN f \in World /\ f.os = e.os /\ f.ntdll = e.ntdll /\ f.noudp = e.noudp
    BY <1>2 DEF World
  <1>4. LET g == [e EXCEPT !.replays = a, !.fails = b, !.noudp = TRUE]
        IN g \in World /\ g.os = e.os /\ g.ntdll = e.ntdll /\ g.noudp
    BY <1>2 DEF World
  <1> QED BY <1>3, <1>4 DEF a, b

(* A replay from the menu: there was none, and what it sets aside is kept.    *)
LEMMA RunKeeps ==
  ASSUME IInv, run_replay
  PROVE  IInv'
  <1>1. main = "up" /\ ui.replay /\ ro' = TRUE /\ UNCHANGED <<lost, done, main, speechVars>>
    BY DEF run_replay, Up
  <1>2. replayer = "none" /\ ~done /\ ~lost /\ \A p \in Pids : ~Replays(p)
    BY <1>1 DEF IInv, OneReplay, Runs, Over, run_replay, Settled
  <1>3. CASE /\ env.fails > 0
             /\ env' = [env EXCEPT !.replays = @ - 1, !.fails = @ - 1, !.noudp = TRUE]
             /\ log' = [log EXCEPT !.x = log.armed]
             /\ UNCHANGED <<child_pid, replayer, replay_paused, ui, link, procs>>
    <2>1. /\ env' \in World /\ env'.noudp /\ env'.os = env.os /\ env'.ntdll = env.ntdll
      <3>1. env \in World /\ env.replays > 0 /\ env.fails > 0
        BY <1>3 DEF IInv, TypeOK, run_replay
      <3>2. env' = [env EXCEPT !.replays = env.replays - 1, !.fails = env.fails - 1, !.noudp = TRUE]
        BY <1>3
      <3> QED BY <3>1, <3>2, TwoSpent
    <2>2. log' \in [armed : BOOLEAN, x : BOOLEAN]
      BY <1>3 DEF IInv, TypeOK
    <2>3. TypeOK'
      <3>1. HostTypes' /\ ReplayTypes'
        BY <1>1, <1>3, <2>1, <2>2, Types DEF IInv, HostTypes, ReplayTypes
      <3> QED BY <1>1, <3>1, TypesPrimed, SpeechTypesKept DEF IInv
    <2>4. NoneMoves
      BY <1>3, TableHolds, Untouched
    <2>5. OneReplay'
      BY <1>1, <1>3, <2>4, OneReplayKept DEF IInv, NoneMoves, Runs
    <2>6. Child'
      <3>1. child_pid' = child_pid /\ replay_paused' = replay_paused /\ procs' = procs /\ (Posix' <=> Posix)
        BY <1>3, <2>1 DEF Posix
      <3> QED BY <1>1, <2>1, <3>1 DEF IInv, Child, Runs, Replays, Alive
    <2>7. Aside'
      BY <2>1 DEF Aside
    <2>8. Helped'
      BY <1>1, <2>4, HelpedKept DEF IInv, MainKept, NoneMoves, Runs, speechVars
    <2> QED BY <2>3, <2>4, <2>5, <2>6, <2>7, <2>8 DEF IInv, NoneMoves, NoneStarts, Table
  <1>4. CASE /\ link' = "replay" /\ replay_paused' = FALSE
             /\ log' = [armed |-> FALSE, x |-> log.armed]
             /\ replayer' = "raw"
             /\ ui' = [set_replay_menus(FALSE) EXCEPT !.stop = TRUE, !.button = FALSE]
             /\ spawn_otx_task
    <2>1. env' \in World /\ SameHost
      <3>1. \/ env' = [env EXCEPT !.replays = @ - 1]
            \/ env.fails > 0 /\ env' = [env EXCEPT !.replays = @ - 1, !.fails = @ - 1]
        BY <1>4 DEF spawn_otx_task
      <3>2. env \in World /\ env.replays > 0
        BY DEF IInv, TypeOK, run_replay
      <3>3. CASE env' = [env EXCEPT !.replays = @ - 1]
        BY <3>2, <3>3, Spends DEF Spend, Counters
      <3>4. CASE env.fails > 0 /\ env' = [env EXCEPT !.replays = @ - 1, !.fails = @ - 1]
        BY <3>2, <3>4, TwoSpent, ZenonT(60) DEF SameHost
      <3> QED BY <3>1, <3>3, <3>4
    <2>2. /\ ui' \in [replay : BOOLEAN, stop : BOOLEAN, button : BOOLEAN]
          /\ ~ui'.replay /\ ~ui'.button
      <3>1. ui \in [replay : BOOLEAN, stop : BOOLEAN, button : BOOLEAN]
        BY DEF IInv, TypeOK
      <3>2. ui' = [replay |-> FALSE, stop |-> TRUE, button |-> FALSE]
        BY <1>4, <3>1 DEF set_replay_menus
      <3> QED BY <3>2
    <2>3. /\ log' \in [armed : BOOLEAN, x : BOOLEAN] /\ log'.x = log.armed
      BY <1>4 DEF IInv, TypeOK
    <2>4. \/ /\ UNCHANGED procs /\ child_pid' = 0
          \/ \E p \in Pids : /\ procs[p].state = "free" /\ child_pid' = p
                             /\ procs' = run_argv("replay", p, procs)
      BY <1>4 DEF spawn_otx_task
    <2>5. /\ Table' /\ child_pid' \in Pids \cup {0}
          /\ \A p \in Pids : /\ Voice(p)' => Voice(p)
                             /\ Replays(p)' => /\ child_pid' = p
                                               /\ procs'[p].state = "running"
          /\ \A p \in Pids : child_pid' = p => Replays(p)'
      <3>1. CASE UNCHANGED procs /\ child_pid' = 0
        BY <1>2, <3>1, TableHolds, Untouched, PidsAssumption DEF NoneMoves, NoneStarts
      <3>2. ASSUME NEW p \in Pids, procs[p].state = "free", child_pid' = p,
                   procs' = run_argv("replay", p, procs)
            PROVE  <2>5
        <4>1. /\ Table' /\ procs'[p] = Started("replay", TRUE)
              /\ \A q \in Pids \ {p} : procs'[q] = procs[q]
          BY <3>2, Begins, TableHolds DEF Images
        <4>2. procs'[p].image = "replay" /\ procs'[p].ours /\ procs'[p].state = "running"
          BY <4>1 DEF Started
        <4> QED BY <1>2, <3>2, <4>1, <4>2 DEF Voice, Replays, Alive
      <3> QED BY <2>4, <3>1, <3>2
    <2>6. TypeOK'
      <3>1. HostTypes' /\ ReplayTypes'
        BY <1>1, <1>4, <2>1, <2>2, <2>3, <2>5, Types DEF IInv, HostTypes, ReplayTypes, Table
      <3> QED BY <1>1, <3>1, TypesPrimed, SpeechTypesKept DEF IInv
    <2>7. OneReplay'
      BY <1>1, <1>2, <1>4, <2>2, <2>5 DEF OneReplay
    <2>8. Child'
      <3>0. PICK c \in Pids \cup {0} : c = child_pid'
        BY <2>5
      <3>1. c # 0 => Replays(c)' /\ procs'[c].state = "running"
        BY <2>5, <3>0
      <3>2. replay_paused' = FALSE
        BY <1>4
      <3> QED BY <2>5, <3>0, <3>1, <3>2 DEF Child
    <2>9. Aside'
      BY <1>1, <1>2, <1>4, <2>1, <2>3 DEF IInv, Aside, Runs, SameHost
    <2>10. Helped'
      BY <1>1, <2>5 DEF IInv, Helped, speechVars
    <2> QED BY <2>5, <2>6, <2>7, <2>8, <2>9, <2>10 DEF IInv, Table
  <1> QED BY <1>3, <1>4 DEF run_replay

(* The end of a replay: what was set aside is put back, and nothing is left.  *)
LEMMA Cleans ==
  ASSUME ReplayTypes, audio \in BOOLEAN, complete
  PROVE  /\ replayer' = "none" /\ child_pid' = 0
         /\ ui' \in [replay : BOOLEAN, stop : BOOLEAN, button : BOOLEAN]
         /\ ro' \in BOOLEAN /\ log' \in [armed : BOOLEAN, x : BOOLEAN]
         /\ lost' \in BOOLEAN /\ audio' \in BOOLEAN /\ replay_paused' \in BOOLEAN
         /\ replayer = "none" => UNCHANGED <<ui, ro, log, replay_paused, lost, audio>>
         /\ replayer # "none" => ~ro' /\ ~ui'.stop /\ log'.armed = log.x
  <1>1. replayer' = "none" /\ child_pid' = 0 /\ cleanup_replay
    BY DEF complete
  <1>2. CASE replayer = "none"
    BY <1>1, <1>2 DEF cleanup_replay, ReplayTypes
  <1>3. CASE replayer # "none"
    <2>1. /\ lost' = (link # "off") /\ ro' = FALSE /\ audio' = (audio /\ ~env.audioarmed)
          /\ ui' = [set_replay_menus(TRUE) EXCEPT !.stop = FALSE, !.button = TRUE]
          /\ log' = [log EXCEPT !.armed = log.x] /\ replay_paused' = FALSE
      BY <1>1, <1>3 DEF cleanup_replay, close
    <2>2. ui' = [replay |-> TRUE, stop |-> FALSE, button |-> TRUE]
      BY <2>1 DEF set_replay_menus, ReplayTypes
    <2>3. log' \in [armed : BOOLEAN, x : BOOLEAN] /\ log'.armed = log.x
      BY <2>1 DEF ReplayTypes
    <2>4. audio' \in BOOLEAN /\ lost' \in BOOLEAN /\ ro' \in BOOLEAN /\ replay_paused' \in BOOLEAN /\ ~ro'
      BY <2>1
    <2>5. ui' \in [replay : BOOLEAN, stop : BOOLEAN, button : BOOLEAN] /\ ~ui'.stop
      BY <2>2
    <2> QED BY <1>1, <1>3, <2>3, <2>4, <2>5
  <1> QED BY <1>2, <1>3

(* The replay's end is handled: the menu and the log are given back.           *)
LEMMA Completes ==
  ASSUME IInv, complete, NoneStarts, Runs => Over',
         UNCHANGED <<link, main, env, voice, thread, msgs, helper, talking>>, done' \in BOOLEAN
  PROVE  IInv'
  <1>0. ReplayTypes /\ SpeechTypes /\ HostTypes
    BY Types DEF IInv
  <1>1. /\ replayer' = "none" /\ child_pid' = 0
        /\ ui' \in [replay : BOOLEAN, stop : BOOLEAN, button : BOOLEAN]
        /\ ro' \in BOOLEAN /\ log' \in [armed : BOOLEAN, x : BOOLEAN]
        /\ lost' \in BOOLEAN /\ audio' \in BOOLEAN /\ replay_paused' \in BOOLEAN
        /\ replayer = "none" => UNCHANGED <<ui, ro, log, replay_paused, lost, audio>>
        /\ replayer # "none" => ~ro' /\ ~ui'.stop /\ log'.armed = log.x
    BY <1>0, Cleans DEF SpeechTypes
  <1>2. TypeOK'
    <2>1. SpeechTypes' /\ ReplayTypes'
      BY <1>0, <1>1 DEF SpeechTypes, ReplayTypes
    <2>2. HostTypes'
      BY <1>0 DEF HostTypes, NoneStarts, Table
    <2> QED BY <2>1, <2>2, TypesPrimed
  <1>3. OneReplay'
    BY <1>1 DEF OneReplay, Over, Runs
  <1>4. Child'
    BY <1>1 DEF Child, Over, Runs
  <1>5. Aside'
    BY <1>0, <1>1 DEF IInv, Aside, Runs, ReplayTypes
  <1>6. Helped'
    BY HelpedKept DEF IInv, MainKept, Runs
  <1> QED BY <1>2, <1>3, <1>4, <1>5, <1>6 DEF IInv, NoneStarts, Table

(* Windows: the end that was posted.                                          *)
LEMMA WindoneKeeps ==
  ASSUME IInv, windone
  PROVE  IInv'
  <1>1. /\ done /\ done' = FALSE /\ complete
        /\ UNCHANGED <<link, main, procs, env, voice, thread, msgs, helper, talking>>
    BY DEF windone
  <1>2. NoneStarts
    BY <1>1, TableHolds, Untouched DEF NoneMoves
  <1>3. Runs => Over'
    BY <1>1, <1>2 DEF IInv, OneReplay, Over, NoneStarts
  <1> QED BY <1>1, <1>2, <1>3, Completes

(* A process of mwp's is reaped on POSIX: nothing else has changed, unless it *)
(* is the replay.                                                             *)
LEMMA WatchKeeps ==
  ASSUME IInv, NEW p \in Pids, ChildWatch(p)
  PROVE  IInv'
  <1>1. /\ Posix /\ procs[p].state = "ended" /\ procs' = close_pid(p)
        /\ UNCHANGED <<link, done, main, env, voice, thread, msgs, helper, talking>>
    BY DEF ChildWatch
  <1>2. /\ NoneStarts /\ ~Replays(p)'
        /\ \A q \in Pids \ {p} : procs'[q] = procs[q]
    BY <1>1, Closes, TableHolds
  <1>3. CASE Replays(p)
    <2>1. complete
      BY <1>3 DEF ChildWatch
    <2>2. Runs => Over'
      BY <1>1, <1>2, <1>3 DEF IInv, OneReplay, Over, NoneStarts
    <2> QED BY <1>1, <1>2, <2>1, <2>2, Completes DEF IInv, TypeOK
  <1>4. CASE ~Replays(p)
    <2>1. UNCHANGED <<child_pid, replayer, replay_paused, ui, ro, log, lost, audio>>
      BY <1>4 DEF ChildWatch
    <2>2. NoneMoves
      BY <1>2, <1>4 DEF NoneMoves, NoneStarts, Replays, Alive
    <2>3. TypeOK'
      <3>1. HostTypes'
        BY <1>1, <1>2, Types DEF IInv, HostTypes, NoneStarts, Table
      <3> QED BY <1>1, <2>1, <3>1, TypesPrimed, SpeechTypesKept, ReplayTypesKept
              DEF IInv, speechVars, replayVars
    <2> QED BY <1>1, <2>1, <2>2, <2>3, Calm DEF MainKept, Runs, SameHost, replayVars
  <1> QED BY <1>3, <1>4

(* Windows: a handle is closed, and the end of the replay posted.             *)
LEMMA WaitKeeps ==
  ASSUME IInv, NEW p \in Pids, waitproc(p)
  PROVE  IInv'
  <1>1. /\ ~Posix /\ procs[p].state = "ended" /\ procs' = close_pid(p)
        /\ done' = (done \/ Replays(p))
        /\ UNCHANGED <<child_pid, replayer, replay_paused, ui, link, ro, log, lost, main, env, speechVars>>
    BY DEF waitproc
  <1>2. /\ NoneStarts /\ ~Replays(p)'
        /\ \A q \in Pids \ {p} : procs'[q] = procs[q]
    BY <1>1, Closes, TableHolds
  <1>3. TypeOK'
    <2>1. HostTypes' /\ ReplayTypes'
      BY <1>1, <1>2, Types DEF IInv, HostTypes, ReplayTypes, NoneStarts, Table, Replays, Process
    <2> QED BY <1>1, <2>1, TypesPrimed, SpeechTypesKept DEF IInv
  <1>4. OneReplay'
    BY <1>1, <1>2 DEF IInv, OneReplay, Over, Runs, NoneStarts
  <1>5. ReplaysStay
    BY <1>1, <1>2 DEF ReplaysStay, NoneStarts, Replays, Alive
  <1>6. Child'
    BY <1>1, <1>5, ChildKept DEF IInv, TypeOK, Runs, SameHost
  <1>7. Aside' /\ Helped'
    BY <1>1, <1>2, AsideKept, HelpedKept DEF IInv, MainKept, Runs, SameHost, speechVars
  <1> QED BY <1>2, <1>3, <1>4, <1>6, <1>7 DEF IInv, NoneStarts, Table

(* The loss of a link: while mwp runs, none of a replay that is not over.     *)
LEMMA LostKeeps ==
  ASSUME IInv, close_serial
  PROVE  IInv'
  <1>1. /\ lost /\ lost' = FALSE /\ link' = "off" /\ replayer' = "none" /\ audio' \in BOOLEAN
        /\ UNCHANGED <<child_pid, replay_paused, ro, log, done, main, procs, env,
                       voice, thread, msgs, helper, talking>>
    BY DEF close_serial, IInv, TypeOK
  <1>2. /\ ui' \in [replay : BOOLEAN, stop : BOOLEAN, button : BOOLEAN]
        /\ ui'.stop = ui.stop
    BY DEF close_serial, set_replay_menus, IInv, TypeOK
  <1>3. Runs => replayer = "none"
    BY <1>1 DEF IInv, OneReplay
  <1>4. NoneMoves
    BY <1>1, TableHolds, Untouched
  <1>5. TypeOK'
    <2>1. HostTypes'
      BY <1>1, Types DEF IInv, HostTypes
    <2>2. ReplayTypes'
      BY <1>1, <1>2, Types DEF IInv, ReplayTypes
    <2>3. SpeechTypes'
      BY <1>1, Types DEF IInv, SpeechTypes
    <2> QED BY <2>1, <2>2, <2>3, TypesPrimed
  <1>6. OneReplay'
    BY <1>1, <1>3, <1>4 DEF IInv, OneReplay, Over, Runs, NoneMoves, NoneStarts
  <1>7. Child'
    <2>1. ReplaysStay
      BY <1>4 DEF NoneMoves, NoneStarts, ReplaysStay
    <2> QED BY <1>1, <2>1, ChildKept DEF IInv, TypeOK, Runs, SameHost
  <1>8. Aside'
    BY <1>1, <1>2, <1>3 DEF IInv, Aside, Runs
  <1>9. Helped'
    BY <1>1, <1>4, HelpedKept DEF IInv, MainKept, NoneMoves, Runs
  <1> QED BY <1>4, <1>5, <1>6, <1>7, <1>8, <1>9 DEF IInv, NoneMoves, NoneStarts, Table

----------------------------------------------------------------------------
(* The theorems. *)

(* Before mwp starts there is neither replay nor helper.                       *)
LEMMA InitHolds == Init => IInv
  <1> SUFFICES ASSUME Init PROVE IInv
    OBVIOUS
  <1>1. \A p \in Pids : procs[p] = Free
    BY DEF Init
  <1>2. HostTypes
    BY SpeechAssumption, FreeIsProcess DEF Init, HostTypes
  <1>3. SpeechTypes
    <2>1. helper = [efdin |-> -1, epid |-> -1, pipe |-> 0]
      BY DEF Init, NoHelper
    <2>2. helper \in [efdin : {-1, 1}, epid : Pids \cup {-1}, pipe : 0 .. PipeMax]
      BY <2>1, SpeechAssumption
    <2>3. /\ main = "starting" /\ voice = [si |-> 0, say |-> "ss_say"] /\ thread = "none"
          /\ msgs = << >> /\ talking = 0 /\ audio = TRUE
      BY DEF Init
    <2>4. msgs \in Seq(Vox)
      BY <2>3
    <2>5. voice \in [si : Int, say : {"ss_say", "ep_say", "sd_say", "fl_say"}]
      BY <2>3
    <2> QED BY <2>2, <2>3, <2>4, <2>5 DEF SpeechTypes
  <1>4. ReplayTypes
    <2>1. /\ ui = [replay |-> TRUE, stop |-> FALSE, button |-> TRUE]
          /\ log = [armed |-> TRUE, x |-> FALSE]
          /\ child_pid = 0 /\ replayer = "none" /\ replay_paused = FALSE
          /\ link = "off" /\ ro = FALSE /\ lost = FALSE /\ done = FALSE
      BY DEF Init
    <2> QED BY <2>1 DEF ReplayTypes
  <1>5. OneReplay
    BY <1>1, FreeIsProcess DEF Init, OneReplay, Over, Replays
  <1>6. Child
    BY <1>1, FreeIsProcess DEF Init, Child, Replays, Alive
  <1>7. Aside
    <2>1. ui.stop = FALSE /\ log.armed = TRUE /\ ro = FALSE /\ replayer = "none"
      BY DEF Init
    <2> QED BY <2>1 DEF Aside
  <1>8. Helped
    BY <1>1, FreeIsProcess DEF Init, Helped, Voice, Alive
  <1>9. Freed
    BY <1>1, FreeIsProcess DEF Freed
  <1> QED BY <1>2, <1>3, <1>4, <1>5, <1>6, <1>7, <1>8, <1>9, Types DEF IInv

(* Every step of mwp, of its threads and of its surroundings.                  *)
LEMMA NextHolds ==
  ASSUME IInv, [Next]_vars
  PROVE  IInv'
  <1>1. CASE User
    BY <1>1, RunKeeps, PauseKeeps, StopKeeps, LinkKeeps, ClosesWindow, CleanKeeps,
       AnnouncesKeeps, TogglesKeeps, PlotsKeeps DEF User
  <1>2. CASE Loop
    BY <1>2, StartsKeeps, WatchKeeps, WaitKeeps, WindoneKeeps, LostKeeps, CleanKeeps, ExitsKeeps
       DEF Loop, Reaps
  <1>3. CASE AudioThread \/ Callback \/ Wakes \/ HelperSide
    BY <1>3, AudioThreadKeeps, CallbackKeeps
  <1>4. CASE Die \/ Host
    BY <1>4, HostKeeps
  <1>5. CASE UNCHANGED vars
    <2>1. UNCHANGED <<main, speechVars, procs, env, replayVars>> /\ helper' = helper
      BY <1>5 DEF vars, speechVars
    <2>2. SpeechTypes'
      BY <2>1, SpeechTypesKept DEF IInv
    <2> QED BY <2>1, <2>2, Talks DEF MainKept, Runs
  <1> QED BY <1>1, <1>2, <1>3, <1>4, <1>5 DEF Next, Ended

(* The inductive invariant holds of every state that mwp, its two threads and  *)
(* its children can reach, for every set of process numbers and every world.   *)
THEOREM PlaybackInvariant == Spec => []IInv
  <1>1. IInv /\ [Next]_vars => IInv'
    BY NextHolds
  <1> QED BY InitHolds, <1>1, PTL DEF Spec

(* Every variable of speech, replay and processes has its type.               *)
THEOREM PlaybackTypes == Spec => []TypeOK
  <1>1. IInv => TypeOK
    BY DEF IInv
  <1> QED BY PlaybackInvariant, <1>1, PTL

(* Stop and Pause reach every replay process that mwp has not killed, after   *)
(* any number of replays, ends, stops and pauses.                             *)
THEOREM ChildIsInHand == Spec => []ChildInHand
  <1>1. IInv => ChildInHand
    BY DEF IInv, Child, ChildInHand, Runs
  <1> QED BY PlaybackInvariant, <1>1, PTL

(* What a replay sets aside is put back, and no voice helper survives an      *)
(* orderly end of mwp.                                                        *)
THEOREM NothingIsLeft == Spec => []NothingLeftBehind
  <1>1. IInv => NothingLeftBehind
    BY DEF IInv, Aside, Helped, Voice, NothingLeftBehind, Runs
  <1> QED BY PlaybackInvariant, <1>1, PTL
=============================================================================
