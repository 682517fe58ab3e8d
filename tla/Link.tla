--------------------------------- MODULE Link ---------------------------------
(* What the serial device promises of the messages mwp gives it to send: a    *)
(* session has one queue and brings one sender; a message is sent at most     *)
(* once, while a session is up; an urgent one goes before what waits. A       *)
(* sender that is left with a message by a session that was lost may still    *)
(* send it in the next one, and then works for that one too.                  *)
EXTENDS Naturals, Sequences

VARIABLES
  up,       \* a session is up
  session,  \* the sessions so far
  count,    \* the messages accepted so far
  queue,    \* what waits, first to be sent first
  hand,     \* of each sender: the message it has taken, or None
  wire      \* what was sent: the message, by which sender, in which session

vars == <<up, session, count, queue, hand, wire>>

Message == [m : Nat, urgent : BOOLEAN]
None    == [m |-> 0, urgent |-> FALSE]
Sent    == [m : Nat, urgent : BOOLEAN, by : Nat, in : Nat]
Busy    == {s \in DOMAIN hand : hand[s] # None}

Init ==
  /\ up = FALSE /\ session = 0 /\ count = 0
  /\ queue = << >> /\ wire = << >>
  /\ hand = [s \in {} |-> None]

Connect ==
  /\ ~up /\ up' = TRUE
  /\ session' = session + 1
  /\ UNCHANGED <<count, queue, hand, wire>>

(* The session gets its queue and its sender; idle senders are left behind.   *)
Begin ==
  /\ up /\ session \notin DOMAIN hand
  /\ queue' = << >>
  /\ hand' = [s \in Busy \cup {session} |-> IF s \in Busy THEN hand[s] ELSE None]
  /\ UNCHANGED <<up, session, count, wire>>

Accept(u) ==
  LET msg == [m |-> count + 1, urgent |-> u]
  IN  /\ up
      /\ count' = count + 1
      /\ queue' = IF u THEN <<msg>> \o queue ELSE Append(queue, msg)
      /\ UNCHANGED <<up, session, hand, wire>>

Take(s) ==
  /\ s \in DOMAIN hand \ Busy /\ queue # << >>
  /\ hand' = [hand EXCEPT ![s] = Head(queue)]
  /\ queue' = Tail(queue)
  /\ UNCHANGED <<up, session, count, wire>>

Send(s) ==
  /\ up /\ s \in Busy
  /\ wire' = Append(wire, [m |-> hand[s].m, urgent |-> hand[s].urgent,
                           by |-> s, in |-> session])
  /\ hand' = [hand EXCEPT ![s] = None]
  /\ UNCHANGED <<up, session, count, queue>>

(* A sender gives up or is told to end; with it goes what it holds.           *)
Leave(s) ==
  /\ s \in DOMAIN hand
  /\ hand' = [o \in DOMAIN hand \ {s} |-> hand[o]]
  /\ UNCHANGED <<up, session, count, queue, wire>>

(* What waits is thrown away, or forgotten with its queue.                    *)
Drop == queue' = << >> /\ UNCHANGED <<up, session, count, hand, wire>>

Down == up /\ up' = FALSE /\ UNCHANGED <<session, count, queue, hand, wire>>

Next ==
  \/ Connect \/ Begin \/ Drop \/ Down
  \/ \E u \in BOOLEAN : Accept(u)
  \/ \E s \in DOMAIN hand : Take(s) \/ Send(s) \/ Leave(s)

Spec == Init /\ [][Next]_vars
----------------------------------------------------------------------------
(* No message is sent twice, and none that was not accepted (write, _write).  *)
AtMostOnce ==
  /\ \A i \in DOMAIN wire : wire[i].m \in 1 .. count
  /\ \A i, j \in DOMAIN wire : wire[i].m = wire[j].m => i = j

(* What one sender sends without urgency goes in the order it was accepted.   *)
OrderKept ==
  \A i, j \in DOMAIN wire :
    i < j /\ wire[i].by = wire[j].by /\ ~wire[i].urgent /\ ~wire[j].urgent
      => wire[i].m < wire[j].m
==============================================================================
