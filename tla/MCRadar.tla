------------------------------- MODULE MCRadar -------------------------------
(* Frames, ids and worlds for the runs of Radar. *)
EXTENDS Radar

V(t, v) == [tag |-> t, wt |-> "VARINT", val |-> v]
B(t, v) == [tag |-> t, wt |-> "LEN", val |-> v]

(* An aircraft low and fast, seen a s ago, its position p s ago, of which     *)
(* readsb has the values that vs names.                                       *)
Low(id, a, p, vs) ==
  <<V(1, id), B(2, <<65, 66, 0>>), V(4, 163), V(5, 0), V(11, a * 10 + 9), V(23, 5),
    V(41, p * 10 + 9), B(150, <<V(1, 1)>>), B(151, vs)>>
Everything == <<V(121, 1), V(101, 1), V(103, 1)>>
Seen(id, a, p) == B(15, Low(id, a, p, Everything))

High(id, a) == B(15, <<V(1, id), V(5, 3), V(11, a * 10), V(13, 2), V(23, 5), V(41, 0),
                       B(151, Everything)>>)
NoPos(id)   == B(15, Low(id, 0, 0, <<V(101, 1), V(103, 1)>>))
NoAlt(id)   == B(15, Low(id, 0, 1, <<V(121, 1), V(103, 1)>>))
Head2(m, t) == B(15, <<V(t, 7)>> \o m)

(* A frame whose aircraft has a field of every tag in turn.                   *)
Tagged == {<<V(1, 1), B(14, <<V(1, 1), V(5, 2)>>), Head2(Low(1, 0, 0, Everything), t)>> :
             t \in 0 .. 160}
            \cup {<<B(15, Low(1, 0, 0, <<V(t, 1)>> \o Everything))>> : t \in 95 .. 140}

(* Frames with a field of the wrong type, at every level.                     *)
Broken == {<<B(1, 1), Seen(1, 0, 0)>>, <<Seen(1, 0, 0), B(14, <<B(1, 1)>>)>>,
           <<Seen(1, 0, 0), B(15, <<B(1, 1)>>)>>,
           <<B(15, Low(1, 0, 0, Everything) \o <<B(150, <<B(6, 1)>>)>>)>>,
           <<B(15, <<B(151, <<B(100, 1)>>)>> \o Low(1, 0, 0, Everything))>>}

Mav(id, s) == [id |-> id, tslc |-> s, flags |-> TRUE, alt |-> 3, speed |-> 5]
MavLow(id, s) == [Mav(id, s) EXCEPT !.alt = 0]
MavPos(id, s) == [Mav(id, s) EXCEPT !.flags = FALSE]

World(fs, ms, ns, fl, n) ==
  [frames |-> fs, mavs |-> ms, nodes |-> ns, fails |-> fl, user |-> n]

Ac == {1, 2}
INAV == {0}
Quiet == <<V(1, 1)>>

Traffic == [
  tags   |-> World(Tagged \cup Broken, {}, {}, FALSE, 0),
  pair   |-> World({<<Seen(1, 0, 1), NoPos(2)>>, Quiet}, {MavLow(2, 1)}, {}, FALSE, 0),
  both   |-> World({<<Seen(1, 0, 3), Seen(1, 0, 0)>>, <<High(1, 2)>>},
                   {Mav(1, 0), MavPos(1, 3)}, {}, FALSE, 0),
  node   |-> World({<<Seen(1, 0, 0)>>, Quiet}, {}, INAV, FALSE, 0),
  reader |-> World({<<NoAlt(1)>>, Quiet}, {}, {}, FALSE, 4),
  faulty |-> World({<<Seen(1, 4, 4)>>, Quiet}, {}, {}, TRUE, 2)]
OnePair == [pair |-> World({<<Seen(1, 0, 0)>>, Quiet}, {Mav(2, 1)}, {}, FALSE, 0)]
=============================================================================
