-------------------------- MODULE MCMissionTransfer --------------------------
(* Poll lists, FCs with their users and losses for MissionTransfer's runs.    *)
EXTENDS MissionTransfer

Polls   == <<"INAV_STATUS", "WP">>

(* INAV 7.1, whose missions 0 and 2 have a LAND; armed it refuses waypoints.  *)
Inav71 == [inav |-> TRUE, v4 |-> TRUE, lands |-> {0, 2}, rejects |-> {}, ops |-> Ops]
Armed  == [Inav71 EXCEPT !.rejects = {"SET_WP", "WP_MISSION_LOAD"}]

(* MultiWii: no approaches, no active mission, no EEPROM.                     *)
MultiWii == [inav |-> FALSE, v4 |-> FALSE, lands |-> {}, rejects |-> {},
             ops |-> {"upload", "download", "edit", "followme"}]

Does(ops) == [Inav71 EXCEPT !.ops = ops]

(* A user who does n things on a link that loses at most k messages.          *)
World(f, n, k) == [fc |-> f, mine |-> 1, env |-> [user |-> n, losses |-> k, late |-> FALSE,
                                           nopause |-> FALSE]]
Late(w) == [w EXCEPT !.env.late = TRUE]
Empty(w) == [w EXCEPT !.mine = 0]
NoPause(w) == [w EXCEPT !.env.nopause = TRUE]

Several    == {World(f, 2, 4) : f \in {Inav71, Armed, MultiWii}}
Transfers  == Several \cup {Empty(w) : w \in Several} \cup
              {Late(World(Does({"upload", "store"}), 1, 0)),
               NoPause(World(Does(Ops \ {"dbus", "edit", "followme"}), 3, 2))}
Downloads  == {Late(World(Does({"download"}), 1, 0))}
Both       == {World(Does({"upload", "download"}), 2, 0)}
Edits      == {World(Does({"edit", "restore"}), 2, 0)}
==============================================================================
