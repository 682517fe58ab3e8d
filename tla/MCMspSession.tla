---------------------------- MODULE MCMspSession ----------------------------
(* Flight controllers and the sets of them that the runs of MspSession use. *)
EXTENDS MspSession

(* INAV 7.1, polled for attitude and the ADSB list.                         *)
Inav71 ==
  [silent |-> FALSE, msp2 |-> TRUE, mixer |-> TRUE, navconfig |-> FALSE, inav |-> TRUE,
   flash |-> FALSE, tz |-> FALSE, vers |-> hasAdsbList, offset |-> FALSE, gz |-> FALSE,
   nvert |-> 0, sensors |-> {"ACC"}, adsb |-> TRUE,
   rejects |-> {"IDENT"}, nosetting |-> {}]

(* INAV 8 with two geozone vertices, flash and a time zone to set.          *)
Inav80 == [Inav71 EXCEPT !.vers = hasGeoZones, !.gz = TRUE, !.nvert = 2,
                         !.flash = TRUE, !.tz = TRUE, !.sensors = {"BARO"},
                         !.adsb = FALSE]

(* INAV 2.6, and 4.0 which does not know FW_APPROACH.                       *)
Inav26 == [Inav71 EXCEPT !.vers = hasPOI, !.offset = TRUE, !.rejects = {}, !.adsb = FALSE]
Inav40 == [Inav71 EXCEPT !.vers = hasSAFEAPI + 1, !.adsb = FALSE,
                         !.rejects = {"FW_APPROACH"}]

(* Not INAV: no box status, no mixer; and MultiWii with its own NAV.        *)
Other == [Inav71 EXCEPT !.inav = FALSE, !.msp2 = FALSE, !.mixer = FALSE, !.adsb = FALSE,
                        !.rejects = {"ACTIVEBOXES", "STATUS_EX", "RX_MAP"}]
MultiWii == [Other EXCEPT !.navconfig = TRUE, !.rejects = {"API_VERSION"}]

(* What happens to the session: nothing, loss, breaks, telemetry, a user.   *)
Nothing  == [lossy |-> FALSE, breaks |-> 0, frames |-> 0, user |-> 0]
Lossy    == [Nothing EXCEPT !.lossy = TRUE]
Breaks(n) == [Nothing EXCEPT !.breaks = n]
Frames(n) == [Nothing EXCEPT !.frames = n]
Reboots(n) == [Nothing EXCEPT !.user = n]

World(f, e) == [fc |-> f, env |-> e]

EveryFC  == {Inav71, Inav80, Inav26, Inav40, Other, MultiWii}
Startups == {World(f, Lossy) : f \in EveryFC}
OneBreak == {World(Inav71, Breaks(1))}
OneFrame == {World(Inav71, Frames(1))}
Troubled == {World(Inav71, e) : e \in {Breaks(2), Frames(2), Reboots(2)}}
=============================================================================
