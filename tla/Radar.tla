-------------------------------- MODULE Radar --------------------------------
(* The traffic that mwp shows: the cache of plots and the markers on the map, *)
(* what decode_pba (readsb's protobuf over http), process_mavlink_radar and   *)
(* process_inav_radar_pos put in, what radar_periodic takes out, its          *)
(* proximity toast; and the reader that polls the http source.                *)
(*                                                                            *)
(* Everything runs in mwp's main loop. Two handlers loop over the cache or a  *)
(* frame; they take one step per item here, and nothing else runs meanwhile   *)
(* (pos, frame). Times are ages, in whole seconds; a GCS location is known and *)
(* every aircraft is in range, so that altitude and speed decide on alerts.   *)
EXTENDS Readsb

CONSTANTS
  LateStale, LateHide, LateDelete,   \* LateTime: 15, 30 and 60 s
  InavFactor,            \* so many times as long if not ADS-B: 10
  Second,                \* readsb counts in milliseconds: 1000
  AlertAltitude, AlertMinSpeed,   \* conf.radar_alert_altitude, _minspeed
  Aircraft, Nodes,       \* ids: ICAO addresses and INAV radar nodes
  Worlds,                \* external: what is sent and done, by name
  ChainMax               \* bound on the reader's timers and requests

VARIABLES
  cache,     \* radar_cache.lstore
  marker,    \* the map's markers, by id
  do_purge,
  pos, near, \* radar_periodic: i + 1, 0 when it does not run; Toast.id
  toast,     \* the id that the toast on display was made for
  vhidden,   \* "Hide symbols"
  todo,      \* decode_pba: the aircraft of the frame still to be plotted
  frame,     \* decode_pba: the frame, << >> when it does not run
  rd,        \* the reader of the http source
  env        \* external: the world, and what the user may still do

vars == <<cache, marker, do_purge, pos, near, toast, vhidden, todo, frame, rd, env>>

None   == -1
Ids    == Aircraft \cup Nodes
AgeMax == InavFactor * LateDelete + 1
Ages   == 0 .. AgeMax
Age(t) == IF t < AgeMax THEN t ELSE AgeMax

Status == {"UNDEF", "ARMED", "HIDDEN", "STALE"}
ADSB   == {"SBS", "MAVLINK"}
Plot   == [id : Ids, source : ADSB \cup {"INAV"}, age : Ages, state : Status,
           alert : BOOLEAN, alt : Int, speed : Int]
Entry  == [addr : Aircraft, catx : 0 .. 255, name : Seq(Nat), alt : Int, speed : Int,
           srange : Int, seen_tm : Nat, seen_pos : Nat, valid : {TRUE}]
Marker == {"none", "shown", "dim", "hidden"}

(* fetching: requests under way, doomed those that were cancelled; waits:     *)
(* interval timers; retries: 60 s timers, of which tid remembers the last.    *)
Reader == [enabled : BOOLEAN, cancelled : BOOLEAN, fetching : Nat, doomed : Nat,
           waits : Nat, retries : Nat, tid : BOOLEAN]

(* A world: readsb's frames, the MAVLink reports, the nodes heard; may        *)
(* requests fail; how often the user clicks. Frames are decoded once here.    *)
Frames  == UNION {Worlds[w].frames : w \in DOMAIN Worlds}
Decoded == [f \in Frames |-> decode_ac_pb(f)]

ASSUME RadarAssumption ==
  /\ {LateStale, LateHide, LateDelete, InavFactor, Second} \subseteq Nat \ {0}
  /\ LateStale < LateHide /\ LateHide < LateDelete
  /\ {AlertAltitude, AlertMinSpeed} \subseteq Int
  /\ Aircraft \subseteq Nat /\ Nodes \subseteq Nat /\ Aircraft \cap Nodes = {}
  /\ \A w \in DOMAIN Worlds :
       /\ \A f \in Worlds[w].frames :
            f # << >> /\ IsUpdate(f) /\ Decoded[f] \in Seq(Entry)
       /\ Worlds[w].mavs \subseteq [id : Aircraft, tslc : Nat, flags : BOOLEAN,
                                    alt : Int, speed : Int]
       /\ Worlds[w].nodes \subseteq Nodes
       /\ Worlds[w].fails \in BOOLEAN /\ Worlds[w].user \in Nat

----------------------------------------------------------------------------
(* RadarCache.                                                               *)

Where(id)  == {i \in DOMAIN cache : cache[i].id = id}
Cached(id) == Where(id) # {}
lookup(id) == cache[CHOOSE i \in Where(id) : TRUE]

(* Mutant: always a new row.                                                 *)
AppendAlways(p) == cache' = Append(cache, p)

upsert(p) ==
  cache' = IF Cached(p.id) THEN [i \in DOMAIN cache |-> IF cache[i].id = p.id THEN p ELSE cache[i]]
                           ELSE Append(cache, p)

RemoveAt(s, k) == [i \in 1 .. Len(s) - 1 |-> IF i < k THEN s[i] ELSE s[i + 1]]

(* RadarView.update: the alert of an ADS-B plot, unless symbols are hidden.  *)
WithAlert(p) ==
  IF ~vhidden /\ p.source \in ADSB
  THEN [p EXCEPT !.alert = p.speed > AlertMinSpeed /\ p.alt < AlertAltitude]
  ELSE p

set_initial_state(lq) ==
  CASE lq > LateHide                  -> "HIDDEN"
    [] lq > LateStale /\ ~(lq > LateHide) -> "STALE"
    [] ~(lq > LateStale)              -> "UNDEF"

update_marker(p) ==
  marker' = [marker EXCEPT ![p.id] = CASE p.state = "HIDDEN" -> "hidden"
                                       [] p.state = "STALE"  -> "dim"
                                       [] p.state \in {"UNDEF", "ARMED"} -> "shown"]

(* What every decoder ends with.                                             *)
Show(p) == upsert(WithAlert(p)) /\ update_marker(p)

NewPlot(id, src) == [id |-> id, source |-> src, age |-> 0, state |-> "UNDEF",
                     alert |-> FALSE, alt |-> 0, speed |-> 0]

Idle == pos = 0 /\ frame = << >>

----------------------------------------------------------------------------
(* decode_pba, one aircraft. One known from another source is passed over if *)
(* that source has seen it later.                                            *)

LqMax == 255

PlotNext ==
  /\ todo # << >>
  /\ LET a   == Head(todo)
         ri  == IF Cached(a.addr) THEN lookup(a.addr) ELSE NewPlot(a.addr, "SBS")
         age == Age(a.seen_tm \div Second)
         lts == a.seen_pos \div Second
         lq  == IF lts < 256 THEN lts ELSE LqMax
     IN  IF Cached(a.addr) /\ ri.source # "SBS" /\ age > ri.age
         THEN UNCHANGED <<cache, marker>>
         ELSE Show([ri EXCEPT !.source = "SBS", !.age = age, !.alt = a.alt,
                              !.speed = a.speed, !.state = set_initial_state(lq)])
  /\ todo' = Tail(todo)
  /\ UNCHANGED <<do_purge, pos, near, toast, vhidden, frame, rd, env>>

DecodeEnd ==
  /\ frame # << >> /\ todo = << >>
  /\ frame' = << >>
  /\ UNCHANGED <<cache, marker, do_purge, pos, near, toast, vhidden, todo, rd, env>>

(* process_mavlink_radar of a report m with a position: altitude and speed   *)
(* stay if their flags are not set, and so does the source of a known plot.  *)
MavlinkRadar(m) ==
  /\ Idle
  /\ LET ri == IF Cached(m.id) THEN lookup(m.id) ELSE NewPlot(m.id, "MAVLINK")
     IN  Show([ri EXCEPT !.age = Age(m.tslc), !.state = set_initial_state(m.tslc),
                         !.alt = IF m.flags THEN m.alt ELSE @,
                         !.speed = IF m.flags THEN m.speed ELSE @])
  /\ UNCHANGED <<do_purge, pos, near, toast, vhidden, todo, frame, rd, env>>

(* process_inav_radar_pos: the node sends its state.                         *)
InavRadarPos(id) ==
  /\ Idle
  /\ \E st \in Status :
       LET ri == IF Cached(id) THEN lookup(id) ELSE NewPlot(id, "INAV")
       IN  Show([ri EXCEPT !.age = 0, !.state = st])
  /\ UNCHANGED <<do_purge, pos, near, toast, vhidden, todo, frame, rd, env>>

----------------------------------------------------------------------------
(* radar_periodic, every 2 s. do_purge changes with every plot that the loop  *)
(* visits, and removing a plot moves the next one to a place already visited. *)

PeriodicBegin ==
  /\ Idle
  /\ pos' = 1 /\ near' = None
  /\ UNCHANGED <<cache, marker, do_purge, toast, vhidden, todo, frame, rd, env>>

(* A state of its own accord: a change takes the alert back until the view   *)
(* computes it again.                                                        *)
Aged(p, st) == WithAlert([p EXCEPT !.state = st, !.alert = @ /\ p.state = st])

(* Mutant: tracks go as soon as they are to be hidden.                       *)
PurgeEarly(p) ==
  IF p.age > LateHide /\ p.source \in ADSB
  THEN cache' = RemoveAt(cache, pos) /\ marker' = [marker EXCEPT ![p.id] = "none"]
  ELSE UNCHANGED <<cache, marker>>

Purge(p) ==
  LET f == IF p.source \in ADSB THEN 1 ELSE InavFactor
  IN  \/ /\ p.age > f * LateDelete
         /\ IF p.source \in ADSB
            THEN cache' = RemoveAt(cache, pos) /\ marker' = [marker EXCEPT ![p.id] = "none"]
            ELSE UNCHANGED <<cache, marker>>
      \/ /\ p.age > f * LateHide /\ p.age <= f * LateDelete
         /\ IF p.source \in ADSB
            THEN cache' = [cache EXCEPT ![pos] = Aged(p, "HIDDEN")]
                 /\ marker' = [marker EXCEPT ![p.id] = "hidden"]
            ELSE UNCHANGED <<cache, marker>>
      \/ /\ p.age > f * LateStale /\ p.age <= f * LateHide
         /\ cache' = [cache EXCEPT ![pos] = Aged(p, "STALE")]
         /\ marker' = [marker EXCEPT ![p.id] = IF @ = "shown" THEN "dim" ELSE @]
      \/ /\ p.age <= f * LateStale
         /\ cache' = IF p.source \in ADSB THEN [cache EXCEPT ![pos] = Aged(p, "UNDEF")] ELSE cache
         /\ UNCHANGED marker

(* The nearest plot that alerts and is not stale gets the toast.             *)
Nearest(r) ==
  IF r.state # "STALE" /\ r.alert
  THEN near' \in (IF near = None THEN {r.id} ELSE {near, r.id})
  ELSE near' = near

(* The plot as the loop leaves it, in the cache or removed from it.          *)
Visited(c, p) == IF \E i \in DOMAIN c : c[i].id = p.id
                 THEN c[CHOOSE i \in DOMAIN c : c[i].id = p.id] ELSE p

PeriodicItem ==
  /\ pos \in DOMAIN cache
  /\ IF do_purge THEN Purge(cache[pos]) ELSE UNCHANGED <<cache, marker>>
  /\ Nearest(Visited(cache', cache[pos]))
  /\ do_purge' = ~do_purge
  /\ pos' = pos + 1
  /\ UNCHANGED <<toast, vhidden, todo, frame, rd, env>>

(* Mutant: do_purge changes once more at the end, so that an odd number of   *)
(* plots is even to it.                                                      *)
ToggleAtEnd ==
  /\ pos > Len(cache)
  /\ toast' = IF near # None /\ Cached(near) THEN near ELSE None
  /\ pos' = 0 /\ near' = None /\ do_purge' = ~do_purge
  /\ UNCHANGED <<cache, marker, vhidden, todo, frame, rd, env>>

PeriodicEnd ==
  /\ pos > Len(cache)
  /\ toast' = IF near # None /\ Cached(near) THEN near ELSE None
  /\ pos' = 0 /\ near' = None
  /\ UNCHANGED <<cache, marker, do_purge, vhidden, todo, frame, rd, env>>

----------------------------------------------------------------------------
(* The http source. poll begins a request; a request that succeeds sets the  *)
(* interval timer, one that fails a timer of 60 s if the device is enabled.  *)

poll(r) == [r EXCEPT !.fetching = @ + 1, !.doomed = IF r.cancelled THEN @ + 1 ELSE @]

Failed(r) == [r EXCEPT !.fetching = @ - 1, !.tid = @ \/ r.enabled,
                       !.retries = IF r.enabled THEN @ + 1 ELSE @]

Chains == rd.fetching + rd.waits + rd.retries

FetchOk ==
  /\ Idle /\ rd.fetching > rd.doomed
  /\ \E f \in Worlds[env.world].frames : frame' = f /\ todo' = Decoded[f]
  /\ rd' = [rd EXCEPT !.fetching = @ - 1, !.waits = @ + 1]
  /\ UNCHANGED <<cache, marker, do_purge, pos, near, toast, vhidden, env>>

(* Mutant: the cancellable is not reset after it was used.                   *)
StaysCancelled ==
  /\ Idle
  /\ \/ rd.doomed > 0 /\ rd' = [Failed(rd) EXCEPT !.doomed = @ - 1]
     \/ /\ Worlds[env.world].fails /\ rd.fetching > rd.doomed
        /\ rd' = Failed(rd)
  /\ UNCHANGED <<cache, marker, do_purge, pos, near, toast, vhidden, todo, frame, env>>

(* The request was cancelled, or there is no connection.                     *)
FetchThrows ==
  /\ Idle
  /\ \/ rd.doomed > 0 /\ rd' = [Failed(rd) EXCEPT !.doomed = @ - 1, !.cancelled = FALSE]
     \/ /\ Worlds[env.world].fails /\ rd.fetching > rd.doomed
        /\ rd' = [Failed(rd) EXCEPT !.cancelled = FALSE]
  /\ UNCHANGED <<cache, marker, do_purge, pos, near, toast, vhidden, todo, frame, env>>

(* An answer other than 200.                                                 *)
FetchRefused ==
  /\ Idle /\ Worlds[env.world].fails /\ rd.fetching > rd.doomed
  /\ rd' = Failed(rd)
  /\ UNCHANGED <<cache, marker, do_purge, pos, near, toast, vhidden, todo, frame, env>>

PollTimer ==
  /\ Idle
  /\ \/ rd.waits > 0 /\ rd' = poll([rd EXCEPT !.waits = @ - 1])
     \/ rd.retries > 0 /\ rd' = poll([rd EXCEPT !.retries = @ - 1, !.tid = FALSE])
  /\ UNCHANGED <<cache, marker, do_purge, pos, near, toast, vhidden, todo, frame, env>>

(* Mutant: the retry timer is taken away whether there is one or not.        *)
DisabledTwice(r) ==
  [r EXCEPT !.enabled = FALSE, !.retries = @ - 1, !.tid = FALSE,
            !.cancelled = TRUE, !.doomed = r.fetching]

(* update_active.                                                            *)
Disabled(r) ==
  [r EXCEPT !.enabled = FALSE, !.retries = IF r.tid THEN @ - 1 ELSE @, !.tid = FALSE,
            !.cancelled = TRUE, !.doomed = r.fetching]

UserSwitches ==
  /\ Idle /\ env.user > 0 /\ Chains < ChainMax
  /\ env' = [env EXCEPT !.user = @ - 1]
  /\ rd' = IF rd.enabled THEN Disabled(rd) ELSE poll([rd EXCEPT !.enabled = TRUE])
  /\ UNCHANGED <<cache, marker, do_purge, pos, near, toast, vhidden, todo, frame>>

UserHides ==
  /\ Idle /\ env.user > 0
  /\ env' = [env EXCEPT !.user = @ - 1]
  /\ vhidden' = ~vhidden
  /\ UNCHANGED <<cache, marker, do_purge, pos, near, toast, todo, frame, rd>>

UserDismisses ==
  /\ Idle /\ toast # None
  /\ toast' = None
  /\ UNCHANGED <<cache, marker, do_purge, pos, near, vhidden, todo, frame, rd, env>>

(* External: a second passes.                                                *)
Tick ==
  /\ Idle
  /\ cache' = [i \in DOMAIN cache |-> [cache[i] EXCEPT !.age = Age(@ + 1)]]
  /\ UNCHANGED <<marker, do_purge, pos, near, toast, vhidden, todo, frame, rd, env>>
----------------------------------------------------------------------------
Init ==
  /\ cache = << >> /\ marker = [id \in Ids |-> "none"]
  /\ do_purge = FALSE /\ pos = 0 /\ near = None /\ toast = None /\ vhidden = FALSE
  /\ todo = << >> /\ frame = << >>
  /\ rd = [enabled |-> TRUE, cancelled |-> FALSE, fetching |-> 1, doomed |-> 0,
           waits |-> 0, retries |-> 0, tid |-> FALSE]
  /\ \E w \in DOMAIN Worlds : env = [world |-> w, user |-> Worlds[w].user]

Reports ==
  \/ \E m \in Worlds[env.world].mavs : MavlinkRadar(m)
  \/ \E id \in Worlds[env.world].nodes : InavRadarPos(id)

Loop   == PlotNext \/ DecodeEnd \/ PeriodicItem \/ PeriodicEnd
Fetch  == FetchOk \/ FetchThrows \/ FetchRefused
User   == UserSwitches \/ UserHides \/ UserDismisses

Next == Loop \/ PeriodicBegin \/ Fetch \/ PollTimer \/ Reports \/ User \/ Tick

(* The main loop's timers fire and its handlers end; readsb answers.         *)
Fairness ==
  /\ WF_vars(Loop) /\ SF_vars(PeriodicBegin) /\ SF_vars(Tick)
  /\ SF_vars(Fetch) /\ SF_vars(PollTimer)

Spec == Init /\ [][Next]_vars /\ Fairness
----------------------------------------------------------------------------
(* Every variable keeps its type: the reader's counts are never negative, no  *)
(* timer is taken away that is not there, and the toast names an id.         *)
TypeOK ==
  /\ cache \in Seq(Plot) /\ marker \in [Ids -> Marker]
  /\ do_purge \in BOOLEAN /\ pos \in Nat /\ {near, toast} \subseteq Ids \cup {None}
  /\ vhidden \in BOOLEAN /\ todo \in Seq(Entry) /\ rd \in Reader
  /\ env.world \in DOMAIN Worlds /\ env = [world |-> env.world, user |-> env.user]
  /\ env.user \in Nat

(* The list and the map agree: a plot is in the cache once, it has a marker, *)
(* one that is hidden is not seen, and there is no marker without a plot.    *)
MapAgrees ==
  /\ \A i, j \in DOMAIN cache : cache[i].id = cache[j].id => i = j
  /\ \A i \in DOMAIN cache :
       /\ marker[cache[i].id] # "none"
       /\ cache[i].state = "HIDDEN" => marker[cache[i].id] = "hidden"
  /\ \A id \in Ids : marker[id] # "none" => Cached(id)

(* Nothing is removed but an ADS-B track that was silent for LateDelete;     *)
(* INAV radar contacts never are.                                            *)
OnlyExpiredRemoved ==
  [][\A i \in DOMAIN cache :
       \/ \E j \in DOMAIN cache' : cache'[j].id = cache[i].id
       \/ cache[i].source \in ADSB /\ cache[i].age > LateDelete]_vars

(* The toast that is on display between two runs of radar_periodic names a   *)
(* track that is in the list.                                                *)
ToastIsCached == pos = 0 /\ toast # None => Cached(toast)

(* What is plotted is what the frame says, field by field, and nothing if any *)
(* field of a message in it is of the wrong type: the reference finds values  *)
(* by the tags of readsb.proto, not through the ranges.                       *)
ByTag(w, t, default) == LastOf(w, {i \in DOMAIN w : w[i].tag = t}, default)

WrongType(fields, w) ==
  \E i \in DOMAIN w, k \in DOMAIN fields :
    fields[k][1] = w[i].tag /\ WireType(fields[k][3]) # w[i].wt

Within(w, t, Wrong(_)) == \E i \in DOMAIN w : w[i].tag = t /\ Wrong(w[i].val)

BadHistory(h) == WrongType(History.fields, h)
BadModes(n)   == WrongType(NavModes.fields, n)
BadSource(v)  == WrongType(ValidSource.fields, v)
BadMeta(m)    == \/ WrongType(AircraftMeta.fields, m)
                 \/ Within(m, 150, BadModes) \/ Within(m, 151, BadSource)
Malformed(f)  == \/ WrongType(Update.fields, f)
                 \/ Within(f, 14, BadHistory) \/ Within(f, 15, BadMeta)

(* readsb has the value of tag t.                                            *)
HasValue(m, t) == ByTag(ByTag(m, 151, << >>), t, 0) > 0

Told(m) == <<ByTag(m, 1, 0), IF HasValue(m, 101) THEN ByTag(m, 5, 0) ELSE 0,
             IF HasValue(m, 103) THEN ByTag(m, 23, 0) ELSE 0, ByTag(m, 11, 0),
             ByTag(m, 41, 0)>>

Expected(f) ==
  LET acs == Values(f, {i \in DOMAIN f : f[i].tag = 15 /\ HasValue(f[i].val, 121)})
  IN  IF Malformed(f) THEN << >> ELSE [i \in DOMAIN acs |-> Told(acs[i])]

DecodedRight ==
  frame # << >> =>
    LET e == Expected(frame)
    IN  \E k \in 0 .. Len(e) :
          /\ Len(todo) = Len(e) - k
          /\ \A i \in DOMAIN todo :
               <<todo[i].addr, todo[i].alt, todo[i].speed, todo[i].seen_tm, todo[i].seen_pos>>
                 = e[i + k]

(* As long as their number is odd, radar_periodic comes to every plot: no    *)
(* track stays in the list for ever after it has expired.                    *)
Expired == \E i \in DOMAIN cache : cache[i].source \in ADSB /\ cache[i].age > LateDelete
OddCachePurges == ~<>[](Len(cache) % 2 = 1 /\ Expired)

(* A device that is left enabled gets frames again and again, whatever       *)
(* switching off and on went before.                                         *)
DeviceComesBack == <>[]rd.enabled => []<>(Worlds[env.world].fails \/ rd.waits > 0)

(* "MAVLink Traffic Report / SDR tracks are removed from the list [...] after *)
(* 10 minutes inactivity" (mwp-Radar-View.md): an expired track is removed or *)
(* heard again.                                                               *)
ExpiredTracksGo ==
  \A id \in Aircraft :
    (Cached(id) /\ lookup(id).age > LateDelete) ~> ~(Cached(id) /\ lookup(id).age > LateDelete)
==============================================================================
