------------------------------ MODULE RadarProofs ------------------------------
(* For every set of aircraft, nodes, frames and thresholds: the list and the  *)
(* map agree, only expired ADS-B tracks are removed, the toast names a track  *)
(* of the list, and what is plotted of a frame is what its tags say.          *)
EXTENDS Radar, SequenceTheorems, WellFoundedInduction, TLAPS

(* The bookkeeping of the reader that its types rest on: no more cancelled    *)
(* requests than requests, and tid is a timer that is there.                  *)
ReaderCounts == rd.doomed <= rd.fetching /\ (rd.tid => rd.retries > 0)

IInv == TypeOK /\ MapAgrees /\ ReaderCounts /\ ToastIsCached

----------------------------------------------------------------------------
(* The limits are numbers, and an empty toast names no track.              *)
LEMMA Numbers ==
  /\ LateStale \in Nat /\ LateHide \in Nat /\ LateDelete \in Nat
  /\ InavFactor \in Nat /\ Second \in Nat \ {0}
  /\ AgeMax \in Nat /\ None \notin Ids
<1>1. InavFactor * LateDelete \in Nat
  BY RadarAssumption
<1>2. AgeMax \in Nat
  BY <1>1 DEF AgeMax
<1>3. QED BY <1>2, RadarAssumption DEF Ids, None

(* An age saturates.                                                       *)
LEMMA AgeType == ASSUME NEW t \in Nat PROVE Age(t) \in Ages
  BY Numbers DEF Age, Ages

(* What the plots of the cache carry.                                      *)
LEMMA IdsOfCache ==
  ASSUME cache \in Seq(Plot)
  PROVE  \A i \in DOMAIN cache :
           cache[i] \in Plot /\ cache[i].id \in Ids /\ cache[i].age \in Ages
<1>1. \A i \in DOMAIN cache : cache[i] \in Plot
  OBVIOUS
<1>2. QED BY <1>1 DEF Plot

(* A contact's state from its link quality.                                *)
LEMMA StateType == ASSUME NEW lq \in Nat PROVE set_initial_state(lq) \in Status
  BY Numbers DEF set_initial_state, Status

(* The alert changes nothing else.                                         *)
LEMMA AlertType ==
  ASSUME NEW p \in Plot, vhidden \in BOOLEAN
  PROVE  /\ WithAlert(p) \in Plot /\ WithAlert(p).id = p.id
         /\ WithAlert(p).state = p.state /\ WithAlert(p).source = p.source
         /\ WithAlert(p).age = p.age
  BY RadarAssumption DEF WithAlert, Plot

(* Nor does a new state.                                                   *)
LEMMA AgedType ==
  ASSUME NEW p \in Plot, NEW st \in Status, vhidden \in BOOLEAN
  PROVE  Aged(p, st) \in Plot /\ Aged(p, st).id = p.id /\ Aged(p, st).state = st
<1> DEFINE q == [p EXCEPT !.state = st, !.alert = @ /\ p.state = st]
<1>1. q \in Plot /\ q.id = p.id /\ q.state = st
  BY DEF Plot
<1>2. QED BY <1>1, AlertType DEF Aged

(* A track heard of for the first time.                                    *)
LEMMA NewPlotType ==
  ASSUME NEW id \in Ids, NEW src \in ADSB \cup {"INAV"}
  PROVE  NewPlot(id, src) \in Plot /\ NewPlot(id, src).id = id
  BY Numbers DEF NewPlot, Plot, Ages, Status

(* A plot that lookup finds has the id and is one of the cache.               *)
LEMMA LookupType ==
  ASSUME NEW id, cache \in Seq(Plot), Cached(id)
  PROVE  /\ lookup(id) \in Plot /\ lookup(id).id = id
         /\ \E i \in DOMAIN cache : lookup(id) = cache[i]
<1>1. PICK i \in Where(id) : lookup(id) = cache[i]
  BY DEF Cached, lookup
<1>2. i \in DOMAIN cache /\ cache[i].id = id
  BY <1>1 DEF Where
<1>3. QED BY <1>1, <1>2

(* upsert and the marker keep list and map in agreement.                      *)
LEMMA ShowAgrees ==
  ASSUME cache \in Seq(Plot), marker \in [Ids -> Marker], vhidden \in BOOLEAN,
         MapAgrees, NEW p \in Plot, Show(p)
  PROVE  /\ cache' \in Seq(Plot) /\ marker' \in [Ids -> Marker] /\ MapAgrees'
         /\ \A i \in DOMAIN cache : \E j \in DOMAIN cache' : cache'[j].id = cache[i].id
<1> DEFINE q == WithAlert(p)
<1>1. q \in Plot /\ q.id = p.id /\ q.state = p.state /\ p.id \in Ids /\ p.state \in Status
  BY AlertType DEF Plot
<1>2. marker' = [marker EXCEPT ![p.id] = marker'[p.id]] /\ marker' \in [Ids -> Marker]
      /\ marker'[p.id] # "none" /\ (p.state = "HIDDEN" => marker'[p.id] = "hidden")
  BY <1>1 DEF Show, update_marker, Marker, Status
<1>3. CASE Cached(p.id)
  <2>1. cache' = [i \in DOMAIN cache |-> IF cache[i].id = p.id THEN q ELSE cache[i]]
    BY <1>1, <1>3 DEF Show, upsert
  <2>2. DOMAIN cache' = DOMAIN cache /\ cache' \in Seq(Plot)
    BY <1>1, <2>1, IsASeq, LenProperties, ElementOfSeq
  <2>3. \A i \in DOMAIN cache : cache'[i].id = cache[i].id
    BY <1>1, <2>1
  <2>4. \A id : Cached(id) => Cached(id)'
    BY <2>2, <2>3 DEF Cached, Where
  <2>5. \A i \in DOMAIN cache : cache[i].id = p.id => cache'[i] = q
    BY <2>1
  <2>6. \A i \in DOMAIN cache : cache[i].id # p.id =>
          cache'[i] = cache[i] /\ marker'[cache[i].id] = marker[cache[i].id]
    BY <1>2, <2>1, IdsOfCache
  <2>7. MapAgrees'
    <3>1. \A i, j \in DOMAIN cache' : cache'[i].id = cache'[j].id => i = j
      BY <2>2, <2>3 DEF MapAgrees
    <3>2. ASSUME NEW i \in DOMAIN cache'
          PROVE  /\ marker'[cache'[i].id] # "none"
                 /\ cache'[i].state = "HIDDEN" => marker'[cache'[i].id] = "hidden"
      <4>1. CASE cache[i].id = p.id
        BY <1>1, <1>2, <2>2, <2>5, <4>1
      <4>2. CASE cache[i].id # p.id
        BY <2>2, <2>6, <4>2 DEF MapAgrees
      <4>3. QED BY <4>1, <4>2
    <3>3. \A id \in Ids : marker'[id] # "none" => Cached(id)'
      <4>1. TAKE id \in Ids
      <4>2. CASE id = p.id
        BY <1>3, <2>4, <4>2
      <4>3. CASE id # p.id
        BY <1>2, <2>4, <4>3 DEF MapAgrees
      <4>4. QED BY <4>2, <4>3
    <3>4. QED BY <3>1, <3>2, <3>3 DEF MapAgrees
  <2>8. QED BY <1>2, <2>2, <2>3, <2>7
<1>4. CASE ~Cached(p.id)
  <2>1. cache' = Append(cache, q)
    BY <1>1, <1>4 DEF Show, upsert
  <2>2. /\ cache' \in Seq(Plot) /\ DOMAIN cache = 1 .. Len(cache)
        /\ DOMAIN cache' = 1 .. Len(cache) + 1 /\ Len(cache) \in Nat
        /\ cache'[Len(cache) + 1] = q
        /\ \A i \in DOMAIN cache : cache'[i] = cache[i]
    BY <1>1, <2>1, AppendProperties, LenProperties
  <2>3. \A i \in DOMAIN cache : cache[i].id # p.id /\ cache[i].id \in Ids
    BY <1>4, IdsOfCache DEF Cached, Where
  <2>4. \A i \in DOMAIN cache : marker'[cache[i].id] = marker[cache[i].id]
    BY <1>2, <2>3
  <2>5. \A id \in Ids : marker'[id] # "none" => Cached(id)'
    <3>1. TAKE id \in Ids
    <3>2. CASE id = p.id
      BY <1>1, <2>2, <3>2 DEF Cached, Where
    <3>3. CASE id # p.id
      BY <1>2, <2>2, <3>3 DEF MapAgrees, Cached, Where
    <3>4. QED BY <3>2, <3>3
  <2>6. MapAgrees'
    <3>1. \A i \in DOMAIN cache' : i \in DOMAIN cache \/ i = Len(cache) + 1
      BY <2>2
    <3>2. \A i, j \in DOMAIN cache' : cache'[i].id = cache'[j].id => i = j
      BY <1>1, <2>2, <2>3, <3>1 DEF MapAgrees
    <3>3. ASSUME NEW i \in DOMAIN cache'
          PROVE  /\ marker'[cache'[i].id] # "none"
                 /\ cache'[i].state = "HIDDEN" => marker'[cache'[i].id] = "hidden"
      <4>1. CASE i \in DOMAIN cache
        BY <2>2, <2>4, <4>1 DEF MapAgrees
      <4>2. CASE i = Len(cache) + 1
        <5>1. cache'[i] = q
          BY <2>2, <4>2
        <5>2. QED BY <1>1, <1>2, <5>1
      <4>3. QED BY <3>1, <4>1, <4>2
    <3>4. QED BY <2>5, <3>2, <3>3 DEF MapAgrees
  <2>7. QED BY <1>2, <2>2, <2>6
<1>5. QED BY <1>3, <1>4

(* What a step may do to the list: OnlyExpiredRemoved's action.               *)
Kept ==
  \A i \in DOMAIN cache :
    \/ \E j \in DOMAIN cache' : cache'[j].id = cache[i].id
    \/ cache[i].source \in ADSB /\ cache[i].age > LateDelete

----------------------------------------------------------------------------
(* radar_periodic's steps: a plot is changed in its place, or removed.        *)
LEMMA ReplaceAgrees ==
  ASSUME cache \in Seq(Plot), marker \in [Ids -> Marker], MapAgrees,
         pos \in DOMAIN cache, NEW q \in Plot, q.id = cache[pos].id,
         NEW m \in Marker, m # "none", q.state = "HIDDEN" => m = "hidden",
         cache' = [cache EXCEPT ![pos] = q], marker' = [marker EXCEPT ![q.id] = m]
  PROVE  cache' \in Seq(Plot) /\ marker' \in [Ids -> Marker] /\ MapAgrees' /\ Kept
<1>1. cache' \in Seq(Plot) /\ DOMAIN cache' = DOMAIN cache
  BY ExceptSeq
<1>2. q.id \in Ids
  BY DEF Plot
<1>3. marker' \in [Ids -> Marker] /\ marker'[q.id] = m
      /\ \A id \in Ids : id # q.id => marker'[id] = marker[id]
  BY <1>2
<1>4. cache'[pos] = q /\ \A i \in DOMAIN cache : i # pos => cache'[i] = cache[i]
  OBVIOUS
<1>5. \A i \in DOMAIN cache : cache'[i].id = cache[i].id
  BY <1>4
<1>6. \A id : Cached(id) => Cached(id)'
  BY <1>1, <1>5 DEF Cached, Where
<1>7. \A i \in DOMAIN cache : i # pos => cache[i].id # q.id /\ cache[i].id \in Ids
  BY IdsOfCache DEF MapAgrees
<1>8. Cached(q.id)
  BY DEF Cached, Where
<1>9. MapAgrees'
  <2>1. \A i, j \in DOMAIN cache' : cache'[i].id = cache'[j].id => i = j
    BY <1>1, <1>5 DEF MapAgrees
  <2>2. \A i \in DOMAIN cache' : /\ marker'[cache'[i].id] # "none"
                                 /\ cache'[i].state = "HIDDEN" => marker'[cache'[i].id] = "hidden"
    BY <1>1, <1>3, <1>4, <1>7 DEF MapAgrees
  <2>3. \A id \in Ids : marker'[id] # "none" => Cached(id)'
    BY <1>3, <1>6, <1>8 DEF MapAgrees
  <2>4. QED BY <2>1, <2>2, <2>3 DEF MapAgrees
<1>10. QED BY <1>1, <1>3, <1>5, <1>9 DEF Kept

(* A plot removed from the list and from the map.                          *)
LEMMA RemoveAgrees ==
  ASSUME cache \in Seq(Plot), marker \in [Ids -> Marker], MapAgrees,
         pos \in DOMAIN cache, cache[pos].source \in ADSB, cache[pos].age > LateDelete,
         cache' = RemoveAt(cache, pos), marker' = [marker EXCEPT ![cache[pos].id] = "none"]
  PROVE  cache' \in Seq(Plot) /\ marker' \in [Ids -> Marker] /\ MapAgrees' /\ Kept
<1> DEFINE n == Len(cache) - 1
           old(i) == IF i < pos THEN i ELSE i + 1
<1>1. n \in Nat /\ DOMAIN cache = 1 .. n + 1 /\ pos \in 1 .. n + 1
  BY LenProperties
<1>2. cache' = [i \in 1 .. n |-> IF i < pos THEN cache[i] ELSE cache[i + 1]]
  BY DEF RemoveAt
<1>3. \A i \in 1 .. n : old(i) \in DOMAIN cache /\ old(i) # pos /\ cache'[i] = cache[old(i)]
  BY <1>1, <1>2
<1>4. \A i, j \in 1 .. n : old(i) = old(j) => i = j
  BY <1>1
<1>5. \A k \in DOMAIN cache : k # pos => \E i \in 1 .. n : old(i) = k
  <2>1. SUFFICES ASSUME NEW k \in DOMAIN cache, k # pos PROVE \E i \in 1 .. n : old(i) = k
    OBVIOUS
  <2>2. CASE k < pos
    <3>1. k \in 1 .. n /\ old(k) = k
      BY <1>1, <2>1, <2>2
    <3>2. QED BY <3>1
  <2>3. CASE k > pos
    <3>1. k - 1 \in 1 .. n /\ old(k - 1) = k
      BY <1>1, <2>1, <2>3
    <3>2. QED BY <3>1
  <2>4. QED BY <1>1, <2>1, <2>2, <2>3
<1> HIDE DEF old, n
<1>6. \A i \in 1 .. n : cache'[i] \in Plot
  BY <1>3, IdsOfCache
<1>7. cache' \in Seq(Plot) /\ DOMAIN cache' = 1 .. n
  <2>1. DOMAIN cache' = 1 .. n /\ cache' = [i \in 1 .. n |-> cache'[i]]
    BY <1>2
  <2>2. QED BY <1>1, <1>6, <2>1, IsASeq
<1>8. cache[pos].id \in Ids
  BY IdsOfCache
<1>9. marker' \in [Ids -> Marker] /\ marker'[cache[pos].id] = "none"
      /\ \A id \in Ids : id # cache[pos].id => marker'[id] = marker[id]
  BY <1>8 DEF Marker
<1>10. \A i \in DOMAIN cache : i # pos => cache[i].id # cache[pos].id /\ cache[i].id \in Ids
  BY IdsOfCache DEF MapAgrees
<1>11. MapAgrees'
  <2>1. \A i, j \in DOMAIN cache' : cache'[i].id = cache'[j].id => i = j
    BY <1>3, <1>4, <1>7 DEF MapAgrees
  <2>2. \A i \in DOMAIN cache' : /\ marker'[cache'[i].id] # "none"
                                 /\ cache'[i].state = "HIDDEN" => marker'[cache'[i].id] = "hidden"
    BY <1>3, <1>7, <1>9, <1>10 DEF MapAgrees
  <2>3. \A id \in Ids : marker'[id] # "none" => Cached(id)'
    <3>1. SUFFICES ASSUME NEW id \in Ids, marker'[id] # "none" PROVE Cached(id)'
      OBVIOUS
    <3>2. marker[id] # "none" /\ id # cache[pos].id
      BY <1>9, <3>1
    <3>3. PICK k \in DOMAIN cache : cache[k].id = id
      BY <3>2 DEF MapAgrees, Cached, Where
    <3>4. PICK i \in 1 .. n : old(i) = k
      BY <1>5, <3>2, <3>3
    <3>5. QED BY <1>3, <1>7, <3>3, <3>4 DEF Cached, Where
  <2>4. QED BY <2>1, <2>2, <2>3 DEF MapAgrees
<1>12. Kept
  <2>1. SUFFICES ASSUME NEW i \in DOMAIN cache, i # pos
                 PROVE  \E j \in DOMAIN cache' : cache'[j].id = cache[i].id
    BY DEF Kept
  <2>2. PICK j \in 1 .. n : old(j) = i
    BY <1>5, <2>1
  <2>3. QED BY <1>3, <1>7, <2>2
<1>13. QED BY <1>7, <1>9, <1>11, <1>12

(* radar_periodic for one plot: removed, hidden, stale or left alone.      *)
LEMMA PurgeAgrees ==
  ASSUME cache \in Seq(Plot), marker \in [Ids -> Marker], vhidden \in BOOLEAN, MapAgrees,
         pos \in DOMAIN cache, Purge(cache[pos])
  PROVE  cache' \in Seq(Plot) /\ marker' \in [Ids -> Marker] /\ MapAgrees' /\ Kept
<1> DEFINE p == cache[pos]
           f == IF p.source \in ADSB THEN 1 ELSE InavFactor
           Put(st, m) == /\ cache' = [cache EXCEPT ![pos] = Aged(p, st)]
                         /\ marker' = [marker EXCEPT ![p.id] = m]
<1>1. p \in Plot /\ p.id \in Ids /\ p.age \in Nat /\ LateDelete \in Nat
  BY IdsOfCache, Numbers DEF Ages
<1>2. marker[p.id] \in Marker \ {"none"}
  BY <1>1 DEF MapAgrees
<1>3. ASSUME NEW st \in Status, NEW m \in Marker \ {"none"}, st = "HIDDEN" => m = "hidden",
             Put(st, m)
      PROVE  cache' \in Seq(Plot) /\ marker' \in [Ids -> Marker] /\ MapAgrees' /\ Kept
  <2>1. Aged(p, st) \in Plot /\ Aged(p, st).id = p.id /\ Aged(p, st).state = st
    BY <1>1, AgedType
  <2>2. QED BY <1>3, <2>1, ReplaceAgrees
<1>4. ASSUME UNCHANGED <<cache, marker>>
      PROVE  cache' \in Seq(Plot) /\ marker' \in [Ids -> Marker] /\ MapAgrees' /\ Kept
  BY <1>4 DEF MapAgrees, Cached, Where, Kept
<1>5. CASE p.source \in ADSB /\ p.age > LateDelete /\ cache' = RemoveAt(cache, pos)
           /\ marker' = [marker EXCEPT ![p.id] = "none"]
  BY <1>5, RemoveAgrees
<1>6. CASE Put("HIDDEN", "hidden")
  BY <1>3, <1>6 DEF Status, Marker
<1>7. CASE Put("STALE", IF marker[p.id] = "shown" THEN "dim" ELSE marker[p.id])
  BY <1>2, <1>3, <1>7 DEF Status, Marker
<1>8. CASE cache' = [cache EXCEPT ![pos] = Aged(p, "UNDEF")] /\ UNCHANGED marker
  <2>1. marker' = [marker EXCEPT ![p.id] = marker[p.id]]
    BY <1>8
  <2>2. QED BY <1>2, <1>3, <1>8, <2>1 DEF Status
<1>9. QED
  <2>1. p.source \in ADSB => f * LateDelete = LateDelete
    BY <1>1
  <2>2. QED BY <1>4, <1>5, <1>6, <1>7, <1>8, <2>1 DEF Purge

(* What the loop has seen it still knows by its id.                        *)
LEMMA VisitedId == ASSUME NEW c, NEW p PROVE Visited(c, p).id = p.id
  BY DEF Visited

----------------------------------------------------------------------------
(* The steps of the handlers that show a plot.                                *)
LEMMA PlotNextShows ==
  ASSUME TypeOK, PlotNext
  PROVE  /\ UNCHANGED <<cache, marker>> \/ \E p \in Plot : Show(p)
         /\ todo' \in Seq(Entry)
<1> DEFINE a   == Head(todo)
           ri  == IF Cached(a.addr) THEN lookup(a.addr) ELSE NewPlot(a.addr, "SBS")
           age == Age(a.seen_tm \div Second)
           lts == a.seen_pos \div Second
           lq  == IF lts < 256 THEN lts ELSE LqMax
           p   == [ri EXCEPT !.source = "SBS", !.age = age, !.alt = a.alt,
                             !.speed = a.speed, !.state = set_initial_state(lq)]
<1>1. a \in Entry /\ Tail(todo) \in Seq(Entry)
  BY DEF TypeOK, PlotNext
<1>2. a.addr \in Ids /\ a.seen_tm \in Nat /\ a.seen_pos \in Nat /\ a.alt \in Int /\ a.speed \in Int
  BY <1>1 DEF Entry, Ids
<1>3. ri \in Plot
  BY <1>2, LookupType, NewPlotType DEF TypeOK, ADSB
<1>4. a.seen_tm \div Second \in Nat /\ lts \in Nat
  BY <1>2, Numbers
<1>5. age \in Ages /\ set_initial_state(lq) \in Status
  BY <1>4, AgeType, StateType DEF LqMax
<1> HIDE DEF ri, age, lq, a
<1>6. p \in Plot
  BY <1>2, <1>3, <1>5 DEF Plot, ADSB
<1>7. UNCHANGED <<cache, marker>> \/ Show(p)
  BY DEF PlotNext, a, ri, age, lq
<1>8. QED BY <1>1, <1>6, <1>7 DEF PlotNext, a

(* A MAVLink contact shows a plot.                                         *)
LEMMA MavlinkShows ==
  ASSUME TypeOK, NEW m \in Worlds[env.world].mavs, MavlinkRadar(m)
  PROVE  \E p \in Plot : Show(p)
<1> DEFINE ri == IF Cached(m.id) THEN lookup(m.id) ELSE NewPlot(m.id, "MAVLINK")
           p  == [ri EXCEPT !.age = Age(m.tslc), !.state = set_initial_state(m.tslc),
                            !.alt = IF m.flags THEN m.alt ELSE @,
                            !.speed = IF m.flags THEN m.speed ELSE @]
<1>1. m \in [id : Aircraft, tslc : Nat, flags : BOOLEAN, alt : Int, speed : Int]
  BY RadarAssumption DEF TypeOK
<1>2. m.id \in Ids /\ m.tslc \in Nat /\ m.alt \in Int /\ m.speed \in Int
  BY <1>1 DEF Ids
<1>3. ri \in Plot
  BY <1>2, LookupType, NewPlotType DEF TypeOK, ADSB
<1>4. Age(m.tslc) \in Ages /\ set_initial_state(m.tslc) \in Status
  BY <1>2, AgeType, StateType
<1> HIDE DEF ri
<1>5. p \in Plot
  BY <1>2, <1>3, <1>4 DEF Plot
<1>6. Show(p)
  BY DEF MavlinkRadar, ri
<1>7. QED BY <1>5, <1>6

(* A contact of INAV radar shows a plot.                                   *)
LEMMA InavShows ==
  ASSUME TypeOK, NEW id \in Worlds[env.world].nodes, InavRadarPos(id)
  PROVE  \E p \in Plot : Show(p)
<1> DEFINE ri == IF Cached(id) THEN lookup(id) ELSE NewPlot(id, "INAV")
<1>1. id \in Ids
  BY RadarAssumption DEF TypeOK, Ids
<1>2. ri \in Plot
  BY <1>1, LookupType, NewPlotType DEF TypeOK
<1>3. PICK st \in Status : Show([ri EXCEPT !.age = 0, !.state = st])
  BY DEF InavRadarPos
<1>4. 0 \in Ages
  BY Numbers DEF Ages
<1> HIDE DEF ri
<1>5. [ri EXCEPT !.age = 0, !.state = st] \in Plot
  BY <1>2, <1>4 DEF Plot
<1>6. QED BY <1>3, <1>5

(* The reader: counters that go down are not zero.                            *)
LEMMA ReaderSteps ==
  ASSUME TypeOK, ReaderCounts, FetchOk \/ FetchThrows \/ FetchRefused \/ PollTimer \/ UserSwitches
  PROVE  rd' \in Reader /\ ReaderCounts'
<1>1. rd \in Reader /\ rd.fetching \in Nat /\ rd.doomed \in Nat /\ rd.waits \in Nat
      /\ rd.retries \in Nat /\ rd.doomed <= rd.fetching /\ (rd.tid => rd.retries > 0)
      /\ rd.tid \in BOOLEAN /\ rd.enabled \in BOOLEAN /\ rd.cancelled \in BOOLEAN
  BY DEF TypeOK, Reader, ReaderCounts
<1>2. ASSUME rd.fetching > 0
      PROVE  /\ Failed(rd) \in Reader /\ Failed(rd).fetching = rd.fetching - 1
             /\ Failed(rd).doomed = rd.doomed /\ (Failed(rd).tid => Failed(rd).retries > 0)
  <2>1. rd.fetching - 1 \in Nat /\ rd.retries + 1 \in Nat /\ rd.retries + 1 > 0
    BY <1>1, <1>2
  <2>2. CASE rd.enabled
    <3>1. Failed(rd) = [rd EXCEPT !.fetching = rd.fetching - 1, !.tid = TRUE,
                                  !.retries = rd.retries + 1]
      BY <1>1, <2>2 DEF Failed, Reader
    <3>2. QED BY <1>1, <2>1, <3>1 DEF Reader
  <2>3. CASE ~rd.enabled
    <3>1. Failed(rd) = [rd EXCEPT !.fetching = rd.fetching - 1, !.tid = rd.tid,
                                  !.retries = rd.retries]
      BY <1>1, <2>3 DEF Failed, Reader
    <3>2. QED BY <1>1, <2>1, <3>1 DEF Reader
  <2>4. QED BY <1>1, <2>2, <2>3
<1>3. ASSUME NEW r \in Reader, r.doomed <= r.fetching, r.tid => r.retries > 0
      PROVE  /\ poll(r) \in Reader /\ poll(r).doomed <= poll(r).fetching
             /\ (poll(r).tid => poll(r).retries > 0)
  <2>1. r.fetching + 1 \in Nat /\ r.doomed + 1 \in Nat /\ r.fetching \in Nat /\ r.doomed \in Nat
    BY DEF Reader
  <2>2. CASE r.cancelled
    <3>1. poll(r) = [r EXCEPT !.fetching = r.fetching + 1, !.doomed = r.doomed + 1]
      BY <2>2 DEF poll, Reader
    <3>2. poll(r) \in Reader
      BY <2>1, <3>1 DEF Reader
    <3>3. poll(r).fetching = r.fetching + 1 /\ poll(r).doomed = r.doomed + 1
          /\ poll(r).tid = r.tid /\ poll(r).retries = r.retries
      BY <3>1 DEF Reader
    <3>4. poll(r).doomed <= poll(r).fetching
      BY <1>3, <2>1, <3>3
    <3>5. poll(r).tid => poll(r).retries > 0
      BY <1>3, <3>3
    <3>6. QED BY <3>2, <3>4, <3>5
  <2>3. CASE ~r.cancelled
    <3>1. poll(r) = [r EXCEPT !.fetching = r.fetching + 1, !.doomed = r.doomed]
      BY <2>3 DEF poll, Reader
    <3>2. poll(r) \in Reader
      BY <2>1, <3>1 DEF Reader
    <3>3. poll(r).fetching = r.fetching + 1 /\ poll(r).doomed = r.doomed
          /\ poll(r).tid = r.tid /\ poll(r).retries = r.retries
      BY <3>1 DEF Reader
    <3>4. poll(r).doomed <= poll(r).fetching
      BY <1>3, <2>1, <3>3
    <3>5. poll(r).tid => poll(r).retries > 0
      BY <1>3, <3>3
    <3>6. QED BY <3>2, <3>4, <3>5
  <2>4. QED BY <2>2, <2>3
<1>4. CASE FetchOk
  <2>1. rd' = [rd EXCEPT !.fetching = rd.fetching - 1, !.waits = rd.waits + 1]
        /\ rd.fetching > rd.doomed
    BY <1>4 DEF FetchOk
  <2>2. rd.fetching - 1 \in Nat /\ rd.waits + 1 \in Nat /\ rd.doomed <= rd.fetching - 1
    BY <1>1, <2>1
  <2>3. rd' \in Reader
    BY <1>1, <2>1, <2>2 DEF Reader
  <2>4. rd'.fetching = rd.fetching - 1 /\ rd'.doomed = rd.doomed /\ rd'.tid = rd.tid
        /\ rd'.retries = rd.retries
    BY <1>1, <2>1 DEF Reader
  <2>5. QED BY <1>1, <2>2, <2>3, <2>4 DEF ReaderCounts
<1>5. CASE FetchThrows
  <2>1. CASE rd.doomed > 0 /\ rd' = [Failed(rd) EXCEPT !.doomed = @ - 1, !.cancelled = FALSE]
    <3>1. rd.fetching > 0 /\ rd.doomed - 1 \in Nat
      BY <1>1, <2>1
    <3>2. Failed(rd) \in Reader /\ Failed(rd).fetching = rd.fetching - 1
          /\ Failed(rd).doomed = rd.doomed /\ (Failed(rd).tid => Failed(rd).retries > 0)
      BY <1>2, <3>1
    <3>3. rd' = [Failed(rd) EXCEPT !.doomed = rd.doomed - 1, !.cancelled = FALSE]
      BY <2>1, <3>2 DEF Reader
    <3>4. rd' \in Reader /\ rd'.doomed = rd.doomed - 1 /\ rd'.fetching = rd.fetching - 1
          /\ (rd'.tid => rd'.retries > 0)
      BY <3>1, <3>2, <3>3 DEF Reader
    <3>5. QED BY <1>1, <3>4 DEF ReaderCounts
  <2>2. CASE rd.fetching > rd.doomed /\ rd' = [Failed(rd) EXCEPT !.cancelled = FALSE]
    <3>1. rd.fetching > 0
      BY <1>1, <2>2
    <3>2. Failed(rd) \in Reader /\ Failed(rd).fetching = rd.fetching - 1
          /\ Failed(rd).doomed = rd.doomed /\ (Failed(rd).tid => Failed(rd).retries > 0)
      BY <1>2, <3>1
    <3>3. rd' \in Reader /\ rd'.doomed = rd.doomed /\ rd'.fetching = rd.fetching - 1
          /\ (rd'.tid => rd'.retries > 0)
      BY <2>2, <3>2 DEF Reader
    <3>4. QED BY <1>1, <2>2, <3>3 DEF ReaderCounts
  <2>3. QED BY <1>5, <2>1, <2>2 DEF FetchThrows
<1>6. CASE FetchRefused
  <2>1. rd.fetching > 0 /\ rd.fetching > rd.doomed /\ rd' = Failed(rd)
    BY <1>1, <1>6 DEF FetchRefused
  <2>2. QED BY <1>1, <1>2, <2>1 DEF ReaderCounts
<1>7. CASE PollTimer
  <2>1. CASE rd.waits > 0 /\ rd' = poll([rd EXCEPT !.waits = @ - 1])
    <3> DEFINE r == [rd EXCEPT !.waits = @ - 1]
    <3>1. rd.waits - 1 \in Nat
      BY <1>1, <2>1
    <3>2. r \in Reader /\ r.doomed <= r.fetching /\ (r.tid => r.retries > 0)
      BY <1>1, <3>1 DEF Reader
    <3>3. QED BY <1>3, <2>1, <3>2 DEF ReaderCounts
  <2>2. CASE rd.retries > 0 /\ rd' = poll([rd EXCEPT !.retries = @ - 1, !.tid = FALSE])
    <3> DEFINE r == [rd EXCEPT !.retries = @ - 1, !.tid = FALSE]
    <3>1. rd.retries - 1 \in Nat
      BY <1>1, <2>2
    <3>2. r \in Reader /\ r.doomed <= r.fetching /\ (r.tid => r.retries > 0)
      BY <1>1, <3>1 DEF Reader
    <3>3. QED BY <1>3, <2>2, <3>2 DEF ReaderCounts
  <2>3. QED BY <1>7, <2>1, <2>2 DEF PollTimer
<1>8. CASE UserSwitches
  <2>1. CASE rd.enabled
    <3>1. rd' = Disabled(rd)
      BY <1>8, <2>1 DEF UserSwitches
    <3>2. IF rd.tid THEN rd.retries - 1 \in Nat ELSE TRUE
      BY <1>1
    <3>3. rd' \in Reader /\ rd'.tid = FALSE /\ rd'.doomed = rd.fetching /\ rd'.fetching = rd.fetching
      <4>1. CASE rd.tid
        <5>1. rd' = [rd EXCEPT !.enabled = FALSE, !.retries = rd.retries - 1, !.tid = FALSE,
                               !.cancelled = TRUE, !.doomed = rd.fetching]
          BY <3>1, <4>1 DEF Disabled
        <5>2. QED BY <1>1, <3>2, <4>1, <5>1 DEF Reader
      <4>2. CASE ~rd.tid
        <5>1. rd' = [rd EXCEPT !.enabled = FALSE, !.retries = rd.retries, !.tid = FALSE,
                               !.cancelled = TRUE, !.doomed = rd.fetching]
          BY <3>1, <4>2 DEF Disabled
        <5>2. QED BY <1>1, <5>1 DEF Reader
      <4>3. QED BY <1>1, <4>1, <4>2
    <3>4. QED BY <1>1, <3>3 DEF ReaderCounts
  <2>2. CASE ~rd.enabled
    <3> DEFINE r == [rd EXCEPT !.enabled = TRUE]
    <3>1. r \in Reader /\ r.doomed <= r.fetching /\ (r.tid => r.retries > 0)
      BY <1>1 DEF Reader
    <3>2. QED BY <1>3, <1>8, <2>2, <3>1 DEF UserSwitches, ReaderCounts
  <2>3. QED BY <2>1, <2>2
<1>9. QED BY <1>4, <1>5, <1>6, <1>7, <1>8

----------------------------------------------------------------------------
(* An empty list and an empty map agree.                                   *)
LEMMA InitHolds == Init => IInv
<1> SUFFICES ASSUME Init PROVE IInv
  OBVIOUS
<1>1. PICK w \in DOMAIN Worlds : env = [world |-> w, user |-> Worlds[w].user]
  BY DEF Init
<1>2. env.world \in DOMAIN Worlds /\ env = [world |-> env.world, user |-> env.user] /\ env.user \in Nat
  BY <1>1, RadarAssumption
<1>3. cache \in Seq(Plot) /\ todo \in Seq(Entry) /\ DOMAIN cache = {}
  BY DEF Init
<1>4. marker \in [Ids -> Marker] /\ rd \in Reader /\ ReaderCounts
  BY DEF Init, Marker, Reader, ReaderCounts
<1>5. MapAgrees
  BY <1>3 DEF Init, MapAgrees
<1>6. QED BY <1>2, <1>3, <1>4, <1>5 DEF Init, IInv, TypeOK, ToastIsCached

(* A step that shows a plot, or leaves list and map alone, and touches neither *)
(* the toast nor the loop.                                                     *)
LEMMA Shown ==
  ASSUME IInv, UNCHANGED <<cache, marker>> \/ \E p \in Plot : Show(p),
         UNCHANGED <<pos, toast>>
  PROVE  /\ cache' \in Seq(Plot) /\ marker' \in [Ids -> Marker] /\ MapAgrees' /\ Kept
         /\ ToastIsCached'
<1>1. CASE UNCHANGED <<cache, marker>>
  BY <1>1 DEF IInv, TypeOK, MapAgrees, ToastIsCached, Cached, Where, Kept
<1>2. CASE \E p \in Plot : Show(p)
  <2>1. PICK p \in Plot : Show(p)
    BY <1>2
  <2>2. /\ cache' \in Seq(Plot) /\ marker' \in [Ids -> Marker] /\ MapAgrees'
        /\ \A i \in DOMAIN cache : \E j \in DOMAIN cache' : cache'[j].id = cache[i].id
    BY <2>1, ShowAgrees DEF IInv, TypeOK
  <2>3. \A id : Cached(id) => Cached(id)'
    BY <2>2 DEF Cached, Where
  <2>4. QED BY <2>2, <2>3 DEF IInv, ToastIsCached, Kept
<1>3. QED BY <1>1, <1>2

(* Every step of the sources, of radar_periodic and of the user.           *)
LEMMA StepHolds ==
  ASSUME IInv, [Next]_vars PROVE IInv' /\ Kept
<1> USE DEF IInv
<1>1. CASE UNCHANGED vars
  BY <1>1 DEF vars, TypeOK, MapAgrees, ReaderCounts, ToastIsCached, Cached, Where, Kept
<1>2. CASE PlotNext
  <2>1. (UNCHANGED <<cache, marker>> \/ \E p \in Plot : Show(p)) /\ todo' \in Seq(Entry)
    BY <1>2, PlotNextShows
  <2>2. UNCHANGED <<do_purge, pos, near, toast, vhidden, rd, env>>
    BY <1>2 DEF PlotNext
  <2>3. QED BY <2>1, <2>2, Shown DEF TypeOK, ReaderCounts
<1>3. CASE DecodeEnd
  BY <1>3, Shown DEF DecodeEnd, TypeOK, ReaderCounts
<1>4. CASE PeriodicItem
  <2>1. pos' = pos + 1 /\ pos' \in Nat /\ pos' # 0 /\ do_purge' \in BOOLEAN
    BY <1>4 DEF PeriodicItem, TypeOK
  <2>2. cache' \in Seq(Plot) /\ marker' \in [Ids -> Marker] /\ MapAgrees' /\ Kept
    <3>1. CASE do_purge
      BY <1>4, <3>1, PurgeAgrees DEF PeriodicItem, TypeOK
    <3>2. CASE ~do_purge
      BY <1>4, <3>2 DEF PeriodicItem, TypeOK, MapAgrees, Cached, Where, Kept
    <3>3. QED BY <3>1, <3>2
  <2>3. near' \in Ids \cup {None}
    <3>1. Visited(cache', cache[pos]).id \in Ids
      BY <1>4, VisitedId, IdsOfCache DEF PeriodicItem, TypeOK
    <3>2. near' \in {near, Visited(cache', cache[pos]).id}
      BY <1>4 DEF PeriodicItem, Nearest
    <3>3. QED BY <3>1, <3>2 DEF TypeOK
  <2>4. UNCHANGED <<toast, vhidden, todo, rd, env>>
    BY <1>4 DEF PeriodicItem
  <2>5. QED BY <2>1, <2>2, <2>3, <2>4 DEF TypeOK, ReaderCounts, ToastIsCached
<1>5. CASE PeriodicEnd
  <2>1. UNCHANGED <<cache, marker, do_purge, vhidden, todo, rd, env>> /\ pos' = 0 /\ near' = None
        /\ toast' = IF near # None /\ Cached(near) THEN near ELSE None
    BY <1>5 DEF PeriodicEnd
  <2>2. QED BY <2>1 DEF TypeOK, MapAgrees, ReaderCounts, ToastIsCached, Cached, Where, Kept
<1>6. CASE PeriodicBegin
  <2>1. UNCHANGED <<cache, marker, do_purge, toast, vhidden, todo, rd, env>> /\ pos' = 1 /\ near' = None
    BY <1>6 DEF PeriodicBegin
  <2>2. QED BY <2>1 DEF TypeOK, MapAgrees, ReaderCounts, ToastIsCached, Cached, Where, Kept
<1>7. CASE FetchOk
  <2>1. todo' \in Seq(Entry)
    BY <1>7, RadarAssumption DEF FetchOk, TypeOK
  <2>2. UNCHANGED <<cache, marker, do_purge, pos, near, toast, vhidden, env>>
    BY <1>7 DEF FetchOk
  <2>3. QED BY <1>7, <2>1, <2>2, ReaderSteps, Shown DEF TypeOK
<1>8. CASE FetchThrows \/ FetchRefused \/ PollTimer
  <2>1. UNCHANGED <<cache, marker, do_purge, pos, near, toast, vhidden, todo, env>>
    BY <1>8 DEF FetchThrows, FetchRefused, PollTimer
  <2>2. QED BY <1>8, <2>1, ReaderSteps, Shown DEF TypeOK
<1>9. CASE Reports
  <2>1. \E p \in Plot : Show(p)
    BY <1>9, MavlinkShows, InavShows DEF Reports
  <2>2. UNCHANGED <<do_purge, pos, near, toast, vhidden, todo, rd, env>>
    BY <1>9 DEF Reports, MavlinkRadar, InavRadarPos
  <2>3. QED BY <2>1, <2>2, Shown DEF TypeOK, ReaderCounts
<1>10. CASE UserSwitches
  <2>1. UNCHANGED <<cache, marker, do_purge, pos, near, toast, vhidden, todo>>
        /\ env' = [env EXCEPT !.user = @ - 1] /\ env.user > 0
    BY <1>10 DEF UserSwitches
  <2>2. env'.world = env.world /\ env'.user \in Nat
        /\ env' = [world |-> env'.world, user |-> env'.user]
    BY <2>1 DEF TypeOK
  <2>3. QED BY <1>10, <2>1, <2>2, ReaderSteps, Shown DEF TypeOK
<1>11. CASE UserHides
  <2>1. UNCHANGED <<cache, marker, do_purge, pos, near, toast, todo, rd>> /\ vhidden' = ~vhidden
        /\ env' = [env EXCEPT !.user = @ - 1] /\ env.user > 0
    BY <1>11 DEF UserHides
  <2>2. env'.world = env.world /\ env'.user \in Nat
        /\ env' = [world |-> env'.world, user |-> env'.user]
    BY <2>1 DEF TypeOK
  <2>3. QED BY <2>1, <2>2, Shown DEF TypeOK, ReaderCounts
<1>12. CASE UserDismisses
  <2>1. UNCHANGED <<cache, marker, do_purge, pos, near, vhidden, todo, rd, env>> /\ toast' = None
    BY <1>12 DEF UserDismisses
  <2>2. QED BY <2>1 DEF TypeOK, MapAgrees, ReaderCounts, ToastIsCached, Cached, Where, Kept
<1>13. CASE Tick
  <2>1. /\ cache' = [i \in DOMAIN cache |-> [cache[i] EXCEPT !.age = Age(@ + 1)]]
        /\ UNCHANGED <<marker, do_purge, pos, near, toast, vhidden, todo, rd, env>>
    BY <1>13 DEF Tick
  <2>2. \A i \in DOMAIN cache : /\ cache'[i] \in Plot /\ cache'[i].id = cache[i].id
                                /\ cache'[i].state = cache[i].state
    <3>1. SUFFICES ASSUME NEW i \in DOMAIN cache
                   PROVE  /\ cache'[i] \in Plot /\ cache'[i].id = cache[i].id
                          /\ cache'[i].state = cache[i].state
      OBVIOUS
    <3>2. cache[i] \in Plot /\ cache[i].age + 1 \in Nat
      BY IdsOfCache, Numbers DEF TypeOK, Ages
    <3>3. Age(cache[i].age + 1) \in Ages
      BY <3>2, AgeType
    <3>4. QED BY <2>1, <3>2, <3>3 DEF Plot
  <2>3. cache' \in Seq(Plot) /\ DOMAIN cache' = DOMAIN cache
    <3>1. DOMAIN cache' = 1 .. Len(cache) /\ DOMAIN cache' = DOMAIN cache /\ Len(cache) \in Nat
          /\ cache' = [i \in 1 .. Len(cache) |-> cache'[i]]
      BY <2>1, LenProperties DEF TypeOK
    <3>2. QED BY <2>2, <3>1, IsASeq
  <2>4. \A id : Cached(id)' <=> Cached(id)
    BY <2>2, <2>3 DEF Cached, Where
  <2>5. MapAgrees' /\ Kept /\ ToastIsCached'
    BY <2>1, <2>2, <2>3, <2>4 DEF MapAgrees, Kept, ToastIsCached
  <2>6. QED BY <2>1, <2>3, <2>5 DEF TypeOK, ReaderCounts
<1>14. QED
  BY <1>1, <1>2, <1>3, <1>4, <1>5, <1>6, <1>7, <1>8, <1>9, <1>10, <1>11, <1>12, <1>13
  DEF Next, Loop, Fetch, User

(* IInv is inductive.                                                         *)
THEOREM Invariant == Spec => []IInv
<1>1. IInv /\ [Next]_vars => IInv'
  BY StepHolds
<1>2. QED BY InitHolds, <1>1, PTL DEF Spec

(* The state of cache, map, toast and reader is always of its type: the       *)
(* reader's counters never go below zero, whatever the user switches when.    *)
THEOREM TypesHold == Spec => []TypeOK
<1>1. IInv => TypeOK
  BY DEF IInv
<1>2. QED BY Invariant, <1>1, PTL

(* radar_periodic, the three decoders and their order never part the list     *)
(* from the map: one row and one marker per track.                            *)
THEOREM MapAlwaysAgrees == Spec => []MapAgrees
<1>1. IInv => MapAgrees
  BY DEF IInv
<1>2. QED BY Invariant, <1>1, PTL

(* The toast on display names a track of the list, although radar_periodic    *)
(* may remove the nearest one in the same run.                                *)
THEOREM ToastAlwaysCached == Spec => []ToastIsCached
<1>1. IInv => ToastIsCached
  BY DEF IInv
<1>2. QED BY Invariant, <1>1, PTL

(* No step takes a track out of the list but one that removes an expired      *)
(* ADS-B track.                                                               *)
THEOREM NothingElseRemoved == Spec => OnlyExpiredRemoved
<1>1. IInv /\ [Next]_vars => [Kept]_vars
  BY StepHolds
<1>2. QED BY Invariant, <1>1, PTL DEF Spec, OnlyExpiredRemoved, Kept

----------------------------------------------------------------------------
(* A non-empty set of natural numbers has a least one.                        *)
LEMMA Least ==
  ASSUME NEW T, T \subseteq Nat, T # {}
  PROVE  \E x \in T : \A y \in T : x <= y
<1> DEFINE R == OpToRel(<, Nat)
<1>1. \A x, y \in Nat : x < y => <<x, y>> \in R
  BY DEF OpToRel
<1>2. IsWellFoundedOn(R, Nat)
  BY NatLessThanWellFounded
<1> HIDE DEF R
<1>3. PICK x \in T : \A y \in T : ~(<<y, x>> \in R)
  BY <1>2, WFMin
<1>4. \A y \in T : x \in Nat /\ y \in Nat /\ ~(y < x)
  BY <1>1, <1>3
<1>5. \A y \in T : x <= y
  BY <1>4
<1> QED
  BY <1>3, <1>5

(* Induction up to N: T holds of 0 and of each next number.                   *)
LEMMA UpTo ==
  ASSUME NEW N \in Nat, NEW T, 0 \in T,
         \A k \in 0 .. N : k # 0 /\ k - 1 \in T => k \in T
  PROVE  0 .. N \subseteq T
<1> DEFINE Out == {k \in 0 .. N : k \notin T}
<1> SUFFICES ASSUME Out # {} PROVE FALSE
  OBVIOUS
<1>1. Out \subseteq Nat
  OBVIOUS
<1>d. \A k : k \in Out <=> k \in 0 .. N /\ k \notin T
  OBVIOUS
<1> HIDE DEF Out
<1>2. PICK k \in Out : \A y \in Out : k <= y
  BY <1>1, Least
<1>3. k \in 0 .. N /\ k \notin T /\ k # 0
  BY <1>d
<1>4. k - 1 \in 0 .. N /\ k - 1 \notin Out
  BY <1>2, <1>3
<1> QED
  BY <1>3, <1>4, <1>d

----------------------------------------------------------------------------
(* The tables of readsb.pb-c. A descriptor finds its fields if a tag leads,   *)
(* through the ranges, to the field that has it, and to no field otherwise.   *)
Tags(d)  == {d.fields[k][1] : k \in DOMAIN d.fields}
Finds(d) ==
  /\ \A j, k \in DOMAIN d.fields : d.fields[j][1] = d.fields[k][1] => j = k
  /\ 0 \notin Tags(d)
  /\ \A t \in Nat :
       \/ \E k \in DOMAIN d.fields :
            FieldOf(d, t) = d.fields[k] /\ d.fields[k][1] = t
       \/ FieldOf(d, t) = NoField /\ t \notin Tags(d)

(* What int_range_lookup comes to when the ranges that hold the tag are known. *)
Hits(r, t) == {k \in 1 .. Len(r) - 1 :
                 r[k][1] <= t /\ t < r[k][1] + r[k + 1][2] - r[k][2]}

(* The field that the one range around a tag leads to, or none.               *)
LEMMA RangeLookup ==
  ASSUME NEW d, NEW t
  PROVE  /\ Hits(d.ranges, t) = {} => FieldOf(d, t) = NoField
         /\ \A k : Hits(d.ranges, t) = {k} =>
              FieldOf(d, t) = d.fields[t - d.ranges[k][1] + d.ranges[k][2] + 1]
<1>1. \A k : (CHOOSE j \in {k} : TRUE) = k
  OBVIOUS
<1>2. QED BY <1>1, ZenonT(60) DEF FieldOf, Hits

(* A descriptor whose field k has the tag of[k], and whose ranges lead there.  *)
Leads(d, N, of) ==
  /\ N \in Nat /\ of \in [1 .. N -> Nat \ {0}] /\ DOMAIN d.fields = 1 .. N
  /\ \A k \in 1 .. N : d.fields[k][1] = of[k]
  /\ \A j, k \in 1 .. N : of[j] = of[k] => j = k
  /\ \A t \in Nat :
       \/ \E k \in 1 .. N : of[k] = t /\ FieldOf(d, t) = d.fields[k]
       \/ FieldOf(d, t) = NoField /\ \A k \in 1 .. N : of[k] # t

(* If the ranges lead to every field of the table, the descriptor finds it.   *)
LEMMA FindsByTable == ASSUME NEW d, NEW N, NEW of, Leads(d, N, of) PROVE Finds(d)
<1> USE DEF Leads
<1>1. \A k \in 1 .. N : d.fields[k][1] = of[k] /\ of[k] # 0
  OBVIOUS
<1>2. \A t : t \in Tags(d) <=> \E k \in 1 .. N : of[k] = t
  <2>1. Tags(d) = {d.fields[k][1] : k \in 1 .. N}
    BY DEF Tags
  <2> HIDE DEF Leads
  <2>2. \A t : t \in Tags(d) <=> \E k \in 1 .. N : d.fields[k][1] = t
    BY <2>1
  <2>3. QED BY <1>1, <2>2
<1>3. \A j, k \in DOMAIN d.fields : d.fields[j][1] = d.fields[k][1] => j = k
  <2> SUFFICES ASSUME NEW j \in 1 .. N, NEW k \in 1 .. N,
                      d.fields[j][1] = d.fields[k][1]
               PROVE  j = k
    OBVIOUS
  <2>1. of[j] = of[k]
    BY <1>1
  <2>2. QED BY <2>1
<1>4. 0 \notin Tags(d)
  BY <1>1, <1>2
<1>5. ASSUME NEW t \in Nat
      PROVE  \/ \E k \in DOMAIN d.fields :
                  FieldOf(d, t) = d.fields[k] /\ d.fields[k][1] = t
             \/ FieldOf(d, t) = NoField /\ t \notin Tags(d)
  <2>1. CASE \E k \in 1 .. N : of[k] = t /\ FieldOf(d, t) = d.fields[k]
    BY <1>1, <2>1, ZenonT(60)
  <2>2. CASE FieldOf(d, t) = NoField /\ \A k \in 1 .. N : of[k] # t
    BY <1>2, <2>2
  <2>3. QED BY <2>1, <2>2
<1>6. QED BY <1>3, <1>4, <1>5 DEF Finds

(* Two tables, one after the other.                                           *)
IsTable(s, n) == n \in Nat /\ s = [i \in 1 .. n |-> s[i]] /\ Len(s) = n

IsJoin(c, a, b, n, m) ==
  /\ IsTable(c, n + m)
  /\ \A i \in 1 .. n : c[i] = a[i]
  /\ \A i \in 1 .. m : c[n + i] = b[i]

(* Concatenation puts the second table behind the first.                      *)
LEMMA TableJoin ==
  ASSUME NEW a, NEW b, NEW n, NEW m, IsTable(a, n), IsTable(b, m)
  PROVE  IsJoin(a \o b, a, b, n, m)
<1> DEFINE S == {a[i] : i \in 1 .. n} \cup {b[i] : i \in 1 .. m}
<1>1. n \in Nat /\ m \in Nat
  BY DEF IsTable
<1>2. [i \in 1 .. n |-> a[i]] \in Seq(S) /\ [i \in 1 .. m |-> b[i]] \in Seq(S)
  <2>1. (\A i \in 1 .. n : a[i] \in S) /\ (\A i \in 1 .. m : b[i] \in S)
    OBVIOUS
  <2> HIDE DEF S
  <2>2. QED BY <1>1, <2>1, IsASeq
<1> HIDE DEF S
<1>3. a \in Seq(S) /\ b \in Seq(S) /\ Len(a) = n /\ Len(b) = m
  BY <1>2 DEF IsTable
<1>4. /\ a \o b \in Seq(S) /\ Len(a \o b) = n + m
      /\ \A i \in 1 .. n + m : (a \o b)[i] = IF i <= n THEN a[i] ELSE b[i - n]
  BY <1>3, ConcatProperties, ZenonT(60)
<1>5. a \o b = [i \in 1 .. n + m |-> (a \o b)[i]]
  <2> DEFINE c == a \o b
  <2>1. c \in Seq(S) /\ Len(c) = n + m
    BY <1>4
  <2> HIDE DEF c
  <2>2. c \in [1 .. n + m -> S]
    BY <2>1, LenProperties
  <2>3. c = [i \in 1 .. n + m |-> c[i]]
    BY <2>2
  <2>4. QED BY <2>3 DEF c
<1>6. \A i \in 1 .. n : (a \o b)[i] = a[i]
  BY <1>1, <1>4
<1>7. \A i \in 1 .. m : (a \o b)[n + i] = b[i]
  <2> SUFFICES ASSUME NEW i \in 1 .. m PROVE (a \o b)[n + i] = b[i]
    OBVIOUS
  <2>1. n + i \in 1 .. n + m /\ ~(n + i <= n) /\ (n + i) - n = i
    BY <1>1
  <2>2. QED BY <1>4, <2>1
<1>8. IsTable(a \o b, n + m)
  BY <1>1, <1>4, <1>5, SMTT(30) DEF IsTable
<1>9. QED BY <1>6, <1>7, <1>8 DEF IsJoin

----------------------------------------------------------------------------
(* In the first n fields of f, the one called name, and no other, has tag t.  *)
Calls(f, n, name, t) == \A i \in 1 .. n : f[i][2] = name <=> f[i][1] = t

(* The table of an aircraft: its tags, and the names that decode_ac_pb reads.  *)
MetaTag == [k \in 1 .. 48 |-> IF k <= 13 THEN k ELSE IF k = 14 THEN 15
                              ELSE IF k <= 43 THEN k + 5
                              ELSE IF k <= 46 THEN k + 56 ELSE k + 103]
Embeds(f, n, tags) == \A i \in 1 .. n : f[i][1] \in tags => f[i][3] = "MESSAGE"
CallsMeta(f, n) ==
  /\ Embeds(f, n, {150, 151})
  /\ Calls(f, n, "addr", 1) /\ Calls(f, n, "alt_baro", 5)
  /\ Calls(f, n, "seen", 11) /\ Calls(f, n, "gs", 23)
  /\ Calls(f, n, "seen_pos", 41) /\ Calls(f, n, "nav_modes", 150)
  /\ Calls(f, n, "valid_source", 151)

(* A part of a table: its tags are those from the one after base on.          *)
MetaPart(f, base) ==
  /\ IsTable(f, 12) /\ CallsMeta(f, 12)
  /\ \A i \in 1 .. 12 : f[i][1] = MetaTag[base + i]

(* The four parts of the table of an aircraft, field by field.                *)
LEMMA MetaParts ==
  /\ MetaPart(MetaFields1, 0) /\ MetaPart(MetaFields2, 12)
  /\ MetaPart(MetaFields3, 24) /\ MetaPart(MetaFields4, 36)
<1>1. IsTable(MetaFields1, 12) /\ CallsMeta(MetaFields1, 12)
  BY DEF IsTable, CallsMeta, Calls, Embeds, MetaFields1
<1>2. IsTable(MetaFields2, 12) /\ CallsMeta(MetaFields2, 12)
  BY DEF IsTable, CallsMeta, Calls, Embeds, MetaFields2
<1>3. IsTable(MetaFields3, 12) /\ CallsMeta(MetaFields3, 12)
  BY DEF IsTable, CallsMeta, Calls, Embeds, MetaFields3
<1>4. IsTable(MetaFields4, 12) /\ CallsMeta(MetaFields4, 12)
  BY DEF IsTable, CallsMeta, Calls, Embeds, MetaFields4
<1>5. \A i \in 1 .. 12 : MetaFields1[i][1] = MetaTag[0 + i]
  BY DEF MetaFields1, MetaTag
<1>6. \A i \in 1 .. 12 : MetaFields2[i][1] = MetaTag[12 + i]
  BY DEF MetaFields2, MetaTag
<1>7. \A i \in 1 .. 12 : MetaFields3[i][1] = MetaTag[24 + i]
  BY DEF MetaFields3, MetaTag
<1>8. \A i \in 1 .. 12 : MetaFields4[i][1] = MetaTag[36 + i]
  BY DEF MetaFields4, MetaTag
<1>9. QED BY <1>1, <1>2, <1>3, <1>4, <1>5, <1>6, <1>7, <1>8 DEF MetaPart

(* Its 48 fields in the order of their tags.                                  *)
LEMMA MetaTable ==
  /\ DOMAIN AircraftMeta.fields = 1 .. 48
  /\ \A k \in 1 .. 48 : AircraftMeta.fields[k][1] = MetaTag[k]
  /\ CallsMeta(AircraftMeta.fields, 48)
<1> DEFINE a == MetaFields1 \o MetaFields2
           b == a \o MetaFields3
           c == b \o MetaFields4
<1>0. /\ IsTable(MetaFields1, 12) /\ IsTable(MetaFields2, 12)
      /\ IsTable(MetaFields3, 12) /\ IsTable(MetaFields4, 12)
      /\ 24 = 12 + 12 /\ 36 = 24 + 12 /\ 48 = 36 + 12
  BY MetaParts DEF MetaPart
<1>1. /\ IsTable(a, 24)
      /\ \A i \in 1 .. 12 : a[i] = MetaFields1[i] /\ a[12 + i] = MetaFields2[i]
  <2>1. IsJoin(a, MetaFields1, MetaFields2, 12, 12)
    BY <1>0, TableJoin, Zenon
  <2> HIDE DEF a
  <2>2. QED BY <1>0, <2>1 DEF IsJoin
<1>2. /\ IsTable(b, 36) /\ \A i \in 1 .. 24 : b[i] = a[i]
      /\ \A i \in 1 .. 12 : b[24 + i] = MetaFields3[i]
  <2> HIDE DEF a
  <2>1. IsJoin(b, a, MetaFields3, 24, 12)
    BY <1>0, <1>1, TableJoin, Zenon
  <2> HIDE DEF b
  <2>2. QED BY <1>0, <2>1 DEF IsJoin
<1>3. /\ IsTable(c, 48) /\ \A i \in 1 .. 36 : c[i] = b[i]
      /\ \A i \in 1 .. 12 : c[36 + i] = MetaFields4[i]
  <2> HIDE DEF b
  <2>1. IsJoin(c, b, MetaFields4, 36, 12)
    BY <1>0, <1>2, TableJoin, ZenonT(60)
  <2> HIDE DEF c
  <2>2. QED BY <1>0, <2>1 DEF IsJoin
<1>4. AircraftMeta.fields = c
  BY DEF AircraftMeta, Descriptor
<1> HIDE DEF a, b, c
<1>5. \A i \in 1 .. 12 : /\ c[i] = MetaFields1[i] /\ c[12 + i] = MetaFields2[i]
                        /\ c[24 + i] = MetaFields3[i] /\ c[36 + i] = MetaFields4[i]
  <2> SUFFICES ASSUME NEW i \in 1 .. 12
               PROVE  /\ c[i] = MetaFields1[i] /\ c[12 + i] = MetaFields2[i]
                      /\ c[24 + i] = MetaFields3[i] /\ c[36 + i] = MetaFields4[i]
    OBVIOUS
  <2>1. /\ i \in 1 .. 24 /\ 12 + i \in 1 .. 24
        /\ i \in 1 .. 36 /\ 12 + i \in 1 .. 36 /\ 24 + i \in 1 .. 36
    OBVIOUS
  <2>2. QED BY <1>1, <1>2, <1>3, <2>1
<1>6. \A k \in 1 .. 48 :
        \E f \in {MetaFields1, MetaFields2, MetaFields3, MetaFields4} :
          \E i \in 1 .. 12 : c[k] = f[i] /\ f[i][1] = MetaTag[k] /\ CallsMeta(f, 12)
  <2> SUFFICES ASSUME NEW k \in 1 .. 48
               PROVE  \E f \in {MetaFields1, MetaFields2, MetaFields3, MetaFields4} :
                        \E i \in 1 .. 12 :
                          c[k] = f[i] /\ f[i][1] = MetaTag[k] /\ CallsMeta(f, 12)
    BY Zenon
  <2>1. ASSUME NEW base \in {0, 12, 24, 36}, NEW f, MetaPart(f, base),
               \A i \in 1 .. 12 : c[base + i] = f[i], k - base \in 1 .. 12
        PROVE  \E i \in 1 .. 12 :
                 c[k] = f[i] /\ f[i][1] = MetaTag[k] /\ CallsMeta(f, 12)
    <3>1. k = base + (k - base)
      BY <2>1
    <3>2. /\ c[k] = f[k - base] /\ f[k - base][1] = MetaTag[k]
          /\ CallsMeta(f, 12)
      BY <2>1, <3>1 DEF MetaPart
    <3>3. QED BY <2>1, <3>2
  <2>2. CASE k \in 1 .. 12
    <3>1. /\ k - 0 \in 1 .. 12 /\ MetaPart(MetaFields1, 0)
          /\ \A i \in 1 .. 12 : c[0 + i] = MetaFields1[i]
      BY <1>5, <2>2, MetaParts
    <3>2. QED BY <2>1, <3>1
  <2>3. CASE k \in 13 .. 24
    <3>1. /\ k - 12 \in 1 .. 12 /\ MetaPart(MetaFields2, 12)
          /\ \A i \in 1 .. 12 : c[12 + i] = MetaFields2[i]
      BY <1>5, <2>3, MetaParts
    <3>2. QED BY <2>1, <3>1
  <2>4. CASE k \in 25 .. 36
    <3>1. /\ k - 24 \in 1 .. 12 /\ MetaPart(MetaFields3, 24)
          /\ \A i \in 1 .. 12 : c[24 + i] = MetaFields3[i]
      BY <1>5, <2>4, MetaParts
    <3>2. QED BY <2>1, <3>1
  <2>5. CASE k \in 37 .. 48
    <3>1. /\ k - 36 \in 1 .. 12 /\ MetaPart(MetaFields4, 36)
          /\ \A i \in 1 .. 12 : c[36 + i] = MetaFields4[i]
      BY <1>5, <2>5, MetaParts
    <3>2. QED BY <2>1, <3>1
  <2>6. QED BY <2>2, <2>3, <2>4, <2>5
<1>7. \A k \in 1 .. 48 : c[k][1] = MetaTag[k]
  BY <1>6, Zenon
<1>8. CallsMeta(c, 48)
  <2>1. ASSUME NEW name, NEW t, \A f : CallsMeta(f, 12) => Calls(f, 12, name, t)
        PROVE  Calls(c, 48, name, t)
    <3> SUFFICES ASSUME NEW k \in 1 .. 48
                 PROVE  c[k][2] = name <=> c[k][1] = t
      BY DEF Calls
    <3>1. PICK f \in {MetaFields1, MetaFields2, MetaFields3, MetaFields4} :
            \E i \in 1 .. 12 :
              c[k] = f[i] /\ f[i][1] = MetaTag[k] /\ CallsMeta(f, 12)
      BY <1>6, Zenon
    <3>2. PICK i \in 1 .. 12 : c[k] = f[i] /\ CallsMeta(f, 12)
      BY <3>1
    <3>3. Calls(f, 12, name, t)
      BY <2>1, <3>2
    <3>4. QED BY <3>2, <3>3 DEF Calls
  <2>2. \A f : CallsMeta(f, 12) =>
          /\ Calls(f, 12, "addr", 1) /\ Calls(f, 12, "alt_baro", 5)
          /\ Calls(f, 12, "seen", 11) /\ Calls(f, 12, "gs", 23)
          /\ Calls(f, 12, "seen_pos", 41) /\ Calls(f, 12, "nav_modes", 150)
          /\ Calls(f, 12, "valid_source", 151)
    BY DEF CallsMeta
  <2>3. /\ Calls(c, 48, "addr", 1) /\ Calls(c, 48, "alt_baro", 5)
        /\ Calls(c, 48, "seen", 11) /\ Calls(c, 48, "gs", 23)
        /\ Calls(c, 48, "seen_pos", 41) /\ Calls(c, 48, "nav_modes", 150)
        /\ Calls(c, 48, "valid_source", 151)
    BY <2>1, <2>2
  <2>4. Embeds(c, 48, {150, 151})
    <3> SUFFICES ASSUME NEW k \in 1 .. 48, c[k][1] \in {150, 151}
                 PROVE  c[k][3] = "MESSAGE"
      BY DEF Embeds
    <3>1. PICK f \in {MetaFields1, MetaFields2, MetaFields3, MetaFields4} :
            \E i \in 1 .. 12 :
              c[k] = f[i] /\ f[i][1] = MetaTag[k] /\ CallsMeta(f, 12)
      BY <1>6, Zenon
    <3>2. PICK i \in 1 .. 12 : c[k] = f[i] /\ CallsMeta(f, 12)
      BY <3>1
    <3>3. Embeds(f, 12, {150, 151})
      BY <3>2 DEF CallsMeta
    <3>4. QED BY <3>2, <3>3 DEF Embeds
  <2>5. QED BY <2>3, <2>4 DEF CallsMeta
<1>9. DOMAIN c = 1 .. 48
  BY <1>3 DEF IsTable
<1>10. QED BY <1>4, <1>7, <1>8, <1>9

(* The tags of an aircraft are found.                                         *)
LEMMA MetaHits ==
  ASSUME NEW t \in Nat
  PROVE  /\ t \in 1 .. 13 => Hits(MetaRanges, t) = {1}
         /\ t = 15 => Hits(MetaRanges, t) = {2}
         /\ t \in 20 .. 48 => Hits(MetaRanges, t) = {3}
         /\ t \in 100 .. 102 => Hits(MetaRanges, t) = {4}
         /\ t \in 150 .. 151 => Hits(MetaRanges, t) = {5}
         /\ t \notin (1 .. 13) \cup {15} \cup (20 .. 48) \cup (100 .. 102) \cup (150 .. 151)
            => Hits(MetaRanges, t) = {}
<1>1. Hits(MetaRanges, t) =
        {k \in 1 .. 5 : \/ k = 1 /\ t \in 1 .. 13
                        \/ k = 2 /\ t = 15
                        \/ k = 3 /\ t \in 20 .. 48
                        \/ k = 4 /\ t \in 100 .. 102
                        \/ k = 5 /\ t \in 150 .. 151}
  BY DEF Hits, MetaRanges
<1>2. QED BY <1>1

(* All five ranges of an aircraft lead to the right fields.                   *)
LEMMA FindsMeta == Finds(AircraftMeta)
<1> DEFINE d == AircraftMeta
<1>1. d.ranges = MetaRanges
  BY DEF AircraftMeta, Descriptor
<1>2. DOMAIN d.fields = 1 .. 48 /\ \A k \in 1 .. 48 : d.fields[k][1] = MetaTag[k]
  BY MetaTable
<1> HIDE DEF d
<1>3. MetaTag \in [1 .. 48 -> Nat \ {0}] /\ \A j, k \in 1 .. 48 : MetaTag[j] = MetaTag[k] => j = k
  BY DEF MetaTag
<1>4. ASSUME NEW t \in Nat
      PROVE  \/ \E k \in 1 .. 48 : MetaTag[k] = t /\ FieldOf(d, t) = d.fields[k]
             \/ FieldOf(d, t) = NoField /\ \A k \in 1 .. 48 : MetaTag[k] # t
  <2>1. ASSUME NEW r \in 1 .. 5, Hits(MetaRanges, t) = {r}
        PROVE  FieldOf(d, t) = d.fields[t - MetaRanges[r][1] + MetaRanges[r][2] + 1]
    BY <1>1, <2>1, RangeLookup
  <2>2. CASE t \in 1 .. 13
    <3>1. t - MetaRanges[1][1] + MetaRanges[1][2] + 1 = t
      BY DEF MetaRanges
    <3>2. FieldOf(d, t) = d.fields[t]
      BY <2>1, <2>2, <3>1, MetaHits
    <3>3. t \in 1 .. 48 /\ MetaTag[t] = t
      BY <2>2 DEF MetaTag
    <3>4. QED BY <3>2, <3>3
  <2>3. CASE t = 15
    <3>1. t - MetaRanges[2][1] + MetaRanges[2][2] + 1 = 14
      BY <2>3 DEF MetaRanges
    <3>2. FieldOf(d, t) = d.fields[14]
      BY <2>1, <2>3, <3>1, MetaHits
    <3>3. 14 \in 1 .. 48 /\ MetaTag[14] = t
      BY <2>3 DEF MetaTag
    <3>4. QED BY <3>2, <3>3
  <2>4. CASE t \in 20 .. 48
    <3>1. t - MetaRanges[3][1] + MetaRanges[3][2] + 1 = t - 5
      BY <2>4 DEF MetaRanges
    <3>2. FieldOf(d, t) = d.fields[t - 5]
      BY <2>1, <2>4, <3>1, MetaHits
    <3>3. t - 5 \in 1 .. 48 /\ MetaTag[t - 5] = t
      BY <2>4 DEF MetaTag
    <3>4. QED BY <3>2, <3>3
  <2>5. CASE t \in 100 .. 102
    <3>1. t - MetaRanges[4][1] + MetaRanges[4][2] + 1 = t - 56
      BY <2>5 DEF MetaRanges
    <3>2. FieldOf(d, t) = d.fields[t - 56]
      BY <2>1, <2>5, <3>1, MetaHits
    <3>3. t - 56 \in 1 .. 48 /\ MetaTag[t - 56] = t
      BY <2>5 DEF MetaTag
    <3>4. QED BY <3>2, <3>3
  <2>6. CASE t \in 150 .. 151
    <3>1. t - MetaRanges[5][1] + MetaRanges[5][2] + 1 = t - 103
      BY <2>6 DEF MetaRanges
    <3>2. FieldOf(d, t) = d.fields[t - 103]
      BY <2>1, <2>6, <3>1, MetaHits
    <3>3. t - 103 \in 1 .. 48 /\ MetaTag[t - 103] = t
      BY <2>6 DEF MetaTag
    <3>4. QED BY <3>2, <3>3
  <2>7. CASE t \notin (1 .. 13) \cup {15} \cup (20 .. 48) \cup (100 .. 102) \cup (150 .. 151)
    <3>1. FieldOf(d, t) = NoField
      BY <1>1, <2>7, MetaHits, RangeLookup
    <3>2. \A k \in 1 .. 48 : MetaTag[k] # t
      BY <2>7 DEF MetaTag
    <3>3. QED BY <3>1, <3>2
  <2>8. QED BY <2>2, <2>3, <2>4, <2>5, <2>6, <2>7
<1>5. Leads(d, 48, MetaTag)
  BY <1>2, <1>3, <1>4, Zenon DEF Leads
<1>6. QED BY <1>5, FindsByTable DEF d

----------------------------------------------------------------------------
(* The other messages: which values readsb has; a history; a frame.           *)
SourceTag == [k \in 1 .. 33 |-> 99 + k]
CallsSource(f, n) ==
  Calls(f, n, "altitude", 101) /\ Calls(f, n, "gs", 103) /\ Calls(f, n, "lat", 121)

(* The 33 fields that say which values readsb has.                            *)
LEMMA SourceTable ==
  /\ DOMAIN ValidSource.fields = 1 .. 33
  /\ \A k \in 1 .. 33 : ValidSource.fields[k][1] = SourceTag[k]
  /\ CallsSource(ValidSource.fields, 33)
<1> DEFINE a == ValidSourceFields1 \o ValidSourceFields2
           c == a \o ValidSourceFields3
           Part(f, base) == /\ IsTable(f, 11) /\ CallsSource(f, 11)
                            /\ \A i \in 1 .. 11 : f[i][1] = SourceTag[base + i]
<1>1. Part(ValidSourceFields1, 0)
  BY DEF IsTable, CallsSource, Calls, SourceTag, ValidSourceFields1
<1>2. Part(ValidSourceFields2, 11)
  BY DEF IsTable, CallsSource, Calls, SourceTag, ValidSourceFields2
<1>3. Part(ValidSourceFields3, 22)
  <2>1. IsTable(ValidSourceFields3, 11)
    BY DEF IsTable, ValidSourceFields3
  <2>2. CallsSource(ValidSourceFields3, 11)
    BY DEF CallsSource, Calls, ValidSourceFields3
  <2>3. \A i \in 1 .. 11 : ValidSourceFields3[i][1] = SourceTag[22 + i]
    BY DEF SourceTag, ValidSourceFields3
  <2>4. QED BY <2>1, <2>2, <2>3
<1>4. IsJoin(a, ValidSourceFields1, ValidSourceFields2, 11, 11) /\ IsTable(a, 22)
  <2>1. IsJoin(a, ValidSourceFields1, ValidSourceFields2, 11, 11)
    BY <1>1, <1>2, TableJoin, Zenon
  <2> HIDE DEF a
  <2>2. 11 + 11 = 22
    OBVIOUS
  <2>3. QED BY <2>1, <2>2 DEF IsJoin
<1>5. IsJoin(c, a, ValidSourceFields3, 22, 11) /\ IsTable(c, 33)
  <2> HIDE DEF a
  <2>1. IsJoin(c, a, ValidSourceFields3, 22, 11)
    BY <1>3, <1>4, TableJoin, Zenon
  <2> HIDE DEF c
  <2>2. 22 + 11 = 33
    OBVIOUS
  <2>3. QED BY <2>1, <2>2 DEF IsJoin
<1>6. ValidSource.fields = c
  BY DEF ValidSource, Descriptor
<1> HIDE DEF a, c
<1>7. \A i \in 1 .. 11 : /\ c[0 + i] = ValidSourceFields1[i]
                        /\ c[11 + i] = ValidSourceFields2[i]
                        /\ c[22 + i] = ValidSourceFields3[i]
  <2> SUFFICES ASSUME NEW i \in 1 .. 11
               PROVE  /\ c[0 + i] = ValidSourceFields1[i]
                      /\ c[11 + i] = ValidSourceFields2[i]
                      /\ c[22 + i] = ValidSourceFields3[i]
    OBVIOUS
  <2>1. i \in 1 .. 22 /\ 11 + i \in 1 .. 22 /\ 0 + i = i
    OBVIOUS
  <2>2. QED BY <1>4, <1>5, <2>1 DEF IsJoin
<1>8. ASSUME NEW k \in 1 .. 33
      PROVE  /\ c[k][1] = SourceTag[k]
             /\ c[k][2] = "altitude" <=> c[k][1] = 101
             /\ c[k][2] = "gs" <=> c[k][1] = 103
             /\ c[k][2] = "lat" <=> c[k][1] = 121
  <2>1. ASSUME NEW base \in {0, 11, 22}, NEW f, Part(f, base),
               \A i \in 1 .. 11 : c[base + i] = f[i], k - base \in 1 .. 11
        PROVE  /\ c[k][1] = SourceTag[k]
               /\ c[k][2] = "altitude" <=> c[k][1] = 101
               /\ c[k][2] = "gs" <=> c[k][1] = 103
               /\ c[k][2] = "lat" <=> c[k][1] = 121
    <3>1. k = base + (k - base)
      BY <2>1
    <3>2. c[k] = f[k - base]
      BY <2>1, <3>1
    <3>3. QED BY <2>1, <3>1, <3>2 DEF CallsSource, Calls
  <2> HIDE DEF Part
  <2>2. CASE k \in 1 .. 11
    <3>1. k - 0 \in 1 .. 11
      BY <2>2
    <3>2. QED BY <1>1, <1>7, <2>1, <3>1
  <2>3. CASE k \in 12 .. 22
    <3>1. k - 11 \in 1 .. 11
      BY <2>3
    <3>2. QED BY <1>2, <1>7, <2>1, <3>1
  <2>4. CASE k \in 23 .. 33
    <3>1. k - 22 \in 1 .. 11
      BY <2>4
    <3>2. QED BY <1>3, <1>7, <2>1, <3>1
  <2>5. QED BY <2>2, <2>3, <2>4
<1>9. DOMAIN c = 1 .. 33
  BY <1>5 DEF IsTable
<1>10. QED BY <1>6, <1>8, <1>9 DEF CallsSource, Calls

(* The one range leads to the right one of them.                              *)
LEMMA FindsSource == Finds(ValidSource)
<1> DEFINE d == ValidSource
<1>1. d.ranges = << <<100, 0>>, <<0, 33>> >>
  BY DEF ValidSource, Descriptor
<1>2. DOMAIN d.fields = 1 .. 33 /\ \A k \in 1 .. 33 : d.fields[k][1] = SourceTag[k]
  BY SourceTable
<1> HIDE DEF d
<1>3. SourceTag \in [1 .. 33 -> Nat \ {0}]
      /\ \A j, k \in 1 .. 33 : SourceTag[j] = SourceTag[k] => j = k
  BY DEF SourceTag
<1>4. ASSUME NEW t \in Nat
      PROVE  \/ \E k \in 1 .. 33 : SourceTag[k] = t /\ FieldOf(d, t) = d.fields[k]
             \/ FieldOf(d, t) = NoField /\ \A k \in 1 .. 33 : SourceTag[k] # t
  <2>1. Hits(d.ranges, t) = {k \in 1 .. 1 : t \in 100 .. 132}
    BY <1>1 DEF Hits
  <2>2. CASE t \in 100 .. 132
    <3>1. Hits(d.ranges, t) = {1}
      BY <2>1, <2>2
    <3>2. t - d.ranges[1][1] + d.ranges[1][2] + 1 = t - 99
      BY <1>1
    <3>3. FieldOf(d, t) = d.fields[t - 99]
      BY <3>1, <3>2, RangeLookup
    <3>4. t - 99 \in 1 .. 33 /\ SourceTag[t - 99] = t
      BY <2>2 DEF SourceTag
    <3>5. QED BY <3>3, <3>4
  <2>3. CASE t \notin 100 .. 132
    <3>1. Hits(d.ranges, t) = {}
      BY <2>1, <2>3
    <3>2. \A k \in 1 .. 33 : SourceTag[k] # t
      BY <2>3 DEF SourceTag
    <3>3. QED BY <3>1, <3>2, RangeLookup
  <2>4. QED BY <2>2, <2>3
<1>5. Leads(d, 33, SourceTag)
  BY <1>2, <1>3, <1>4, Zenon DEF Leads
<1>6. QED BY <1>5, FindsByTable DEF d

(* So do the six navigation modes, which are never read but always checked.   *)
LEMMA FindsModes == Finds(NavModes)
<1> DEFINE d == NavModes
           of == [k \in 1 .. 6 |-> k]
<1>1. d.ranges = << <<1, 0>>, <<0, 6>> >>
  BY DEF NavModes, Descriptor
<1>2. DOMAIN d.fields = 1 .. 6 /\ \A k \in 1 .. 6 : d.fields[k][1] = of[k]
  BY DEF NavModes, Descriptor, NavModesFields
<1> HIDE DEF d
<1>3. of \in [1 .. 6 -> Nat \ {0}] /\ \A j, k \in 1 .. 6 : of[j] = of[k] => j = k
  OBVIOUS
<1>4. ASSUME NEW t \in Nat
      PROVE  \/ \E k \in 1 .. 6 : of[k] = t /\ FieldOf(d, t) = d.fields[k]
             \/ FieldOf(d, t) = NoField /\ \A k \in 1 .. 6 : of[k] # t
  <2>1. Hits(d.ranges, t) = {k \in 1 .. 1 : t \in 1 .. 6}
    BY <1>1 DEF Hits
  <2>2. CASE t \in 1 .. 6
    <3>1. Hits(d.ranges, t) = {1}
      BY <2>1, <2>2
    <3>2. t - d.ranges[1][1] + d.ranges[1][2] + 1 = t
      BY <1>1
    <3>3. QED BY <2>2, <3>1, <3>2, RangeLookup
  <2>3. CASE t \notin 1 .. 6
    <3>1. Hits(d.ranges, t) = {}
      BY <2>1, <2>3
    <3>2. QED BY <2>3, <3>1, RangeLookup
  <2>4. QED BY <2>2, <2>3
<1> HIDE DEF of
<1>5. Leads(d, 6, of)
  BY <1>2, <1>3, <1>4 DEF Leads
<1>6. QED BY <1>5, FindsByTable DEF d

(* The three ranges of a history.                                             *)
LEMMA FindsHistory == Finds(History)
<1> DEFINE d == History
           of == [k \in 1 .. 4 |-> IF k = 1 THEN 1 ELSE IF k = 2 THEN 5 ELSE k + 5]
           r  == << <<1, 0>>, <<5, 1>>, <<8, 2>>, <<0, 4>> >>
<1>1. d.ranges = r
  BY DEF History, Descriptor
<1>2. DOMAIN d.fields = 1 .. 4 /\ \A k \in 1 .. 4 : d.fields[k][1] = of[k]
  BY DEF History, Descriptor, HistoryFields
<1> HIDE DEF d
<1>3. of \in [1 .. 4 -> Nat \ {0}] /\ \A j, k \in 1 .. 4 : of[j] = of[k] => j = k
  OBVIOUS
<1>4. ASSUME NEW t \in Nat
      PROVE  \/ \E k \in 1 .. 4 : of[k] = t /\ FieldOf(d, t) = d.fields[k]
             \/ FieldOf(d, t) = NoField /\ \A k \in 1 .. 4 : of[k] # t
  <2>1. /\ t = 1 => Hits(r, t) = {1}
        /\ t = 5 => Hits(r, t) = {2}
        /\ t \in 8 .. 9 => Hits(r, t) = {3}
        /\ t \notin {1, 5, 8, 9} => Hits(r, t) = {}
    BY DEF Hits
  <2>2. CASE t = 1
    <3>1. Hits(r, t) = {1} /\ t - r[1][1] + r[1][2] + 1 = 1
      BY <2>1, <2>2
    <3>2. FieldOf(d, t) = d.fields[1]
      BY <1>1, <3>1, RangeLookup
    <3>3. QED BY <2>2, <3>2
  <2>3. CASE t = 5
    <3>1. Hits(r, t) = {2} /\ t - r[2][1] + r[2][2] + 1 = 2
      BY <2>1, <2>3
    <3>2. FieldOf(d, t) = d.fields[2]
      BY <1>1, <3>1, RangeLookup
    <3>3. QED BY <2>3, <3>2
  <2>4. CASE t \in 8 .. 9
    <3>1. Hits(r, t) = {3} /\ t - r[3][1] + r[3][2] + 1 = t - 5
      BY <2>1, <2>4
    <3>2. FieldOf(d, t) = d.fields[t - 5]
      BY <1>1, <3>1, RangeLookup
    <3>3. t - 5 \in 1 .. 4 /\ of[t - 5] = t
      BY <2>4
    <3>4. QED BY <3>2, <3>3
  <2>5. CASE t \notin {1, 5, 8, 9}
    <3>1. Hits(r, t) = {}
      BY <2>1, <2>5
    <3>2. QED BY <1>1, <2>5, <3>1, RangeLookup
  <2>6. QED BY <2>2, <2>3, <2>4, <2>5
<1> HIDE DEF of, r
<1>5. Leads(d, 4, of)
  BY <1>2, <1>3, <1>4 DEF Leads
<1>6. QED BY <1>5, FindsByTable DEF d

(* The two ranges of a frame, and the two fields that embed messages.         *)
LEMMA FindsUpdate == Finds(Update) /\ DOMAIN Update.fields = 1 .. 4
                     /\ Calls(Update.fields, 4, "history", 14)
                     /\ Calls(Update.fields, 4, "aircraft", 15)
                     /\ Embeds(Update.fields, 4, {14, 15})
<1> DEFINE d == Update
           of == [k \in 1 .. 4 |-> IF k <= 2 THEN k ELSE k + 11]
           r  == << <<1, 0>>, <<14, 2>>, <<0, 4>> >>
<1>1. d.ranges = r
  BY DEF Update, Descriptor
<1>2. DOMAIN d.fields = 1 .. 4 /\ \A k \in 1 .. 4 : d.fields[k][1] = of[k]
  BY DEF Update, Descriptor, UpdateFields
<1>3. /\ Calls(d.fields, 4, "history", 14) /\ Calls(d.fields, 4, "aircraft", 15)
      /\ Embeds(d.fields, 4, {14, 15})
  BY DEF Update, Descriptor, UpdateFields, Calls, Embeds
<1> HIDE DEF d
<1>4. of \in [1 .. 4 -> Nat \ {0}] /\ \A j, k \in 1 .. 4 : of[j] = of[k] => j = k
  OBVIOUS
<1>5. ASSUME NEW t \in Nat
      PROVE  \/ \E k \in 1 .. 4 : of[k] = t /\ FieldOf(d, t) = d.fields[k]
             \/ FieldOf(d, t) = NoField /\ \A k \in 1 .. 4 : of[k] # t
  <2>1. /\ t \in 1 .. 2 => Hits(r, t) = {1}
        /\ t \in 14 .. 15 => Hits(r, t) = {2}
        /\ t \notin {1, 2, 14, 15} => Hits(r, t) = {}
    BY DEF Hits
  <2>2. CASE t \in 1 .. 2
    <3>1. Hits(r, t) = {1} /\ t - r[1][1] + r[1][2] + 1 = t
      BY <2>1, <2>2
    <3>2. FieldOf(d, t) = d.fields[t]
      BY <1>1, <3>1, RangeLookup
    <3>3. QED BY <2>2, <3>2
  <2>3. CASE t \in 14 .. 15
    <3>1. Hits(r, t) = {2} /\ t - r[2][1] + r[2][2] + 1 = t - 11
      BY <2>1, <2>3
    <3>2. FieldOf(d, t) = d.fields[t - 11]
      BY <1>1, <3>1, RangeLookup
    <3>3. t - 11 \in 1 .. 4 /\ of[t - 11] = t
      BY <2>3
    <3>4. QED BY <3>2, <3>3
  <2>4. CASE t \notin {1, 2, 14, 15}
    <3>1. Hits(r, t) = {}
      BY <2>1, <2>4
    <3>2. QED BY <1>1, <2>4, <3>1, RangeLookup
  <2>5. QED BY <2>2, <2>3, <2>4
<1> HIDE DEF of, r
<1>6. Leads(d, 4, of)
  BY <1>2, <1>4, <1>5 DEF Leads
<1>7. QED BY <1>2, <1>3, <1>6, FindsByTable DEF d

----------------------------------------------------------------------------
(* A descriptor of N fields, of which the one called name has tag t.          *)
IsNamed(d, N, name, t) ==
  /\ Finds(d) /\ DOMAIN d.fields = 1 .. N
  /\ Calls(d.fields, N, name, t) /\ t \in Tags(d) /\ name # "unknown"

(* The same fields by their names, or by their tags.                          *)
LEMMA AtByTag ==
  ASSUME NEW d, NEW N, NEW name, NEW t, IsNamed(d, N, name, t), NEW w, IsMessage(w)
  PROVE  At(d, w, name) = {i \in DOMAIN w : w[i].tag = t}
<1> SUFFICES ASSUME NEW i \in DOMAIN w
             PROVE  FieldOf(d, w[i].tag)[2] = name <=> w[i].tag = t
  BY DEF At
<1> USE DEF IsNamed
<1>1. w[i].tag \in Nat
  BY DEF IsMessage
<1>2. CASE \E k \in 1 .. N : FieldOf(d, w[i].tag) = d.fields[k] /\ d.fields[k][1] = w[i].tag
  BY <1>2 DEF Calls
<1>3. CASE FieldOf(d, w[i].tag) = NoField /\ w[i].tag \notin Tags(d)
  BY <1>3 DEF NoField
<1>4. QED BY <1>1, <1>2, <1>3 DEF Finds

(* The types are right by the ranges exactly if they are by the tags.         *)
LEMMA TypedByTag ==
  ASSUME NEW d, Finds(d), NEW w, IsMessage(w)
  PROVE  WellTyped(d, w) <=> ~WrongType(d.fields, w)
<1> SUFFICES ASSUME NEW i \in DOMAIN w
             PROVE  LET g == FieldOf(d, w[i].tag)
                    IN  (g # NoField => w[i].wt = WireType(g[3]))
                        <=> \A k \in DOMAIN d.fields :
                              d.fields[k][1] = w[i].tag => WireType(d.fields[k][3]) = w[i].wt
  BY DEF WellTyped, WrongType
<1> DEFINE t == w[i].tag
<1>1. t \in Nat
  BY DEF IsMessage
<1>2. CASE \E k \in DOMAIN d.fields : FieldOf(d, t) = d.fields[k] /\ d.fields[k][1] = t
  <2>1. PICK k \in DOMAIN d.fields : FieldOf(d, t) = d.fields[k] /\ d.fields[k][1] = t
    BY <1>2
  <2>2. t # 0
    BY <2>1 DEF Finds, Tags
  <2>3. FieldOf(d, t) # NoField
    BY <2>1, <2>2 DEF NoField
  <2>4. \A j \in DOMAIN d.fields : d.fields[j][1] = t <=> j = k
    BY <2>1 DEF Finds
  <2>5. QED BY <2>1, <2>3, <2>4
<1>3. CASE FieldOf(d, t) = NoField /\ t \notin Tags(d)
  BY <1>3 DEF Tags
<1>4. QED BY <1>1, <1>2, <1>3 DEF Finds

(* A set of positions of a message has a last one.                            *)
LEMMA LastIsOne ==
  ASSUME NEW w, IsMessage(w), NEW S \in SUBSET DOMAIN w, S # {}, NEW default
  PROVE  \E i \in S : LastOf(w, S, default) = w[i].val
<1> DEFINE n == Len(w)
           T == {n - i : i \in S}
<1>1. n \in Nat /\ S \subseteq 1 .. n
  BY DEF IsMessage
<1>2. T \subseteq Nat /\ T # {}
  BY <1>1
<1>3. \A i \in S : n - i \in T
  OBVIOUS
<1>4. \A x \in T : \E i \in S : x = n - i
  OBVIOUS
<1> HIDE DEF T
<1>5. PICK x \in T : \A y \in T : x <= y
  BY <1>2, Least
<1>6. PICK i \in S : x = n - i
  BY <1>4, <1>5
<1>7. \A j \in S : j <= i
  <2> SUFFICES ASSUME NEW j \in S PROVE j <= i
    OBVIOUS
  <2>1. n - i <= n - j /\ i \in Nat /\ j \in Nat
    BY <1>1, <1>3, <1>5, <1>6
  <2>2. QED BY <1>1, <2>1
<1> DEFINE m == CHOOSE k \in S : \A j \in S : j <= k
<1>8. m \in S
  BY <1>7
<1>9. LastOf(w, S, default) = w[m].val
  BY DEF LastOf
<1> HIDE DEF m
<1>10. QED BY <1>8, <1>9

----------------------------------------------------------------------------
(* So is the last value of a field.                                           *)
LEMMA ScalarByTag ==
  ASSUME NEW d, NEW N, NEW name, NEW t, IsNamed(d, N, name, t),
         NEW w, IsMessage(w), NEW default
  PROVE  Scalar(d, w, name, default) = ByTag(w, t, default)
<1>1. At(d, w, name) = {i \in DOMAIN w : w[i].tag = t}
  BY AtByTag
<1>2. QED BY <1>1 DEF Scalar, ByTag

(* A field that embeds messages and has its type has their wire type.         *)
IsEmbedded(d, t) ==
  /\ Finds(d)
  /\ \E k \in DOMAIN d.fields : d.fields[k][1] = t /\ d.fields[k][3] = "MESSAGE"

(* Its wire type is that of an embedded message.                              *)
LEMMA EmbedTyped ==
  ASSUME NEW d, NEW t, IsEmbedded(d, t), NEW w, IsMessage(w), WellTyped(d, w),
         NEW i \in DOMAIN w, w[i].tag = t
  PROVE  w[i].wt = "LEN"
<1>1. PICK k \in DOMAIN d.fields : d.fields[k][1] = t /\ d.fields[k][3] = "MESSAGE"
  BY DEF IsEmbedded
<1>2. WireType("MESSAGE") = "LEN"
  BY DEF WireType
<1>3. ~WrongType(d.fields, w)
  BY TypedByTag DEF IsEmbedded
<1>4. WireType(d.fields[k][3]) = w[i].wt
  BY <1>1, <1>3 DEF WrongType
<1>5. QED BY <1>1, <1>2, <1>4

(* The names and the tags that decode_ac_pb and unpack look for.              *)
LEMMA TagsThere ==
  /\ {1, 5, 11, 23, 41, 150, 151} \subseteq Tags(AircraftMeta)
  /\ {101, 103, 121} \subseteq Tags(ValidSource)
  /\ {14, 15} \subseteq Tags(Update)
<1>1. \A k \in 1 .. 48 : MetaTag[k] \in Tags(AircraftMeta)
  BY MetaTable DEF Tags
<1>2. /\ MetaTag[1] = 1 /\ MetaTag[5] = 5 /\ MetaTag[11] = 11 /\ MetaTag[18] = 23
      /\ MetaTag[36] = 41 /\ MetaTag[47] = 150 /\ MetaTag[48] = 151
  BY DEF MetaTag
<1>3. \A k \in 1 .. 33 : SourceTag[k] \in Tags(ValidSource)
  BY SourceTable DEF Tags
<1>4. SourceTag[2] = 101 /\ SourceTag[4] = 103 /\ SourceTag[22] = 121
  BY DEF SourceTag
<1>5. DOMAIN Update.fields = 1 .. 4
  BY FindsUpdate
<1>6. Update.fields[3][1] = 14 /\ Update.fields[4][1] = 15
  BY DEF Update, Descriptor, UpdateFields
<1>7. \A k \in 1 .. 4 : Update.fields[k][1] \in Tags(Update)
  BY <1>5 DEF Tags
<1>8. {1, 5, 11, 23, 41, 150, 151} \subseteq Tags(AircraftMeta)
  <2>1. /\ 1 \in Tags(AircraftMeta) /\ 5 \in Tags(AircraftMeta) /\ 11 \in Tags(AircraftMeta)
        /\ 23 \in Tags(AircraftMeta) /\ 41 \in Tags(AircraftMeta)
        /\ 150 \in Tags(AircraftMeta) /\ 151 \in Tags(AircraftMeta)
    BY <1>1, <1>2
  <2>2. QED BY <2>1
<1>9. {101, 103, 121} \subseteq Tags(ValidSource)
  <2>1. /\ 101 \in Tags(ValidSource) /\ 103 \in Tags(ValidSource)
        /\ 121 \in Tags(ValidSource)
    BY <1>3, <1>4
  <2>2. QED BY <2>1
<1>10. {14, 15} \subseteq Tags(Update)
  BY <1>6, <1>7
<1>11. QED BY <1>8, <1>9, <1>10

(* The four fields that embed messages.                                       *)
LEMMA FourEmbed ==
  /\ IsEmbedded(AircraftMeta, 150) /\ IsEmbedded(AircraftMeta, 151)
  /\ IsEmbedded(Update, 14) /\ IsEmbedded(Update, 15)
<1>1. IsEmbedded(AircraftMeta, 150) /\ IsEmbedded(AircraftMeta, 151)
  <2> DEFINE d == AircraftMeta
  <2>1. /\ Finds(d) /\ DOMAIN d.fields = 1 .. 48 /\ Embeds(d.fields, 48, {150, 151})
        /\ 150 \in Tags(d) /\ 151 \in Tags(d)
    BY FindsMeta, MetaTable, TagsThere DEF CallsMeta
  <2> HIDE DEF d
  <2>2. IsEmbedded(d, 150) /\ IsEmbedded(d, 151)
    BY <2>1, ZenonT(60) DEF IsEmbedded, Embeds, Tags
  <2>3. QED BY <2>2 DEF d
<1>2. IsEmbedded(Update, 14) /\ IsEmbedded(Update, 15)
  <2> DEFINE d == Update
  <2>1. /\ Finds(d) /\ DOMAIN d.fields = 1 .. 4 /\ Embeds(d.fields, 4, {14, 15})
        /\ 14 \in Tags(d) /\ 15 \in Tags(d)
    BY FindsUpdate, TagsThere
  <2> HIDE DEF d
  <2>2. IsEmbedded(d, 14) /\ IsEmbedded(d, 15)
    BY <2>1 DEF IsEmbedded, Embeds, Tags
  <2>3. QED BY <2>2 DEF d
<1>3. QED BY <1>1, <1>2

(* The fields of an aircraft by their tags.                                   *)
LEMMA MetaByTag ==
  ASSUME NEW m, IsMessage(m)
  PROVE  /\ At(AircraftMeta, m, "nav_modes") = {i \in DOMAIN m : m[i].tag = 150}
         /\ At(AircraftMeta, m, "valid_source") = {i \in DOMAIN m : m[i].tag = 151}
         /\ \A x : /\ Scalar(AircraftMeta, m, "addr", x) = ByTag(m, 1, x)
                   /\ Scalar(AircraftMeta, m, "alt_baro", x) = ByTag(m, 5, x)
                   /\ Scalar(AircraftMeta, m, "seen", x) = ByTag(m, 11, x)
                   /\ Scalar(AircraftMeta, m, "gs", x) = ByTag(m, 23, x)
                   /\ Scalar(AircraftMeta, m, "seen_pos", x) = ByTag(m, 41, x)
                   /\ Scalar(AircraftMeta, m, "valid_source", x) = ByTag(m, 151, x)
<1> DEFINE d == AircraftMeta
<1>1. Finds(d) /\ DOMAIN d.fields = 1 .. 48 /\ CallsMeta(d.fields, 48)
      /\ {1, 5, 11, 23, 41, 150, 151} \subseteq Tags(d)
  BY FindsMeta, MetaTable, TagsThere
<1> HIDE DEF d
<1>2. /\ Calls(d.fields, 48, "addr", 1) /\ Calls(d.fields, 48, "alt_baro", 5)
      /\ Calls(d.fields, 48, "seen", 11) /\ Calls(d.fields, 48, "gs", 23)
      /\ Calls(d.fields, 48, "seen_pos", 41) /\ Calls(d.fields, 48, "nav_modes", 150)
      /\ Calls(d.fields, 48, "valid_source", 151)
  BY <1>1 DEF CallsMeta
<1>3. /\ IsNamed(d, 48, "addr", 1) /\ IsNamed(d, 48, "alt_baro", 5)
      /\ IsNamed(d, 48, "seen", 11) /\ IsNamed(d, 48, "gs", 23)
      /\ IsNamed(d, 48, "seen_pos", 41) /\ IsNamed(d, 48, "nav_modes", 150)
      /\ IsNamed(d, 48, "valid_source", 151)
  BY <1>1, <1>2 DEF IsNamed
<1>4. At(d, m, "nav_modes") = {i \in DOMAIN m : m[i].tag = 150}
      /\ At(d, m, "valid_source") = {i \in DOMAIN m : m[i].tag = 151}
  BY <1>3, AtByTag
<1>5. ASSUME NEW x
      PROVE  /\ Scalar(d, m, "addr", x) = ByTag(m, 1, x)
             /\ Scalar(d, m, "alt_baro", x) = ByTag(m, 5, x)
             /\ Scalar(d, m, "seen", x) = ByTag(m, 11, x)
             /\ Scalar(d, m, "gs", x) = ByTag(m, 23, x)
             /\ Scalar(d, m, "seen_pos", x) = ByTag(m, 41, x)
             /\ Scalar(d, m, "valid_source", x) = ByTag(m, 151, x)
  BY <1>3, ScalarByTag
<1>6. QED BY <1>4, <1>5 DEF d

(* Which values readsb has, by their tags.                                    *)
LEMMA SourceByTag ==
  ASSUME NEW v, IsMessage(v), NEW x
  PROVE  /\ Scalar(ValidSource, v, "altitude", x) = ByTag(v, 101, x)
         /\ Scalar(ValidSource, v, "gs", x) = ByTag(v, 103, x)
         /\ Scalar(ValidSource, v, "lat", x) = ByTag(v, 121, x)
<1> DEFINE d == ValidSource
<1>1. Finds(d) /\ DOMAIN d.fields = 1 .. 33 /\ CallsSource(d.fields, 33)
      /\ {101, 103, 121} \subseteq Tags(d)
  BY FindsSource, SourceTable, TagsThere
<1> HIDE DEF d
<1>2. /\ Calls(d.fields, 33, "altitude", 101) /\ Calls(d.fields, 33, "gs", 103)
      /\ Calls(d.fields, 33, "lat", 121)
  BY <1>1 DEF CallsSource
<1>3. /\ IsNamed(d, 33, "altitude", 101) /\ IsNamed(d, 33, "gs", 103)
      /\ IsNamed(d, 33, "lat", 121)
  BY <1>1, <1>2 DEF IsNamed
<1>4. /\ Scalar(d, v, "altitude", x) = ByTag(v, 101, x)
      /\ Scalar(d, v, "gs", x) = ByTag(v, 103, x)
      /\ Scalar(d, v, "lat", x) = ByTag(v, 121, x)
  BY <1>3, ScalarByTag
<1>5. QED BY <1>4 DEF d

(* The fields of a frame by their tags.                                       *)
LEMMA UpdateByTag ==
  ASSUME NEW f, IsMessage(f)
  PROVE  /\ At(Update, f, "history") = {i \in DOMAIN f : f[i].tag = 14}
         /\ At(Update, f, "aircraft") = {i \in DOMAIN f : f[i].tag = 15}
<1> DEFINE d == Update
<1>1. Finds(d) /\ DOMAIN d.fields = 1 .. 4 /\ 14 \in Tags(d) /\ 15 \in Tags(d)
      /\ Calls(d.fields, 4, "history", 14) /\ Calls(d.fields, 4, "aircraft", 15)
  BY FindsUpdate, TagsThere
<1> HIDE DEF d
<1>2. IsNamed(d, 4, "history", 14) /\ IsNamed(d, 4, "aircraft", 15)
  BY <1>1 DEF IsNamed
<1>3. At(d, f, "history") = {i \in DOMAIN f : f[i].tag = 14}
      /\ At(d, f, "aircraft") = {i \in DOMAIN f : f[i].tag = 15}
  BY <1>2, AtByTag
<1>4. QED BY <1>3 DEF d

----------------------------------------------------------------------------
(* An aircraft is taken by unpack exactly if nothing in it has a wrong type.  *)
LEMMA MetaUnpacks ==
  ASSUME NEW m, IsMeta(m)
  PROVE  BadMeta(m) <=>
           ~ /\ WellTyped(AircraftMeta, m)
             /\ \A n \in All(AircraftMeta, m, "nav_modes") : WellTyped(NavModes, n)
             /\ \A v \in All(AircraftMeta, m, "valid_source") : WellTyped(ValidSource, v)
<1>1. IsMessage(m)
  BY DEF IsMeta
<1>2. WellTyped(AircraftMeta, m) <=> ~WrongType(AircraftMeta.fields, m)
  BY <1>1, FindsMeta, TypedByTag
<1>3. CASE ~WellTyped(AircraftMeta, m)
  BY <1>2, <1>3 DEF BadMeta
<1>4. CASE WellTyped(AircraftMeta, m)
  <2>1. \A i \in DOMAIN m : m[i].tag \in {150, 151} => m[i].wt = "LEN"
    <3>1. SUFFICES ASSUME NEW i \in DOMAIN m, m[i].tag \in {150, 151}
                   PROVE  m[i].wt = "LEN"
      OBVIOUS
    <3>2. QED BY <1>1, <1>4, <3>1, FourEmbed, EmbedTyped
  <2>2. \A i \in DOMAIN m : m[i].tag \in {150, 151} => IsMessage(m[i].val)
    BY <2>1 DEF IsMeta, Holds
  <2>3. \A i \in DOMAIN m : m[i].tag = 150 =>
          (WellTyped(NavModes, m[i].val) <=> ~BadModes(m[i].val))
    BY <2>2, FindsModes, TypedByTag DEF BadModes
  <2>4. \A i \in DOMAIN m : m[i].tag = 151 =>
          (WellTyped(ValidSource, m[i].val) <=> ~BadSource(m[i].val))
    BY <2>2, FindsSource, TypedByTag DEF BadSource
  <2>5. (\A n \in All(AircraftMeta, m, "nav_modes") : WellTyped(NavModes, n))
          <=> ~Within(m, 150, BadModes)
    <3>1. All(AircraftMeta, m, "nav_modes")
            = {m[i].val : i \in {j \in DOMAIN m : m[j].tag = 150}}
      BY <1>1, MetaByTag DEF All
    <3>2. QED BY <2>3, <3>1 DEF Within
  <2>6. (\A v \in All(AircraftMeta, m, "valid_source") : WellTyped(ValidSource, v))
          <=> ~Within(m, 151, BadSource)
    <3>1. All(AircraftMeta, m, "valid_source")
            = {m[i].val : i \in {j \in DOMAIN m : m[j].tag = 151}}
      BY <1>1, MetaByTag DEF All
    <3>2. QED BY <2>4, <3>1 DEF Within
  <2>7. QED BY <1>2, <1>4, <2>5, <2>6 DEF BadMeta
<1>5. QED BY <1>3, <1>4

(* So is a frame.                                                             *)
LEMMA FrameUnpacks ==
  ASSUME NEW f, IsUpdate(f)
  PROVE  /\ Malformed(f) <=> ~Unpacks(f)
         /\ ~Malformed(f) => \A i \in DOMAIN f :
              f[i].tag = 15 => IsMeta(f[i].val) /\ ~BadMeta(f[i].val)
<1>1. IsMessage(f)
  BY DEF IsUpdate
<1>2. WellTyped(Update, f) <=> ~WrongType(Update.fields, f)
  BY <1>1, FindsUpdate, TypedByTag
<1>3. CASE ~WellTyped(Update, f)
  BY <1>2, <1>3 DEF Malformed, Unpacks
<1>4. CASE WellTyped(Update, f)
  <2>1. \A i \in DOMAIN f : f[i].tag \in {14, 15} => f[i].wt = "LEN"
    <3>1. SUFFICES ASSUME NEW i \in DOMAIN f, f[i].tag \in {14, 15}
                   PROVE  f[i].wt = "LEN"
      OBVIOUS
    <3>2. QED BY <1>1, <1>4, <3>1, FourEmbed, EmbedTyped
  <2>2. \A i \in DOMAIN f : /\ f[i].tag = 14 => IsMessage(f[i].val)
                            /\ f[i].tag = 15 => IsMeta(f[i].val)
    BY <2>1 DEF IsUpdate, Holds
  <2>3. \A i \in DOMAIN f : f[i].tag = 14 =>
          (WellTyped(History, f[i].val) <=> ~BadHistory(f[i].val))
    BY <2>2, FindsHistory, TypedByTag DEF BadHistory
  <2>4. DEFINE Taken(m) ==
          /\ WellTyped(AircraftMeta, m)
          /\ \A n \in All(AircraftMeta, m, "nav_modes") : WellTyped(NavModes, n)
          /\ \A v \in All(AircraftMeta, m, "valid_source") : WellTyped(ValidSource, v)
  <2>5. \A i \in DOMAIN f : f[i].tag = 15 => (Taken(f[i].val) <=> ~BadMeta(f[i].val))
    BY <2>2, MetaUnpacks
  <2>6. Unpacks(f) <=> /\ \A h \in All(Update, f, "history") : WellTyped(History, h)
                       /\ \A m \in All(Update, f, "aircraft") : Taken(m)
    BY <1>4 DEF Unpacks
  <2> HIDE DEF Taken
  <2>7. (\A h \in All(Update, f, "history") : WellTyped(History, h))
          <=> ~Within(f, 14, BadHistory)
    <3>1. All(Update, f, "history") = {f[i].val : i \in {j \in DOMAIN f : f[j].tag = 14}}
      BY <1>1, UpdateByTag DEF All
    <3>2. QED BY <2>3, <3>1 DEF Within
  <2>8. (\A m \in All(Update, f, "aircraft") : Taken(m)) <=> ~Within(f, 15, BadMeta)
    <3>1. All(Update, f, "aircraft") = {f[i].val : i \in {j \in DOMAIN f : f[j].tag = 15}}
      BY <1>1, UpdateByTag DEF All
    <3>2. QED BY <2>5, <3>1 DEF Within
  <2>9. Malformed(f) <=> ~Unpacks(f)
    BY <1>2, <1>4, <2>6, <2>7, <2>8 DEF Malformed
  <2>10. ~Malformed(f) => \A i \in DOMAIN f : f[i].tag = 15 => ~BadMeta(f[i].val)
    BY DEF Malformed, Within
  <2>11. QED BY <2>2, <2>9, <2>10
<1>5. QED BY <1>3, <1>4

(* What decode_ac_pb makes of an aircraft, value by value.                    *)
Tuple(a) == <<a.addr, a.alt, a.speed, a.seen_tm, a.seen_pos>>

(* An aircraft of an unpacked frame: its embedded message is one.             *)
LEMMA AircraftTold ==
  ASSUME NEW m, IsMeta(m), ~BadMeta(m)
  PROVE  AircraftOf(m).valid = HasValue(m, 121) /\ Tuple(AircraftOf(m)) = Told(m)
<1> DEFINE at == {i \in DOMAIN m : m[i].tag = 151}
           v  == ByTag(m, 151, << >>)
<1>1. IsMessage(m)
  BY DEF IsMeta
<1>2. IsMessage(v)
  <2>1. CASE at = {}
    <3>1. v = << >>
      BY <2>1 DEF ByTag, LastOf
    <3>2. << >> = [i \in 1 .. 0 |-> 0] /\ << >> \in Seq(Nat)
      OBVIOUS
    <3>3. Len(<< >>) = 0 /\ DOMAIN << >> = 1 .. 0
      BY <3>2
    <3>4. QED BY <3>1, <3>3 DEF IsMessage
  <2>2. CASE at # {}
    <3>1. PICK i \in at : v = m[i].val
      <4>1. at \in SUBSET DOMAIN m /\ v = LastOf(m, at, << >>)
        BY DEF ByTag
      <4> HIDE DEF at, v
      <4>2. QED BY <1>1, <2>2, <4>1, LastIsOne
    <3>2. ~WrongType(AircraftMeta.fields, m)
      BY DEF BadMeta
    <3>3. WellTyped(AircraftMeta, m)
      BY <1>1, <3>2, FindsMeta, TypedByTag
    <3>4. m[i].wt = "LEN"
      BY <1>1, <3>3, FourEmbed, EmbedTyped
    <3>5. QED BY <3>1, <3>4 DEF IsMeta, Holds
  <2>3. QED BY <2>1, <2>2
<1>3. Scalar(AircraftMeta, m, "valid_source", << >>) = v
  BY <1>1, MetaByTag
<1>4. /\ Scalar(ValidSource, v, "altitude", 0) = ByTag(v, 101, 0)
      /\ Scalar(ValidSource, v, "gs", 0) = ByTag(v, 103, 0)
      /\ Scalar(ValidSource, v, "lat", 0) = ByTag(v, 121, 0)
  BY <1>2, SourceByTag
<1>5. HasValue(m, 121) = (ByTag(v, 121, 0) > 0)
  BY DEF HasValue
<1>a. HasValue(m, 101) <=> ByTag(v, 101, 0) > 0
  BY DEF HasValue
<1>s. HasValue(m, 103) <=> ByTag(v, 103, 0) > 0
  BY DEF HasValue
<1> HIDE DEF v, at
<1>6. AircraftOf(m).valid = HasValue(m, 121)
  <2>1. AircraftOf(m).valid
          = (Scalar(ValidSource, Scalar(AircraftMeta, m, "valid_source", << >>), "lat", 0) > 0)
    BY DEF AircraftOf
  <2>2. AircraftOf(m).valid = (ByTag(v, 121, 0) > 0)
    BY <1>3, <1>4, <2>1
  <2>3. QED BY <1>5, <2>2, Zenon
<1>7. /\ AircraftOf(m).addr = ByTag(m, 1, 0)
      /\ AircraftOf(m).alt = IF HasValue(m, 101) THEN ByTag(m, 5, 0) ELSE 0
      /\ AircraftOf(m).speed = IF HasValue(m, 103) THEN ByTag(m, 23, 0) ELSE 0
      /\ AircraftOf(m).seen_tm = ByTag(m, 11, 0)
      /\ AircraftOf(m).seen_pos = ByTag(m, 41, 0)
  <2>1. /\ AircraftOf(m).addr = Scalar(AircraftMeta, m, "addr", 0)
        /\ AircraftOf(m).seen_tm = Scalar(AircraftMeta, m, "seen", 0)
        /\ AircraftOf(m).seen_pos = Scalar(AircraftMeta, m, "seen_pos", 0)
    BY DEF AircraftOf
  <2>2. /\ Scalar(AircraftMeta, m, "addr", 0) = ByTag(m, 1, 0)
        /\ Scalar(AircraftMeta, m, "alt_baro", 0) = ByTag(m, 5, 0)
        /\ Scalar(AircraftMeta, m, "seen", 0) = ByTag(m, 11, 0)
        /\ Scalar(AircraftMeta, m, "gs", 0) = ByTag(m, 23, 0)
        /\ Scalar(AircraftMeta, m, "seen_pos", 0) = ByTag(m, 41, 0)
    BY <1>1, MetaByTag
  <2>3. AircraftOf(m).alt = IF HasValue(m, 101) THEN ByTag(m, 5, 0) ELSE 0
    <3> DEFINE there == Scalar(ValidSource, Scalar(AircraftMeta, m, "valid_source", << >>),
                               "altitude", 0)
    <3>a. AircraftOf(m).alt = IF there > 0 THEN Scalar(AircraftMeta, m, "alt_baro", 0) ELSE 0
      BY DEF AircraftOf
    <3>b. there = ByTag(v, 101, 0)
      BY <1>3, <1>4
    <3>c. Scalar(AircraftMeta, m, "alt_baro", 0) = ByTag(m, 5, 0)
      BY <2>2
    <3> HIDE DEF there
    <3>1. there > 0 <=> ByTag(v, 101, 0) > 0
      BY <3>b
    <3>2. there > 0 <=> HasValue(m, 101)
      BY <1>a, <3>1, Zenon
    <3>3. CASE HasValue(m, 101)
      <4>1. there > 0
        BY <3>2, <3>3, Zenon
      <4>2. AircraftOf(m).alt = Scalar(AircraftMeta, m, "alt_baro", 0)
        BY <3>a, <4>1
      <4>3. AircraftOf(m).alt = ByTag(m, 5, 0)
        BY <3>c, <4>2
      <4>4. QED BY <3>3, <4>3, Zenon
    <3>4. CASE ~HasValue(m, 101)
      <4>1. ~(there > 0)
        BY <3>2, <3>4, Zenon
      <4>2. AircraftOf(m).alt = 0
        BY <3>a, <4>1
      <4>3. QED BY <3>4, <4>2, Zenon
    <3>5. QED BY <3>3, <3>4, Zenon
  <2>4. AircraftOf(m).speed = IF HasValue(m, 103) THEN ByTag(m, 23, 0) ELSE 0
    <3> DEFINE there == Scalar(ValidSource, Scalar(AircraftMeta, m, "valid_source", << >>),
                               "gs", 0)
    <3>a. AircraftOf(m).speed = IF there > 0 THEN Scalar(AircraftMeta, m, "gs", 0) ELSE 0
      BY DEF AircraftOf
    <3>b. there = ByTag(v, 103, 0)
      BY <1>3, <1>4
    <3>c. Scalar(AircraftMeta, m, "gs", 0) = ByTag(m, 23, 0)
      BY <2>2
    <3> HIDE DEF there
    <3>1. there > 0 <=> ByTag(v, 103, 0) > 0
      BY <3>b
    <3>2. there > 0 <=> HasValue(m, 103)
      BY <1>s, <3>1, Zenon
    <3>3. CASE HasValue(m, 103)
      <4>1. there > 0
        BY <3>2, <3>3, Zenon
      <4>2. AircraftOf(m).speed = Scalar(AircraftMeta, m, "gs", 0)
        BY <3>a, <4>1
      <4>3. AircraftOf(m).speed = ByTag(m, 23, 0)
        BY <3>c, <4>2
      <4>4. QED BY <3>3, <4>3, Zenon
    <3>4. CASE ~HasValue(m, 103)
      <4>1. ~(there > 0)
        BY <3>2, <3>4, Zenon
      <4>2. AircraftOf(m).speed = 0
        BY <3>a, <4>1
      <4>3. QED BY <3>4, <4>2, Zenon
    <3>5. QED BY <3>3, <3>4, Zenon
  <2>5. /\ AircraftOf(m).addr = ByTag(m, 1, 0)
        /\ AircraftOf(m).seen_tm = ByTag(m, 11, 0)
        /\ AircraftOf(m).seen_pos = ByTag(m, 41, 0)
    BY <2>1, <2>2
  <2>6. QED BY <2>3, <2>4, <2>5, Zenon
<1>8. Tuple(AircraftOf(m)) = Told(m)
  <2> DEFINE a == AircraftOf(m)
  <2>1. Tuple(a) = <<a.addr, a.alt, a.speed, a.seen_tm, a.seen_pos>>
    BY DEF Tuple
  <2> DEFINE alt   == IF HasValue(m, 101) THEN ByTag(m, 5, 0) ELSE 0
             speed == IF HasValue(m, 103) THEN ByTag(m, 23, 0) ELSE 0
  <2>2. /\ a.addr = ByTag(m, 1, 0) /\ a.alt = alt /\ a.speed = speed
        /\ a.seen_tm = ByTag(m, 11, 0) /\ a.seen_pos = ByTag(m, 41, 0)
    BY <1>7, Zenon
  <2>3. Told(m) = <<ByTag(m, 1, 0), alt, speed, ByTag(m, 11, 0), ByTag(m, 41, 0)>>
    BY Zenon DEF Told
  <2> HIDE DEF a, alt, speed
  <2>4. Tuple(a) = Told(m)
    BY <2>1, <2>2, <2>3, Zenon
  <2>5. QED BY <2>4, Zenon DEF a
<1>9. QED BY <1>6, <1>8

----------------------------------------------------------------------------
(* The values at some positions of a message are a sequence of such values:   *)
(* the pass over the message exists, and what it has got is one at each step. *)
LEMMA ValuesFrom ==
  ASSUME NEW f, IsMessage(f), NEW S \in SUBSET DOMAIN f, NEW T,
         \A i \in S : f[i].val \in T
  PROVE  Values(f, S) \in Seq(T)
<1> DEFINE N == Len(f)
           Do(q, i) == IF i \in S THEN Append(q, f[i].val) ELSE q
           Eq(g) == g = [i \in 0 .. N |-> IF i = 0 THEN << >>
                                 ELSE IF i \in S THEN Append(g[i - 1], f[i].val)
                                 ELSE g[i - 1]]
           To(k, g) == /\ g \in [0 .. k -> Seq(T)] /\ g[0] = << >>
                       /\ \A i \in 1 .. k : g[i] = Do(g[i - 1], i)
           upto == CHOOSE g : Eq(g)
           K == {k \in 0 .. N : \E g : To(k, g)}
           M == {k \in 0 .. N : upto[k] \in Seq(T)}
<1>1. N \in Nat /\ << >> \in Seq(T)
  BY DEF IsMessage
<1>2. \A q \in Seq(T), i \in 1 .. N : Do(q, i) \in Seq(T)
  BY AppendProperties
<1>3. 0 \in K
  <2>1. To(0, [i \in 0 .. 0 |-> << >>])
    BY <1>1
  <2> HIDE DEF To
  <2>2. QED BY <1>1, <2>1
<1> HIDE DEF Do, N
<1>4. ASSUME NEW k \in 0 .. N, k # 0, k - 1 \in K PROVE k \in K
  <2>1. PICK g : To(k - 1, g)
    BY <1>4
  <2> DEFINE h == [i \in 0 .. k |-> IF i < k THEN g[i] ELSE Do(g[k - 1], k)]
  <2>2. k \in Nat /\ k - 1 \in 0 .. k - 1 /\ k \in 1 .. N
    BY <1>1, <1>4
  <2>3. \A i \in 0 .. k - 1 : h[i] = g[i] /\ g[i] \in Seq(T)
    BY <2>1, <2>2
  <2>4. h[k] = Do(g[k - 1], k) /\ h[k] \in Seq(T)
    <3>1. g[k - 1] \in Seq(T)
      BY <2>2, <2>3
    <3>2. k \in 0 .. k /\ ~(k < k)
      BY <2>2
    <3>3. h[k] = Do(g[k - 1], k)
      BY <3>2
    <3>4. QED BY <1>2, <2>2, <3>1, <3>3
  <2>5. h = [i \in 0 .. k |-> h[i]]
    OBVIOUS
  <2>6. \A i \in 0 .. k : i \in 0 .. k - 1 \/ i = k
    BY <2>2
  <2> HIDE DEF h
  <2>7. h \in [0 .. k -> Seq(T)]
    BY <2>3, <2>4, <2>5, <2>6
  <2>8. ASSUME NEW i \in 1 .. k PROVE h[i] = Do(h[i - 1], i)
    <3>1. i - 1 \in 0 .. k - 1
      BY <2>2
    <3>2. CASE i = k
      BY <2>3, <2>4, <3>1, <3>2
    <3>3. CASE i # k
      <4>1. i \in 0 .. k - 1 /\ i \in 1 .. k - 1
        BY <2>2, <3>3
      <4>2. QED BY <2>1, <2>3, <3>1, <4>1
    <3>4. QED BY <3>2, <3>3
  <2>9. To(k, h)
    BY <2>1, <2>2, <2>3, <2>7, <2>8
  <2> HIDE DEF To
  <2>10. QED BY <2>9
<1>5. PICK g : To(N, g)
  <2> HIDE DEF K, To
  <2>1. 0 .. N \subseteq K
    BY <1>1, <1>3, <1>4, UpTo
  <2>2. QED BY <1>1, <2>1 DEF K
<1>6. Eq(upto)
  <2>1. g = [i \in 0 .. N |-> g[i]]
    BY <1>5
  <2>2. \A i \in 0 .. N : i = 0 \/ i \in 1 .. N
    BY <1>1
  <2>3. \A i \in 1 .. N : g[i] = IF i \in S THEN Append(g[i - 1], f[i].val) ELSE g[i - 1]
    BY <1>5 DEF Do
  <2>4. Eq(g)
    BY <1>5, <2>1, <2>2, <2>3
  <2> HIDE DEF Eq
  <2>5. QED BY <2>4
<1> HIDE DEF upto
<1>7. upto[0] = << >>
  BY <1>1, <1>6
<1>8. ASSUME NEW i \in 1 .. N PROVE upto[i] = Do(upto[i - 1], i)
  <2>1. i \in 0 .. N /\ i # 0
    BY <1>1
  <2>2. upto[i] = IF i \in S THEN Append(upto[i - 1], f[i].val) ELSE upto[i - 1]
    BY <1>6, <2>1
  <2>3. QED BY <2>2 DEF Do
<1>9. 0 \in M
  <2>1. 0 \in 0 .. N
    BY <1>1
  <2>2. upto[0] \in Seq(T)
    BY <1>1, <1>7, Zenon
  <2>3. QED BY <2>1, <2>2
<1>10. ASSUME NEW k \in 0 .. N, k # 0, k - 1 \in M PROVE k \in M
  <2>1. k \in 1 .. N /\ upto[k - 1] \in Seq(T)
    BY <1>1, <1>10
  <2>2. QED BY <1>2, <1>8, <2>1
<1>11. N \in M
  <2> HIDE DEF M
  <2>1. QED BY <1>1, <1>9, <1>10, UpTo
<1>12. QED BY <1>11 DEF Values, upto, N

(* The tuples of a list of aircraft, in its order.                            *)
Tells(list, e) ==
  Len(list) = Len(e) /\ \A i \in 1 .. Len(e) : Tuple(list[i]) = e[i]

(* What decode_ac_pb takes out of a frame is what its tags say.               *)
LEMMA FrameTold ==
  ASSUME NEW f, IsUpdate(f)
  PROVE  /\ Len(Expected(f)) \in Nat
         /\ Tells(decode_ac_pb(f), Expected(f))
<1> DEFINE S == {i \in At(Update, f, "aircraft") : AircraftOf(f[i].val).valid}
           R == {i \in DOMAIN f : f[i].tag = 15 /\ HasValue(f[i].val, 121)}
<1>1. IsMessage(f)
  BY DEF IsUpdate
<1>2. CASE Malformed(f)
  <2>1. decode_ac_pb(f) = << >> /\ Expected(f) = << >>
    BY <1>2, FrameUnpacks DEF decode_ac_pb, Expected
  <2>2. Len(<< >>) = 0
    OBVIOUS
  <2>3. QED BY <2>1, <2>2 DEF Tells
<1>3. CASE ~Malformed(f)
  <2>1. \A i \in DOMAIN f : f[i].tag = 15 => IsMeta(f[i].val) /\ ~BadMeta(f[i].val)
    BY <1>3, FrameUnpacks
  <2>2. S = R
    <3>1. S = {i \in DOMAIN f : f[i].tag = 15 /\ AircraftOf(f[i].val).valid}
      BY <1>1, UpdateByTag
    <3>2. \A i \in DOMAIN f : f[i].tag = 15 =>
            AircraftOf(f[i].val).valid = HasValue(f[i].val, 121)
      BY <2>1, AircraftTold
    <3>3. QED BY <3>1, <3>2, Zenon
  <2> DEFINE acs == Values(f, R)
             T   == {f[i].val : i \in R}
  <2>3. acs \in Seq(T)
    <3>1. R \in SUBSET DOMAIN f /\ \A i \in R : f[i].val \in T
      OBVIOUS
    <3> HIDE DEF R, T
    <3>2. QED BY <1>1, <3>1, ValuesFrom
  <2>4. \A m \in T : Tuple(AircraftOf(m)) = Told(m)
    BY <2>1, AircraftTold
  <2>5. decode_ac_pb(f) = [i \in DOMAIN acs |-> AircraftOf(acs[i])]
    BY <1>3, <2>2, FrameUnpacks DEF decode_ac_pb
  <2>6. Expected(f) = [i \in DOMAIN acs |-> Told(acs[i])]
    BY <1>3 DEF Expected
  <2> HIDE DEF acs, T, S, R
  <2>7. Len(acs) \in Nat /\ DOMAIN acs = 1 .. Len(acs) /\ \A i \in 1 .. Len(acs) : acs[i] \in T
    BY <2>3, LenProperties, ElementOfSeq
  <2>8. Len(decode_ac_pb(f)) = Len(acs) /\ Len(Expected(f)) = Len(acs)
    <3>1. \A g : Len([i \in 1 .. Len(acs) |-> g[i]]) = Len(acs)
      BY <2>7
    <3>2. DOMAIN decode_ac_pb(f) = 1 .. Len(acs) /\ DOMAIN Expected(f) = 1 .. Len(acs)
      BY <2>5, <2>6, <2>7
    <3>3. /\ decode_ac_pb(f) = [i \in 1 .. Len(acs) |-> decode_ac_pb(f)[i]]
          /\ Expected(f) = [i \in 1 .. Len(acs) |-> Expected(f)[i]]
      BY <2>5, <2>6, <2>7
    <3>4. QED BY <3>1, <3>3
  <2>9. \A i \in 1 .. Len(acs) : Tuple(decode_ac_pb(f)[i]) = Expected(f)[i]
    BY <2>4, <2>5, <2>6, <2>7
  <2>10. QED BY <2>7, <2>8, <2>9 DEF Tells
<1>4. QED BY <1>2, <1>3

----------------------------------------------------------------------------
(* The frame that decode_pba is at came from the world, and what it has still *)
(* to plot are the last ones of those it tells of.                            *)
FromFrame ==
  frame # << >> =>
    /\ IsUpdate(frame)
    /\ LET e == Expected(frame)
       IN  \E k \in 0 .. Len(e) :
             /\ Len(todo) = Len(e) - k
             /\ \A i \in DOMAIN todo : Tuple(todo[i]) = e[i + k]

(* A frame that is fetched is decoded as a whole.                             *)
LEMMA FetchedTold ==
  ASSUME TypeOK, FetchOk PROVE FromFrame'
<1>1. PICK f \in Worlds[env.world].frames : frame' = f /\ todo' = Decoded[f]
  BY DEF FetchOk
<1>2. env.world \in DOMAIN Worlds /\ f \in Frames
  BY DEF TypeOK, Frames
<1>3. IsUpdate(f) /\ Decoded[f] \in Seq(Entry) /\ Decoded[f] = decode_ac_pb(f)
  BY <1>2, RadarAssumption DEF Decoded
<1>4. Len(Expected(f)) \in Nat /\ Tells(decode_ac_pb(f), Expected(f))
  BY <1>3, FrameTold
<1> DEFINE e == Expected(f)
           d == decode_ac_pb(f)
<1>5. Len(d) = Len(e) /\ DOMAIN d = 1 .. Len(e) /\ Len(e) \in Nat
      /\ \A i \in 1 .. Len(e) : Tuple(d[i]) = e[i]
  <2>1. d \in Seq(Entry)
    BY <1>3
  <2> HIDE DEF d
  <2>2. DOMAIN d = 1 .. Len(d)
    BY <2>1, LenProperties
  <2>3. QED BY <1>4, <2>2 DEF d, Tells
<1> HIDE DEF e, d
<1>6. 0 \in 0 .. Len(e) /\ Len(d) = Len(e) - 0 /\ \A i \in DOMAIN d : Tuple(d[i]) = e[i + 0]
  BY <1>5
<1>7. \E k \in 0 .. Len(e) :
        Len(d) = Len(e) - k /\ \A i \in DOMAIN d : Tuple(d[i]) = e[i + k]
  BY <1>6
<1>8. frame' = f /\ todo' = d
  BY <1>1, <1>3 DEF d
<1>9. QED BY <1>3, <1>7, <1>8 DEF FromFrame, e

(* Plotting the first of them leaves the rest.                                *)
LEMMA PlottedTold ==
  ASSUME TypeOK, FromFrame, PlotNext PROVE FromFrame'
<1> DEFINE e == Expected(frame)
<1>1. todo \in Seq(Entry) /\ todo # << >> /\ todo' = Tail(todo) /\ frame' = frame
  BY DEF TypeOK, PlotNext
<1>2. SUFFICES ASSUME frame # << >> PROVE FromFrame'
  BY <1>1 DEF FromFrame
<1>3. PICK k \in 0 .. Len(e) :
        Len(todo) = Len(e) - k /\ \A i \in DOMAIN todo : Tuple(todo[i]) = e[i + k]
  BY <1>2 DEF FromFrame
<1>4. /\ Len(todo) \in Nat \ {0} /\ DOMAIN todo = 1 .. Len(todo)
      /\ Len(Tail(todo)) = Len(todo) - 1 /\ DOMAIN Tail(todo) = 1 .. Len(todo) - 1
      /\ \A i \in 1 .. Len(todo) - 1 : Tail(todo)[i] = todo[i + 1]
  BY <1>1, HeadTailProperties, LenProperties, EmptySeq
<1> HIDE DEF e
<1>5. k + 1 \in 0 .. Len(e) /\ Len(Tail(todo)) = Len(e) - (k + 1)
  BY <1>3, <1>4
<1>6. ASSUME NEW i \in DOMAIN Tail(todo)
      PROVE  Tuple(Tail(todo)[i]) = e[i + (k + 1)]
  <2>1. i \in 1 .. Len(todo) - 1 /\ i + 1 \in DOMAIN todo /\ (i + 1) + k = i + (k + 1)
    <3> DEFINE l == Len(todo)
    <3>1. l \in Nat /\ i \in 1 .. l - 1 /\ DOMAIN todo = 1 .. l
      BY <1>4
    <3>2. k \in Int
      OBVIOUS
    <3> HIDE DEF l
    <3>3. i \in Int /\ i + 1 \in 1 .. l
      BY <3>1
    <3>4. (i + 1) + k = i + (k + 1)
      BY <3>2, <3>3
    <3>5. QED BY <3>1, <3>3, <3>4 DEF l
  <2>2. Tail(todo)[i] = todo[i + 1]
    BY <1>4, <2>1
  <2>3. Tuple(todo[i + 1]) = e[(i + 1) + k]
    BY <1>3, <2>1
  <2>4. QED BY <2>1, <2>2, <2>3
<1>7. \E j \in 0 .. Len(e) :
        /\ Len(Tail(todo)) = Len(e) - j
        /\ \A i \in DOMAIN Tail(todo) : Tuple(Tail(todo)[i]) = e[i + j]
  BY <1>5, <1>6
<1>8. IsUpdate(frame)
  BY <1>2 DEF FromFrame
<1>9. QED BY <1>1, <1>7, <1>8 DEF FromFrame, e

(* No other step touches the frame and what is left of it.                    *)
LEMMA FromFrameStep ==
  ASSUME TypeOK, FromFrame, [Next]_vars PROVE FromFrame'
<1>1. CASE PlotNext
  BY <1>1, PlottedTold
<1>2. CASE FetchOk
  BY <1>2, FetchedTold
<1>3. CASE DecodeEnd
  BY <1>3 DEF DecodeEnd, FromFrame
<1>4. CASE UNCHANGED <<frame, todo>>
  BY <1>4 DEF FromFrame
<1>5. \/ PlotNext \/ FetchOk \/ DecodeEnd \/ UNCHANGED <<frame, todo>>
  <2>1. PeriodicItem \/ PeriodicEnd \/ PeriodicBegin => UNCHANGED <<frame, todo>>
    BY DEF PeriodicItem, PeriodicEnd, PeriodicBegin
  <2>2. FetchThrows \/ FetchRefused \/ PollTimer => UNCHANGED <<frame, todo>>
    BY DEF FetchThrows, FetchRefused, PollTimer
  <2>3. Reports => UNCHANGED <<frame, todo>>
    BY DEF Reports, MavlinkRadar, InavRadarPos
  <2>4. User \/ Tick => UNCHANGED <<frame, todo>>
    BY DEF User, UserSwitches, UserHides, UserDismisses, Tick
  <2>5. UNCHANGED vars => UNCHANGED <<frame, todo>>
    BY DEF vars
  <2>6. QED BY <2>1, <2>2, <2>3, <2>4, <2>5 DEF Next, Loop, Fetch
<1>6. QED BY <1>1, <1>2, <1>3, <1>4, <1>5

(* What is plotted of a frame is what the tags of readsb.proto say, whatever  *)
(* fields it has in whatever order, and nothing of a frame with a field of a  *)
(* wrong type: the ranges lead every tag to its field.                        *)
THEOREM DecodedAlwaysRight == Spec => []DecodedRight
<1>1. Init => FromFrame
  BY DEF Init, FromFrame
<1>2. TypeOK /\ FromFrame /\ [Next]_vars => FromFrame'
  BY FromFrameStep
<1>3. FromFrame => DecodedRight
  BY DEF FromFrame, DecodedRight, Tuple
<1>4. QED BY TypesHold, <1>1, <1>2, <1>3, PTL DEF Spec
==============================================================================
