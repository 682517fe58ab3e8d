-------------------------------- MODULE Readsb --------------------------------
(* What readsb reports of the aircraft it hears: the protobuf messages of    *)
(* readsb.pb-c, as far as mwp unpacks them, and decode_ac_pb, which takes the *)
(* aircraft with a position out of an AircraftsUpdate.                        *)
(*                                                                            *)
(* A message on the wire is a sequence of fields [tag, wt, val]; the value of *)
(* an embedded message is such a sequence again. Numbers stand for scalars of *)
(* every type; positions and headings are left out.                           *)
EXTENDS Integers, Sequences, FiniteSets

----------------------------------------------------------------------------
(* Descriptors: the fields in the order of their tags, <<tag, name, type>>,  *)
(* and the ranges of consecutive tags, <<first tag, index of its field>>,    *)
(* closed by <<0, number of fields>>. Indices begin at 0 in the ranges.      *)

ValidSourceFields1 ==
  << <<100, "callsign", "UINT32">>, <<101, "altitude", "UINT32">>, <<102, "alt_geom", "UINT32">>,
     <<103, "gs", "UINT32">>, <<104, "ias", "UINT32">>, <<105, "tas", "UINT32">>,
     <<106, "mach", "UINT32">>, <<107, "track", "UINT32">>, <<108, "track_rate", "UINT32">>,
     <<109, "roll", "UINT32">>, <<110, "mag_heading", "UINT32">> >>

ValidSourceFields2 ==
  << <<111, "true_heading", "UINT32">>, <<112, "baro_rate", "UINT32">>, <<113, "geom_rate", "UINT32">>,
     <<114, "squawk", "UINT32">>, <<115, "emergency", "UINT32">>, <<116, "nav_qnh", "UINT32">>,
     <<117, "nav_altitude_mcp", "UINT32">>, <<118, "nav_altitude_fms", "UINT32">>,
     <<119, "nav_heading", "UINT32">>, <<120, "nav_modes", "UINT32">>, <<121, "lat", "UINT32">> >>

ValidSourceFields3 ==
  << <<122, "lon", "UINT32">>, <<123, "nic", "UINT32">>, <<124, "rc", "UINT32">>,
     <<125, "nic_baro", "UINT32">>, <<126, "nac_p", "UINT32">>, <<127, "nac_v", "UINT32">>,
     <<128, "sil", "UINT32">>, <<129, "sil_type", "UINT32">>, <<130, "gva", "UINT32">>,
     <<131, "sda", "UINT32">>, <<132, "wind", "UINT32">> >>

MetaFields1 ==
  << <<1, "addr", "UINT32">>, <<2, "flight", "STRING">>, <<3, "squawk", "UINT32">>,
     <<4, "category", "UINT32">>, <<5, "alt_baro", "INT32">>, <<6, "mag_heading", "INT32">>,
     <<7, "ias", "UINT32">>, <<8, "lat", "DOUBLE">>, <<9, "lon", "DOUBLE">>,
     <<10, "messages", "UINT64">>, <<11, "seen", "UINT64">>, <<12, "rssi", "FLOAT">> >>

MetaFields2 ==
  << <<13, "distance", "UINT32">>, <<15, "air_ground", "ENUM">>, <<20, "alt_geom", "INT32">>,
     <<21, "baro_rate", "INT32">>, <<22, "geom_rate", "INT32">>, <<23, "gs", "UINT32">>,
     <<24, "tas", "UINT32">>, <<25, "mach", "FLOAT">>, <<26, "true_heading", "INT32">>,
     <<27, "track", "INT32">>, <<28, "track_rate", "FLOAT">>, <<29, "roll", "FLOAT">> >>

MetaFields3 ==
  << <<30, "nav_qnh", "FLOAT">>, <<31, "nav_altitude_mcp", "INT32">>,
     <<32, "nav_altitude_fms", "INT32">>, <<33, "nav_heading", "INT32">>, <<34, "nic", "UINT32">>,
     <<35, "rc", "UINT32">>, <<36, "version", "INT32">>, <<37, "nic_baro", "UINT32">>,
     <<38, "nac_p", "UINT32">>, <<39, "nac_v", "UINT32">>, <<40, "sil", "UINT32">>,
     <<41, "seen_pos", "UINT32">> >>

MetaFields4 ==
  << <<42, "alert", "BOOL">>, <<43, "spi", "BOOL">>, <<44, "gva", "UINT32">>, <<45, "sda", "UINT32">>,
     <<46, "declination", "DOUBLE">>, <<47, "wind_speed", "UINT32">>,
     <<48, "wind_direction", "UINT32">>, <<100, "addr_type", "ENUM">>, <<101, "emergency", "ENUM">>,
     <<102, "sil_type", "ENUM">>, <<150, "nav_modes", "MESSAGE">>,
     <<151, "valid_source", "MESSAGE">> >>

NavModesFields ==
  << <<1, "autopilot", "BOOL">>, <<2, "vnav", "BOOL">>, <<3, "althold", "BOOL">>,
     <<4, "approach", "BOOL">>, <<5, "lnav", "BOOL">>, <<6, "tcas", "BOOL">> >>

HistoryFields ==
  << <<1, "addr", "UINT32">>, <<5, "alt_baro", "INT32">>, <<8, "lat", "DOUBLE">>,
     <<9, "lon", "DOUBLE">> >>

UpdateFields ==
  << <<1, "now", "UINT64">>, <<2, "messages", "UINT64">>, <<14, "history", "MESSAGE">>,
     <<15, "aircraft", "MESSAGE">> >>

Descriptor(fs, rs) == [fields |-> fs, ranges |-> rs]

ValidSource == Descriptor(ValidSourceFields1 \o ValidSourceFields2 \o ValidSourceFields3,
                          << <<100, 0>>, <<0, 33>> >>)
NavModes    == Descriptor(NavModesFields, << <<1, 0>>, <<0, 6>> >>)
History     == Descriptor(HistoryFields, << <<1, 0>>, <<5, 1>>, <<8, 2>>, <<0, 4>> >>)
Update      == Descriptor(UpdateFields, << <<1, 0>>, <<14, 2>>, <<0, 4>> >>)

(* Mutant: the third range begins one field late.                            *)
MetaRangesOff == << <<1, 0>>, <<15, 13>>, <<20, 15>>, <<100, 43>>, <<150, 46>>, <<0, 48>> >>
MetaRanges == << <<1, 0>>, <<15, 13>>, <<20, 14>>, <<100, 43>>, <<150, 46>>, <<0, 48>> >>

AircraftMeta == Descriptor(MetaFields1 \o MetaFields2 \o MetaFields3 \o MetaFields4, MetaRanges)
----------------------------------------------------------------------------
(* External: libprotobuf-c. It finds the field of a tag through the ranges,  *)
(* keeps what it does not know apart, and gives the whole message up when a  *)
(* field that it knows has another wire type than its type has.              *)

WireType(type) ==
  CASE type \in {"UINT32", "INT32", "UINT64", "BOOL", "ENUM"} -> "VARINT"
    [] type = "DOUBLE"                -> "64BIT"
    [] type = "FLOAT"                 -> "32BIT"
    [] type \in {"STRING", "MESSAGE"} -> "LEN"

NoField == <<0, "unknown", "unknown">>

(* int_range_lookup.                                                         *)
FieldOf(d, tag) ==
  LET r == d.ranges
      In(k) == r[k][1] <= tag /\ tag < r[k][1] + r[k + 1][2] - r[k][2]
      hits  == {k \in 1 .. Len(r) - 1 : In(k)}
  IN  IF hits = {} THEN NoField
      ELSE LET k == CHOOSE k \in hits : TRUE
           IN  d.fields[tag - r[k][1] + r[k][2] + 1]

WellTyped(d, w) ==
  \A i \in DOMAIN w : LET f == FieldOf(d, w[i].tag)
                      IN  f # NoField => w[i].wt = WireType(f[3])

(* The value at the last position of a set, and all values, in order.        *)
LastOf(w, at, default) ==
  IF at = {} THEN default ELSE w[CHOOSE i \in at : \A j \in at : j <= i].val

Values(w, at) ==
  LET upto[i \in 0 .. Len(w)] ==
        IF i = 0 THEN << >>
        ELSE IF i \in at THEN Append(upto[i - 1], w[i].val) ELSE upto[i - 1]
  IN  upto[Len(w)]

(* The positions of a field in a message, and its values.                    *)
At(d, w, name) == {i \in DOMAIN w : FieldOf(d, w[i].tag)[2] = name}
Scalar(d, w, name, default) == LastOf(w, At(d, w, name), default)
All(d, w, name) == {w[i].val : i \in At(d, w, name)}

(* External: what may come. A field of an embedded message that has the wire *)
(* type of one holds one.                                                    *)
IsMessage(w) ==
  /\ Len(w) \in Nat /\ DOMAIN w = 1 .. Len(w)
  /\ \A i \in DOMAIN w : w[i].tag \in Nat

Holds(w, t, IsOne(_)) ==
  \A i \in DOMAIN w : w[i].tag = t /\ w[i].wt = "LEN" => IsOne(w[i].val)
IsMeta(m)   == IsMessage(m) /\ Holds(m, 150, IsMessage) /\ Holds(m, 151, IsMessage)
IsUpdate(f) == IsMessage(f) /\ Holds(f, 14, IsMessage) /\ Holds(f, 15, IsMeta)

(* aircrafts_update__unpack succeeds.                                        *)
Unpacks(w) ==
  /\ WellTyped(Update, w)
  /\ \A h \in All(Update, w, "history") : WellTyped(History, h)
  /\ \A m \in All(Update, w, "aircraft") :
       /\ WellTyped(AircraftMeta, m)
       /\ \A n \in All(AircraftMeta, m, "nav_modes") : WellTyped(NavModes, n)
       /\ \A v \in All(AircraftMeta, m, "valid_source") : WellTyped(ValidSource, v)
----------------------------------------------------------------------------
DISTNDEF == -1   \* READ_SB_DISTNDEF, 0xffffffff: readsb does not know its distance
NameLen  == 8

(* Characters up to the first control character, eight at most.              *)
Name(flight) ==
  LET ends == {i \in DOMAIN flight : flight[i] <= 31} \cup {NameLen + 1, Len(flight) + 1}
  IN  SubSeq(flight, 1, (CHOOSE i \in ends : \A j \in ends : i <= j) - 1)

(* One aircraft: vs says of each value whether readsb has it.                *)
AircraftOf(m) ==
  LET am(n) == Scalar(AircraftMeta, m, n, 0)
      vs(n) == Scalar(ValidSource, Scalar(AircraftMeta, m, "valid_source", << >>), n, 0)
  IN  [addr     |-> am("addr"),
       catx     |-> am("category") % 256,
       name     |-> Name(Scalar(AircraftMeta, m, "flight", << >>)),
       alt      |-> IF vs("altitude") > 0 THEN am("alt_baro") ELSE 0,
       speed    |-> IF vs("gs") > 0 THEN am("gs") ELSE 0,
       srange   |-> IF am("distance") = 0 THEN DISTNDEF ELSE am("distance"),
       seen_tm  |-> am("seen"),
       seen_pos |-> am("seen_pos"),
       valid    |-> vs("lat") > 0]

(* Those of the aircraft that have a position, in the order of the message.  *)
decode_ac_pb(w) ==
  LET acs == Values(w, {i \in At(Update, w, "aircraft") : AircraftOf(w[i].val).valid})
  IN  IF Unpacks(w) THEN [i \in DOMAIN acs |-> AircraftOf(acs[i])] ELSE << >>
=============================================================================
