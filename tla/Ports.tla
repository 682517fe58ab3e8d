-------------------------------- MODULE Ports --------------------------------
(* The serial ports of the host and mwp's list of them: on Windows, FreeBSD   *)
(* and macOS SerialWatcher asks check_ports every 2 s (poll_serials.c), on    *)
(* Linux the device manager's events add and remove. Each change of the list  *)
(* may also change the device that is selected, which is what the connection  *)
(* manager opens next. A name is opaque: a label without its spaces.          *)
EXTENDS Naturals, Sequences, SequencesExt

CONSTANTS
  Names,     \* what the host may list, in its order
  Kind,      \* of a name: "usb", "bthmodem" and "bthmodem-in", "com", "bt", "uri"
  Longer,    \* of a name: those it begins, as ttyUSB1 begins ttyUSB10
  Saved      \* conf.devices: names that stay in the list, in its order

VARIABLES
  os,        \* "windows", "bsd", "apple" or "linux"
  plugged,   \* external: the ports that are there
  combo,     \* dev_combox: the list
  sel        \* dev_entry.text: the device selected, "" for none

portVars == <<os, plugged, combo, sel>>

Systems == {"windows", "bsd", "apple", "linux"}
Kinds == {"usb", "bthmodem", "bthmodem-in", "com", "bt", "uri"}

ASSUME PortsAssumption ==
  /\ Names \in Seq(DOMAIN Kind) /\ Saved \in Seq(DOMAIN Kind)
  /\ IsInjective(Names) /\ IsInjective(Saved)
  /\ \A n \in DOMAIN Kind : Kind[n] \in Kinds
  /\ DOMAIN Longer = DOMAIN Kind
  /\ \A n \in DOMAIN Kind : Longer[n] \subseteq DOMAIN Kind \ ToSet(Saved)

----------------------------------------------------------------------------
(* poll_serials.c, one variant per system.                                    *)

Listed(n) ==
  CASE os = "windows" -> TRUE
    [] os = "bsd"     -> Kind[n] = "usb"
    [] os = "apple"   -> Kind[n] \in {"usb", "bthmodem"}

(* The ports there are; they are listed in the order of Names.                *)
check_ports == {n \in plugged : Listed(n)}

check_insert_name(n) ==
  CASE os # "windows" \/ Kind[n] = "usb"          -> 1
    [] os = "windows" /\ Kind[n] = "bthmodem-in"  -> 0
    [] os = "windows" /\ Kind[n] \notin {"usb", "bthmodem-in"} -> -1

(* Mutant: what is no USB port stays in the list.                             *)
DeleteUsbOnly(n) == IF Kind[n] = "usb" THEN 0 ELSE -1

check_delete_name(n) ==
  CASE os = "windows" -> IF Kind[n] # "uri" THEN 0 ELSE -1
    [] os = "bsd"     -> IF Kind[n] = "usb" THEN 0 ELSE -1
    [] os = "apple"   -> IF Kind[n] \in {"usb", "bthmodem"} THEN 0 ELSE -1

----------------------------------------------------------------------------
(* The list: a record of its names and of the selected one.                   *)

SetActive(c, i) == [c EXCEPT !.sel = IF c.list = << >> THEN "" ELSE c.list[i]]

find_combo(c, n) == SelectInSeq(c.list, LAMBDA l : l = n)

append_combo(c, n) ==
  LET a == IF find_combo(c, n) = 0 THEN [c EXCEPT !.list = Append(@, n)] ELSE c
  IN  IF find_combo(a, a.sel) = 0 THEN SetActive(a, 1) ELSE a

(* Mutant: a port that comes back is not selected.                            *)
PrependQuietly(c, n) ==
  IF find_combo(c, n) = 0 THEN [c EXCEPT !.list = <<n>> \o @] ELSE c

prepend_combo(c, n) ==
  IF find_combo(c, n) = 0 THEN SetActive([c EXCEPT !.list = <<n>> \o @], 1)
                          ELSE SetActive(c, find_combo(c, n))

(* On Linux a port goes by its bare name, which find_prefix takes for the     *)
(* first label that begins with it, and has a space as saved names have not.  *)
find_prefix(c, n) ==
  SelectInSeq(c.list, LAMBDA l : l = n \/ (os = "linux" /\ l \in Longer[n]))

(* Mutant: saved devices go with their port.                                  *)
RemoveSaved(c, n) ==
  IF find_prefix(c, n) = 0 THEN c
  ELSE SetActive([c EXCEPT !.list = RemoveAt(@, find_prefix(c, n))], 1)

remove_combo(c, n) ==
  IF Contains(Saved, n) \/ find_prefix(c, n) = 0 THEN c
  ELSE SetActive([c EXCEPT !.list = RemoveAt(@, find_prefix(c, n))], 1)

Nothing == [list |-> << >>, sel |-> ""]
Show(c) == combo' = c.list /\ sel' = c.sel
Combo   == [list |-> combo, sel |-> sel]

(* SerialWatcher.run's timer.                                                 *)
Insert(c, n) ==
  IF find_combo(c, n) # 0 THEN c
  ELSE CASE check_insert_name(n) = 1  -> prepend_combo(c, n)
         [] check_insert_name(n) = -1 -> append_combo(c, n)
         [] check_insert_name(n) = 0  -> c

Delete(c, n) ==
  IF check_delete_name(n) = 0 /\ n \notin check_ports THEN remove_combo(c, n) ELSE c

(* First each port there is, then each name that was listed by then.          *)
Inserted ==
  LET upto[i \in 0 .. Len(Names)] ==
        IF i = 0 THEN Combo
        ELSE IF Names[i] \in check_ports THEN Insert(upto[i - 1], Names[i])
        ELSE upto[i - 1]
  IN  upto[Len(Names)]

DeletedFrom(c) ==
  LET upto[i \in 0 .. Len(c.list)] ==
        IF i = 0 THEN c ELSE Delete(upto[i - 1], c.list[i])
  IN  upto[Len(c.list)]

Watched == DeletedFrom(Inserted)

Watch ==
  /\ os # "linux"
  /\ Show(Watched)
  /\ UNCHANGED <<os, plugged>>

(* The device manager's events; connected: a session is up.                   *)
DeviceAdded(n, connected) ==
  /\ plugged' = plugged \cup {n}
  /\ IF os = "linux"
     THEN Show(IF connected \/ Kind[n] = "bt" THEN append_combo(Combo, n) ELSE prepend_combo(Combo, n))
     ELSE UNCHANGED <<combo, sel>>
  /\ UNCHANGED os

DeviceRemoved(n) ==
  /\ plugged' = plugged \ {n}
  /\ IF os = "linux" THEN Show(remove_combo(Combo, n)) ELSE UNCHANGED <<combo, sel>>
  /\ UNCHANGED os

UserSelects(n) ==
  /\ Contains(combo, n) /\ n # sel
  /\ sel' = n
  /\ UNCHANGED <<os, plugged, combo>>

(* On Linux the device manager knows the serial and the Bluetooth ports.      *)
Serials(ports) ==
  LET upto[i \in 0 .. Len(Names)] ==
        IF i = 0 THEN Nothing
        ELSE IF Names[i] \in ports /\ Kind[Names[i]] # "bt" THEN prepend_combo(upto[i - 1], Names[i])
        ELSE upto[i - 1]
  IN  upto[Len(Names)]

WithBluetooth(ports, c) ==
  LET upto[i \in 0 .. Len(Names)] ==
        IF i = 0 THEN c
        ELSE IF Names[i] \in ports /\ Kind[Names[i]] = "bt" THEN append_combo(upto[i - 1], Names[i])
        ELSE upto[i - 1]
  IN  upto[Len(Names)]

build_serial_combo(ports) ==
  WithBluetooth(ports, [Serials(ports) EXCEPT !.list = @ \o Saved]).list

PortsInit(system, there) ==
  /\ os = system /\ plugged = there
  /\ combo = build_serial_combo(IF system = "linux" THEN there ELSE {})
  /\ sel = IF combo = << >> THEN "" ELSE Head(combo)
----------------------------------------------------------------------------
(* The list holds names, and so does the selection.                           *)
PortsTypeOK ==
  /\ os \in Systems /\ plugged \subseteq ToSet(Names)
  /\ combo \in Seq(DOMAIN Kind) /\ sel \in DOMAIN Kind \cup {""}

(* A name is in the list once, whatever order ports and polls come in, and a  *)
(* saved device stays there.                                                  *)
ListSound == IsInjective(combo) /\ ToSet(Saved) \subseteq ToSet(combo)

(* A port that stays is offered, and one that is gone for good is taken off,  *)
(* except the incoming half of a Bluetooth pair, what the user saved, and on  *)
(* Linux ports of which one's name begins the other's: the wrong one may go.  *)
Offered(n) == os = "linux" \/ (Listed(n) /\ check_insert_name(n) # 0)
Alike(n)   == os = "linux" /\ (Longer[n] # {} \/ \E o \in DOMAIN Kind : n \in Longer[o])
ListFollowsPorts ==
  \A n \in ToSet(Names) :
    /\ (n \in plugged /\ Offered(n) /\ ~Alike(n)) ~> (n \notin plugged \/ Contains(combo, n))
    /\ (n \notin plugged /\ ~Contains(Saved, n) /\ ~Alike(n))
         ~> (n \in plugged \/ ~Contains(combo, n))
==============================================================================
