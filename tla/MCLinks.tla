------------------------------ MODULE MCLinks ------------------------------
(* Ports and worlds for the run of SerialDevice. *)
EXTENDS SerialDevice

USB   == "usb1"
Ten   == "usb10"
BtIn  == "bt-in"
Com   == "com"
Cua   == "cua"
Bt    == "bt"
Tcp   == "tcp"
AllNames == <<USB, Ten, BtIn, Com, Cua, Bt>>
KindOf == [p \in {USB, Ten, BtIn, Com, Cua, Bt, Tcp} |->
             CASE p \in {USB, Ten, Cua} -> "usb" [] p = BtIn -> "bthmodem-in"
               [] p = Com -> "com" [] p = Bt -> "bt" [] p = Tcp -> "uri"]
LongerOf == [p \in DOMAIN KindOf |-> IF p = USB THEN {Ten} ELSE {}]
SavedOnes == <<Tcp, Cua>>

Base == [os |-> "linux", there |-> {}, moving |-> {}, moves |-> 0, selects |-> 0,
         sessions |-> 1, writes |-> 0, stalls |-> 0, errors |-> 0, reboots |-> 0,
         badspeed |-> FALSE, again |-> FALSE]

Some == [
  queue   |-> [Base EXCEPT !.writes = 3, !.errors = 1],
  next    |-> [Base EXCEPT !.sessions = 2, !.writes = 2, !.errors = 1],
  stall   |-> [Base EXCEPT !.writes = 2, !.errors = 1, !.stalls = 2],
  stale   |-> [Base EXCEPT !.sessions = 2, !.writes = 1, !.errors = 1, !.stalls = 2],
  again   |-> [Base EXCEPT !.sessions = 2, !.writes = 2, !.errors = 1, !.again = TRUE],
  windows |-> [Base EXCEPT !.os = "windows", !.sessions = 2, !.writes = 1, !.errors = 1],
  blocked |-> [Base EXCEPT !.os = "windows", !.writes = 1, !.stalls = 1],
  reboot  |-> [Base EXCEPT !.there = {USB}, !.moving = {USB}, !.moves = 3, !.sessions = 2,
                           !.reboots = 1],
  rebootW |-> [Base EXCEPT !.os = "windows", !.there = {Ten}, !.moving = {Ten}, !.moves = 2,
                           !.sessions = 2, !.reboots = 1],
  slow    |-> [Base EXCEPT !.there = {Com, Bt}, !.badspeed = TRUE, !.selects = 2],
  linux   |-> [Base EXCEPT !.there = {USB}, !.moving = {USB, Ten, Com}, !.moves = 3,
                           !.selects = 1],
  ports   |-> [Base EXCEPT !.os = "windows", !.there = {BtIn}, !.moving = {USB, BtIn, Com, Cua},
                           !.moves = 4, !.selects = 1, !.sessions = 0],
  bsd     |-> [Base EXCEPT !.os = "bsd", !.moving = {USB, Com, Cua}, !.moves = 4, !.sessions = 0],
  apple   |-> [Base EXCEPT !.os = "apple", !.there = {Bt}, !.moving = {USB, Com, Cua}, !.moves = 4, !.sessions = 0]]
=============================================================================
