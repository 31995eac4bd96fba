------------------------------- MODULE RcpPtz -------------------------------
(***************************************************************************)
(* Moving a camera: send_osrd wraps a command into an OSRD packet, which   *)
(* the device hands on, octet by octet, to a camera on its serial port.    *)
(*                                                                         *)
(* Only the first octet of a packet has its top bit set; it has the number *)
(* of the octets that follow, the last of which is a checksum.  The camera *)
(* is modelled from that: it starts afresh at each octet with the top bit  *)
(* set and obeys the packets for its address that are whole.  The line may *)
(* lose an octet or change some of its lower bits.                         *)
(***************************************************************************)
EXTENDS Integers, Sequences, FiniteSets

CONSTANTS Moves,      \* the commands that a program gives
          Address,    \* the line that the camera listens to
          Noise,      \* what an octet may be changed by
          MaxMoves,   \* bound: commands
          MaxDamage   \* bound: octets lost or changed

-----------------------------------------------------------------------------
\* The fields of VarSpeedPTZ after memset.
Still ==
  [tilt_speed |-> 0, zoom_speed |-> 0, pan_speed |-> 0,
   focus_far |-> 0, iris_darker |-> 0, iris_brighter |-> 0,
   pan_right |-> 0, pan_left |-> 0, tilt_down |-> 0, tilt_up |-> 0,
   zoom_out |-> 0, zoom_in |-> 0, focus_near |-> 0]

move_stop == Still
Pans(s)  == {[Still EXCEPT !.pan_right = 1, !.pan_speed = s],
             [Still EXCEPT !.pan_left = 1, !.pan_speed = s]}
Tilts(s) == {[Still EXCEPT !.tilt_up = 1, !.tilt_speed = s],
             [Still EXCEPT !.tilt_down = 1, !.tilt_speed = s]}
Both(p, t) == [p EXCEPT !.tilt_up = t.tilt_up, !.tilt_down = t.tilt_down,
                        !.tilt_speed = t.tilt_speed]
Diagonals(pan, tilt) == {Both(p, t) : p \in Pans(pan), t \in Tilts(tilt)}
Zooms(s) == {[Still EXCEPT !.zoom_in = 1, !.zoom_speed = s],
             [Still EXCEPT !.zoom_out = 1, !.zoom_speed = s]}
Lens     == {[Still EXCEPT !.focus_far = 1], [Still EXCEPT !.focus_near = 1],
             [Still EXCEPT !.iris_darker = 1],
             [Still EXCEPT !.iris_brighter = 1]}

\* The speeds that the bit fields hold: a greater one loses its high bits.
Straight == UNION {Pans(s) \union Tilts(s) : s \in 0 .. 15}
Diagonal == UNION {Diagonals(s, t) : s, t \in 0 .. 15}
Zoom     == UNION {Zooms(s) : s \in 0 .. 7}
VarSpeed == {move_stop} \union Lens \union Straight \union Diagonal \union Zoom

\* preposition_set has function code 4, preposition_shot 5.
Positions == [function_code : {4, 5}, number : 0 .. 1023]

Commands == [opcode : {5}, what : VarSpeed] \union
            [opcode : {7}, what : Positions]

\* An address has no top bit.
ASSUME PtzAssumption ==
  /\ Moves \subseteq Commands
  /\ Address \in 0 .. 127 /\ Noise \subseteq 1 .. 127
  /\ MaxMoves \in Nat /\ MaxDamage \in Nat

-----------------------------------------------------------------------------
VarSpeedPTZ(v) ==
  << v.tilt_speed + 16 * v.zoom_speed,
     v.focus_far + 2 * v.iris_darker + 4 * v.iris_brighter + 8 * v.pan_speed,
     v.pan_right + 2 * v.pan_left + 4 * v.tilt_down + 8 * v.tilt_up
       + 16 * v.zoom_out + 32 * v.zoom_in + 64 * v.focus_near >>

\* Mutant: the high bits are taken from the eighth bit on.
PrepositionShifted(v) ==
  << v.function_code + 16 * ((v.number \div 256) % 8), v.number % 128 >>
\* data_bit_lo has seven bits and takes the lowest ones of the ten.
Preposition(v) ==
  << v.function_code + 16 * ((v.number \div 128) % 8), v.number % 128 >>

SumOf(octets) ==
  LET sum[i \in 0 .. Len(octets)] ==
        IF i = 0 THEN 0 ELSE sum[i - 1] + octets[i]
  IN  sum[Len(octets)]
\* Mutant: the top bit is left.
checksumWhole(octets) == SumOf(octets) % 256
checksum(octets) == SumOf(octets) % 128

osrd_packet(c) ==
  LET data == IF c.opcode = 5 THEN VarSpeedPTZ(c.what) ELSE Preposition(c.what)
      body == <<128 + 4 + Len(data), 0, Address, c.opcode>> \o data
  IN  Append(body, checksum(body))

-----------------------------------------------------------------------------
\* The camera's side of the same layout.
Bit(x, weight) == (x \div weight) % 2
Understood(p) ==
  IF p[4] = 5
  THEN [opcode |-> 5,
        what |->
          [tilt_speed |-> p[5] % 16, zoom_speed |-> (p[5] \div 16) % 8,
           pan_speed |-> (p[6] \div 8) % 16,
           focus_far |-> Bit(p[6], 1), iris_darker |-> Bit(p[6], 2),
           iris_brighter |-> Bit(p[6], 4),
           pan_right |-> Bit(p[7], 1), pan_left |-> Bit(p[7], 2),
           tilt_down |-> Bit(p[7], 4), tilt_up |-> Bit(p[7], 8),
           zoom_out |-> Bit(p[7], 16), zoom_in |-> Bit(p[7], 32),
           focus_near |-> Bit(p[7], 64)]]
  ELSE [opcode |-> p[4],
        what |-> [function_code |-> p[5] % 16,
                  number |-> (p[5] \div 16) * 128 + p[6]]]

Genuine(p) == /\ p[2] = 0 /\ p[3] = Address
              /\ p[Len(p)] = SumOf(SubSeq(p, 1, Len(p) - 1)) % 128

VARIABLES asked,    \* history: commands and what send_osrd returned
          serial,   \* octets on the serial line
          heard,    \* what the camera has of a packet
          obeyed,   \* history: the commands the camera has obeyed
          damage    \* counter: octets lost or changed

ptzVars == <<asked, serial, heard, obeyed, damage>>

PtzInit == asked = <<>> /\ serial = <<>> /\ heard = <<>> /\ obeyed = <<>>
             /\ damage = 0

Asked(c, result, written) ==
  /\ Len(asked) < MaxMoves
  /\ asked' = Append(asked, [command |-> c, result |-> result,
                             written |-> written])
  /\ serial' = IF written THEN serial \o osrd_packet(c) ELSE serial
  /\ UNCHANGED <<heard, obeyed, damage>>

\* Written to the serial port.
send_osrd(c) == Asked(c, 0, TRUE)
\* Somebody else has the port, or the request is lost on its way.
Denied(c) == Asked(c, -1, FALSE)
\* The answer is lost, the command is not.
Unanswered(c) == Asked(c, -1, TRUE)

Hear(x) ==
  LET now == IF x >= 128 THEN <<x>>
             ELSE IF heard = <<>> THEN <<>> ELSE Append(heard, x)
      whole == now # <<>> /\ Len(now) = now[1] - 128 + 1
  IN  /\ heard' = IF whole THEN <<>> ELSE now
      /\ obeyed' = IF whole /\ Len(now) > 6 /\ Genuine(now)
                   THEN Append(obeyed, Understood(now)) ELSE obeyed

NextOctet == serial # <<>> /\ serial' = Tail(serial) /\ UNCHANGED asked

Transfer == NextOctet /\ Hear(Head(serial)) /\ UNCHANGED damage
Damage   == damage < MaxDamage /\ damage' = damage + 1
Lose     == NextOctet /\ Damage /\ UNCHANGED <<heard, obeyed>>
\* The top bit stays: the checksum has seven bits.
Change(n) ==
  LET x == Head(serial)
  IN  NextOctet /\ Damage /\ Hear(((x \div 128) * 128) + ((x + n) % 128))

PtzNext ==
  \/ \E c \in Moves : send_osrd(c) \/ Denied(c) \/ Unanswered(c)
  \/ Transfer
  \/ Lose
  \/ \E n \in Noise : Change(n)

-----------------------------------------------------------------------------
Done == {i \in DOMAIN asked : asked[i].result = 0}
InOrder(at) == \A i, j \in DOMAIN at : i < j => at[i] < at[j]

\* While at most one octet of all that goes over the serial line is lost or
\* changed, the camera does nothing but what a program asked for, in the order it
\* was asked and not twice: a damaged packet is never taken for another command
\* (send_osrd, checksum).  Two damaged octets may cancel out in the checksum.
OnlyAsked ==
  \E at \in [DOMAIN obeyed -> {i \in DOMAIN asked : asked[i].written}] :
    InOrder(at) /\ \A i \in DOMAIN at : obeyed[i] = asked[at[i]].command

\* Every command for which send_osrd has returned 0 is obeyed, with each speed,
\* direction and number as it was given, but at most one for each octet that is
\* damaged on the serial line: the camera finds the start of the next packet
\* (VarSpeedPTZ, Preposition, and the top bit, which send_osrd sets in the first
\* octet and checksum leaves clear in the last).
Heeded ==
  serial = <<>> =>
    \E lost \in SUBSET Done :
      /\ Cardinality(lost) <= damage
      /\ \E at \in [Done \ lost -> DOMAIN obeyed] :
           InOrder(at) /\ \A i \in DOMAIN at : obeyed[at[i]] = asked[i].command
=============================================================================
