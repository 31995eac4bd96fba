------------------------------ MODULE RcpWire ------------------------------
(***************************************************************************)
(* The packets of the control connection, octet by octet: the TPKT header  *)
(* (write_TPKT_header), the RCP header (write_rcp_header, read_rcp_header) *)
(* and what rcp_recv takes from the octets of a packet.                    *)
(*                                                                         *)
(* One packet goes round: rcp_send writes it, the peer returns it as it    *)
(* is, rcp_recv reads it.  The code also has the layout that the device    *)
(* sees in common with the one it reads, so the two halves must agree.     *)
(***************************************************************************)
EXTENDS Integers, Sequences

CONSTANTS Tags, DataTypes, Rws, RequestIds, ClientIds,
          SessionWords,   \* the values of each half of a session_id
          Descriptors, PayloadLengths   \* the values that requests have

RCP_VERSION        == 3
TPKT_VERSION       == 3
TPKT_HEADER_LENGTH == 4
RCP_HEADER_LENGTH  == 16
RCP_PACKET_ACTION_REQUEST == 0

Octet    == 0..255
WordMost == 65535
Word     == 0..WordMost

\* A session_id has 32 bits: it is a pair of words, the high one first.
Header == [tag : Word, data_type : Octet, version : 0..15, rw : 0..1,
           continuation : 0..1, action : 0..3, request_id : Octet,
           client_id : Word, session_id : Word \X Word,
           numeric_descriptor : Word, payload_length : Word]

ASSUME WireAssumption ==
  /\ Tags \subseteq Word /\ DataTypes \subseteq Octet /\ Rws \subseteq 0..1
  /\ RequestIds \subseteq Octet
  /\ ClientIds \subseteq Word /\ SessionWords \subseteq Word
  /\ Descriptors \subseteq Word
  /\ PayloadLengths \subseteq 0 .. WordMost - 20

VARIABLES phase,    \* "start", "sent", "received"
          req,      \* the header given to rcp_send
          tpkt,     \* the TPKT header on the wire
          packet,   \* the RCP header on the wire
          len,      \* the length that rcp_recv expects after the TPKT header
          slot,     \* the index in response[] that rcp_recv chooses
          resp      \* the header that rcp_recv stores there

wireVars == <<phase, req, tpkt, packet, len, slot, resp>>

-----------------------------------------------------------------------------
Hi(w) == w \div 256
Lo(w) == w % 256
FromWord(hi, lo) == hi * 256 + lo

\* The two octets of the length; the high one is reduced to an octet.
write_TPKT_header(n) == <<TPKT_VERSION, 0, (n \div 256) % 256, n % 256>>

\* packet[3] and packet[4] hold two fields each.
write_rcp_header(h) ==
  << Hi(h.tag), Lo(h.tag), h.data_type,
     (h.version * 16 + h.rw) % 256,
     (h.continuation * 128 + h.action * 16) % 256,
     h.request_id, Hi(h.client_id), Lo(h.client_id),
     Hi(h.session_id[1]), Lo(h.session_id[1]),
     Hi(h.session_id[2]), Lo(h.session_id[2]),
     Hi(h.numeric_descriptor), Lo(h.numeric_descriptor),
     Hi(h.payload_length), Lo(h.payload_length) >>

read_rcp_header(p) ==
  [tag |-> FromWord(p[1], p[2]), data_type |-> p[3],
   version |-> p[4] \div 16,
   rw |-> p[4] - (p[4] % 16),            \* packet[3] & 0xF0
   continuation |-> p[5] \div 128,
   action |-> p[5] % 128,               \* packet[4] & 0x7F
   request_id |-> p[6], client_id |-> FromWord(p[7], p[8]),
   session_id |-> <<FromWord(p[9], p[10]), FromWord(p[11], p[12])>>,
   numeric_descriptor |-> FromWord(p[13], p[14]),
   payload_length |-> FromWord(p[15], p[16])]

\* Mutant: the octet before the request_id.
get_request_idBefore(p) == p[5]
get_request_id(p) == p[6]

-----------------------------------------------------------------------------
\* init_rcp_header sets most of the fields, its callers the other ones.
Requests ==
  [tag : Tags, data_type : DataTypes, version : {RCP_VERSION}, rw : Rws,
   continuation : {0}, action : {RCP_PACKET_ACTION_REQUEST},
   request_id : RequestIds,
   client_id : ClientIds, session_id : SessionWords \X SessionWords,
   numeric_descriptor : Descriptors, payload_length : PayloadLengths]

Blank == [tag |-> 0, data_type |-> 0, version |-> 0, rw |-> 0,
          continuation |-> 0, action |-> 0, request_id |-> 0, client_id |-> 0,
          session_id |-> <<0, 0>>, numeric_descriptor |-> 0,
          payload_length |-> 0]

WireInit ==
  /\ phase = "start"
  /\ req = Blank /\ resp = Blank
  /\ tpkt = <<>> /\ packet = <<>>
  /\ len = 0 /\ slot = 0

rcp_send(h) ==
  /\ phase = "start"
  /\ phase' = "sent"
  /\ req' = h
  /\ tpkt' = write_TPKT_header(h.payload_length + RCP_HEADER_LENGTH
                                                + TPKT_HEADER_LENGTH)
  /\ packet' = write_rcp_header(h)
  /\ UNCHANGED <<len, slot, resp>>

rcp_recv ==
  /\ phase = "sent"
  /\ phase' = "received"
  /\ len' = FromWord(tpkt[3], tpkt[4]) - TPKT_HEADER_LENGTH
  /\ slot' = get_request_id(packet)
  /\ resp' = read_rcp_header(packet)
  /\ UNCHANGED <<req, tpkt, packet>>

WireNext == (\E h \in Requests : rcp_send(h)) \/ rcp_recv

WireSpec == WireInit /\ [][WireNext]_wireVars

-----------------------------------------------------------------------------
\* What goes round comes back as it was, field by field, and no field runs into
\* its neighbour - but for rw: it is written to the lower half of its octet and
\* read from the upper one, so that what comes back as rw is the version.  The
\* action, written four bits higher than it is read, comes back because only
\* requests are written and theirs is 0 (init_rcp_header).  The octet that
\* rcp_recv looks at to find the slot is the one that becomes request_id, so the
\* caller waits on the right slot; and rcp_recv waits for the octets of header
\* and payload and no other, so the next packet starts where this one ends
\* (write_TPKT_header, write_rcp_header, get_request_id, read_rcp_header).
RoundTrip ==
  phase = "received" => /\ resp = [req EXCEPT !.rw = 16 * req.version]
                        /\ slot = req.request_id
                        /\ len = RCP_HEADER_LENGTH + req.payload_length
=============================================================================
