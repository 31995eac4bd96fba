----------------------------- MODULE RcpFraming -----------------------------
(***************************************************************************)
(* How rcp_recv cuts the octets of the control connection into packets.    *)
(*                                                                         *)
(* TCP delivers a stream: recv returns some of the octets that have        *)
(* arrived, and rcp_recv finds where a packet ends from the length in its  *)
(* TPKT header.  An octet is known by its position in the stream; a packet *)
(* is the stretch of positions between two ends.                           *)
(*                                                                         *)
(* The loop over the body copes with any split.  The header does not: one  *)
(* recv asks for its four octets and uses the length field however many    *)
(* came, and a body given up half-way is not skipped.  The history         *)
(* variable derailed records that one of these happened.                   *)
(***************************************************************************)
EXTENDS Integers, Sequences

CONSTANTS MaxPackets,   \* bound: packets the device sends
          Lengths,      \* the lengths of its packets, TPKT header included
          AnyLengths,   \* bound: length fields read where no packet starts
          MaxReturned,  \* bound: packets rcp_recv returns
          RecvMayFail,  \* recv may return -1, e.g. on a signal
          HeaderSplits, \* recv may return a part of a TPKT header
          PeerCloses    \* the device may close the connection

TPKT_HEADER_LENGTH == 4

ASSUME FramingAssumption ==
  /\ MaxPackets \in Nat /\ MaxReturned \in Nat
  /\ Lengths \subseteq {n \in Nat : n >= TPKT_HEADER_LENGTH}
  /\ AnyLengths \subseteq Nat
  /\ RecvMayFail \in BOOLEAN /\ HeaderSplits \in BOOLEAN
  /\ PeerCloses \in BOOLEAN

VARIABLES ends,      \* where each packet sent ends
          arrived,   \* how far the stream has arrived
          closed,    \* the device has closed the connection
          pos,       \* how far rcp_recv has consumed the stream
          in,        \* where rcp_recv is: "header" or "body"
          upto,      \* where rcp_recv takes its packet to end
          cuts,      \* where the packets it returned ended
          derailed

framingVars == <<ends, arrived, closed, pos, in, upto, cuts, derailed>>

\* The stream written by the device: up to its last packet's end.
EndOf(s) == IF s = <<>> THEN 0 ELSE s[Len(s)]
Available == arrived - pos

FramingInit ==
  /\ ends = <<>> /\ arrived = 0 /\ closed = FALSE
  /\ pos = 0 /\ in = "header" /\ upto = 0 /\ cuts = <<>>
  /\ derailed = FALSE

-----------------------------------------------------------------------------
\* The device and the connection.
SendPacket ==
  /\ ~closed /\ Len(ends) < MaxPackets
  /\ \E n \in Lengths : ends' = Append(ends, EndOf(ends) + n)
  /\ UNCHANGED <<arrived, closed, pos, in, upto, cuts, derailed>>

Arrive ==
  /\ \E n \in 1 .. EndOf(ends) - arrived : arrived' = arrived + n
  /\ UNCHANGED <<ends, closed, pos, in, upto, cuts, derailed>>

Close ==
  /\ PeerCloses /\ ~closed
  /\ closed' = TRUE
  /\ UNCHANGED <<ends, arrived, pos, in, upto, cuts, derailed>>

-----------------------------------------------------------------------------
\* The length field at pos is that of a packet when a packet starts there.
StartOf(i) == IF i = 1 THEN 0 ELSE ends[i - 1]
StartsPacket(i) == pos = StartOf(i)

\* Mutant: len keeps the octets of the TPKT header.
RecvHeaderUncut ==
  /\ in = "header" /\ Available >= TPKT_HEADER_LENGTH
  /\ pos' = pos + TPKT_HEADER_LENGTH
  /\ in' = "body"
  /\ \/ \E i \in 1 .. Len(ends) :
          /\ StartsPacket(i)
          /\ upto' = pos' + (ends[i] - pos)
     \/ /\ \A i \in 1 .. Len(ends) : ~StartsPacket(i)
        /\ \E n \in AnyLengths : upto' = pos' + n - TPKT_HEADER_LENGTH
  /\ UNCHANGED <<ends, arrived, closed, cuts, derailed>>

\* The whole TPKT header in one recv.
RecvHeader ==
  /\ in = "header" /\ Available >= TPKT_HEADER_LENGTH
  /\ pos' = pos + TPKT_HEADER_LENGTH
  /\ in' = "body"
  /\ \/ \E i \in 1 .. Len(ends) :
          /\ StartsPacket(i)
          /\ upto' = pos' + (ends[i] - pos - TPKT_HEADER_LENGTH)
     \/ /\ \A i \in 1 .. Len(ends) : ~StartsPacket(i)
        /\ \E n \in AnyLengths : upto' = pos' + n - TPKT_HEADER_LENGTH
  /\ UNCHANGED <<ends, arrived, closed, cuts, derailed>>

\* A part of the TPKT header, or nothing at the end of the stream: res is
\* only compared with -1, len is made of what the buffer holds.
RecvPartOfHeader ==
  /\ in = "header"
  /\ \/ /\ HeaderSplits
        /\ \E n \in 1 .. TPKT_HEADER_LENGTH - 1 :
             n <= Available /\ pos' = pos + n
     \/ closed /\ arrived = EndOf(ends) /\ Available = 0 /\ pos' = pos
  /\ in' = "body"
  /\ \E n \in AnyLengths : upto' = pos' + n - TPKT_HEADER_LENGTH
  /\ derailed' = TRUE
  /\ UNCHANGED <<ends, arrived, closed, cuts>>

\* Mutant: recv asks for the whole buffer.
RecvBodyGreedy ==
  /\ in = "body" /\ pos < upto
  /\ \E n \in 1 .. Available : pos' = pos + n
  /\ UNCHANGED <<ends, arrived, closed, in, upto, cuts, derailed>>

\* One turn of the loop.  At the end of the stream recv returns 0 and the
\* loop goes on: a stuttering step.
RecvBody ==
  /\ in = "body" /\ pos < upto
  /\ \E n \in 1 .. Available : n <= upto - pos /\ pos' = pos + n
  /\ UNCHANGED <<ends, arrived, closed, in, upto, cuts, derailed>>

\* The loop is over: rcp_recv stores the packet and returns its request_id.
ReturnPacket ==
  /\ in = "body" /\ pos >= upto /\ Len(cuts) < MaxReturned
  /\ in' = "header" /\ cuts' = Append(cuts, pos)
  /\ UNCHANGED <<ends, arrived, closed, pos, upto, derailed>>

\* recv returned -1: what was read of a packet is forgotten.
RecvFails ==
  /\ RecvMayFail
  /\ in = "body" => pos < upto
  /\ in' = "header"
  /\ derailed' = (derailed \/ in = "body")
  /\ UNCHANGED <<ends, arrived, closed, pos, upto, cuts>>

rcp_recv == RecvHeader \/ RecvPartOfHeader \/ RecvBody \/ ReturnPacket
                       \/ RecvFails

\* Nothing is left to read: the thread waits in recv or, once the device has
\* closed the connection, spins in the loop over the body; or the bound is
\* reached.
Drained ==
  /\ Len(ends) = MaxPackets \/ closed
  /\ \/ pos = EndOf(ends) /\ (in = "body" => pos < upto)
     \/ in = "body" /\ pos >= upto /\ Len(cuts) = MaxReturned
  /\ UNCHANGED framingVars

FramingNext == SendPacket \/ Arrive \/ Close \/ rcp_recv \/ Drained

FramingSpec == FramingInit /\ [][FramingNext]_framingVars

\* What was sent arrives, and the thread of the message manager runs: recv
\* returns when there is something to return.
FairFraming ==
  /\ FramingSpec
  /\ WF_framingVars(Arrive) /\ WF_framingVars(RecvHeader)
  /\ WF_framingVars(RecvBody) /\ WF_framingVars(ReturnPacket)

-----------------------------------------------------------------------------
\* However the stream is split, every packet that rcp_recv has returned is a
\* packet that the device has sent, whole and in the order it was sent, as
\* long as no TPKT header came in parts and no body was given up (rcp_recv).
PacketsAsSent ==
  ~derailed => /\ Len(cuts) <= Len(ends)
               /\ \A i \in 1 .. Len(cuts) : cuts[i] = ends[i]

\* In the middle of a body rcp_recv never has octets of a later packet: pos
\* stays inside the packet it is cutting out (the bound len-received of recv).
InsidePacket ==
  ~derailed /\ in = "body" => /\ Len(cuts) < Len(ends)
                              /\ upto = ends[Len(cuts) + 1]
                              /\ pos <= upto

\* recv may fail between packets as often as it likes: every packet sent is
\* returned nevertheless, unless one of the accidents happens (the loops of
\* rcp_recv and message_manager_rutine).
AllReturned ==
  \A k \in 1 .. MaxPackets :
    Len(ends) >= k ~> Len(cuts) >= k \/ derailed
=============================================================================
