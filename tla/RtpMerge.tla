------------------------------ MODULE RtpMerge ------------------------------
(***************************************************************************)
(* How rtp_recv and rtp_pop_frame make H.264 frames of RTP packets.        *)
(*                                                                         *)
(* A NAL unit is sent in a packet of its own, in fragments (FU-A), or in   *)
(* an aggregate (STAP-A) with those that follow it.  Part 0 of a NAL unit  *)
(* is its header octet, parts 1 .. Parts are its fragments.                *)
(* data[0 .. len-1] is the sequence of parts put together so far.          *)
(*                                                                         *)
(* rtp_recv hands the packets on in the order of arrival (RtpBuffers) and  *)
(* the receiver has one thread, so a call is one action.                   *)
(***************************************************************************)
EXTENDS Integers, Sequences

CONSTANTS MaxNals,     \* bound: NAL units the device sends
          Parts,       \* bound: the fragments of a fragmented NAL unit
          Kinds,       \* how the device sends NAL units
          Aggregated,  \* how many of them it puts into an aggregate
          MaxFaults,   \* bound: how often something goes wrong
          MaxInFlight, \* bound: packets in the network
          prepend_mpeg4_starter

ASSUME MergeAssumption ==
  /\ {MaxNals, MaxFaults, MaxInFlight} \subseteq Nat
  /\ Parts \in Nat /\ Parts >= 2
  /\ Kinds \subseteq {"nal", "fu", "stap"}
  /\ Aggregated \subseteq Nat \ {0}
  /\ prepend_mpeg4_starter \in BOOLEAN

Nals == 1 .. MaxNals

\* What may go wrong: a packet is lost, overtakes another or comes twice, is of
\* a kind that is not supported, or the application leaves a complete frame.
Faults == {"lost", "overtakes", "doubled", "other", "left"}

VARIABLES nal,     \* the NAL unit to be sent
          part,    \* its next fragment, 0 when none has been sent
          net,     \* packets in the network, in the order they were sent
          data,    \* mdesc->data up to mdesc->len
          frame_complete,
          frames,  \* what rtp_pop_frame has returned
          taken,   \* the packets given to append
          faults   \* how often each fault has happened

device == <<nal, part>>
vars == <<device, net, data, frame_complete, frames, taken, faults>>

-----------------------------------------------------------------------------
\* A packet with the fragment p of the NAL unit n, with all of it (p = 0) or
\* with p units from n on (STAP-A).
Packet(k, n, p) == [kind |-> k, nal |-> n, part |-> p]

NAL_START_FRAME == <<0, 0>>   \* no NAL unit has number 0
Stray == <<0, 1>>             \* an octet that belongs to no NAL unit

Starter == IF prepend_mpeg4_starter THEN <<NAL_START_FRAME>> ELSE <<>>
Unit(n) == [i \in 1 .. Parts + 1 |-> <<n, i - 1>>]

Init ==
  /\ nal = 1 /\ part = 0 /\ net = <<>>
  /\ data = <<>> /\ frame_complete = FALSE
  /\ frames = <<>> /\ taken = <<>>
  /\ faults = [f \in Faults |-> 0]

Happens(f) ==
  /\ faults["lost"] + faults["overtakes"] + faults["doubled"]
       + faults["other"] + faults["left"] < MaxFaults
  /\ faults' = [faults EXCEPT ![f] = @ + 1]

-----------------------------------------------------------------------------
\* The device and the network.
Transmit(pkt) ==
  \/ Len(net) < MaxInFlight /\ net' = Append(net, pkt) /\ UNCHANGED faults
  \/ Happens("lost") /\ UNCHANGED net

SendUnit ==
  /\ part = 0 /\ nal <= MaxNals
  /\ \/ /\ "nal" \in Kinds
        /\ Transmit(Packet("nal", nal, 0))
        /\ nal' = nal + 1 /\ UNCHANGED part
     \/ /\ Happens("other")
        /\ Len(net) < MaxInFlight
        /\ net' = Append(net, Packet("other", nal, 0))
        /\ nal' = nal + 1 /\ UNCHANGED part
     \/ /\ "stap" \in Kinds
        /\ \E k \in Aggregated :
             /\ nal + k <= MaxNals + 1
             /\ Transmit(Packet("stap", nal, k))
             /\ nal' = nal + k
        /\ UNCHANGED part
     \/ /\ "fu" \in Kinds
        /\ Transmit(Packet("fu", nal, 1))
        /\ part' = 2 /\ UNCHANGED nal
  /\ UNCHANGED <<data, frame_complete, frames, taken>>

SendFragment ==
  /\ part > 0
  /\ Transmit(Packet("fu", nal, part))
  /\ IF part = Parts THEN nal' = nal + 1 /\ part' = 0
                     ELSE part' = part + 1 /\ UNCHANGED nal
  /\ UNCHANGED <<data, frame_complete, frames, taken>>

-----------------------------------------------------------------------------
\* append: the old data gives the new data, and whether they are complete.
append_single_nal(n) ==
  /\ data' = Starter \o Unit(n)
  /\ frame_complete' = TRUE

\* Where append_stap_a expects the second of the k units, in the place of a
\* missing one is what lies behind the packet.
Second(n, k) == IF k = 1 THEN <<>> ELSE Unit(n + 1)

\* Two NAL units, a third one is left out.  Each is copied with its header octet
\* and as many octets as it has in all: one octet too many.
append_stap_a(n, k) ==
  /\ data' = Starter \o Unit(n) \o <<Stray>> \o Second(n, k) \o <<Stray>>
  /\ frame_complete' = TRUE

\* Mutant: a first fragment is put behind what is there.
append_fu_aNoReset(n, p, d) ==
  IF p = 1
  THEN data' = d \o Starter \o <<<<n, 0>>, <<n, 1>>>> /\ frame_complete' = FALSE
  ELSE IF d = <<>>
  THEN data' = d /\ frame_complete' = FALSE
  ELSE data' = Append(d, <<n, p>>) /\ frame_complete' = (p = Parts)

\* Mutant: a fragment is taken although the first one is missing.
append_fu_aNoFirst(n, p, d) ==
  IF p = 1
  THEN data' = Starter \o <<<<n, 0>>, <<n, 1>>>> /\ frame_complete' = FALSE
  ELSE data' = Append(d, <<n, p>>) /\ frame_complete' = (p = Parts)

\* Mutant: the end bit is not looked at.
append_fu_aNoEnd(n, p, d) ==
  IF p = 1
  THEN data' = Starter \o <<<<n, 0>>, <<n, 1>>>> /\ frame_complete' = FALSE
  ELSE IF d = <<>>
  THEN data' = d /\ frame_complete' = FALSE
  ELSE data' = Append(d, <<n, p>>) /\ frame_complete' = FALSE

\* The fragment p of the NAL unit n, behind d.  The first one makes the header
\* octet again and drops what is there, any other needs something before it.
append_fu_a(n, p, d) ==
  IF p = 1
  THEN data' = Starter \o <<<<n, 0>>, <<n, 1>>>> /\ frame_complete' = FALSE
  ELSE IF d = <<>>
  THEN data' = d /\ frame_complete' = FALSE
  ELSE data' = Append(d, <<n, p>>) /\ frame_complete' = (p = Parts)

append_h264(pkt, d) ==
  CASE pkt.kind = "nal"   -> append_single_nal(pkt.nal)
    [] pkt.kind = "stap"  -> append_stap_a(pkt.nal, pkt.part)
    [] pkt.kind = "fu"    -> append_fu_a(pkt.nal, pkt.part, d)
    [] pkt.kind = "other" -> data' = d /\ frame_complete' = FALSE

Without(s, i) == SubSeq(s, 1, i - 1) \o SubSeq(s, i + 1, Len(s))

\* A complete frame that was not popped is overwritten.
rtp_recv ==
  /\ Len(taken) < MaxNals * Parts
  /\ \E i \in 1 .. Len(net) :
       /\ append_h264(net[i], IF frame_complete THEN <<>> ELSE data)
       /\ taken' = Append(taken, net[i])
       /\ \/ frame_complete /\ i = 1 /\ net' = Tail(net) /\ Happens("left")
          \/ /\ ~frame_complete
             /\ \/ i = 1 /\ net' = Tail(net) /\ UNCHANGED faults
                \/ i = 2 /\ net' = Without(net, i) /\ Happens("overtakes")
                \/ i = 1 /\ UNCHANGED net /\ Happens("doubled")
  /\ UNCHANGED <<device, frames>>

\* Mutant: the flag stays.
rtp_pop_frameAgain ==
  /\ frame_complete
  /\ Len(frames) < MaxNals
  /\ frames' = Append(frames, data)
  /\ UNCHANGED <<data, frame_complete, device, net, taken, faults>>

rtp_pop_frame ==
  /\ frame_complete
  /\ frame_complete' = FALSE
  /\ frames' = Append(frames, data)
  /\ data' = <<>>
  /\ UNCHANGED <<device, net, taken, faults>>

\* The device has sent everything and all that arrived has been handled.
Finished ==
  /\ nal > MaxNals /\ part = 0 /\ ~frame_complete
  /\ net = <<>> \/ Len(taken) = MaxNals * Parts
  /\ UNCHANGED vars

Next == SendUnit \/ SendFragment \/ rtp_recv \/ rtp_pop_frame \/ Finished

Spec == Init /\ [][Next]_vars

\* The loop of the application runs: it calls rtp_recv, which returns when
\* something has arrived, and rtp_pop_frame.
FairSpec == Spec /\ WF_vars(SendUnit) /\ WF_vars(SendFragment)
                 /\ WF_vars(rtp_recv) /\ WF_vars(rtp_pop_frame)

-----------------------------------------------------------------------------
Octets(s) == {s[i] : i \in 1 .. Len(s)}
Frame(n) == Starter \o Unit(n)

Aggregates == \E i \in 1 .. Len(taken) : taken[i].kind = "stap"
Undisturbed == (\A f \in Faults : faults[f] = 0) /\ ~Aggregates
InOrder == faults["overtakes"] = 0 /\ faults["doubled"] = 0

\* As long as nothing goes wrong, the frames are the NAL units, each one whole,
\* in the order in which they were sent, none missing and none twice
\* (append_single_nal, append_fu_a, rtp_pop_frame).
FramesAreUnits ==
  Undisturbed => \A i \in 1 .. Len(frames) : frames[i] = Frame(i)

Earlier(x, y) == x[1] < y[1] \/ (x[1] = y[1] /\ x[2] < y[2])

\* A frame begins with the starter and a header octet and has no other starter
\* in it.
Begins(f) ==
  LET s == Len(Starter)
  IN  /\ SubSeq(f, 1, s) = Starter
      /\ Len(f) > s /\ f[s + 1][2] = 0
      /\ \A j \in s + 1 .. Len(f) : f[j] # NAL_START_FRAME

\* Whatever the network does and whether or not the application pops every
\* frame, no frame begins in the middle of a NAL unit.  When the network keeps
\* the order, a frame is made of the beginning of one NAL unit and of parts that
\* were sent later, in their order: a loss leaves a gap, it never turns parts
\* around and takes none twice (append_fu_a, rtp_recv).
FramesKeepOrder ==
  \A i \in 1 .. Len(frames) :
    LET f == frames[i]
    IN  /\ Begins(f)
        /\ InOrder /\ Stray \notin Octets(f) =>
             \A j, k \in Len(Starter) + 1 .. Len(f) :
               j < k => Earlier(f[j], f[k])

\* A loss costs the frames it hits and no other: a NAL unit whose packets have
\* all been taken, one behind the other, comes out whole, whatever was missing,
\* doubled or mixed before it (append_fu_a drops what a first fragment finds).
FragmentsOf(n) == [p \in 1 .. Parts |-> Packet("fu", n, p)]
Taken(n) ==
  \/ Packet("nal", n, 0) \in Octets(taken)
  \/ \E i \in 1 .. Len(taken) - Parts + 1 :
       SubSeq(taken, i, i + Parts - 1) = FragmentsOf(n)
Recovers ==
  faults["left"] = 0 =>
    \A n \in Nals : Taken(n) => \/ Frame(n) \in Octets(frames)
                                \/ frame_complete /\ data = Frame(n)

\* As long as nothing goes wrong, every NAL unit sent comes out in the end.
AllFramesOut ==
  \A n \in Nals : nal > n ~> Frame(n) \in Octets(frames) \/ ~Undisturbed

\* "Only "Single NAL Unit" and "Non-Interleaved" packetization modes are
\* currently supported" (rtp.h:28): STAP-A belongs to the latter, so its NAL
\* units too must come out with nothing between them but a starter.
OnlyUnitsInFrames ==
  \A i \in 1 .. Len(frames) : Stray \notin Octets(frames[i])
=============================================================================
