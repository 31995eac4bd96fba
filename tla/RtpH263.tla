------------------------------ MODULE RtpH263 ------------------------------
(***************************************************************************)
(* How rtp_recv and rtp_pop_frame make H.263 frames of RTP packets, bit by *)
(* bit.                                                                    *)
(*                                                                         *)
(* A frame is a string of bits that may be cut anywhere: an octet that is  *)
(* cut is sent at the end of one packet, with ebit bits to be ignored, and *)
(* again at the beginning of the next one, with sbit bits to be ignored.   *)
(* append_h263 puts the two halves together; when they do not fit it skips *)
(* everything up to a packet with the marker, the last one of a frame.     *)
(*                                                                         *)
(* A bit is <<frame, position>>; the bits to be ignored are Junk.          *)
(***************************************************************************)
EXTENDS Integers, Sequences, FiniteSets

CONSTANTS MaxFrames,  \* bound: frames the device sends
          Bits,       \* bound: the bits of a frame
          Cuts,       \* the places where a frame may be cut
          Lossy,      \* the network may lose packets
          PopsAlways  \* the application pops every complete frame

ASSUME H263Assumption ==
  /\ MaxFrames \in Nat /\ Bits \in Nat \ {0} /\ Cuts \subseteq 1 .. Bits - 1
  /\ Lossy \in BOOLEAN /\ PopsAlways \in BOOLEAN

Junk  == <<0, 1>>
Clear == <<0, 0>>

VARIABLES sent,    \* the last frame of which packets have been sent
          at,      \* how far it has been sent
          packet,  \* the packet that has arrived, <<>> when there is none
          data,    \* mdesc->data up to mdesc->len, a sequence of octets
          ebit, frame_complete, frame_error,
          frames,  \* what rtp_pop_frame has returned
          whole    \* the frames all of whose packets have arrived

mdesc == <<data, ebit, frame_complete, frame_error>>
vars == <<sent, at, packet, mdesc, frames, whole>>

-----------------------------------------------------------------------------
\* The packet with the bits from+1 .. to of frame f.
Packet(f, from, to) ==
  [frame |-> f, from |-> from, to |-> to, m |-> to = Bits]
Sbit(p) == p.from % 8
Ebit(p) == (8 - (p.to % 8)) % 8

\* Its octets, with junk in the bits to be ignored.
Payload(p) ==
  LET first == p.from \div 8
      last  == (p.to + 7) \div 8
  IN  [i \in 1 .. last - first |->
         [j \in 1 .. 8 |-> LET b == (first + i - 1) * 8 + j
                           IN  IF p.from < b /\ b <= p.to
                               THEN <<p.frame, b>> ELSE Junk]]

Init ==
  /\ sent = 0 /\ at = Bits /\ packet = <<>>
  /\ data = <<>> /\ ebit = 0 /\ frame_complete = FALSE /\ frame_error = FALSE
  /\ frames = <<>> /\ whole = {}

\* The device sends the bits f.from+1 .. to of frame f.  A frame is whole until
\* one of its packets is lost.
Transmit(f, from) ==
  /\ sent' = f
  /\ \E to \in Cuts \union {Bits} :
       /\ from < to /\ at' = to
       /\ \/ /\ packet' = <<Packet(f, from, to)>>
             /\ whole' = IF from = 0 THEN whole \union {f} ELSE whole
          \/ Lossy /\ whole' = whole \ {f} /\ UNCHANGED packet

Send ==
  /\ packet = <<>>
  /\ \/ at < Bits /\ Transmit(sent, at)
     \/ at = Bits /\ sent < MaxFrames /\ Transmit(sent + 1, 0)
  /\ UNCHANGED <<mdesc, frames>>

-----------------------------------------------------------------------------
\* data[len-1] &= ebit_mask[ebit]; pos[0] &= sbit_mask[sbit]; and their or.
ebit_mask(o, n) == [j \in 1 .. 8 |-> IF j <= 8 - n THEN o[j] ELSE Clear]
\* Mutant: one bit too few is cleared.
sbit_maskShort(o, n) == [j \in 1 .. 8 |-> IF j >= n THEN o[j] ELSE Clear]
sbit_mask(o, n) == [j \in 1 .. 8 |-> IF j > n THEN o[j] ELSE Clear]
Or(o, q) == [j \in 1 .. 8 |-> CASE o[j] = Clear -> q[j]
                                [] q[j] = Clear -> o[j]
                                [] OTHER -> Junk]

\* Mutant: the shared octet is appended as it comes.
JoinApart(d, e, p) == d \o Payload(p)

\* d with the payload of p behind it; e is the ebit of the packet before.
Join(d, e, p) ==
  LET s == Sbit(p)
      o == Payload(p)
  IN  IF s = 0 THEN d \o o
      ELSE SubSeq(d, 1, Len(d) - 1)
             \o <<Or(ebit_mask(d[Len(d)], e), sbit_mask(o[1], s))>> \o Tail(o)

\* Mutant: ebit survives the skipped frame.
SkipKeepsEbit(p) ==
  /\ data' = <<>>
  /\ frame_error' = ~p.m
  /\ UNCHANGED <<ebit, frame_complete>>

\* After an error: skipped, up to the marker and with it.
Skip(p) ==
  /\ data' = <<>>
  /\ frame_error' = ~p.m
  /\ ebit' = IF p.m THEN 0 ELSE ebit
  /\ UNCHANGED frame_complete

Fits(e, p) == (e + Sbit(p)) % 8 = 0

\* append_h263.  A packet that does not fit raises frame_error, also when it
\* carries the marker; what is in data stays until the next packet.
append_h263(p, d) ==
  \/ ~Fits(ebit, p) /\ frame_error' = TRUE
     /\ data' = d /\ frame_complete' = FALSE /\ UNCHANGED ebit
  \/ /\ Fits(ebit, p)
     /\ data' = Join(d, ebit, p)
     /\ ebit' = Ebit(p)
     /\ frame_complete' = p.m
     /\ UNCHANGED frame_error

\* A complete frame that was not popped is overwritten; ebit stays.
rtp_recv ==
  /\ packet # <<>> /\ (PopsAlways => ~frame_complete)
  /\ packet' = <<>>
  /\ LET p == packet[1]
         d == IF frame_complete THEN <<>> ELSE data
     IN  IF frame_error THEN Skip(p) ELSE append_h263(p, d)
  /\ UNCHANGED <<sent, at, frames, whole>>

rtp_pop_frame ==
  /\ frame_complete
  /\ frame_complete' = FALSE
  /\ frames' = Append(frames, data)
  /\ data' = <<>> /\ ebit' = 0
  /\ UNCHANGED <<sent, at, packet, frame_error, whole>>

Finished ==
  /\ at = Bits /\ sent = MaxFrames /\ packet = <<>> /\ ~frame_complete
  /\ UNCHANGED vars

Next == Send \/ rtp_recv \/ rtp_pop_frame \/ Finished

Spec == Init /\ [][Next]_vars

-----------------------------------------------------------------------------
\* The bits of a frame popped, in their order.
Flat(f) == [k \in 1 .. 8 * Len(f) |-> f[(k - 1) \div 8 + 1][((k - 1) % 8) + 1]]
Is(f, n) ==
  /\ Len(f) = (Bits + 7) \div 8
  /\ \A b \in 1 .. Bits : Flat(f)[b] = <<n, b>>
Out(n) == \E i \in 1 .. Len(frames) : Is(frames[i], n)

\* Wherever the device cuts its frames, as long as nothing is lost and the
\* application pops every frame, the frames come out bit for bit, in their
\* order and none missing (append_h263, the two masks).
FramesWhole ==
  whole = 1 .. sent => \A i \in 1 .. Len(frames) : Is(frames[i], i)

\* An octet is only joined to an octet that is there: when the application
\* pops every frame, data[len-1] is never read with len = 0 (append_h263).
JoinsSomething == ebit # 0 /\ ~frame_error => data # <<>>

\* Whatever is lost, each bit of a frame popped comes from some frame sent and
\* sits in its own column of an octet, in the order of sending; bits to be
\* ignored show only at the end of the last octet (the check of sbit + ebit).
\* An octet is only joined to an octet that is there.
BitsInPlace ==
  /\ JoinsSomething
  /\ \A i \in 1 .. Len(frames) :
       LET f == Flat(frames[i])
       IN  /\ \A k \in 1 .. Len(f) :
                IF f[k] \in {Junk, Clear}
                THEN k > Len(f) - ((8 - (Bits % 8)) % 8)
                ELSE (f[k][2] - k) % 8 = 0
           /\ \A j \in 1 .. Len(f), k \in 1 .. Len(f) :
                j < k /\ f[k] \notin {Junk, Clear} =>
                  \/ f[j][1] < f[k][1]
                  \/ f[j][1] = f[k][1] /\ f[j][2] < f[k][2]

\* A loss costs at most the two frames behind it: one that does not fit and,
\* when it was its marker that did not, one that is skipped (append_h263).
Handled == {n \in 1 .. sent : packet = <<>> /\ ~frame_complete
                              /\ (n = sent => at = Bits)}
Recovers ==
  \A n \in Handled \ 1 .. 2 : n - 2 .. n \subseteq whole => Out(n)
=============================================================================
