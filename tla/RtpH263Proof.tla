---------------------------- MODULE RtpH263Proof ----------------------------
(***************************************************************************)
(* append_h263 never joins an octet to nothing, wherever the device cuts   *)
(* its frames and whatever the network loses, when the application pops    *)
(* every frame (JoinInv).  Under the same assumption frames come out bit   *)
(* for bit while nothing is lost, a loss costs at most the two frames      *)
(* behind it, and no bit ever leaves its place (WholeInv).                 *)
(*                                                                         *)
(* The argument follows the cursor (LastFrame, LastBit), the last bit the  *)
(* network has handed on or lost: WholeInv says what the receiver holds    *)
(* when the cursor is there.  Three parts of it are about octets: what a   *)
(* packet carries (PayloadBits), what the two masks leave of the octet two *)
(* packets share (SharedOctet), and that a packet joined to octets in      *)
(* their place leaves every bit in its place (JoinPlaced).                 *)
(***************************************************************************)
EXTENDS RtpH263, SequenceTheorems, TLAPS

Bit   == Nat \X Nat
Octet == [1 .. 8 -> Bit]
PacketSet == {p \in [frame : Nat, from : Nat, to : Nat, m : BOOLEAN] :
                p.from < p.to}

Types ==
  /\ sent \in Nat /\ at \in Nat
  /\ packet = <<>> \/ \E p \in PacketSet : packet = <<p>>
  /\ data \in Seq(Octet) /\ ebit \in 0 .. 7
  /\ frame_complete \in BOOLEAN /\ frame_error \in BOOLEAN

\* A packet that fits and shares an octet follows a packet that ended in one;
\* that packet's octets are still there, because the frame it belonged to is
\* not complete and no error has dropped them.
JoinInv == Types /\ JoinsSomething

\* The numbers of bits to be ignored are below eight, and a packet has octets.
LEMMA Packets8 ==
  ASSUME NEW p \in PacketSet
  PROVE  /\ Sbit(p) \in 0 .. 7 /\ Ebit(p) \in 0 .. 7
         /\ Payload(p) \in Seq(Octet) /\ Payload(p) # <<>>
<1>1. p.from \in Nat /\ p.to \in Nat /\ p.from < p.to /\ p.frame \in Nat
  BY DEF PacketSet
<1>2. Sbit(p) \in 0 .. 7
  BY <1>1 DEF Sbit
<1>3. Ebit(p) \in 0 .. 7
  <2> DEFINE r == 8 - (p.to % 8)
  <2>1. r \in Int
    BY <1>1
  <2>2. r % 8 \in 0 .. 7
    BY <2>1
  <2>. QED BY <2>2 DEF Ebit
<1> DEFINE n == (p.to + 7) \div 8 - p.from \div 8
           bit(b) == IF p.from < b /\ b <= p.to THEN <<p.frame, b>> ELSE Junk
           oct(i) == [j \in 1 .. 8 |-> bit((p.from \div 8 + i - 1) * 8 + j)]
<1>4. n >= 1 /\ n \in Nat /\ p.from \div 8 \in Nat
  BY <1>1
<1>5. \A b \in Int : bit(b) \in Bit
  BY <1>1 DEF Bit, Junk
<1>6. Payload(p) = [i \in 1 .. n |-> oct(i)]
  BY DEF Payload
<1>7. ASSUME NEW i \in 1 .. n PROVE oct(i) \in Octet
  <2>1. \A j \in 1 .. 8 : (p.from \div 8 + i - 1) * 8 + j \in Int
    BY <1>4, <1>7
  <2>. HIDE DEF bit
  <2>. QED BY <1>5, <2>1 DEF Octet
<1>. HIDE DEF n, oct
<1>8. Payload(p) \in Seq(Octet) /\ Len(Payload(p)) = n
  BY <1>4, <1>6, <1>7
<1>. QED BY <1>2, <1>3, <1>4, <1>8

\* The octet that two packets share is made of the bits of both.
LEMMA JoinedOctet ==
  ASSUME NEW o \in Octet, NEW q \in Octet, NEW e \in 0 .. 7, NEW s \in 0 .. 7
  PROVE  Or(ebit_mask(o, e), sbit_mask(q, s)) \in Octet
<1>1. ebit_mask(o, e) \in Octet /\ sbit_mask(q, s) \in Octet
  BY DEF ebit_mask, sbit_mask, Octet, Bit, Clear
<1>2. \A x, y \in Octet : Or(x, y) \in Octet
  BY DEF Or, Octet, Bit, Junk
<1>. QED BY <1>1, <1>2

\* Joining a packet leaves octets, and never none.
LEMMA JoinGrows ==
  ASSUME NEW p \in PacketSet, NEW d \in Seq(Octet), NEW e \in 0 .. 7,
         Sbit(p) # 0 => d # <<>>
  PROVE  Join(d, e, p) \in Seq(Octet) /\ Join(d, e, p) # <<>>
<1>1. /\ Sbit(p) \in 0 .. 7 /\ Payload(p) \in Seq(Octet)
      /\ Payload(p) # <<>>
  BY Packets8
<1>2. CASE Sbit(p) = 0
  BY <1>1, <1>2 DEF Join
<1>3. CASE Sbit(p) # 0
  <2>1. d[Len(d)] \in Octet /\ Payload(p)[1] \in Octet
        /\ SubSeq(d, 1, Len(d) - 1) \in Seq(Octet)
        /\ Tail(Payload(p)) \in Seq(Octet)
    BY <1>1, <1>3
  <2> DEFINE o == Or(ebit_mask(d[Len(d)], e),
                     sbit_mask(Payload(p)[1], Sbit(p)))
  <2>2. o \in Octet
    BY <1>1, <2>1, JoinedOctet
  <2>3. Join(d, e, p) = SubSeq(d, 1, Len(d) - 1) \o <<o>> \o Tail(Payload(p))
    BY <1>3 DEF Join
  <2>. HIDE DEF o
  <2>. QED BY <2>1, <2>2, <2>3
<1>. QED BY <1>2, <1>3

\* Behind a whole octet only a packet that begins with one fits.
LEMMA FitsNeedsEbit ==
  ASSUME NEW p \in PacketSet, Fits(0, p)
  PROVE  Sbit(p) = 0
<1>1. Sbit(p) \in {0, 1, 2, 3, 4, 5, 6, 7}
  BY Packets8
<1>. QED BY <1>1 DEF Fits

\* rtp_recv keeps JoinInv.
LEMMA RecvJoins ==
  PopsAlways /\ JoinInv /\ rtp_recv => JoinInv'
<1> SUFFICES ASSUME PopsAlways, JoinInv, rtp_recv PROVE JoinInv'
  OBVIOUS
<1> USE DEF JoinInv
<1>1. PICK p \in PacketSet : packet = <<p>>
  BY DEF rtp_recv, Types
<1>2. /\ ~frame_complete /\ packet' = <<>>
      /\ UNCHANGED <<sent, at, frames, whole>>
      /\ IF frame_error THEN Skip(p) ELSE append_h263(p, data)
  BY <1>1 DEF rtp_recv
<1>3. CASE frame_error
  <2>1. /\ data' = <<>> /\ frame_error' = ~p.m
        /\ ebit' = (IF p.m THEN 0 ELSE ebit)
        /\ frame_complete' = frame_complete
    BY <1>2, <1>3 DEF Skip
  <2>2. p.m \in BOOLEAN
    BY DEF PacketSet
  <2>3. Types'
    BY <1>2, <2>1, <2>2 DEF Types
  <2>4. JoinsSomething'
    BY <2>1, <2>2 DEF JoinsSomething
  <2>. QED BY <2>3, <2>4
<1>4. CASE ~frame_error /\ ~Fits(ebit, p)
  BY <1>2, <1>4 DEF append_h263, Types, JoinsSomething
<1>5. CASE ~frame_error /\ Fits(ebit, p)
  <2>1. /\ data' = Join(data, ebit, p) /\ ebit' = Ebit(p)
        /\ frame_complete' = p.m /\ frame_error' = frame_error
    BY <1>2, <1>5 DEF append_h263
  <2>2. Sbit(p) # 0 => data # <<>>
    BY <1>5, FitsNeedsEbit DEF JoinsSomething
  <2>3. data' \in Seq(Octet) /\ data' # <<>>
    BY <2>1, <2>2, JoinGrows DEF Types
  <2>4. ebit' \in 0 .. 7 /\ p.m \in BOOLEAN
    BY <2>1, Packets8 DEF PacketSet
  <2>5. Types'
    BY <1>2, <2>1, <2>3, <2>4 DEF Types
  <2>. QED BY <2>3, <2>5 DEF JoinsSomething
<1>. QED BY <1>3, <1>4, <1>5

\* And so does every other step.
LEMMA NextJoins == PopsAlways /\ JoinInv /\ [Next]_vars => JoinInv'
<1> SUFFICES ASSUME PopsAlways, JoinInv, [Next]_vars PROVE JoinInv'
  OBVIOUS
<1> USE DEF JoinInv
<1>1. CASE Send
  <2>1. PICK f \in Nat, from \in Nat : Transmit(f, from)
    BY <1>1 DEF Send, Types
  <2>2. PICK to \in Cuts \union {Bits} :
          /\ from < to /\ at' = to
          /\ packet' = <<Packet(f, from, to)>> \/ UNCHANGED packet
    BY <2>1 DEF Transmit
  <2>3. to \in Nat
    BY H263Assumption
  <2>4. Packet(f, from, to) \in PacketSet
    BY <2>2, <2>3 DEF Packet, PacketSet
  <2>5. sent' = f /\ UNCHANGED mdesc
    BY <1>1, <2>1 DEF Send, Transmit
  <2>. QED
    BY <2>2, <2>3, <2>4, <2>5 DEF Types, JoinsSomething, mdesc
<1>2. CASE rtp_recv
  BY <1>2, RecvJoins
<1>3. CASE rtp_pop_frame
  <2>1. /\ data' = <<>> /\ ebit' = 0 /\ frame_complete' = FALSE
        /\ UNCHANGED <<sent, at, packet, frame_error>>
    BY <1>3 DEF rtp_pop_frame
  <2>2. data' \in Seq(Octet) /\ ebit' \in 0 .. 7
    BY <2>1
  <2>3. frame_complete' \in BOOLEAN
    BY <2>1
  <2>4. Types'
    BY <2>1, <2>2, <2>3 DEF Types
  <2>. QED BY <2>1, <2>4 DEF JoinsSomething
<1>4. CASE UNCHANGED vars
  BY <1>4 DEF vars, mdesc, Types, JoinsSomething
<1>. QED BY <1>1, <1>2, <1>3, <1>4 DEF Next, Finished

\* At first there are no octets, and none are needed.
LEMMA InitJoins == Init => JoinInv
<1> SUFFICES ASSUME Init PROVE JoinInv
  OBVIOUS
<1>1. /\ sent = 0 /\ at = Bits /\ packet = <<>> /\ data = <<>>
      /\ ebit = 0 /\ frame_complete = FALSE /\ frame_error = FALSE
  BY DEF Init
<1>2. data \in Seq(Octet) /\ ebit \in 0 .. 7 /\ at \in Nat
  BY <1>1, H263Assumption
<1>3. frame_complete \in BOOLEAN /\ frame_error \in BOOLEAN
  BY <1>1
<1>4. Types
  BY <1>1, <1>2, <1>3 DEF Types
<1>. QED BY <1>1, <1>4 DEF JoinInv, JoinsSomething

\* An octet is only joined to an octet that is there: data[len-1] is never read
\* with len = 0 (append_h263), when the application pops every frame.
THEOREM OctetsJoinOctets ==
  ASSUME PopsAlways PROVE Spec => []JoinsSomething
<1>1. JoinInv /\ [Next]_vars => JoinInv'
  BY NextJoins
<1>2. JoinInv => JoinsSomething
  BY DEF JoinInv
<1>. QED BY InitJoins, <1>1, <1>2, PTL DEF Spec

-----------------------------------------------------------------------------
\* How many octets b bits take, and how many bits of the last one are left.
Octets(b) == (b + 7) \div 8
Pad(b) == (8 - (b % 8)) % 8

\* The bits of an octet and of its neighbours.
LEMMA Eights ==
  ASSUME NEW b \in Nat
  PROVE  /\ b \div 8 \in Nat /\ b % 8 \in 0 .. 7 /\ Pad(b) \in 0 .. 7
         /\ b = 8 * (b \div 8) + (b % 8)
         /\ Octets(b) \in Nat /\ 8 * Octets(b) = b + Pad(b)
         /\ b % 8 = 0 => Octets(b) = b \div 8 /\ Pad(b) = 0
         /\ b % 8 # 0 => Octets(b) = b \div 8 + 1 /\ Pad(b) = 8 - (b % 8)
<1>1. b \div 8 \in Nat /\ b % 8 \in 0 .. 7 /\ b = 8 * (b \div 8) + (b % 8)
  OBVIOUS
<1>2. /\ b % 8 = 0 => Pad(b) = 0
      /\ b % 8 # 0 => Pad(b) = 8 - (b % 8)
  <2> DEFINE r == b % 8
  <2>1. r \in {0, 1, 2, 3, 4, 5, 6, 7} /\ Pad(b) = (8 - r) % 8
    BY <1>1 DEF Pad
  <2> QED BY <2>1
<1>3. /\ b % 8 = 0 => Octets(b) = b \div 8
      /\ b % 8 # 0 => Octets(b) = b \div 8 + 1
  BY <1>1 DEF Octets
<1> QED BY <1>1, <1>2, <1>3

\* What is in a packet: the bits from+1 .. to in their columns, junk elsewhere.
LEMMA PayloadBits ==
  ASSUME NEW p \in PacketSet
  PROVE  /\ Len(Payload(p)) = Octets(p.to) - p.from \div 8
         /\ \A i \in 1 .. Len(Payload(p)), j \in 1 .. 8 :
              Payload(p)[i][j] =
                LET b == 8 * (p.from \div 8 + i - 1) + j
                IN  IF p.from < b /\ b <= p.to
                    THEN <<p.frame, b>> ELSE Junk
<1>1. p.from \in Nat /\ p.to \in Nat /\ p.from < p.to
  BY DEF PacketSet
<1> DEFINE n == Octets(p.to) - p.from \div 8
           bit(b) == IF p.from < b /\ b <= p.to THEN <<p.frame, b>> ELSE Junk
           at8(i, j) == (p.from \div 8 + i - 1) * 8 + j
<1>2. n \in Nat
  BY <1>1 DEF Octets
<1>3. Payload(p) = [i \in 1 .. n |-> [j \in 1 .. 8 |-> bit(at8(i, j))]]
  BY DEF Payload, Octets
<1>4. \A i \in 1 .. n, j \in 1 .. 8 :
        at8(i, j) = 8 * (p.from \div 8 + i - 1) + j
  <2>1. p.from \div 8 \in Nat
    BY <1>1
  <2> HIDE DEF n
  <2> QED BY <1>2, <2>1
<1> HIDE DEF n, bit, at8
<1>5. Len(Payload(p)) = n
  BY <1>2, <1>3
<1>6. \A i \in 1 .. n, j \in 1 .. 8 : Payload(p)[i][j] = bit(at8(i, j))
  BY <1>2, <1>3
<1> QED BY <1>4, <1>5, <1>6 DEF n, bit

\* The two masks divide the shared octet between the two packets.
LEMMA SharedOctet ==
  ASSUME NEW o \in Octet, NEW q \in Octet, NEW e \in 0 .. 7, NEW s \in 0 .. 7,
         e + s = 8, NEW j \in 1 .. 8
  PROVE  Or(ebit_mask(o, e), sbit_mask(q, s))[j] =
           IF j <= s THEN o[j] ELSE q[j]
<1> DEFINE x == ebit_mask(o, e)
           y == sbit_mask(q, s)
<1>1. x[j] = (IF j <= s THEN o[j] ELSE Clear)
      /\ y[j] = (IF j <= s THEN Clear ELSE q[j])
  BY DEF ebit_mask, sbit_mask
<1> DEFINE a == x[j]
           b == y[j]
<1>2. Or(x, y)[j] = CASE a = Clear -> b [] b = Clear -> a [] OTHER -> Junk
  BY DEF Or
<1> HIDE DEF a, b
<1>3. CASE b = Clear
  <2>1. Or(x, y)[j] = a
    BY <1>2, <1>3, Zenon
  <2> QED BY <1>1, <1>3, <2>1 DEF a, b, x, y
<1>4. CASE a = Clear
  <2>1. Or(x, y)[j] = b
    BY <1>2, <1>4, Zenon
  <2> QED BY <1>1, <1>4, <2>1 DEF a, b, x, y
<1>5. b = Clear \/ a = Clear
  BY <1>1 DEF a, b
<1> QED BY <1>3, <1>4, <1>5 DEF x, y

\* How many octets of d stay as they are when p is joined to it.
Kept(d, p) == IF Sbit(p) = 0 THEN Len(d) ELSE Len(d) - 1

\* Joining a packet keeps the bits that were there and adds the packet's.
LEMMA JoinBits ==
  ASSUME NEW p \in PacketSet, NEW d \in Seq(Octet), NEW e \in 0 .. 7,
         Fits(e, p), Sbit(p) # 0 => d # <<>>
  PROVE  /\ Kept(d, p) \in 0 .. Len(d)
         /\ Len(Join(d, e, p)) = Kept(d, p) + Len(Payload(p))
         /\ \A i \in 1 .. Len(Join(d, e, p)), j \in 1 .. 8 :
              Join(d, e, p)[i][j] =
                IF i <= Kept(d, p) \/ (i = Kept(d, p) + 1 /\ j <= Sbit(p))
                THEN d[i][j] ELSE Payload(p)[i - Kept(d, p)][j]
<1> DEFINE o == Payload(p)
           s == Sbit(p)
<1>1. s \in 0 .. 7 /\ o \in Seq(Octet) /\ o # <<>> /\ Len(d) \in Nat
      /\ Len(o) \in Nat \ {0}
  BY Packets8
<1>2. CASE s = 0
  <2>1. Join(d, e, p) = d \o o /\ Kept(d, p) = Len(d)
    BY <1>2 DEF Join, Kept
  <2> HIDE DEF o, s
  <2>2. Len(d \o o) = Len(d) + Len(o)
        /\ \A i \in 1 .. Len(d) + Len(o) :
             (d \o o)[i] = IF i <= Len(d) THEN d[i] ELSE o[i - Len(d)]
    BY <1>1, ConcatProperties
  <2> QED BY <1>1, <1>2, <2>1, <2>2 DEF o, s
<1>3. CASE s # 0
  <2> DEFINE h == SubSeq(d, 1, Len(d) - 1)
             m == Or(ebit_mask(d[Len(d)], e), sbit_mask(o[1], s))
             t == Tail(o)
             n == Len(d) - 1
  <2>1. Join(d, e, p) = h \o <<m>> \o t /\ Kept(d, p) = n
    BY <1>3 DEF Join, Kept
  <2>2. n \in Nat /\ Len(d) \in 1 .. Len(d) /\ 1 \in 1 .. Len(o)
    BY <1>1, <1>3
  <2>3. d[Len(d)] \in Octet /\ o[1] \in Octet
    BY <1>1, <2>2
  <2>4. e + s = 8
    <3>1. s \in {1, 2, 3, 4, 5, 6, 7} /\ e \in {0, 1, 2, 3, 4, 5, 6, 7}
      BY <1>1, <1>3
    <3>2. (e + s) % 8 = 0
      BY DEF Fits
    <3> HIDE DEF s
    <3> QED BY <3>1, <3>2
  <2>5. \A j \in 1 .. 8 : m[j] = IF j <= s THEN d[Len(d)][j] ELSE o[1][j]
    <3> DEFINE x == d[Len(d)]
               y == o[1]
    <3>1. x \in Octet /\ y \in Octet /\ s \in 0 .. 7 /\ e + s = 8
      BY <1>1, <2>3, <2>4
    <3> HIDE DEF s, o, x, y
    <3>2. \A j \in 1 .. 8 : Or(ebit_mask(x, e), sbit_mask(y, s))[j] =
                              IF j <= s THEN x[j] ELSE y[j]
      BY <3>1, SharedOctet
    <3> QED BY <3>2 DEF x, y
  <2>6. h \in Seq(Octet) /\ Len(h) = n /\ \A i \in 1 .. n : h[i] = d[i]
    <3>1. n <= Len(d) /\ \A i \in 1 .. n : d[i] \in Octet
      BY <1>1
    <3>2. h = SubSeq(d, 1, n)
      OBVIOUS
    <3> HIDE DEF n, h
    <3>3. n \in Int /\ 1 \in Int /\ (1 <= n \/ n = 0) /\ n - 1 + 1 = n
      BY <2>2
    <3>4. /\ h \in Seq(Octet) /\ Len(h) = (IF 1 <= n THEN n - 1 + 1 ELSE 0)
          /\ \A i \in 1 .. n - 1 + 1 : h[i] = d[1 + i - 1]
      BY <3>1, <3>2, <3>3, SubSeqProperties
    <3> QED BY <3>3, <3>4
  <2>7. t \in Seq(Octet) /\ Len(t) = Len(o) - 1
        /\ \A i \in 1 .. Len(t) : t[i] = o[i + 1]
    BY <1>1, HeadTailProperties
  <2> DEFINE w == h \o <<m>> \o t
  <2> HIDE DEF h, t, o, s, m, n
  <2>8. /\ Len(w) = n + Len(o)
        /\ \A i \in 1 .. Len(w) :
             w[i] = IF i <= n THEN d[i]
                    ELSE IF i = n + 1 THEN m ELSE o[i - n]
    <3>1. m \in Octet
      BY <1>1, <2>3, JoinedOctet DEF m, s
    <3>2. <<m>> \in Seq(Octet) /\ Len(<<m>>) = 1 /\ <<m>>[1] = m
      BY <3>1
    <3> DEFINE g == h \o <<m>>
    <3>3. /\ g \in Seq(Octet) /\ Len(g) = Len(h) + Len(<<m>>)
          /\ \A i \in 1 .. Len(h) + Len(<<m>>) :
               g[i] = IF i <= Len(h) THEN h[i] ELSE <<m>>[i - Len(h)]
      BY <2>6, <3>2, ConcatProperties
    <3>4. w = g \o t
      OBVIOUS
    <3> HIDE DEF g, w
    <3>5. /\ Len(w) = Len(g) + Len(t)
          /\ \A i \in 1 .. Len(g) + Len(t) :
               w[i] = IF i <= Len(g) THEN g[i] ELSE t[i - Len(g)]
      <4>1. g \in Seq(Octet) /\ t \in Seq(Octet)
        BY <2>7, <3>3
      <4> QED BY <3>4, <4>1, ConcatProperties
    <3>6. Len(g) = n + 1 /\ Len(w) = n + Len(o)
      BY <1>1, <2>2, <2>6, <2>7, <3>2, <3>3, <3>5
    <3>7. ASSUME NEW i \in 1 .. Len(w), i <= n PROVE w[i] = d[i]
      <4>1. i \in 1 .. n /\ i \in 1 .. Len(h) + 1 /\ i \in 1 .. n + 1 + Len(t)
        BY <1>1, <2>2, <2>6, <2>7, <3>6, <3>7
      <4> QED BY <2>2, <2>6, <3>2, <3>3, <3>5, <3>6, <3>7, <4>1
    <3>8. ASSUME NEW i \in 1 .. Len(w), i = n + 1 PROVE w[i] = m
      <4>1. /\ i \in 1 .. Len(h) + 1 /\ i \in 1 .. n + 1 + Len(t)
            /\ i - Len(h) = 1 /\ ~(i <= Len(h))
        BY <1>1, <2>2, <2>6, <2>7, <3>6, <3>8
      <4> QED BY <3>2, <3>3, <3>5, <3>6, <3>8, <4>1
    <3>9. ASSUME NEW i \in 1 .. Len(w), i > n + 1 PROVE w[i] = o[i - n]
      <4>1. i - (n + 1) \in 1 .. Len(t) /\ i \in 1 .. n + 1 + Len(t)
        BY <1>1, <2>2, <2>7, <3>6, <3>9
      <4>2. w[i] = t[i - (n + 1)] /\ t[i - (n + 1)] = o[i - (n + 1) + 1]
        BY <2>2, <2>7, <3>5, <3>6, <3>9, <4>1, SMTT(30)
      <4>3. i - (n + 1) + 1 = i - n
        BY <2>2
      <4> QED BY <4>2, <4>3
    <3>10. \A i \in 1 .. Len(w) : i <= n \/ i = n + 1 \/ i > n + 1
      BY <2>2
    <3>11. \A i \in 1 .. Len(w) : i = n + 1 => ~(i <= n)
      BY <2>2
    <3>12. \A i \in 1 .. Len(w) : i > n + 1 => ~(i <= n) /\ i # n + 1
      BY <2>2
    <3> QED BY <3>6, <3>7, <3>8, <3>9, <3>10, <3>11, <3>12
  <2>9. w = Join(d, e, p)
    BY <2>1
  <2> HIDE DEF w
  <2>10. Kept(d, p) = n /\ n + 1 = Len(d) /\ n \in 0 .. Len(d)
    BY <1>1, <2>1, <2>2 DEF n
  <2>11. ASSUME NEW i \in 1 .. Len(w), NEW j \in 1 .. 8
         PROVE  w[i][j] = IF i <= n \/ (i = n + 1 /\ j <= s)
                          THEN d[i][j] ELSE o[i - n][j]
    <3>1. CASE i <= n
      BY <2>8, <3>1
    <3>2. CASE i = n + 1
      <4>1. w[i] = m /\ i - n = 1 /\ i = Len(d) /\ ~(i <= n)
        BY <2>2, <2>8, <2>10, <3>2
      <4> QED BY <2>5, <3>2, <4>1
    <3>3. CASE i > n + 1
      BY <2>2, <2>8, <2>10, <3>3
    <3> QED BY <2>2, <2>10, <3>1, <3>2, <3>3
  <2> QED BY <2>8, <2>9, <2>10, <2>11 DEF o, s
<1> QED BY <1>2, <1>3

\* d holds the bits 1 .. b of the frame n and nothing else before them.
Filled(d, n, b) ==
  /\ Len(d) = Octets(b)
  /\ \A i \in 1 .. Len(d), j \in 1 .. 8 :
       8 * (i - 1) + j <= b => d[i][j] = <<n, 8 * (i - 1) + j>>

\* A frame filled to its last bit is what rtp_pop_frame should return.
LEMMA FilledIs ==
  ASSUME NEW d \in Seq(Octet), NEW n \in Nat, Filled(d, n, Bits)
  PROVE  Is(d, n)
<1>1. Bits \in Nat /\ Len(d) \in Nat
  BY H263Assumption
<1>2. Len(d) = (Bits + 7) \div 8 /\ Bits <= 8 * Len(d)
  BY <1>1, Eights DEF Filled, Octets
<1>3. ASSUME NEW b \in 1 .. Bits PROVE Flat(d)[b] = <<n, b>>
  <2> DEFINE i == (b - 1) \div 8 + 1
             j == ((b - 1) % 8) + 1
  <2>1. /\ i \in 1 .. Len(d) /\ j \in 1 .. 8 /\ 8 * (i - 1) + j = b
        /\ b \in 1 .. 8 * Len(d)
    BY <1>1, <1>2
  <2>2. Flat(d)[b] = d[i][j]
    BY <2>1 DEF Flat
  <2> HIDE DEF i, j
  <2>3. b <= Bits
    BY <1>1
  <2> QED BY <2>1, <2>2, <2>3 DEF Filled
<1> QED BY <1>2, <1>3 DEF Is

\* A packet that follows what is there, in the same frame.
LEMMA Follows ==
  ASSUME NEW p \in PacketSet, NEW d \in Seq(Octet),
         Len(d) = Octets(p.from)
  PROVE  /\ Fits(Pad(p.from), p) /\ (Sbit(p) # 0 => d # <<>>)
         /\ Kept(d, p) = p.from \div 8
<1>1. p.from \in Nat
  BY DEF PacketSet
<1> DEFINE a == p.from
<1>2. /\ a \div 8 \in Nat /\ a % 8 \in 0 .. 7 /\ Pad(a) \in 0 .. 7
      /\ a % 8 = 0 => Octets(a) = a \div 8 /\ Pad(a) = 0
      /\ a % 8 # 0 => Octets(a) = a \div 8 + 1 /\ Pad(a) = 8 - (a % 8)
  BY <1>1, Eights
<1> HIDE DEF a
<1>3. Sbit(p) = a % 8 /\ Len(d) = Octets(a)
  BY DEF Sbit, a
<1>4. (Pad(a) + Sbit(p)) % 8 = 0
  <2>1. Pad(a) + Sbit(p) = 0 \/ Pad(a) + Sbit(p) = 8
    BY <1>2, <1>3
  <2> QED BY <2>1
<1>5. Sbit(p) # 0 => Len(d) # 0
  BY <1>2, <1>3
<1>6. Kept(d, p) = a \div 8
  BY <1>2, <1>3 DEF Kept
<1> QED BY <1>4, <1>5, <1>6 DEF Fits, a

\* The next packet of a frame joined to the bits up to it fills them up to its
\* own last bit.
LEMMA FilledJoin ==
  ASSUME NEW p \in PacketSet, NEW d \in Seq(Octet),
         Filled(d, p.frame, p.from)
  PROVE  Filled(Join(d, Pad(p.from), p), p.frame, p.to)
<1> DEFINE k == p.from \div 8
           w == Join(d, Pad(p.from), p)
           s == Sbit(p)
<1>1. p.from \in Nat /\ p.to \in Nat /\ p.from < p.to
  BY DEF PacketSet
<1>2. Len(d) = Octets(p.from) /\ Len(d) \in Nat
  BY DEF Filled
<1>3. Fits(Pad(p.from), p) /\ (Sbit(p) # 0 => d # <<>>) /\ Kept(d, p) = k
  BY <1>2, Follows
<1>4. Pad(p.from) \in 0 .. 7 /\ s \in 0 .. 7 /\ k \in Nat
      /\ p.from = 8 * k + s
  BY <1>1, Eights DEF Sbit
<1>11. s \in 0 .. 7 /\ k \in Nat
  BY <1>4
<1> HIDE DEF k
<1>5. /\ k \in 0 .. Len(d)
      /\ Len(w) = k + Len(Payload(p))
      /\ \A i \in 1 .. Len(w), j \in 1 .. 8 :
           w[i][j] = IF i <= k \/ (i = k + 1 /\ j <= s)
                     THEN d[i][j] ELSE Payload(p)[i - k][j]
  <2> DEFINE z == Pad(p.from)
  <2>1. z \in 0 .. 7 /\ Fits(z, p) /\ (Sbit(p) # 0 => d # <<>>)
    BY <1>3, <1>4
  <2> HIDE DEF z
  <2>2. /\ Kept(d, p) \in 0 .. Len(d)
        /\ Len(Join(d, z, p)) = Kept(d, p) + Len(Payload(p))
        /\ \A i \in 1 .. Len(Join(d, z, p)), j \in 1 .. 8 :
             Join(d, z, p)[i][j] =
               IF i <= Kept(d, p) \/ (i = Kept(d, p) + 1 /\ j <= Sbit(p))
               THEN d[i][j] ELSE Payload(p)[i - Kept(d, p)][j]
    BY <2>1, JoinBits
  <2> QED BY <1>3, <2>2 DEF z
<1>6. /\ Len(Payload(p)) = Octets(p.to) - k
      /\ \A i \in 1 .. Len(Payload(p)), j \in 1 .. 8 :
           LET b == 8 * (k + i - 1) + j
           IN  p.from < b /\ b <= p.to => Payload(p)[i][j] = <<p.frame, b>>
  BY PayloadBits DEF k
<1>7. Octets(p.to) \in Nat
  BY <1>1, Eights
<1>8. \A i \in 1 .. Len(d), j \in 1 .. 8 :
        8 * (i - 1) + j <= p.from => d[i][j] = <<p.frame, 8 * (i - 1) + j>>
  BY DEF Filled
<1> HIDE DEF w, s
<1>9. Len(w) = Octets(p.to)
  BY <1>4, <1>5, <1>6, <1>7
<1>10. ASSUME NEW i \in 1 .. Len(w), NEW j \in 1 .. 8,
              8 * (i - 1) + j <= p.to
       PROVE  w[i][j] = <<p.frame, 8 * (i - 1) + j>>
  <2>1. CASE i <= k \/ (i = k + 1 /\ j <= s)
    <3>1. 8 * (i - 1) + j <= p.from
      <4>1. i \in Nat /\ j \in 1 .. 8 /\ p.from = 8 * k + s
        BY <1>4
      <4>2. i <= k => 8 * (i - 1) + j <= 8 * k
        BY <1>4, <4>1
      <4>3. i = k + 1 => 8 * (i - 1) + j = 8 * k + j
        BY <1>4, <4>1
      <4> QED BY <1>4, <2>1, <4>1, <4>2, <4>3
    <3>2. i \in 1 .. Len(d)
      <4>1. j <= s => s # 0
        BY <1>11
      <4>2. s # 0 => Len(d) = k + 1
        BY <1>2, <1>3 DEF Kept, s
      <4> QED BY <1>2, <1>4, <1>5, <2>1, <4>1, <4>2
    <3> QED BY <1>5, <1>8, <2>1, <3>1, <3>2
  <2>2. CASE ~(i <= k \/ (i = k + 1 /\ j <= s))
    <3>1. /\ i - k \in 1 .. Len(Payload(p)) /\ k + (i - k) - 1 = i - 1
          /\ p.from < 8 * (i - 1) + j
      <4>1. i > k /\ i \in Nat /\ (i = k + 1 => j > s)
        BY <1>11, <2>2
      <4>2. i - k \in 1 .. Len(Payload(p)) /\ k + (i - k) - 1 = i - 1
        BY <1>4, <1>5, <1>6, <1>7, <4>1, SMTT(30)
      <4>3. i = k + 1 => 8 * (i - 1) + j = 8 * k + j
        BY <1>4, <4>1
      <4>4. i > k + 1 => 8 * (i - 1) + j >= 8 * k + 8
        BY <1>4, <4>1
      <4> QED BY <1>4, <4>1, <4>2, <4>3, <4>4
    <3>2. Payload(p)[i - k][j] = <<p.frame, 8 * (k + (i - k) - 1) + j>>
      BY <1>6, <1>10, <3>1
    <3> QED BY <1>5, <2>2, <3>1, <3>2
  <2> QED BY <2>1, <2>2
<1> QED BY <1>9, <1>10 DEF Filled, w

-----------------------------------------------------------------------------
\* A bit sent sits in its column; the order of sending.
Sits(x, j) == x[1] >= 1 /\ (x[2] - j) % 8 = 0
Before(x, y) == x[1] < y[1] \/ (x[1] = y[1] /\ x[2] < y[2])

\* The last e bits of the octets d are to be ignored.
Ignored(d, e, i, j) == i = Len(d) /\ j > 8 - e

\* Every other bit sits in its column, behind all that stand before it.
InPlace(d, e) ==
  \A i \in 1 .. Len(d), j \in 1 .. 8 :
    /\ IF Ignored(d, e, i, j) THEN d[i][j] = Junk ELSE Sits(d[i][j], j)
    /\ \A k \in 1 .. Len(d), l \in 1 .. 8 :
         (i < k \/ (i = k /\ j < l)) /\ ~Ignored(d, e, k, l) =>
           Before(d[i][j], d[k][l])

\* And none was sent after the bit b of the frame n.
Behind(d, e, n, b) ==
  \A i \in 1 .. Len(d), j \in 1 .. 8 :
    ~Ignored(d, e, i, j) =>
      d[i][j][1] < n \/ (d[i][j][1] = n /\ d[i][j][2] <= b)

\* A bit that stood there before p was joined to d.
Old(d, p, i, j) == i <= Kept(d, p) \/ (i = Kept(d, p) + 1 /\ j <= Sbit(p))

\* The bits that a joined packet brings, and those that were there before.
LEMMA JoinedBits ==
  ASSUME NEW p \in PacketSet, NEW d \in Seq(Octet), NEW e \in 0 .. 7,
         Fits(e, p), Sbit(p) # 0 => d # <<>>,
         NEW i \in 1 .. Len(Join(d, e, p)), NEW j \in 1 .. 8
  PROVE  LET w == Join(d, e, p)
             b == 8 * (p.from \div 8 + i - Kept(d, p) - 1) + j
         IN  /\ Old(d, p, i, j) =>
                   /\ i \in 1 .. Len(d) /\ ~Ignored(d, e, i, j)
                   /\ ~Ignored(w, Ebit(p), i, j)
                   /\ w[i][j] = d[i][j]
             /\ ~Old(d, p, i, j) =>
                   /\ p.from < b
                   /\ Ignored(w, Ebit(p), i, j) => w[i][j] = Junk
                   /\ ~Ignored(w, Ebit(p), i, j) =>
                        b <= p.to /\ w[i][j] = <<p.frame, b>>
<1> DEFINE w == Join(d, e, p)
           o == Payload(p)
           a == p.from \div 8
           s == Sbit(p)
           k == Kept(d, p)
           f == p.from
           t == p.to
           r == Ebit(p)
           b == 8 * (a + i - k - 1) + j
<1>1. f \in Nat /\ t \in Nat /\ f < t
  BY DEF PacketSet
<1>2. a \in Nat /\ s \in 0 .. 7 /\ f = 8 * a + s
  BY <1>1, Eights DEF Sbit
<1>3. Octets(t) \in Nat /\ r \in 0 .. 7 /\ 8 * Octets(t) = t + r
  BY <1>1, Eights DEF Ebit, Pad
<1>4. /\ k \in 0 .. Len(d) /\ Len(w) = k + Len(o)
      /\ w[i][j] = IF i <= k \/ (i = k + 1 /\ j <= s)
                   THEN d[i][j] ELSE o[i - k][j]
  BY JoinBits
<1>5. /\ Len(o) = Octets(t) - a
      /\ \A m \in 1 .. Len(o) :
           o[m][j] = IF f < 8 * (a + m - 1) + j /\ 8 * (a + m - 1) + j <= t
                     THEN <<p.frame, 8 * (a + m - 1) + j>> ELSE Junk
  BY PayloadBits
<1>6. /\ s = 0 => k = Len(d) /\ e = 0
      /\ s # 0 => k = Len(d) - 1 /\ e = 8 - s
  <2>1. s \in {0, 1, 2, 3, 4, 5, 6, 7} /\ e \in {0, 1, 2, 3, 4, 5, 6, 7}
    BY <1>2
  <2>2. (e + s) % 8 = 0
    BY DEF Fits
  <2>3. (s = 0 => k = Len(d)) /\ (s # 0 => k = Len(d) - 1)
    BY DEF Kept
  <2> HIDE DEF s, k
  <2>4. (s = 0 => e = 0) /\ (s # 0 => e = 8 - s)
    BY <2>1, <2>2
  <2> QED BY <2>3, <2>4
<1>7. Len(d) \in Nat /\ i \in 1 .. Len(w)
  OBVIOUS
<1>12. b = 8 * (a + i - k - 1) + j
  OBVIOUS
<1> HIDE DEF w, o, a, s, k, f, t, r, b
<1>8. Len(o) \in Nat /\ Len(o) >= 1
  <2>1. Octets(t) > a
    BY <1>1, <1>2, <1>3
  <2> QED BY <1>2, <1>3, <1>5, <2>1
<1>9. ASSUME i <= k \/ (i = k + 1 /\ j <= s)
      PROVE  /\ i \in 1 .. Len(d) /\ ~Ignored(d, e, i, j)
             /\ ~Ignored(w, r, i, j) /\ w[i][j] = d[i][j]
  <2>1. i \in 1 .. Len(d)
    BY <1>2, <1>4, <1>6, <1>7, <1>9, SMTT(30)
  <2>2. ~Ignored(d, e, i, j)
    BY <1>2, <1>4, <1>6, <1>7, <1>9 DEF Ignored
  <2>3. ~Ignored(w, r, i, j)
    <3>1. CASE i <= k
      BY <1>4, <1>7, <1>8, <3>1 DEF Ignored
    <3>2. CASE i = k + 1 /\ j <= s
      <4>1. ASSUME i = Len(w) PROVE j <= 8 - r
        <5>1. Len(o) = 1 /\ Octets(t) = a + 1
          BY <1>2, <1>3, <1>4, <1>5, <1>7, <1>8, <3>2, <4>1, SMTT(30)
        <5>2. 8 * a + 8 = t + r
          BY <1>2, <1>3, <5>1
        <5> QED BY <1>1, <1>2, <1>3, <3>2, <5>2
      <4> QED BY <1>3, <4>1 DEF Ignored
    <3> QED BY <1>9, <3>1, <3>2
  <2> QED BY <1>4, <1>9, <2>1, <2>2, <2>3
<1>10. ASSUME ~(i <= k \/ (i = k + 1 /\ j <= s))
       PROVE  /\ f < b
              /\ Ignored(w, r, i, j) => w[i][j] = Junk
              /\ ~Ignored(w, r, i, j) =>
                   b <= t /\ w[i][j] = <<p.frame, b>>
  <2>1. i > k /\ i - k \in 1 .. Len(o) /\ (i = k + 1 => j > s)
    BY <1>2, <1>4, <1>7, <1>8, <1>10
  <2>2. b \in Int /\ b = 8 * (a + (i - k) - 1) + j /\ f < b
    <3>1. k \in Nat /\ i \in Nat /\ b = 8 * (a + (i - k) - 1) + j
      BY <1>2, <1>4, <1>7, <1>12
    <3>2. i = k + 1 => b = 8 * a + j
      BY <1>2, <3>1
    <3>3. i > k + 1 => b >= 8 * a + 8
      BY <1>2, <3>1
    <3> QED BY <1>2, <2>1, <3>1, <3>2, <3>3
  <2>3. w[i][j] = IF b <= t THEN <<p.frame, b>> ELSE Junk
    BY <1>4, <1>5, <1>10, <2>1, <2>2
  <2>4. Ignored(w, r, i, j) <=> b > t
    <3>1. /\ a + Len(o) = Octets(t) /\ Len(w) = k + Len(o)
          /\ k \in Nat /\ i \in Nat /\ i <= Len(w)
      <4>1. /\ Len(o) = Octets(t) - a /\ Octets(t) \in Nat /\ a \in Nat
            /\ k \in 0 .. Len(d) /\ Len(w) = k + Len(o)
        BY <1>2, <1>3, <1>4, <1>5
      <4> HIDE DEF a, o, w, k
      <4> QED BY <1>7, <1>8, <4>1
    <3>2. CASE i = Len(w)
      <4>1. a + (i - k) - 1 = Octets(t) - 1
        BY <1>2, <1>8, <3>1, <3>2
      <4>2. b = t + r - 8 + j
        BY <1>1, <1>3, <2>2, <4>1, SMTT(30)
      <4> QED BY <1>1, <1>3, <3>2, <4>2 DEF Ignored
    <3>3. CASE i # Len(w)
      <4>1. a + (i - k) - 1 <= Octets(t) - 2 /\ a + (i - k) - 1 \in Int
        BY <1>2, <1>3, <1>8, <3>1, <3>3, SMTT(30)
      <4>2. b <= t + r - 16 + j
        BY <1>1, <1>3, <2>2, <4>1, SMTT(30)
      <4> QED BY <1>1, <1>3, <2>2, <3>3, <4>2 DEF Ignored
    <3> QED BY <3>2, <3>3
  <2> QED BY <1>1, <2>2, <2>3, <2>4
<1>11. Old(d, p, i, j) <=> i <= k \/ (i = k + 1 /\ j <= s)
  BY DEF Old, k, s
<1> QED BY <1>9, <1>10, <1>11 DEF w, o, a, s, k, f, t, r, b

\* A bit is a pair of numbers.
LEMMA BitPairs ==
  ASSUME NEW d \in Seq(Octet), NEW i \in 1 .. Len(d), NEW j \in 1 .. 8
  PROVE  d[i][j][1] \in Nat /\ d[i][j][2] \in Nat
<1>1. d[i] \in Octet
  OBVIOUS
<1>2. d[i][j] \in Nat \X Nat
  BY <1>1 DEF Octet, Bit
<1> QED BY <1>2

\* A packet joined to octets in which every bit is in its place, and which were
\* all sent before it, leaves every bit in its place.
LEMMA JoinPlaced ==
  ASSUME NEW p \in PacketSet, NEW d \in Seq(Octet), NEW e \in 0 .. 7,
         p.frame >= 1, Fits(e, p), Sbit(p) # 0 => d # <<>>,
         InPlace(d, e), NEW n \in Nat, NEW c \in Nat, Behind(d, e, n, c),
         n < p.frame \/ (n = p.frame /\ c <= p.from)
  PROVE  /\ InPlace(Join(d, e, p), Ebit(p))
         /\ Behind(Join(d, e, p), Ebit(p), p.frame, p.to)
<1> DEFINE w == Join(d, e, p)
           f == p.frame
           k == Kept(d, p)
           r == Ebit(p)
           a == p.from \div 8
           bit(i, j) == 8 * (a + i - k - 1) + j
<1>1. /\ f \in Nat /\ f >= 1 /\ p.from \in Nat /\ p.to \in Nat
      /\ p.from < p.to /\ a \in Nat
  BY DEF PacketSet
<1>2. k \in 0 .. Len(d) /\ Len(d) \in Nat /\ w \in Seq(Octet)
  BY JoinBits, JoinGrows
<1>3. ASSUME NEW i \in 1 .. Len(w), NEW j \in 1 .. 8
      PROVE  /\ bit(i, j) \in Int
             /\ Old(d, p, i, j) =>
                  /\ i \in 1 .. Len(d) /\ ~Ignored(d, e, i, j)
                  /\ ~Ignored(w, r, i, j) /\ w[i][j] = d[i][j]
             /\ ~Old(d, p, i, j) =>
                  /\ p.from < bit(i, j)
                  /\ Ignored(w, r, i, j) => w[i][j] = Junk
                  /\ ~Ignored(w, r, i, j) =>
                       bit(i, j) <= p.to /\ w[i][j] = <<f, bit(i, j)>>
  <2>1. bit(i, j) \in Int
    BY <1>1, <1>2
  <2> QED BY <2>1, JoinedBits
<1>4. ASSUME NEW i \in 1 .. Len(w), NEW j \in 1 .. 8,
             NEW m \in 1 .. Len(w), NEW l \in 1 .. 8,
             i < m \/ (i = m /\ j < l)
      PROVE  /\ Old(d, p, m, l) => Old(d, p, i, j)
             /\ ~Ignored(w, r, m, l) => ~Ignored(w, r, i, j)
             /\ bit(i, j) < bit(m, l)
  <2>1. Old(d, p, m, l) => Old(d, p, i, j)
    <3>1. Sbit(p) \in 0 .. 7 /\ k \in Nat
      BY <1>2, Packets8
    <3> DEFINE s == Sbit(p)
    <3> HIDE DEF k, s
    <3>2. (m <= k \/ (m = k + 1 /\ l <= s)) => i <= k \/ (i = k + 1 /\ j <= s)
      BY <1>4, <3>1 DEF s
    <3> QED BY <3>2 DEF Old, k, s
  <2>2. ~Ignored(w, r, m, l) => ~Ignored(w, r, i, j)
    <3>1. r \in Int /\ Len(w) \in Nat
      BY <1>2, Packets8
    <3> HIDE DEF w, r
    <3> QED BY <1>4, <3>1 DEF Ignored
  <2>3. bit(i, j) < bit(m, l)
    <3>1. a \in Int /\ k \in Int
      BY <1>1, <1>2
    <3> HIDE DEF a, k
    <3> QED BY <1>4, <3>1
  <2> QED BY <2>1, <2>2, <2>3
<1>5. ASSUME NEW i \in 1 .. Len(w), NEW j \in 1 .. 8
      PROVE  (bit(i, j) - j) % 8 = 0
  <2> DEFINE q == a + i - k - 1
  <2>1. q \in Int /\ bit(i, j) = 8 * q + j
    BY <1>1, <1>2
  <2> HIDE DEF q, bit
  <2>2. bit(i, j) - j = 8 * q
    BY <2>1
  <2> QED BY <2>1, <2>2
<1> HIDE DEF bit, w, r, k, a, f
<1>6. ASSUME NEW i \in 1 .. Len(d), NEW j \in 1 .. 8,
             ~Ignored(d, e, i, j)
      PROVE  d[i][j][1] < f \/ (d[i][j][1] = f /\ d[i][j][2] <= p.from)
  <2>1. d[i][j][1] \in Nat /\ d[i][j][2] \in Nat
    BY BitPairs
  <2>2. d[i][j][1] < n \/ (d[i][j][1] = n /\ d[i][j][2] <= c)
    BY <1>6 DEF Behind
  <2>3. n < f \/ (n = f /\ c <= p.from)
    BY DEF f
  <2> QED BY <1>1, <2>1, <2>2, <2>3
<1>7. ASSUME NEW i \in 1 .. Len(w), NEW j \in 1 .. 8
      PROVE  IF Ignored(w, r, i, j) THEN w[i][j] = Junk ELSE Sits(w[i][j], j)
  <2>1. CASE Old(d, p, i, j)
    <3>1. /\ i \in 1 .. Len(d) /\ ~Ignored(d, e, i, j)
          /\ ~Ignored(w, r, i, j) /\ w[i][j] = d[i][j]
      BY <1>3, <2>1
    <3>2. Sits(d[i][j], j)
      BY <3>1 DEF InPlace
    <3> QED BY <3>1, <3>2
  <2>2. CASE ~Old(d, p, i, j) /\ ~Ignored(w, r, i, j)
    <3>1. w[i][j] = <<f, bit(i, j)>>
      BY <1>3, <2>2
    <3>2. w[i][j][1] = f /\ w[i][j][2] = bit(i, j)
      BY <3>1
    <3> QED BY <1>1, <1>5, <2>2, <3>2 DEF Sits
  <2>3. CASE ~Old(d, p, i, j) /\ Ignored(w, r, i, j)
    BY <1>3, <2>3
  <2> QED BY <2>1, <2>2, <2>3
<1>8. ASSUME NEW i \in 1 .. Len(w), NEW j \in 1 .. 8,
             NEW m \in 1 .. Len(w), NEW l \in 1 .. 8,
             i < m \/ (i = m /\ j < l), ~Ignored(w, r, m, l)
      PROVE  Before(w[i][j], w[m][l])
  <2>1. /\ Old(d, p, m, l) => Old(d, p, i, j)
        /\ ~Ignored(w, r, i, j) /\ bit(i, j) < bit(m, l)
    BY <1>4, <1>8
  <2>2. CASE Old(d, p, m, l)
    <3>1. /\ m \in 1 .. Len(d) /\ ~Ignored(d, e, m, l) /\ w[m][l] = d[m][l]
          /\ i \in 1 .. Len(d) /\ w[i][j] = d[i][j]
      BY <1>3, <2>1, <2>2
    <3>2. Before(d[i][j], d[m][l])
      BY <1>8, <3>1 DEF InPlace
    <3> QED BY <3>1, <3>2
  <2>3. CASE ~Old(d, p, m, l)
    <3>1. /\ w[m][l] = <<f, bit(m, l)>> /\ p.from < bit(m, l)
          /\ bit(m, l) \in Int /\ bit(i, j) \in Int
      BY <1>3, <1>8, <2>3
    <3>2. CASE Old(d, p, i, j)
      <4>1. /\ i \in 1 .. Len(d) /\ ~Ignored(d, e, i, j)
            /\ w[i][j] = d[i][j]
        BY <1>3, <3>2
      <4>2. d[i][j][1] < f \/ (d[i][j][1] = f /\ d[i][j][2] <= p.from)
        BY <1>6, <4>1
      <4>3. d[i][j][2] \in Nat
        BY <4>1, BitPairs
      <4>4. d[i][j][2] <= p.from => d[i][j][2] < bit(m, l)
        <5> DEFINE x == d[i][j][2]
                   y == bit(m, l)
                   z == p.from
        <5>1. x \in Nat /\ y \in Int /\ z \in Nat /\ z < y
          BY <1>1, <3>1, <4>3
        <5> HIDE DEF x, y, z
        <5>2. x <= z => x < y
          BY <5>1
        <5> QED BY <5>2 DEF x, y, z
      <4>5. <<f, bit(m, l)>>[1] = f /\ <<f, bit(m, l)>>[2] = bit(m, l)
        OBVIOUS
      <4> QED BY <3>1, <4>1, <4>2, <4>4, <4>5 DEF Before
    <3>3. CASE ~Old(d, p, i, j)
      <4>1. w[i][j] = <<f, bit(i, j)>>
        BY <1>3, <2>1, <3>3
      <4> QED BY <2>1, <3>1, <4>1 DEF Before
    <3> QED BY <3>2, <3>3
  <2> QED BY <2>2, <2>3
<1>9. ASSUME NEW i \in 1 .. Len(w), NEW j \in 1 .. 8, ~Ignored(w, r, i, j)
      PROVE  w[i][j][1] < f \/ (w[i][j][1] = f /\ w[i][j][2] <= p.to)
  <2>1. CASE Old(d, p, i, j)
    <3>1. /\ i \in 1 .. Len(d) /\ ~Ignored(d, e, i, j) /\ w[i][j] = d[i][j]
      BY <1>3, <2>1
    <3>2. d[i][j][1] < f \/ (d[i][j][1] = f /\ d[i][j][2] <= p.from)
      BY <1>6, <3>1
    <3>3. d[i][j][2] \in Nat
      BY <3>1, BitPairs
    <3>4. d[i][j][2] <= p.from => d[i][j][2] <= p.to
      BY <1>1, <3>3
    <3> QED BY <3>1, <3>2, <3>4
  <2>2. CASE ~Old(d, p, i, j)
    <3>1. w[i][j] = <<f, bit(i, j)>> /\ bit(i, j) <= p.to
      BY <1>3, <1>9, <2>2
    <3>2. w[i][j][1] = f /\ w[i][j][2] = bit(i, j)
      BY <3>1
    <3> QED BY <3>1, <3>2
  <2> QED BY <2>1, <2>2
<1>10. InPlace(w, r)
  BY <1>7, <1>8 DEF InPlace
<1>11. Behind(w, r, f, p.to)
  BY <1>9 DEF Behind
<1> QED BY <1>10, <1>11 DEF w, r, f

\* What BitsInPlace says of a frame popped follows from its octets.
LEMMA PlacedFlat ==
  ASSUME NEW d \in Seq(Octet), InPlace(d, Pad(Bits))
  PROVE  LET f == Flat(d)
         IN  /\ \A k \in 1 .. Len(f) :
                  IF f[k] \in {Junk, Clear}
                  THEN k > Len(f) - ((8 - (Bits % 8)) % 8)
                  ELSE (f[k][2] - k) % 8 = 0
             /\ \A j \in 1 .. Len(f), k \in 1 .. Len(f) :
                  j < k /\ f[k] \notin {Junk, Clear} =>
                    \/ f[j][1] < f[k][1]
                    \/ f[j][1] = f[k][1] /\ f[j][2] < f[k][2]
<1> DEFINE f == Flat(d)
           e == Pad(Bits)
           o(k) == (k - 1) \div 8 + 1
           c(k) == ((k - 1) % 8) + 1
<1>1. e \in 0 .. 7 /\ e = (8 - (Bits % 8)) % 8
  BY H263Assumption, Eights DEF Pad
<1>2. Len(d) \in Nat /\ 8 * Len(d) \in Nat
  OBVIOUS
<1>3. Len(f) = 8 * Len(d)
  BY <1>2 DEF Flat
<1>4. ASSUME NEW k \in 1 .. Len(f)
      PROVE  /\ o(k) \in 1 .. Len(d) /\ c(k) \in 1 .. 8
             /\ k = 8 * o(k) - 8 + c(k) /\ f[k] = d[o(k)][c(k)]
  <2>1. k \in 1 .. 8 * Len(d)
    BY <1>3
  <2>2. f[k] = d[o(k)][c(k)]
    BY <2>1 DEF Flat
  <2>3. o(k) \in 1 .. Len(d) /\ c(k) \in 1 .. 8 /\ k = 8 * o(k) - 8 + c(k)
    BY <1>2, <2>1
  <2> QED BY <2>2, <2>3
<1> HIDE DEF f, e, o, c
<1>8. ASSUME NEW i \in 1 .. Len(d), NEW j \in 1 .. 8
      PROVE  IF Ignored(d, e, i, j) THEN d[i][j] = Junk ELSE Sits(d[i][j], j)
  BY DEF InPlace, e
<1>5. ASSUME NEW k \in 1 .. Len(f)
      PROVE  /\ IF Ignored(d, e, o(k), c(k))
                THEN f[k] = Junk /\ k > Len(f) - e
                ELSE f[k] \notin {Junk, Clear} /\ (f[k][2] - k) % 8 = 0
  <2>1. CASE Ignored(d, e, o(k), c(k))
    <3>1. o(k) = Len(d) /\ c(k) > 8 - e
      BY <2>1 DEF Ignored
    <3>2. f[k] = Junk
      BY <1>4, <1>8, <2>1
    <3>3. k > Len(f) - e
      <4> DEFINE l == c(k)
                 m == Len(d)
      <4>1. l > 8 - e
        BY <3>1, Zenon
      <4>3. Len(f) = 8 * m
        BY <1>3, Zenon
      <4>4. k = 8 * o(k) - 8 + c(k) /\ o(k) = Len(d)
        BY <1>4, <3>1, Zenon
      <4>5. k = 8 * m - 8 + l
        BY <4>4, Zenon
      <4>2. m \in Nat /\ e \in 0 .. 7
        BY <1>1, <1>2
      <4>6. l \in 1 .. 8
        BY <1>4, Zenon
      <4> HIDE DEF l, m
      <4> QED BY <4>1, <4>2, <4>3, <4>5, <4>6
    <3> QED BY <2>1, <3>2, <3>3
  <2>2. CASE ~Ignored(d, e, o(k), c(k))
    <3>1. Sits(f[k], c(k))
      BY <1>4, <1>8, <2>2
    <3>2. f[k][1] >= 1 /\ (f[k][2] - c(k)) % 8 = 0
      BY <3>1 DEF Sits
    <3>3. f[k] \notin {Junk, Clear}
      BY <3>2 DEF Junk, Clear
    <3>4. (f[k][2] - k) % 8 = 0
      <4> DEFINE x == f[k][2]
                 m == o(k)
                 l == c(k)
      <4>1. x \in Nat
        BY <1>4, BitPairs, ZenonT(30)
      <4>2. m \in Int /\ l \in 1 .. 8 /\ k = 8 * m - 8 + l
        BY <1>4
      <4>3. (x - l) % 8 = 0
        BY <3>2
      <4> HIDE DEF x, m, l
      <4>4. x - k = (x - l) - 8 * (m - 1)
        BY <4>1, <4>2
      <4>5. (x - k) % 8 = 0
        BY <4>1, <4>2, <4>3, <4>4
      <4> QED BY <4>5 DEF x
    <3> QED BY <2>2, <3>3, <3>4
  <2> QED BY <2>1, <2>2
<1>6. ASSUME NEW j \in 1 .. Len(f), NEW k \in 1 .. Len(f), j < k,
             f[k] \notin {Junk, Clear}
      PROVE  Before(f[j], f[k])
  <2>1. o(j) < o(k) \/ (o(j) = o(k) /\ c(j) < c(k))
    <3>1. /\ o(j) \in Int /\ c(j) \in 1 .. 8 /\ j = 8 * o(j) - 8 + c(j)
          /\ o(k) \in Int /\ c(k) \in 1 .. 8 /\ k = 8 * o(k) - 8 + c(k)
      BY <1>4
    <3> DEFINE x == o(j)
               y == c(j)
               z == o(k)
               u == c(k)
    <3> HIDE DEF x, y, z, u
    <3>2. /\ x \in Int /\ y \in 1 .. 8 /\ j = 8 * x - 8 + y
          /\ z \in Int /\ u \in 1 .. 8 /\ k = 8 * z - 8 + u
      BY <3>1 DEF x, y, z, u
    <3>3. x < z \/ (x = z /\ y < u)
      BY <1>6, <3>2
    <3> QED BY <3>3 DEF x, y, z, u
  <2>2. ~Ignored(d, e, o(k), c(k))
    BY <1>5, <1>6
  <2>3. Before(d[o(j)][c(j)], d[o(k)][c(k)])
    BY <1>4, <2>1, <2>2 DEF InPlace, e
  <2> QED BY <1>4, <2>3
<1>7. \A k \in 1 .. Len(f) :
        IF f[k] \in {Junk, Clear} THEN k > Len(f) - e
        ELSE (f[k][2] - k) % 8 = 0
  BY <1>5
<1> QED BY <1>1, <1>6, <1>7 DEF f, Before

-----------------------------------------------------------------------------
\* The last bit that the network has handed on or lost: what is on its way does
\* not count.
LastFrame == IF packet # <<>> /\ packet[1].from = 0 THEN sent - 1 ELSE sent
LastBit   == IF packet = <<>> THEN at
             ELSE IF packet[1].from = 0 THEN Bits ELSE packet[1].from

\* What the device has sent, and the packet that has arrived is the last of it.
Line ==
  /\ at \in 1 .. Bits
  /\ at < Bits \/ packet # <<>> => sent >= 1
  /\ whole \subseteq 1 .. sent
  /\ packet = <<>>
       \/ \E from \in 0 .. at - 1 : packet = <<Packet(sent, from, at)>>
  /\ frame_error => ~frame_complete
  /\ frames \in Seq(Seq(Octet))

\* How the receiver comes round: in the first whole frame after a loss it knows
\* where octets end, behind the second one no error is left, and in the third
\* one it has every bit.
Resync ==
  /\ LastFrame \in whole /\ ~frame_error =>
       IF LastBit < Bits THEN ~frame_complete /\ ebit = Pad(LastBit)
       ELSE frame_complete \/ (data = <<>> /\ ebit = 0)
  /\ {LastFrame - 1, LastFrame} \subseteq whole /\ frame_error =>
       LastBit < Bits
  /\ {LastFrame - 2, LastFrame - 1, LastFrame} \subseteq whole =>
       /\ ~frame_error
       /\ LastBit < Bits \/ frame_complete => Filled(data, LastFrame, LastBit)

\* Every packet of the frame n has been handed on or lost.
Over(n) == n < LastFrame \/ (n = LastFrame /\ LastBit = Bits)

\* The third whole frame in a row has come out, or is about to.
Came ==
  \A n \in whole : Over(n) /\ {n - 2, n - 1} \subseteq whole =>
    Out(n) \/ (frame_complete /\ Filled(data, n, Bits))

\* As long as nothing is lost the receiver has what was sent, bit for bit.
Undamaged ==
  whole = 1 .. sent =>
    /\ ~frame_error
    /\ IF LastBit < Bits
       THEN ~frame_complete /\ Filled(data, LastFrame, LastBit)
            /\ ebit = Pad(LastBit)
       ELSE IF frame_complete THEN Filled(data, LastFrame, Bits)
       ELSE data = <<>> /\ ebit = 0
    /\ Len(frames) = IF LastBit = Bits /\ ~frame_complete THEN LastFrame
                     ELSE LastFrame - 1
    /\ \A i \in 1 .. Len(frames) : Is(frames[i], i)

\* Without an error every bit held, and every bit popped, is in its place.
PlacedInv ==
  /\ ~frame_error =>
       InPlace(data, ebit) /\ Behind(data, ebit, LastFrame, LastBit)
  /\ frame_complete => ebit = Pad(Bits)
  /\ \A i \in 1 .. Len(frames) : InPlace(frames[i], Pad(Bits))

WholeInv == JoinInv /\ Line /\ Resync /\ Came /\ Undamaged /\ PlacedInv

\* Where the network is.
LEMMA Cursor ==
  ASSUME JoinInv, Line
  PROVE  LastFrame \in Nat /\ LastFrame <= sent /\ LastBit \in 1 .. Bits
<1>1. sent \in Nat /\ at \in 1 .. Bits /\ Bits \in Nat
  BY H263Assumption DEF JoinInv, Types, Line
<1>2. CASE packet = <<>>
  BY <1>1, <1>2 DEF LastFrame, LastBit
<1>3. CASE packet # <<>>
  <2>1. PICK from \in 0 .. at - 1 : packet = <<Packet(sent, from, at)>>
    BY <1>3 DEF Line
  <2>2. packet[1].from = from
    BY <2>1 DEF Packet
  <2>3. sent >= 1
    BY <1>3 DEF Line
  <2> QED BY <1>1, <1>3, <2>2, <2>3 DEF LastFrame, LastBit
<1> QED BY <1>2, <1>3

\* Sending leaves the cursor where it is, or moves it past what was lost.
LEMMA Sends ==
  ASSUME JoinInv, Line, Send
  PROVE  /\ \/ /\ LastFrame' = LastFrame /\ LastBit' = LastBit
               /\ \/ sent' = sent /\ whole' = whole
                  \/ /\ sent' = sent + 1 /\ whole' = whole \union {sent + 1}
                     /\ LastFrame = sent
            \/ /\ LastFrame' = sent' /\ LastFrame' \notin whole'
               /\ LastFrame' \in Nat \ {0} /\ LastBit' \in Nat
               /\ whole' \subseteq whole
               /\ \/ LastFrame' = LastFrame /\ LastBit <= LastBit'
                  \/ LastFrame' = LastFrame + 1 /\ LastBit = Bits
         /\ Line'
         /\ UNCHANGED <<data, ebit, frame_complete, frame_error, frames>>
<1>1. /\ packet = <<>>
      /\ UNCHANGED <<data, ebit, frame_complete, frame_error, frames>>
  BY DEF Send, mdesc
<1>2. sent \in Nat /\ at \in 1 .. Bits /\ Bits \in Nat /\ Cuts \subseteq Nat
      /\ \A c \in Cuts : c < Bits
  BY H263Assumption DEF JoinInv, Types, Line
<1>3. LastFrame = sent /\ LastBit = at
  BY <1>1 DEF LastFrame, LastBit
<1>4. PICK f \in Nat, from \in Nat :
        /\ Transmit(f, from)
        /\ \/ f = sent /\ from = at /\ at < Bits
           \/ f = sent + 1 /\ from = 0 /\ at = Bits
  BY <1>2 DEF Send
<1>5. PICK to \in Cuts \union {Bits} :
        /\ sent' = f /\ from < to /\ at' = to
        /\ \/ /\ packet' = <<Packet(f, from, to)>>
              /\ whole' = IF from = 0 THEN whole \union {f} ELSE whole
           \/ whole' = whole \ {f} /\ UNCHANGED packet
  BY <1>4 DEF Transmit
<1>6. to \in 1 .. Bits /\ f >= 1
  BY <1>2, <1>4, <1>5 DEF Line
<1>7. CASE /\ packet' = <<Packet(f, from, to)>>
           /\ whole' = IF from = 0 THEN whole \union {f} ELSE whole
  <2>1. packet' # <<>> /\ packet'[1].from = from
    BY <1>7 DEF Packet
  <2>2. /\ LastFrame' = IF from = 0 THEN f - 1 ELSE f
        /\ LastBit' = IF from = 0 THEN Bits ELSE from
    BY <1>5, <2>1 DEF LastFrame, LastBit
  <2>3. from \in 0 .. at' - 1 /\ packet' = <<Packet(sent', from, at')>>
    BY <1>2, <1>4, <1>5, <1>6, <1>7
  <2>4. whole' \subseteq 1 .. sent'
    BY <1>2, <1>4, <1>5, <1>6, <1>7 DEF Line
  <2>5. Line'
    BY <1>1, <1>5, <1>6, <2>3, <2>4 DEF Line
  <2> QED BY <1>1, <1>2, <1>3, <1>4, <1>5, <1>7, <2>2, <2>5
<1>8. CASE whole' = whole \ {f} /\ UNCHANGED packet
  <2>1. LastFrame' = f /\ LastBit' = to
    BY <1>1, <1>5, <1>8 DEF LastFrame, LastBit
  <2>2. whole' \subseteq 1 .. sent'
    BY <1>2, <1>4, <1>5, <1>8 DEF Line
  <2>3. Line'
    BY <1>1, <1>5, <1>6, <1>8, <2>2 DEF Line
  <2> QED BY <1>1, <1>2, <1>3, <1>4, <1>5, <1>6, <1>8, <2>1, <2>3
<1> QED BY <1>5, <1>7, <1>8

\* Bits sent before some place were sent before every later one.
LEMMA BehindLater ==
  ASSUME NEW d \in Seq(Octet), NEW e, NEW n \in Nat, NEW b \in Nat,
         NEW m \in Nat, NEW c \in Nat, Behind(d, e, n, b),
         (m = n /\ b <= c) \/ m = n + 1
  PROVE  Behind(d, e, m, c)
<1> SUFFICES ASSUME NEW i \in 1 .. Len(d), NEW j \in 1 .. 8,
                    ~Ignored(d, e, i, j)
             PROVE  \/ d[i][j][1] < m
                    \/ d[i][j][1] = m /\ d[i][j][2] <= c
  BY DEF Behind
<1> DEFINE x == d[i][j][1]
           y == d[i][j][2]
<1>1. x \in Nat /\ y \in Nat
  BY BitPairs
<1>2. x < n \/ (x = n /\ y <= b)
  BY DEF Behind
<1> HIDE DEF x, y
<1>3. x < m \/ (x = m /\ y <= c)
  BY <1>1, <1>2
<1> QED BY <1>3 DEF x, y

\* What is sent touches no bit the receiver has; what is lost ends its frame.
LEMMA SendKeeps ==
  ASSUME WholeInv, Send
  PROVE  Line' /\ Resync' /\ Came' /\ Undamaged' /\ PlacedInv'
<1> DEFINE F == LastFrame
           B == LastBit
<1>1. F \in Nat /\ F <= sent /\ B \in 1 .. Bits /\ sent \in Nat
      /\ whole \subseteq 1 .. sent /\ Bits \in Nat
  BY Cursor, H263Assumption DEF WholeInv, JoinInv, Types, Line
<1>2. Line' /\ UNCHANGED <<data, ebit, frame_complete, frame_error, frames>>
  BY Sends DEF WholeInv
<1>3. CASE /\ LastFrame' = F /\ LastBit' = B
           /\ \/ sent' = sent /\ whole' = whole
              \/ /\ sent' = sent + 1 /\ whole' = whole \union {sent + 1}
                 /\ F = sent
  <2>1. /\ \A n \in Int : n <= F /\ n \in whole' => n \in whole
        /\ whole' = 1 .. sent' => whole = 1 .. sent
        /\ whole' \subseteq Nat
    <3>1. CASE sent' = sent /\ whole' = whole
      BY <1>1, <3>1
    <3>2. CASE /\ sent' = sent + 1 /\ whole' = whole \union {sent + 1}
               /\ F = sent
      <4>1. \A n \in Int : n <= F /\ n \in whole' => n \in whole
        BY <1>1, <3>2
      <4>2. whole' \subseteq Nat
        BY <1>1, <3>2
      <4>3. ASSUME whole' = 1 .. sent' PROVE whole = 1 .. sent
        <5>1. \A n \in 1 .. sent : n \in whole
          BY <1>1, <3>2, <4>3
        <5> QED BY <1>1, <5>1
      <4> QED BY <4>1, <4>2, <4>3
    <3> QED BY <1>3, <3>1, <3>2
  <2>2. F - 1 \in Int /\ F - 2 \in Int /\ F - 1 <= F /\ F - 2 <= F /\ F \in Int
    BY <1>1
  <2>3. Resync'
    <3>1. /\ F \in whole' => F \in whole
          /\ F - 1 \in whole' => F - 1 \in whole
          /\ F - 2 \in whole' => F - 2 \in whole
      BY <2>1, <2>2
    <3> QED BY <1>2, <1>3, <3>1 DEF WholeInv, Resync, Filled
  <2>4. Came'
    <3> SUFFICES ASSUME NEW n \in whole', Over(n)',
                        n - 2 \in whole', n - 1 \in whole'
                 PROVE  Out(n)' \/ (frame_complete' /\ Filled(data', n, Bits))
      BY DEF Came
    <3>1. Over(n)
      BY <1>3 DEF Over
    <3>2. n \in Nat
      BY <2>1
    <3>3. n <= F
      BY <1>1, <3>1, <3>2 DEF Over
    <3>4. n - 1 \in Int /\ n - 2 \in Int /\ n - 1 <= F /\ n - 2 <= F
          /\ F \in Int
      BY <1>1, <3>2, <3>3
    <3>5. n \in whole /\ n - 1 \in whole /\ n - 2 \in whole
      BY <2>1, <3>2, <3>3, <3>4
    <3>6. Out(n) \/ (frame_complete /\ Filled(data, n, Bits))
      BY <3>1, <3>5 DEF WholeInv, Came
    <3> QED BY <1>2, <3>6 DEF Out
  <2>5. Undamaged'
    BY <1>2, <1>3, <2>1 DEF WholeInv, Undamaged, Filled
  <2>6. PlacedInv'
    BY <1>2, <1>3 DEF WholeInv, PlacedInv
  <2> QED BY <1>2, <2>3, <2>4, <2>5, <2>6
<1>4. CASE /\ LastFrame' = sent' /\ LastFrame' \notin whole'
           /\ LastFrame' \in Nat \ {0} /\ LastBit' \in Nat
           /\ whole' \subseteq whole
           /\ \/ LastFrame' = F /\ B <= LastBit'
              \/ LastFrame' = F + 1 /\ B = Bits
  <2>1. LastFrame' \in Nat /\ LastBit' \in Nat
    BY <1>4
  <2>2. Resync'
    BY <1>4 DEF Resync
  <2>3. Came'
    <3> SUFFICES ASSUME NEW n \in whole', Over(n)',
                        n - 2 \in whole', n - 1 \in whole'
                 PROVE  Out(n)' \/ (frame_complete' /\ Filled(data', n, Bits))
      BY DEF Came
    <3>1. n \in whole /\ n - 1 \in whole /\ n - 2 \in whole /\ n \in Nat
      BY <1>1, <1>4
    <3>2. n < LastFrame'
      BY <1>4 DEF Over
    <3>3. n < F \/ (n = F /\ B = Bits)
      BY <1>1, <1>4, <3>1, <3>2
    <3>4. Out(n) \/ (frame_complete /\ Filled(data, n, Bits))
      BY <3>1, <3>3 DEF WholeInv, Came, Over
    <3> QED BY <1>2, <3>4 DEF Out
  <2>4. Undamaged'
    BY <1>4, <2>1 DEF Undamaged
  <2>5. PlacedInv'
    <3>1. ~frame_error =>
            InPlace(data, ebit) /\ Behind(data, ebit, LastFrame', LastBit')
      BY <1>1, <1>4, <2>1, BehindLater
      DEF WholeInv, PlacedInv, JoinInv, Types
    <3> QED BY <1>2, <3>1 DEF WholeInv, PlacedInv
  <2> QED BY <1>2, <2>2, <2>3, <2>4, <2>5
<1> QED BY <1>3, <1>4, Sends DEF WholeInv

\* What arrives goes on where the cursor is.
LEMMA Arrives ==
  ASSUME JoinInv, Line, rtp_recv
  PROVE  /\ packet' = <<>> /\ LastFrame' = sent /\ LastBit' = at
         /\ UNCHANGED <<sent, at, frames, whole>>
         /\ \E p \in PacketSet :
              /\ packet = <<p>> /\ p.frame = sent /\ p.to = at
              /\ (p.m <=> at = Bits) /\ p.from \in 0 .. at - 1
              /\ sent \in Nat \ {0} /\ Ebit(p) = Pad(at)
              /\ \/ p.from = 0 /\ LastFrame = sent - 1 /\ LastBit = Bits
                 \/ p.from # 0 /\ LastFrame = sent /\ LastBit = p.from
<1>1. packet # <<>> /\ packet' = <<>> /\ UNCHANGED <<sent, at, frames, whole>>
  BY DEF rtp_recv
<1>2. LastFrame' = sent /\ LastBit' = at
  BY <1>1 DEF LastFrame, LastBit
<1>3. PICK from \in 0 .. at - 1 : packet = <<Packet(sent, from, at)>>
  BY <1>1 DEF Line
<1> DEFINE p == Packet(sent, from, at)
<1>4. sent \in Nat \ {0} /\ at \in Nat
  BY <1>1 DEF Line, JoinInv, Types
<1>5. /\ p.frame = sent /\ p.to = at /\ p.from = from /\ (p.m <=> at = Bits)
      /\ p \in PacketSet
  <2>1. p.frame = sent /\ p.to = at /\ p.from = from /\ p.m = (at = Bits)
        /\ p \in PacketSet
    BY <1>3, <1>4 DEF Packet, PacketSet
  <2>2. p.m <=> at = Bits
    BY <2>1, Zenon
  <2> HIDE DEF p
  <2> QED BY <2>1, <2>2
<1>6. Ebit(p) = Pad(at)
  BY <1>5 DEF Ebit, Pad
<1>7. packet[1] = p
  BY <1>3
<1>8. \/ from = 0 /\ LastFrame = sent - 1 /\ LastBit = Bits
      \/ from # 0 /\ LastFrame = sent /\ LastBit = from
  BY <1>1, <1>5, <1>7, Zenon DEF LastFrame, LastBit
<1> QED BY <1>1, <1>2, <1>3, <1>4, <1>5, <1>6, <1>8

\* The numbers of bits to be ignored on both sides of a cut make an octet.
LEMMA PadFits ==
  ASSUME NEW p \in PacketSet
  PROVE  Fits(Pad(p.from), p)
<1>1. p.from \in Nat
  BY DEF PacketSet
<1>2. Pad(p.from) = (8 - (p.from % 8)) % 8 /\ Sbit(p) = p.from % 8
  BY DEF Pad, Sbit
<1> DEFINE r == p.from % 8
<1>3. r \in {0, 1, 2, 3, 4, 5, 6, 7}
  BY <1>1
<1> HIDE DEF r
<1>4. (((8 - r) % 8) + r) % 8 = 0
  BY <1>3
<1> QED BY <1>2, <1>4 DEF Fits, r

\* Nothing yet.
LEMMA FilledNone ==
  ASSUME NEW n PROVE Filled(<<>>, n, 0)
BY DEF Filled, Octets

\* A packet that the receiver is ready for completes what it has.
LEMMA ReadyFills ==
  ASSUME NEW p \in PacketSet, data \in Seq(Octet), packet = <<p>>,
         rtp_recv, PopsAlways, ~frame_error, ebit = Pad(p.from),
         Filled(data, p.frame, p.from)
  PROVE  /\ Fits(ebit, p) /\ ~frame_error' /\ Filled(data', p.frame, p.to)
         /\ ebit' = Ebit(p) /\ (frame_complete' <=> p.m)
<1>1. Fits(ebit, p)
  BY Follows DEF Filled
<1>2. append_h263(p, data)
  BY DEF rtp_recv
<1>3. /\ data' = Join(data, ebit, p) /\ ebit' = Ebit(p)
      /\ frame_complete' = p.m /\ frame_error' = frame_error
  BY <1>1, <1>2 DEF append_h263
<1>4. Filled(Join(data, ebit, p), p.frame, p.to)
  BY FilledJoin
<1> QED BY <1>1, <1>3, <1>4

\* The packet received is one of three: skipped after an error, one that does
\* not fit and raises the error, or one that is joined.
LEMMA RecvKeeps ==
  ASSUME PopsAlways, WholeInv, rtp_recv
  PROVE  Line' /\ Resync' /\ Came' /\ Undamaged' /\ PlacedInv'
<1> USE DEF WholeInv
<1>1. PICK p \in PacketSet :
        /\ packet = <<p>> /\ p.frame = sent /\ p.to = at
        /\ (p.m <=> at = Bits) /\ p.from \in 0 .. at - 1
        /\ sent \in Nat \ {0} /\ Ebit(p) = Pad(at)
        /\ \/ p.from = 0 /\ LastFrame = sent - 1 /\ LastBit = Bits
           \/ p.from # 0 /\ LastFrame = sent /\ LastBit = p.from
  BY Arrives
<1>2. /\ packet' = <<>> /\ LastFrame' = sent /\ LastBit' = at
      /\ UNCHANGED <<sent, at, frames, whole>>
  BY Arrives
<1>3. /\ ~frame_complete
      /\ IF frame_error THEN Skip(p) ELSE append_h263(p, data)
  BY <1>1 DEF rtp_recv
<1>4. at \in 1 .. Bits /\ Bits \in Nat /\ data \in Seq(Octet)
      /\ ebit \in 0 .. 7 /\ whole \subseteq 1 .. sent
  BY H263Assumption DEF JoinInv, Types, Line
<1>5. p.from < Bits /\ Pad(0) = 0
  BY <1>1, <1>4 DEF Pad
<1>6. ASSUME ~frame_error, {sent - 1, sent} \subseteq whole
      PROVE  ebit = Pad(p.from)
  <2>1. CASE p.from = 0 /\ LastFrame = sent - 1 /\ LastBit = Bits
    BY <1>3, <1>4, <1>5, <1>6, <2>1 DEF Resync
  <2>2. CASE p.from # 0 /\ LastFrame = sent /\ LastBit = p.from
    BY <1>5, <1>6, <2>2 DEF Resync
  <2> QED BY <1>1, <2>1, <2>2
<1>7. ASSUME ~frame_error, {sent - 1, sent} \subseteq whole
      PROVE  Fits(ebit, p)
  <2>1. ebit = Pad(p.from)
    BY <1>6, <1>7
  <2>2. p.from \in Nat
    BY DEF PacketSet
  <2> QED BY <2>1, <2>2, PadFits
<1>8. ASSUME {sent - 2, sent - 1, sent} \subseteq whole
      PROVE  ~frame_error /\ Filled(data, sent, p.from)
  <2>1. CASE p.from = 0 /\ LastFrame = sent - 1 /\ LastBit = Bits
    <3>1. sent - 1 - 1 = sent - 2
      BY <1>1
    <3>2. ~frame_error
      BY <1>4, <1>8, <2>1, <3>1 DEF Resync
    <3>3. data = <<>>
      BY <1>3, <1>4, <1>8, <2>1, <3>2 DEF Resync
    <3> QED BY <2>1, <3>2, <3>3, FilledNone
  <2>2. CASE p.from # 0 /\ LastFrame = sent /\ LastBit = p.from
    BY <1>5, <1>8, <2>2 DEF Resync
  <2> QED BY <1>1, <2>1, <2>2
<1>9. ASSUME whole = 1 .. sent
      PROVE  /\ ~frame_error /\ Filled(data, sent, p.from)
             /\ ebit = Pad(p.from) /\ Len(frames) = sent - 1
             /\ \A i \in 1 .. Len(frames) : Is(frames[i], i)
  <2>1. CASE p.from = 0 /\ LastFrame = sent - 1 /\ LastBit = Bits
    <3>1. /\ ~frame_error /\ data = <<>> /\ ebit = 0 /\ Len(frames) = sent - 1
          /\ \A i \in 1 .. Len(frames) : Is(frames[i], i)
      BY <1>3, <1>4, <1>9, <2>1 DEF Undamaged
    <3> QED BY <1>5, <2>1, <3>1, FilledNone
  <2>2. CASE p.from # 0 /\ LastFrame = sent /\ LastBit = p.from
    BY <1>5, <1>9, <2>2, <1>4 DEF Undamaged
  <2> QED BY <1>1, <2>1, <2>2
<1>10. ASSUME {sent - 2, sent - 1, sent} \subseteq whole \/ whole = 1 .. sent
       PROVE  /\ ~frame_error' /\ Filled(data', sent, at) /\ ebit' = Pad(at)
              /\ (frame_complete' <=> at = Bits)
  <2>1. ~frame_error /\ Filled(data, sent, p.from) /\ ebit = Pad(p.from)
    BY <1>6, <1>8, <1>9, <1>10
  <2> QED BY <1>1, <1>4, <2>1, ReadyFills
<1>11. /\ frame_error' \in BOOLEAN /\ frame_complete' \in BOOLEAN
       /\ frame_error' => ~frame_complete'
       /\ \/ /\ frame_error /\ data' = <<>> /\ frame_complete' = FALSE
             /\ (frame_error' <=> at # Bits) /\ (at = Bits => ebit' = 0)
          \/ /\ ~frame_error /\ ~Fits(ebit, p) /\ frame_error'
             /\ frame_complete' = FALSE
          \/ /\ ~frame_error /\ Fits(ebit, p) /\ ~frame_error'
             /\ data' = Join(data, ebit, p) /\ ebit' = Pad(at)
             /\ (frame_complete' <=> at = Bits)
  <2>1. p.m \in BOOLEAN /\ frame_error \in BOOLEAN
        /\ frame_complete \in BOOLEAN
    BY DEF PacketSet, JoinInv, Types
  <2>2. CASE frame_error
    <3>1. /\ data' = <<>> /\ frame_error' = ~p.m
          /\ ebit' = (IF p.m THEN 0 ELSE ebit)
          /\ frame_complete' = frame_complete
      BY <1>3, <2>2 DEF Skip
    <3>2. frame_error' <=> ~p.m
      BY <3>1, Zenon
    <3>3. frame_complete' = FALSE
      BY <1>3, <2>1, <3>1
    <3>4. frame_error' \in BOOLEAN
      BY <3>1, Zenon
    <3> QED BY <1>1, <2>2, <3>1, <3>2, <3>3, <3>4
  <2>3. CASE ~frame_error /\ ~Fits(ebit, p)
    BY <1>3, <2>3 DEF append_h263
  <2>4. CASE ~frame_error /\ Fits(ebit, p)
    <3>1. /\ data' = Join(data, ebit, p) /\ ebit' = Ebit(p)
          /\ frame_complete' = p.m /\ frame_error' = frame_error
      BY <1>3, <2>4 DEF append_h263
    <3> QED BY <1>1, <2>1, <2>4, <3>1
  <2> QED BY <2>2, <2>3, <2>4
<1>12. Line'
  BY <1>1, <1>2, <1>4, <1>11 DEF Line
<1>13. Resync'
  <2>1. sent \in whole /\ ~frame_error' =>
          IF at < Bits THEN ~frame_complete' /\ ebit' = Pad(at)
          ELSE frame_complete' \/ (data' = <<>> /\ ebit' = 0)
    <3>1. CASE frame_error
      BY <1>4, <1>11, <3>1
    <3>2. CASE ~frame_error
      BY <1>4, <1>11, <3>2
    <3> QED BY <3>1, <3>2
  <2>2. {sent - 1, sent} \subseteq whole /\ frame_error' => at < Bits
    BY <1>4, <1>7, <1>11
  <2> QED BY <1>2, <1>10, <2>1, <2>2 DEF Resync, Filled
<1>14. Came'
  <2> SUFFICES ASSUME NEW n \in whole, Over(n)',
                      n - 2 \in whole, n - 1 \in whole
               PROVE  Out(n)' \/ (frame_complete' /\ Filled(data', n, Bits))
    BY <1>2 DEF Came, Filled
  <2>1. n < sent \/ (n = sent /\ at = Bits)
    BY <1>2 DEF Over
  <2>2. CASE n < sent
    <3>1. Over(n)
      BY <1>1, <1>4, <2>2 DEF Over
    <3>2. Out(n)
      BY <1>3, <3>1 DEF Came
    <3> QED BY <1>2, <3>2 DEF Out
  <2>3. CASE n = sent /\ at = Bits
    BY <1>10, <2>3
  <2> QED BY <2>1, <2>2, <2>3
<1>15. Undamaged'
  <2> SUFFICES ASSUME whole' = 1 .. sent'
               PROVE  /\ ~frame_error'
                      /\ IF LastBit' < Bits
                         THEN ~frame_complete' /\ Filled(data', LastFrame',
                                                          LastBit')
                              /\ ebit' = Pad(LastBit')
                         ELSE IF frame_complete'
                         THEN Filled(data', LastFrame', Bits)
                         ELSE data' = <<>> /\ ebit' = 0
                      /\ Len(frames') = IF LastBit' = Bits /\ ~frame_complete'
                                        THEN LastFrame' ELSE LastFrame' - 1
                      /\ \A i \in 1 .. Len(frames') : Is(frames'[i], i)
    BY Zenon DEF Undamaged
  <2>1. whole = 1 .. sent
    BY <1>2
  <2>2. /\ ~frame_error' /\ Filled(data', sent, at) /\ ebit' = Pad(at)
        /\ (frame_complete' <=> at = Bits)
    BY <1>10, <2>1
  <2>3. /\ Len(frames) = sent - 1
        /\ \A i \in 1 .. Len(frames) : Is(frames[i], i)
    BY <1>9, <2>1
  <2>4. at < Bits \/ (at = Bits /\ ~(at < Bits))
    BY <1>4
  <2>5. frames' = frames /\ LastFrame' = sent /\ LastBit' = at
    BY <1>2
  <2>6. CASE at < Bits
    <3>1. LastBit' < Bits /\ LastBit' # Bits /\ ~frame_complete'
      BY <1>4, <2>2, <2>5, <2>6
    <3>2. Len(frames') = LastFrame' - 1
      BY <2>3, <2>5
    <3>3. \A i \in 1 .. Len(frames') : Is(frames'[i], i)
      BY <2>3, <2>5
    <3> QED BY <2>2, <2>5, <3>1, <3>2, <3>3
  <2>7. CASE at = Bits
    <3>1. ~(LastBit' < Bits) /\ frame_complete'
      BY <1>4, <2>2, <2>5, <2>7
    <3>2. Len(frames') = LastFrame' - 1
      BY <2>3, <2>5
    <3>3. \A i \in 1 .. Len(frames') : Is(frames'[i], i)
      BY <2>3, <2>5
    <3> QED BY <2>2, <2>5, <2>7, <3>1, <3>2, <3>3
  <2> QED BY <2>4, <2>6, <2>7
<1>16. PlacedInv'
  <2>1. CASE frame_error'
    BY <1>2, <1>11, <2>1 DEF PlacedInv
  <2>2. CASE frame_error /\ ~frame_error'
    <3>1. data' = <<>> /\ ~frame_complete' /\ frames' = frames
      BY <1>2, <1>11, <2>2
    <3>2. InPlace(<<>>, ebit') /\ Behind(<<>>, ebit', LastFrame', LastBit')
      BY DEF InPlace, Behind
    <3> QED BY <2>2, <3>1, <3>2 DEF PlacedInv
  <2>3. CASE ~frame_error /\ ~frame_error'
    <3>1. /\ Fits(ebit, p) /\ data' = Join(data, ebit, p) /\ ebit' = Pad(at)
          /\ frame_complete' => at = Bits
      BY <1>11, <2>3
    <3>2. Sbit(p) # 0 => data # <<>>
      BY <2>3, <3>1, FitsNeedsEbit DEF JoinInv, JoinsSomething
    <3>3. InPlace(data, ebit) /\ Behind(data, ebit, LastFrame, LastBit)
      BY <2>3 DEF PlacedInv
    <3>4. /\ LastFrame \in Nat /\ LastBit \in Nat
          /\ LastFrame < p.frame
               \/ (LastFrame = p.frame /\ LastBit <= p.from)
      BY <1>1, <1>4
    <3>5. /\ InPlace(Join(data, ebit, p), Ebit(p))
          /\ Behind(Join(data, ebit, p), Ebit(p), p.frame, p.to)
      BY <1>1, <1>4, <3>1, <3>2, <3>3, <3>4, JoinPlaced, SMTT(30)
    <3> QED BY <1>1, <1>2, <3>1, <3>5 DEF PlacedInv
  <2> QED BY <2>1, <2>2, <2>3
<1> QED BY <1>12, <1>13, <1>14, <1>15, <1>16

\* The frame popped is the one the cursor is at the end of.
LEMMA PopKeeps ==
  ASSUME WholeInv, rtp_pop_frame
  PROVE  Line' /\ Resync' /\ Came' /\ Undamaged' /\ PlacedInv'
<1> USE DEF WholeInv
<1> DEFINE F == LastFrame
           B == LastBit
<1>1. /\ frame_complete /\ ~frame_complete' /\ frames' = Append(frames, data)
      /\ data' = <<>> /\ ebit' = 0
      /\ UNCHANGED <<sent, at, packet, frame_error, whole>>
  BY DEF rtp_pop_frame
<1>2. LastFrame' = F /\ LastBit' = B
  BY <1>1 DEF LastFrame, LastBit
<1>3. ~frame_error /\ ~frame_error'
  BY <1>1 DEF Line
<1>4. /\ F \in Nat /\ B \in 1 .. Bits /\ Bits \in Nat
      /\ frames \in Seq(Seq(Octet)) /\ data \in Seq(Octet)
  BY Cursor, H263Assumption DEF JoinInv, Types, Line
<1>5. /\ Len(frames') = Len(frames) + 1 /\ Len(frames) \in Nat
      /\ frames' \in Seq(Seq(Octet))
      /\ \A i \in 1 .. Len(frames) : frames'[i] = frames[i]
      /\ frames'[Len(frames) + 1] = data
  BY <1>1, <1>4
<1>6. Line'
  BY <1>1, <1>5 DEF Line
<1>7. Resync'
  <2>1. F \in whole => B = Bits
    BY <1>1, <1>3, <1>4 DEF Resync
  <2> QED BY <1>1, <1>2, <1>3, <1>4, <2>1 DEF Resync
<1>8. Came'
  <2> SUFFICES ASSUME NEW n \in whole, Over(n)',
                      n - 2 \in whole, n - 1 \in whole
               PROVE  Out(n)'
    BY <1>1 DEF Came
  <2>1. Over(n)
    BY <1>2 DEF Over
  <2>2. CASE Out(n)
    <3>1. PICK i \in 1 .. Len(frames) : Is(frames[i], n)
      BY <2>2 DEF Out
    <3>2. i \in 1 .. Len(frames') /\ Is(frames'[i], n)
      BY <1>5, <3>1
    <3> QED BY <3>2 DEF Out
  <2>3. CASE Filled(data, n, Bits)
    <3>1. n \in Nat
      BY DEF JoinInv, Types, Line
    <3>2. Is(data, n)
      BY <1>4, <2>3, <3>1, FilledIs
    <3>3. /\ Len(frames) + 1 \in 1 .. Len(frames')
          /\ Is(frames'[Len(frames) + 1], n)
      BY <1>5, <3>2
    <3> QED BY <3>3 DEF Out
  <2> QED BY <2>1, <2>2, <2>3 DEF Came
<1>9. Undamaged'
  <2> SUFFICES ASSUME whole = 1 .. sent
               PROVE  /\ B = Bits /\ Len(frames') = F
                      /\ \A i \in 1 .. Len(frames') : Is(frames'[i], i)
    BY <1>1, <1>2, <1>3, <1>4 DEF Undamaged
  <2>1. B = Bits
    BY <1>1, <1>4 DEF Undamaged
  <2>2. /\ Filled(data, F, Bits) /\ Len(frames) = F - 1
        /\ \A i \in 1 .. Len(frames) : Is(frames[i], i)
    BY <1>1, <1>4, <2>1 DEF Undamaged
  <2>3. Is(data, F)
    BY <1>4, <2>2, FilledIs
  <2>4. Len(frames') = F
    BY <1>4, <1>5, <2>2
  <2>5. ASSUME NEW i \in 1 .. Len(frames') PROVE Is(frames'[i], i)
    <3>1. i \in 1 .. Len(frames) \/ (i = F /\ i = Len(frames) + 1)
      BY <1>4, <1>5, <2>2, <2>4
    <3> QED BY <1>5, <2>2, <2>3, <3>1
  <2> QED BY <2>1, <2>4, <2>5
<1>10. PlacedInv'
  <2>1. InPlace(<<>>, 0) /\ Behind(<<>>, 0, F, B)
    BY DEF InPlace, Behind
  <2>2. InPlace(data, Pad(Bits))
    BY <1>1, <1>3 DEF PlacedInv
  <2>3. ASSUME NEW i \in 1 .. Len(frames') PROVE InPlace(frames'[i], Pad(Bits))
    <3>1. i \in 1 .. Len(frames) \/ i = Len(frames) + 1
      BY <1>5
    <3> QED BY <1>5, <2>2, <3>1 DEF PlacedInv
  <2> QED BY <1>1, <1>2, <2>1, <2>3 DEF PlacedInv
<1> QED BY <1>6, <1>7, <1>8, <1>9, <1>10

\* Nothing has been sent.
LEMMA InitWhole == Init => WholeInv
<1> SUFFICES ASSUME Init PROVE WholeInv
  OBVIOUS
<1> USE DEF Init
<1>1. Bits \in Nat \ {0}
  BY H263Assumption
<1>2. LastFrame = 0 /\ LastBit = Bits
  BY DEF LastFrame, LastBit
<1>3. JoinInv
  BY InitJoins
<1>4. Line
  BY <1>1 DEF Line
<1>5. Resync
  BY <1>1, <1>2 DEF Resync
<1>6. Came
  BY DEF Came
<1>7. Undamaged
  BY <1>1, <1>2 DEF Undamaged
<1>8. PlacedInv
  BY DEF PlacedInv, InPlace, Behind
<1> QED BY <1>3, <1>4, <1>5, <1>6, <1>7, <1>8 DEF WholeInv

\* The parts together are inductive.
LEMMA NextWhole == PopsAlways /\ WholeInv /\ [Next]_vars => WholeInv'
<1> SUFFICES ASSUME PopsAlways, WholeInv, [Next]_vars PROVE WholeInv'
  OBVIOUS
<1>1. JoinInv'
  BY NextJoins DEF WholeInv
<1>2. CASE Send
  BY <1>1, <1>2, SendKeeps DEF WholeInv
<1>3. CASE rtp_recv
  BY <1>1, <1>3, RecvKeeps DEF WholeInv
<1>4. CASE rtp_pop_frame
  BY <1>1, <1>4, PopKeeps DEF WholeInv
<1>5. CASE UNCHANGED vars
  <2>1. /\ UNCHANGED <<sent, at, packet, data, ebit, frame_complete>>
        /\ UNCHANGED <<frame_error, frames, whole>>
    BY <1>5 DEF vars, mdesc
  <2>2. LastFrame' = LastFrame /\ LastBit' = LastBit
    BY <2>1 DEF LastFrame, LastBit
  <2>3. Line' /\ PlacedInv'
    BY <2>1, <2>2 DEF WholeInv, Line, PlacedInv
  <2>4. Resync' /\ Undamaged'
    BY <2>1, <2>2 DEF WholeInv, Resync, Undamaged
  <2>5. Came'
    BY <2>1, <2>2 DEF WholeInv, Came, Over, Out
  <2> QED BY <1>1, <2>3, <2>4, <2>5 DEF WholeInv
<1> QED BY <1>2, <1>3, <1>4, <1>5 DEF Next, Finished

\* So they always hold.
LEMMA AlwaysWhole ==
  ASSUME PopsAlways PROVE Spec => []WholeInv
<1>1. PopsAlways
  OBVIOUS
<1>2. WholeInv /\ [Next]_vars => WholeInv'
  BY <1>1, NextWhole
<1> QED BY <1>2, InitWhole, PTL DEF Spec

\* As long as nothing is lost the frames come out bit for bit and none is
\* missing, wherever the device cuts them (append_h263, the two masks).
THEOREM FramesComeOutWhole ==
  ASSUME PopsAlways PROVE Spec => []FramesWhole
<1>1. WholeInv => FramesWhole
  BY DEF WholeInv, Undamaged, FramesWhole
<1> QED BY <1>1, AlwaysWhole, PTL

\* A loss costs at most the two frames behind it: the third frame that arrives
\* whole after it comes out (append_h263).
THEOREM LossCostsTwoFrames ==
  ASSUME PopsAlways PROVE Spec => []Recovers
<1>1. WholeInv => Recovers
  <2> SUFFICES ASSUME WholeInv, NEW n \in Handled \ 1 .. 2,
                      n - 2 .. n \subseteq whole
               PROVE  Out(n)
    BY DEF Recovers
  <2>1. /\ n \in 1 .. sent /\ packet = <<>> /\ ~frame_complete
        /\ (n = sent => at = Bits) /\ sent \in Nat
    BY DEF Handled, WholeInv, JoinInv, Types
  <2>2. n \in whole /\ {n - 2, n - 1} \subseteq whole
    BY <2>1
  <2>3. LastFrame = sent /\ LastBit = at
    BY <2>1 DEF LastFrame, LastBit
  <2>4. Over(n)
    BY <2>1, <2>3 DEF Over
  <2> QED BY <2>1, <2>2, <2>4 DEF WholeInv, Came
<1> QED BY <1>1, AlwaysWhole, PTL

\* Whatever is lost, every bit of a frame that comes out sits in its column, in
\* the order of sending, and no octet is joined to nothing (the check of
\* sbit + ebit in append_h263).
THEOREM BitsStayInPlace ==
  ASSUME PopsAlways PROVE Spec => []BitsInPlace
<1>1. WholeInv => BitsInPlace
  <2> SUFFICES ASSUME WholeInv PROVE BitsInPlace
    OBVIOUS
  <2>1. JoinsSomething
    BY DEF WholeInv, JoinInv
  <2>2. ASSUME NEW i \in 1 .. Len(frames)
        PROVE  frames[i] \in Seq(Octet) /\ InPlace(frames[i], Pad(Bits))
    BY DEF WholeInv, Line, PlacedInv
  <2> QED BY <2>1, <2>2, PlacedFlat DEF BitsInPlace
<1> QED BY <1>1, AlwaysWhole, PTL
=============================================================================
