--------------------------- MODULE RtpMergeProof ---------------------------
(***************************************************************************)
(* Proofs about RtpMerge: what a frame is when the network behaves, what   *)
(* it still is when the network does not, and that a loss costs no other   *)
(* frame.  Each of the three has an inductive invariant of its own, over   *)
(* the types of the state.                                                 *)
(***************************************************************************)
EXTENDS RtpMerge, SequenceTheorems, TLAPS

Octet == Nat \X Nat
AnyPacket == {pkt \in [kind : {"nal", "stap", "fu", "other"},
                       nal : Nat \ {0}, part : Nat] :
                /\ pkt.kind = "fu" => pkt.part \in 1 .. Parts
                /\ pkt.kind = "stap" => pkt.part # 0}

MergeTypes ==
  /\ nal \in Nat \ {0} /\ part \in {0} \union 2 .. Parts
  /\ net \in Seq(AnyPacket) /\ taken \in Seq(AnyPacket)
  /\ data \in Seq(Octet) /\ frames \in Seq(Seq(Octet))
  /\ frame_complete \in BOOLEAN
  /\ faults \in [Faults -> Nat]

\* The starter and the first p parts of the NAL unit n.
Beginning(n, p) ==
  [i \in 1 .. Len(Starter) + p |->
     IF i <= Len(Starter) THEN NAL_START_FRAME ELSE <<n, i - Len(Starter) - 1>>]

\* What the device sends before and after a packet: a NAL unit, and the
\* fragment of it that comes next, 0 for the beginning.
Before(pkt) == IF pkt.kind = "fu" /\ pkt.part # 1 THEN <<pkt.nal, pkt.part>>
                                                  ELSE <<pkt.nal, 0>>
After(pkt) ==
  IF pkt.kind = "fu" /\ pkt.part # Parts THEN <<pkt.nal, pkt.part + 1>>
  ELSE IF pkt.kind = "stap" THEN <<pkt.nal + pkt.part, 0>>
  ELSE <<pkt.nal + 1, 0>>

\* How far the receiver is: what the next packet has to bring.
Expected(pos) ==
  IF frame_complete
  THEN data = Frame(Len(frames) + 1) /\ pos = <<Len(frames) + 2, 0>>
  ELSE IF data = <<>> THEN pos = <<Len(frames) + 1, 0>>
  ELSE \E p \in 2 .. Parts : /\ data = Beginning(Len(frames) + 1, p)
                             /\ pos = <<Len(frames) + 1, p>>

\* Nothing has gone wrong: the packets in the network go from where the
\* receiver is to where the device is, without a gap.
Seamless ==
  /\ \A i \in 1 .. Len(net) : net[i].kind # "other"
  /\ \A i \in 1 .. Len(net) - 1 : After(net[i]) = Before(net[i + 1])
  /\ IF net = <<>> THEN Expected(<<nal, part>>)
     ELSE Expected(Before(net[1])) /\ After(net[Len(net)]) = <<nal, part>>

UnitsInv == FramesAreUnits /\ (Undisturbed => Seamless)

\* The last part that a packet brings.
Ultimate(pkt) == IF pkt.kind = "fu" THEN <<pkt.nal, pkt.part>>
                 ELSE IF pkt.kind = "stap"
                 THEN <<pkt.nal + pkt.part - 1, Parts>> ELSE <<pkt.nal, Parts>>

Increasing(f) == \A j, k \in Len(Starter) + 1 .. Len(f) :
                   j < k => Earlier(f[j], f[k])

\* The network keeps the order: what is put together was sent before what is in
\* the network, and that before what the device sends next.
Sorted ==
  /\ \A i \in 1 .. Len(net) : Earlier(Ultimate(net[i]), <<nal, part>>)
  /\ \A i, j \in 1 .. Len(net) : 
       i < j => Earlier(Ultimate(net[i]), Before(net[j]))
  /\ Stray \notin Octets(data) =>
       /\ Increasing(data)
       /\ \A k \in 1 .. Len(data) :
            /\ Earlier(data[k], <<nal, part>>)
            /\ \A i \in 1 .. Len(net) : Earlier(data[k], Before(net[i]))

OrderInv ==
  /\ FramesKeepOrder
  /\ frame_complete => data # <<>>
  /\ data # <<>> => Begins(data)
  /\ ~frame_complete => Stray \notin Octets(data)
  /\ InOrder => Sorted

\* The packets taken end with the first p fragments of the NAL unit n.
EndsWith(n, p) ==
  /\ p <= Len(taken)
  /\ \A j \in 1 .. p : taken[Len(taken) - p + j] = Packet("fu", n, j)

RecoveryInv ==
  /\ Recovers
  /\ \A n \in Nals, p \in 1 .. Parts - 1 :
       EndsWith(n, p) => ~frame_complete /\ data = Beginning(n, p + 1)

-----------------------------------------------------------------------------
(***************************************************************************)
(* The sequences of parts.                                                 *)
(***************************************************************************)

\* The starter is at most one octet, the one that no NAL unit has.
LEMMA Starters ==
  /\ Starter \in Seq(Octet) /\ Len(Starter) \in 0 .. 1
  /\ \A i \in 1 .. Len(Starter) : Starter[i] = NAL_START_FRAME
  BY SMTT(30) DEF Starter, NAL_START_FRAME, Octet

\* The beginning of a frame is a sequence of that many parts.
LEMMA BeginningsAreSequences ==
  ASSUME NEW n \in Nat, NEW p \in Nat
  PROVE  /\ Beginning(n, p) \in Seq(Octet)
         /\ Len(Beginning(n, p)) = Len(Starter) + p
<1> DEFINE s == Len(Starter)
<1>0. s \in Nat
  BY Starters
<1> QED BY <1>0, SMT DEF Beginning, Octet, NAL_START_FRAME

\* The starter and the first p parts.
LEMMA Assembled ==
  ASSUME NEW n \in Nat, NEW p \in Nat, NEW e \in Seq(Octet), Len(e) = p,
         \A i \in 1 .. p : e[i] = <<n, i - 1>>
  PROVE  Starter \o e = Beginning(n, p)
<1> DEFINE s == Len(Starter)
<1>0. s \in Nat /\ Starter \in Seq(Octet)
  BY Starters
<1>1. /\ Starter \o e \in Seq(Octet) /\ Len(Starter \o e) = s + p
      /\ \A i \in 1 .. s + p :
           (Starter \o e)[i] = IF i <= s THEN Starter[i] ELSE e[i - s]
  BY <1>0, ConcatProperties
<1>2. \A i \in 1 .. s + p : (Starter \o e)[i] = Beginning(n, p)[i]
  <2> SUFFICES ASSUME NEW i \in 1 .. s + p
               PROVE  (Starter \o e)[i] = Beginning(n, p)[i]
    OBVIOUS
  <2>1. CASE i <= s
    BY <1>0, <1>1, <2>1, Starters DEF Beginning
  <2>2. CASE ~(i <= s)
    <3>1. (Starter \o e)[i] = e[i - s] /\ i - s \in 1 .. p
      BY <1>0, <1>1, <2>2
    <3> QED BY <1>0, <2>2, <3>1 DEF Beginning
  <2> QED BY <2>1, <2>2
<1>3. Beginning(n, p) \in Seq(Octet) /\ Len(Beginning(n, p)) = s + p
  BY BeginningsAreSequences
<1> HIDE DEF s
<1> QED BY <1>1, <1>2, <1>3, SeqEqual

\* The beginning of a frame, one part at a time.
LEMMA Beginnings ==
  ASSUME NEW n \in Nat, NEW p \in Nat
  PROVE  /\ Beginning(n, p) \in Seq(Octet)
         /\ Len(Beginning(n, p)) = Len(Starter) + p
         /\ Append(Beginning(n, p), <<n, p>>) = Beginning(n, p + 1)
<1> DEFINE s == Len(Starter)
<1>0. s \in Nat
  BY Starters
<1>1. Beginning(n, p) \in Seq(Octet) /\ Len(Beginning(n, p)) = s + p
  BY BeginningsAreSequences
<1>2. Append(Beginning(n, p), <<n, p>>) = Beginning(n, p + 1)
  <2>1. Len(Append(Beginning(n, p), <<n, p>>)) = s + p + 1
    BY <1>0, <1>1
  <2>2. \A i \in 1 .. s + p + 1 :
          Append(Beginning(n, p), <<n, p>>)[i] = Beginning(n, p + 1)[i]
    BY <1>0, <1>1 DEF Beginning
  <2> QED BY <1>0, <1>1, <2>1, <2>2 DEF Beginning
<1> QED BY <1>1, <1>2

\* What a first fragment makes.
LEMMA FirstFragment ==
  ASSUME NEW n \in Nat
  PROVE  /\ Starter \o <<<<n, 0>>, <<n, 1>>>> = Beginning(n, 2)
         /\ Beginning(n, 2) \in Seq(Octet)
         /\ Len(Beginning(n, 2)) = Len(Starter) + 2
<1> DEFINE e == <<<<n, 0>>, <<n, 1>>>>
<1>1. e \in Seq(Octet) /\ Len(e) = 2 /\ \A i \in 1 .. 2 : e[i] = <<n, i - 1>>
  BY DEF Octet
<1> HIDE DEF e
<1>2. Starter \o e = Beginning(n, 2)
  BY <1>1, Assembled
<1> QED BY <1>2, BeginningsAreSequences DEF e

\* A frame is the beginning that has all the parts.
LEMMA FramesBegin ==
  ASSUME NEW n \in Nat
  PROVE  /\ Frame(n) = Beginning(n, Parts + 1)
         /\ Frame(n) \in Seq(Octet) /\ Len(Frame(n)) = Len(Starter) + Parts + 1
<1>1. Unit(n) \in Seq(Octet) /\ Len(Unit(n)) = Parts + 1
  BY MergeAssumption DEF Unit, Octet
<1>2. \A i \in 1 .. Parts + 1 : Unit(n)[i] = <<n, i - 1>>
  BY DEF Unit
<1>3. Parts + 1 \in Nat
  BY MergeAssumption
<1> DEFINE p == Parts + 1
<1> HIDE DEF p
<1>4. Starter \o Unit(n) = Beginning(n, p)
  BY <1>1, <1>2, <1>3, Assembled DEF p
<1>5. Frame(n) = Beginning(n, p)
  BY <1>4 DEF Frame
<1>6. Frame(n) \in Seq(Octet) /\ Len(Frame(n)) = Len(Starter) + p
  BY <1>3, <1>5, BeginningsAreSequences DEF p
<1>7. Len(Starter) + p = Len(Starter) + Parts + 1
  BY Starters, MergeAssumption DEF p
<1> QED BY <1>5, <1>6, <1>7 DEF p

\* The second unit of an aggregate, or none: no starter is in it.
LEMMA Seconds ==
  ASSUME NEW n \in Nat, NEW k
  PROVE  /\ Second(n, k) \in Seq(Octet)
         /\ \A i \in 1 .. Len(Second(n, k)) : Second(n, k)[i] # NAL_START_FRAME
<1>1. CASE k = 1
  <2>1. Second(n, k) = <<>> /\ Len(<<>>) = 0
    BY <1>1 DEF Second
  <2>2. <<>> \in Seq(Octet)
    OBVIOUS
  <2> QED BY <2>1, <2>2
<1>2. CASE k # 1
  <2>1. Second(n, k) = Unit(n + 1)
    BY <1>2 DEF Second
  <2>2. Unit(n + 1) \in Seq(Octet) /\ Len(Unit(n + 1)) = Parts + 1
    BY MergeAssumption DEF Unit, Octet
  <2>3. \A i \in 1 .. Parts + 1 : Unit(n + 1)[i] = <<n + 1, i - 1>>
    BY DEF Unit
  <2>4. \A i \in 1 .. Parts + 1 : Unit(n + 1)[i] # NAL_START_FRAME
    BY <2>3 DEF NAL_START_FRAME
  <2> QED BY <2>1, <2>2, <2>4
<1> QED BY <1>1, <1>2

\* append, one alternative for each kind of packet.
LEMMA Appends ==
  ASSUME NEW pkt, NEW d, append_h264(pkt, d),
         pkt.kind \in {"nal", "stap", "fu", "other"}
  PROVE  \/ pkt.kind = "nal" /\ append_single_nal(pkt.nal)
         \/ pkt.kind = "stap" /\ append_stap_a(pkt.nal, pkt.part)
         \/ pkt.kind = "fu" /\ append_fu_a(pkt.nal, pkt.part, d)
         \/ pkt.kind = "other" /\ data' = d /\ frame_complete' = FALSE
  BY DEF append_h264

\* A sequence without its i-th element.
LEMMA Withouts ==
  ASSUME NEW S, NEW s \in Seq(S), NEW i \in 1 .. Len(s)
  PROVE  /\ Without(s, i) \in Seq(S)
         /\ Len(Without(s, i)) = Len(s) - 1
         /\ \A j \in 1 .. Len(s) - 1 :
              Without(s, i)[j] = s[IF j < i THEN j ELSE j + 1]
<1> DEFINE a == SubSeq(s, 1, i - 1)
           b == SubSeq(s, i + 1, Len(s))
<1>0. Len(s) \in Nat /\ i \in 1 .. Len(s)
  OBVIOUS
<1>1. /\ a \in Seq(S) /\ Len(a) = i - 1
      /\ \A j \in 1 .. i - 1 : a[j] = s[j]
  BY <1>0, SubSeqProperties, ElementOfSeq
<1>2. /\ b \in Seq(S) /\ Len(b) = Len(s) - i
      /\ \A j \in 1 .. Len(s) - i : b[j] = s[i + j]
  BY <1>0, SubSeqProperties, ElementOfSeq
<1> HIDE DEF a, b
<1>3. /\ a \o b \in Seq(S) /\ Len(a \o b) = Len(s) - 1
      /\ \A j \in 1 .. Len(s) - 1 :
           (a \o b)[j] = IF j <= i - 1 THEN a[j] ELSE b[j - (i - 1)]
  <2>1. /\ a \o b \in Seq(S) /\ Len(a \o b) = Len(a) + Len(b)
        /\ \A j \in 1 .. Len(a) + Len(b) :
             (a \o b)[j] = IF j <= Len(a) THEN a[j] ELSE b[j - Len(a)]
    BY <1>1, <1>2, ConcatProperties
  <2>2. Len(a) = i - 1 /\ Len(a) + Len(b) = Len(s) - 1
    BY <1>0, <1>1, <1>2
  <2> QED BY <2>1, <2>2
<1>4. \A j \in 1 .. Len(s) - 1 :
        (a \o b)[j] = s[IF j < i THEN j ELSE j + 1]
  <2> SUFFICES ASSUME NEW j \in 1 .. Len(s) - 1
               PROVE  (a \o b)[j] = s[IF j < i THEN j ELSE j + 1]
    OBVIOUS
  <2>1. CASE j < i
    BY <1>0, <1>1, <1>3, <2>1
  <2>2. CASE ~(j < i)
    <3>1. j - (i - 1) \in 1 .. Len(s) - i
      BY <1>0, <2>2
    <3>2. b[j - (i - 1)] = s[i + (j - (i - 1))] /\ i + (j - (i - 1)) = j + 1
      BY <1>0, <1>2, <3>1
    <3> QED BY <1>0, <1>3, <2>2, <3>2
  <2> QED BY <2>1, <2>2
<1> QED BY <1>3, <1>4 DEF Without, a, b

\* A fault is counted and no other is.
LEMMA Counted ==
  ASSUME faults \in [Faults -> Nat], NEW f \in Faults, Happens(f)
  PROVE  /\ faults' \in [Faults -> Nat] /\ faults'[f] = faults[f] + 1
         /\ \A g \in Faults \ {f} : faults'[g] = faults[g]
  BY DEF Happens

-----------------------------------------------------------------------------
(***************************************************************************)
(* The types.                                                              *)
(***************************************************************************)

\* What append makes is a sequence of octets.
LEMMA AppendTypes ==
  ASSUME NEW pkt \in AnyPacket, NEW d \in Seq(Octet), append_h264(pkt, d)
  PROVE  data' \in Seq(Octet) /\ frame_complete' \in BOOLEAN
<1>0. /\ pkt.nal \in Nat \ {0} /\ pkt.part \in Nat
      /\ pkt.kind \in {"nal", "stap", "fu", "other"}
  BY DEF AnyPacket
<1>1. CASE pkt.kind = "nal" /\ append_single_nal(pkt.nal)
  BY <1>0, <1>1, FramesBegin DEF append_single_nal, Frame
<1>2. CASE pkt.kind = "stap" /\ append_stap_a(pkt.nal, pkt.part)
  <2>1. \A n \in Nat : Unit(n) \in Seq(Octet)
    BY MergeAssumption DEF Unit, Octet
  <2>2. Starter \in Seq(Octet) /\ <<Stray>> \in Seq(Octet)
    <3>1. Stray \in Octet
      BY DEF Stray, Octet
    <3> QED BY <3>1, Starters
  <2>3. /\ Unit(pkt.nal) \in Seq(Octet)
        /\ Second(pkt.nal, pkt.part) \in Seq(Octet)
    <3>1. pkt.nal \in Nat /\ pkt.nal + 1 \in Nat
      BY <1>0
    <3> HIDE DEF Octet
    <3> QED BY <2>1, <3>1, Seconds
  <2> HIDE DEF Octet
  <2> QED BY <1>2, <2>2, <2>3, ConcatProperties DEF append_stap_a
<1>3. CASE pkt.kind = "fu" /\ append_fu_a(pkt.nal, pkt.part, d)
  <2>1. <<pkt.nal, pkt.part>> \in Octet /\ pkt.nal \in Nat
    BY <1>0, MergeAssumption DEF Octet
  <2>2. CASE pkt.part = 1
    <3>1. /\ data' = Starter \o <<<<pkt.nal, 0>>, <<pkt.nal, 1>>>>
          /\ frame_complete' = FALSE
      BY <1>3, <2>2, Zenon DEF append_fu_a
    <3>2. data' = Beginning(pkt.nal, 2)
      BY <2>1, <3>1, FirstFragment, Zenon
    <3>3. Beginning(pkt.nal, 2) \in Seq(Octet)
      BY <2>1, FirstFragment, Zenon
    <3> QED BY <3>1, <3>2, <3>3
  <2>3. CASE pkt.part # 1
    <3>1. Append(d, <<pkt.nal, pkt.part>>) \in Seq(Octet)
      BY <2>1
    <3>2. (pkt.part = Parts) \in BOOLEAN
      OBVIOUS
    <3> QED BY <1>3, <2>3, <3>1, <3>2, Zenon DEF append_fu_a
  <2> QED BY <2>2, <2>3
<1>4. CASE pkt.kind = "other" /\ data' = d /\ frame_complete' = FALSE
  BY <1>4
<1> QED BY <1>0, <1>1, <1>2, <1>3, <1>4, Appends

\* What rtp_recv takes out of the network, and what may go wrong there.
LEMMA Receives ==
  ASSUME MergeTypes, rtp_recv
  PROVE  \E i \in 1 .. Len(net), d \in Seq(Octet) :
           /\ d = (IF frame_complete THEN <<>> ELSE data)
           /\ net[i] \in AnyPacket /\ append_h264(net[i], d)
           /\ taken' = Append(taken, net[i])
           /\ \/ frame_complete /\ i = 1 /\ net' = Tail(net) /\ Happens("left")
              \/ /\ ~frame_complete
                 /\ \/ i = 1 /\ net' = Tail(net) /\ UNCHANGED faults
                    \/ i = 2 /\ net' = Without(net, i) /\ Happens("overtakes")
                    \/ i = 1 /\ UNCHANGED net /\ Happens("doubled")
           /\ UNCHANGED <<nal, part, frames>>
<1> DEFINE d == IF frame_complete THEN <<>> ELSE data
<1>1. PICK i \in 1 .. Len(net) :
        /\ append_h264(net[i], d)
        /\ taken' = Append(taken, net[i])
        /\ \/ frame_complete /\ i = 1 /\ net' = Tail(net) /\ Happens("left")
           \/ /\ ~frame_complete
              /\ \/ i = 1 /\ net' = Tail(net) /\ UNCHANGED faults
                 \/ i = 2 /\ net' = Without(net, i) /\ Happens("overtakes")
                 \/ i = 1 /\ UNCHANGED net /\ Happens("doubled")
  BY DEF rtp_recv
<1>2. net[i] \in AnyPacket
  BY DEF MergeTypes
<1>3. d \in Seq(Octet) /\ d = (IF frame_complete THEN <<>> ELSE data)
  BY DEF MergeTypes
<1>4. UNCHANGED <<nal, part, frames>>
  BY DEF rtp_recv, device
<1> HIDE DEF d
<1> QED BY <1>1, <1>2, <1>3, <1>4, Zenon

\* What the device puts into the network.
LEMMA Transmits ==
  ASSUME MergeTypes, NEW pkt \in AnyPacket, Transmit(pkt)
  PROVE  /\ net' \in Seq(AnyPacket) /\ faults' \in [Faults -> Nat]
         /\ \/ net' = Append(net, pkt) /\ faults' = faults
            \/ net' = net /\ Happens("lost") /\ faults'["lost"] # 0
<1>0. net \in Seq(AnyPacket) /\ faults \in [Faults -> Nat] /\ "lost" \in Faults
  BY DEF MergeTypes, Faults
<1>1. CASE net' = Append(net, pkt) /\ UNCHANGED faults
  BY <1>0, <1>1
<1>2. CASE Happens("lost") /\ UNCHANGED net
  <2>1. /\ faults' \in [Faults -> Nat] /\ faults'["lost"] = faults["lost"] + 1
        /\ faults["lost"] \in Nat
    BY <1>0, <1>2, Counted
  <2> QED BY <1>0, <1>2, <2>1
<1> QED BY <1>1, <1>2 DEF Transmit

\* The initial state has the types.
LEMMA InitTypes == Init => MergeTypes
<1> SUFFICES ASSUME Init PROVE MergeTypes
  OBVIOUS
<1>1. \A S : <<>> \in Seq(S)
  OBVIOUS
<1>2. faults \in [Faults -> Nat]
  BY DEF Init
<1>3. nal \in Nat \ {0} /\ part \in {0} \union 2 .. Parts
  BY DEF Init
<1>4. /\ net \in Seq(AnyPacket) /\ taken \in Seq(AnyPacket)
      /\ data \in Seq(Octet) /\ frames \in Seq(Seq(Octet))
  BY <1>1, Zenon DEF Init
<1> QED BY <1>2, <1>3, <1>4 DEF Init, MergeTypes

\* Every step keeps the types.
LEMMA StepTypes == MergeTypes /\ [Next]_vars => MergeTypes'
<1> SUFFICES ASSUME MergeTypes, [Next]_vars PROVE MergeTypes'
  OBVIOUS
<1>1. CASE SendUnit
  <2>1. /\ Packet("nal", nal, 0) \in AnyPacket
        /\ Packet("other", nal, 0) \in AnyPacket
        /\ \A k \in Aggregated : Packet("stap", nal, k) \in AnyPacket
        /\ Packet("fu", nal, 1) \in AnyPacket
    BY MergeAssumption DEF MergeTypes, Packet, AnyPacket
  <2>2. net' \in Seq(AnyPacket) /\ faults' \in [Faults -> Nat]
    <3>1. \/ \E pkt \in AnyPacket : Transmit(pkt)
          \/ Happens("other") /\ net' = Append(net, Packet("other", nal, 0))
      BY <1>1, <2>1 DEF SendUnit
    <3>2. faults \in [Faults -> Nat] /\ "other" \in Faults
      BY DEF MergeTypes, Faults
    <3>3. net \in Seq(AnyPacket)
      BY DEF MergeTypes
    <3>4. CASE \E pkt \in AnyPacket : Transmit(pkt)
      BY <3>4, Transmits
    <3>5. CASE Happens("other") /\ net' = Append(net, Packet("other", nal, 0))
      BY <2>1, <3>2, <3>3, <3>5, Counted
    <3> QED BY <3>1, <3>4, <3>5
  <2>3. /\ UNCHANGED <<data, frame_complete, frames, taken>>
        /\ nal' \in {nal, nal + 1} \/ \E k \in Aggregated : nal' = nal + k
        /\ part' \in {part, 2}
    BY <1>1 DEF SendUnit
  <2>4. nal' \in Nat \ {0} /\ part' \in {0} \union 2 .. Parts
    BY <2>3, MergeAssumption DEF MergeTypes
  <2> QED BY <2>2, <2>3, <2>4, Zenon DEF MergeTypes
<1>2. CASE SendFragment
  <2>1. Packet("fu", nal, part) \in AnyPacket
    BY <1>2, MergeAssumption DEF SendFragment, MergeTypes, Packet, AnyPacket
  <2>2. net' \in Seq(AnyPacket) /\ faults' \in [Faults -> Nat]
    BY <1>2, <2>1, Transmits DEF SendFragment
  <2>3. /\ UNCHANGED <<data, frame_complete, frames, taken>> /\ part > 0
        /\ \/ part = Parts /\ nal' = nal + 1 /\ part' = 0
           \/ part # Parts /\ nal' = nal /\ part' = part + 1
    BY <1>2 DEF SendFragment
  <2>4. /\ nal \in Nat \ {0} /\ part \in 2 .. Parts /\ Parts \in Nat
    BY <2>3, MergeAssumption DEF MergeTypes
  <2>5. nal' \in Nat \ {0} /\ part' \in {0} \union 2 .. Parts
    BY <2>3, <2>4
  <2> QED BY <2>2, <2>3, <2>5, Zenon DEF MergeTypes
<1>3. CASE rtp_recv
  <2>1. PICK i \in 1 .. Len(net), d \in Seq(Octet) :
          /\ net[i] \in AnyPacket /\ append_h264(net[i], d)
          /\ taken' = Append(taken, net[i])
          /\ \/ net' = Tail(net) /\ (Happens("left") \/ UNCHANGED faults)
             \/ net' = Without(net, i) /\ Happens("overtakes")
             \/ UNCHANGED net /\ Happens("doubled")
    BY <1>3, Receives, Zenon
  <2>2. net # <<>>
    OBVIOUS
  <2>3. data' \in Seq(Octet) /\ frame_complete' \in BOOLEAN
    BY <2>1, AppendTypes
  <2>4. net' \in Seq(AnyPacket)
    <3>1. net \in Seq(AnyPacket)
      BY DEF MergeTypes
    <3>2. Tail(net) \in Seq(AnyPacket) /\ Without(net, i) \in Seq(AnyPacket)
      BY <2>2, <3>1, Withouts, HeadTailProperties
    <3> QED BY <2>1, <3>1, <3>2
  <2>5. faults' \in [Faults -> Nat]
    BY <2>1, Counted DEF MergeTypes, Faults
  <2>6. taken' \in Seq(AnyPacket)
    BY <2>1, <2>2 DEF MergeTypes
  <2> QED BY <1>3, <2>3, <2>4, <2>5, <2>6 DEF rtp_recv, MergeTypes, device
<1>4. CASE rtp_pop_frame
  <2>1. frames' \in Seq(Seq(Octet)) /\ data' \in Seq(Octet)
    BY <1>4 DEF rtp_pop_frame, MergeTypes
  <2> QED BY <1>4, <2>1 DEF rtp_pop_frame, MergeTypes, device
<1>5. CASE Finished \/ UNCHANGED vars
  BY <1>5 DEF Finished, MergeTypes, vars, device
<1> QED BY <1>1, <1>2, <1>3, <1>4, <1>5 DEF Next

-----------------------------------------------------------------------------
(***************************************************************************)
(* Recovers: what has been put together is the beginning of the NAL unit   *)
(* whose fragments the packets taken end with.                             *)
(***************************************************************************)

\* A further fragment completes the frame or brings it one part forward.
LEMMA NextFragment ==
  ASSUME NEW n \in Nat, NEW p \in 2 .. Parts,
         append_fu_a(n, p, Beginning(n, p))
  PROVE  data' = Beginning(n, p + 1) /\ frame_complete' = (p = Parts)
<1>1. p \in Nat /\ p # 1
  BY MergeAssumption
<1>2. Len(Beginning(n, p)) # 0
  <2>1. Len(Beginning(n, p)) = Len(Starter) + p /\ Len(Starter) \in 0 .. 1
    BY <1>1, Beginnings, Starters, Zenon
  <2> QED BY <1>1, <2>1
<1>3. Beginning(n, p) # <<>>
  BY <1>2
<1>4. data' = Append(Beginning(n, p), <<n, p>>) /\ frame_complete' = (p = Parts)
  BY <1>1, <1>3, Zenon DEF append_fu_a
<1> QED BY <1>1, <1>4, Beginnings

\* A packet makes a NAL unit whole when it brings all of it or the last part.
LEMMA TakenGrows ==
  ASSUME taken \in Seq(AnyPacket), NEW pkt \in AnyPacket,
         taken' = Append(taken, pkt), NEW n \in Nals, Taken(n)'
  PROVE  \/ Taken(n)
         \/ pkt = Packet("nal", n, 0)
         \/ pkt = Packet("fu", n, Parts) /\ EndsWith(n, Parts - 1)
<1>0. /\ Parts \in Nat /\ Parts >= 2 /\ Len(taken) \in Nat
      /\ Len(taken') = Len(taken) + 1 /\ taken'[Len(taken) + 1] = pkt
      /\ \A i \in 1 .. Len(taken) : taken'[i] = taken[i]
  BY MergeAssumption
<1>1. CASE Packet("nal", n, 0) \in Octets(taken)'
  <2>1. PICK i \in 1 .. Len(taken) + 1 : taken'[i] = Packet("nal", n, 0)
    BY <1>0, <1>1 DEF Octets
  <2>2. CASE i = Len(taken) + 1
    BY <1>0, <2>1, <2>2
  <2>3. CASE i \in 1 .. Len(taken)
    BY <1>0, <2>1, <2>3 DEF Taken, Octets
  <2> QED BY <1>0, <2>2, <2>3
<1>2. CASE \E i \in 1 .. Len(taken') - Parts + 1 :
             SubSeq(taken', i, i + Parts - 1) = FragmentsOf(n)
  <2>1. PICK i \in 1 .. Len(taken) - Parts + 2 :
               SubSeq(taken', i, i + Parts - 1) = FragmentsOf(n)
    <3>1. Len(taken') - Parts + 1 = Len(taken) - Parts + 2
      BY <1>0
    <3> QED BY <1>2, <3>1
  <2>2. \A j \in 1 .. Parts : taken'[i + j - 1] = Packet("fu", n, j)
    <3> SUFFICES ASSUME NEW j \in 1 .. Parts
                 PROVE  taken'[i + j - 1] = Packet("fu", n, j)
      OBVIOUS
    <3>1. SubSeq(taken', i, i + Parts - 1)[j] = taken'[i + j - 1]
      BY <1>0
    <3>2. FragmentsOf(n)[j] = Packet("fu", n, j)
      BY DEF FragmentsOf
    <3> QED BY <2>1, <3>1, <3>2
  <2>3. CASE i <= Len(taken) - Parts + 1
    <3>1. \A j \in 1 .. Parts : SubSeq(taken, i, i + Parts - 1)[j]
            = Packet("fu", n, j)
      <4> SUFFICES ASSUME NEW j \in 1 .. Parts
                   PROVE  SubSeq(taken, i, i + Parts - 1)[j]
                            = Packet("fu", n, j)
        OBVIOUS
      <4>1. SubSeq(taken, i, i + Parts - 1)[j] = taken[i + j - 1]
        BY <1>0
      <4>2. i + j - 1 \in 1 .. Len(taken)
        BY <1>0, <2>3
      <4> QED BY <1>0, <2>2, <4>1, <4>2
    <3>2. SubSeq(taken, i, i + Parts - 1)
            = [j \in 1 .. Parts |-> Packet("fu", n, j)]
      <4>1. SubSeq(taken, i, i + Parts - 1)
              = [j \in 1 .. Parts |-> taken[i + j - 1]]
        BY <1>0
      <4> QED BY <3>1, <4>1
    <3>3. i \in 1 .. Len(taken) - Parts + 1
      BY <1>0, <2>3
    <3> QED BY <3>2, <3>3 DEF Taken, FragmentsOf
  <2>4. CASE ~(i <= Len(taken) - Parts + 1)
    <3>1. i = Len(taken) - Parts + 2
      BY <1>0, <2>4
    <3>2. i + Parts - 1 = Len(taken) + 1
      BY <1>0, <3>1
    <3>3. pkt = Packet("fu", n, Parts)
      <4>1. Parts \in 1 .. Parts
        BY <1>0
      <4>2. taken'[i + Parts - 1] = Packet("fu", n, Parts)
        BY <2>2, <4>1
      <4> QED BY <1>0, <3>2, <4>2
    <3>4. \A j \in 1 .. Parts - 1 :
            taken[Len(taken) - (Parts - 1) + j] = Packet("fu", n, j)
      <4> SUFFICES ASSUME NEW j \in 1 .. Parts - 1
                   PROVE  taken[Len(taken) - (Parts - 1) + j]
                            = Packet("fu", n, j)
        OBVIOUS
      <4>1. /\ j \in 1 .. Parts /\ i + j - 1 \in 1 .. Len(taken)
            /\ i + j - 1 = Len(taken) - (Parts - 1) + j
        BY <1>0, <3>1
      <4> QED BY <1>0, <2>2, <4>1
    <3>5. Parts - 1 <= Len(taken)
      BY <1>0, <3>1
    <3> QED BY <3>3, <3>4, <3>5 DEF EndsWith
  <2> QED BY <2>3, <2>4
<1> QED BY <1>1, <1>2 DEF Taken

\* At the beginning nothing has been taken.
LEMMA InitRecovery == Init => RecoveryInv
<1> SUFFICES ASSUME Init PROVE RecoveryInv
  OBVIOUS
<1>1. taken = <<>> /\ Len(taken) = 0
  BY DEF Init
<1>2. \A n \in Nals : ~Taken(n)
  BY <1>1, MergeAssumption DEF Taken, Octets
<1>3. \A n \in Nals, p \in 1 .. Parts - 1 : ~EndsWith(n, p)
  BY <1>1, MergeAssumption DEF EndsWith
<1> QED BY <1>2, <1>3 DEF RecoveryInv, Recovers

\* Fragments that one more packet has put at the end of what was taken: the
\* packet is the last of them, and the others were at the end before.
LEMMA EndGrows ==
  ASSUME taken \in Seq(AnyPacket), NEW pkt \in AnyPacket,
         taken' = Append(taken, pkt),
         NEW n \in Nals, NEW p \in 1 .. Parts - 1, EndsWith(n, p)'
  PROVE  /\ pkt = Packet("fu", n, p)
         /\ p # 1 => EndsWith(n, p - 1)
<1>0. /\ Parts \in Nat /\ Parts >= 2 /\ p \in 1 .. Parts - 1
      /\ Len(taken) \in Nat
      /\ Len(taken') = Len(taken) + 1 /\ taken'[Len(taken) + 1] = pkt
      /\ \A i \in 1 .. Len(taken) : taken'[i] = taken[i]
  BY MergeAssumption
<1>1. /\ p <= Len(taken) + 1
      /\ \A j \in 1 .. p : taken'[Len(taken) + 1 - p + j] = Packet("fu", n, j)
  <2>1. /\ p <= Len(taken')
        /\ \A j \in 1 .. p : taken'[Len(taken') - p + j] = Packet("fu", n, j)
    BY Zenon DEF EndsWith
  <2>2. Len(taken') = Len(taken) + 1
    BY <1>0
  <2> QED BY <2>1, <2>2, SMTT(30)
<1>2. pkt = Packet("fu", n, p)
  <2>1. p \in 1 .. p /\ Len(taken) + 1 - p + p = Len(taken) + 1
    BY <1>0
  <2>2. taken'[Len(taken) + 1 - p + p] = Packet("fu", n, p)
    BY <1>1, <2>1
  <2> QED BY <1>0, <2>1, <2>2
<1>3. ASSUME p # 1 PROVE EndsWith(n, p - 1)
  <2>1. p - 1 <= Len(taken)
    BY <1>0, <1>1
  <2>2. ASSUME NEW j \in 1 .. p - 1
        PROVE  taken[Len(taken) - (p - 1) + j] = Packet("fu", n, j)
    <3>1. /\ j \in 1 .. p /\ Len(taken) + 1 - p + j \in 1 .. Len(taken)
          /\ Len(taken) + 1 - p + j = Len(taken) - (p - 1) + j
      BY <1>0, <1>1
    <3> QED BY <1>0, <1>1, <3>1
  <2> QED BY <2>1, <2>2 DEF EndsWith
<1> QED BY <1>2, <1>3

\* A packet that comes in brings what has been put together one part forward.
LEMMA RecvRecovery ==
  MergeTypes /\ MergeTypes' /\ RecoveryInv /\ rtp_recv => RecoveryInv'
<1> SUFFICES ASSUME MergeTypes, MergeTypes', RecoveryInv, rtp_recv
             PROVE  RecoveryInv'
  OBVIOUS
<1>1. PICK i \in 1 .. Len(net), d \in Seq(Octet) :
        /\ d = (IF frame_complete THEN <<>> ELSE data)
        /\ net[i] \in AnyPacket /\ append_h264(net[i], d)
        /\ taken' = Append(taken, net[i])
        /\ \/ frame_complete /\ Happens("left")
           \/ /\ ~frame_complete
              /\ UNCHANGED faults \/ Happens("overtakes") \/ Happens("doubled")
        /\ UNCHANGED frames
  BY Receives, Zenon
<1> DEFINE pkt == net[i]
<1>2. pkt \in AnyPacket /\ pkt.kind \in {"nal", "stap", "fu", "other"}
  BY <1>1 DEF AnyPacket
<1> HIDE DEF pkt
<1>3. taken' = Append(taken, pkt) /\ append_h264(pkt, d)
  BY <1>1 DEF pkt
<1>4. /\ pkt.kind = "nal" => append_single_nal(pkt.nal)
      /\ pkt.kind = "fu" => append_fu_a(pkt.nal, pkt.part, d)
  BY <1>2, <1>3, Appends
<1>5. taken \in Seq(AnyPacket) /\ Parts \in Nat /\ Parts >= 2
  BY MergeAssumption DEF MergeTypes
<1>6. ASSUME NEW n \in Nals, NEW p \in 2 .. Parts, EndsWith(n, p - 1)
      PROVE  ~frame_complete /\ d = Beginning(n, p)
  <2>1. p - 1 \in 1 .. Parts - 1 /\ (p - 1) + 1 = p
    BY <1>5
  <2>2. ~frame_complete /\ data = Beginning(n, (p - 1) + 1)
    BY <1>6, <2>1 DEF RecoveryInv
  <2> QED BY <1>1, <2>1, <2>2
<1>7. ASSUME NEW n \in Nals, NEW p \in 1 .. Parts, pkt = Packet("fu", n, p),
             p # 1 => EndsWith(n, p - 1)
      PROVE  data' = Beginning(n, p + 1) /\ frame_complete' = (p = Parts)
  <2>1. append_fu_a(n, p, d) /\ n \in Nat
    BY <1>4, <1>7 DEF Packet, Nals
  <2>2. CASE p = 1
    <3>1. /\ data' = Starter \o <<<<n, 0>>, <<n, 1>>>>
          /\ frame_complete' = FALSE
      BY <2>1, <2>2, Zenon DEF append_fu_a
    <3>2. data' = Beginning(n, 2)
      BY <2>1, <3>1, FirstFragment, Zenon
    <3>3. p # Parts /\ p + 1 = 2
      BY <1>5, <2>2
    <3> QED BY <3>1, <3>2, <3>3
  <2>3. CASE p # 1
    <3>1. p \in 2 .. Parts
      BY <2>3
    <3>2. d = Beginning(n, p)
      BY <1>6, <1>7, <2>3, <3>1
    <3>3. append_fu_a(n, p, Beginning(n, p))
      BY <2>1, <3>2
    <3> QED BY <2>1, <3>1, <3>3, NextFragment
  <2> QED BY <2>2, <2>3
<1>8. ASSUME faults'["left"] = 0
      PROVE  faults["left"] = 0 /\ ~frame_complete
  <2>1. faults \in [Faults -> Nat]
          /\ {"left", "overtakes", "doubled"} \subseteq Faults
    BY DEF MergeTypes, Faults
  <2>2. CASE Happens("left")
    <3>1. faults'["left"] = faults["left"] + 1 /\ faults["left"] \in Nat
      BY <2>1, <2>2, Counted
    <3> QED BY <1>8, <3>1
  <2>3. CASE Happens("overtakes") /\ ~frame_complete
    BY <1>8, <2>1, <2>3, Counted
  <2>4. CASE Happens("doubled") /\ ~frame_complete
    BY <1>8, <2>1, <2>4, Counted
  <2>5. CASE UNCHANGED faults /\ ~frame_complete
    BY <1>8, <2>5
  <2> QED BY <1>1, <2>2, <2>3, <2>4, <2>5
<1>9. Recovers'
  <2> SUFFICES ASSUME faults'["left"] = 0, NEW n \in Nals, Taken(n)'
               PROVE  \/ Frame(n) \in Octets(frames)
                      \/ frame_complete' /\ data' = Frame(n)
    BY <1>1 DEF Recovers, Octets, Frame
  <2>1. CASE Taken(n)
    BY <1>8, <2>1 DEF RecoveryInv, Recovers
  <2>2. CASE pkt = Packet("nal", n, 0)
    BY <1>4, <2>2 DEF Packet, append_single_nal, Frame
  <2>3. CASE pkt = Packet("fu", n, Parts) /\ EndsWith(n, Parts - 1)
    <3>1. data' = Beginning(n, Parts + 1) /\ frame_complete' = (Parts = Parts)
      BY <1>5, <1>7, <2>3
    <3>2. Beginning(n, Parts + 1) = Frame(n)
      BY FramesBegin DEF Nals
    <3> QED BY <3>1, <3>2, Zenon
  <2> QED BY <1>2, <1>3, <1>5, <2>1, <2>2, <2>3, TakenGrows
<1>10. ASSUME NEW n \in Nals, NEW p \in 1 .. Parts - 1, EndsWith(n, p)'
       PROVE  ~frame_complete' /\ data' = Beginning(n, p + 1)
  <2>1. pkt = Packet("fu", n, p) /\ (p # 1 => EndsWith(n, p - 1))
    BY <1>2, <1>3, <1>5, <1>10, EndGrows
  <2>2. p \in 1 .. Parts /\ p # Parts
    BY <1>5
  <2> QED BY <1>7, <2>1, <2>2
<1> QED BY <1>9, <1>10 DEF RecoveryInv, Beginning, Starter

\* The device and a frame that is popped leave what was taken alone.
LEMMA OtherRecovery ==
  /\ MergeTypes /\ RecoveryInv
  /\ SendUnit \/ SendFragment \/ rtp_pop_frame \/ Finished \/ UNCHANGED vars
  => RecoveryInv'
<1> SUFFICES ASSUME MergeTypes, RecoveryInv,
                    SendUnit \/ SendFragment \/ rtp_pop_frame \/ Finished
                      \/ UNCHANGED vars
             PROVE  RecoveryInv'
  OBVIOUS
<1>0. faults \in [Faults -> Nat] /\ {"left", "lost", "other"} \subseteq Faults
  BY DEF MergeTypes, Faults
<1>1. CASE SendUnit \/ SendFragment
  <2>1. UNCHANGED <<taken, data, frame_complete, frames>>
    BY <1>1 DEF SendUnit, SendFragment
  <2>2. Happens("lost") \/ Happens("other") \/ UNCHANGED faults
    BY <1>1 DEF SendUnit, SendFragment, Transmit
  <2>3. faults'["left"] = faults["left"]
    BY <1>0, <2>2, Counted
  <2> QED BY <2>1, <2>3
          DEF RecoveryInv, Recovers, Taken, EndsWith, Octets, Frame, Beginning
<1>2. CASE rtp_pop_frame
  <2>1. /\ frame_complete /\ ~frame_complete' /\ UNCHANGED <<taken, faults>>
        /\ frames' = Append(frames, data)
    BY <1>2 DEF rtp_pop_frame
  <2>2. \A n \in Nals, p \in 1 .. Parts - 1 : ~EndsWith(n, p)'
    BY <2>1 DEF RecoveryInv, EndsWith
  <2>3. Octets(frames)' = Octets(frames) \union {data}
    <3>1. /\ Len(frames) \in Nat /\ Len(frames') = Len(frames) + 1
          /\ frames'[Len(frames) + 1] = data
          /\ \A i \in 1 .. Len(frames) : frames'[i] = frames[i]
      BY <2>1 DEF MergeTypes
    <3> QED BY <3>1 DEF Octets
  <2>4. Recovers'
    BY <2>1, <2>3 DEF RecoveryInv, Recovers, Taken, Octets, Frame
  <2> QED BY <2>2, <2>4 DEF RecoveryInv
<1>3. CASE Finished \/ UNCHANGED vars
  <2>1. UNCHANGED <<taken, data, frame_complete, frames, faults>>
    BY <1>3 DEF Finished, vars
  <2> QED BY <2>1
          DEF RecoveryInv, Recovers, Taken, EndsWith, Octets, Frame, Beginning
<1> QED BY <1>1, <1>2, <1>3

\* A NAL unit whose packets have all been taken, one behind the other, comes
\* out whole, whatever went wrong before (append_fu_a, rtp_pop_frame).
THEOREM LossesDoNotSpread == Spec => []Recovers
<1>1. Init => MergeTypes /\ RecoveryInv
  BY InitTypes, InitRecovery
<1>2. MergeTypes /\ RecoveryInv /\ [Next]_vars => (MergeTypes /\ RecoveryInv)'
  BY StepTypes, RecvRecovery, OtherRecovery DEF Next
<1>3. MergeTypes /\ RecoveryInv => Recovers
  BY DEF RecoveryInv
<1> QED BY <1>1, <1>2, <1>3, PTL DEF Spec

-----------------------------------------------------------------------------
(***************************************************************************)
(* FramesAreUnits: while nothing goes wrong, the packets in the network    *)
(* lead from what has been put together to what the device sends next.     *)
(***************************************************************************)

\* Once something has gone wrong, it stays that way.
LEMMA Quiet ==
  ASSUME MergeTypes, NEW f \in Faults, Happens(f)
  PROVE  ~Undisturbed'
<1>1. faults'[f] = faults[f] + 1 /\ faults[f] \in Nat
  BY Counted DEF MergeTypes
<1>2. faults'[f] # 0
  BY <1>1
<1> QED BY <1>2 DEF Undisturbed

\* When nothing has gone wrong after a step, nothing had before it.
LEMMA StillUndisturbed ==
  ASSUME MergeTypes, [Next]_vars, Undisturbed'
  PROVE  Undisturbed /\ UNCHANGED faults
<1>0. {"lost", "overtakes", "doubled", "other", "left"} \subseteq Faults
  BY DEF Faults
<1>1. UNCHANGED faults
  <2>1. CASE rtp_recv
    BY <1>0, <2>1, Quiet DEF rtp_recv
  <2>2. CASE SendUnit \/ SendFragment
    BY <1>0, <2>2, Quiet DEF SendUnit, SendFragment, Transmit
  <2>3. CASE rtp_pop_frame \/ Finished \/ UNCHANGED vars
    BY <2>3 DEF rtp_pop_frame, Finished, vars
  <2> QED BY <2>1, <2>2, <2>3 DEF Next
<1>2. Aggregates => Aggregates'
  <2> SUFFICES ASSUME NEW k \in 1 .. Len(taken), taken[k].kind = "stap"
               PROVE  Aggregates'
    BY DEF Aggregates
  <2>1. CASE rtp_recv
    <3>1. PICK i \in 1 .. Len(net) : taken' = Append(taken, net[i])
      BY <2>1 DEF rtp_recv
    <3>2. k \in 1 .. Len(taken') /\ taken'[k] = taken[k]
      BY <3>1 DEF MergeTypes
    <3> QED BY <3>2 DEF Aggregates
  <2>2. CASE ~rtp_recv
    <3>1. UNCHANGED taken
      BY <2>2 DEF Next, SendUnit, SendFragment, rtp_pop_frame, Finished, vars
    <3> QED BY <3>1 DEF Aggregates
  <2> QED BY <2>1, <2>2
<1> QED BY <1>1, <1>2 DEF Undisturbed

\* A packet that the device sends goes on where the last one ended.
LEMMA SendsSeamless ==
  ASSUME MergeTypes, Seamless, NEW pkt \in AnyPacket, pkt.kind # "other",
         net' = Append(net, pkt), Before(pkt) = <<nal, part>>,
         After(pkt) = <<nal', part'>>,
         UNCHANGED <<data, frame_complete, frames>>
  PROVE  Seamless'
<1>0. /\ net \in Seq(AnyPacket) /\ Len(net) \in Nat
      /\ Len(net') = Len(net) + 1 /\ net'[Len(net) + 1] = pkt /\ net' # <<>>
      /\ \A i \in 1 .. Len(net) : net'[i] = net[i]
  <2>1. net \in Seq(AnyPacket)
    BY DEF MergeTypes
  <2>2. net' # <<>>
    BY <2>1, AppendProperties
  <2> QED BY <2>1, <2>2
<1>1. \A i \in 1 .. Len(net') : net'[i].kind # "other"
  BY <1>0 DEF Seamless
<1>2. \A i \in 1 .. Len(net') - 1 : After(net'[i]) = Before(net'[i + 1])
  <2> SUFFICES ASSUME NEW i \in 1 .. Len(net)
               PROVE  After(net'[i]) = Before(net'[i + 1])
    BY <1>0
  <2>1. CASE i = Len(net)
    <3>1. After(net[Len(net)]) = <<nal, part>>
      BY <1>0, <2>1 DEF Seamless
    <3> QED BY <1>0, <2>1, <3>1
  <2>2. CASE i # Len(net)
    <3>1. i \in 1 .. Len(net) - 1 /\ i + 1 \in 1 .. Len(net)
      BY <1>0, <2>2
    <3>2. After(net[i]) = Before(net[i + 1])
      BY <3>1 DEF Seamless
    <3> QED BY <1>0, <3>1, <3>2
  <2> QED BY <2>1, <2>2
<1>3. \A pos : Expected(pos) => Expected(pos)'
  BY DEF Expected, Frame, Beginning, Starter
<1>4. Expected(Before(net[1]))'
  <2>1. CASE net = <<>>
    <3>1. net'[1] = pkt /\ Expected(<<nal, part>>)
      BY <1>0, <2>1 DEF Seamless
    <3>2. Expected(Before(net'[1]))
      BY <3>1
    <3> QED BY <3>2, <1>3 DEF Before
  <2>2. CASE net # <<>>
    <3>1. net'[1] = net[1] /\ Expected(Before(net[1]))
      BY <1>0, <2>2 DEF Seamless
    <3>2. Expected(Before(net'[1]))
      BY <3>1
    <3> QED BY <3>2, <1>3 DEF Before
  <2> QED BY <2>1, <2>2
<1>5. After(net'[Len(net')]) = <<nal', part'>>
  BY <1>0
<1> QED BY <1>0, <1>1, <1>2, <1>4, <1>5 DEF Seamless, After, Before

\* The packet that was expected brings the receiver to what it leads to.
LEMMA RecvExpected ==
  ASSUME MergeTypes, ~frame_complete, NEW pkt \in AnyPacket,
         pkt.kind \in {"nal", "fu"}, Expected(Before(pkt)),
         append_h264(pkt, data), UNCHANGED frames
  PROVE  Expected(After(pkt))'
<1>0. /\ pkt.nal \in Nat /\ pkt.part \in Nat
      /\ pkt.kind = "fu" => pkt.part \in 1 .. Parts
      /\ Parts \in Nat /\ Parts >= 2 /\ Len(frames) \in Nat
  BY MergeAssumption DEF AnyPacket, MergeTypes
<1> DEFINE n == Len(frames) + 1
<1>1. \A m \in Nat, p \in 2 .. Parts : Beginning(m, p) # <<>>
  <2> SUFFICES ASSUME NEW m \in Nat, NEW p \in 2 .. Parts
               PROVE  Beginning(m, p) # <<>>
    OBVIOUS
  <2>1. Len(Beginning(m, p)) = Len(Starter) + p /\ Len(Starter) \in 0 .. 1
    <3>1. p \in Nat
      BY <1>0
    <3> QED BY <3>1, BeginningsAreSequences, Starters, Zenon
  <2>2. Len(Beginning(m, p)) # 0
    BY <1>0, <2>1
  <2> QED BY <2>2
<1>2. CASE pkt.kind = "nal"
  <2>1. Before(pkt) = <<pkt.nal, 0>> /\ After(pkt) = <<pkt.nal + 1, 0>>
    BY <1>2 DEF Before, After
  <2>2. pkt.nal = n
    BY <1>0, <2>1 DEF Expected
  <2>3. data' = Frame(n) /\ frame_complete' = TRUE
    BY <1>2, <2>2, Appends DEF append_single_nal, Frame
  <2>4. After(pkt) = <<Len(frames) + 2, 0>>
    BY <1>0, <2>1, <2>2
  <2> QED BY <2>3, <2>4 DEF Expected, Frame, Starter, After
<1>3. CASE pkt.kind = "fu" /\ pkt.part = 1
  <2>1. Before(pkt) = <<pkt.nal, 0>> /\ After(pkt) = <<pkt.nal, 2>>
    BY <1>0, <1>3 DEF Before, After
  <2>2. pkt.nal = n
    BY <1>0, <2>1 DEF Expected
  <2>3. append_fu_a(n, 1, data)
    BY <1>3, <2>2, Appends
  <2>4. data' = Starter \o <<<<n, 0>>, <<n, 1>>>> /\ frame_complete' = FALSE
    BY <2>3, Zenon DEF append_fu_a
  <2>5. data' = Beginning(n, 2) /\ Beginning(n, 2) # <<>> /\ 2 \in 2 .. Parts
    <3>1. n \in Nat /\ 2 \in 2 .. Parts
      BY <1>0
    <3> HIDE DEF n
    <3> QED BY <1>1, <2>4, <3>1, FirstFragment, Zenon
  <2> HIDE DEF n
  <2>6. \E p \in 2 .. Parts : data' = Beginning(n, p) /\ After(pkt) = <<n, p>>
    BY <2>1, <2>2, <2>5
  <2>7. frames' = frames
    BY <1>0
  <2> QED BY <2>4, <2>5, <2>6, <2>7, Zenon DEF Expected, n
<1>4. CASE pkt.kind = "fu" /\ pkt.part # 1
  <2> DEFINE q == pkt.part
  <2>0. q \in 2 .. Parts
    BY <1>0, <1>4
  <2>1. Before(pkt) = <<pkt.nal, q>>
    BY <1>4 DEF Before
  <2>2. pkt.nal = n /\ data = Beginning(n, q)
    BY <1>0, <2>0, <2>1 DEF Expected
  <2>3. append_fu_a(n, q, Beginning(n, q))
    BY <1>4, <2>2, Appends
  <2>4. data' = Beginning(n, q + 1) /\ frame_complete' = (q = Parts)
    BY <1>0, <2>0, <2>3, NextFragment
  <2> HIDE DEF n
  <2>5. CASE q = Parts
    <3>1. data' = Frame(n) /\ frame_complete' = TRUE
      BY <1>0, <2>2, <2>4, <2>5, FramesBegin
    <3>2. After(pkt) = <<Len(frames) + 2, 0>>
      BY <1>0, <1>4, <2>2, <2>5 DEF After, n
    <3> QED BY <3>1, <3>2 DEF Expected, Frame, Starter, After, n
  <2>6. CASE q # Parts
    <3>1. q + 1 \in 2 .. Parts /\ After(pkt) = <<n, q + 1>>
      BY <1>0, <1>4, <2>0, <2>2, <2>6 DEF After
    <3>2. data' # <<>> /\ frame_complete' = FALSE
      BY <1>0, <1>1, <2>2, <2>4, <2>6, <3>1
    <3>3. \E p \in 2 .. Parts : data' = Beginning(n, p) /\ After(pkt) = <<n, p>>
      BY <2>4, <3>1
    <3> QED BY <3>2, <3>3 DEF Expected, Beginning, Starter, After, n
  <2> QED BY <2>5, <2>6
<1> QED BY <1>2, <1>3, <1>4

\* The network without its first packet leads on from where that one leads to.
LEMMA RecvSeamless ==
  ASSUME MergeTypes, Seamless, rtp_recv, UNCHANGED faults, ~Aggregates'
  PROVE  Seamless' /\ ~frame_complete
<1>0. /\ net \in Seq(AnyPacket) /\ Len(net) \in Nat
      /\ faults \in [Faults -> Nat]
      /\ {"left", "overtakes", "doubled"} \subseteq Faults
  BY DEF MergeTypes, Faults
<1>1. \A f \in Faults : ~Happens(f)
  <2> SUFFICES ASSUME NEW f \in Faults, Happens(f) PROVE FALSE
    OBVIOUS
  <2>1. faults'[f] = faults[f] + 1 /\ faults[f] \in Nat
    BY <1>0, Counted
  <2> QED BY <2>1
<1>2. /\ ~frame_complete /\ net # <<>> /\ net' = Tail(net)
      /\ net[1] \in AnyPacket /\ append_h264(net[1], data)
      /\ taken' = Append(taken, net[1]) /\ UNCHANGED <<nal, part, frames>>
  <2>1. PICK i \in 1 .. Len(net), d \in Seq(Octet) :
          /\ d = (IF frame_complete THEN <<>> ELSE data)
          /\ net[i] \in AnyPacket /\ append_h264(net[i], d)
          /\ taken' = Append(taken, net[i])
          /\ \/ frame_complete /\ i = 1 /\ net' = Tail(net) /\ Happens("left")
             \/ /\ ~frame_complete
                /\ \/ i = 1 /\ net' = Tail(net) /\ UNCHANGED faults
                   \/ i = 2 /\ net' = Without(net, i) /\ Happens("overtakes")
                   \/ i = 1 /\ UNCHANGED net /\ Happens("doubled")
          /\ UNCHANGED <<nal, part, frames>>
    BY Receives, Zenon
  <2>2. i = 1 /\ ~frame_complete /\ net' = Tail(net)
    BY <1>0, <1>1, <2>1
  <2>3. net # <<>> /\ d = data
    BY <2>1, <2>2
  <2> QED BY <2>1, <2>2, <2>3
<1>3. PICK pkt \in AnyPacket : pkt = net[1]
  BY <1>2
<1>4. pkt.kind \in {"nal", "fu"}
  <2>1. pkt.kind # "stap"
    <3>1. Len(taken) + 1 \in 1 .. Len(taken') /\ taken'[Len(taken) + 1] = pkt
      BY <1>2, <1>3 DEF MergeTypes
    <3> QED BY <3>1 DEF Aggregates
  <2>2. pkt.kind # "other"
    BY <1>0, <1>2, <1>3 DEF Seamless
  <2>3. pkt.kind \in {"nal", "stap", "fu", "other"}
    BY DEF AnyPacket
  <2> QED BY <2>1, <2>2, <2>3
<1>5. PICK pos : pos = After(pkt)
  OBVIOUS
<1>6. Expected(pos)'
  <2>1. Expected(Before(pkt))
    BY <1>2, <1>3 DEF Seamless
  <2> QED BY <1>2, <1>3, <1>4, <1>5, <2>1, RecvExpected
<1>7. /\ net' \in Seq(AnyPacket) /\ Len(net') = Len(net) - 1
      /\ \A i \in 1 .. Len(net) - 1 : net'[i] = net[i + 1]
  BY <1>0, <1>2, HeadTailProperties
<1>8. \A i \in 1 .. Len(net') : net'[i].kind # "other"
  <2> SUFFICES ASSUME NEW i \in 1 .. Len(net')
               PROVE  net'[i].kind # "other"
    OBVIOUS
  <2>1. i \in 1 .. Len(net) - 1 /\ i + 1 \in 1 .. Len(net)
    BY <1>0, <1>7
  <2>2. net[i + 1].kind # "other"
    BY <2>1 DEF Seamless
  <2> QED BY <1>7, <2>1, <2>2
<1>9. \A i \in 1 .. Len(net') - 1 : After(net'[i]) = Before(net'[i + 1])
  <2> SUFFICES ASSUME NEW i \in 1 .. Len(net') - 1
               PROVE  After(net'[i]) = Before(net'[i + 1])
    OBVIOUS
  <2>1. /\ i + 1 \in 1 .. Len(net) - 1 /\ net'[i] = net[i + 1]
        /\ net'[i + 1] = net[(i + 1) + 1]
    BY <1>0, <1>7
  <2> QED BY <2>1 DEF Seamless
<1>10. CASE net' = <<>>
  <2>1. Len(net) = 1
    BY <1>0, <1>7, <1>10
  <2>2. After(net[Len(net)]) = <<nal, part>>
    BY <1>2 DEF Seamless
  <2>3. pos = <<nal', part'>>
    BY <1>2, <1>3, <1>5, <2>1, <2>2
  <2>4. Expected(<<nal, part>>)'
    BY <1>6, <2>3
  <2> QED BY <1>2, <1>8, <1>9, <1>10, <2>4 DEF Seamless, After, Before
<1>11. CASE net' # <<>>
  <2>1. Len(net) \in Nat /\ Len(net) > 1
    BY <1>0, <1>7, <1>11
  <2>2. After(net[1]) = Before(net[1 + 1])
    BY <2>1 DEF Seamless
  <2>3. net'[1] = net[1 + 1]
    BY <1>7, <2>1
  <2>4. pos = Before(net'[1])
    BY <1>3, <1>5, <2>2, <2>3
  <2>5. Expected(Before(net[1]))'
    BY <1>6, <2>4 DEF Before
  <2>6. net'[Len(net')] = net[Len(net)]
    BY <1>7, <2>1
  <2>7. After(net'[Len(net')]) = <<nal', part'>>
    BY <1>2, <2>6 DEF Seamless
  <2> QED BY <1>2, <1>8, <1>9, <1>11, <2>5, <2>7 DEF Seamless, After, Before
<1> QED BY <1>10, <1>11

\* At the beginning the first NAL unit is expected, and is the next one sent.
LEMMA InitUnits == Init => UnitsInv
<1> SUFFICES ASSUME Init PROVE UnitsInv
  OBVIOUS
<1>1. net = <<>> /\ data = <<>> /\ frames = <<>> /\ ~frame_complete
  BY DEF Init
<1>2. Len(net) = 0 /\ Len(frames) = 0
  BY <1>1
<1>3. Expected(<<nal, part>>)
  BY <1>1, <1>2 DEF Init, Expected
<1> QED BY <1>1, <1>2, <1>3 DEF UnitsInv, FramesAreUnits, Seamless

\* A step of any kind keeps the network seamless and the frames whole.
LEMMA StepUnits == MergeTypes /\ UnitsInv /\ [Next]_vars => UnitsInv'
<1> SUFFICES ASSUME MergeTypes, UnitsInv, [Next]_vars, Undisturbed'
             PROVE  /\ Seamless'
                    /\ \A i \in 1 .. Len(frames') : frames'[i] = Frame(i)
  BY DEF UnitsInv, FramesAreUnits, Frame, Starter
<1>0. /\ Undisturbed /\ UNCHANGED faults /\ Seamless
      /\ \A i \in 1 .. Len(frames) : frames[i] = Frame(i)
  BY StillUndisturbed DEF UnitsInv, FramesAreUnits
<1>1. \A f \in Faults : ~Happens(f)
  BY Quiet
<1>2. {"lost", "other"} \subseteq Faults
  BY DEF Faults
<1>3. CASE SendUnit
  <2>1. PICK pkt \in AnyPacket :
          /\ pkt.kind # "other" /\ Transmit(pkt)
          /\ Before(pkt) = <<nal, part>> /\ After(pkt) = <<nal', part'>>
          /\ UNCHANGED <<data, frame_complete, frames>>
    <3>1. /\ part = 0 /\ nal \in Nat \ {0} /\ Parts \in Nat /\ Parts >= 2
          /\ UNCHANGED <<data, frame_complete, frames>>
      BY <1>3, MergeAssumption DEF SendUnit, MergeTypes
    <3>2. CASE Transmit(Packet("nal", nal, 0)) /\ nal' = nal + 1 /\ part' = part
      <4>1. Packet("nal", nal, 0) \in AnyPacket
        BY <3>1 DEF Packet, AnyPacket
      <4> QED BY <3>1, <3>2, <4>1 DEF Packet, Before, After
    <3>3. ASSUME NEW k \in Aggregated, Transmit(Packet("stap", nal, k)),
                 nal' = nal + k, part' = part
          PROVE  \E pkt \in AnyPacket :
                   /\ pkt.kind # "other" /\ Transmit(pkt)
                   /\ Before(pkt) = <<nal, part>>
                   /\ After(pkt) = <<nal', part'>>
      <4>1. Packet("stap", nal, k) \in AnyPacket
        BY <3>1, MergeAssumption DEF Packet, AnyPacket
      <4> QED BY <3>1, <3>3, <4>1 DEF Packet, Before, After
    <3>4. CASE Transmit(Packet("fu", nal, 1)) /\ part' = 2 /\ nal' = nal
      <4>1. Packet("fu", nal, 1) \in AnyPacket
        BY <3>1 DEF Packet, AnyPacket
      <4> DEFINE pkt == Packet("fu", nal, 1)
      <4>2. pkt.kind = "fu" /\ pkt.nal = nal /\ pkt.part = 1
        BY DEF Packet
      <4>3. Before(pkt) = <<nal, part>> /\ After(pkt) = <<nal', part'>>
        BY <3>1, <3>4, <4>2 DEF Before, After
      <4>4. pkt \in AnyPacket /\ pkt.kind # "other" /\ Transmit(pkt)
        BY <3>4, <4>1, <4>2
      <4> HIDE DEF pkt
      <4> QED BY <3>1, <4>3, <4>4
    <3> QED BY <1>1, <1>2, <1>3, <3>2, <3>3, <3>4 DEF SendUnit
  <2>2. net' = Append(net, pkt)
    BY <1>1, <1>2, <2>1 DEF Transmit
  <2> QED BY <1>0, <2>1, <2>2, SendsSeamless
<1>4. CASE SendFragment
  <2> DEFINE pkt == Packet("fu", nal, part)
  <2>1. /\ part \in 2 .. Parts /\ nal \in Nat \ {0} /\ Parts \in Nat
        /\ UNCHANGED <<data, frame_complete, frames>>
    BY <1>4, MergeAssumption DEF SendFragment, MergeTypes
  <2>2. pkt \in AnyPacket /\ pkt.kind # "other"
    BY <2>1 DEF Packet, AnyPacket
  <2>3. Before(pkt) = <<nal, part>> /\ After(pkt) = <<nal', part'>>
    BY <1>4, <2>1 DEF SendFragment, Packet, Before, After
  <2>4. net' = Append(net, pkt)
    BY <1>1, <1>2, <1>4 DEF SendFragment, Transmit
  <2> HIDE DEF pkt
  <2> QED BY <1>0, <2>1, <2>2, <2>3, <2>4, SendsSeamless
<1>5. CASE rtp_recv
  <2>1. Seamless'
    BY <1>0, <1>5, RecvSeamless DEF Undisturbed
  <2>2. UNCHANGED frames
    BY <1>5 DEF rtp_recv
  <2> QED BY <1>0, <2>1, <2>2
<1>6. CASE rtp_pop_frame
  <2>1. /\ frame_complete /\ ~frame_complete' /\ frames' = Append(frames, data)
        /\ data' = <<>> /\ UNCHANGED <<nal, part, net>>
    BY <1>6 DEF rtp_pop_frame, device
  <2>2. data = Frame(Len(frames) + 1)
    BY <1>0, <2>1 DEF Seamless, Expected
  <2>3. /\ Len(frames') = Len(frames) + 1 /\ Len(frames) \in Nat
        /\ frames'[Len(frames) + 1] = data
        /\ \A i \in 1 .. Len(frames) : frames'[i] = frames[i]
    BY <2>1 DEF MergeTypes
  <2>4. \A i \in 1 .. Len(frames') : frames'[i] = Frame(i)
    BY <1>0, <2>2, <2>3
  <2>5. \A pos : Expected(pos) => Expected(pos)'
    BY <2>1, <2>3 DEF Expected
  <2>6. Seamless'
    <3>1. CASE net = <<>>
      <4>1. Expected(<<nal, part>>)
        BY <1>0, <3>1 DEF Seamless
      <4>2. Expected(<<nal, part>>)'
        BY <2>1, <2>5, <4>1
      <4> QED BY <1>0, <2>1, <3>1, <4>2 DEF Seamless, After, Before
    <3>2. CASE net # <<>>
      <4>1. Expected(Before(net[1]))
        BY <1>0, <3>2 DEF Seamless
      <4>2. Expected(Before(net[1]))'
        BY <2>1, <2>5, <4>1 DEF Before
      <4> QED BY <1>0, <2>1, <3>2, <4>2 DEF Seamless, After, Before
    <3> QED BY <3>1, <3>2
  <2> QED BY <2>4, <2>6
<1>7. CASE Finished \/ UNCHANGED vars
  <2>1. UNCHANGED <<nal, part, net, data, frame_complete, frames>>
    BY <1>7 DEF Finished, vars, device
  <2> QED BY <1>0, <2>1
          DEF Seamless, Expected, After, Before, Frame, Beginning, Starter
<1> QED BY <1>3, <1>4, <1>5, <1>6, <1>7 DEF Next

\* As long as nothing goes wrong, rtp_pop_frame returns the NAL units, each one
\* whole, in the order sent, none missing and none twice (append_single_nal,
\* append_fu_a).
THEOREM EveryUnitOnce == Spec => []FramesAreUnits
<1>1. Init => MergeTypes /\ UnitsInv
  BY InitTypes, InitUnits
<1>2. MergeTypes /\ UnitsInv /\ [Next]_vars => (MergeTypes /\ UnitsInv)'
  BY StepTypes, StepUnits
<1>3. MergeTypes /\ UnitsInv => FramesAreUnits
  BY DEF UnitsInv
<1> QED BY <1>1, <1>2, <1>3, PTL DEF Spec

-----------------------------------------------------------------------------
(***************************************************************************)
(* FramesKeepOrder: what is put together was sent before what is still in  *)
(* the network, as long as the network keeps the order.                    *)
(***************************************************************************)

\* Earlier is transitive.
LEMMA EarlierTransitive ==
  ASSUME NEW x \in Octet, NEW y \in Octet, NEW z \in Octet,
         x = y \/ Earlier(x, y), Earlier(y, z)
  PROVE  Earlier(x, z)
<1>1. /\ x[1] \in Nat /\ x[2] \in Nat /\ y[1] \in Nat /\ y[2] \in Nat
      /\ z[1] \in Nat /\ z[2] \in Nat
  BY DEF Octet
<1> QED BY <1>1 DEF Earlier

\* A frame begins with the starter and a header octet, said element by element.
LEMMA BeginsMeans ==
  ASSUME NEW f \in Seq(Octet)
  PROVE  Begins(f) <=>
           /\ Len(f) > Len(Starter)
           /\ \A i \in 1 .. Len(Starter) : f[i] = NAL_START_FRAME
           /\ f[Len(Starter) + 1][2] = 0
           /\ \A j \in Len(Starter) + 1 .. Len(f) : f[j] # NAL_START_FRAME
<1> DEFINE s == Len(Starter)
<1>0. s \in 0 .. 1 /\ Starter \in Seq(Octet) /\ Len(f) \in Nat
  BY Starters
<1>1. ASSUME Len(f) > s
      PROVE  SubSeq(f, 1, s) = Starter
               <=> \A i \in 1 .. s : f[i] = NAL_START_FRAME
  <2>1. /\ SubSeq(f, 1, s) \in Seq(Octet) /\ Len(SubSeq(f, 1, s)) = s
        /\ \A i \in 1 .. s : SubSeq(f, 1, s)[i] = f[i]
    BY <1>0, <1>1, SubSeqProperties, ElementOfSeq
  <2>2. ASSUME \A i \in 1 .. s : f[i] = NAL_START_FRAME
        PROVE  SubSeq(f, 1, s) = Starter
    <3>1. \A i \in 1 .. s : SubSeq(f, 1, s)[i] = Starter[i]
      BY <2>1, <2>2, Starters
    <3> QED BY <1>0, <2>1, <3>1, SeqEqual
  <2>3. ASSUME SubSeq(f, 1, s) = Starter
        PROVE  \A i \in 1 .. s : f[i] = NAL_START_FRAME
    BY <2>1, <2>3, Starters
  <2> QED BY <2>2, <2>3
<1> QED BY <1>0, <1>1 DEF Begins

\* The beginning of a frame begins it, in its order, and nothing in it comes
\* after its last part.
LEMMA BeginningsBegin ==
  ASSUME NEW n \in Nat \ {0}, NEW p \in Nat \ {0}
  PROVE  /\ Begins(Beginning(n, p)) /\ Beginning(n, p) # <<>>
         /\ Increasing(Beginning(n, p))
         /\ Stray \notin Octets(Beginning(n, p))
         /\ \A k \in 1 .. Len(Beginning(n, p)) :
              \/ Beginning(n, p)[k] = <<n, p - 1>>
              \/ Earlier(Beginning(n, p)[k], <<n, p - 1>>)
<1> DEFINE s == Len(Starter)
           f == Beginning(n, p)
<1>0. s \in 0 .. 1 /\ f \in Seq(Octet) /\ Len(f) = s + p /\ n \in Nat
        /\ p \in Nat
  BY Starters, BeginningsAreSequences
<1>1. \A i \in 1 .. s : f[i] = NAL_START_FRAME
  BY <1>0 DEF Beginning
<1>2. \A i \in s + 1 .. s + p : f[i] = <<n, i - s - 1>>
  BY <1>0 DEF Beginning
<1> HIDE DEF f, s
<1>3. \A i \in s + 1 .. s + p : f[i] # NAL_START_FRAME /\ f[i] # Stray
  BY <1>0, <1>2 DEF NAL_START_FRAME, Stray
<1>4. \A i \in 1 .. s : f[i] # Stray
  BY <1>1 DEF NAL_START_FRAME, Stray
<1>5. s + 1 \in s + 1 .. s + p
  BY <1>0
<1>6. f[s + 1][2] = 0
  <2>1. f[s + 1] = <<n, s + 1 - s - 1>> /\ s + 1 - s - 1 = 0
    BY <1>0, <1>2, <1>5
  <2> QED BY <2>1
<1>7. Begins(f)
  BY <1>0, <1>1, <1>3, <1>6, BeginsMeans DEF s
<1>8. Stray \notin Octets(f)
  <2> SUFFICES ASSUME NEW i \in 1 .. s + p PROVE f[i] # Stray
    BY <1>0 DEF Octets
  <2>1. i \in 1 .. s \/ i \in s + 1 .. s + p
    BY <1>0
  <2> QED BY <1>3, <1>4, <2>1
<1>9. Increasing(f)
  <2> SUFFICES ASSUME NEW j \in s + 1 .. s + p, NEW k \in s + 1 .. s + p, j < k
               PROVE  Earlier(f[j], f[k])
    BY <1>0 DEF Increasing, s
  <2>1. f[j] = <<n, j - s - 1>> /\ f[k] = <<n, k - s - 1>>
          /\ j - s - 1 < k - s - 1
    BY <1>0, <1>2
  <2> QED BY <2>1 DEF Earlier
<1>10. ASSUME NEW k \in 1 .. s + p
       PROVE  f[k] = <<n, p - 1>> \/ Earlier(f[k], <<n, p - 1>>)
  <2>1. CASE k \in 1 .. s
    BY <1>0, <1>1, <2>1 DEF Earlier, NAL_START_FRAME
  <2>2. CASE k \in s + 1 .. s + p
    <3>1. f[k] = <<n, k - s - 1>> /\ k - s - 1 <= p - 1 /\ k - s - 1 \in Nat
      BY <1>0, <1>2, <2>2
    <3>2. CASE k - s - 1 = p - 1
      BY <3>1, <3>2
    <3>3. CASE k - s - 1 < p - 1
      BY <3>1, <3>3 DEF Earlier
    <3> QED BY <1>0, <3>1, <3>2, <3>3
  <2> QED BY <1>0, <2>1, <2>2
<1>11. f # <<>>
  BY <1>0
<1> QED BY <1>0, <1>7, <1>8, <1>9, <1>10, <1>11 DEF f

\* What is put behind a frame leaves its beginning.
LEMMA BeginsStays ==
  ASSUME NEW f \in Seq(Octet), Begins(f), NEW e \in Seq(Octet),
         \A i \in 1 .. Len(e) : e[i] # NAL_START_FRAME
  PROVE  f \o e \in Seq(Octet) /\ Begins(f \o e)
<1> DEFINE s == Len(Starter)
           g == f \o e
<1>0. /\ s \in 0 .. 1 /\ Len(f) \in Nat /\ Len(e) \in Nat
      /\ g \in Seq(Octet) /\ Len(g) = Len(f) + Len(e)
      /\ \A i \in 1 .. Len(f) + Len(e) :
           g[i] = IF i <= Len(f) THEN f[i] ELSE e[i - Len(f)]
  BY Starters, ConcatProperties
<1>1. /\ Len(f) > s
      /\ \A i \in 1 .. s : f[i] = NAL_START_FRAME
      /\ f[s + 1][2] = 0
      /\ \A j \in s + 1 .. Len(f) : f[j] # NAL_START_FRAME
  BY BeginsMeans
<1> HIDE DEF g, s
<1>2. \A j \in s + 1 .. Len(g) : g[j] # NAL_START_FRAME
  <2> SUFFICES ASSUME NEW j \in s + 1 .. Len(f) + Len(e)
               PROVE  g[j] # NAL_START_FRAME
    BY <1>0
  <2>1. CASE j <= Len(f)
    <3>1. g[j] = f[j] /\ j \in s + 1 .. Len(f)
      BY <1>0, <2>1
    <3> QED BY <1>1, <3>1
  <2>2. CASE ~(j <= Len(f))
    <3>1. g[j] = e[j - Len(f)] /\ j - Len(f) \in 1 .. Len(e)
      BY <1>0, <2>2
    <3> QED BY <3>1
  <2> QED BY <2>1, <2>2
<1>3. \A i \in 1 .. s + 1 : g[i] = f[i]
  BY <1>0, <1>1
<1>4. g[s + 1][2] = 0 /\ \A i \in 1 .. s : g[i] = NAL_START_FRAME
  BY <1>0, <1>1, <1>3
<1>5. Len(g) > s
  BY <1>0, <1>1
<1> QED BY <1>0, <1>2, <1>4, <1>5, BeginsMeans DEF g, s

\* What append makes begins with a header octet, whatever there was before.
LEMMA AppendBegins ==
  ASSUME NEW pkt \in AnyPacket, NEW d \in Seq(Octet), append_h264(pkt, d),
         d # <<>> => Begins(d), Stray \notin Octets(d)
  PROVE  /\ frame_complete' => data' # <<>>
         /\ data' # <<>> => Begins(data')
         /\ ~frame_complete' => Stray \notin Octets(data')
<1> DEFINE n == pkt.nal
<1>0. /\ n \in Nat \ {0} /\ n \in Nat /\ pkt.part \in Nat
      /\ pkt.kind = "fu" => pkt.part \in 1 .. Parts
      /\ pkt.kind = "stap" => pkt.part # 0
      /\ pkt.kind \in {"nal", "stap", "fu", "other"}
      /\ Parts \in Nat /\ Parts + 1 \in Nat \ {0}
  BY MergeAssumption DEF AnyPacket
<1> HIDE DEF n
<1>1. Frame(n) \in Seq(Octet) /\ Begins(Frame(n)) /\ Frame(n) # <<>>
  <2>1. Begins(Beginning(n, Parts + 1)) /\ Beginning(n, Parts + 1) # <<>>
    BY <1>0, BeginningsBegin
  <2> QED BY <1>0, <2>1, FramesBegin
<1>2. CASE pkt.kind = "nal" /\ append_single_nal(pkt.nal)
  BY <1>1, <1>2 DEF append_single_nal, Frame, n
<1>3. CASE pkt.kind = "stap" /\ append_stap_a(pkt.nal, pkt.part)
  <2> DEFINE e1 == <<Stray>>
             e2 == Second(n, pkt.part)
             g1 == Frame(n) \o e1
             g2 == g1 \o e2
  <2>1. /\ e1 \in Seq(Octet) /\ e2 \in Seq(Octet)
        /\ \A i \in 1 .. Len(e1) : e1[i] # NAL_START_FRAME
        /\ \A i \in 1 .. Len(e2) : e2[i] # NAL_START_FRAME
    <3>1. e1 \in Seq(Octet) /\ \A i \in 1 .. Len(e1) : e1[i] # NAL_START_FRAME
      BY DEF Stray, NAL_START_FRAME, Octet
    <3>2. /\ e2 \in Seq(Octet)
          /\ \A i \in 1 .. Len(e2) : e2[i] # NAL_START_FRAME
      BY <1>0, Seconds
    <3> QED BY <3>1, <3>2
  <2>2. data' = g2 \o e1 /\ frame_complete' = TRUE
    BY <1>3 DEF append_stap_a, Frame, n
  <2> HIDE DEF e1, e2
  <2>3. g1 \in Seq(Octet) /\ Begins(g1)
    BY <1>1, <2>1, BeginsStays
  <2> HIDE DEF g1
  <2>4. g2 \in Seq(Octet) /\ Begins(g2)
    BY <2>1, <2>3, BeginsStays
  <2> HIDE DEF g2
  <2>5. data' \in Seq(Octet) /\ Begins(data')
    BY <2>1, <2>2, <2>4, BeginsStays
  <2>6. Len(data') > Len(Starter) /\ Len(Starter) \in 0 .. 1
    BY <2>5, BeginsMeans, Starters
  <2>7. data' # <<>>
    BY <2>5, <2>6
  <2> QED BY <2>2, <2>5, <2>7
<1>4. CASE pkt.kind = "fu" /\ append_fu_a(n, pkt.part, d)
  <2>1. CASE pkt.part = 1
    <3>1. data' = Beginning(n, 2)
      BY <1>0, <1>4, <2>1, FirstFragment, Zenon DEF append_fu_a
    <3>2. 2 \in Nat \ {0}
      OBVIOUS
    <3>3. /\ Begins(Beginning(n, 2)) /\ Beginning(n, 2) # <<>>
          /\ Stray \notin Octets(Beginning(n, 2))
      BY <1>0, <3>2, BeginningsBegin, Zenon
    <3> QED BY <3>1, <3>3, Zenon
  <2>2. CASE pkt.part # 1 /\ d = <<>>
    <3>1. data' = d /\ frame_complete' = FALSE
      BY <1>4, <2>2, Zenon DEF append_fu_a
    <3> QED BY <2>2, <3>1
  <2>3. CASE pkt.part # 1 /\ d # <<>>
    <3> DEFINE o == <<n, pkt.part>>
    <3>1. data' = Append(d, o)
      BY <1>4, <2>3, Zenon DEF append_fu_a
    <3>2. o \in Octet /\ o # NAL_START_FRAME /\ o # Stray
      BY <1>0 DEF Octet, NAL_START_FRAME, Stray
    <3> HIDE DEF o
    <3>3. Append(d, o) = d \o <<o>> /\ <<o>> \in Seq(Octet)
      BY <3>2, AppendIsConcat
    <3>4. \A i \in 1 .. Len(<<o>>) : <<o>>[i] # NAL_START_FRAME
      BY <3>2
    <3>5. Begins(data')
      BY <2>3, <3>1, <3>3, <3>4, BeginsStays
    <3>6. data' # <<>>
      BY <3>1, <3>2, AppendProperties
    <3>7. Stray \notin Octets(data')
      <4>1. /\ Len(data') = Len(d) + 1 /\ data'[Len(d) + 1] = o
            /\ \A i \in 1 .. Len(d) : data'[i] = d[i]
        BY <3>1, <3>2
      <4> QED BY <3>2, <4>1 DEF Octets
    <3> QED BY <3>5, <3>6, <3>7
  <2> QED BY <2>1, <2>2, <2>3
<1>5. CASE pkt.kind = "other" /\ data' = d /\ frame_complete' = FALSE
  BY <1>5
<1> QED BY <1>0, <1>2, <1>3, <1>4, <1>5, Appends DEF n

\* What append makes is in order when what was there is earlier than the packet,
\* and the last part of the packet is the last of all.
LEMMA AppendSorted ==
  ASSUME NEW pkt \in AnyPacket, NEW d \in Seq(Octet), append_h264(pkt, d),
         Increasing(d), \A k \in 1 .. Len(d) : Earlier(d[k], Before(pkt)),
         Stray \notin Octets(data')
  PROVE  /\ Increasing(data')
         /\ \A k \in 1 .. Len(data') : \/ data'[k] = Ultimate(pkt)
                                       \/ Earlier(data'[k], Ultimate(pkt))
<1> DEFINE n == pkt.nal
<1>0. /\ n \in Nat \ {0} /\ n \in Nat /\ pkt.part \in Nat
      /\ pkt.kind = "fu" => pkt.part \in 1 .. Parts
      /\ pkt.kind = "stap" => pkt.part # 0
      /\ pkt.kind \in {"nal", "stap", "fu", "other"}
      /\ Parts \in Nat /\ Parts + 1 \in Nat \ {0} /\ Parts + 1 - 1 = Parts
  BY MergeAssumption DEF AnyPacket
<1> HIDE DEF n
<1>1. /\ Before(pkt) \in Octet /\ Ultimate(pkt) \in Octet
      /\ Before(pkt) = Ultimate(pkt) \/ Earlier(Before(pkt), Ultimate(pkt))
  BY <1>0, MergeAssumption, SMTT(30) DEF Before, Ultimate, Earlier, Octet, n
<1>2. ASSUME NEW k \in 1 .. Len(d) PROVE Earlier(d[k], Ultimate(pkt))
  <2>1. d[k] \in Octet /\ Earlier(d[k], Before(pkt))
    BY ElementOfSeq
  <2>2. CASE Before(pkt) = Ultimate(pkt)
    BY <2>1, <2>2
  <2>3. CASE Earlier(Before(pkt), Ultimate(pkt))
    BY <1>1, <2>1, <2>3, EarlierTransitive
  <2> QED BY <1>1, <2>2, <2>3
<1>3. CASE pkt.kind = "nal" /\ append_single_nal(pkt.nal)
  <2>1. data' = Beginning(n, Parts + 1)
    BY <1>0, <1>3, FramesBegin DEF append_single_nal, Frame, n
  <2>2. Ultimate(pkt) = <<n, Parts + 1 - 1>>
    BY <1>0, <1>3 DEF Ultimate, n
  <2> QED BY <1>0, <2>1, <2>2, BeginningsBegin
<1>4. CASE pkt.kind = "stap" /\ append_stap_a(pkt.nal, pkt.part)
  <2> DEFINE f == Starter \o Unit(n) \o <<Stray>> \o Second(n, pkt.part)
  <2>1. data' = f \o <<Stray>>
    BY <1>4 DEF append_stap_a, n
  <2>2. f \in Seq(Octet)
    <3>1. <<Stray>> \in Seq(Octet) /\ Unit(n) \in Seq(Octet)
      BY <1>0 DEF Unit, Octet, Stray
    <3>2. Second(n, pkt.part) \in Seq(Octet)
      BY <1>0, Seconds
    <3> QED BY <3>1, <3>2, Starters, ConcatProperties
  <2> HIDE DEF f
  <2>3. Len(f) + 1 \in 1 .. Len(data') /\ data'[Len(f) + 1] = Stray
    BY <2>1, <2>2
  <2> QED BY <2>3 DEF Octets
<1>5. CASE pkt.kind = "fu" /\ append_fu_a(n, pkt.part, d)
  <2>1. Ultimate(pkt) = <<n, pkt.part>>
    BY <1>5 DEF Ultimate, n
  <2>2. CASE pkt.part = 1
    <3>1. data' = Beginning(n, 2)
      BY <1>0, <1>5, <2>2, FirstFragment, Zenon DEF append_fu_a
    <3>2. Ultimate(pkt) = <<n, 2 - 1>>
      BY <2>1, <2>2
    <3> QED BY <1>0, <3>1, <3>2, BeginningsBegin
  <2>3. CASE pkt.part # 1 /\ d = <<>>
    <3>1. data' = d
      BY <1>5, <2>3, Zenon DEF append_fu_a
    <3> QED BY <1>2, <3>1
  <2>4. CASE pkt.part # 1 /\ d # <<>>
    <3>1. data' = Append(d, Ultimate(pkt))
      BY <1>5, <2>1, <2>4, Zenon DEF append_fu_a
    <3>2. /\ Len(d) \in Nat /\ Len(Starter) \in 0 .. 1
          /\ Len(data') = Len(d) + 1
          /\ data'[Len(d) + 1] = Ultimate(pkt)
          /\ \A i \in 1 .. Len(d) : data'[i] = d[i]
      BY <1>1, <3>1, Starters
    <3>3. Increasing(data')
      <4> SUFFICES ASSUME NEW j \in Len(Starter) + 1 .. Len(d) + 1,
                          NEW k \in Len(Starter) + 1 .. Len(d) + 1, j < k
                   PROVE  Earlier(data'[j], data'[k])
        BY <3>2 DEF Increasing
      <4>1. j \in 1 .. Len(d) /\ j \in Len(Starter) + 1 .. Len(d)
        BY <3>2
      <4>2. CASE k = Len(d) + 1
        BY <1>2, <3>2, <4>1, <4>2
      <4>3. CASE k # Len(d) + 1
        <5>1. k \in 1 .. Len(d) /\ k \in Len(Starter) + 1 .. Len(d)
          BY <3>2, <4>3
        <5>2. Earlier(d[j], d[k])
          BY <4>1, <5>1 DEF Increasing
        <5> QED BY <3>2, <4>1, <5>1, <5>2
      <4> QED BY <4>2, <4>3
    <3>4. ASSUME NEW k \in 1 .. Len(d) + 1
          PROVE  data'[k] = Ultimate(pkt) \/ Earlier(data'[k], Ultimate(pkt))
      <4>1. k = Len(d) + 1 \/ k \in 1 .. Len(d)
        BY <3>2
      <4> QED BY <1>2, <3>2, <4>1
    <3> QED BY <3>2, <3>3, <3>4
  <2> QED BY <2>2, <2>3, <2>4
<1>6. CASE pkt.kind = "other" /\ data' = d /\ frame_complete' = FALSE
  BY <1>2, <1>6
<1> QED BY <1>0, <1>3, <1>4, <1>5, <1>6, Appends DEF n

\* Frames that are not touched keep their order.
LEMMA FramesStay ==
  ASSUME FramesKeepOrder, UNCHANGED frames, InOrder' => InOrder
  PROVE  FramesKeepOrder'
BY SMTT(30) DEF FramesKeepOrder, Begins, Starter, Octets

\* The device goes on: what it sends is later than what is there.
LEMMA SendsSorted ==
  ASSUME MergeTypes, MergeTypes', Sorted, UNCHANGED data,
         Earlier(<<nal, part>>, <<nal', part'>>),
         \/ UNCHANGED net
         \/ \E pkt \in AnyPacket : /\ net' = Append(net, pkt)
                                  /\ Before(pkt) = <<nal, part>>
                                  /\ Earlier(Ultimate(pkt), <<nal', part'>>)
  PROVE  Sorted'
<1> DEFINE here == <<nal, part>>
           there == <<nal', part'>>
<1>0. /\ net \in Seq(AnyPacket) /\ Len(net) \in Nat /\ data \in Seq(Octet)
      /\ here \in Octet /\ there \in Octet
  <2>1. /\ nal \in Nat /\ part \in Nat /\ nal' \in Nat /\ part' \in Nat
        /\ net \in Seq(AnyPacket) /\ data \in Seq(Octet)
    BY MergeAssumption, SMTT(30) DEF MergeTypes
  <2> QED BY <2>1 DEF Octet
<1>1. \A pkt \in AnyPacket : Before(pkt) \in Octet /\ Ultimate(pkt) \in Octet
  BY MergeAssumption DEF AnyPacket, Before, Ultimate, Octet
<1> HIDE DEF here, there
<1>2. /\ Earlier(here, there)
      /\ \A i \in 1 .. Len(net) : Earlier(Ultimate(net[i]), here)
      /\ \A i, j \in 1 .. Len(net) :
           i < j => Earlier(Ultimate(net[i]), Before(net[j]))
      /\ Stray \notin Octets(data) =>
           /\ Increasing(data)
           /\ \A k \in 1 .. Len(data) :
                /\ Earlier(data[k], here)
                /\ \A i \in 1 .. Len(net) : Earlier(data[k], Before(net[i]))
  BY DEF Sorted, here, there
<1>3. \A i \in 1 .. Len(net) : Earlier(Ultimate(net[i]), there)
  BY <1>0, <1>1, <1>2, EarlierTransitive, ElementOfSeq
<1>4. ASSUME Stray \notin Octets(data)
      PROVE  \A k \in 1 .. Len(data) : Earlier(data[k], there)
  <2> SUFFICES ASSUME NEW k \in 1 .. Len(data)
               PROVE  Earlier(data[k], there)
    OBVIOUS
  <2>1. data[k] \in Octet
    BY <1>0
  <2>2. Earlier(data[k], here)
    BY <1>2, <1>4
  <2>3. Earlier(here, there)
    BY <1>2
  <2>4. here \in Octet /\ there \in Octet
    BY <1>0
  <2> QED BY <2>1, <2>2, <2>3, <2>4, EarlierTransitive
<1>5. CASE UNCHANGED net
  <2>1. /\ \A i \in 1 .. Len(net) : Earlier(Ultimate(net[i]), there)
        /\ \A i, j \in 1 .. Len(net) :
             i < j => Earlier(Ultimate(net[i]), Before(net[j]))
        /\ Stray \notin Octets(data) =>
             /\ Increasing(data)
             /\ \A k \in 1 .. Len(data) :
                  /\ Earlier(data[k], there)
                  /\ \A i \in 1 .. Len(net) : Earlier(data[k], Before(net[i]))
    BY <1>2, <1>3, <1>4
  <2> QED BY <1>5, <2>1, SMTT(30)
          DEF Sorted, Increasing, Starter, Octets, Ultimate, Before, there
<1>6. CASE \E pkt \in AnyPacket : /\ net' = Append(net, pkt)
                                 /\ Before(pkt) = <<nal, part>>
                                 /\ Earlier(Ultimate(pkt), <<nal', part'>>)
  <2>1. PICK pkt \in AnyPacket : /\ net' = Append(net, pkt)
                                 /\ Before(pkt) = here
                                 /\ Earlier(Ultimate(pkt), there)
    BY <1>6 DEF here, there
  <2>2. /\ Len(net') = Len(net) + 1 /\ net'[Len(net) + 1] = pkt
        /\ \A i \in 1 .. Len(net) : net'[i] = net[i]
    BY <1>0, <2>1
  <2>3. \A i \in 1 .. Len(net') : Earlier(Ultimate(net'[i]), there)
    BY <1>0, <1>3, <2>1, <2>2
  <2>4. ASSUME NEW i \in 1 .. Len(net'), NEW j \in 1 .. Len(net'), i < j
        PROVE  Earlier(Ultimate(net'[i]), Before(net'[j]))
    <3>1. i \in 1 .. Len(net)
      BY <1>0, <2>2, <2>4
    <3>2. CASE j \in 1 .. Len(net)
      BY <1>2, <2>2, <2>4, <3>1, <3>2
    <3>3. CASE j = Len(net) + 1
      BY <1>2, <2>1, <2>2, <3>1, <3>3
    <3> QED BY <1>0, <2>2, <3>2, <3>3
  <2>5. ASSUME Stray \notin Octets(data), NEW k \in 1 .. Len(data),
               NEW i \in 1 .. Len(net')
        PROVE  Earlier(data[k], Before(net'[i]))
    <3>1. CASE i \in 1 .. Len(net)
      BY <1>2, <2>2, <2>5, <3>1
    <3>2. CASE i = Len(net) + 1
      BY <1>2, <2>1, <2>2, <2>5, <3>2
    <3> QED BY <1>0, <2>2, <3>1, <3>2
  <2> QED BY <1>2, <1>4, <2>3, <2>4, <2>5
          DEF Sorted, Increasing, Starter, Octets, Ultimate, Before, there
<1> QED BY <1>5, <1>6

\* The first packet goes from the network into the frame.
LEMMA RecvSorted ==
  ASSUME MergeTypes, MergeTypes', Sorted, NEW d \in Seq(Octet),
         d = <<>> \/ (d = data /\ Stray \notin Octets(data)),
         net # <<>>, append_h264(net[1], d), net' = Tail(net),
         UNCHANGED <<nal, part>>
  PROVE  Sorted'
<1>0. /\ net \in Seq(AnyPacket) /\ Len(net) \in Nat /\ Len(net) # 0
      /\ net[1] \in AnyPacket
      /\ net' \in Seq(AnyPacket) /\ Len(net') = Len(net) - 1
      /\ \A i \in 1 .. Len(net) - 1 : net'[i] = net[i + 1]
      /\ data' \in Seq(Octet) /\ <<nal, part>> \in Octet
  <2>1. net \in Seq(AnyPacket) /\ data' \in Seq(Octet)
    BY DEF MergeTypes
  <2>2. Len(net) \in Nat /\ Len(net) # 0 /\ net[1] \in AnyPacket
    BY <2>1
  <2>3. /\ net' \in Seq(AnyPacket) /\ Len(net') = Len(net) - 1
        /\ \A i \in 1 .. Len(net) - 1 : net'[i] = net[i + 1]
    BY <2>1, HeadTailProperties
  <2>4. <<nal, part>> \in Octet
    <3>1. nal \in Nat /\ part \in Nat
      BY MergeAssumption DEF MergeTypes
    <3> QED BY <3>1 DEF Octet
  <2> QED BY <2>1, <2>2, <2>3, <2>4
<1>1. \A pkt \in AnyPacket : Before(pkt) \in Octet /\ Ultimate(pkt) \in Octet
  BY MergeAssumption DEF AnyPacket, Before, Ultimate, Octet
<1> DEFINE here == <<nal, part>>
<1> HIDE DEF here
<1>2. /\ \A i \in 1 .. Len(net) : Earlier(Ultimate(net[i]), here)
      /\ \A i, j \in 1 .. Len(net) :
           i < j => Earlier(Ultimate(net[i]), Before(net[j]))
  BY DEF Sorted, here
<1>3. PICK pkt \in AnyPacket : pkt = net[1] /\ append_h264(pkt, d)
  BY <1>0
<1>4. Increasing(d) /\ \A k \in 1 .. Len(d) : Earlier(d[k], Before(pkt))
  <2>1. CASE d = <<>>
    BY <2>1, Starters DEF Increasing
  <2>2. CASE d = data /\ Stray \notin Octets(data)
    BY <1>0, <1>3, <2>2 DEF Sorted
  <2> QED BY <2>1, <2>2
<1>5. ASSUME Stray \notin Octets(data')
      PROVE  /\ Increasing(data')
             /\ \A k \in 1 .. Len(data') : \/ data'[k] = Ultimate(pkt)
                                           \/ Earlier(data'[k], Ultimate(pkt))
  BY <1>3, <1>4, <1>5, AppendSorted, Zenon
<1>6. Earlier(Ultimate(pkt), here) /\ here \in Octet
  <2>1. 1 \in 1 .. Len(net)
    BY <1>0
  <2>2. Earlier(Ultimate(net[1]), here)
    BY <1>2, <2>1
  <2> QED BY <1>0, <1>3, <2>2 DEF here
<1>7. ASSUME NEW i \in 1 .. Len(net')
      PROVE  /\ Before(net'[i]) \in Octet /\ Earlier(Ultimate(net'[i]), here)
             /\ Earlier(Ultimate(pkt), Before(net'[i]))
  <2>1. i + 1 \in 1 .. Len(net) /\ 1 \in 1 .. Len(net) /\ 1 < i + 1
    BY <1>0
  <2>2. net'[i] = net[i + 1] /\ net'[i] \in AnyPacket
    BY <1>0
  <2> QED BY <1>1, <1>2, <1>3, <2>1, <2>2
<1>8. ASSUME NEW i \in 1 .. Len(net'), NEW j \in 1 .. Len(net'), i < j
      PROVE  Earlier(Ultimate(net'[i]), Before(net'[j]))
  <2>1. i + 1 \in 1 .. Len(net) /\ j + 1 \in 1 .. Len(net) /\ i + 1 < j + 1
    BY <1>0, <1>8
  <2>2. net'[i] = net[i + 1] /\ net'[j] = net[j + 1]
    BY <1>0
  <2> QED BY <1>2, <2>1, <2>2
<1>9. ASSUME Stray \notin Octets(data'), NEW k \in 1 .. Len(data')
      PROVE  /\ Earlier(data'[k], here)
             /\ \A i \in 1 .. Len(net') : Earlier(data'[k], Before(net'[i]))
  <2>1. data'[k] \in Octet /\ Ultimate(pkt) \in Octet
    BY <1>0, <1>1, ElementOfSeq
  <2>2. data'[k] = Ultimate(pkt) \/ Earlier(data'[k], Ultimate(pkt))
    BY <1>5, <1>9
  <2> QED BY <1>6, <1>7, <2>1, <2>2, EarlierTransitive
<1>10. here = <<nal', part'>>
  BY DEF here
<1> QED BY <1>5, <1>7, <1>8, <1>9, <1>10
        DEF Sorted, Increasing, Starter, Octets, Ultimate, Before

\* At the beginning there is nothing to be out of order.
LEMMA InitOrder == Init => OrderInv
<1> SUFFICES ASSUME Init PROVE OrderInv
  OBVIOUS
<1>1. net = <<>> /\ data = <<>> /\ frames = <<>> /\ ~frame_complete
  BY DEF Init
<1>2. Len(net) = 0 /\ Len(frames) = 0 /\ Len(data) = 0
  BY <1>1
<1>3. Octets(data) = {} /\ Increasing(data)
  BY <1>2, Starters DEF Octets, Increasing
<1>4. Sorted
  BY <1>2, <1>3 DEF Sorted
<1>5. FramesKeepOrder
  BY <1>2 DEF FramesKeepOrder
<1> QED BY <1>1, <1>3, <1>4, <1>5 DEF OrderInv

\* Whatever packet comes in, the frame in the making keeps its order.
LEMMA RecvOrder ==
  MergeTypes /\ MergeTypes' /\ OrderInv /\ rtp_recv => OrderInv'
<1> SUFFICES ASSUME MergeTypes, MergeTypes', OrderInv, rtp_recv PROVE OrderInv'
  OBVIOUS
<1>1. PICK i \in 1 .. Len(net), d \in Seq(Octet) :
        /\ d = (IF frame_complete THEN <<>> ELSE data)
        /\ net[i] \in AnyPacket /\ append_h264(net[i], d)
        /\ taken' = Append(taken, net[i])
        /\ \/ frame_complete /\ i = 1 /\ net' = Tail(net) /\ Happens("left")
           \/ /\ ~frame_complete
              /\ \/ i = 1 /\ net' = Tail(net) /\ UNCHANGED faults
                 \/ i = 2 /\ net' = Without(net, i) /\ Happens("overtakes")
                 \/ i = 1 /\ UNCHANGED net /\ Happens("doubled")
        /\ UNCHANGED <<nal, part, frames>>
  BY Receives, Zenon
<1>2. d = <<>> \/ (d = data /\ Stray \notin Octets(data))
  BY <1>1 DEF OrderInv
<1>3. Stray \notin Octets(d) /\ (d # <<>> => Begins(d))
  <2>1. CASE d = <<>>
    BY <2>1 DEF Octets
  <2>2. CASE d = data /\ Stray \notin Octets(data)
    BY <2>2 DEF OrderInv
  <2> QED BY <1>2, <2>1, <2>2
<1>4. /\ frame_complete' => data' # <<>>
      /\ data' # <<>> => Begins(data')
      /\ ~frame_complete' => Stray \notin Octets(data')
  BY <1>1, <1>3, AppendBegins
<1>5. faults \in [Faults -> Nat]
        /\ {"left", "overtakes", "doubled"} \subseteq Faults
  BY DEF MergeTypes, Faults
<1>6. ASSUME InOrder'
      PROVE  InOrder /\ i = 1 /\ net' = Tail(net)
  <2>1. CASE Happens("left") /\ i = 1 /\ net' = Tail(net)
    BY <1>5, <1>6, <2>1, Counted DEF InOrder
  <2>2. CASE UNCHANGED faults /\ i = 1 /\ net' = Tail(net)
    BY <1>6, <2>2 DEF InOrder
  <2>3. CASE Happens("overtakes")
    <3>1. faults'["overtakes"] = faults["overtakes"] + 1
            /\ faults["overtakes"] \in Nat
      BY <1>5, <2>3, Counted
    <3> QED BY <1>6, <3>1 DEF InOrder
  <2>4. CASE Happens("doubled")
    <3>1. faults'["doubled"] = faults["doubled"] + 1
            /\ faults["doubled"] \in Nat
      BY <1>5, <2>4, Counted
    <3> QED BY <1>6, <3>1 DEF InOrder
  <2> QED BY <1>1, <2>1, <2>2, <2>3, <2>4
<1>7. InOrder' => Sorted'
  <2> SUFFICES ASSUME InOrder' PROVE Sorted'
    OBVIOUS
  <2>1. Sorted /\ i = 1 /\ net' = Tail(net)
    BY <1>6 DEF OrderInv
  <2>2. net # <<>> /\ append_h264(net[1], d)
    BY <1>1, <2>1
  <2> QED BY <1>1, <1>2, <2>1, <2>2, RecvSorted
<1>8. FramesKeepOrder'
  BY <1>1, <1>6, FramesStay DEF OrderInv
<1> QED BY <1>4, <1>7, <1>8 DEF OrderInv, Begins, Starter, Octets

\* Whatever the device sends, and whether or not it is lost, is later.
LEMMA SendOrder ==
  MergeTypes /\ MergeTypes' /\ OrderInv
    /\ (SendUnit \/ SendFragment) => OrderInv'
<1> SUFFICES ASSUME MergeTypes, MergeTypes', OrderInv, SendUnit \/ SendFragment
             PROVE  OrderInv'
  OBVIOUS
<1>1. UNCHANGED <<data, frame_complete, frames>>
  BY DEF SendUnit, SendFragment
<1>2. InOrder' => InOrder
  <2>1. faults \in [Faults -> Nat]
          /\ Faults = {"lost", "overtakes", "doubled", "other", "left"}
    BY DEF MergeTypes, Faults
  <2>2. Happens("lost") \/ Happens("other") \/ UNCHANGED faults
    BY DEF SendUnit, SendFragment, Transmit
  <2> QED BY <2>1, <2>2, Counted DEF InOrder
<1>3. /\ nal \in Nat \ {0} /\ nal \in Nat /\ part \in {0} \union 2 .. Parts
      /\ Parts \in Nat /\ Parts >= 2
  BY MergeAssumption DEF MergeTypes
<1>4. /\ Earlier(<<nal, part>>, <<nal', part'>>)
      /\ \/ UNCHANGED net
         \/ \E pkt \in AnyPacket : /\ net' = Append(net, pkt)
                                  /\ Before(pkt) = <<nal, part>>
                                  /\ Earlier(Ultimate(pkt), <<nal', part'>>)
  <2>1. PICK pkt \in AnyPacket :
          /\ UNCHANGED net \/ net' = Append(net, pkt)
          /\ Before(pkt) = <<nal, part>>
          /\ Earlier(Ultimate(pkt), <<nal', part'>>)
          /\ Earlier(<<nal, part>>, <<nal', part'>>)
    <3> DEFINE Fits(pkt) ==
          /\ pkt \in AnyPacket
          /\ Before(pkt) = <<nal, part>>
          /\ Earlier(Ultimate(pkt), <<nal', part'>>)
          /\ Earlier(<<nal, part>>, <<nal', part'>>)
    <3>1. ASSUME NEW k \in {"nal", "other", "stap"}, NEW q \in Nat,
                 part = 0, part' = 0,
                 IF k = "stap" THEN q # 0 /\ nal' = nal + q
                               ELSE q = 0 /\ nal' = nal + 1
          PROVE  Fits(Packet(k, nal, q))
      <4>1. Packet(k, nal, q) = [kind |-> k, nal |-> nal, part |-> q]
        BY DEF Packet
      <4>2. Packet(k, nal, q) \in AnyPacket
              /\ Before(Packet(k, nal, q)) = <<nal, part>>
        BY <1>3, <3>1, <4>1 DEF AnyPacket, Before
      <4>3. Ultimate(Packet(k, nal, q))
              = IF k = "stap" THEN <<nal + q - 1, Parts>> ELSE <<nal, Parts>>
        BY <3>1, <4>1 DEF Ultimate
      <4>4. nal < nal' /\ (k = "stap" => nal + q - 1 < nal')
        BY <1>3, <3>1
      <4>5. /\ Earlier(<<nal, part>>, <<nal', part'>>)
            /\ Earlier(Ultimate(Packet(k, nal, q)), <<nal', part'>>)
        BY <4>3, <4>4 DEF Earlier
      <4> QED BY <4>2, <4>5
    <3>2. ASSUME part = 0, part' = 2, nal' = nal
          PROVE  Fits(Packet("fu", nal, 1))
      <4>1. Packet("fu", nal, 1) = [kind |-> "fu", nal |-> nal, part |-> 1]
        BY DEF Packet
      <4>2. /\ Packet("fu", nal, 1) \in AnyPacket
            /\ Before(Packet("fu", nal, 1)) = <<nal, part>>
            /\ Ultimate(Packet("fu", nal, 1)) = <<nal, 1>>
        BY <1>3, <3>2, <4>1 DEF AnyPacket, Before, Ultimate
      <4>3. /\ Earlier(<<nal, part>>, <<nal', part'>>)
            /\ Earlier(<<nal, 1>>, <<nal', part'>>)
        BY <3>2 DEF Earlier
      <4> QED BY <4>2, <4>3
    <3>3. ASSUME part # 0, IF part = Parts THEN nal' = nal + 1 /\ part' = 0
                                           ELSE part' = part + 1 /\ nal' = nal
          PROVE  Fits(Packet("fu", nal, part))
      <4>1. Packet("fu", nal, part)
              = [kind |-> "fu", nal |-> nal, part |-> part]
        BY DEF Packet
      <4>2. /\ Packet("fu", nal, part) \in AnyPacket
            /\ Before(Packet("fu", nal, part)) = <<nal, part>>
            /\ Ultimate(Packet("fu", nal, part)) = <<nal, part>>
        BY <1>3, <3>3, <4>1 DEF AnyPacket, Before, Ultimate
      <4>3. nal < nal' \/ (nal = nal' /\ part < part')
        BY <1>3, <3>3
      <4>4. Earlier(<<nal, part>>, <<nal', part'>>)
        BY <4>3 DEF Earlier
      <4> QED BY <4>2, <4>4
    <3> HIDE DEF Fits
    <3>4. \E pkt : Fits(pkt) /\ (UNCHANGED net \/ net' = Append(net, pkt))
      <4>1. CASE SendUnit
        <5>1. /\ part = 0
              /\ \/ /\ part' = 0 /\ nal' = nal + 1
                    /\ \/ UNCHANGED net
                       \/ net' = Append(net, Packet("nal", nal, 0))
                       \/ net' = Append(net, Packet("other", nal, 0))
                 \/ /\ part' = 0
                    /\ \E k \in Aggregated :
                         /\ nal' = nal + k
                         /\ \/ UNCHANGED net
                            \/ net' = Append(net, Packet("stap", nal, k))
                 \/ /\ part' = 2 /\ nal' = nal
                    /\ UNCHANGED net \/ net' = Append(net, Packet("fu", nal, 1))
          BY <4>1 DEF SendUnit, Transmit
        <5>2. CASE part' = 0
          <6>1. ASSUME nal' = nal + 1
                PROVE  /\ Fits(Packet("nal", nal, 0))
                       /\ Fits(Packet("other", nal, 0))
            BY <3>1, <5>1, <5>2, <6>1
          <6>2. ASSUME NEW k \in Aggregated, nal' = nal + k
                PROVE  Fits(Packet("stap", nal, k))
            <7>1. k \in Nat /\ k # 0
              BY MergeAssumption
            <7> QED BY <3>1, <5>1, <5>2, <6>2, <7>1
          <6>3. \/ nal' = nal + 1 /\ UNCHANGED net
                \/ nal' = nal + 1 /\ net' = Append(net, Packet("nal", nal, 0))
                \/ nal' = nal + 1 /\ net' = Append(net, Packet("other", nal, 0))
                \/ \E k \in Aggregated :
                     /\ nal' = nal + k
                     /\ UNCHANGED net
                          \/ net' = Append(net, Packet("stap", nal, k))
            BY <1>3, <5>1, <5>2
          <6> QED BY <6>1, <6>2, <6>3, Zenon
        <5>3. CASE part' = 2
          BY <3>2, <5>1, <5>3
        <5> QED BY <5>1, <5>2, <5>3
      <4>2. CASE SendFragment
        <5>1. /\ part # 0
              /\ IF part = Parts THEN nal' = nal + 1 /\ part' = 0
                                 ELSE part' = part + 1 /\ nal' = nal
              /\ UNCHANGED net \/ net' = Append(net, Packet("fu", nal, part))
          BY <1>3, <4>2 DEF SendFragment, Transmit
        <5> QED BY <3>3, <5>1
      <4> QED BY <4>1, <4>2
    <3> QED BY <3>4 DEF Fits
  <2> QED BY <2>1
<1>5. InOrder' => Sorted'
  <2> SUFFICES ASSUME InOrder' PROVE Sorted'
    OBVIOUS
  <2>1. Sorted /\ UNCHANGED data
    BY <1>1, <1>2 DEF OrderInv
  <2> QED BY <1>4, <2>1, SendsSorted
<1>6. FramesKeepOrder'
  BY <1>1, <1>2, FramesStay DEF OrderInv
<1> QED BY <1>1, <1>2, <1>5, <1>6, Zenon
        DEF OrderInv, Begins, Starter, Octets

\* A frame that is popped is as it was put together.
LEMMA PopOrder == MergeTypes /\ OrderInv /\ rtp_pop_frame => OrderInv'
<1> SUFFICES ASSUME MergeTypes, OrderInv, rtp_pop_frame PROVE OrderInv'
  OBVIOUS
<1>1. /\ frame_complete /\ ~frame_complete' /\ frames' = Append(frames, data)
      /\ data' = <<>> /\ UNCHANGED <<nal, part, net, faults>>
  BY DEF rtp_pop_frame, device
<1>2. Begins(data) /\ (InOrder /\ Stray \notin Octets(data) => Increasing(data))
  BY <1>1 DEF OrderInv, Sorted
<1>3. /\ Len(frames') = Len(frames) + 1 /\ Len(frames) \in Nat
      /\ frames'[Len(frames) + 1] = data
      /\ \A i \in 1 .. Len(frames) : frames'[i] = frames[i]
  BY <1>1 DEF MergeTypes
<1>4. InOrder' = InOrder
  BY <1>1 DEF InOrder
<1>5. \A i \in 1 .. Len(frames') :
        /\ Begins(frames'[i])
        /\ InOrder /\ Stray \notin Octets(frames'[i]) => Increasing(frames'[i])
  <2>1. \A i \in 1 .. Len(frames) :
          /\ Begins(frames[i])
          /\ InOrder /\ Stray \notin Octets(frames[i]) => Increasing(frames[i])
    BY DEF OrderInv, FramesKeepOrder, Increasing
  <2> QED BY <1>2, <1>3, <2>1
<1>6. FramesKeepOrder'
  BY <1>4, <1>5 DEF FramesKeepOrder, Increasing, Begins, Starter, Octets
<1>7. Octets(data)' = {} /\ Increasing(data)' /\ Len(data') = 0
  <2>1. Len(data') = 0
    BY <1>1
  <2>2. Len(Starter) \in 0 .. 1
    BY Starters
  <2> QED BY <2>1, <2>2 DEF Octets, Increasing, Starter
<1>8. InOrder' => Sorted'
  <2> SUFFICES ASSUME InOrder PROVE Sorted'
    BY <1>4
  <2>1. Sorted
    BY DEF OrderInv
  <2>2. /\ \A i \in 1 .. Len(net') : Earlier(Ultimate(net'[i]), <<nal', part'>>)
        /\ \A i, j \in 1 .. Len(net') :
             i < j => Earlier(Ultimate(net'[i]), Before(net'[j]))
    BY <1>1, <2>1 DEF Sorted
  <2>3. \A k \in 1 .. Len(data') : FALSE
    BY <1>7
  <2> QED BY <1>7, <2>2, <2>3
          DEF Sorted, Ultimate, Before, Increasing, Octets, Starter
<1> QED BY <1>1, <1>6, <1>7, <1>8 DEF OrderInv

\* Every step keeps the order.
LEMMA StepOrder ==
  MergeTypes /\ MergeTypes' /\ OrderInv /\ [Next]_vars => OrderInv'
<1> SUFFICES ASSUME MergeTypes, MergeTypes', OrderInv, [Next]_vars
    PROVE OrderInv'
  OBVIOUS
<1>1. CASE Finished \/ UNCHANGED vars
  <2>1. UNCHANGED <<nal, part, net, data, frame_complete, frames, faults>>
    BY <1>1 DEF Finished, vars, device
  <2>2. InOrder' = InOrder
    BY <2>1 DEF InOrder
  <2>3. FramesKeepOrder'
    BY <2>1, <2>2, FramesStay DEF OrderInv
  <2>4. Sorted => Sorted'
    BY <2>1, SMTT(30) DEF Sorted, Increasing, Starter, Octets, Ultimate, Before
  <2> QED BY <2>1, <2>2, <2>3, <2>4 DEF OrderInv, Begins, Starter, Octets
<1> QED BY <1>1, RecvOrder, SendOrder, PopOrder DEF Next

\* Whatever the network does and whether or not every frame is popped, a frame
\* begins with a header octet; and when the network keeps the order, its parts
\* are in the order sent, none of them twice (append_fu_a, rtp_recv).
THEOREM PartsStayInOrder == Spec => []FramesKeepOrder
<1>1. Init => MergeTypes /\ OrderInv
  BY InitTypes, InitOrder
<1>2. MergeTypes /\ OrderInv /\ [Next]_vars => (MergeTypes /\ OrderInv)'
  BY StepTypes, StepOrder
<1>3. MergeTypes /\ OrderInv => FramesKeepOrder
  BY DEF OrderInv
<1> QED BY <1>1, <1>2, <1>3, PTL DEF Spec
=============================================================================
