-------------------------- MODULE RcpReadingProof ---------------------------
(***************************************************************************)
(* Reading what a device sends: packets out of the stream, for any number  *)
(* and any length of packets and any way in which the stream is split; and *)
(* sections and rows out of the answers, for any number of them.  Neither  *)
(* part looks at the state of the other.                                   *)
(***************************************************************************)
EXTENDS RcpFraming, RcpReplies, WellFoundedInduction, TLAPS

\* Types, with what the bounds on arrived and pos need to be inductive.
Types ==
  /\ ends \in Seq(Nat) /\ arrived \in Nat /\ arrived <= EndOf(ends)
  /\ closed \in BOOLEAN /\ pos \in Nat /\ pos <= arrived
  /\ in \in {"header", "body"} /\ upto \in Int /\ cuts \in Seq(Int)
  /\ derailed \in BOOLEAN

\* Every packet has at least its TPKT header: the ends are increasing.
Increasing ==
  \A i, j \in 1 .. Len(ends) : i < j => ends[i] < ends[j]
Positive == \A i \in 1 .. Len(ends) : ends[i] > 0
HasHeader ==
  \A i \in 1 .. Len(ends) : ends[i] >= StartOf(i) + TPKT_HEADER_LENGTH

\* Between packets rcp_recv stands where the last packet it returned ended.
AtEnd == ~derailed /\ in = "header" => pos = EndOf(cuts)

FramingInv == /\ Types /\ Increasing /\ Positive /\ HasHeader
              /\ PacketsAsSent /\ InsidePacket /\ AtEnd

\* A packet starts at the end of the packet before it and at no other place.
LEMMA OneStart ==
  ASSUME Types, Increasing, Positive,
         NEW n \in 0 .. Len(ends) - 1,
         NEW i \in 1 .. Len(ends),
         StartOf(i) = StartOf(n + 1)
  PROVE  i = n + 1
<1> DEFINE L == Len(ends)
<1>1. L \in Nat /\ \A k \in 1 .. L : ends[k] \in Nat /\ ends[k] > 0
  BY DEF Types, Positive
<1>2. StartOf(i) = (IF i = 1 THEN 0 ELSE ends[i - 1])
  BY DEF StartOf
<1>3. StartOf(n + 1) = (IF n = 0 THEN 0 ELSE ends[n])
  BY <1>1 DEF StartOf
<1>4. CASE i = 1
  BY <1>1, <1>2, <1>3, <1>4
<1>5. CASE i # 1
  <2>1. i - 1 \in 1 .. L /\ n # 0 /\ n \in 1 .. L /\ ends[i - 1] = ends[n]
    BY <1>1, <1>2, <1>3, <1>5
  <2>2. i - 1 < n => ends[i - 1] < ends[n]
    BY <2>1 DEF Increasing
  <2>3. n < i - 1 => ends[n] < ends[i - 1]
    BY <2>1 DEF Increasing
  <2>. QED BY <1>1, <2>1, <2>2, <2>3
<1>. QED BY <1>4, <1>5

\* At the start nothing has come and nothing is expected.
LEMMA InitFraming == FramingInit => FramingInv
<1> SUFFICES ASSUME FramingInit PROVE FramingInv
  OBVIOUS
<1>1. Types
  <2>1. ends \in Seq(Nat) /\ cuts \in Seq(Int) /\ EndOf(ends) = 0
    BY DEF FramingInit, EndOf
  <2>2. arrived = 0 /\ pos = 0 /\ upto = 0 /\ in = "header"
    BY DEF FramingInit
  <2>3. closed \in BOOLEAN /\ derailed \in BOOLEAN
    BY DEF FramingInit
  <2>. QED BY <2>1, <2>2, <2>3 DEF Types
<1>2. Len(ends) = 0 /\ Len(cuts) = 0 /\ in = "header" /\ EndOf(cuts) = 0
  BY DEF FramingInit, EndOf
<1>3. Increasing /\ Positive /\ HasHeader /\ PacketsAsSent
  BY <1>2 DEF Increasing, Positive, HasHeader, PacketsAsSent
<1>4. InsidePacket /\ AtEnd
  BY <1>2 DEF FramingInit, InsidePacket, AtEnd
<1>. QED BY <1>1, <1>3, <1>4 DEF FramingInv

\* A new packet adds an end beyond all the others and moves nothing else.
LEMMA SendFraming == FramingInv /\ SendPacket => FramingInv'
<1> SUFFICES ASSUME FramingInv, SendPacket PROVE FramingInv'
  OBVIOUS
<1> USE DEF FramingInv
<1>1. PICK n \in Lengths : ends' = Append(ends, EndOf(ends) + n)
  BY DEF SendPacket
<1>2. n \in Nat /\ n >= 4
  BY FramingAssumption DEF TPKT_HEADER_LENGTH
<1>3. EndOf(ends) \in Nat
  BY DEF Types, EndOf
<1>4. /\ ends' \in Seq(Nat) /\ Len(ends') = Len(ends) + 1
      /\ ends'[Len(ends) + 1] = EndOf(ends) + n
      /\ \A i \in 1 .. Len(ends) : ends'[i] = ends[i]
      /\ EndOf(ends') = EndOf(ends) + n
  BY <1>1, <1>2, <1>3 DEF Types, EndOf
<1>5. UNCHANGED <<arrived, closed, pos, in, upto, cuts, derailed>>
  BY DEF SendPacket
<1>6. Types'
  BY <1>2, <1>3, <1>4, <1>5 DEF Types, EndOf
<1>7. \A i \in 1 .. Len(ends) : ends[i] <= EndOf(ends)
  <2> TAKE i \in 1 .. Len(ends)
  <2>1. EndOf(ends) = ends[Len(ends)] /\ Len(ends) \in 1 .. Len(ends)
    BY DEF Types, EndOf
  <2>2. i < Len(ends) => ends[i] < ends[Len(ends)]
    BY <2>1 DEF Increasing
  <2>. QED BY <2>1, <2>2 DEF Types
<1>8. Increasing' /\ Positive'
  <2> DEFINE L == Len(ends)
  <2>1. L \in Nat /\ \A i \in 1 .. L : ends[i] \in Nat
    BY DEF Types
  <2>2. /\ \A i \in 1 .. L + 1 : i \in 1 .. L \/ i = L + 1
        /\ EndOf(ends) < ends'[L + 1]
    BY <1>2, <1>3, <1>4, <2>1
  <2>3. Positive'
    BY <1>2, <1>3, <1>4, <2>1, <2>2 DEF Positive
  <2>4. ASSUME NEW i \in 1 .. L + 1, NEW j \in 1 .. L + 1, i < j
        PROVE  ends'[i] < ends'[j]
    <3>1. i \in 1 .. L
      BY <2>1, <2>4
    <3>2. CASE j \in 1 .. L
      BY <1>4, <2>4, <3>1, <3>2 DEF Increasing
    <3>3. CASE j = L + 1
      BY <1>3, <1>4, <1>7, <2>1, <2>2, <3>1, <3>3
    <3>. QED BY <2>2, <3>2, <3>3
  <2>5. Increasing'
    BY <1>4, <2>4 DEF Increasing
  <2>. QED BY <2>3, <2>5
<1>9. PacketsAsSent' /\ InsidePacket'
  <2>1. Len(cuts) \in Nat /\ Len(ends) \in Nat
    BY DEF Types
  <2>2. PacketsAsSent'
    BY <1>4, <1>5, <2>1 DEF PacketsAsSent
  <2>3. InsidePacket'
    BY <1>4, <1>5, <2>1 DEF InsidePacket
  <2>. QED BY <2>2, <2>3
<1>10. AtEnd'
  BY <1>5 DEF AtEnd, EndOf
<1>11. HasHeader'
  <2> DEFINE L == Len(ends)
  <2>1. L \in Nat /\ Len(ends') = L + 1
        /\ \A i \in 1 .. L + 1 : i \in 1 .. L \/ i = L + 1
    BY <1>4 DEF Types
  <2>2. ASSUME NEW i \in 1 .. L
        PROVE  ends'[i] >= StartOf(i)' + TPKT_HEADER_LENGTH
    <3>1. StartOf(i)' = StartOf(i)
      BY <1>4, <2>1, <2>2 DEF StartOf
    <3>. QED BY <1>4, <2>2, <3>1 DEF HasHeader
  <2>3. ASSUME NEW i \in Nat, i = L + 1
        PROVE  ends'[i] >= StartOf(i)' + TPKT_HEADER_LENGTH
    <3>1. EndOf(ends) = (IF L = 0 THEN 0 ELSE ends[L])
      BY DEF EndOf, Types
    <3>2. StartOf(i)' = (IF L = 0 THEN 0 ELSE ends[L])
      BY <1>4, <2>1, <2>3 DEF StartOf
    <3>. QED
      BY <1>2, <1>3, <1>4, <2>1, <2>3, <3>1, <3>2 DEF TPKT_HEADER_LENGTH
  <2>. QED BY <2>1, <2>2, <2>3 DEF HasHeader
<1>. QED BY <1>6, <1>8, <1>9, <1>10, <1>11

\* rcp_recv reads the header of the packet after the last one it returned.
LEMMA HeaderFraming == FramingInv /\ RecvHeader => FramingInv'
<1> SUFFICES ASSUME FramingInv, RecvHeader PROVE FramingInv'
  OBVIOUS
<1> USE DEF FramingInv
<1>1. /\ in = "header" /\ arrived - pos >= 4 /\ pos' = pos + 4
      /\ in' = "body"
      /\ UNCHANGED <<ends, arrived, closed, cuts, derailed>>
  BY DEF RecvHeader, Available, TPKT_HEADER_LENGTH
<1>2. upto' \in Int
  BY <1>1, FramingAssumption DEF RecvHeader, TPKT_HEADER_LENGTH, Types
<1>3. /\ Types' /\ Increasing' /\ Positive' /\ HasHeader'
      /\ PacketsAsSent' /\ AtEnd'
  BY <1>1, <1>2 DEF Types, Increasing, Positive, HasHeader, StartOf,
              PacketsAsSent, AtEnd, EndOf
<1>4. ASSUME ~derailed
      PROVE  Len(cuts) < Len(ends) /\ upto' = ends[Len(cuts) + 1]
                                   /\ pos' <= upto'
  <2>1. pos = EndOf(cuts)
    BY <1>1, <1>4 DEF AtEnd
  <2>2. Len(cuts) < Len(ends)
    BY <1>1, <1>4, <2>1 DEF Types, PacketsAsSent, EndOf
  <2>3. pos = StartOf(Len(cuts) + 1)
    BY <1>4, <2>1, <2>2 DEF Types, PacketsAsSent, EndOf, StartOf
  <2>4. Len(cuts) + 1 \in 1 .. Len(ends)
    BY <2>2 DEF Types
  <2>5. PICK i \in 1 .. Len(ends) :
          StartsPacket(i) /\ upto' = pos' + (ends[i] - pos - 4)
    BY <2>3, <2>4 DEF RecvHeader, StartsPacket, TPKT_HEADER_LENGTH
  <2>6. i = Len(cuts) + 1
    <3>1. Len(cuts) \in 0 .. Len(ends) - 1
      BY <2>2 DEF Types
    <3>2. StartOf(i) = StartOf(Len(cuts) + 1)
      BY <2>3, <2>5 DEF StartsPacket
    <3>. QED BY <3>1, <3>2, OneStart
  <2>7. upto' = ends[Len(cuts) + 1]
    BY <1>1, <2>4, <2>5, <2>6 DEF Types
  <2>8. pos' <= upto'
    <3>1. ends[i] >= pos + 4
      BY <2>5 DEF HasHeader, StartsPacket, TPKT_HEADER_LENGTH
    <3>2. ends[i] \in Nat /\ pos \in Nat
      BY DEF Types
    <3>. QED BY <1>1, <2>5, <3>1, <3>2
  <2>. QED BY <2>2, <2>7, <2>8
<1>5. InsidePacket'
  BY <1>1, <1>4 DEF InsidePacket
<1>. QED BY <1>3, <1>5

\* Every step of the network and of rcp_recv keeps the invariant.
LEMMA NextFraming == FramingInv /\ [FramingNext]_framingVars => FramingInv'
<1> SUFFICES ASSUME FramingInv, [FramingNext]_framingVars PROVE FramingInv'
  OBVIOUS
<1> USE DEF FramingInv
<1>1. CASE SendPacket
  BY <1>1, SendFraming
<1>2. CASE Arrive
  BY <1>2 DEF Arrive, Types, Increasing, Positive, HasHeader, StartOf,
              PacketsAsSent,
              InsidePacket, AtEnd, EndOf
<1>3. CASE Close
  BY <1>3 DEF Close, Types, Increasing, Positive, HasHeader, StartOf,
              PacketsAsSent,
              InsidePacket, AtEnd, EndOf
<1>4. CASE RecvHeader
  BY <1>4, HeaderFraming
<1>5. CASE RecvPartOfHeader
  <2>1. /\ pos' \in Nat /\ pos' <= arrived /\ upto' \in Int
        /\ in' = "body" /\ derailed' = TRUE
        /\ UNCHANGED <<ends, arrived, closed, cuts>>
    BY <1>5, FramingAssumption
       DEF RecvPartOfHeader, Types, Available, TPKT_HEADER_LENGTH
  <2>. QED
    BY <2>1 DEF Types, Increasing, Positive, HasHeader, StartOf,
              PacketsAsSent, InsidePacket,
                AtEnd, EndOf
<1>6. CASE RecvBody
  BY <1>6 DEF RecvBody, Available, Types, Increasing, Positive, HasHeader,
              StartOf, PacketsAsSent, InsidePacket, AtEnd, EndOf
<1>7. CASE ReturnPacket
  <2>1. /\ in = "body" /\ pos >= upto /\ in' = "header"
        /\ cuts' = Append(cuts, pos)
        /\ UNCHANGED <<ends, arrived, closed, pos, upto, derailed>>
    BY <1>7 DEF ReturnPacket
  <2>2. /\ Len(cuts') = Len(cuts) + 1 /\ cuts' \in Seq(Int)
        /\ cuts'[Len(cuts) + 1] = pos
        /\ \A i \in 1 .. Len(cuts) : cuts'[i] = cuts[i]
    BY <2>1 DEF Types
  <2>3. Types' /\ Increasing' /\ Positive' /\ HasHeader' /\ InsidePacket'
    BY <2>1, <2>2 DEF Types, Increasing, Positive, HasHeader, StartOf,
                      InsidePacket, EndOf
  <2>4. AtEnd'
    BY <2>1, <2>2, SMTT(30) DEF AtEnd, EndOf, Types
  <2>5. PacketsAsSent'
    BY <2>1, <2>2 DEF PacketsAsSent, InsidePacket, Types
  <2>. QED BY <2>3, <2>4, <2>5
<1>8. CASE RecvFails
  BY <1>8 DEF RecvFails, Types, Increasing, Positive, HasHeader, StartOf,
              PacketsAsSent,
              InsidePacket, AtEnd, EndOf
<1>9. CASE UNCHANGED framingVars
  BY <1>9 DEF framingVars, Types, Increasing, Positive, HasHeader, StartOf,
              PacketsAsSent,
              InsidePacket, AtEnd, EndOf
<1>. QED
  BY <1>1, <1>2, <1>3, <1>4, <1>5, <1>6, <1>7, <1>8, <1>9
     DEF FramingNext, rcp_recv, Drained

\* So it holds for ever.
LEMMA FramingInvariant == FramingSpec => []FramingInv
BY InitFraming, NextFraming, PTL DEF FramingSpec

\* Every packet returned is a packet sent, whole and in its turn, as long as no
\* TPKT header came in parts and no body was given up (rcp_recv).
THEOREM PacketsReturnedAsSent == FramingSpec => []PacketsAsSent
<1>1. FramingInv => PacketsAsSent
  BY DEF FramingInv
<1>. QED BY <1>1, FramingInvariant, PTL

\* rcp_recv never reads beyond the packet that it is cutting out (the bound
\* len-received of recv).
THEOREM BodiesStayInside == FramingSpec => []InsidePacket
<1>1. FramingInv => InsidePacket
  BY DEF FramingInv
<1>. QED BY <1>1, FramingInvariant, PTL
-----------------------------------------------------------------------------
(***************************************************************************)
(* The answers with a structure.  An answer is put together from pieces of *)
(* any number by FlattenSeq, which is recursive; so the first lemmas are   *)
(* an induction over numbers, and what FlattenSeq does.                    *)
(***************************************************************************)

\* Every set of numbers has a least one; hence induction, for sets.
LEMMA Least ==
  ASSUME NEW T, T \subseteq Nat, T # {}
  PROVE  \E n \in T : \A m \in T : n <= m
<1> DEFINE R == OpToRel(<, Nat)
<1>1. IsWellFoundedOn(R, Nat)
  BY NatLessThanWellFounded
<1>2. \A x, y \in Nat : y < x => <<y, x>> \in R
  BY DEF OpToRel
<1> HIDE DEF R
<1>3. \E x \in T : \A y \in T : ~(<<y, x>> \in R)
  BY <1>1, WFMin
<1>4. PICK n \in T : \A m \in T : ~(<<m, n>> \in R)
  BY <1>3
<1>5. \A m \in T : ~(m < n)
  BY <1>2, <1>4
<1> QED BY <1>5

\* The numbers up to n are all in a set that has the first and with each its
\* successor.
LEMMA Upwards ==
  ASSUME NEW T, NEW n \in Nat, 0 \in T,
         \A i \in 0 .. n - 1 : i \in T => i + 1 \in T
  PROVE  \A i \in 0 .. n : i \in T
<1> SUFFICES ASSUME NEW k \in 0 .. n, k \notin T PROVE FALSE
  OBVIOUS
<1> DEFINE U == {i \in 0 .. n : i \notin T}
<1>1. PICK i \in U : \A m \in U : i <= m
  <2>1. U \subseteq Nat /\ U # {}
    OBVIOUS
  <2> HIDE DEF U
  <2> QED BY <2>1, Least
<1>2. i # 0 /\ i - 1 \in 0 .. n - 1 /\ i - 1 + 1 = i
  OBVIOUS
<1>3. i - 1 \notin U
  BY <1>1, <1>2
<1> QED BY <1>2, <1>3

\* FlattenSeq(s) is the last of the sequences that begin with the first element
\* of s and grow by the next.
Grows(j, s, n) ==
  j = [i \in 1 .. n |-> IF i = 1 THEN s[i] ELSE j[i - 1] \o s[i]]

\* There is such a function, for any n: by induction.
LEMMA GrowsExists ==
  ASSUME NEW s, NEW n \in Nat
  PROVE  \E j : Grows(j, s, n)
<1> DEFINE T == {i \in Nat : \E j : Grows(j, s, i)}
<1>1. 0 \in T
  <2> DEFINE j == [i \in 1 .. 0 |-> <<>>]
  <2>1. j = [i \in 1 .. 0 |-> IF i = 1 THEN s[i] ELSE j[i - 1] \o s[i]]
    OBVIOUS
  <2> HIDE DEF j
  <2> QED BY <2>1 DEF Grows
<1>2. ASSUME NEW i \in 0 .. n - 1, i \in T PROVE i + 1 \in T
  <2>1. PICK j : Grows(j, s, i)
    BY <1>2
  <2> DEFINE new == IF i + 1 = 1 THEN s[i + 1] ELSE j[i] \o s[i + 1]
             g == [k \in 1 .. i + 1 |-> IF k = i + 1 THEN new ELSE j[k]]
             h == [k \in 1 .. i + 1 |->
                     IF k = 1 THEN s[k] ELSE g[k - 1] \o s[k]]
  <2>2. ASSUME NEW k \in 1 .. i + 1 PROVE g[k] = h[k]
    <3>1. CASE k = i + 1
      <4>1. g[k] = new
        BY <3>1
      <4>2. CASE k = 1
        BY <3>1, <4>1, <4>2
      <4>3. CASE k # 1
        <5>1. k - 1 \in 1 .. i + 1 /\ k - 1 # i + 1 /\ k - 1 = i
          BY <3>1, <4>3
        <5>2. g[k - 1] = j[i]
          BY <5>1
        <5>3. h[k] = g[k - 1] \o s[k]
          BY <4>3
        <5> QED BY <3>1, <4>1, <4>3, <5>2, <5>3
      <4> QED BY <4>2, <4>3
    <3>2. CASE k # i + 1
      <4>1. k \in 1 .. i /\ g[k] = j[k]
        BY <3>2
      <4>2. j[k] = IF k = 1 THEN s[k] ELSE j[k - 1] \o s[k]
        BY <2>1, <4>1 DEF Grows
      <4>3. CASE k # 1
        <5>1. k - 1 \in 1 .. i + 1 /\ k - 1 # i + 1
          BY <4>1, <4>3
        <5>2. g[k - 1] = j[k - 1]
          BY <5>1
        <5> QED BY <4>1, <4>2, <4>3, <5>2
      <4> QED BY <4>1, <4>2, <4>3
    <3> QED BY <3>1, <3>2
  <2>3. g = h
    <3>1. DOMAIN g = 1 .. i + 1 /\ DOMAIN h = 1 .. i + 1
          /\ g = [k \in 1 .. i + 1 |-> g[k]] /\ h = [k \in 1 .. i + 1 |-> h[k]]
      OBVIOUS
    <3> HIDE DEF g, h
    <3> QED BY <2>2, <3>1
  <2>4. Grows(g, s, i + 1)
    <3> HIDE DEF g
    <3> QED BY <2>3 DEF Grows
  <2> HIDE DEF g
  <2> QED BY <2>4
<1>3. \A i \in 0 .. n : i \in T
  <2> HIDE DEF T
  <2> QED BY <1>1, <1>2, Upwards
<1> QED BY <1>3

\* FlattenSeq takes the last value of such a function.
LEMMA FlattenIs ==
  ASSUME NEW s, Len(s) \in Nat \ {0}
  PROVE  \E j : Grows(j, s, Len(s)) /\ FlattenSeq(s) = j[Len(s)]
<1> DEFINE c == CHOOSE j : Grows(j, s, Len(s))
<1>1. Grows(c, s, Len(s))
  BY GrowsExists
<1>2. FlattenSeq(s) = c[Len(s)]
  BY DEF FlattenSeq, Grows
<1> QED BY <1>1, <1>2

\* Where each element of s ends in FlattenSeq(s), and what lies between.
LEMMA Flattened ==
  ASSUME NEW s \in Seq(Seq(Nat))
  PROVE  \E till \in [0 .. Len(s) -> Nat] :
           /\ till[0] = 0
           /\ \A i \in 1 .. Len(s) : till[i] = till[i - 1] + Len(s[i])
           /\ FlattenSeq(s) \in Seq(Nat) /\ Len(FlattenSeq(s)) = till[Len(s)]
           /\ \A i \in 1 .. Len(s) : \A k \in 1 .. Len(s[i]) :
                FlattenSeq(s)[till[i - 1] + k] = s[i][k]
<1>1. CASE Len(s) = 0
  <2>1. FlattenSeq(s) = s /\ s \in Seq(Nat)
    BY <1>1 DEF FlattenSeq
  <2> DEFINE till == [i \in 0 .. Len(s) |-> 0]
  <2>2. /\ till \in [0 .. Len(s) -> Nat] /\ till[0] = 0 /\ till[Len(s)] = 0
    BY <1>1
  <2> HIDE DEF till
  <2> QED BY <1>1, <2>1, <2>2
<1>2. CASE Len(s) # 0
  <2> DEFINE n == Len(s)
  <2>1. n \in Nat \ {0} /\ \A i \in 1 .. n : s[i] \in Seq(Nat)
    BY <1>2
  <2>2. PICK j : Grows(j, s, n) /\ FlattenSeq(s) = j[n]
    BY <2>1, FlattenIs
  <2> DEFINE till == [i \in 0 .. n |-> IF i = 0 THEN 0 ELSE Len(j[i])]
             J == [i \in 0 .. n |-> IF i = 0 THEN <<>> ELSE j[i]]
  <2>3. ASSUME NEW i \in 1 .. n PROVE J[i] = J[i - 1] \o s[i]
    <3>1. j[i] = IF i = 1 THEN s[i] ELSE j[i - 1] \o s[i]
      BY <2>2 DEF Grows
    <3>2. s[i] = <<>> \o s[i]
      BY <2>1
    <3>3. i \in 0 .. n /\ i # 0 /\ i - 1 \in 0 .. n
      BY <2>1
    <3>4. J[i] = j[i]
      BY <3>3
    <3>5. CASE i = 1
      <4>1. J[i - 1] = <<>>
        BY <3>3, <3>5
      <4> HIDE DEF J
      <4> QED BY <3>1, <3>2, <3>4, <3>5, <4>1
    <3>6. CASE i # 1
      <4>1. J[i - 1] = j[i - 1]
        BY <3>3, <3>6
      <4> HIDE DEF J
      <4> QED BY <3>1, <3>4, <3>6, <4>1
    <3> QED BY <3>5, <3>6
  <2>4. J[0] = <<>> /\ FlattenSeq(s) = J[n]
        /\ \A i \in 0 .. n : till[i] = Len(J[i])
    BY <2>1, <2>2
  <2>5. DOMAIN till = 0 .. n /\ till = [i \in 0 .. n |-> till[i]]
    OBVIOUS
  <2> HIDE DEF n, J, till
  <2> DEFINE T == {i \in Nat : J[i] \in Seq(Nat)}
  <2>6. \A i \in 0 .. n : J[i] \in Seq(Nat) /\ till[i] \in Nat
    <3>1. 0 \in T
      <4>1. J[0] \in Seq(Nat)
        <5>1. <<>> \in Seq(Nat)
          OBVIOUS
        <5> QED BY <2>4, <5>1
      <4> QED BY <4>1
    <3>2. ASSUME NEW i \in 0 .. n - 1, i \in T PROVE i + 1 \in T
      <4>1. i + 1 \in 1 .. n /\ i + 1 - 1 = i /\ i + 1 \in Nat
        BY <2>1
      <4>3. J[i + 1] = J[i] \o s[i + 1]
        <5> DEFINE m == i + 1
        <5>1. m \in 1 .. n /\ m - 1 = i
          BY <4>1
        <5> HIDE DEF m
        <5>2. J[m] = J[m - 1] \o s[m]
          BY <2>3, <5>1
        <5> QED BY <5>1, <5>2 DEF m
      <4>4. J[i] \in Seq(Nat) /\ s[i + 1] \in Seq(Nat)
        BY <2>1, <3>2, <4>1
      <4> HIDE DEF T
      <4>5. J[i + 1] \in Seq(Nat)
        BY <4>3, <4>4
      <4> QED BY <4>1, <4>5 DEF T
    <3>3. \A i \in 0 .. n : i \in T
      <4> HIDE DEF T
      <4> QED BY <2>1, <3>1, <3>2, Upwards
    <3> QED BY <2>4, <3>3
  <2>7. ASSUME NEW i \in 1 .. n
        PROVE  /\ till[i] = till[i - 1] + Len(s[i])
               /\ \A k \in 1 .. till[i - 1] : J[i][k] = J[i - 1][k]
               /\ \A k \in 1 .. Len(s[i]) : J[i][till[i - 1] + k] = s[i][k]
    <3> DEFINE a == J[i - 1]
               b == s[i]
               c == J[i]
    <3>1. i \in 0 .. n /\ i - 1 \in 0 .. n
      BY <2>1
    <3>2. c = a \o b /\ a \in Seq(Nat) /\ b \in Seq(Nat)
      BY <2>1, <2>3, <2>6, <3>1
    <3>3. till[i] = Len(c) /\ till[i - 1] = Len(a)
      BY <2>4, <3>1
    <3> HIDE DEF a, b, c
    <3>4. /\ Len(c) = Len(a) + Len(b)
          /\ \A k \in 1 .. Len(a) : c[k] = a[k]
          /\ \A k \in 1 .. Len(b) : c[Len(a) + k] = b[k]
      BY <3>2
    <3> QED BY <3>3, <3>4 DEF a, b, c
  <2> DEFINE U == {i \in Nat :
                     \A h \in 1 .. i : \A k \in 1 .. Len(s[h]) :
                        /\ till[h - 1] + k <= till[i]
                        /\ J[i][till[h - 1] + k] = s[h][k]}
  <2>8. ASSUME NEW i \in 0 .. n - 1, i \in U PROVE i + 1 \in U
    <3>1. i \in 0 .. n /\ i + 1 \in 1 .. n /\ i + 1 \in 0 .. n /\ i \in Nat
          /\ i + 1 - 1 = i /\ i + 1 \in Nat
      BY <2>1
    <3>2. /\ till[i + 1] = till[i] + Len(s[i + 1])
          /\ \A k \in 1 .. till[i] : J[i + 1][k] = J[i][k]
          /\ \A k \in 1 .. Len(s[i + 1]) : J[i + 1][till[i] + k] = s[i + 1][k]
      BY <2>7, <3>1
    <3>3. till[i] \in Nat /\ till[i + 1] \in Nat /\ Len(s[i + 1]) \in Nat
      BY <2>1, <2>6, <3>1
    <3>4. ASSUME NEW h \in 1 .. i + 1, NEW k \in 1 .. Len(s[h])
          PROVE  /\ till[h - 1] + k <= till[i + 1]
                 /\ J[i + 1][till[h - 1] + k] = s[h][k]
      <4>1. CASE h = i + 1
        <5>1. h - 1 = i /\ k \in 1 .. Len(s[i + 1])
          BY <3>1, <4>1
        <5> QED BY <3>2, <3>3, <4>1, <5>1
      <4>2. CASE h # i + 1
        <5>1. h \in 1 .. i /\ h - 1 \in 0 .. n /\ h \in 1 .. n
          BY <2>1, <3>1, <4>2
        <5>2. till[h - 1] + k <= till[i] /\ J[i][till[h - 1] + k] = s[h][k]
          BY <2>8, <5>1
        <5>3. till[h - 1] \in Nat /\ k \in Nat \ {0}
          BY <2>1, <2>6, <5>1
        <5> DEFINE q == till[h - 1] + k
        <5>4. q \in 1 .. till[i] /\ q <= till[i + 1]
          <6> DEFINE x == till[h - 1]
                     y == till[i]
                     z == till[i + 1]
                     l == Len(s[i + 1])
          <6>1. /\ x \in Nat /\ y \in Nat /\ z \in Nat /\ l \in Nat
                /\ k \in Nat \ {0} /\ z = y + l /\ x + k <= y
            BY <3>2, <3>3, <5>2, <5>3
          <6> HIDE DEF x, y, z, l
          <6>2. x + k \in 1 .. y /\ x + k <= z
            BY <6>1
          <6> QED BY <6>2 DEF x, y, z
        <5>5. J[i][q] = s[h][k]
          BY <5>2
        <5> HIDE DEF q
        <5>6. J[i + 1][q] = J[i][q]
          BY <3>2, <5>4
        <5> QED BY <5>4, <5>5, <5>6 DEF q
      <4> QED BY <4>1, <4>2
    <3> QED BY <3>1, <3>4
  <2>9. n \in U
    <3>1. 0 \in U
      OBVIOUS
    <3>2. \A i \in 0 .. n : i \in U
      <4> HIDE DEF U
      <4> QED BY <2>1, <2>8, <3>1, Upwards
    <3> HIDE DEF U
    <3> QED BY <2>1, <3>2
  <2>10. till \in [0 .. n -> Nat] /\ till[0] = 0
    BY <2>1, <2>4, <2>5, <2>6
  <2>11. FlattenSeq(s) \in Seq(Nat) /\ Len(FlattenSeq(s)) = till[n]
    BY <2>1, <2>4, <2>6, SMTT(30)
  <2>12. \A h \in 1 .. n : \A k \in 1 .. Len(s[h]) :
           FlattenSeq(s)[till[h - 1] + k] = s[h][k]
    BY <2>4, <2>9
  <2>13. \A i \in 1 .. n : till[i] = till[i - 1] + Len(s[i])
    BY <2>7
  <2> HIDE DEF T, U
  <2> QED BY <2>10, <2>11, <2>12, <2>13 DEF n
<1> QED BY <1>1, <1>2

\* What a multiple grows by.
LEMMA Multiples ==
  ASSUME NEW i \in Int, NEW w \in {1, 2, 3, 5, 8}
  PROVE  i * w \in Int /\ (i + 1) * w = i * w + w /\ (i >= 0 => i * w >= 0)
OBVIOUS

\* Pieces of one length lie at its multiples.
LEMMA EvenPieces ==
  ASSUME NEW s \in Seq(Seq(Nat)), NEW w \in {1, 2, 3, 5, 8},
         \A i \in 1 .. Len(s) : Len(s[i]) = w
  PROVE  /\ FlattenSeq(s) \in Seq(Nat) /\ Len(FlattenSeq(s)) = Len(s) * w
         /\ \A i \in 1 .. Len(s) : \A k \in 1 .. w :
              FlattenSeq(s)[(i - 1) * w + k] = s[i][k]
<1>1. PICK till \in [0 .. Len(s) -> Nat] :
        /\ till[0] = 0
        /\ \A i \in 1 .. Len(s) : till[i] = till[i - 1] + Len(s[i])
        /\ FlattenSeq(s) \in Seq(Nat) /\ Len(FlattenSeq(s)) = till[Len(s)]
        /\ \A i \in 1 .. Len(s) : \A k \in 1 .. Len(s[i]) :
             FlattenSeq(s)[till[i - 1] + k] = s[i][k]
  BY Flattened
<1>2. Len(s) \in Nat
  OBVIOUS
<1> DEFINE T == {i \in Nat : till[i] = i * w}
<1>3. 0 \in T
  <2>1. 0 * w = 0
    OBVIOUS
  <2> QED BY <1>1, <2>1
<1>4. ASSUME NEW i \in 0 .. Len(s) - 1, i \in T PROVE i + 1 \in T
  <2> DEFINE m == i + 1
  <2>1. m \in 1 .. Len(s) /\ m - 1 = i /\ m \in Nat
    BY <1>2
  <2>2. m * w = i * w + w
    BY Multiples
  <2> HIDE DEF m
  <2>3. till[m] = till[m - 1] + w
    BY <1>1, <2>1
  <2>4. till[i] = i * w
    BY <1>4
  <2>5. m \in T
    BY <2>1, <2>2, <2>3, <2>4
  <2> QED BY <2>5 DEF m
<1>5. \A i \in 0 .. Len(s) : i \in T
  <2> HIDE DEF T
  <2> QED BY <1>2, <1>3, <1>4, Upwards
<1>6. Len(FlattenSeq(s)) = Len(s) * w
  BY <1>1, <1>2, <1>5
<1>7. ASSUME NEW i \in 1 .. Len(s), NEW k \in 1 .. w
      PROVE  FlattenSeq(s)[(i - 1) * w + k] = s[i][k]
  <2>1. i - 1 \in 0 .. Len(s)
    BY <1>2
  <2>2. till[i - 1] = (i - 1) * w
    BY <1>5, <2>1
  <2> QED BY <1>1, <2>2
<1> QED BY <1>1, <1>6, <1>7

-----------------------------------------------------------------------------
\* An element and a section are as long as their type says.
SectionTypes == Known \union {NewType}
Width(t) == FieldsOf(t) + 1

\* The widths are few, and the code's count of fields is the device's.
LEMMA Wide ==
  ASSUME NEW t \in SectionTypes
  PROVE  /\ Width(t) \in {2, 3, 5} /\ t \in Nat
         /\ t \in Known => FieldCount(t) + 1 = Width(t)
BY DEF SectionTypes, Known, NewType, Width, FieldsOf, FieldCount, Widths

\* Every element of a section has the width of its type.
LEMMA ElementIs ==
  ASSUME NEW t \in SectionTypes, NEW i \in Nat, NEW n \in Nat
  PROVE  LET s == Section(i, t, n)
         IN  /\ s.type = t /\ s.elements \in Seq(Seq(Nat))
             /\ Len(s.elements) = n
             /\ \A j \in 1 .. n : Len(s.elements[j]) = Width(t)
<1> DEFINE w == Width(t)
           e == [j \in 1 .. n |-> Element(i, j, t)]
<1>1. Section(i, t, n).type = t /\ Section(i, t, n).elements = e
  BY DEF Section
<1>2. w \in {2, 3, 5} /\ w \in Nat
  BY Wide
<1>3. \A j \in 1 .. n : Element(i, j, t)
                          = [f \in 1 .. w |-> 1000 * i + 100 * j + f]
  BY DEF Element, Width
<1> HIDE DEF w
<1>4. ASSUME NEW j \in 1 .. n
      PROVE  Element(i, j, t) \in Seq(Nat) /\ Len(Element(i, j, t)) = w
  <2>1. \A f \in 1 .. w : 1000 * i + 100 * j + f \in Nat
    BY <1>2
  <2> QED BY <1>2, <1>3, <2>1
<1>5. e \in Seq(Seq(Nat)) /\ Len(e) = n
  BY <1>4
<1>6. \A j \in 1 .. n : Len(e[j]) = w
  BY <1>4
<1> HIDE DEF e
<1> QED BY <1>1, <1>5, <1>6 DEF w

\* Three words before others.
Heads(o, x, y, z, b) == o = <<x, y, z>> \o b

\* What is in such a sequence.
LEMMA Header ==
  ASSUME NEW o, NEW x \in Nat, NEW y \in Nat, NEW z \in Nat,
         NEW b \in Seq(Nat), Heads(o, x, y, z, b)
  PROVE  /\ o \in Seq(Nat) /\ Len(o) = 3 + Len(b)
         /\ o[1] = x /\ o[2] = y /\ o[3] = z
         /\ \A q \in 1 .. Len(b) : o[3 + q] = b[q]
<1>1. PICK a \in Seq(Nat) : a = <<x, y, z>>
  <2>1. <<x, y, z>> \in Seq(Nat)
    OBVIOUS
  <2> QED BY <2>1
<1>2. PICK n \in Nat : n = 3
  OBVIOUS
<1>3. Len(a) = n
  BY <1>1, <1>2
<1>4. a[1] = x /\ a[2] = y /\ a[3] = z
  BY <1>1
<1>5. o = a \o b
  BY <1>1 DEF Heads
<1>6. o \in Seq(Nat) /\ Len(o) = n + Len(b)
  <2>1. a \o b \in Seq(Nat) /\ Len(a \o b) = n + Len(b)
    BY ONLY n \in Nat, a \in Seq(Nat), b \in Seq(Nat), <1>3
  <2> QED BY ONLY <2>1, <1>5, Zenon
<1>7. \A q \in 1 .. n : o[q] = a[q]
  <2>1. \A q \in 1 .. n : (a \o b)[q] = a[q]
    BY ONLY n \in Nat, a \in Seq(Nat), b \in Seq(Nat), <1>3
  <2> QED BY ONLY <2>1, <1>5, Zenon
<1>8. \A q \in 1 .. Len(b) : o[n + q] = b[q]
  <2>1. \A q \in 1 .. Len(b) : (a \o b)[n + q] = b[q]
    BY ONLY n \in Nat, a \in Seq(Nat), b \in Seq(Nat), <1>3
  <2> QED BY ONLY <2>1, <1>5, Zenon
<1>9. o[1] = x /\ o[2] = y /\ o[3] = z
  BY <1>2, <1>4, <1>7
<1>10. \A q \in 1 .. Len(b) : o[3 + q] = b[q]
  BY ONLY <1>2, <1>8, Zenon
<1>11. Len(o) = 3 + Len(b)
  BY ONLY <1>2, <1>6, Zenon
<1> QED BY ONLY <1>6, <1>9, <1>10, <1>11, Zenon

\* A section of an answer: its type and what is in it; how many words it has,
\* which of them is word k of the element j, and where they are in the answer a
\* when p words come before them.
GoodSection(s) ==
  /\ s.type \in SectionTypes
  /\ s.elements \in Seq(Seq(Nat))
  /\ \A j \in 1 .. Len(s.elements) : Len(s.elements[j]) = Width(s.type)

Size(s) == 3 + Len(s.elements) * Width(s.type)
Place(s, j, k) == 3 + (j - 1) * Width(s.type) + k

LiesAt(a, p, s) ==
  /\ p + 1 \in 1 .. Len(a) /\ a[p + 1] = s.type
  /\ p + 3 \in 1 .. Len(a) /\ a[p + 3] = Len(s.elements)
  /\ \A j \in 1 .. Len(s.elements) : \A k \in 1 .. Width(s.type) :
       /\ p + Place(s, j, k) \in 1 .. Len(a)
       /\ a[p + Place(s, j, k)] = s.elements[j][k]

\* A word of an element is behind the head of its section and inside it.
LEMMA Sizes ==
  ASSUME NEW s, GoodSection(s)
  PROVE  /\ Size(s) \in Nat /\ Size(s) >= 3 /\ Len(s.elements) \in Nat
         /\ \A j \in 1 .. Len(s.elements) : \A k \in 1 .. Width(s.type) :
              Place(s, j, k) \in 4 .. Size(s)
<1> DEFINE n == Len(s.elements)
           w == Width(s.type)
<1>1. n \in Nat /\ w \in {2, 3, 5}
  BY Wide DEF GoodSection
<1> SUFFICES /\ 3 + n * w \in Nat /\ 3 + n * w >= 3 /\ n \in Nat
             /\ \A j \in 1 .. n : \A k \in 1 .. w :
                  3 + (j - 1) * w + k \in 4 .. 3 + n * w
  BY DEF Size, Place
<1> HIDE DEF n, w
<1>2. n * w \in Nat
  BY <1>1
<1>3. ASSUME NEW j \in 1 .. n, NEW k \in 1 .. w
      PROVE  3 + (j - 1) * w + k \in 4 .. 3 + n * w
  <2> DEFINE x == (j - 1) * w
             z == n * w
  <2>1. x \in Nat /\ x + w <= z /\ z \in Nat
    BY <1>1
  <2>2. k \in 1 .. w /\ w \in Nat
    BY <1>1
  <2> HIDE DEF x, z
  <2>3. 3 + x + k \in 4 .. 3 + z
    BY <2>1, <2>2
  <2> QED BY <2>3 DEF x, z
<1> QED BY <1>1, <1>2, <1>3

\* What the device makes of a section.
LEMMA WordsOfSection ==
  ASSUME NEW s, GoodSection(s)
  PROVE  /\ SectionWords(s) \in Seq(Nat) /\ Len(SectionWords(s)) = Size(s)
         /\ LiesAt(SectionWords(s), 0, s)
<1> DEFINE t == s.type
           e == s.elements
           n == Len(e)
           w == Width(t)
           tail == FlattenSeq(e)
           y == 6 + 2 * n * w
           o == SectionWords(s)
<1>1. /\ t \in SectionTypes /\ e \in Seq(Seq(Nat))
      /\ \A j \in 1 .. n : Len(e[j]) = w
  BY DEF GoodSection
<1>2. Heads(o, t, y, n, tail)
  BY DEF SectionWords, Width, Heads
<1>3. n = Len(e) /\ tail = FlattenSeq(e) /\ n \in Nat
  BY <1>1
<1>4. w \in {2, 3, 5} /\ t \in Nat /\ w \in {1, 2, 3, 5, 8} /\ w \in Nat
  BY <1>1, Wide
<1>5. y \in Nat
  <2> HIDE DEF n, w
  <2> QED BY <1>3, <1>4
<1>6. /\ Size(s) = 3 + n * w
      /\ \A j, k : Place(s, j, k) = 3 + (j - 1) * w + k
  BY DEF Size, Place
<1>7. LiesAt(o, 0, s) <=>
        /\ 0 + 1 \in 1 .. Len(o) /\ o[0 + 1] = t
        /\ 0 + 3 \in 1 .. Len(o) /\ o[0 + 3] = n
        /\ \A j \in 1 .. n : \A k \in 1 .. w :
             /\ 0 + Place(s, j, k) \in 1 .. Len(o)
             /\ o[0 + Place(s, j, k)] = e[j][k]
  BY DEF LiesAt
<1>8. /\ Size(s) \in Nat /\ Size(s) >= 3
      /\ \A j \in 1 .. n : \A k \in 1 .. w : Place(s, j, k) \in 4 .. Size(s)
  BY Sizes
<1> SUFFICES /\ o \in Seq(Nat) /\ Len(o) = Size(s)
             /\ LiesAt(o, 0, s)
  OBVIOUS
<1> HIDE DEF t, e, n, w, y, o
<1> HIDE DEF tail
<1>9. /\ tail \in Seq(Nat) /\ Len(tail) = n * w
      /\ \A j \in 1 .. n : \A k \in 1 .. w :
           tail[(j - 1) * w + k] = e[j][k]
  BY <1>1, <1>3, <1>4, EvenPieces
<1>10. /\ o \in Seq(Nat) /\ Len(o) = 3 + Len(tail) /\ o[1] = t /\ o[3] = n
       /\ \A q \in 1 .. Len(tail) : o[3 + q] = tail[q]
  <2>1. tail \in Seq(Nat)
    BY <1>9
  <2>2. t \in Nat /\ n \in Nat /\ y \in Nat
    BY <1>3, <1>4, <1>5
  <2> QED BY ONLY <1>2, <2>1, <2>2, Header
<1>11. Len(o) = Size(s)
  BY <1>6, <1>9, <1>10
<1>12. ASSUME NEW j \in 1 .. n, NEW k \in 1 .. w
       PROVE  /\ Place(s, j, k) \in 1 .. Len(o)
              /\ o[Place(s, j, k)] = e[j][k]
  <2> DEFINE q == (j - 1) * w + k
  <2>1. tail[q] = e[j][k]
    BY <1>9
  <2>2. Place(s, j, k) = 3 + q /\ q \in Int
    BY <1>4, <1>6
  <2> HIDE DEF q
  <2>3. q \in 1 .. Len(tail)
    BY <1>8, <1>10, <1>11, <2>2
  <2> QED BY <1>8, <1>10, <1>11, <2>1, <2>2, <2>3
<1>13. LiesAt(o, 0, s)
  BY <1>7, <1>8, <1>10, <1>11, <1>12
<1> QED BY <1>10, <1>11, <1>13

\* What only grows is greatest at the end.
LEMMA Climbs ==
  ASSUME NEW n \in Nat, NEW till \in [0 .. n -> Nat],
         \A i \in 1 .. n : till[i - 1] <= till[i]
  PROVE  \A i \in 0 .. n : till[i] <= till[n]
<1> DEFINE T == {k \in Nat : \A i \in 0 .. k : till[i] <= till[k]}
<1>1. 0 \in T
  OBVIOUS
<1>2. ASSUME NEW k \in 0 .. n - 1, k \in T PROVE k + 1 \in T
  <2>1. k + 1 \in 1 .. n /\ k + 1 - 1 = k /\ k \in 0 .. n
    OBVIOUS
  <2>2. till[k] <= till[k + 1] /\ till[k] \in Nat /\ till[k + 1] \in Nat
    BY <2>1
  <2>3. ASSUME NEW i \in 0 .. k + 1 PROVE till[i] <= till[k + 1]
    <3>1. CASE i = k + 1
      BY <2>2, <3>1
    <3>2. CASE i \in 0 .. k
      <4>1. till[i] <= till[k] /\ till[i] \in Nat
        BY <1>2, <2>1, <3>2
      <4> QED BY <2>2, <4>1
    <3> QED BY <3>1, <3>2
  <2> QED BY <2>1, <2>3
<1>3. \A k \in 0 .. n : k \in T
  <2> HIDE DEF T
  <2> QED BY <1>1, <1>2, Upwards
<1> QED BY <1>3

\* A section that lies in a part of an answer lies in the answer.
LEMMA Shifted ==
  ASSUME NEW s, GoodSection(s), NEW o, NEW a, NEW p \in Nat,
         LiesAt(o, 0, s), Len(o) = Size(s),
         \A q \in 1 .. Len(o) : p + q \in 1 .. Len(a) /\ a[p + q] = o[q]
  PROVE  LiesAt(a, p, s)
<1>1. /\ Size(s) \in Nat /\ Size(s) >= 3
      /\ \A j \in 1 .. Len(s.elements) : \A k \in 1 .. Width(s.type) :
           Place(s, j, k) \in 4 .. Size(s)
  BY Sizes
<1>2. 1 \in 1 .. Len(o) /\ 3 \in 1 .. Len(o)
  BY <1>1
<1>3. o[1] = s.type /\ o[3] = Len(s.elements)
  BY DEF LiesAt
<1>4. ASSUME NEW j \in 1 .. Len(s.elements), NEW k \in 1 .. Width(s.type)
      PROVE  /\ p + Place(s, j, k) \in 1 .. Len(a)
             /\ a[p + Place(s, j, k)] = s.elements[j][k]
  <2>1. Place(s, j, k) \in 4 .. Size(s)
    BY <1>1
  <2>2. 0 + Place(s, j, k) = Place(s, j, k)
    BY <2>1
  <2>3. o[0 + Place(s, j, k)] = s.elements[j][k]
    BY DEF LiesAt
  <2>4. Place(s, j, k) \in 1 .. Len(o)
    BY <1>1, <2>1
  <2> QED BY <2>2, <2>3, <2>4
<1> QED BY <1>2, <1>3, <1>4 DEF LiesAt

\* Where the m sections of an answer are.
Answers(a, m, offered) ==
  a = <<0, 1, m>> \o FlattenSeq([i \in 1 .. m |-> SectionWords(offered[i])])

Laid(a, m, offered, till) ==
  /\ till \in [0 .. m -> Nat] /\ till[0] = 0
  /\ \A i \in 1 .. m :
       /\ LiesAt(a, 3 + till[i - 1], offered[i])
       /\ till[i] = till[i - 1] + Size(offered[i])

\* Every answer is laid out like that.
LEMMA Layout ==
  ASSUME NEW m \in Nat, NEW offered, NEW a,
         \A i \in 1 .. m : GoodSection(offered[i]), Answers(a, m, offered)
  PROVE  \E till : Laid(a, m, offered, till)
<1> DEFINE s == [i \in 1 .. m |-> SectionWords(offered[i])]
           f == FlattenSeq(s)
<1>1. ASSUME NEW i \in 1 .. m
      PROVE  /\ s[i] \in Seq(Nat) /\ Len(s[i]) = Size(offered[i])
             /\ Size(offered[i]) \in Nat /\ LiesAt(s[i], 0, offered[i])
  <2>1. s[i] = SectionWords(offered[i])
    OBVIOUS
  <2> HIDE DEF s
  <2> QED BY <2>1, Sizes, WordsOfSection
<1>2. s \in Seq(Seq(Nat)) /\ Len(s) = m
  BY <1>1
<1>3. f = FlattenSeq(s) /\ Heads(a, 0, 1, m, f)
  BY DEF Heads, Answers
<1> HIDE DEF s, f
<1>4. PICK till \in [0 .. m -> Nat] :
        /\ till[0] = 0
        /\ \A i \in 1 .. m : till[i] = till[i - 1] + Len(s[i])
        /\ f \in Seq(Nat) /\ Len(f) = till[m]
        /\ \A i \in 1 .. m : \A k \in 1 .. Len(s[i]) :
             f[till[i - 1] + k] = s[i][k]
  BY <1>2, <1>3, Flattened
<1>5. /\ Len(a) = 3 + Len(f)
      /\ \A q \in 1 .. Len(f) : a[3 + q] = f[q]
  <2> DEFINE x == 0
             y == 1
  <2>1. x \in Nat /\ y \in Nat /\ f \in Seq(Nat) /\ Heads(a, x, y, m, f)
    BY <1>3, <1>4
  <2> HIDE DEF x, y
  <2> QED BY ONLY <2>1, m \in Nat, Header, SMTT(30)
<1>6. ASSUME NEW i \in 1 .. m
      PROVE  /\ till[i - 1] \in Nat /\ till[i] \in Nat /\ Len(s[i]) \in Nat
             /\ till[i] = till[i - 1] + Len(s[i])
  <2>1. i - 1 \in 0 .. m /\ i \in 0 .. m
    OBVIOUS
  <2>2. Len(s[i]) \in Nat
    BY <1>1
  <2> QED BY <1>4, <2>1, <2>2
<1>7. \A i \in 0 .. m : till[i] <= till[m]
  <2>1. ASSUME NEW i \in 1 .. m PROVE till[i - 1] <= till[i]
    <3> DEFINE x == till[i - 1]
               y == till[i]
               l == Len(s[i])
    <3>1. x \in Nat /\ l \in Nat /\ y = x + l
      BY <1>6
    <3> SUFFICES x <= y
      OBVIOUS
    <3> HIDE DEF x, y, l
    <3> QED BY ONLY <3>1
  <2> QED BY <2>1, Climbs
<1>8. ASSUME NEW i \in 1 .. m, NEW k \in 1 .. Len(s[i])
      PROVE  /\ 3 + till[i - 1] + k \in 1 .. Len(a)
             /\ a[3 + till[i - 1] + k] = s[i][k]
  <2> DEFINE x == till[i - 1]
             y == till[i]
             l == Len(s[i])
             z == till[m]
             q == x + k
  <2>1. x \in Nat /\ y \in Nat /\ l \in Nat /\ y = x + l
    BY <1>6
  <2>2. y <= z /\ z \in Nat /\ Len(f) = z
    BY <1>4, <1>7
  <2>3. f[q] = s[i][k]
    BY <1>4
  <2>4. q = x + k /\ k \in 1 .. l
    OBVIOUS
  <2>5. 3 + till[i - 1] + k = 3 + x + k
    OBVIOUS
  <2> HIDE DEF q, x, y, z, l
  <2>6. q \in 1 .. z /\ 3 + x + k = 3 + q
    BY ONLY <2>1, <2>2, <2>4
  <2>7. a[3 + q] = s[i][k] /\ 3 + q \in 1 .. Len(a)
    BY <1>5, <2>2, <2>3, <2>6
  <2> QED BY <2>5, <2>6, <2>7
<1>9. ASSUME NEW i \in 1 .. m
      PROVE  /\ LiesAt(a, 3 + till[i - 1], offered[i])
             /\ till[i] = till[i - 1] + Size(offered[i])
  <2> DEFINE p == 3 + till[i - 1]
             o == s[i]
             v == offered[i]
  <2>1. p \in Nat
    BY <1>6
  <2>2. \A q \in 1 .. Len(o) : p + q \in 1 .. Len(a) /\ a[p + q] = o[q]
    BY <1>8
  <2>3. GoodSection(v)
    OBVIOUS
  <2>4. LiesAt(o, 0, v) /\ Len(o) = Size(v)
    BY <1>1
  <2> HIDE DEF p, o, v
  <2>5. LiesAt(a, p, v)
    BY ONLY <2>1, <2>2, <2>3, <2>4, Shifted
  <2> QED BY <1>1, <1>6, <2>5 DEF p, v
<1> QED BY <1>4, <1>9 DEF Laid

\* One more at the end of a sequence.
LEMMA Appended ==
  ASSUME NEW Y, NEW r \in Seq(Y), NEW x
  PROVE  /\ \E Z : Append(r, x) \in Seq(Z)
         /\ Len(Append(r, x)) = Len(r) + 1
         /\ \A i \in 1 .. Len(r) : Append(r, x)[i] = r[i]
         /\ Append(r, x)[Len(r) + 1] = x
<1> DEFINE Z == Y \union {x}
<1>1. r \in Seq(Z) /\ x \in Z
  OBVIOUS
<1> HIDE DEF Z
<1>2. Append(r, x) \in Seq(Z)
  BY <1>1
<1> QED BY <1>2

\* What is read where a section lies.
LEMMA ReadsSection ==
  ASSUME NEW s, GoodSection(s), NEW p \in Nat, LiesAt(words, p, s)
  PROVE  /\ WordAt(p + 1) = s.type /\ WordAt(p + 3) = Len(s.elements)
         /\ \A j \in 1 .. Len(s.elements) : \A k \in 1 .. Width(s.type) :
              WordAt(p + Place(s, j, k)) = s.elements[j][k]
BY DEF LiesAt, WordAt

\* The elements of a known type are read whole, and the reader is at the end.
LEMMA ReadsElements ==
  ASSUME NEW s, GoodSection(s), NEW p \in Nat, LiesAt(words, p, s),
         s.type \in Known
  PROVE  LET w == FieldCount(s.type) + 1
             n == Len(s.elements)
         IN  /\ [j \in 1 .. n |-> Next_words(p + 1 + 3 + (j - 1) * w, w)]
                  = s.elements
             /\ p + 1 + 3 + n * w = 1 + p + Size(s)
<1> DEFINE w == Width(s.type)
           n == Len(s.elements)
           e == s.elements
           read == [j \in 1 .. n |-> Next_words(p + 1 + 3 + (j - 1) * w, w)]
<1>1. FieldCount(s.type) + 1 = w /\ w \in {2, 3, 5} /\ s.type \in SectionTypes
  BY Wide DEF GoodSection
<1>2. /\ n \in Nat /\ e \in Seq(Seq(Nat))
      /\ \A j \in 1 .. n : Len(e[j]) = w /\ e[j] \in Seq(Nat)
  BY DEF GoodSection
<1>3. ASSUME NEW j \in 1 .. n
      PROVE  Next_words(p + 1 + 3 + (j - 1) * w, w) = e[j]
  <2> DEFINE x == (j - 1) * w
             q == p + 1 + 3 + x
             t == e[j]
  <2>1. x \in Int
    BY <1>1
  <2>2. Next_words(q, w) = [k \in 1 .. w |-> WordAt(q + k - 1)]
    BY DEF Next_words
  <2>3. ASSUME NEW k \in 1 .. w
        PROVE  WordAt(q + k - 1) = t[k]
    <3>1. WordAt(p + Place(s, j, k)) = t[k]
      BY ReadsSection
    <3>2. Place(s, j, k) = 3 + x + k
      BY DEF Place
    <3>3. k \in Int
      BY <1>1
    <3> HIDE DEF x
    <3>4. p + (3 + x + k) = q + k - 1
      BY <2>1, <3>3
    <3> HIDE DEF q
    <3> QED BY <3>1, <3>2, <3>4
  <2>4. t = [k \in 1 .. w |-> t[k]]
    <3>1. t \in Seq(Nat) /\ Len(t) = w
      BY <1>2
    <3> HIDE DEF t, w
    <3> QED BY <3>1
  <2> HIDE DEF t, w, q
  <2> QED BY <2>2, <2>3, <2>4 DEF q, t
<1>4. read = e
  <2>1. e = [j \in 1 .. n |-> e[j]]
    BY <1>2
  <2> QED BY <1>3, <2>1
<1>5. p + 1 + 3 + n * w = 1 + p + Size(s)
  <2> DEFINE z == n * w
  <2>1. Size(s) = 3 + z /\ z \in Int
    BY <1>1, <1>2 DEF Size
  <2> HIDE DEF z
  <2> QED BY <2>1 DEF z
<1> QED BY <1>1, <1>4, <1>5

\* The reading of the list: where the sections of the answer are, and that the
\* reader is at the next one as long as it knows the types.
AllKnown(n) == \A k \in 1 .. n : offer[k].type \in Known

SectionEnds(till) == Laid(words, Len(offer), offer, till)

Reading ==
  /\ Len(offer) \in Nat
  /\ \A i \in 1 .. Len(offer) : GoodSection(offer[i])
  /\ \E Y : result \in Seq(Y)
  /\ to_come \in Nat /\ Len(result) + to_come = Len(offer)
  /\ \E till : /\ SectionEnds(till)
               /\ AllKnown(Len(result)) => at_word = 4 + till[Len(result)]
  /\ SectionsAsSent

\* The rows of a table, each of w words, are behind h words of the answer.
OfRows(w, h) ==
  /\ offer \in Seq(Seq(Nat)) /\ Len(words) = h + Len(offer) * w
  /\ \A i \in 1 .. Len(offer) :
       /\ Len(offer[i]) = w
       /\ \A k \in 1 .. w : WordAt(h + (i - 1) * w + k) = offer[i][k]

RepliesInv ==
  /\ question = "none" => result = <<>>
  /\ question = "capabilities" => Reading
  /\ question = "coders" => OfRows(8, 0)
  /\ question = "modes" => \E w \in {1, 2} : WordAt(1) = w /\ OfRows(w, 1)
  /\ question = "profiles" => OfRows(1, 0)
  /\ question = "done" => RowsAsSent

\* The answer with the list starts with a section.
LEMMA AsksCapabilities ==
  ASSUME RepliesInv, AskCapabilities
  PROVE  RepliesInv'
<1> USE RepliesAssumption
<1>0. PICK m \in 1 .. MaxSections :
        \E types \in [1 .. m -> Known \union {NewType}],
           counts \in [1 .. m -> SectionCounts] :
          /\ offer' = [i \in 1 .. m |-> Section(i, types[i], counts[i])]
          /\ words' = <<0, 1, m>> \o FlattenSeq([i \in 1 .. m |->
                                                   SectionWords(offer'[i])])
          /\ to_come' = m
  BY Zenon DEF AskCapabilities
<1>1. PICK types \in [1 .. m -> Known \union {NewType}],
           counts \in [1 .. m -> SectionCounts] :
        /\ offer' = [i \in 1 .. m |-> Section(i, types[i], counts[i])]
        /\ words' = <<0, 1, m>> \o FlattenSeq([i \in 1 .. m |->
                                                 SectionWords(offer'[i])])
        /\ to_come' = m
  BY <1>0, Zenon
<1>2. /\ question = "none" /\ question' = "capabilities" /\ at_word' = 4
      /\ result' = <<>>
  BY DEF AskCapabilities, RepliesInv
<1>3. m \in Nat /\ Len(offer') = m
  BY <1>1
<1>4. ASSUME NEW i \in 1 .. m PROVE GoodSection(offer'[i])
  <2> DEFINE t == types[i]
             n == counts[i]
             s == Section(i, t, n)
  <2>1. t \in SectionTypes
    BY DEF SectionTypes
  <2>5. n \in Nat
    OBVIOUS
  <2>6. i \in Nat
    OBVIOUS
  <2>2. offer'[i] = s
    BY <1>1
  <2> HIDE DEF t, n
  <2>3. /\ s.type = t /\ s.elements \in Seq(Seq(Nat))
        /\ Len(s.elements) = n
        /\ \A j \in 1 .. n : Len(s.elements[j]) = Width(t)
    BY <2>1, <2>5, <2>6, ElementIs
  <2> HIDE DEF s
  <2>4. GoodSection(s)
    BY <2>1, <2>3 DEF GoodSection
  <2> QED BY <2>2, <2>4
<1>5. PICK till : Laid(words', m, offer', till)
  <2> DEFINE o == offer'
             a == words'
  <2>1. \A i \in 1 .. m : GoodSection(o[i])
    BY <1>4
  <2>2. Answers(a, m, o)
    BY <1>1 DEF Answers
  <2>3. m \in Nat
    BY <1>3
  <2> HIDE DEF o, a
  <2>4. \E till : Laid(a, m, o, till)
    BY ONLY <2>1, <2>2, <2>3, Layout
  <2> QED BY <2>4 DEF o, a
<1>6. SectionEnds(till)'
  BY <1>3, <1>5 DEF SectionEnds
<1>7. Len(result') = 0 /\ at_word' = 4 + till[0] /\ result' \in Seq({})
  BY <1>2, <1>5 DEF Laid
<1>8. SectionsAsSent'
  BY <1>7 DEF SectionsAsSent
<1>9. Reading'
  <2>1. \E e : SectionEnds(e)' /\ (AllKnown(Len(result))' =>
                              at_word' = 4 + e[Len(result')])
    BY <1>6, <1>7
  <2> QED BY <1>1, <1>3, <1>4, <1>7, <1>8, <2>1 DEF Reading
<1> QED BY <1>2, <1>9 DEF RepliesInv

\* A turn of the loop reads the next section as it was sent.
LEMMA ReadsOn ==
  ASSUME RepliesInv, ReadSection
  PROVE  RepliesInv'
<1> DEFINE c == Len(result) + 1
           n == WordAt(at_word + 2)
           w == FieldCount(WordAt(at_word)) + 1
           new == [type |-> WordAt(at_word),
                   elements |-> [j \in 1 .. n |->
                     Next_words(at_word + 3 + (j - 1) * w, w)]]
<1>1. /\ question = "capabilities" /\ to_come > 0 /\ to_come' = to_come - 1
      /\ result' = Append(result, new) /\ at_word' = at_word + 3 + n * w
      /\ UNCHANGED <<question, offer, words, behind>>
  BY DEF ReadSection
<1>2. Reading
  BY <1>1 DEF RepliesInv
<1>3. PICK Y : result \in Seq(Y)
  BY <1>2 DEF Reading
<1>4. PICK till : /\ SectionEnds(till)
                  /\ AllKnown(Len(result)) =>
                       at_word = 4 + till[Len(result)]
  BY <1>2 DEF Reading
<1>5. /\ Len(result) \in Nat /\ c \in 1 .. Len(offer) /\ c - 1 = Len(result)
      /\ to_come \in Nat /\ Len(offer) \in Nat
      /\ Len(result) + to_come = Len(offer)
  BY <1>1, <1>2, <1>3 DEF Reading
<1> DEFINE s == offer[c]
           p == 3 + till[c - 1]
<1>6. GoodSection(s) /\ LiesAt(words, p, s) /\ p \in Nat
      /\ till[c] = till[c - 1] + Size(s)
  BY <1>2, <1>4, <1>5 DEF Reading, SectionEnds, Laid
<1>7. ASSUME AllKnown(c - 1)
      PROVE  /\ at_word = p + 1 /\ new.type = s.type /\ n = Len(s.elements)
             /\ Len(new.elements) = Len(s.elements)
             /\ s.type \in Known =>
                  new.elements = s.elements /\ at_word' = 4 + till[c]
  <2>1. at_word = p + 1
    <3>1. till[c - 1] \in Nat
      BY <1>4, <1>5 DEF SectionEnds, Laid
    <3> QED BY <1>4, <1>5, <1>7, <3>1
  <2> HIDE DEF p, s
  <2>2. WordAt(p + 1) = s.type /\ WordAt(p + 3) = Len(s.elements)
    BY <1>6, ReadsSection
  <2>3. p + 1 + 2 = p + 3 /\ Len(s.elements) \in Nat
    BY <1>6, Sizes
  <2>4. n = Len(s.elements) /\ WordAt(at_word) = s.type
    BY <2>1, <2>2, <2>3
  <2>5. new.type = s.type /\ Len(new.elements) = n
    BY <2>3, <2>4
  <2>6. ASSUME s.type \in Known
        PROVE  new.elements = s.elements /\ at_word' = 1 + p + Size(s)
    <3>1. LET u == FieldCount(s.type) + 1
              l == Len(s.elements)
          IN  /\ [j \in 1 .. l |-> Next_words(p + 1 + 3 + (j - 1) * u, u)]
                   = s.elements
              /\ p + 1 + 3 + l * u = 1 + p + Size(s)
      BY <1>6, <2>6, ReadsElements
    <3> QED BY <1>1, <2>1, <2>4, <3>1
  <2>7. 1 + p + Size(s) = 4 + till[c]
    <3>1. till[c - 1] \in Nat /\ Size(s) \in Nat
      BY <1>4, <1>5, <1>6, Sizes DEF SectionEnds, Laid
    <3> QED BY <1>6, <3>1 DEF p
  <2> QED BY <2>1, <2>4, <2>5, <2>6, <2>7
<1> HIDE DEF n, w, new, p, s
<1>8. /\ Len(result') = c /\ result'[c] = new
      /\ \A i \in 1 .. Len(result) : result'[i] = result[i]
      /\ \E Z : result' \in Seq(Z)
  <2>1. /\ \E Z : Append(result, new) \in Seq(Z)
        /\ Len(Append(result, new)) = Len(result) + 1
        /\ \A i \in 1 .. Len(result) : Append(result, new)[i] = result[i]
        /\ Append(result, new)[Len(result) + 1] = new
    BY <1>3, Appended, Zenon
  <2>2. result' = Append(result, new)
    BY <1>1
  <2> QED BY ONLY <2>1, <2>2, Zenon DEF c
<1>9. SectionsAsSent'
  <2> SUFFICES ASSUME NEW i \in 1 .. c,
                      \A k \in 1 .. i - 1 : offer[k].type \in Known
               PROVE  /\ result'[i].type = offer[i].type
                      /\ Len(result'[i].elements) = Len(offer[i].elements)
                      /\ offer[i].type \in Known =>
                           result'[i].elements = offer[i].elements
    BY <1>1, <1>8 DEF SectionsAsSent
  <2>1. CASE i = c
    <3>1. AllKnown(c - 1)
      BY <2>1 DEF AllKnown
    <3> QED BY <1>7, <1>8, <2>1, <3>1 DEF s
  <2>2. CASE i # c
    <3>1. i \in 1 .. Len(result)
      BY <1>5, <2>2
    <3> QED BY <1>2, <1>8, <3>1 DEF Reading, SectionsAsSent
  <2> QED BY <2>1, <2>2
<1>10. AllKnown(c) => at_word' = 4 + till[c]
  <2> SUFFICES ASSUME AllKnown(c) PROVE at_word' = 4 + till[c]
    OBVIOUS
  <2>1. AllKnown(c - 1) /\ s.type \in Known
    BY <1>5 DEF AllKnown, s
  <2> QED BY <1>7, <2>1
<1>11. SectionEnds(till)'
  BY <1>1, <1>4 DEF SectionEnds, Laid
<1>12. AllKnown(Len(result))' => at_word' = 4 + till[Len(result')]
  BY <1>1, <1>8, <1>10 DEF AllKnown
<1>13. /\ to_come' \in Nat /\ Len(result') + to_come' = Len(offer')
       /\ Len(offer') \in Nat
  BY <1>1, <1>5, <1>8
<1>14. \A i \in 1 .. Len(offer') : GoodSection(offer'[i])
  BY <1>1, <1>2 DEF Reading
<1>15. Reading'
  BY <1>8, <1>9, <1>11, <1>12, <1>13, <1>14 DEF Reading
<1> QED BY <1>1, <1>15 DEF RepliesInv

\* The word p is the first of row i.
RowAt(p, w, h, i) == p = h + (i - 1) * w + 1

\* The row i up to its word m; words before the rows.
RowIs(r, i, m) == Len(r) = m /\ r = SubSeq(offer[i], 1, m)
HeadIs(head) == \A q \in 1 .. Len(head) : WordAt(q) = head[q]

\* A row is found where it was put, and may be read in part.
LEMMA ReadsRow ==
  ASSUME NEW w \in {1, 2, 8}, NEW h \in Nat, OfRows(w, h),
         NEW i \in 1 .. Len(offer), NEW m \in 1 .. w, NEW p, RowAt(p, w, h, i)
  PROVE  RowIs(Next_words(p, m), i, m)
<1> DEFINE t == offer[i]
           x == (i - 1) * w
<1>1. x \in Int /\ p = h + x + 1
  BY DEF RowAt
<1>2. t \in Seq(Nat) /\ Len(t) = w
  BY DEF OfRows
<1>3. SubSeq(t, 1, m) = [k \in 1 .. m |-> t[k]]
  <2> HIDE DEF t
  <2> QED BY <1>2
<1>4. Next_words(p, m) = [k \in 1 .. m |-> WordAt(p + k - 1)]
  BY DEF Next_words
<1>5. ASSUME NEW k \in 1 .. m PROVE WordAt(p + k - 1) = t[k]
  <2>1. WordAt(h + x + k) = t[k]
    BY DEF OfRows
  <2> HIDE DEF x
  <2>2. p + k - 1 = h + x + k
    BY <1>1
  <2> HIDE DEF t
  <2> QED BY ONLY <2>1, <2>2
<1> HIDE DEF t
<1>6. Next_words(p, m) = SubSeq(t, 1, m)
  BY <1>3, <1>4, <1>5
<1>7. Len(Next_words(p, m)) = m
  BY <1>4
<1> QED BY <1>6, <1>7 DEF t, RowIs

\* The device answers with the rows of its table.
LEMMA SendsRows ==
  ASSUME NEW what, NEW n \in Nat, NEW w \in {1, 2, 8}, NEW h \in Nat,
         NEW head \in Seq(Nat), Len(head) = h, Ask(what, n, w, head)
  PROVE  OfRows(w, h)' /\ HeadIs(head)'
<1> DEFINE s == Table(n, w)
           f == FlattenSeq(s)
           a == words'
<1>1. offer' = s /\ a = head \o f
  BY DEF Ask
<1>2. s = [i \in 1 .. n |-> Row(i, w)]
  BY DEF Table
<1>3. ASSUME NEW i \in 1 .. n
      PROVE  Row(i, w) \in Seq(Nat) /\ Len(Row(i, w)) = w
  <2>1. \A k \in 1 .. w : 100 * i + k \in Nat
    OBVIOUS
  <2> QED BY <2>1 DEF Row
<1> HIDE DEF s
<1>4. /\ s \in Seq(Seq(Nat)) /\ Len(s) = n
      /\ \A i \in 1 .. n : Len(s[i]) = w /\ s[i] \in Seq(Nat)
  BY <1>2, <1>3
<1>5. /\ f \in Seq(Nat) /\ Len(f) = n * w
      /\ \A i \in 1 .. n : \A k \in 1 .. w : f[(i - 1) * w + k] = s[i][k]
  <2>1. s \in Seq(Seq(Nat)) /\ w \in {1, 2, 3, 5, 8}
    BY <1>4
  <2>2. \A i \in 1 .. Len(s) : Len(s[i]) = w
    BY <1>4
  <2>3. /\ FlattenSeq(s) \in Seq(Nat) /\ Len(FlattenSeq(s)) = Len(s) * w
        /\ \A i \in 1 .. Len(s) : \A k \in 1 .. w :
             FlattenSeq(s)[(i - 1) * w + k] = s[i][k]
    BY ONLY <2>1, <2>2, EvenPieces
  <2> QED BY <1>4, <2>3
<1> HIDE DEF f, a
<1>6. /\ Len(a) = h + Len(f) /\ \A q \in 1 .. h : a[q] = head[q]
      /\ \A q \in 1 .. Len(f) : a[h + q] = f[q]
  <2>1. f \in Seq(Nat) /\ Len(f) \in Nat
    BY <1>5
  <2>2. Len(head \o f) = h + Len(f)
    BY ONLY <2>1, head \in Seq(Nat), Len(head) = h, h \in Nat
  <2>3. \A q \in 1 .. h : (head \o f)[q] = head[q]
    BY ONLY <2>1, head \in Seq(Nat), Len(head) = h, h \in Nat
  <2>4. \A q \in 1 .. Len(f) : (head \o f)[h + q] = f[q]
    BY ONLY <2>1, head \in Seq(Nat), Len(head) = h, h \in Nat
  <2> QED BY ONLY <1>1, <2>2, <2>3, <2>4, Zenon
<1>7. ASSUME NEW i \in 1 .. n, NEW k \in 1 .. w
      PROVE  h + (i - 1) * w + k <= Len(a) /\ a[h + (i - 1) * w + k] = s[i][k]
  <2> DEFINE x == (i - 1) * w
             z == n * w
             q == x + k
  <2>1. x \in Nat /\ x + w <= z /\ z \in Nat
    OBVIOUS
  <2>2. f[q] = s[i][k] /\ Len(f) = z
    BY <1>5
  <2>3. q = x + k /\ k \in 1 .. w
    OBVIOUS
  <2> HIDE DEF x, z, q
  <2>4. q \in 1 .. z /\ h + x + k = h + q
    BY <2>1, <2>3
  <2> HIDE DEF x
  <2>5. h + q <= Len(a) /\ a[h + q] = s[i][k]
    BY <1>6, <2>2, <2>4
  <2> QED BY <2>4, <2>5 DEF x
<1>8. \A q : q <= Len(a) => WordAt(q)' = a[q]
  BY DEF WordAt, a
<1>9. ASSUME NEW i \in 1 .. n, NEW k \in 1 .. w
      PROVE  WordAt(h + (i - 1) * w + k)' = s[i][k]
  <2> DEFINE q == h + (i - 1) * w + k
  <2>1. q <= Len(a) /\ a[q] = s[i][k]
    BY <1>7
  <2> HIDE DEF q
  <2>2. WordAt(q)' = a[q]
    BY <1>8, <2>1
  <2> QED BY <2>1, <2>2 DEF q
<1>10. Len(words') = h + Len(offer') * w
  BY <1>1, <1>4, <1>5, <1>6 DEF a
<1>11. \A q \in 1 .. h : WordAt(q)' = head[q]
  <2>1. Len(f) \in Nat
    BY <1>5
  <2> QED BY <1>6, <1>8, <2>1
<1>12. OfRows(w, h)'
  <2>1. /\ offer' \in Seq(Seq(Nat)) /\ Len(offer') = n
        /\ \A i \in 1 .. n : Len(offer'[i]) = w
    BY <1>1, <1>4
  <2>2. \A i \in 1 .. n : \A k \in 1 .. w :
          WordAt(h + (i - 1) * w + k)' = offer'[i][k]
    BY <1>1, <1>9
  <2> QED BY <1>10, <2>1, <2>2 DEF OfRows
<1> QED BY <1>11, <1>12 DEF HeadIs

\* A question for a table.
LEMMA AsksTable ==
  ASSUME NEW n \in Rows, RepliesInv,
         \/ AskCoders(n) \/ AskProfiles(n)
         \/ \E streams \in {1, 2} : AskModes(n, streams)
  PROVE  RepliesInv'
<1> USE RepliesAssumption
<1>1. n \in Nat
  OBVIOUS
<1>2. CASE AskCoders(n)
  <2> DEFINE head == <<>>
             h == 0
             w == 8
  <2>1. /\ Ask("coders", n, w, head) /\ w \in {1, 2, 8} /\ h \in Nat
        /\ head \in Seq(Nat) /\ Len(head) = h
    BY <1>2 DEF AskCoders, CoderWords
  <2>2. question' = "coders"
    BY <2>1 DEF Ask
  <2> SUFFICES OfRows(w, h)'
    BY <2>2 DEF RepliesInv
  <2> HIDE DEF head, h, w
  <2> QED BY ONLY <1>1, <2>1, SendsRows
<1>3. CASE AskProfiles(n)
  <2> DEFINE head == <<>>
             h == 0
             w == 1
  <2>1. /\ Ask("profiles", n, w, head) /\ w \in {1, 2, 8} /\ h \in Nat
        /\ head \in Seq(Nat) /\ Len(head) = h
    BY <1>3 DEF AskProfiles
  <2>2. question' = "profiles"
    BY <2>1 DEF Ask
  <2> SUFFICES OfRows(w, h)'
    BY <2>2 DEF RepliesInv
  <2> HIDE DEF head, h, w
  <2> QED BY ONLY <1>1, <2>1, SendsRows
<1>4. ASSUME NEW w \in {1, 2}, AskModes(n, w) PROVE RepliesInv'
  <2> DEFINE head == <<w>>
             h == 1
  <2>1. /\ Ask("modes", n, w, head) /\ w \in {1, 2, 8} /\ h \in Nat
        /\ head \in Seq(Nat) /\ Len(head) = h
    BY <1>4 DEF AskModes
  <2>2. question' = "modes" /\ head[1] = w /\ 1 \in 1 .. h
    BY <2>1 DEF Ask
  <2> SUFFICES OfRows(w, h)' /\ WordAt(1)' = w
    BY <2>2 DEF RepliesInv
  <2> HIDE DEF head, h
  <2>3. OfRows(w, h)' /\ HeadIs(head)'
    BY ONLY <1>1, <2>1, SendsRows
  <2> QED BY <2>1, <2>2, <2>3 DEF HeadIs
<1> QED BY <1>2, <1>3, <1>4

\* Five words are taken of the eight of a coder.
LEMMA ReadsCoders ==
  ASSUME RepliesInv, get_coder_list
  PROVE  RepliesInv'
<1>1. /\ question = "coders" /\ question' = "done" /\ UNCHANGED offer
      /\ result' = [i \in 1 .. Len(words) \div 8 |->
                      Next_words((i - 1) * 8 + 1, 5)]
  BY DEF get_coder_list, CoderWords
<1>2. OfRows(8, 0)
  BY <1>1 DEF RepliesInv
<1>3. Len(offer) \in Nat /\ Len(words) \div 8 = Len(offer)
  BY <1>2 DEF OfRows
<1>4. Len(result') = Len(offer)
  BY <1>1, <1>3
<1>5. ASSUME NEW i \in 1 .. Len(offer)
      PROVE  result'[i] = SubSeq(offer[i], 1, Len(result'[i]))
  <2> DEFINE p == (i - 1) * 8 + 1
             m == 5
             w == 8
             h == 0
  <2>1. result'[i] = Next_words(p, m)
    BY <1>1, <1>3
  <2>2. w \in {1, 2, 8} /\ h \in Nat /\ OfRows(w, h) /\ m \in 1 .. w
    BY <1>2
  <2>3. RowAt(p, w, h, i)
    BY <1>3 DEF RowAt
  <2> HIDE DEF p, m, w, h
  <2>4. RowIs(Next_words(p, m), i, m)
    BY ONLY i \in 1 .. Len(offer), <2>2, <2>3, ReadsRow
  <2> QED BY ONLY <2>1, <2>4, Zenon DEF RowIs
<1>6. RowsAsSent'
  BY <1>1, <1>4, <1>5 DEF RowsAsSent
<1> QED BY <1>1, <1>6 DEF RepliesInv

\* Tuples of as many modes as there are streams.
LEMMA ReadsModes ==
  ASSUME RepliesInv, get_supported_video_operation_modes
  PROVE  RepliesInv'
<1> DEFINE w == WordAt(1)
<1>1. /\ question = "modes" /\ question' = "done" /\ UNCHANGED offer
      /\ result' = [i \in 1 .. (Len(words) - 1) \div w |->
                      Next_words((i - 1) * w + 2, w)]
  BY DEF get_supported_video_operation_modes
<1>2. w \in {1, 2} /\ OfRows(w, 1)
  BY <1>1 DEF RepliesInv
<1> HIDE DEF w
<1>3. Len(offer) \in Nat /\ (Len(words) - 1) \div w = Len(offer)
  <2>1. Len(offer) \in Nat /\ Len(words) = 1 + Len(offer) * w
    BY <1>2 DEF OfRows
  <2>2. CASE w = 1
    BY <2>1, <2>2
  <2>3. CASE w = 2
    BY <2>1, <2>3
  <2> QED BY <1>2, <2>2, <2>3
<1>4. Len(result') = Len(offer)
  BY <1>1, <1>3
<1>5. ASSUME NEW i \in 1 .. Len(offer)
      PROVE  result'[i] = SubSeq(offer[i], 1, Len(result'[i]))
  <2> DEFINE p == (i - 1) * w + 2
             h == 1
  <2>1. result'[i] = Next_words(p, w)
    BY <1>1, <1>3
  <2>2. w \in {1, 2, 8} /\ h \in Nat /\ OfRows(w, h) /\ w \in 1 .. w
    BY <1>2
  <2>3. RowAt(p, w, h, i)
    BY <1>2, <1>3 DEF RowAt
  <2> HIDE DEF p, h
  <2>4. RowIs(Next_words(p, w), i, w)
    BY ONLY i \in 1 .. Len(offer), <2>2, <2>3, ReadsRow
  <2> QED BY ONLY <2>1, <2>4, Zenon DEF RowIs
<1>6. RowsAsSent'
  BY <1>1, <1>4, <1>5 DEF RowsAsSent
<1> QED BY <1>1, <1>6 DEF RepliesInv

\* One profile for each stream.
LEMMA ReadsProfiles ==
  ASSUME RepliesInv, ReadProfiles
  PROVE  RepliesInv'
<1>1. question = "profiles" /\ question' = "done" /\ UNCHANGED offer
  BY DEF ReadProfiles
<1>2. OfRows(1, 0)
  BY <1>1 DEF RepliesInv
<1>3. Len(offer) \in Nat /\ Len(words) = Len(offer)
  BY <1>2 DEF OfRows
<1>4. result' = [s \in 1 .. Len(offer) |-> <<WordAt(s)>>]
  <2>1. \A s \in 1 .. Len(offer) :
          /\ get_current_stream_profile(s) = WordAt(s)
          /\ get_stream_profile(s - 1) = WordAt(s)
    <3> SUFFICES ASSUME NEW s \in 1 .. Len(offer)
                 PROVE  WordAt(s - 1 + 1) = WordAt(s)
      BY DEF get_current_stream_profile, get_stream_profile
    <3>1. s - 1 + 1 = s
      BY <1>3
    <3> QED BY <3>1
  <2> QED BY <1>3, <2>1 DEF ReadProfiles
<1>5. ASSUME NEW i \in 1 .. Len(offer)
      PROVE  result'[i] = SubSeq(offer[i], 1, Len(result'[i]))
  <2> DEFINE t == offer[i]
             x == WordAt(i)
  <2>1. t \in Seq(Nat) /\ Len(t) = 1
    BY <1>2 DEF OfRows
  <2>2. x = t[1]
    <3>1. WordAt(0 + (i - 1) * 1 + 1) = t[1]
      BY <1>2 DEF OfRows
    <3>2. 0 + (i - 1) * 1 + 1 = i
      BY <1>3
    <3> QED BY <3>1, <3>2
  <2>3. result'[i] = <<x>>
    BY <1>4
  <2> HIDE DEF t, x
  <2>4. <<x>> = SubSeq(t, 1, Len(<<x>>))
    BY <2>1, <2>2
  <2> QED BY ONLY <2>3, <2>4, Zenon DEF t
<1>6. Len(result') = Len(offer)
  BY <1>3, <1>4
<1>7. RowsAsSent'
  BY <1>1, <1>5, <1>6 DEF RowsAsSent
<1> QED BY <1>1, <1>7 DEF RepliesInv

\* Every answer is read as it was sent, whatever lies behind it, for every
\* number of sections, elements and rows (get_capability_list, get_coder_list,
\* get_supported_video_operation_modes, get_current_stream_profile).
THEOREM AnswersComeAsSent ==
  RepliesInit /\ [][RepliesNext]_repliesVars => []AnswersAsSent
<1>1. RepliesInit => RepliesInv
  BY DEF RepliesInit, RepliesInv
<1>2. RepliesInv /\ [RepliesNext]_repliesVars => RepliesInv'
  <2> SUFFICES ASSUME RepliesInv, [RepliesNext]_repliesVars PROVE RepliesInv'
    OBVIOUS
  <2>1. CASE AskCapabilities
    BY <2>1, AsksCapabilities
  <2>2. CASE ReadSection
    BY <2>2, ReadsOn
  <2>3. ASSUME NEW n \in Rows,
               \/ AskCoders(n) \/ AskProfiles(n)
               \/ \E streams \in {1, 2} : AskModes(n, streams)
        PROVE  RepliesInv'
    BY <2>3, AsksTable
  <2>4. CASE get_coder_list
    BY <2>4, ReadsCoders
  <2>5. CASE get_supported_video_operation_modes
    BY <2>5, ReadsModes
  <2>6. CASE ReadProfiles
    BY <2>6, ReadsProfiles
  <2>7. CASE UNCHANGED repliesVars
    BY <2>7 DEF repliesVars, RepliesInv, Reading, OfRows, RowsAsSent,
                SectionEnds, AllKnown, SectionsAsSent, WordAt
  <2> QED BY <2>1, <2>2, <2>3, <2>4, <2>5, <2>6, <2>7 DEF RepliesNext
<1>3. RepliesInv => AnswersAsSent
  BY DEF RepliesInv, Reading, AnswersAsSent
<1> QED BY <1>1, <1>2, <1>3, PTL
=============================================================================
