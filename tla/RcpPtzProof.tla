---------------------------- MODULE RcpPtzProof ----------------------------
(***************************************************************************)
(* What a camera makes of the octets that send_osrd had written for it,    *)
(* for any commands and any number of them.  Every octet on the serial     *)
(* line is followed back to its command: with any octets lost or changed   *)
(* the other commands are obeyed, and with one at most nothing else is.    *)
(* Induction over numbers comes from RcpReadingProof.                      *)
(***************************************************************************)
EXTENDS RcpPtz, RcpReadingProof, FiniteSetTheorems

-----------------------------------------------------------------------------
(***************************************************************************)
(* Sums of octets.                                                         *)
(***************************************************************************)

\* SumOf(s) is the last of the sums of the first octets of s.
Sums(sum, s, n) ==
  sum = [i \in 0 .. n |-> IF i = 0 THEN 0 ELSE sum[i - 1] + s[i]]

\* There is such a function, for any n: by induction.
LEMMA SumsExist ==
  ASSUME NEW s, NEW n \in Nat
  PROVE  \E sum : Sums(sum, s, n)
<1> DEFINE T == {i \in Nat : \E sum : Sums(sum, s, i)}
<1>1. 0 \in T
  <2> DEFINE g == [i \in 0 .. 0 |-> 0]
  <2>1. g = [i \in 0 .. 0 |-> IF i = 0 THEN 0 ELSE g[i - 1] + s[i]]
    OBVIOUS
  <2> HIDE DEF g
  <2> QED BY <2>1 DEF Sums
<1>2. ASSUME NEW i \in 0 .. n - 1, i \in T PROVE i + 1 \in T
  <2>1. PICK f : Sums(f, s, i)
    BY <1>2
  <2> DEFINE new == f[i] + s[i + 1]
             g == [k \in 0 .. i + 1 |-> IF k = i + 1 THEN new ELSE f[k]]
             h == [k \in 0 .. i + 1 |->
                     IF k = 0 THEN 0 ELSE g[k - 1] + s[k]]
  <2>2. ASSUME NEW k \in 0 .. i + 1 PROVE g[k] = h[k]
    <3>1. CASE k = i + 1
      <4>1. k # 0 /\ k - 1 \in 0 .. i + 1 /\ k - 1 = i
        BY <3>1
      <4>2. g[k - 1] = f[i] /\ g[k] = new
        BY <3>1, <4>1
      <4> QED BY <3>1, <4>1, <4>2
    <3>2. CASE k # i + 1
      <4>1. k \in 0 .. i /\ g[k] = f[k]
        BY <3>2
      <4>2. f[k] = IF k = 0 THEN 0 ELSE f[k - 1] + s[k]
        BY <2>1, <4>1 DEF Sums
      <4>3. CASE k # 0
        <5>1. k - 1 \in 0 .. i + 1 /\ k - 1 # i + 1
          BY <4>1, <4>3
        <5>2. g[k - 1] = f[k - 1]
          BY <5>1
        <5> QED BY <4>1, <4>2, <4>3, <5>2
      <4> QED BY <4>1, <4>2, <4>3
    <3> QED BY <3>1, <3>2
  <2>3. g = h
    <3>1. g = [k \in 0 .. i + 1 |-> g[k]] /\ h = [k \in 0 .. i + 1 |-> h[k]]
      OBVIOUS
    <3> HIDE DEF g, h
    <3> QED BY <2>2, <3>1
  <2>4. Sums(g, s, i + 1)
    <3> HIDE DEF g
    <3> QED BY <2>3 DEF Sums
  <2> HIDE DEF g
  <2> QED BY <2>4
<1>3. \A i \in 0 .. n : i \in T
  <2> HIDE DEF T
  <2> QED BY <1>1, <1>2, Upwards
<1> QED BY <1>3

\* SumOf takes the last value of such a function.
LEMMA SumIs ==
  ASSUME NEW s, Len(s) \in Nat
  PROVE  \E sum : Sums(sum, s, Len(s)) /\ SumOf(s) = sum[Len(s)]
<1> DEFINE c == CHOOSE sum : Sums(sum, s, Len(s))
<1>1. Sums(c, s, Len(s))
  BY SumsExist
<1>2. SumOf(s) = c[Len(s)]
  BY DEF SumOf, Sums
<1> QED BY <1>1, <1>2

\* The sums of octets are numbers.
LEMMA SumsOfOctets ==
  ASSUME NEW s \in Seq(Nat), NEW f, Sums(f, s, Len(s))
  PROVE  /\ f[0] = 0
         /\ \A i \in 0 .. Len(s) : f[i] \in Nat
         /\ \A i \in 1 .. Len(s) : f[i] = f[i - 1] + s[i]
<1> DEFINE T == {i \in Nat : f[i] \in Nat}
<1>1. f[0] = 0
  BY DEF Sums
<1>2. ASSUME NEW i \in 1 .. Len(s) PROVE f[i] = f[i - 1] + s[i]
  <2>1. f = [m \in 0 .. Len(s) |-> IF m = 0 THEN 0 ELSE f[m - 1] + s[m]]
    BY DEF Sums
  <2>2. i \in 0 .. Len(s) /\ i # 0
    OBVIOUS
  <2> QED BY ONLY <2>1, <2>2
<1>3. ASSUME NEW i \in 0 .. Len(s) - 1, i \in T PROVE i + 1 \in T
  <2>1. i + 1 \in 1 .. Len(s) /\ i + 1 - 1 = i /\ s[i + 1] \in Nat
    OBVIOUS
  <2>2. f[i + 1] = f[i] + s[i + 1]
    BY <1>2, <2>1
  <2> QED BY <1>3, <2>1, <2>2
<1>4. \A i \in 0 .. Len(s) : i \in T
  <2>1. 0 \in T /\ Len(s) \in Nat
    BY <1>1
  <2> HIDE DEF T
  <2> QED BY <1>3, <2>1, Upwards
<1> QED BY <1>1, <1>2, <1>4

\* Three numbers in another order.
LEMMA Regroup ==
  ASSUME NEW x \in Int, NEW y \in Int, NEW z \in Int
  PROVE  x + y + z = x + z + y /\ x + (z + y) = x + z + y
OBVIOUS

\* A sum is a number, and changes as one of the octets does.
LEMMA SumChanges ==
  ASSUME NEW s \in Seq(Nat), NEW t \in Seq(Nat), Len(t) = Len(s),
         NEW j \in 1 .. Len(s),
         \A i \in 1 .. Len(s) : i # j => t[i] = s[i]
  PROVE  /\ SumOf(s) \in Nat /\ SumOf(t) \in Nat
         /\ SumOf(t) = SumOf(s) + t[j] - s[j]
<1> DEFINE n == Len(s)
<1>1. PICK f : Sums(f, s, Len(s)) /\ SumOf(s) = f[Len(s)]
  BY SumIs
<1>2. PICK g : Sums(g, t, Len(t)) /\ SumOf(t) = g[Len(t)]
  BY SumIs
<1>3. /\ f[0] = 0
      /\ \A i \in 0 .. n : f[i] \in Nat
      /\ \A i \in 1 .. n : f[i] = f[i - 1] + s[i]
  BY <1>1, SumsOfOctets
<1>4. /\ g[0] = 0
      /\ \A i \in 0 .. n : g[i] \in Nat
      /\ \A i \in 1 .. n : g[i] = g[i - 1] + t[i]
  BY <1>2, SumsOfOctets
<1>5. n \in Nat /\ \A i \in 1 .. n : s[i] \in Nat /\ t[i] \in Nat
  OBVIOUS
<1> DEFINE by == t[j] - s[j]
           T == {m \in Nat : /\ m < j => g[m] = f[m]
                             /\ j <= m => g[m] = f[m] + by}
<1>6. j \in Nat /\ j > 0 /\ by \in Int /\ t[j] = s[j] + by
  BY <1>5
<1>0. by \in Int
  BY <1>6
<1> HIDE DEF by
<1>7. ASSUME NEW i \in 0 .. n - 1, i \in T PROVE i + 1 \in T
  <2>1. i + 1 \in 1 .. n /\ i + 1 - 1 = i /\ i \in 0 .. n /\ i \in Nat
    BY <1>5
  <2> DEFINE k == i + 1
  <2>2. f[k] = f[i] + s[k] /\ g[k] = g[i] + t[k]
    BY <1>3, <1>4, <2>1
  <2>3. f[i] \in Nat /\ g[i] \in Nat /\ s[k] \in Nat /\ t[k] \in Nat
        /\ k \in Nat
    BY <1>3, <1>4, <1>5, <2>1
  <2>0. f[i] \in Int /\ s[k] \in Int
    BY <2>3
  <2>4. (i < j => g[i] = f[i]) /\ (j <= i => g[i] = f[i] + by)
    BY <1>7
  <2>5. /\ k < j => t[k] = s[k] /\ i < j
        /\ k = j => t[k] = s[k] + by /\ i < j
        /\ j < k => t[k] = s[k] /\ j <= i
    <3>1. k \in 1 .. Len(s) /\ (k # j => t[k] = s[k])
      BY <2>1
    <3>2. k = j => t[k] = s[k] + by
      BY <1>6
    <3>3. /\ k < j => i < j /\ k # j
          /\ k = j => i < j
          /\ j < k => j <= i /\ k # j
      BY <1>6, <2>1
    <3> HIDE DEF k
    <3> QED BY ONLY <3>1, <3>2, <3>3
  <2>6. k < j \/ k = j \/ j < k
    BY <1>6, <2>1
  <2> HIDE DEF k, T, n
  <2>7. (k < j => g[k] = f[k]) /\ (j <= k => g[k] = f[k] + by)
    <3>1. CASE k < j
      <4>1. g[i] = f[i] /\ t[k] = s[k]
        BY <2>4, <2>5, <3>1
      <4>2. g[k] = f[k]
        BY <2>2, <4>1
      <4> QED BY <1>6, <2>3, <3>1, <4>2
    <3>2. CASE k = j
      <4>1. g[i] = f[i] /\ t[k] = s[k] + by
        BY <2>4, <2>5, <3>2
      <4>2. g[k] = f[i] + (s[k] + by)
        BY <2>2, <4>1
      <4>3. f[i] + (s[k] + by) = f[i] + s[k] + by
        BY ONLY <1>0, <2>0, Regroup
      <4> QED BY <1>6, <2>2, <3>2, <4>2, <4>3
    <3>3. CASE j < k
      <4>1. g[i] = f[i] + by /\ t[k] = s[k]
        BY <2>4, <2>5, <3>3
      <4>2. g[k] = f[i] + by + s[k]
        BY <2>2, <4>1
      <4>3. f[i] + by + s[k] = f[i] + s[k] + by
        BY ONLY <1>0, <2>0, Regroup
      <4> QED BY <1>6, <2>2, <2>3, <3>3, <4>2, <4>3
    <3> QED BY <2>6, <3>1, <3>2, <3>3
  <2>8. k \in T
    BY <2>3, <2>7 DEF T
  <2> QED BY <2>8 DEF k, T
<1>8. \A i \in 0 .. n : i \in T
  <2>1. 0 \in T
    BY <1>3, <1>4, <1>6
  <2> HIDE DEF T
  <2> QED BY <1>5, <1>7, <2>1, Upwards
<1>9. g[n] = f[n] + by
  BY <1>5, <1>6, <1>8
<1>10. by = t[j] - s[j] /\ t[j] \in Nat /\ s[j] \in Nat
  BY <1>5 DEF by
<1> QED BY <1>1, <1>2, <1>3, <1>4, <1>5, <1>9, <1>10

-----------------------------------------------------------------------------
(***************************************************************************)
(* The packet of a command: the camera understands it as the command that  *)
(* it is made of (osrd_packet, Understood).                                *)
(***************************************************************************)

\* The values that the bit fields hold.
Fields ==
  [tilt_speed : 0 .. 15, zoom_speed : 0 .. 7, pan_speed : 0 .. 15,
   focus_far : 0 .. 1, iris_darker : 0 .. 1, iris_brighter : 0 .. 1,
   pan_right : 0 .. 1, pan_left : 0 .. 1, tilt_down : 0 .. 1, tilt_up : 0 .. 1,
   zoom_out : 0 .. 1, zoom_in : 0 .. 1, focus_near : 0 .. 1]

\* No command has a value that its field does not hold.
LEMMA SpeedsFit == VarSpeed \subseteq Fields
<1> SUFFICES ASSUME NEW v \in VarSpeed PROVE v \in Fields
  OBVIOUS
<1>1. Still \in Fields
  BY DEF Still, Fields
<1>2. ASSUME NEW u \in Fields, NEW x \in 0 .. 1
      PROVE  /\ [u EXCEPT !.pan_right = x] \in Fields
             /\ [u EXCEPT !.pan_left = x] \in Fields
             /\ [u EXCEPT !.tilt_up = x] \in Fields
             /\ [u EXCEPT !.tilt_down = x] \in Fields
             /\ [u EXCEPT !.zoom_in = x] \in Fields
             /\ [u EXCEPT !.zoom_out = x] \in Fields
  BY DEF Fields
<1>3. ASSUME NEW u \in Fields, NEW x \in 0 .. 15
      PROVE  /\ [u EXCEPT !.pan_speed = x] \in Fields
             /\ [u EXCEPT !.tilt_speed = x] \in Fields
  BY DEF Fields
<1>4. ASSUME NEW u \in Fields, NEW x \in 0 .. 7
      PROVE  [u EXCEPT !.zoom_speed = x] \in Fields
  BY DEF Fields
<1>5. ASSUME NEW s \in 0 .. 15 PROVE Pans(s) \subseteq Fields
  <2> DEFINE a == [Still EXCEPT !.pan_right = 1]
             b == [Still EXCEPT !.pan_left = 1]
  <2>1. Pans(s) = {[a EXCEPT !.pan_speed = s], [b EXCEPT !.pan_speed = s]}
    BY DEF Pans
  <2>2. 1 \in 0 .. 1
    OBVIOUS
  <2>3. a \in Fields /\ b \in Fields
    BY <1>1, <1>2, <2>2
  <2> HIDE DEF a, b
  <2> QED BY <1>3, <1>5, <2>1, <2>3
<1>6. ASSUME NEW s \in 0 .. 15 PROVE Tilts(s) \subseteq Fields
  <2> DEFINE a == [Still EXCEPT !.tilt_up = 1]
             b == [Still EXCEPT !.tilt_down = 1]
  <2>1. Tilts(s) = {[a EXCEPT !.tilt_speed = s], [b EXCEPT !.tilt_speed = s]}
    BY DEF Tilts
  <2>2. 1 \in 0 .. 1
    OBVIOUS
  <2>3. a \in Fields /\ b \in Fields
    BY <1>1, <1>2, <2>2
  <2> HIDE DEF a, b
  <2> QED BY <1>3, <1>6, <2>1, <2>3
<1>7. ASSUME NEW s \in 0 .. 7 PROVE Zooms(s) \subseteq Fields
  <2> DEFINE a == [Still EXCEPT !.zoom_in = 1]
             b == [Still EXCEPT !.zoom_out = 1]
  <2>1. Zooms(s) = {[a EXCEPT !.zoom_speed = s], [b EXCEPT !.zoom_speed = s]}
    BY DEF Zooms
  <2>2. 1 \in 0 .. 1
    OBVIOUS
  <2>3. a \in Fields /\ b \in Fields
    BY <1>1, <1>2, <2>2
  <2> HIDE DEF a, b
  <2> QED BY <1>4, <1>7, <2>1, <2>3
<1>8. Lens \subseteq Fields
  BY <1>1 DEF Lens, Fields
<1>9. ASSUME NEW s \in 0 .. 15, NEW t \in 0 .. 15
      PROVE  Diagonals(s, t) \subseteq Fields
  <2> SUFFICES ASSUME NEW p \in Pans(s), NEW u \in Tilts(t)
               PROVE  Both(p, u) \in Fields
    BY DEF Diagonals
  <2>1. p \in Fields /\ u \in Fields
    BY <1>5, <1>6, <1>9
  <2>2. /\ u.tilt_up \in 0 .. 1 /\ u.tilt_down \in 0 .. 1
        /\ u.tilt_speed \in 0 .. 15
    BY <2>1 DEF Fields
  <2> DEFINE a == [p EXCEPT !.tilt_up = u.tilt_up]
             b == [a EXCEPT !.tilt_down = u.tilt_down]
  <2>3. Both(p, u) = [b EXCEPT !.tilt_speed = u.tilt_speed]
    BY DEF Both
  <2>4. a \in Fields
    BY <1>2, <2>1, <2>2
  <2>5. b \in Fields
    <3> HIDE DEF a
    <3> QED BY <1>2, <2>2, <2>4
  <2> HIDE DEF a, b
  <2> QED BY <1>3, <2>2, <2>3, <2>5
<1>10. v \in {move_stop} \union Lens => v \in Fields
  BY <1>1, <1>8 DEF move_stop
<1>11. v \in Straight => v \in Fields
  BY <1>5, <1>6 DEF Straight
<1>12. v \in Diagonal => v \in Fields
  BY <1>9 DEF Diagonal
<1>13. v \in Zoom => v \in Fields
  BY <1>7 DEF Zoom
<1> QED BY <1>10, <1>11, <1>12, <1>13 DEF VarSpeed

\* The octets of a packet, its header and its checksum.
Wrapped(p) ==
  /\ p \in Seq(Nat) /\ Len(p) \in {7, 8} /\ p[1] = Len(p) + 127
  /\ \A k \in 2 .. Len(p) : p[k] \in 0 .. 127
  /\ Genuine(p)

\* What is in two sequences put together.
LEMMA Together ==
  ASSUME NEW a \in Seq(Nat), NEW b \in Seq(Nat)
  PROVE  /\ a \o b \in Seq(Nat) /\ Len(a \o b) = Len(a) + Len(b)
         /\ \A k \in 1 .. Len(a) : (a \o b)[k] = a[k]
         /\ \A k \in 1 .. Len(b) : (a \o b)[Len(a) + k] = b[k]
<1>1. a \o b \in Seq(Nat) /\ Len(a \o b) = Len(a) + Len(b)
  OBVIOUS
<1>2. ASSUME NEW k \in 1 .. Len(a) PROVE (a \o b)[k] = a[k]
  OBVIOUS
<1>3. ASSUME NEW k \in 1 .. Len(b) PROVE (a \o b)[Len(a) + k] = b[k]
  OBVIOUS
<1> QED BY <1>1, <1>2, <1>3

\* And in a sequence with one more at its end.
LEMMA OneMore ==
  ASSUME NEW a \in Seq(Nat), NEW x \in Nat
  PROVE  /\ Append(a, x) \in Seq(Nat) /\ Len(Append(a, x)) = Len(a) + 1
         /\ \A k \in 1 .. Len(a) : Append(a, x)[k] = a[k]
         /\ Append(a, x)[Len(a) + 1] = x
         /\ SubSeq(Append(a, x), 1, Len(a)) = a
OBVIOUS

\* Octets without the top bit.
Data(d) == d \in Seq(Nat) /\ \A k \in 1 .. Len(d) : d[k] \in 0 .. 127

\* What a packet has between its header and its checksum.
Carried(d, c) ==
  /\ c.opcode \in 0 .. 127 /\ Data(d) /\ Len(d) \in {2, 3}
  /\ d = IF c.opcode = 5 THEN VarSpeedPTZ(c.what) ELSE Preposition(c.what)

\* A packet is wrapped when its data have no octet with the top bit set.
LEMMA Wraps ==
  ASSUME NEW c, NEW d, Carried(d, c)
  PROVE  /\ Wrapped(osrd_packet(c))
         /\ Len(osrd_packet(c)) = Len(d) + 5
         /\ osrd_packet(c)[4] = c.opcode
         /\ \A k \in 1 .. Len(d) : osrd_packet(c)[4 + k] = d[k]
<1>0. /\ c.opcode \in 0 .. 127 /\ Data(d) /\ Len(d) \in {2, 3}
      /\ d = IF c.opcode = 5 THEN VarSpeedPTZ(c.what) ELSE Preposition(c.what)
  BY DEF Carried
<1> USE <1>0
<1> DEFINE four == <<128 + 4 + Len(d), 0, Address, c.opcode>>
           body == four \o d
           p == Append(body, checksum(body))
<1>1. /\ four \in Seq(Nat) /\ Len(four) = 4 /\ four[1] = 132 + Len(d)
      /\ four[2] = 0 /\ four[3] = Address /\ four[4] = c.opcode
  <2>1. 128 + 4 + Len(d) = 132 + Len(d) /\ 132 + Len(d) \in Nat
    OBVIOUS
  <2>2. Address \in Nat /\ c.opcode \in Nat
    BY PtzAssumption
  <2> QED BY <2>1, <2>2
<1>2. d \in Seq(Nat) /\ \A k \in 1 .. Len(d) : d[k] \in 0 .. 127
  BY DEF Data
<1>3. p = osrd_packet(c)
  BY DEF osrd_packet
<1> HIDE DEF four
<1>4. /\ body \in Seq(Nat) /\ Len(body) = Len(d) + 4
      /\ body[1] = 132 + Len(d) /\ body[2] = 0 /\ body[3] = Address
      /\ body[4] = c.opcode /\ \A k \in 1 .. Len(d) : body[4 + k] = d[k]
  <2>1. /\ body \in Seq(Nat) /\ Len(body) = Len(four) + Len(d)
        /\ \A k \in 1 .. Len(four) : body[k] = four[k]
        /\ \A k \in 1 .. Len(d) : body[Len(four) + k] = d[k]
    BY <1>1, <1>2, Together
  <2> HIDE DEF body
  <2>2. /\ body \in Seq(Nat) /\ Len(body) = Len(d) + 4
        /\ \A k \in 1 .. Len(d) : body[4 + k] = d[k]
    BY <1>1, <1>2, <2>1
  <2>3. /\ body[1] = 132 + Len(d) /\ body[2] = 0 /\ body[3] = Address
        /\ body[4] = c.opcode
    <3>1. /\ 1 \in 1 .. Len(four) /\ 2 \in 1 .. Len(four)
          /\ 3 \in 1 .. Len(four) /\ 4 \in 1 .. Len(four)
      BY ONLY <1>1
    <3>2. /\ body[1] = four[1] /\ body[2] = four[2] /\ body[3] = four[3]
          /\ body[4] = four[4]
      BY ONLY <2>1, <3>1
    <3> QED BY ONLY <1>1, <3>2
  <2> QED BY <2>2, <2>3
<1> HIDE DEF body
<1>5. SumOf(body) \in Nat /\ checksum(body) = SumOf(body) % 128
  <2>1. /\ body \in Seq(Nat) /\ 1 \in 1 .. Len(body)
        /\ \A k \in 1 .. Len(body) : k # 1 => body[k] = body[k]
    BY <1>2, <1>4
  <2>2. SumOf(body) \in Nat
    BY ONLY <2>1, SumChanges
  <2> QED BY <2>2 DEF checksum
<1>6. checksum(body) \in 0 .. 127
  BY <1>5
<1>7. /\ p \in Seq(Nat) /\ Len(p) = Len(d) + 5
      /\ \A k \in 1 .. Len(d) + 4 : p[k] = body[k]
      /\ p[Len(d) + 5] = checksum(body)
      /\ SubSeq(p, 1, Len(d) + 4) = body
  <2>1. checksum(body) \in Nat
    BY <1>6
  <2> DEFINE x == checksum(body)
  <2> HIDE DEF x
  <2>2. p = Append(body, x) /\ x \in Nat
    BY <2>1 DEF x
  <2>3. /\ p \in Seq(Nat) /\ Len(p) = Len(body) + 1
        /\ \A k \in 1 .. Len(body) : p[k] = body[k]
        /\ p[Len(body) + 1] = x /\ SubSeq(p, 1, Len(body)) = body
    <3> HIDE DEF p
    <3>1. body \in Seq(Nat)
      BY <1>4
    <3> QED BY ONLY <2>2, <3>1, OneMore
  <2>4. Len(body) = Len(d) + 4 /\ Len(d) + 4 + 1 = Len(d) + 5
    BY <1>4
  <2> HIDE DEF p
  <2> QED BY <2>3, <2>4 DEF x
<1>8. SubSeq(p, 1, Len(p) - 1) = body
  <2> HIDE DEF p
  <2>1. Len(p) - 1 = Len(d) + 4
    BY <1>7
  <2> QED BY <1>7, <2>1
<1> HIDE DEF p
<1>9. /\ p[1] = 132 + Len(d) /\ p[2] = 0 /\ p[3] = Address /\ p[4] = c.opcode
      /\ p[Len(p)] = SumOf(SubSeq(p, 1, Len(p) - 1)) % 128
  <2>1. /\ 1 \in 1 .. Len(d) + 4 /\ 2 \in 1 .. Len(d) + 4
        /\ 3 \in 1 .. Len(d) + 4 /\ 4 \in 1 .. Len(d) + 4
    OBVIOUS
  <2>2. p[1] = body[1] /\ p[2] = body[2] /\ p[3] = body[3] /\ p[4] = body[4]
    BY <1>7, <2>1
  <2>3. p[Len(p)] = SumOf(SubSeq(p, 1, Len(p) - 1)) % 128
    BY <1>5, <1>7, <1>8
  <2> QED BY <1>4, <2>2, <2>3
<1>10. ASSUME NEW k \in 2 .. Len(p) PROVE p[k] \in 0 .. 127
  <2>1. k \in {2, 3, 4} \/ k = Len(d) + 5 \/ k - 4 \in 1 .. Len(d)
    BY <1>7
  <2>2. CASE k \in {2, 3, 4}
    <3>1. Address \in 0 .. 127 /\ 0 \in 0 .. 127
      BY PtzAssumption
    <3>2. p[2] \in 0 .. 127 /\ p[3] \in 0 .. 127 /\ p[4] \in 0 .. 127
      BY <1>9, <3>1
    <3> QED BY <2>2, <3>2
  <2>3. CASE k = Len(d) + 5
    BY <1>6, <1>7, <2>3
  <2>4. CASE k - 4 \in 1 .. Len(d)
    <3>1. body[4 + (k - 4)] = d[k - 4] /\ 4 + (k - 4) = k
      BY <1>4, <2>4
    <3>2. k \in 1 .. Len(d) + 4
      BY <2>4
    <3>3. p[k] = d[k - 4] /\ d[k - 4] \in 0 .. 127
      BY <1>2, <1>7, <2>4, <3>1, <3>2
    <3> QED BY <3>3
  <2> QED BY <2>1, <2>2, <2>3, <2>4
<1>11. Wrapped(p)
  <2>1. Len(p) \in {7, 8} /\ p[1] = Len(p) + 127
    <3> DEFINE n == Len(d)
               m == Len(p)
    <3>1. m = n + 5 /\ p[1] = 132 + n /\ n \in {2, 3}
      BY <1>7, <1>9
    <3> HIDE DEF n, m
    <3>2. m \in {7, 8} /\ p[1] = m + 127
      BY <3>1
    <3> QED BY <3>2 DEF m
  <2>2. Genuine(p)
    BY <1>9 DEF Genuine
  <2> QED BY <1>7, <1>10, <2>1, <2>2 DEF Wrapped
<1>12. ASSUME NEW k \in 1 .. Len(d) PROVE p[4 + k] = d[k]
  <2>1. 4 + k \in 1 .. Len(d) + 4
    BY <1>2
  <2> QED BY <1>4, <1>7, <2>1
<1> QED BY <1>3, <1>7, <1>9, <1>11, <1>12

\* The camera takes the fields back out of the three octets.
LEMMA UnderstandsSpeeds ==
  ASSUME NEW v \in Fields, NEW p,
         p[4] = 5, p[5] = VarSpeedPTZ(v)[1], p[6] = VarSpeedPTZ(v)[2],
         p[7] = VarSpeedPTZ(v)[3]
  PROVE  /\ Data(VarSpeedPTZ(v)) /\ Len(VarSpeedPTZ(v)) = 3
         /\ Understood(p) = [opcode |-> 5, what |-> v]
<1> DEFINE x == v.tilt_speed + 16 * v.zoom_speed
           y == v.focus_far + 2 * v.iris_darker + 4 * v.iris_brighter
                  + 8 * v.pan_speed
           z == v.pan_right + 2 * v.pan_left + 4 * v.tilt_down + 8 * v.tilt_up
                  + 16 * v.zoom_out + 32 * v.zoom_in + 64 * v.focus_near
<1>1. x \in 0 .. 127 /\ v.tilt_speed = x % 16 /\ v.zoom_speed = (x \div 16) % 8
  BY DEF Fields
<1>2. y \in 0 .. 127 /\ v.pan_speed = (y \div 8) % 16
  BY DEF Fields
<1>3. /\ v.focus_far = Bit(y, 1) /\ v.iris_darker = Bit(y, 2)
      /\ v.iris_brighter = Bit(y, 4)
  BY DEF Fields, Bit
<1>4. /\ z \in 0 .. 127
      /\ v.pan_right = Bit(z, 1) /\ v.pan_left = Bit(z, 2)
      /\ v.tilt_down = Bit(z, 4) /\ v.tilt_up = Bit(z, 8)
  BY DEF Fields, Bit
<1>5. /\ v.zoom_out = Bit(z, 16) /\ v.zoom_in = Bit(z, 32)
      /\ v.focus_near = Bit(z, 64)
  BY DEF Fields, Bit
<1>6. v = [tilt_speed |-> v.tilt_speed, zoom_speed |-> v.zoom_speed,
           pan_speed |-> v.pan_speed, focus_far |-> v.focus_far,
           iris_darker |-> v.iris_darker, iris_brighter |-> v.iris_brighter,
           pan_right |-> v.pan_right, pan_left |-> v.pan_left,
           tilt_down |-> v.tilt_down, tilt_up |-> v.tilt_up,
           zoom_out |-> v.zoom_out, zoom_in |-> v.zoom_in,
           focus_near |-> v.focus_near]
  BY DEF Fields
<1>7. VarSpeedPTZ(v) = <<x, y, z>>
  BY DEF VarSpeedPTZ
<1> HIDE DEF x, y, z
<1>8. Data(VarSpeedPTZ(v)) /\ Len(VarSpeedPTZ(v)) = 3
  BY <1>1, <1>2, <1>4, <1>7 DEF Data
<1>9. p[5] = x /\ p[6] = y /\ p[7] = z
  BY <1>7
<1>10. Understood(p) = [opcode |-> 5, what |-> v]
  BY <1>1, <1>2, <1>3, <1>4, <1>5, <1>6, <1>9 DEF Understood
<1> QED BY <1>8, <1>10

\* And the number of a position out of the two.
LEMMA UnderstandsPositions ==
  ASSUME NEW v \in Positions, NEW p,
         p[4] = 7, p[5] = Preposition(v)[1], p[6] = Preposition(v)[2]
  PROVE  /\ Data(Preposition(v)) /\ Len(Preposition(v)) = 2
         /\ Understood(p) = [opcode |-> 7, what |-> v]
<1> DEFINE f == v.function_code
           n == v.number
           x == f + 16 * ((n \div 128) % 8)
           y == n % 128
<1>0. f \in {4, 5} /\ n \in 0 .. 1023
  BY DEF Positions
<1> HIDE DEF f, n
<1>1. x \in 0 .. 127 /\ f = x % 16
  BY <1>0
<1>2. y \in 0 .. 127 /\ n = (x \div 16) * 128 + y
  BY <1>0
<1> USE DEF f, n
<1>3. v = [function_code |-> v.function_code, number |-> v.number]
  BY DEF Positions
<1>4. Preposition(v) = <<x, y>>
  BY DEF Preposition
<1> HIDE DEF x, y
<1>5. Data(Preposition(v)) /\ Len(Preposition(v)) = 2
  BY <1>1, <1>2, <1>4 DEF Data
<1>6. Understood(p) = [opcode |-> 7, what |-> v]
  BY <1>1, <1>2, <1>3, <1>4 DEF Understood
<1> QED BY <1>5, <1>6

\* A packet for a camera: wrapped, and understood as the command it is made of.
\* The camera does not need the checksum to understand the longer one.
LEMMA PacketIs ==
  ASSUME NEW c \in Commands
  PROVE  /\ Wrapped(osrd_packet(c)) /\ Understood(osrd_packet(c)) = c
         /\ Len(osrd_packet(c)) = 8 => osrd_packet(c)[4] = 5
<1> DEFINE p == osrd_packet(c)
<1>1. CASE c \in [opcode : {5}, what : VarSpeed]
  <2>1. c.opcode = 5 /\ c.what \in Fields
        /\ c = [opcode |-> 5, what |-> c.what]
    BY <1>1, SpeedsFit
  <2> DEFINE d == VarSpeedPTZ(c.what)
             q == [i \in 1 .. 7 |-> IF i < 5 THEN 5 ELSE d[i - 4]]
  <2>2. Data(d) /\ Len(d) = 3
    <3>1. q[4] = 5 /\ q[5] = d[1] /\ q[6] = d[2] /\ q[7] = d[3]
      OBVIOUS
    <3> HIDE DEF q
    <3> QED BY <2>1, <3>1, UnderstandsSpeeds
  <2>3. /\ Wrapped(p) /\ Len(p) = Len(d) + 5 /\ p[4] = 5
        /\ \A k \in 1 .. Len(d) : p[4 + k] = d[k]
    <3>1. Carried(d, c)
      BY <2>1, <2>2 DEF Carried
    <3> HIDE DEF d
    <3>2. /\ Wrapped(p) /\ Len(p) = Len(d) + 5 /\ p[4] = c.opcode
          /\ \A k \in 1 .. Len(d) : p[4 + k] = d[k]
      BY ONLY <3>1, Wraps
    <3> HIDE DEF p
    <3> QED BY <2>1, <3>2
  <2>4. p[5] = d[1] /\ p[6] = d[2] /\ p[7] = d[3]
    <3> HIDE DEF p, d
    <3> QED BY <2>2, <2>3
  <2>5. Understood(p) = c
    BY <2>1, <2>3, <2>4, UnderstandsSpeeds
  <2> QED BY <2>3, <2>5
<1>2. CASE c \in [opcode : {7}, what : Positions]
  <2>1. c.opcode = 7 /\ c.what \in Positions
        /\ c = [opcode |-> 7, what |-> c.what]
    BY <1>2
  <2> DEFINE d == Preposition(c.what)
             q == [i \in 1 .. 6 |-> IF i < 5 THEN 7 ELSE d[i - 4]]
  <2>2. Data(d) /\ Len(d) = 2
    <3>1. q[4] = 7 /\ q[5] = d[1] /\ q[6] = d[2]
      OBVIOUS
    <3> HIDE DEF q
    <3> QED BY <2>1, <3>1, UnderstandsPositions
  <2>3. /\ Wrapped(p) /\ Len(p) = Len(d) + 5 /\ p[4] = 7
        /\ \A k \in 1 .. Len(d) : p[4 + k] = d[k]
    <3>1. Carried(d, c)
      BY <2>1, <2>2 DEF Carried
    <3> HIDE DEF d
    <3>2. /\ Wrapped(p) /\ Len(p) = Len(d) + 5 /\ p[4] = c.opcode
          /\ \A k \in 1 .. Len(d) : p[4 + k] = d[k]
      BY ONLY <3>1, Wraps
    <3> HIDE DEF p
    <3> QED BY <2>1, <3>2
  <2>4. p[5] = d[1] /\ p[6] = d[2]
    <3> HIDE DEF p, d
    <3> QED BY <2>2, <2>3
  <2>5. Understood(p) = c
    BY <2>1, <2>3, <2>4, UnderstandsPositions
  <2> QED BY <2>2, <2>3, <2>5
<1> QED BY <1>1, <1>2 DEF Commands

-----------------------------------------------------------------------------
(***************************************************************************)
(* What the camera does with an octet (Hear).                              *)
(***************************************************************************)

\* Types, and that a command that was done was written.
Calls == [command : Moves, result : {0, -1}, written : BOOLEAN]
PtzTypes ==
  /\ asked \in Seq(Calls) /\ serial \in Seq(Nat) /\ heard \in Seq(Nat)
  /\ \E Y : obeyed \in Seq(Y)
  /\ damage \in Nat
  /\ \A i \in 1 .. Len(asked) : asked[i].result = 0 => asked[i].written

\* The packet of a command, what the camera has of it before its k-th octet.
Packet(i) == osrd_packet(asked[i].command)
Before(i, k) == SubSeq(Packet(i), 1, k - 1)

\* Every command is one that its packet can hold.
LEMMA PacketOf ==
  ASSUME PtzTypes, NEW i \in 1 .. Len(asked)
  PROVE  /\ Wrapped(Packet(i)) /\ Understood(Packet(i)) = asked[i].command
         /\ Len(Packet(i)) = 8 => Packet(i)[4] = 5
<1>1. asked[i] \in Calls
  BY DEF PtzTypes
<1>2. asked[i].command \in Moves
  BY <1>1 DEF Calls
<1>3. asked[i].command \in Commands
  BY <1>2, PtzAssumption
<1> QED BY <1>3, PacketIs DEF Packet

\* A packet is never over with its first octet.
LEMMA HearsHeader ==
  ASSUME NEW x \in Nat, x >= 128, Hear(x)
  PROVE  obeyed' = obeyed /\ heard' = IF x = 128 THEN <<>> ELSE <<x>>
<1>1. /\ Len(<<x>>) = 1 /\ <<x>> # <<>> /\ <<x>>[1] = x
      /\ (1 = x - 128 + 1 <=> x = 128)
  OBVIOUS
<1> DEFINE now == <<x>>
<1>2. /\ heard' = IF now # <<>> /\ Len(now) = now[1] - 128 + 1
                  THEN <<>> ELSE now
      /\ ~(Len(now) > 6) => obeyed' = obeyed
  BY DEF Hear
<1>3. heard' = IF x = 128 THEN <<>> ELSE now
  <2> HIDE DEF now
  <2>1. Len(now) = 1 /\ now # <<>> /\ now[1] = x
    BY <1>1 DEF now
  <2> QED BY <1>1, <1>2, <2>1
<1>4. obeyed' = obeyed
  BY <1>1, <1>2
<1> QED BY <1>3, <1>4

\* Octets that are not of a packet are passed over.
LEMMA HearsNothing ==
  ASSUME NEW x \in 0 .. 127, heard = <<>>, Hear(x)
  PROVE  obeyed' = obeyed /\ heard' = <<>>
<1>1. ~(x >= 128)
  OBVIOUS
<1> QED BY <1>1 DEF Hear

\* An octet of a packet: the last, when as many have come as the first says.
LEMMA HearsMore ==
  ASSUME NEW x \in 0 .. 127, heard # <<>>, Hear(x),
         NEW now, now = Append(heard, x), now # <<>>,
         Len(now) # now[1] - 128 + 1
  PROVE  obeyed' = obeyed /\ heard' = now
<1>1. ~(x >= 128)
  OBVIOUS
<1> QED BY <1>1 DEF Hear

\* Then the packet is whole, and is obeyed when it is genuine.
LEMMA HearsLast ==
  ASSUME NEW x \in 0 .. 127, heard # <<>>, Hear(x),
         NEW now, now = Append(heard, x), now # <<>>,
         Len(now) = now[1] - 128 + 1
  PROVE  /\ heard' = <<>>
         /\ obeyed' = IF Len(now) > 6 /\ Genuine(now)
                      THEN Append(obeyed, Understood(now)) ELSE obeyed
<1>1. ~(x >= 128)
  OBVIOUS
<1> QED BY <1>1 DEF Hear

\* Whatever is heard, at most one command is obeyed.
Obeys == obeyed' = obeyed \/ \E c : obeyed' = Append(obeyed, c)

\* So the state keeps its types.
LEMMA HearsSomething ==
  ASSUME PtzTypes, NEW x \in Nat, Hear(x)
  PROVE  heard' \in Seq(Nat) /\ Obeys
<1> DEFINE now == IF x >= 128 THEN <<x>>
                  ELSE IF heard = <<>> THEN <<>> ELSE Append(heard, x)
<1>1. now \in Seq(Nat) /\ <<>> \in Seq(Nat)
  BY DEF PtzTypes
<1>2. heard' = <<>> \/ heard' = now
  BY DEF Hear
<1>3. Obeys
  BY DEF Hear, Obeys
<1> QED BY <1>1, <1>2, <1>3

\* The first octet of a sequence.
LEMMA FirstOf ==
  ASSUME NEW p \in Seq(Nat), Len(p) \in Nat \ {0}
  PROVE  SubSeq(p, 1, 1) = <<p[1]>>
<1> DEFINE s == SubSeq(p, 1, 1)
           t == <<p[1]>>
<1>1. /\ s \in Seq(Nat) /\ Len(s) = 1 /\ s[1] = p[1]
      /\ t \in Seq(Nat) /\ Len(t) = 1 /\ t[1] = p[1]
  OBVIOUS
<1> HIDE DEF s, t
<1>2. s = t
  BY <1>1
<1> QED BY <1>2 DEF s, t

\* The camera obeys a packet that comes as it was sent.
LEMMA HearsPacket ==
  ASSUME PtzTypes, NEW i \in 1 .. Len(asked), NEW k \in 1 .. Len(Packet(i)),
         k > 1 => heard = Before(i, k), Hear(Packet(i)[k])
  PROVE  IF k = Len(Packet(i))
         THEN heard' = <<>> /\ obeyed' = Append(obeyed, asked[i].command)
         ELSE heard' = Before(i, k + 1) /\ obeyed' = obeyed
<1> DEFINE p == Packet(i)
           x == p[k]
           n == Len(p)
<1>1. /\ p \in Seq(Nat) /\ n \in {7, 8} /\ p[1] = n + 127
      /\ \A q \in 2 .. n : p[q] \in 0 .. 127
      /\ Genuine(p) /\ Understood(p) = asked[i].command
  BY PacketOf DEF Wrapped
<1>2. Hear(x) /\ (k > 1 => heard = SubSeq(p, 1, k - 1))
  BY DEF Before
<1>3. Before(i, k + 1) = SubSeq(p, 1, k) /\ k \in 1 .. n /\ n = Len(p)
  BY DEF Before
<1>4. Packet(i) = p
  OBVIOUS
<1> HIDE DEF p, n
<1>5. CASE k = 1
  <2>1. x = n + 127
    BY <1>1, <1>5
  <2>2. x \in Nat /\ x >= 128 /\ x # 128 /\ k # n
    BY <1>1, <1>5, <2>1
  <2> HIDE DEF x
  <2>3. obeyed' = obeyed /\ heard' = <<x>>
    BY <1>2, <2>2, HearsHeader
  <2>4. SubSeq(p, 1, 1) = <<p[1]>>
    <3>1. p \in Seq(Nat) /\ Len(p) \in Nat \ {0}
      BY <1>1, <1>3
    <3> QED BY ONLY <3>1, FirstOf
  <2> QED BY <1>3, <1>4, <1>5, <2>2, <2>3, <2>4 DEF x
<1>6. CASE k # 1
  <2>1. k \in Nat /\ k > 1 /\ k \in 2 .. n /\ n \in Nat
    BY <1>1, <1>3, <1>6
  <2>2. x \in 0 .. 127
    BY <1>1, <2>1
  <2>3. heard = SubSeq(p, 1, k - 1)
    BY <1>2, <2>1
  <2> DEFINE now == SubSeq(p, 1, k)
  <2>4. /\ Len(SubSeq(p, 1, k - 1)) = k - 1
        /\ Append(SubSeq(p, 1, k - 1), p[k]) = now
    BY <1>1, <1>3, <2>1
  <2>5. Len(now) = k /\ now[1] = p[1] /\ (k = n => now = p)
    BY <1>1, <1>3, <2>1
  <2> HIDE DEF x, now
  <2>6. heard # <<>> /\ now = Append(heard, x) /\ now # <<>>
    <3>1. Len(heard) = k - 1 /\ k - 1 # 0 /\ k # 0
      BY <2>1, <2>3, <2>4
    <3>2. heard # <<>> /\ now # <<>>
      BY <2>5, <3>1
    <3> QED BY <2>3, <2>4, <3>2 DEF x
  <2>7. CASE k = n
    <3>1. k = now[1] - 128 + 1 /\ k > 6
      BY <1>1, <2>1, <2>5, <2>7
    <3>2. Len(now) = now[1] - 128 + 1 /\ Len(now) > 6 /\ Genuine(now)
      BY <1>1, <2>5, <2>7, <3>1
    <3>3. heard' = <<>> /\ obeyed' = Append(obeyed, Understood(now))
      BY <1>2, <2>2, <2>6, <3>2, HearsLast
    <3> QED BY <1>1, <1>3, <1>4, <2>5, <2>7, <3>3
  <2>8. CASE k # n
    <3>1. k # now[1] - 128 + 1
      BY <1>1, <2>1, <2>5, <2>8
    <3>2. heard' = now /\ obeyed' = obeyed
      BY <1>2, <2>2, <2>5, <2>6, <3>1, HearsMore
    <3> QED BY <1>3, <1>4, <2>8, <3>2 DEF now
  <2> QED BY <2>7, <2>8
<1> QED BY <1>5, <1>6

-----------------------------------------------------------------------------
(***************************************************************************)
(* The octets on the serial line, and the commands they belong to.         *)
(***************************************************************************)

\* An octet on the line is the k-th of the packet of the i-th command, and the
\* next one is of the same packet or the first of the next that was written.
OctetOf(x, i, k) ==
  /\ i \in 1 .. Len(asked) /\ asked[i].written
  /\ k \in 1 .. Len(Packet(i)) /\ x = Packet(i)[k]

Follows(i, k, j, l) ==
  IF k < Len(Packet(i)) THEN j = i /\ l = k + 1
  ELSE /\ j \in Nat /\ l = 1 /\ i < j
       /\ \A m \in i + 1 .. j - 1 : ~asked[m].written

\* The line, octet by octet: the q-th is the at[q]-th of the packet of the
\* of[q]-th command, and behind the last comes the next one to be asked for.
Next2(of, at, q) == Follows(of[q], at[q], of[q + 1], at[q + 1])

Lined(of, at) ==
  /\ of \in [Nat -> Nat] /\ at \in [Nat -> Nat]
  /\ \A q \in 1 .. Len(serial) :
       OctetOf(serial[q], of[q], at[q]) /\ Next2(of, at, q)
  /\ of[Len(serial) + 1] = Len(asked) + 1 /\ at[Len(serial) + 1] = 1

\* The next octet on the line is the k-th of the packet of the i-th command.
\* When the line is empty the i-th command is the one still to be asked for.
Line(i, k) == \E of, at : Lined(of, at) /\ of[1] = i /\ at[1] = k

\* At the end of the line are the commands that were not yet asked for.
LEMMA LineEnds ==
  ASSUME PtzTypes, NEW i, NEW k, Line(i, k)
  PROVE  /\ serial = <<>> => i = Len(asked) + 1 /\ k = 1
         /\ serial # <<>> => OctetOf(Head(serial), i, k)
         /\ i \in Nat /\ k \in Nat
<1>1. PICK of, at : Lined(of, at) /\ of[1] = i /\ at[1] = k
  BY DEF Line
<1>2. i \in Nat /\ k \in Nat
  BY <1>1 DEF Lined
<1>3. CASE serial = <<>>
  <2>1. Len(serial) + 1 = 1
    BY <1>3
  <2> QED BY <1>1, <1>2, <1>3, <2>1 DEF Lined
<1>4. CASE serial # <<>>
  <2>1. 1 \in 1 .. Len(serial) /\ Head(serial) = serial[1]
    BY <1>4 DEF PtzTypes
  <2> QED BY <1>1, <1>2, <1>4, <2>1 DEF Lined
<1> QED BY <1>3, <1>4

\* What is said of a command stays true when others are asked for.
LEMMA StillOf ==
  ASSUME PtzTypes, NEW r, asked' = Append(asked, r), NEW x, NEW i, NEW k
  PROVE  /\ OctetOf(x, i, k) => OctetOf(x, i, k)'
         /\ \A j, l : i \in 1 .. Len(asked) /\ j <= Len(asked) + 1
                      /\ Follows(i, k, j, l) => Follows(i, k, j, l)'
<1>1. /\ Len(asked') = Len(asked) + 1 /\ Len(asked) \in Nat
      /\ \A m \in 1 .. Len(asked) : asked'[m] = asked[m]
  BY Appended DEF PtzTypes
<1>2. \A m \in 1 .. Len(asked) : Packet(m)' = Packet(m)
  BY <1>1 DEF Packet
<1>3. OctetOf(x, i, k) => OctetOf(x, i, k)'
  BY <1>1, <1>2 DEF OctetOf
<1>4. ASSUME NEW j, NEW l, i \in 1 .. Len(asked), j <= Len(asked) + 1,
             Follows(i, k, j, l)
      PROVE  Follows(i, k, j, l)'
  <2>1. Packet(i)' = Packet(i)
    BY <1>2, <1>4
  <2>2. CASE k < Len(Packet(i))
    BY <1>4, <2>1, <2>2 DEF Follows
  <2>3. CASE ~(k < Len(Packet(i)))
    <3>1. /\ j \in Nat /\ l = 1 /\ i < j
          /\ \A m \in i + 1 .. j - 1 : ~asked[m].written
      BY <1>4, <2>3 DEF Follows
    <3>2. ASSUME NEW m \in i + 1 .. j - 1 PROVE ~asked'[m].written
      <4>1. m \in 1 .. Len(asked)
        BY <1>1, <1>4, <3>1
      <4> QED BY <1>1, <3>1, <4>1
    <3> QED BY <2>1, <2>3, <3>1, <3>2 DEF Follows
  <2> QED BY <2>2, <2>3
<1> QED BY <1>3, <1>4

\* An octet leaves the line and the next one follows.
LEMMA LineMoves ==
  ASSUME PtzTypes, NEW i, NEW k, Line(i, k), NextOctet
  PROVE  \E j \in Nat, l \in Nat : Follows(i, k, j, l) /\ Line(j, l)'
<1>1. PICK of, at : Lined(of, at) /\ of[1] = i /\ at[1] = k
  BY DEF Line
<1>2. /\ serial # <<>> /\ serial' = Tail(serial) /\ asked' = asked
      /\ serial \in Seq(Nat)
  BY DEF NextOctet, PtzTypes
<1> DEFINE n == Len(serial)
           of2 == [q \in Nat |-> of[q + 1]]
           at2 == [q \in Nat |-> at[q + 1]]
<1>3. /\ n \in Nat \ {0} /\ Len(serial') = n - 1
      /\ \A q \in 1 .. n - 1 : serial'[q] = serial[q + 1]
  BY <1>2
<1>4. /\ of2 \in [Nat -> Nat] /\ at2 \in [Nat -> Nat]
      /\ \A q \in Nat : of2[q] = of[q + 1] /\ at2[q] = at[q + 1]
  <2>1. of \in [Nat -> Nat] /\ at \in [Nat -> Nat]
    BY <1>1 DEF Lined
  <2>2. ASSUME NEW q \in Nat PROVE of[q + 1] \in Nat /\ at[q + 1] \in Nat
    <3>1. q + 1 \in Nat
      OBVIOUS
    <3> QED BY <2>1, <3>1
  <2>3. of2 \in [Nat -> Nat] /\ at2 \in [Nat -> Nat]
    BY <2>2
  <2> QED BY <2>3
<1> HIDE DEF of2, at2
<1>5. \A a, b, c, d : Follows(a, b, c, d)' <=> Follows(a, b, c, d)
  BY <1>2 DEF Follows, Packet
<1>6. ASSUME NEW q \in 1 .. n - 1
      PROVE  OctetOf(serial[q], of2[q], at2[q])' /\ Next2(of2, at2, q)'
  <2>1. q \in Nat /\ q + 1 \in 1 .. n /\ q + 1 \in Nat
    BY <1>3
  <2> DEFINE m == q + 1
  <2>2. OctetOf(serial[m], of[m], at[m])
        /\ Follows(of[m], at[m], of[m + 1], at[m + 1])
    BY <1>1, <2>1 DEF Lined, Next2
  <2>3. /\ serial'[q] = serial[m] /\ of2[q] = of[m] /\ at2[q] = at[m]
        /\ of2[q + 1] = of[m + 1] /\ at2[q + 1] = at[m + 1]
    BY <1>3, <1>4, <2>1
  <2> HIDE DEF m
  <2>4. Follows(of2[q], at2[q], of2[q + 1], at2[q + 1])'
    BY <1>5, <2>2, <2>3
  <2>5. OctetOf(serial[q], of2[q], at2[q])'
    BY <1>2, <2>2, <2>3 DEF OctetOf, Packet
  <2>6. Next2(of2, at2, q)'
    BY <2>4 DEF Next2
  <2> QED BY <2>5, <2>6
<1>7. of2[n] = of[n + 1] /\ at2[n] = at[n + 1] /\ n - 1 + 1 = n
  BY <1>3, <1>4
<1>8. Lined(of2, at2)'
  <2>1. of[n + 1] = Len(asked) + 1 /\ at[n + 1] = 1
    BY <1>1 DEF Lined
  <2>2. of2[Len(serial') + 1] = Len(asked') + 1 /\ at2[Len(serial') + 1] = 1
    BY <1>2, <1>3, <1>7, <2>1
  <2>3. \A q \in 1 .. Len(serial') :
          OctetOf(serial[q], of2[q], at2[q])' /\ Next2(of2, at2, q)'
    BY <1>3, <1>6
  <2> QED BY <1>4, <2>2, <2>3 DEF Lined
<1>9. of2[1] = of[2] /\ at2[1] = at[2] /\ of[2] \in Nat /\ at[2] \in Nat
  BY <1>1, <1>4 DEF Lined
<1>10. Follows(i, k, of[2], at[2])
  <2>1. 1 \in 1 .. n /\ 1 + 1 = 2
    BY <1>3
  <2> QED BY <1>1, <2>1 DEF Lined, Next2
<1>11. Line(of[2], at[2])'
  BY <1>8, <1>9 DEF Line
<1> QED BY <1>9, <1>10, <1>11

\* A packet that is written comes after all that is on the line.
LEMMA LineGrows ==
  ASSUME PtzTypes, NEW i, NEW k, Line(i, k), NEW r \in Calls, r.written,
         asked' = Append(asked, r),
         serial' = serial \o osrd_packet(r.command)
  PROVE  Line(i, k)'
<1>1. PICK of, at : Lined(of, at) /\ of[1] = i /\ at[1] = k
  BY DEF Line
<1>0. PICK n \in Nat, m \in Nat : n = Len(serial) /\ m = Len(asked) + 1
  BY DEF PtzTypes
<1> DEFINE p == osrd_packet(r.command)
           s == Len(p)
           of2 == [q \in Nat |-> IF q <= n THEN of[q]
                                 ELSE IF q <= n + s THEN m ELSE m + 1]
           at2 == [q \in Nat |-> IF q <= n THEN at[q]
                                 ELSE IF q <= n + s THEN q - n ELSE 1]
<1>2. /\ Len(asked') = m /\ asked'[m] = r /\ m \in Nat \ {0}
      /\ \A q \in 1 .. Len(asked) : asked'[q] = asked[q]
  BY <1>0, Appended DEF PtzTypes
<1>3. p \in Seq(Nat) /\ s \in {7, 8} /\ Packet(m)' = p
  <2>1. r.command \in Commands
    BY PtzAssumption DEF Calls
  <2>2. p \in Seq(Nat) /\ s \in {7, 8}
    BY <2>1, PacketIs DEF Wrapped
  <2>3. Packet(m)' = p
    BY <1>2 DEF Packet
  <2> QED BY <2>2, <2>3
<1>4. serial \in Seq(Nat) /\ n = Len(serial) /\ s \in Nat
  BY <1>0, <1>3 DEF PtzTypes
<1>5. /\ Len(serial') = n + s
      /\ \A q \in 1 .. n : serial'[q] = serial[q]
      /\ \A q \in 1 .. s : serial'[n + q] = p[q]
  <2>1. p \in Seq(Nat) /\ serial' = serial \o p /\ s = Len(p)
    BY <1>3
  <2> HIDE DEF p, s
  <2>2. /\ Len(serial \o p) = n + s
        /\ \A q \in 1 .. n : (serial \o p)[q] = serial[q]
        /\ \A q \in 1 .. s : (serial \o p)[n + q] = p[q]
    BY <1>4, <2>1, Together
  <2> QED BY <2>1, <2>2
<1>6. of \in [Nat -> Nat] /\ at \in [Nat -> Nat] /\ of[n + 1] = m
      /\ at[n + 1] = 1
  BY <1>0, <1>1 DEF Lined
<1>7. /\ of2 \in [Nat -> Nat] /\ at2 \in [Nat -> Nat]
      /\ \A q \in 1 .. n : of2[q] = of[q] /\ at2[q] = at[q]
      /\ \A q \in 1 .. s : of2[n + q] = m /\ at2[n + q] = q
      /\ of2[n + s + 1] = m + 1 /\ at2[n + s + 1] = 1
  <2> HIDE DEF s
  <2>1. ASSUME NEW q \in Nat
        PROVE  /\ (IF q <= n THEN of[q] ELSE IF q <= n + s THEN m ELSE m + 1)
                     \in Nat
               /\ (IF q <= n THEN at[q] ELSE IF q <= n + s THEN q - n ELSE 1)
                     \in Nat
    <3>1. of[q] \in Nat /\ at[q] \in Nat
      BY <1>6
    <3>2. m + 1 \in Nat /\ (~(q <= n) => q - n \in Nat)
      OBVIOUS
    <3> QED BY <3>1, <3>2
  <2>2. of2 \in [Nat -> Nat] /\ at2 \in [Nat -> Nat]
    BY <2>1
  <2>3. ASSUME NEW q \in 1 .. n PROVE of2[q] = of[q] /\ at2[q] = at[q]
    BY <1>4
  <2>4. ASSUME NEW q \in 1 .. s PROVE of2[n + q] = m /\ at2[n + q] = q
    <3>1. /\ n + q \in Nat /\ ~(n + q <= n) /\ n + q <= n + s
          /\ n + q - n = q /\ q \in Nat
      BY <1>4
    <3> QED BY <3>1
  <2>5. of2[n + s + 1] = m + 1 /\ at2[n + s + 1] = 1
    <3>1. n + s + 1 \in Nat /\ ~(n + s + 1 <= n) /\ ~(n + s + 1 <= n + s)
      BY <1>4
    <3> QED BY <3>1
  <2> QED BY <2>2, <2>3, <2>4, <2>5
<1> HIDE DEF of2, at2, s, p
<1>8. of2[n + 1] = of[n + 1] /\ at2[n + 1] = at[n + 1]
  <2>1. 1 \in 1 .. s
    BY <1>3
  <2> QED BY <1>6, <1>7, <2>1
<1>9. ASSUME NEW q \in 1 .. n
      PROVE  OctetOf(serial[q], of2[q], at2[q])' /\ Next2(of2, at2, q)'
  <2>1. /\ OctetOf(serial[q], of[q], at[q])
        /\ Follows(of[q], at[q], of[q + 1], at[q + 1])
    BY <1>0, <1>1 DEF Lined, Next2
  <2>2. of2[q + 1] = of[q + 1] /\ at2[q + 1] = at[q + 1]
    <3>1. q + 1 \in 1 .. n \/ q + 1 = n + 1
      BY <1>4
    <3> QED BY <1>7, <1>8, <3>1
  <2>3. of[q] \in 1 .. Len(asked)
    BY <2>1 DEF OctetOf
  <2>4. of[q + 1] <= Len(asked) + 1
    <3>1. CASE q + 1 = n + 1
      BY <1>0, <1>6, <3>1
    <3>2. CASE q + 1 \in 1 .. n
      <4>1. OctetOf(serial[q + 1], of[q + 1], at[q + 1])
        BY <1>0, <1>1, <3>2 DEF Lined
      <4> QED BY <4>1 DEF OctetOf
    <3> QED BY <1>4, <3>1, <3>2
  <2>5. Follows(of[q], at[q], of[q + 1], at[q + 1])'
    BY <2>1, <2>3, <2>4, StillOf
  <2>6. Packet(of[q])' = Packet(of[q]) /\ asked'[of[q]] = asked[of[q]]
    BY <1>2, <2>3 DEF Packet
  <2>7. serial'[q] = serial[q] /\ of2[q] = of[q] /\ at2[q] = at[q]
    BY <1>5, <1>7
  <2>8. OctetOf(serial[q], of2[q], at2[q])'
    BY <1>0, <1>2, <2>1, <2>3, <2>6, <2>7 DEF OctetOf
  <2>9. Next2(of2, at2, q)'
    BY <2>2, <2>5, <2>7 DEF Next2
  <2> QED BY <2>8, <2>9
<1>10. ASSUME NEW q \in 1 .. s
       PROVE  /\ OctetOf(serial[n + q], of2[n + q], at2[n + q])'
              /\ Next2(of2, at2, n + q)'
  <2>1. serial'[n + q] = p[q] /\ of2[n + q] = m /\ at2[n + q] = q
    BY <1>5, <1>7
  <2>2. OctetOf(serial[n + q], of2[n + q], at2[n + q])'
    BY <1>2, <1>3, <2>1 DEF OctetOf, s
  <2>3. CASE q < s
    <3>1. q + 1 \in 1 .. s /\ n + q + 1 = n + (q + 1)
      BY <1>3, <1>4, <2>3
    <3>2. of2[n + q + 1] = m /\ at2[n + q + 1] = q + 1
      BY <1>7, <3>1
    <3>3. Next2(of2, at2, n + q)'
      BY <1>3, <2>1, <2>3, <3>2 DEF Next2, Follows, s
    <3> QED BY <2>2, <3>3
  <2>4. CASE q = s
    <3>1. of2[n + q + 1] = m + 1 /\ at2[n + q + 1] = 1
      BY <1>7, <2>4
    <3>2. m + 1 \in Nat /\ m < m + 1 /\ m + 1 .. m + 1 - 1 = {} /\ ~(q < s)
      BY <1>2, <1>4, <2>4
    <3>3. Next2(of2, at2, n + q)'
      BY <1>3, <2>1, <3>1, <3>2 DEF Next2, Follows, s
    <3> QED BY <2>2, <3>3
  <2>5. q < s \/ q = s
    BY <1>4
  <2> QED BY <2>3, <2>4, <2>5
<1>11. ASSUME NEW q \in 1 .. n + s
       PROVE  OctetOf(serial[q], of2[q], at2[q])' /\ Next2(of2, at2, q)'
  <2>1. CASE q \in 1 .. n
    BY <1>9, <2>1
  <2>2. CASE q \notin 1 .. n
    <3>1. q - n \in 1 .. s /\ n + (q - n) = q
      BY <1>4, <2>2
    <3> DEFINE t == q - n
    <3> HIDE DEF t
    <3>2. t \in 1 .. s /\ n + t = q
      BY <3>1 DEF t
    <3>3. /\ OctetOf(serial[n + t], of2[n + t], at2[n + t])'
          /\ Next2(of2, at2, n + t)'
      BY <1>10, <3>2
    <3> QED BY <3>2, <3>3
  <2> QED BY <2>1, <2>2
<1>12. Lined(of2, at2)'
  <2>1. of2[Len(serial') + 1] = Len(asked') + 1 /\ at2[Len(serial') + 1] = 1
    BY <1>2, <1>5, <1>7
  <2>2. \A q \in 1 .. Len(serial') :
          OctetOf(serial[q], of2[q], at2[q])' /\ Next2(of2, at2, q)'
    BY <1>5, <1>11
  <2> QED BY <1>7, <2>1, <2>2 DEF Lined
<1>13. of2[1] = of[1] /\ at2[1] = at[1]
  <2>1. 1 \in 1 .. n \/ n + 1 = 1
    BY <1>4
  <2> QED BY <1>7, <1>8, <2>1
<1> QED BY <1>1, <1>12, <1>13 DEF Line

\* A command that is not written leaves the line as it is.  When the line is
\* empty, the one to be asked for is the next one.
LEMMA LineStays ==
  ASSUME PtzTypes, NEW i, NEW k, Line(i, k), NEW r, ~r.written,
         asked' = Append(asked, r), serial' = serial
  PROVE  \E j : j = (IF serial = <<>> THEN i + 1 ELSE i) /\ Line(j, k)'
<1>1. PICK of, at : Lined(of, at) /\ of[1] = i /\ at[1] = k
  BY DEF Line
<1>0. PICK n \in Nat, m \in Nat : n = Len(serial) /\ m = Len(asked) + 1
  BY DEF PtzTypes
<1> DEFINE of2 == [of EXCEPT ![n + 1] = m + 1]
<1>2. /\ Len(asked') = m /\ asked'[m] = r /\ m \in Nat \ {0}
      /\ \A q \in 1 .. Len(asked) : asked'[q] = asked[q]
  BY <1>0, Appended DEF PtzTypes
<1>3. serial \in Seq(Nat) /\ n = Len(serial)
  BY <1>0 DEF PtzTypes
<1>4. /\ of \in [Nat -> Nat] /\ at \in [Nat -> Nat] /\ of[n + 1] = m
      /\ at[n + 1] = 1
  BY <1>0, <1>1 DEF Lined
<1>5. /\ of2 \in [Nat -> Nat] /\ of2[n + 1] = m + 1
      /\ \A q \in 1 .. n : of2[q] = of[q]
  <2>1. n + 1 \in Nat /\ m + 1 \in Nat /\ n + 1 \notin 1 .. n
    BY <1>2, <1>3
  <2>2. ASSUME NEW q \in 1 .. n PROVE of2[q] = of[q]
    BY <1>4, <2>1
  <2> QED BY <1>4, <2>1, <2>2
<1> HIDE DEF of2
<1>6. ASSUME NEW q \in 1 .. n
      PROVE  OctetOf(serial[q], of2[q], at[q])' /\ Next2(of2, at, q)'
  <2>1. /\ OctetOf(serial[q], of[q], at[q])
        /\ Follows(of[q], at[q], of[q + 1], at[q + 1])
    BY <1>0, <1>1 DEF Lined, Next2
  <2>2. of[q] \in 1 .. Len(asked)
    BY <2>1 DEF OctetOf
  <2>3. of[q + 1] <= Len(asked) + 1
    <3>1. CASE q + 1 = n + 1
      BY <1>0, <1>4, <3>1
    <3>2. CASE q + 1 \in 1 .. n
      <4>1. OctetOf(serial[q + 1], of[q + 1], at[q + 1])
        BY <1>0, <1>1, <3>2 DEF Lined
      <4> QED BY <4>1 DEF OctetOf
    <3> QED BY <1>3, <3>1, <3>2
  <2>4. Follows(of[q], at[q], of[q + 1], at[q + 1])'
    BY <2>1, <2>2, <2>3, StillOf
  <2>5. Packet(of[q])' = Packet(of[q]) /\ asked'[of[q]] = asked[of[q]]
    BY <1>2, <2>2 DEF Packet
  <2>6. OctetOf(serial[q], of2[q], at[q])'
    <3>1. serial'[q] = serial[q] /\ of2[q] = of[q]
      BY <1>5
    <3> QED BY <1>0, <1>2, <2>1, <2>2, <2>5, <3>1 DEF OctetOf
  <2>7. Next2(of2, at, q)'
    <3>1. CASE q + 1 \in 1 .. n
      BY <1>5, <2>4, <3>1 DEF Next2
    <3>2. CASE q + 1 = n + 1
      <4>1. of[q + 1] = m /\ of2[q + 1] = m + 1 /\ of2[q] = of[q]
        BY <1>4, <1>5, <3>2
      <4>2. m # of[q] /\ of[q] < m + 1 /\ of[q] \in Nat
        BY <1>0, <2>2
      <4>3. /\ ~(at[q] < Len(Packet(of[q])')) /\ at[q + 1] = 1 /\ of[q] < m
            /\ \A a \in of[q] + 1 .. m - 1 : ~asked'[a].written
        BY <2>4, <4>1, <4>2 DEF Follows
      <4>4. \A a \in of[q] + 1 .. m + 1 - 1 : ~asked'[a].written
        BY <1>2, <4>2, <4>3
      <4> QED BY <1>2, <4>1, <4>2, <4>3, <4>4 DEF Next2, Follows
    <3> QED BY <1>3, <3>1, <3>2
  <2> QED BY <2>6, <2>7
<1>7. Lined(of2, at)'
  <2>1. of2[Len(serial') + 1] = Len(asked') + 1 /\ at[Len(serial') + 1] = 1
    BY <1>0, <1>2, <1>4, <1>5
  <2>2. \A q \in 1 .. Len(serial') :
          OctetOf(serial[q], of2[q], at[q])' /\ Next2(of2, at, q)'
    BY <1>0, <1>6
  <2> QED BY <1>4, <1>5, <2>1, <2>2 DEF Lined
<1>8. of2[1] = IF serial = <<>> THEN i + 1 ELSE i
  <2>1. CASE serial = <<>>
    <3>1. n + 1 = 1
      BY <1>0, <2>1
    <3> QED BY <1>1, <1>4, <1>5, <2>1, <3>1
  <2>2. CASE serial # <<>>
    <3>1. 1 \in 1 .. n
      BY <1>3, <2>2
    <3> QED BY <1>1, <1>5, <2>2, <3>1
  <2> QED BY <2>1, <2>2
<1>9. Line(of2[1], k)'
  BY <1>1, <1>7 DEF Line
<1> QED BY <1>8, <1>9

-----------------------------------------------------------------------------
(***************************************************************************)
(* What is obeyed, whatever the line does.                                 *)
(***************************************************************************)

\* The commands before the i-th that were written and that no damage befell.
Kept(i, lost) == {j \in 1 .. i - 1 : asked[j].written /\ j \notin lost}

\* Each of them was obeyed, in the order of the commands: the j-th command
\* as the at[j]-th that was obeyed.
Places(i, lost, at) ==
  /\ at \in [Nat -> Nat]
  /\ \A j \in Kept(i, lost) :
       at[j] \in 1 .. Len(obeyed) /\ obeyed[at[j]] = asked[j].command
  /\ \A j, l \in Kept(i, lost) : j < l => at[j] < at[l]

\* What Heeded needs to be inductive: the camera has obeyed those commands, and
\* has what has come of the packet that is on the line, if that is not damaged.
Heeds(i, k) ==
  \E lost, at :
    /\ lost \in SUBSET (1 .. i)
    /\ Cardinality(lost) <= damage /\ Places(i, lost, at)
    /\ k = 1 => i \notin lost
    /\ k > 1 /\ i \notin lost => heard = Before(i, k)

\* What was obeyed stays in its place.
LEMMA StillObeyed ==
  ASSUME PtzTypes, Obeys
  PROVE  /\ \E Y : obeyed' \in Seq(Y)
         /\ Len(obeyed) \in Nat /\ Len(obeyed') \in Nat
         /\ Len(obeyed) <= Len(obeyed')
         /\ \A m \in 1 .. Len(obeyed) : obeyed'[m] = obeyed[m]
         /\ \A c : obeyed' = Append(obeyed, c) =>
              Len(obeyed') = Len(obeyed) + 1 /\ obeyed'[Len(obeyed) + 1] = c
<1>1. PICK Y : obeyed \in Seq(Y)
  BY DEF PtzTypes
<1>2. CASE obeyed' = obeyed
  <2>1. \A c : Len(Append(obeyed, c)) = Len(obeyed) + 1
    BY <1>1, Appended
  <2>2. Len(obeyed) \in Nat /\ Len(obeyed) # Len(obeyed) + 1
    BY <1>1
  <2> QED BY <1>1, <1>2, <2>1, <2>2
<1>3. ASSUME NEW c, obeyed' = Append(obeyed, c)
      PROVE  /\ \E Z : obeyed' \in Seq(Z)
             /\ Len(obeyed) \in Nat /\ Len(obeyed') \in Nat
             /\ Len(obeyed) <= Len(obeyed')
             /\ \A m \in 1 .. Len(obeyed) : obeyed'[m] = obeyed[m]
             /\ Len(obeyed') = Len(obeyed) + 1
             /\ obeyed'[Len(obeyed) + 1] = c
  <2>1. /\ \E Z : Append(obeyed, c) \in Seq(Z)
        /\ Len(Append(obeyed, c)) = Len(obeyed) + 1
        /\ \A m \in 1 .. Len(obeyed) : Append(obeyed, c)[m] = obeyed[m]
        /\ Append(obeyed, c)[Len(obeyed) + 1] = c
    BY <1>1, Appended
  <2>2. Len(obeyed) \in Nat
    BY <1>1
  <2> QED BY <1>3, <2>1, <2>2
<1> QED BY <1>2, <1>3 DEF Obeys

\* Where they are in what is obeyed is not changed by what is obeyed later.
LEMMA PlacesStay ==
  ASSUME PtzTypes, Obeys, asked' = asked, NEW i \in Nat, NEW j \in Nat,
         NEW lost, NEW at, Places(i, lost, at),
         NEW lost2, \A m \in Kept(j, lost2) : m \in Kept(i, lost)
  PROVE  Places(j, lost2, at)'
<1>1. Kept(j, lost2)' = Kept(j, lost2)
  BY DEF Kept
<1>2. /\ Len(obeyed) \in Nat /\ Len(obeyed') \in Nat
      /\ Len(obeyed) <= Len(obeyed')
      /\ \A m \in 1 .. Len(obeyed) : obeyed'[m] = obeyed[m]
  BY StillObeyed
<1>3. at \in [Nat -> Nat]
  BY DEF Places
<1>4. ASSUME NEW m \in Kept(j, lost2)
      PROVE  at[m] \in 1 .. Len(obeyed') /\ obeyed'[at[m]] = asked'[m].command
  <2>1. at[m] \in 1 .. Len(obeyed) /\ obeyed[at[m]] = asked[m].command
    BY DEF Places
  <2> QED BY <1>2, <2>1
<1>5. \A m, l \in Kept(j, lost2) : m < l => at[m] < at[l]
  BY DEF Places
<1> QED BY <1>1, <1>3, <1>4, <1>5 DEF Places

\* A command that was not obeyed is one more that is lost.
LEMMA HeedsDamage ==
  ASSUME PtzTypes, NEW i \in Nat, NEW k \in Nat, Heeds(i, k),
         NEW x, OctetOf(x, i, k), NEW j, NEW l, Follows(i, k, j, l),
         Obeys, asked' = asked, damage' = damage + 1
  PROVE  Heeds(j, l)'
<1>1. PICK lost, at :
        /\ lost \in SUBSET (1 .. i)
        /\ Cardinality(lost) <= damage /\ Places(i, lost, at)
  BY DEF Heeds
<1> DEFINE lost2 == lost \union {i}
<1>2. IsFiniteSet(lost) /\ Cardinality(lost) \in Nat
  <2>1. IsFiniteSet(1 .. i)
    BY FS_Interval
  <2> QED BY <1>1, <2>1, FS_Subset, FS_CardinalityType
<1>3. Cardinality(lost2) <= damage'
  <2>1. Cardinality(lost2) = IF i \in lost THEN Cardinality(lost)
                             ELSE Cardinality(lost) + 1
    BY <1>2, FS_AddElement
  <2>2. damage \in Nat
    BY DEF PtzTypes
  <2> HIDE DEF lost2
  <2> QED BY <1>1, <1>2, <2>1, <2>2
<1>4. i \in 1 .. Len(asked) /\ k \in 1 .. Len(Packet(i))
  BY DEF OctetOf
<1>5. Len(Packet(i)) \in Nat
  BY <1>4, PacketOf DEF Wrapped
<1>6. CASE k < Len(Packet(i))
  <2>1. j = i /\ l = k + 1
    BY <1>6 DEF Follows
  <2>2. lost2 \in SUBSET (1 .. j) /\ ~(l = 1) /\ j \in lost2
    BY <1>1, <1>4, <1>5, <2>1
  <2>3. \A m \in Kept(j, lost2) : m \in Kept(i, lost)
    BY <2>1 DEF Kept
  <2>4. Places(j, lost2, at)'
    BY <1>1, <2>1, <2>3, PlacesStay
  <2> HIDE DEF lost2
  <2> QED BY <1>3, <2>2, <2>4 DEF Heeds
<1>7. CASE ~(k < Len(Packet(i)))
  <2>1. /\ j \in Nat /\ l = 1 /\ i < j
        /\ \A m \in i + 1 .. j - 1 : ~asked[m].written
    BY <1>7 DEF Follows
  <2>2. lost2 \in SUBSET (1 .. j) /\ ~(l > 1) /\ j \notin lost2
    BY <1>1, <1>4, <2>1
  <2>3. ASSUME NEW m \in Kept(j, lost2) PROVE m \in Kept(i, lost)
    <3>1. m \in 1 .. j - 1 /\ asked[m].written /\ m \notin lost /\ m # i
      BY DEF Kept
    <3>2. m \in 1 .. i - 1
      <4>1. m \notin i + 1 .. j - 1
        BY <2>1, <3>1
      <4> QED BY <2>1, <3>1, <4>1
    <3> QED BY <3>1, <3>2 DEF Kept
  <2>4. Places(j, lost2, at)'
    BY <1>1, <2>1, <2>3, PlacesStay
  <2> HIDE DEF lost2
  <2> QED BY <1>3, <2>2, <2>4 DEF Heeds
<1> QED BY <1>6, <1>7

\* The packet of a command comes as it was sent, and is then obeyed.
LEMMA HeedsTransfer ==
  ASSUME PtzTypes, NEW i \in Nat, NEW k \in Nat, Heeds(i, k),
         NEW x \in Nat, OctetOf(x, i, k), NEW j, NEW l, Follows(i, k, j, l),
         Hear(x), asked' = asked, damage' = damage
  PROVE  Heeds(j, l)'
<1>1. PICK lost, at :
        /\ lost \in SUBSET (1 .. i)
        /\ Cardinality(lost) <= damage /\ Places(i, lost, at)
        /\ k = 1 => i \notin lost
        /\ k > 1 /\ i \notin lost => heard = Before(i, k)
  BY DEF Heeds
<1>2. i \in 1 .. Len(asked) /\ k \in 1 .. Len(Packet(i)) /\ x = Packet(i)[k]
      /\ asked[i].written
  BY DEF OctetOf
<1>3. Len(Packet(i)) \in Nat /\ Obeys /\ Cardinality(lost) <= damage'
  BY <1>1, <1>2, PacketOf, HearsSomething DEF Wrapped
<1>4. i \notin lost =>
        IF k = Len(Packet(i))
        THEN heard' = <<>> /\ obeyed' = Append(obeyed, asked[i].command)
        ELSE heard' = Before(i, k + 1) /\ obeyed' = obeyed
  BY <1>1, <1>2, HearsPacket
<1>5. CASE k < Len(Packet(i))
  <2>1. j = i /\ l = k + 1
    BY <1>5 DEF Follows
  <2>2. lost \in SUBSET (1 .. j) /\ ~(l = 1)
    BY <1>1, <1>2, <1>3, <2>1
  <2>3. \A m \in Kept(j, lost) : m \in Kept(i, lost)
    BY <2>1
  <2>4. Places(j, lost, at)'
    BY <1>1, <1>3, <2>1, <2>3, PlacesStay
  <2>5. Before(j, l)' = Before(j, l)
    BY DEF Before, Packet
  <2>6. l > 1 /\ j \notin lost => heard' = Before(j, l)'
    BY <1>2, <1>3, <1>4, <1>5, <2>1, <2>5
  <2> QED BY <1>3, <2>2, <2>4, <2>6 DEF Heeds
<1>6. CASE ~(k < Len(Packet(i)))
  <2>1. /\ j \in Nat /\ l = 1 /\ i < j
        /\ \A m \in i + 1 .. j - 1 : ~asked[m].written
    BY <1>6 DEF Follows
  <2>2. lost \in SUBSET (1 .. j) /\ ~(l > 1) /\ j \notin lost
    BY <1>1, <1>2, <2>1
  <2>3. ASSUME NEW m \in Kept(j, lost), m # i PROVE m \in Kept(i, lost)
    <3>1. m \in 1 .. j - 1 /\ asked[m].written /\ m \notin lost
      BY DEF Kept
    <3>2. m \in 1 .. i - 1
      <4>1. m \notin i + 1 .. j - 1
        BY <2>1, <3>1
      <4> QED BY <2>1, <2>3, <3>1, <4>1
    <3> QED BY <3>1, <3>2 DEF Kept
  <2>4. CASE i \in lost
    <3>1. \A m \in Kept(j, lost) : m \in Kept(i, lost)
      BY <2>3, <2>4 DEF Kept
    <3>2. Places(j, lost, at)'
      BY <1>1, <1>3, <2>1, <3>1, PlacesStay
    <3> QED BY <1>3, <2>2, <3>2 DEF Heeds
  <2>5. CASE i \notin lost
    <3>1. PICK n \in Nat : n = Len(obeyed)
      BY StillObeyed, <1>3
    <3> DEFINE at2 == [at EXCEPT ![i] = n + 1]
    <3>2. obeyed' = Append(obeyed, asked[i].command)
      BY <1>2, <1>3, <1>4, <1>6, <2>5
    <3>3. /\ Len(obeyed') = n + 1 /\ obeyed'[n + 1] = asked[i].command
          /\ \A m \in 1 .. n : obeyed'[m] = obeyed[m]
      BY <1>3, <3>1, <3>2, StillObeyed
    <3>4. /\ at2 \in [Nat -> Nat] /\ at2[i] = n + 1
          /\ \A m \in Nat : m # i => at2[m] = at[m]
      <4>1. at \in [Nat -> Nat]
        BY ONLY <1>1 DEF Places
      <4>2. n + 1 \in Nat
        OBVIOUS
      <4> QED BY ONLY <4>1, <4>2, i \in Nat
    <3> HIDE DEF at2
    <3>5. ASSUME NEW m \in Kept(j, lost), m # i
          PROVE  at2[m] \in 1 .. n /\ obeyed[at2[m]] = asked[m].command
      <4>1. m \in Kept(i, lost) /\ m \in Nat
        BY <2>3, <3>5 DEF Kept
      <4> QED BY <1>1, <3>1, <3>4, <3>5, <4>1 DEF Places
    <3>6. ASSUME NEW m \in Kept(j, lost)
          PROVE  at2[m] \in 1 .. n + 1 /\ obeyed'[at2[m]] = asked[m].command
      <4>1. CASE m = i
        <5>1. n + 1 \in 1 .. n + 1
          OBVIOUS
        <5> QED BY <3>3, <3>4, <4>1, <5>1
      <4>2. CASE m # i
        BY <3>3, <3>5, <4>2
      <4> QED BY <4>1, <4>2
    <3>7. ASSUME NEW m \in Kept(j, lost), NEW o \in Kept(j, lost), m < o
          PROVE  at2[m] < at2[o]
      <4>1. m \in Nat /\ o \in Nat
        BY DEF Kept
      <4>2. CASE o = i
        BY <3>4, <3>5, <3>7, <4>1, <4>2
      <4>3. CASE m = i
        <5>1. o \in Kept(i, lost)
          BY <2>3, <3>7, <4>1, <4>3
        <5> QED BY <3>7, <4>1, <4>3, <5>1 DEF Kept
      <4>4. CASE m # i /\ o # i
        <5>1. m \in Kept(i, lost) /\ o \in Kept(i, lost)
          BY <2>3, <4>4
        <5>2. at[m] < at[o]
          BY <1>1, <3>7, <5>1 DEF Places
        <5> QED BY <3>4, <4>1, <4>4, <5>2
      <4> QED BY <4>2, <4>3, <4>4
    <3>8. Kept(j, lost)' = Kept(j, lost)
      BY DEF Kept
    <3>9. Places(j, lost, at2)'
      BY <3>3, <3>4, <3>6, <3>7, <3>8 DEF Places
    <3> QED BY <1>3, <2>2, <3>9 DEF Heeds
  <2> QED BY <2>4, <2>5
<1> QED BY <1>5, <1>6

-----------------------------------------------------------------------------
(***************************************************************************)
(* What else is obeyed, when one octet is lost or changed.                 *)
(***************************************************************************)

\* The first octets of a sequence.
LEMMA Cut ==
  ASSUME NEW p \in Seq(Nat), NEW m \in Nat, m <= Len(p)
  PROVE  /\ SubSeq(p, 1, m) \in Seq(Nat) /\ Len(SubSeq(p, 1, m)) = m
         /\ \A r \in 1 .. m : SubSeq(p, 1, m)[r] = p[r]
OBVIOUS

\* Octets that differ, differ in a sum of which only seven bits are kept.
LEMMA SevenBits ==
  ASSUME NEW u \in Nat, NEW v \in Nat, NEW c \in 0 .. 127, NEW d \in 0 .. 127,
         v = u + d - c, u % 128 = v % 128
  PROVE  c = d
OBVIOUS

\* A packet with another octet in it does not have the right checksum.
LEMMA NotGenuine ==
  ASSUME NEW p, Wrapped(p), NEW s \in Seq(Nat), Len(s) = Len(p),
         NEW q \in 2 .. Len(p), s[q] # p[q], s[q] \in 0 .. 127,
         \A r \in 1 .. Len(p) : r # q => s[r] = p[r]
  PROVE  ~Genuine(s)
<1> SUFFICES ASSUME Genuine(s) PROVE FALSE
  OBVIOUS
<1>1. PICK n \in {7, 8} : n = Len(p)
  BY DEF Wrapped
<1> DEFINE a == SubSeq(p, 1, n - 1)
           b == SubSeq(s, 1, n - 1)
<1>2. p \in Seq(Nat) /\ p[n] = SumOf(a) % 128 /\ s[n] = SumOf(b) % 128
  BY <1>1 DEF Wrapped, Genuine
<1>3. /\ a \in Seq(Nat) /\ b \in Seq(Nat) /\ Len(a) = n - 1 /\ Len(b) = n - 1
      /\ \A r \in 1 .. n - 1 : a[r] = p[r] /\ b[r] = s[r]
  <2>1. n - 1 \in Nat /\ n - 1 <= Len(p) /\ n - 1 <= Len(s)
    <3>1. Len(p) = n /\ Len(s) = n
      BY <1>1
    <3> QED BY <3>1
  <2>2. /\ a \in Seq(Nat) /\ Len(a) = n - 1
        /\ \A r \in 1 .. n - 1 : a[r] = p[r]
    BY ONLY <1>2, <2>1, Cut
  <2>3. /\ b \in Seq(Nat) /\ Len(b) = n - 1
        /\ \A r \in 1 .. n - 1 : b[r] = s[r]
    BY ONLY s \in Seq(Nat), <2>1, Cut
  <2> QED BY <2>2, <2>3
<1>4. \A r \in 1 .. n : r # q => s[r] = p[r]
  BY <1>1
<1> HIDE DEF a, b
<1>5. CASE q = n
  <2>1. \A r \in 1 .. n - 1 : r \in 1 .. n /\ r # q
    BY <1>1, <1>5
  <2>2. \A r \in 1 .. n - 1 : a[r] = b[r]
    BY <1>3, <1>4, <2>1
  <2>3. a = b
    BY <1>3, <2>2
  <2> QED BY <1>2, <1>5, <2>3
<1>6. CASE q # n
  <2>1. q \in 1 .. n - 1 /\ q \in 2 .. n /\ n # q /\ n \in 1 .. n
    BY <1>1, <1>6
  <2>2. \A r \in 1 .. n - 1 : r # q => b[r] = a[r]
    BY <1>1, <1>3, <1>4
  <2>3. /\ SumOf(a) \in Nat /\ SumOf(b) \in Nat
        /\ SumOf(b) = SumOf(a) + b[q] - a[q]
    <3>1. q \in 1 .. Len(a) /\ Len(b) = Len(a)
          /\ \A r \in 1 .. Len(a) : r # q => b[r] = a[r]
      BY <1>3, <2>1, <2>2
    <3> QED BY <1>3, <3>1, SumChanges
  <2>4. /\ a[q] = p[q] /\ b[q] = s[q] /\ p[q] \in 0 .. 127
        /\ SumOf(a) % 128 = SumOf(b) % 128
    BY <1>1, <1>2, <1>3, <1>4, <2>1 DEF Wrapped
  <2>5. p[q] = s[q]
    <3> DEFINE u == SumOf(a)
               v == SumOf(b)
               c == p[q]
               d == s[q]
    <3>1. /\ u \in Nat /\ v \in Nat /\ c \in 0 .. 127 /\ d \in 0 .. 127
          /\ v = u + d - c /\ u % 128 = v % 128
      BY <2>3, <2>4
    <3> HIDE DEF u, v, c, d
    <3>2. c = d
      BY <3>1, SevenBits
    <3> QED BY <3>2 DEF c, d
  <2> QED BY <2>5
<1> QED BY <1>5, <1>6

\* Each command that is obeyed is one that was written, in the same order.
Matches(at) ==
  /\ at \in [Nat -> Nat]
  /\ \A m \in 1 .. Len(obeyed) :
       /\ at[m] \in 1 .. Len(asked) /\ asked[at[m]].written
       /\ obeyed[m] = asked[at[m]].command
  /\ \A m, n \in 1 .. Len(obeyed) : m < n => at[m] < at[n]

\* What was obeyed comes from the commands before the i-th.
Below(at, i) == \A m \in 1 .. Len(obeyed) : at[m] < i

\* What the camera may have before the k-th octet of a packet: all that has
\* come of it; less, when an octet was lost; as much, when one was changed.
Intact(i, k) == heard = IF k = 1 THEN <<>> ELSE Before(i, k)

Short(i, k) ==
  heard # <<>> /\ heard[1] = Packet(i)[1] /\ Len(heard) < k - 1

\* The q-th octet is another one.  Instead of a header there is another header,
\* which may announce a packet of another length.
AlteredAt(s, i, q) ==
  /\ s \in Seq(Nat) /\ q \in 1 .. Len(s) /\ s[q] # Packet(i)[q]
  /\ q = 1 => s[q] > 128
  /\ q # 1 => s[q] < 128
  /\ \A r \in 1 .. Len(s) : r # q => s[r] = Packet(i)[r]

Altered(i, k) ==
  /\ Len(heard) = k - 1
  /\ \E q : AlteredAt(heard, i, q) /\ (q = 1 => k - 1 < heard[1] - 127)

\* What OnlyAsked needs to be inductive, with one octet damaged at most: the
\* command whose packet is on the line was not obeyed yet, or the camera waits
\* for another packet.
Only(i, k) ==
  \E at :
    /\ Matches(at)
    /\ \/ Below(at, i) /\ Intact(i, k)
       \/ /\ damage = 1 /\ Below(at, i)
          /\ k = 1 \/ Short(i, k) \/ Altered(i, k)
       \/ damage = 1 /\ Below(at, i + 1) /\ heard = <<>> /\ k > 1

\* The k octets that the camera has with this one, the q-th of them changed.
Hit(now, i, k, q) ==
  /\ now # <<>> /\ Len(now) = k /\ AlteredAt(now, i, q)
  /\ q = 1 => k - 1 < now[1] - 127

\* The camera obeys nothing, or the command whose packet is on the line.
ObeysNone == obeyed' = obeyed
ObeysThe(i) == obeyed' = Append(obeyed, asked[i].command)

\* The commands obeyed stay in their order when one more is obeyed.
LEMMA MatchesMore ==
  ASSUME PtzTypes, NEW i, NEW x, NEW k, OctetOf(x, i, k), asked' = asked,
         NEW at, Matches(at), Below(at, i), ObeysNone \/ ObeysThe(i)
  PROVE  \E at2 : Matches(at2)' /\ Below(at2, i + 1)'
<1>0. i \in Nat /\ i \in 1 .. Len(asked) /\ asked[i].written /\ i < i + 1
  BY DEF OctetOf
<1>1. i \in Nat /\ at \in [Nat -> Nat]
  BY <1>0 DEF Matches
<1>2. CASE ObeysNone
  <2>0. obeyed' = obeyed
    BY <1>2 DEF ObeysNone
  <2>1. Matches(at)'
    BY <2>0 DEF Matches
  <2>2. Below(at, i + 1)'
    <3>1. ASSUME NEW m \in 1 .. Len(obeyed) PROVE at[m] < i + 1
      <4>1. at[m] < i /\ at[m] \in Nat
        BY DEF Below, Matches
      <4> QED BY <1>1, <4>1
    <3> QED BY <2>0, <3>1 DEF Below
  <2> QED BY <2>1, <2>2
<1>3. CASE ObeysThe(i)
  <2>0. Obeys /\ obeyed' = Append(obeyed, asked[i].command)
    BY <1>3 DEF ObeysThe, Obeys
  <2>1. PICK n \in Nat : n = Len(obeyed)
    BY <2>0, StillObeyed
  <2>2. /\ Len(obeyed') = n + 1 /\ obeyed'[n + 1] = asked[i].command
        /\ \A m \in 1 .. n : obeyed'[m] = obeyed[m]
    BY <2>0, <2>1, StillObeyed
  <2> DEFINE at2 == [at EXCEPT ![n + 1] = i]
  <2>3. /\ at2 \in [Nat -> Nat] /\ at2[n + 1] = i
        /\ \A m \in Nat : m # n + 1 => at2[m] = at[m]
    BY <1>1
  <2> HIDE DEF at2
  <2>4. ASSUME NEW m \in 1 .. n
        PROVE  /\ at2[m] \in 1 .. Len(asked) /\ asked[at2[m]].written
               /\ obeyed'[m] = asked[at2[m]].command /\ at2[m] < i
    <3>1. at2[m] = at[m]
      BY <2>3
    <3> QED BY <2>1, <2>2, <3>1 DEF Matches, Below
  <2>5. ASSUME NEW m \in 1 .. n + 1
        PROVE  /\ at2[m] \in 1 .. Len(asked) /\ asked[at2[m]].written
               /\ obeyed'[m] = asked[at2[m]].command /\ at2[m] < i + 1
    <3>1. CASE m = n + 1
      BY <1>0, <2>2, <2>3, <3>1
    <3>2. CASE m # n + 1
      <4>1. m \in 1 .. n
        BY <3>2
      <4>2. at2[m] \in 1 .. Len(asked) /\ at2[m] < i
        BY <2>4, <4>1
      <4>3. at2[m] < i + 1
        <5>1. at2[m] \in Nat
          BY ONLY <2>3, m \in 1 .. n + 1, n \in Nat
        <5> DEFINE a == at2[m]
        <5>2. a \in Nat /\ a < i
          BY <4>2, <5>1
        <5> HIDE DEF a
        <5> QED BY <1>1, <5>2 DEF a
      <4> QED BY <2>4, <4>1, <4>3
    <3> QED BY <3>1, <3>2
  <2>6. ASSUME NEW m \in 1 .. n + 1, NEW o \in 1 .. n + 1, m < o
        PROVE  at2[m] < at2[o]
    <3>1. m \in 1 .. n
      BY <2>6
    <3>2. CASE o = n + 1
      BY <2>3, <2>4, <3>1, <3>2
    <3>3. CASE o # n + 1
      <4>1. o \in 1 .. n
        BY <3>3
      <4>2. at[m] < at[o]
        BY <2>1, <2>6, <3>1, <4>1 DEF Matches
      <4>3. at2[m] = at[m] /\ at2[o] = at[o]
        BY <2>3, <3>1, <4>1
      <4> QED BY <4>2, <4>3
    <3> QED BY <3>2, <3>3
  <2>7. Matches(at2)' /\ Below(at2, i + 1)'
    <3>1. Matches(at2)'
      BY <2>2, <2>3, <2>5, <2>6 DEF Matches
    <3>2. Below(at2, i + 1)'
      BY <2>2, <2>5 DEF Below
    <3> QED BY <3>1, <3>2
  <2> QED BY <2>7
<1> QED BY <1>2, <1>3

\* The next octet may be the first of another packet.
LEMMA OnlyNext ==
  ASSUME PtzTypes, NEW i, NEW x, NEW k, OctetOf(x, i, k), asked' = asked,
         NEW j, NEW l, Follows(i, k, j, l), ~(k < Len(Packet(i))),
         NEW at, Matches(at), Below(at, i), ObeysNone \/ ObeysThe(i),
         damage' = 1 \/ heard' = <<>>
  PROVE  Only(j, l)'
<1>1. PICK at2 : Matches(at2)' /\ Below(at2, i + 1)'
  BY MatchesMore
<1>2. j \in Nat /\ l = 1 /\ i < j /\ i \in Nat
  BY DEF Follows, OctetOf
<1>3. Below(at2, j)'
  <2>1. ASSUME NEW m \in 1 .. Len(obeyed') PROVE at2[m] < j
    <3>1. at2[m] < i + 1 /\ at2[m] \in Nat
      BY <1>1 DEF Below, Matches
    <3> QED BY <1>2, <3>1
  <2> QED BY <2>1 DEF Below
<1>4. heard' = <<>> => Intact(j, l)'
  BY <1>2 DEF Intact
<1> QED BY <1>1, <1>2, <1>3, <1>4 DEF Only

\* Inside a packet that was damaged the camera waits for the next one.
LEMMA OnlyWaits ==
  ASSUME PtzTypes, NEW i, NEW x, NEW k, OctetOf(x, i, k), asked' = asked,
         NEW j, NEW l, Follows(i, k, j, l), k < Len(Packet(i)),
         NEW at, Matches(at), Below(at, i), ObeysNone \/ ObeysThe(i),
         damage' = 1, heard' = <<>>
  PROVE  Only(j, l)'
<1>1. PICK at2 : Matches(at2)' /\ Below(at2, i + 1)'
  BY MatchesMore
<1>2. j = i /\ l = k + 1 /\ k \in 1 .. Len(Packet(i))
  BY DEF Follows, OctetOf
<1>3. l > 1
  BY <1>2
<1> QED BY <1>1, <1>2, <1>3 DEF Only

\* The same packet goes on, and nothing was obeyed.
LEMMA OnlySame ==
  ASSUME PtzTypes, NEW i, NEW x, NEW k, OctetOf(x, i, k), asked' = asked,
         NEW j, NEW l, Follows(i, k, j, l), k < Len(Packet(i)),
         NEW at, Matches(at), Below(at, i), ObeysNone,
         \/ Intact(i, k + 1)'
         \/ damage' = 1 /\ (Short(i, k + 1)' \/ Altered(i, k + 1)')
  PROVE  Only(j, l)'
<1>1. j = i /\ l = k + 1 /\ obeyed' = obeyed
  BY DEF Follows, ObeysNone
<1>2. Matches(at)' /\ Below(at, i)'
  BY <1>1 DEF Matches, Below
<1> QED BY <1>1, <1>2 DEF Only

\* What the camera does at an octet of a packet of which it has another octet,
\* this one or an earlier one: it waits, it drops the packet, or it takes the
\* packet to be whole before its checksum has come and obeys it.
LEMMA HearsAltered ==
  ASSUME PtzTypes, NEW i, NEW x, NEW k, OctetOf(x, i, k), k > 1,
         NEW y \in 0 .. 127, Hear(y), heard # <<>>,
         NEW now, now = Append(heard, y), NEW q, Hit(now, i, k, q)
  PROVE  \/ heard' = now /\ ObeysNone /\ (q = 1 => k < now[1] - 127)
         \/ heard' = <<>> /\ (ObeysNone \/ ObeysThe(i))
<1> DEFINE p == Packet(i)
           n == Len(p)
<1>1. /\ i \in 1 .. Len(asked) /\ k \in 1 .. n
  BY DEF OctetOf
<1>2. /\ p \in Seq(Nat) /\ n \in {7, 8} /\ p[1] = n + 127
      /\ Understood(p) = asked[i].command /\ Wrapped(p)
      /\ n = 8 => p[4] = 5
  BY <1>1, PacketOf DEF Wrapped
<1>3. /\ now \in Seq(Nat) /\ q \in 1 .. k /\ now[q] # p[q]
      /\ q # 1 => now[q] < 128
      /\ \A r \in 1 .. k : r # q => now[r] = p[r]
      /\ now # <<>> /\ Len(now) = k /\ (q = 1 => k - 1 < now[1] - 127)
  BY DEF AlteredAt, Hit
<1> HIDE DEF p, n
<1>4. k \in Nat /\ now[1] \in Nat /\ n \in Nat
  <2>1. n \in Nat
    BY <1>2
  <2>2. k \in Nat /\ 1 \in 1 .. k
    BY <1>1, <2>1
  <2>3. now[1] \in Nat
    BY <1>3, <2>2
  <2> QED BY <2>1, <2>2, <2>3
<1>5. CASE k # now[1] - 128 + 1
  <2>1. heard' = now /\ obeyed' = obeyed
    BY <1>3, <1>5, HearsMore
  <2>2. q = 1 => k < now[1] - 127
    BY <1>3, <1>4, <1>5
  <2> QED BY <2>1, <2>2 DEF ObeysNone
<1>6. CASE k = now[1] - 128 + 1
  <2>1. /\ heard' = <<>>
        /\ obeyed' = IF Len(now) > 6 /\ Genuine(now)
                     THEN Append(obeyed, Understood(now)) ELSE obeyed
    BY <1>3, <1>6, HearsLast
  <2>2. CASE q # 1
    <3>1. now[1] = p[1]
      BY <1>1, <1>3, <1>4, <2>2
    <3>2. k = n
      BY <1>2, <1>4, <1>6, <3>1
    <3>3. q \in 2 .. n /\ now[q] \in 0 .. 127
      <4>1. q \in 2 .. n
        BY <1>3, <1>4, <2>2, <3>2
      <4>2. now[q] \in Nat /\ now[q] < 128
        BY <1>3, <2>2
      <4>3. now[q] \in 0 .. 127
        BY ONLY <4>2
      <4> QED BY <4>1, <4>3
    <3>4. Len(now) = Len(p) /\ q \in 2 .. Len(p)
          /\ \A r \in 1 .. Len(p) : r # q => now[r] = p[r]
      BY <1>3, <3>2, <3>3 DEF n
    <3>5. ~Genuine(now)
      BY ONLY <1>2, <1>3, <3>3, <3>4, NotGenuine
    <3> QED BY <1>3, <2>1, <3>5 DEF ObeysNone
  <2>3. CASE q = 1
    <3>1. now[1] # n + 127
      BY <1>2, <1>3, <2>3
    <3>2. k # n
      BY <1>2, <1>4, <1>6, <3>1
    <3>3. k > 6 => k = 7 /\ n = 8
      BY <1>1, <1>2, <3>2
    <3>4. CASE k > 6
      <4>1. \A r \in {4, 5, 6, 7} : r \in 1 .. k /\ r # q
        BY <2>3, <3>3, <3>4
      <4>2. now[4] = p[4] /\ now[5] = p[5] /\ now[6] = p[6] /\ now[7] = p[7]
        BY <1>3, <4>1
      <4>3. p[4] = 5
        BY <1>2, <3>3, <3>4
      <4>4. Understood(now) = Understood(p)
        BY <4>2, <4>3 DEF Understood
      <4> QED BY <1>2, <1>3, <2>1, <4>4 DEF ObeysNone, ObeysThe
    <3>5. CASE ~(k > 6)
      BY <1>3, <2>1, <3>5 DEF ObeysNone
    <3> QED BY <3>4, <3>5
  <2> QED BY <2>2, <2>3
<1> QED BY <1>5, <1>6

\* An octet was changed, this one or an earlier one of the same packet.
LEMMA OnlyAltered ==
  ASSUME PtzTypes, NEW i, NEW x, NEW k, OctetOf(x, i, k), k > 1,
         asked' = asked, NEW j, NEW l, Follows(i, k, j, l), damage' = 1,
         NEW at, Matches(at), Below(at, i),
         NEW y \in 0 .. 127, Hear(y), heard # <<>>,
         NEW now, now = Append(heard, y), NEW q, Hit(now, i, k, q)
  PROVE  Only(j, l)'
<1>1. \/ heard' = now /\ ObeysNone /\ (q = 1 => k < now[1] - 127)
      \/ heard' = <<>> /\ (ObeysNone \/ ObeysThe(i))
  BY HearsAltered
<1>0. AlteredAt(now, i, q) /\ Len(now) = k
  BY DEF Hit
<1>2. CASE ~(k < Len(Packet(i)))
  BY <1>1, <1>2, OnlyNext
<1>3. CASE k < Len(Packet(i)) /\ heard' = <<>> /\ (ObeysNone \/ ObeysThe(i))
  BY <1>3, OnlyWaits
<1>4. CASE /\ k < Len(Packet(i)) /\ heard' = now /\ ObeysNone
           /\ q = 1 => k < now[1] - 127
  <2>1. k \in Nat /\ k + 1 - 1 = k
    BY DEF OctetOf
  <2>2. AlteredAt(now, i, q)'
    BY <1>0 DEF AlteredAt, Packet
  <2>3. Altered(i, k + 1)'
    BY <1>0, <1>4, <2>1, <2>2 DEF Altered
  <2> QED BY <1>4, <2>3, OnlySame
<1> QED BY <1>1, <1>2, <1>3, <1>4

\* Octets of a packet that the camera does not have are passed over.
LEMMA OnlySkips ==
  ASSUME PtzTypes, NEW i, NEW x, NEW k, OctetOf(x, i, k), asked' = asked,
         NEW j, NEW l, Follows(i, k, j, l),
         NEW at, Matches(at), Below(at, i + 1), ObeysNone,
         damage' = 1, heard' = <<>>
  PROVE  Only(j, l)'
<1>1. Matches(at)' /\ Below(at, i + 1)' /\ obeyed' = obeyed
  BY DEF ObeysNone, Matches, Below
<1>2. i \in Nat /\ k \in 1 .. Len(Packet(i))
  BY DEF OctetOf
<1>3. CASE k < Len(Packet(i))
  <2>1. j = i /\ l = k + 1 /\ l > 1
    BY <1>2, <1>3 DEF Follows
  <2> QED BY <1>1, <2>1 DEF Only
<1>4. CASE ~(k < Len(Packet(i)))
  <2>1. j \in Nat /\ l = 1 /\ i < j
    BY <1>4 DEF Follows
  <2>2. Below(at, j)'
    <3>1. ASSUME NEW m \in 1 .. Len(obeyed) PROVE at[m] < j
      <4>1. at[m] < i + 1 /\ at[m] \in Nat
        BY DEF Below, Matches
      <4> QED BY <1>2, <2>1, <4>1
    <3> QED BY <1>1, <3>1 DEF Below
  <2> QED BY <1>1, <2>1, <2>2 DEF Only
<1> QED BY <1>3, <1>4

\* The octets of a packet but the first have no top bit.
LEMMA OctetIs ==
  ASSUME PtzTypes, NEW i, NEW x, NEW k, OctetOf(x, i, k)
  PROVE  /\ i \in 1 .. Len(asked) /\ x = Packet(i)[k]
         /\ Packet(i)[1] = Len(Packet(i)) + 127
         /\ Packet(i) \in Seq(Nat) /\ Len(Packet(i)) \in {7, 8}
         /\ k \in 1 .. Len(Packet(i))
         /\ k > 1 => x \in 0 .. 127
         /\ k = 1 => x \in 134 .. 135
<1>1. i \in 1 .. Len(asked) /\ x = Packet(i)[k] /\ k \in 1 .. Len(Packet(i))
  BY DEF OctetOf
<1>2. /\ Packet(i) \in Seq(Nat) /\ Len(Packet(i)) \in {7, 8}
      /\ Packet(i)[1] = Len(Packet(i)) + 127
      /\ \A q \in 2 .. Len(Packet(i)) : Packet(i)[q] \in 0 .. 127
  BY <1>1, PacketOf DEF Wrapped
<1>3. k > 1 => x \in 0 .. 127
  <2>1. k > 1 => k \in 2 .. Len(Packet(i))
    BY <1>1, <1>2
  <2> QED BY <1>1, <1>2, <2>1
<1>4. k = 1 => x \in 134 .. 135
  <2> DEFINE n == Len(Packet(i))
  <2>1. n \in {7, 8} /\ (k = 1 => x = n + 127)
    BY <1>1, <1>2
  <2> HIDE DEF n
  <2> QED BY ONLY <2>1
<1> QED BY <1>1, <1>2, <1>3, <1>4

\* The octet comes as it was sent.
LEMMA OnlyTransfer ==
  ASSUME PtzTypes, NEW i, NEW x, NEW k, OctetOf(x, i, k), asked' = asked,
         NEW j, NEW l, Follows(i, k, j, l), Only(i, k), Hear(x),
         damage' = damage
  PROVE  Only(j, l)'
<1> DEFINE n == Len(Packet(i))
<1>1. /\ i \in 1 .. Len(asked) /\ x = Packet(i)[k] /\ k \in 1 .. n
      /\ n \in {7, 8} /\ (k > 1 => x \in 0 .. 127)
      /\ Packet(i)[1] = n + 127
  BY OctetIs
<1>2. PICK at :
        /\ Matches(at)
        /\ \/ Below(at, i) /\ Intact(i, k)
           \/ /\ damage = 1 /\ Below(at, i)
              /\ k = 1 \/ Short(i, k) \/ Altered(i, k)
           \/ damage = 1 /\ Below(at, i + 1) /\ heard = <<>> /\ k > 1
  BY DEF Only
<1>3. ASSUME Below(at, i), Intact(i, k) \/ k = 1
      PROVE  Only(j, l)'
  <2>1. k > 1 => heard = Before(i, k)
    BY <1>1, <1>3 DEF Intact
  <2>2. Hear(Packet(i)[k])
    BY <1>1
  <2>3. IF k = n
        THEN heard' = <<>> /\ obeyed' = Append(obeyed, asked[i].command)
        ELSE heard' = Before(i, k + 1) /\ obeyed' = obeyed
    BY <1>1, <2>1, <2>2, HearsPacket
  <2>4. CASE k = n
    <3>1. heard' = <<>> /\ ObeysThe(i) /\ ~(k < n)
      BY <1>1, <2>3, <2>4 DEF ObeysThe
    <3> QED BY <1>2, <1>3, <3>1, OnlyNext
  <2>5. CASE k # n
    <3>1. heard' = Before(i, k + 1) /\ ObeysNone /\ k < n
      BY <1>1, <2>3, <2>5 DEF ObeysNone
    <3>2. Before(i, k + 1)' = Before(i, k + 1)
      BY DEF Before, Packet
    <3>3. Intact(i, k + 1)'
      BY <1>1, <3>1, <3>2 DEF Intact
    <3>4. k < Len(Packet(i)) /\ ObeysNone /\ Below(at, i) /\ Matches(at)
      BY <1>2, <1>3, <3>1
    <3>5. \/ Intact(i, k + 1)'
          \/ damage' = 1 /\ (Short(i, k + 1)' \/ Altered(i, k + 1)')
      BY <3>3
    <3>6. /\ PtzTypes /\ OctetOf(x, i, k) /\ asked' = asked
          /\ Follows(i, k, j, l)
      OBVIOUS
    <3> QED BY ONLY <3>4, <3>5, <3>6, OnlySame, Zenon
  <2> QED BY <2>4, <2>5
<1>4. ASSUME damage = 1, Below(at, i), k > 1, Short(i, k)
      PROVE  Only(j, l)'
  <2> DEFINE now == Append(heard, x)
  <2>1. x \in 0 .. 127 /\ damage' = 1
    BY <1>1, <1>4
  <2>2. /\ heard # <<>> /\ heard[1] = n + 127 /\ Len(heard) < k - 1
        /\ heard \in Seq(Nat)
    BY <1>1, <1>4 DEF Short, PtzTypes
  <2>3. now # <<>> /\ now[1] = heard[1] /\ Len(now) = Len(heard) + 1
        /\ Len(heard) \in Nat
    <3>1. 1 \in 1 .. Len(heard) /\ Len(heard) \in Nat
      BY <2>2
    <3>2. Len(now) = Len(heard) + 1 /\ now[1] = heard[1]
      BY <2>1, <2>2, <3>1, OneMore
    <3>3. now # <<>>
      BY <3>1, <3>2
    <3> QED BY <3>1, <3>2, <3>3
  <2> HIDE DEF now
  <2>4. Len(now) # now[1] - 128 + 1 /\ Len(now) < k
    BY <1>1, <2>2, <2>3
  <2>5. heard' = now /\ ObeysNone
    <3>1. now = Append(heard, x)
      BY DEF now
    <3> QED BY <2>1, <2>2, <2>3, <2>4, <3>1, HearsMore DEF ObeysNone
  <2>6. CASE k < n
    <3>1. Short(i, k + 1)'
      <4>1. Packet(i)' = Packet(i) /\ Len(now) < k + 1 - 1
        BY <1>1, <2>4 DEF Packet
      <4> QED BY <1>1, <2>2, <2>3, <2>5, <4>1 DEF Short
    <3> QED BY <1>2, <1>4, <2>1, <2>5, <2>6, <3>1, OnlySame
  <2>7. CASE ~(k < n)
    BY <1>2, <1>4, <2>1, <2>5, <2>7, OnlyNext
  <2> QED BY <2>6, <2>7
<1>5. ASSUME damage = 1, Below(at, i), k > 1, Altered(i, k)
      PROVE  Only(j, l)'
  <2> DEFINE now == Append(heard, x)
  <2>1. x \in 0 .. 127 /\ damage' = 1
    BY <1>1, <1>5
  <2>2. PICK q : /\ Len(heard) = k - 1 /\ AlteredAt(heard, i, q)
                 /\ q = 1 => k - 1 < heard[1] - 127
    BY <1>5 DEF Altered
  <2>3. /\ heard \in Seq(Nat) /\ q \in 1 .. k - 1 /\ heard[q] # Packet(i)[q]
        /\ q = 1 => heard[q] > 128
        /\ q # 1 => heard[q] < 128
        /\ \A r \in 1 .. k - 1 : r # q => heard[r] = Packet(i)[r]
    BY <2>2 DEF AlteredAt
  <2>4. /\ now \in Seq(Nat) /\ Len(now) = k /\ now[k] = x /\ now # <<>>
        /\ \A r \in 1 .. k - 1 : now[r] = heard[r]
        /\ heard # <<>>
    <3>1. k \in Nat /\ k - 1 + 1 = k /\ k - 1 # 0 /\ k # 0
      BY <1>1, <1>5
    <3>2. /\ now \in Seq(Nat) /\ Len(now) = k /\ now[k] = x
          /\ \A r \in 1 .. k - 1 : now[r] = heard[r]
      BY <2>1, <2>2, <2>3, <3>1, OneMore
    <3>3. now # <<>> /\ heard # <<>>
      BY <2>2, <3>1, <3>2
    <3> QED BY <3>2, <3>3
  <2>5. now = Append(heard, x)
    OBVIOUS
  <2> HIDE DEF now
  <2>6. AlteredAt(now, i, q)
    <3>1. k \in Nat /\ q \in 1 .. k /\ now[q] = heard[q]
      BY <1>1, <2>3, <2>4
    <3>2. ASSUME NEW r \in 1 .. k, r # q PROVE now[r] = Packet(i)[r]
      <4>1. CASE r = k
        BY <1>1, <2>4, <4>1
      <4>2. CASE r # k
        <5>1. r \in 1 .. k - 1
          BY <3>1, <4>2
        <5> QED BY <2>3, <2>4, <3>2, <5>1
      <4> QED BY <4>1, <4>2
    <3>3. /\ now[q] # Packet(i)[q]
          /\ q = 1 => now[q] > 128
          /\ q # 1 => now[q] < 128
      BY <2>3, <3>1
    <3> QED BY <2>4, <3>1, <3>2, <3>3 DEF AlteredAt
  <2>7. Hit(now, i, k, q)
    <3>1. q = 1 => now[1] = heard[1]
      BY <2>3, <2>4
    <3> QED BY <2>2, <2>4, <2>6, <3>1 DEF Hit
  <2> QED BY <1>2, <1>5, <2>1, <2>4, <2>5, <2>7, OnlyAltered
<1>6. ASSUME damage = 1, Below(at, i + 1), heard = <<>>, k > 1
      PROVE  Only(j, l)'
  <2>1. x \in 0 .. 127 /\ damage' = 1
    BY <1>1, <1>6
  <2>2. heard' = <<>> /\ ObeysNone
    BY <1>6, <2>1, HearsNothing DEF ObeysNone
  <2> QED BY <1>2, <1>6, <2>1, <2>2, OnlySkips
<1>7. k = 1 \/ k > 1
  BY <1>1
<1> QED BY <1>2, <1>3, <1>4, <1>5, <1>6, <1>7

\* The octet is lost.
LEMMA OnlyLose ==
  ASSUME PtzTypes, NEW i, NEW x, NEW k, OctetOf(x, i, k), asked' = asked,
         NEW j, NEW l, Follows(i, k, j, l), Only(i, k), damage = 0,
         heard' = heard, obeyed' = obeyed, damage' = 1
  PROVE  Only(j, l)'
<1> DEFINE n == Len(Packet(i))
<1>1. /\ i \in 1 .. Len(asked) /\ k \in 1 .. n /\ n \in {7, 8}
      /\ Packet(i) \in Seq(Nat)
  BY OctetIs
<1>2. PICK at : Matches(at) /\ Below(at, i) /\ Intact(i, k)
  BY DEF Only
<1>3. ObeysNone
  BY DEF ObeysNone
<1>4. CASE ~(k < n)
  BY <1>2, <1>3, <1>4, OnlyNext
<1>5. CASE k < n /\ k = 1
  <2>1. heard' = <<>>
    BY <1>2, <1>5 DEF Intact
  <2> QED BY <1>2, <1>3, <1>5, <2>1, OnlyWaits
<1>6. CASE k < n /\ k > 1
  <2>1. heard = Before(i, k)
    BY <1>2, <1>6 DEF Intact
  <2>2. /\ Len(heard) = k - 1 /\ heard[1] = Packet(i)[1] /\ heard # <<>>
    <3>1. k - 1 \in Nat /\ k - 1 <= n /\ 1 \in 1 .. k - 1 /\ k - 1 # 0
      BY <1>1, <1>6
    <3>2. Len(heard) = k - 1 /\ heard[1] = Packet(i)[1]
      BY <1>1, <2>1, <3>1, Cut DEF Before
    <3> QED BY <3>1, <3>2
  <2>3. Short(i, k + 1)'
    <3>1. Packet(i)' = Packet(i) /\ Len(heard) < k + 1 - 1
      BY <1>1, <2>2 DEF Packet
    <3>2. heard' # <<>> /\ heard'[1] = Packet(i)[1] /\ Len(heard') < k + 1 - 1
      BY <2>2, <3>1
    <3> QED BY <1>1, <3>1, <3>2 DEF Short
  <2> QED BY <1>2, <1>3, <1>6, <2>3, OnlySame
<1> QED BY <1>1, <1>4, <1>5, <1>6

\* Another octet comes, with the same top bit.
LEMMA OnlyChange ==
  ASSUME PtzTypes, NEW i, NEW x, NEW k, OctetOf(x, i, k), asked' = asked,
         NEW j, NEW l, Follows(i, k, j, l), Only(i, k), damage = 0,
         NEW y \in Nat, y # x, x < 128 <=> y < 128, Hear(y), damage' = 1
  PROVE  Only(j, l)'
<1> DEFINE n == Len(Packet(i))
<1>1. /\ i \in 1 .. Len(asked) /\ k \in 1 .. n /\ n \in {7, 8}
      /\ Packet(i) \in Seq(Nat) /\ x = Packet(i)[k]
      /\ k > 1 => x \in 0 .. 127
      /\ k = 1 => x \in 134 .. 135
  BY OctetIs
<1>2. PICK at : Matches(at) /\ Below(at, i) /\ Intact(i, k)
  BY DEF Only
<1>3. CASE k = 1
  <2>1. y >= 128 /\ k < n
    <3>1. x \in 134 .. 135
      BY <1>1, <1>3
    <3>2. k < n
      <4> HIDE DEF n
      <4> QED BY <1>1, <1>3
    <3> QED BY <3>1, <3>2
  <2>2. ObeysNone /\ heard' = IF y = 128 THEN <<>> ELSE <<y>>
    BY <2>1, HearsHeader DEF ObeysNone
  <2>3. CASE y = 128
    BY <1>2, <2>1, <2>2, <2>3, OnlyWaits
  <2>4. CASE y # 128
    <3> DEFINE s == <<y>>
    <3>1. s \in Seq(Nat) /\ Len(s) = 1 /\ s[1] = y
      OBVIOUS
    <3>2. heard' = s
      BY <2>2, <2>4
    <3> HIDE DEF s
    <3>3. Packet(i)' = Packet(i) /\ Packet(i)[1] = x
      BY <1>1, <1>3 DEF Packet
    <3>4. AlteredAt(s, i, 1)'
      <4>1. 1 \in 1 .. Len(s) /\ \A r \in 1 .. Len(s) : r = 1
        BY <3>1
      <4>2. s[1] > 128
        BY <2>1, <2>4, <3>1
      <4> QED BY <3>1, <3>3, <4>1, <4>2 DEF AlteredAt
    <3>5. Altered(i, k + 1)'
      <4>1. Len(s) = k + 1 - 1 /\ k + 1 - 1 < s[1] - 127
        BY <1>3, <2>1, <2>4, <3>1
      <4>2. AlteredAt(heard, i, 1)'
        BY <3>2, <3>4 DEF AlteredAt
      <4>3. Len(heard') = k + 1 - 1 /\ k + 1 - 1 < heard'[1] - 127
        BY <3>2, <4>1
      <4>4. AlteredAt(heard, i, 1)' /\ (1 = 1 => k + 1 - 1 < heard'[1] - 127)
        BY <4>2, <4>3
      <4>5. \E q : /\ AlteredAt(heard, i, q)'
                   /\ q = 1 => k + 1 - 1 < heard'[1] - 127
        BY ONLY <4>4
      <4> QED BY <1>1, <4>3, <4>5 DEF Altered
    <3> QED BY <1>2, <2>1, <2>2, <3>5, OnlySame
  <2> QED BY <2>3, <2>4
<1>4. CASE k > 1
  <2> DEFINE now == Append(heard, y)
  <2>1. y \in 0 .. 127 /\ k \in Nat
    <3>1. x \in 0 .. 127 /\ k \in Nat
      BY <1>1, <1>4
    <3> QED BY <3>1
  <2>2. heard = Before(i, k)
    BY <1>2, <1>4 DEF Intact
  <2>3. /\ Len(heard) = k - 1 /\ heard # <<>> /\ heard \in Seq(Nat)
        /\ \A r \in 1 .. k - 1 : heard[r] = Packet(i)[r]
    <3>1. k - 1 \in Nat /\ k - 1 <= n /\ k - 1 # 0
      BY <1>1, <1>4
    <3>2. /\ Len(heard) = k - 1 /\ heard \in Seq(Nat)
          /\ \A r \in 1 .. k - 1 : heard[r] = Packet(i)[r]
      BY <1>1, <2>2, <3>1, Cut DEF Before
    <3> QED BY <3>1, <3>2
  <2>4. /\ now \in Seq(Nat) /\ Len(now) = k /\ now[k] = y /\ now # <<>>
        /\ \A r \in 1 .. k - 1 : now[r] = Packet(i)[r]
    <3>1. k - 1 + 1 = k /\ k # 0
      BY <2>1, <1>4
    <3>2. /\ now \in Seq(Nat) /\ Len(now) = k /\ now[k] = y
          /\ \A r \in 1 .. k - 1 : now[r] = heard[r]
      BY <2>1, <2>3, <3>1, OneMore
    <3>3. now # <<>>
      BY <3>1, <3>2
    <3> QED BY <2>3, <3>2, <3>3
  <2>5. now = Append(heard, y)
    OBVIOUS
  <2> HIDE DEF now
  <2>6. AlteredAt(now, i, k)
    <3>1. \A r \in 1 .. k : r # k => r \in 1 .. k - 1
      BY <2>1
    <3>2. k \in 1 .. k /\ k # 1 /\ now[k] # Packet(i)[k] /\ now[k] < 128
      BY <1>1, <1>4, <2>1, <2>4
    <3> QED BY <2>4, <3>1, <3>2 DEF AlteredAt
  <2>7. Hit(now, i, k, k)
    BY <1>4, <2>4, <2>6 DEF Hit
  <2> QED BY <1>2, <1>4, <2>1, <2>3, <2>5, <2>7, OnlyAltered
<1> QED BY <1>1, <1>3, <1>4

-----------------------------------------------------------------------------
(***************************************************************************)
(* The specification.                                                      *)
(***************************************************************************)

\* The inductive invariant: what is said of the octet that comes next.
PtzInv ==
  /\ PtzTypes
  /\ \E i \in Nat, k \in Nat :
       Line(i, k) /\ Heeds(i, k) /\ (damage <= 1 => Only(i, k))

\* At the start the first octet of the first command is still to come.
LEMMA InitPtz == PtzInit => PtzInv
<1> SUFFICES ASSUME PtzInit PROVE PtzInv
  OBVIOUS
<1>1. /\ asked = <<>> /\ serial = <<>> /\ heard = <<>> /\ obeyed = <<>>
      /\ damage = 0
  BY DEF PtzInit
<1>2. PtzTypes
  <2>1. asked \in Seq(Calls) /\ serial \in Seq(Nat) /\ heard \in Seq(Nat)
        /\ obeyed \in Seq(Nat) /\ damage \in Nat
    BY <1>1
  <2>2. Len(asked) = 0
    BY <1>1
  <2> QED BY <2>1, <2>2 DEF PtzTypes
<1> DEFINE at == [q \in Nat |-> 1]
<1>3. at \in [Nat -> Nat] /\ at[1] = 1
  OBVIOUS
<1> HIDE DEF at
<1>4. Len(asked) = 0 /\ Len(serial) = 0 /\ Len(obeyed) = 0
  BY <1>1
<1>5. Line(1, 1)
  <2>1. Lined(at, at)
    BY <1>3, <1>4 DEF Lined
  <2> QED BY <1>3, <2>1 DEF Line
<1>6. Heeds(1, 1)
  <2>1. Cardinality({}) <= damage
    BY <1>1, FS_EmptySet
  <2>2. Places(1, {}, at)
    <3>1. Kept(1, {}) = {}
      BY DEF Kept
    <3> QED BY <1>3, <3>1 DEF Places
  <2> QED BY <2>1, <2>2 DEF Heeds
<1>7. Only(1, 1)
  <2>1. Matches(at) /\ Below(at, 1)
    BY <1>3, <1>4 DEF Matches, Below
  <2>2. Intact(1, 1)
    BY <1>1 DEF Intact
  <2> QED BY <2>1, <2>2 DEF Only
<1> QED BY <1>2, <1>5, <1>6, <1>7 DEF PtzInv

\* Another command is asked for: the next octet to come is of the same command
\* as before, or there was none to come and the new command was not written.
More(i, k, j) ==
  /\ i \in Nat /\ j \in Nat /\ k \in Nat \ {0}
  /\ Len(asked) \in Nat /\ i <= Len(asked) + 1 /\ Len(asked) <= Len(asked')
  /\ \A m \in 1 .. Len(asked) : asked'[m] = asked[m]
  /\ k > 1 => j = i /\ i \in 1 .. Len(asked)
  /\ j = i \/ (j = i + 1 /\ ~asked'[i].written)
  /\ heard' = heard /\ obeyed' = obeyed /\ damage' = damage

\* What was said of the packets stays true.
LEMMA HeedsMore ==
  ASSUME NEW i, NEW k, NEW j, More(i, k, j), Heeds(i, k)
  PROVE  Heeds(j, k)'
<1>1. PICK lost, at :
        /\ lost \in SUBSET (1 .. i)
        /\ Cardinality(lost) <= damage /\ Places(i, lost, at)
        /\ k = 1 => i \notin lost
        /\ k > 1 /\ i \notin lost => heard = Before(i, k)
  BY DEF Heeds
<1>2. /\ i \in Nat /\ j \in Nat /\ k \in Nat \ {0} /\ Len(asked) \in Nat
      /\ i <= Len(asked) + 1 /\ (k > 1 => j = i /\ i \in 1 .. Len(asked))
      /\ j = i \/ (j = i + 1 /\ ~asked'[i].written)
      /\ \A m \in 1 .. Len(asked) : asked'[m] = asked[m]
      /\ heard' = heard /\ obeyed' = obeyed /\ damage' = damage
  BY DEF More
<1>3. ASSUME NEW m \in Kept(j, lost)'
      PROVE  m \in Kept(i, lost) /\ asked'[m] = asked[m]
  <2>1. m \in 1 .. j - 1 /\ asked'[m].written /\ m \notin lost
    BY DEF Kept
  <2>2. m # i \/ m \in 1 .. i - 1
    BY <1>2, <2>1
  <2>3. m \in 1 .. i - 1 /\ m \in 1 .. Len(asked)
    BY <1>2, <2>1, <2>2
  <2> QED BY <1>2, <2>1, <2>3 DEF Kept
<1>4. Places(j, lost, at)'
  <2>1. at \in [Nat -> Nat]
    BY <1>1 DEF Places
  <2>2. ASSUME NEW m \in Kept(j, lost)'
        PROVE  at[m] \in 1 .. Len(obeyed') /\ obeyed'[at[m]] = asked'[m].command
    BY <1>1, <1>2, <1>3 DEF Places
  <2>3. ASSUME NEW m \in Kept(j, lost)', NEW l \in Kept(j, lost)', m < l
        PROVE  at[m] < at[l]
    BY <1>1, <1>3, <2>3 DEF Places
  <2> QED BY <2>1, <2>2, <2>3 DEF Places
<1>5. lost \in SUBSET (1 .. j) /\ Cardinality(lost) <= damage'
  BY <1>1, <1>2
<1>6. k = 1 => j \notin lost
  BY <1>1, <1>2
<1>7. k > 1 /\ j \notin lost => heard' = Before(j, k)'
  BY <1>1, <1>2 DEF Before, Packet
<1> QED BY <1>4, <1>5, <1>6, <1>7 DEF Heeds

\* And of the commands that were obeyed.
LEMMA OnlyMore ==
  ASSUME PtzTypes, NEW i, NEW k, NEW j, More(i, k, j), Only(i, k)
  PROVE  Only(j, k)'
<1>1. PICK at :
        /\ Matches(at)
        /\ \/ Below(at, i) /\ Intact(i, k)
           \/ /\ damage = 1 /\ Below(at, i)
              /\ k = 1 \/ Short(i, k) \/ Altered(i, k)
           \/ damage = 1 /\ Below(at, i + 1) /\ heard = <<>> /\ k > 1
  BY DEF Only
<1>2. /\ i \in Nat /\ j \in Nat /\ k \in Nat \ {0} /\ Len(asked) \in Nat
      /\ k > 1 => j = i /\ i \in 1 .. Len(asked)
      /\ j = i \/ j = i + 1
      /\ \A m \in 1 .. Len(asked) : asked'[m] = asked[m]
      /\ Len(asked') \in Nat /\ Len(asked) <= Len(asked')
      /\ heard' = heard /\ obeyed' = obeyed /\ damage' = damage
  <2>1. Len(asked') \in Nat
    BY DEF More
  <2> QED BY <2>1 DEF More
<1>3. Matches(at)'
  <2>1. ASSUME NEW m \in 1 .. Len(obeyed)
        PROVE  /\ at[m] \in 1 .. Len(asked') /\ asked'[at[m]].written
               /\ obeyed[m] = asked'[at[m]].command
    <3>1. at[m] \in 1 .. Len(asked) /\ asked[at[m]].written
          /\ obeyed[m] = asked[at[m]].command
      BY <1>1 DEF Matches
    <3>2. asked'[at[m]] = asked[at[m]]
      BY <1>2, <3>1
    <3> QED BY <1>2, <3>1, <3>2
  <2> QED BY <1>1, <1>2, <2>1 DEF Matches
<1>4. ASSUME Below(at, i) PROVE Below(at, j)'
  <2>1. ASSUME NEW m \in 1 .. Len(obeyed) PROVE at[m] < j
    <3>1. at[m] < i /\ at[m] \in Nat
      BY <1>1, <1>4 DEF Below, Matches
    <3> QED BY <1>2, <3>1
  <2> QED BY <1>2, <2>1 DEF Below
<1>5. CASE ~(k > 1)
  <2>0. k = 1
    BY <1>2, <1>5
  <2>1. Below(at, i) /\ (damage = 1 \/ Intact(i, k))
    BY <1>1, <1>5
  <2>2. CASE damage = 1
    <3>1. damage' = 1
      BY <1>2, <2>2
    <3> QED BY <1>3, <1>4, <2>0, <2>1, <3>1 DEF Only
  <2>3. CASE Intact(i, k)
    <3>1. heard' = <<>>
      BY <1>2, <2>0, <2>3 DEF Intact
    <3>2. Intact(j, k)'
      BY <2>0, <3>1 DEF Intact
    <3> QED BY <1>3, <1>4, <2>1, <3>2 DEF Only
  <2> QED BY <2>1, <2>2, <2>3
<1>6. CASE k > 1
  <2>1. j = i /\ Packet(i)' = Packet(i)
    BY <1>2, <1>6 DEF Packet
  <2>2. Intact(i, k) => Intact(i, k)'
    BY <1>2, <2>1 DEF Intact, Before
  <2>3. Short(i, k) => Short(i, k)'
    BY <1>2, <2>1 DEF Short
  <2>4. Altered(i, k) => Altered(i, k)'
    BY <1>2, <2>1 DEF Altered, AlteredAt
  <2>5. Below(at, i) => Below(at, i)'
    BY <1>2 DEF Below
  <2>6. Below(at, i + 1) => Below(at, i + 1)'
    BY <1>2 DEF Below
  <2>7. CASE Below(at, i) /\ Intact(i, k)
    BY <1>3, <2>1, <2>2, <2>5, <2>7 DEF Only
  <2>8. CASE damage = 1 /\ Below(at, i) /\ (Short(i, k) \/ Altered(i, k))
    <3>1. damage' = 1 /\ Below(at, i)' /\ (Short(i, k)' \/ Altered(i, k)')
      BY <1>2, <2>3, <2>4, <2>5, <2>8
    <3> QED BY <1>3, <2>1, <3>1 DEF Only
  <2>9. CASE damage = 1 /\ Below(at, i + 1) /\ heard = <<>>
    <3>1. damage' = 1 /\ Below(at, i + 1)' /\ heard' = <<>>
      BY <1>2, <2>6, <2>9
    <3> QED BY <1>3, <1>6, <2>1, <3>1 DEF Only
  <2>10. k # 1
    BY <1>2, <1>6
  <2> QED BY <1>1, <2>7, <2>8, <2>9, <2>10
<1> QED BY <1>5, <1>6

\* Whatever comes of send_osrd, the invariant stays.
LEMMA AsksMove ==
  ASSUME PtzInv, NEW c \in Moves, NEW returned \in {0, -1},
         NEW written \in BOOLEAN, returned = 0 => written,
         Asked(c, returned, written)
  PROVE  PtzInv'
<1> DEFINE r == [command |-> c, result |-> returned, written |-> written]
<1>1. /\ r \in Calls /\ r.command = c /\ r.written = written
      /\ r.result = returned
  BY DEF Calls
<1>2. /\ asked' = Append(asked, r)
      /\ written => serial' = serial \o osrd_packet(r.command)
      /\ ~written => serial' = serial
      /\ heard' = heard /\ obeyed' = obeyed /\ damage' = damage
  BY DEF Asked
<1> HIDE DEF r
<1>3. PtzTypes
  BY DEF PtzInv
<1>4. PICK i \in Nat, k \in Nat :
        Line(i, k) /\ Heeds(i, k) /\ (damage <= 1 => Only(i, k))
  BY DEF PtzInv
<1>5. /\ asked' \in Seq(Calls) /\ Len(asked) \in Nat
      /\ Len(asked') = Len(asked) + 1 /\ asked'[Len(asked) + 1] = r
      /\ \A m \in 1 .. Len(asked) : asked'[m] = asked[m]
  <2>1. asked \in Seq(Calls)
    BY <1>3 DEF PtzTypes
  <2> QED BY <1>1, <1>2, <2>1, Appended
<1>6. PtzTypes'
  <2>1. serial' \in Seq(Nat)
    <3>1. osrd_packet(r.command) \in Seq(Nat)
      <4>1. c \in Commands
        BY PtzAssumption
      <4> QED BY <1>1, <4>1, PacketIs DEF Wrapped
    <3>2. serial \in Seq(Nat)
      BY <1>3 DEF PtzTypes
    <3>3. serial \o osrd_packet(r.command) \in Seq(Nat)
      BY <3>1, <3>2, Together
    <3> QED BY <1>2, <3>2, <3>3
  <2>2. ASSUME NEW m \in 1 .. Len(asked')
        PROVE  asked'[m].result = 0 => asked'[m].written
    <3>1. CASE m = Len(asked) + 1
      BY <1>1, <1>5, <3>1
    <3>2. CASE m # Len(asked) + 1
      <4>1. m \in 1 .. Len(asked)
        BY <1>5, <3>2
      <4> QED BY <1>3, <1>5, <4>1 DEF PtzTypes
    <3> QED BY <3>1, <3>2
  <2>3. heard' \in Seq(Nat) /\ (\E Y : obeyed' \in Seq(Y)) /\ damage' \in Nat
    BY <1>2, <1>3 DEF PtzTypes
  <2> QED BY <1>5, <2>1, <2>2, <2>3 DEF PtzTypes
<1>7. /\ serial = <<>> => i = Len(asked) + 1 /\ k = 1
      /\ serial # <<>> => i \in 1 .. Len(asked)
      /\ k # 0
  <2>1. serial # <<>> => OctetOf(Head(serial), i, k)
    BY <1>3, <1>4, LineEnds
  <2>2. serial # <<>> => i \in 1 .. Len(asked) /\ k # 0
    BY <2>1 DEF OctetOf
  <2>3. serial = <<>> => i = Len(asked) + 1 /\ k = 1
    BY <1>3, <1>4, LineEnds
  <2> QED BY <2>2, <2>3
<1>8. PICK j \in Nat : /\ Line(j, k)'
                       /\ j = i \/ (j = i + 1 /\ serial = <<>> /\ ~written)
  <2>1. CASE written
    <3>1. r.written /\ serial' = serial \o osrd_packet(r.command)
      BY <1>1, <1>2, <2>1
    <3>2. Line(i, k)'
      BY ONLY <1>1, <1>2, <1>3, <1>4, <3>1, LineGrows, Zenon
    <3> QED BY <3>2
  <2>2. CASE ~written
    <3>1. ~r.written /\ serial' = serial
      BY <1>1, <1>2, <2>2
    <3>2. PICK j : j = (IF serial = <<>> THEN i + 1 ELSE i) /\ Line(j, k)'
      BY <1>2, <1>3, <1>4, <3>1, LineStays
    <3>3. CASE serial = <<>>
      BY <2>2, <3>2, <3>3
    <3>4. CASE serial # <<>>
      <4>1. j = i /\ j \in Nat
        BY <3>2, <3>4
      <4> QED BY ONLY <3>2, <4>1, Zenon
    <3> QED BY <3>3, <3>4
  <2> QED BY <2>1, <2>2
<1>9. More(i, k, j)
  <2>1. i <= Len(asked) + 1 /\ Len(asked) <= Len(asked')
    BY <1>5, <1>7
  <2>2. k > 1 => j = i /\ i \in 1 .. Len(asked)
    BY <1>7, <1>8
  <2>3. j = i \/ (j = i + 1 /\ ~asked'[i].written)
    <3>1. CASE j = i
      BY ONLY <3>1, Zenon
    <3>2. CASE j = i + 1 /\ serial = <<>> /\ ~written
      <4>1. i = Len(asked) + 1 /\ asked'[i] = r /\ ~r.written
        BY <1>1, <1>5, <1>7, <3>2
      <4> QED BY <3>2, <4>1
    <3> QED BY <1>8, <3>1, <3>2
  <2>4. k \in Nat \ {0}
    BY <1>7
  <2> QED BY <1>2, <1>5, <2>1, <2>2, <2>3, <2>4 DEF More
<1>10. Heeds(j, k)'
  BY <1>4, <1>9, HeedsMore
<1>11. damage' <= 1 => Only(j, k)'
  BY <1>2, <1>3, <1>4, <1>9, OnlyMore
<1> QED BY <1>6, <1>8, <1>10, <1>11 DEF PtzInv

\* The octet that comes instead of another one.
Instead(x, n) == ((x \div 128) * 128) + ((x + n) % 128)

LEMMA Noised ==
  ASSUME NEW x \in 0 .. 135, NEW n \in 1 .. 127
  PROVE  /\ Instead(x, n) \in Nat /\ Instead(x, n) # x
         /\ x < 128 <=> Instead(x, n) < 128
<1> DEFINE y == Instead(x, n)
<1>0. y = ((x \div 128) * 128) + ((x + n) % 128)
  BY DEF Instead
<1> HIDE DEF y
<1>1. CASE x < 128
  <2>1. x \div 128 = 0
    BY <1>1
  <2>2. y = (x + n) % 128
    BY <1>0, <2>1
  <2> QED BY <1>1, <2>2 DEF y
<1>2. CASE ~(x < 128)
  <2>1. x \div 128 = 1
    BY <1>2
  <2>2. y = 128 + ((x + n) % 128)
    BY <1>0, <2>1
  <2>3. (x + n) % 128 \in 0 .. 127 /\ (x + n) % 128 # x - 128
    BY <1>2
  <2> QED BY <1>2, <2>2, <2>3 DEF y
<1> QED BY <1>1, <1>2

\* What the serial line does with the next octet.
LEMMA OctetPasses ==
  ASSUME PtzInv, Transfer \/ Lose \/ \E n \in Noise : Change(n)
  PROVE  PtzInv'
<1>1. PtzTypes /\ NextOctet
  BY DEF PtzInv, Transfer, Lose, Change
<1>2. PICK i \in Nat, k \in Nat :
        Line(i, k) /\ Heeds(i, k) /\ (damage <= 1 => Only(i, k))
  BY DEF PtzInv
<1> DEFINE x == Head(serial)
<1>3. /\ serial # <<>> /\ serial' = Tail(serial) /\ asked' = asked
      /\ serial \in Seq(Nat) /\ damage \in Nat
  BY <1>1 DEF NextOctet, PtzTypes
<1>4. x \in Nat /\ serial' \in Seq(Nat)
  BY <1>3
<1>5. OctetOf(x, i, k)
  BY <1>1, <1>2, <1>3, LineEnds
<1>6. PICK j \in Nat, l \in Nat : Follows(i, k, j, l) /\ Line(j, l)'
  BY <1>1, <1>2, LineMoves
<1> HIDE DEF x
<1>7. ASSUME heard' \in Seq(Nat), Obeys, damage' \in Nat
      PROVE  PtzTypes'
  <2>1. \E Y : obeyed' \in Seq(Y)
    BY <1>1, <1>7, StillObeyed
  <2> QED BY <1>1, <1>3, <1>4, <1>7, <2>1 DEF PtzTypes
<1>8. CASE Transfer
  <2>1. Hear(x) /\ damage' = damage
    BY <1>8 DEF Transfer, x
  <2>2. heard' \in Seq(Nat) /\ Obeys
    BY <1>1, <1>4, <2>1, HearsSomething
  <2>3. PtzTypes'
    BY <1>3, <1>7, <2>1, <2>2
  <2>4. Heeds(j, l)'
    BY <1>1, <1>2, <1>3, <1>4, <1>5, <1>6, <2>1, HeedsTransfer
  <2>5. damage' <= 1 => Only(j, l)'
    BY <1>1, <1>2, <1>3, <1>5, <1>6, <2>1, OnlyTransfer
  <2> QED BY <1>6, <2>3, <2>4, <2>5 DEF PtzInv
<1>9. CASE Lose
  <2>1. damage' = damage + 1 /\ heard' = heard /\ obeyed' = obeyed
    BY <1>9 DEF Lose, Damage
  <2>2. heard' \in Seq(Nat) /\ Obeys /\ damage' \in Nat
    BY <1>1, <1>3, <2>1 DEF Obeys, PtzTypes
  <2>3. PtzTypes'
    BY <1>7, <2>2
  <2>4. Heeds(j, l)'
    BY <1>1, <1>2, <1>3, <1>5, <1>6, <2>1, <2>2, HeedsDamage
  <2>5. ASSUME damage' <= 1 PROVE Only(j, l)'
    <3>1. damage = 0 /\ damage' = 1 /\ Only(i, k)
      BY <1>2, <1>3, <2>1, <2>5
    <3> QED BY <1>1, <1>3, <1>5, <1>6, <2>1, <3>1, OnlyLose
  <2> QED BY <1>6, <2>3, <2>4, <2>5 DEF PtzInv
<1>10. ASSUME NEW n \in Noise, Change(n) PROVE PtzInv'
  <2> DEFINE y == Instead(x, n)
  <2>1. damage' = damage + 1 /\ Hear(y)
    BY <1>10 DEF Change, Damage, Instead, x
  <2>2. y \in Nat /\ y # x /\ (x < 128 <=> y < 128)
    <3>1. /\ k > 1 => x \in 0 .. 127
          /\ k = 1 => x \in 134 .. 135
          /\ k \in 1 .. Len(Packet(i))
      BY <1>1, <1>5, OctetIs
    <3>2. x \in 0 .. 135
      BY <3>1
    <3>3. n \in 1 .. 127
      BY PtzAssumption
    <3> QED BY ONLY <3>2, <3>3, Noised
  <2> HIDE DEF y
  <2>3. heard' \in Seq(Nat) /\ Obeys /\ damage' \in Nat
    BY <1>1, <1>3, <2>1, <2>2, HearsSomething
  <2>4. PtzTypes'
    BY <1>7, <2>3
  <2>5. Heeds(j, l)'
    BY <1>1, <1>2, <1>3, <1>5, <1>6, <2>1, <2>3, HeedsDamage
  <2>6. ASSUME damage' <= 1 PROVE Only(j, l)'
    <3>1. damage = 0 /\ damage' = 1 /\ Only(i, k)
      BY <1>2, <1>3, <2>1, <2>6
    <3> QED BY <1>1, <1>3, <1>5, <1>6, <2>1, <2>2, <3>1, OnlyChange
  <2> QED BY <1>6, <2>4, <2>5, <2>6 DEF PtzInv
<1> QED BY <1>8, <1>9, <1>10

\* So it holds for ever.
LEMMA PtzInvariant == PtzInit /\ [][PtzNext]_ptzVars => []PtzInv
<1>1. PtzInv /\ [PtzNext]_ptzVars => PtzInv'
  <2> SUFFICES ASSUME PtzInv, [PtzNext]_ptzVars PROVE PtzInv'
    OBVIOUS
  <2>1. ASSUME NEW c \in Moves, send_osrd(c) \/ Denied(c) \/ Unanswered(c)
        PROVE  PtzInv'
    <3>1. CASE send_osrd(c)
      <4>1. Asked(c, 0, TRUE)
        BY <3>1 DEF send_osrd
      <4> QED BY <4>1, AsksMove
    <3>2. CASE Denied(c)
      <4>1. Asked(c, -1, FALSE)
        BY <3>2 DEF Denied
      <4>2. -1 # 0 /\ -1 \in {0, -1}
        OBVIOUS
      <4> QED BY <4>1, <4>2, AsksMove
    <3>3. CASE Unanswered(c)
      <4>1. Asked(c, -1, TRUE)
        BY <3>3 DEF Unanswered
      <4> QED BY <4>1, AsksMove
    <3> QED BY <2>1, <3>1, <3>2, <3>3
  <2>2. CASE Transfer \/ Lose \/ \E n \in Noise : Change(n)
    BY <2>2, OctetPasses
  <2>3. CASE UNCHANGED ptzVars
    <3>1. /\ asked' = asked /\ serial' = serial /\ heard' = heard
          /\ obeyed' = obeyed /\ damage' = damage
      BY <2>3 DEF ptzVars
    <3>2. PtzTypes'
      BY <3>1 DEF PtzInv, PtzTypes
    <3>3. PICK i \in Nat, k \in Nat :
            Line(i, k) /\ Heeds(i, k) /\ (damage <= 1 => Only(i, k))
      BY DEF PtzInv
    <3>4. Line(i, k)'
      <4>1. PICK of, at : Lined(of, at) /\ of[1] = i /\ at[1] = k
        BY <3>3 DEF Line
      <4>2. Lined(of, at)'
        BY <3>1, <4>1 DEF Lined, Next2, OctetOf, Follows, Packet
      <4> QED BY <4>1, <4>2 DEF Line
    <3>5. Heeds(i, k)'
      <4>1. PICK lost, at :
              /\ lost \in SUBSET (1 .. i)
              /\ Cardinality(lost) <= damage /\ Places(i, lost, at)
              /\ k = 1 => i \notin lost
              /\ k > 1 /\ i \notin lost => heard = Before(i, k)
        BY <3>3 DEF Heeds
      <4>2. Places(i, lost, at)' /\ Before(i, k)' = Before(i, k)
        BY <3>1, <4>1 DEF Places, Kept, Before, Packet
      <4> QED BY <3>1, <4>1, <4>2 DEF Heeds
    <3>6. damage' <= 1 => Only(i, k)'
      BY <3>1, <3>3 DEF Only, Matches, Below, Intact, Before, Short, Altered,
                        AlteredAt, Packet
    <3> QED BY <3>2, <3>3, <3>4, <3>5, <3>6 DEF PtzInv
  <2> QED BY <2>1, <2>2, <2>3 DEF PtzNext
<1> QED BY <1>1, InitPtz, PTL

\* For any number of octets that are lost or changed: every command for which
\* send_osrd has returned 0 is obeyed as it was given, in the order of the
\* commands, but at most one for each such octet (send_osrd, VarSpeedPTZ,
\* Preposition, checksum).
THEOREM CommandsAreHeeded == PtzInit /\ [][PtzNext]_ptzVars => []Heeded
<1>1. PtzInv => Heeded
  <2> SUFFICES ASSUME PtzInv, serial = <<>>
               PROVE  \E lost \in SUBSET Done :
                        /\ Cardinality(lost) <= damage
                        /\ \E at \in [Done \ lost -> DOMAIN obeyed] :
                             /\ InOrder(at)
                             /\ \A i \in DOMAIN at :
                                  obeyed[at[i]] = asked[i].command
    BY DEF Heeded
  <2>1. PtzTypes /\ Done \subseteq 1 .. Len(asked) /\ Len(asked) \in Nat
    BY DEF PtzInv, PtzTypes, Done
  <2>2. PICK i \in Nat, k \in Nat : Line(i, k) /\ Heeds(i, k)
    BY DEF PtzInv
  <2>3. i = Len(asked) + 1
    BY <2>1, <2>2, LineEnds
  <2>4. PICK gone, to :
          /\ gone \in SUBSET (1 .. i)
          /\ Cardinality(gone) <= damage /\ Places(i, gone, to)
    BY <2>2 DEF Heeds
  <2> DEFINE lost == gone \intersect Done
             kept == Done \ lost
             at == [m \in kept |-> to[m]]
  <2>5. Cardinality(lost) <= damage
    <3>0. IsFiniteSet(1 .. i)
      BY FS_Interval
    <3>1. IsFiniteSet(gone)
      BY <2>4, <3>0, FS_Subset
    <3>2. /\ Cardinality(lost) \in Nat /\ Cardinality(gone) \in Nat
          /\ Cardinality(lost) <= Cardinality(gone)
      BY <3>1, FS_Subset, FS_CardinalityType
    <3>3. damage \in Nat
      BY <2>1 DEF PtzTypes
    <3> HIDE DEF lost
    <3> QED BY <2>4, <3>2, <3>3
  <2>6. ASSUME NEW m \in kept
        PROVE  /\ to[m] \in DOMAIN obeyed /\ obeyed[to[m]] = asked[m].command
               /\ m \in Kept(i, gone)
    <3>1. m \in 1 .. Len(asked) /\ asked[m].result = 0 /\ m \notin gone
      BY <2>1 DEF Done
    <3>2. asked[m].written
      BY <2>1, <3>1 DEF PtzTypes
    <3>3. m \in Kept(i, gone)
      BY <2>1, <2>3, <3>1, <3>2 DEF Kept
    <3>4. to[m] \in 1 .. Len(obeyed) /\ obeyed[to[m]] = asked[m].command
      BY <2>4, <3>3 DEF Places
    <3>5. DOMAIN obeyed = 1 .. Len(obeyed)
      BY <2>1 DEF PtzTypes
    <3> QED BY <3>3, <3>4, <3>5
  <2>7. /\ at \in [kept -> DOMAIN obeyed] /\ DOMAIN at = kept
        /\ \A m \in kept : at[m] = to[m]
    <3> HIDE DEF kept
    <3> QED BY <2>6
  <2>8. InOrder(at)
    <3> HIDE DEF at, kept
    <3>1. ASSUME NEW m \in kept, NEW o \in kept, m < o PROVE at[m] < at[o]
      <4>1. to[m] < to[o]
        BY <2>4, <2>6, <3>1 DEF Places
      <4> QED BY <2>7, <4>1
    <3> QED BY <2>7, <3>1 DEF InOrder
  <2>9. \A m \in DOMAIN at : obeyed[at[m]] = asked[m].command
    <3> HIDE DEF at, kept
    <3> QED BY <2>6, <2>7
  <2>10. lost \in SUBSET Done
    OBVIOUS
  <2> HIDE DEF at
  <2>11. at \in [Done \ lost -> DOMAIN obeyed]
    BY <2>7
  <2> HIDE DEF lost, kept
  <2> QED BY <2>5, <2>8, <2>9, <2>10, <2>11
<1> QED BY <1>1, PtzInvariant, PTL

\* With one octet lost or changed at most, the camera does nothing but what was
\* asked for, in the order it was asked and not twice.  It may with more: two
\* changes can leave the checksum as it was (send_osrd, checksum).
THEOREM NothingElseIsObeyed ==
  PtzInit /\ [][PtzNext]_ptzVars => [](damage <= 1 => OnlyAsked)
<1>1. PtzInv => (damage <= 1 => OnlyAsked)
  <2> SUFFICES ASSUME PtzInv, damage <= 1
               PROVE  \E at \in [DOMAIN obeyed ->
                                   {i \in DOMAIN asked : asked[i].written}] :
                        /\ InOrder(at)
                        /\ \A i \in DOMAIN at : obeyed[i] = asked[at[i]].command
    BY DEF OnlyAsked
  <2>1. PtzTypes
    BY DEF PtzInv
  <2>2. PICK i \in Nat, k \in Nat : Only(i, k)
    BY DEF PtzInv
  <2>3. PICK to : Matches(to)
    BY <2>2 DEF Only
  <2> DEFINE all == DOMAIN obeyed
             at == [m \in all |-> to[m]]
             sent == {m \in DOMAIN asked : asked[m].written}
  <2>4. all = 1 .. Len(obeyed) /\ DOMAIN asked = 1 .. Len(asked)
    BY <2>1 DEF PtzTypes
  <2> HIDE DEF all
  <2>5. ASSUME NEW m \in all
        PROVE  to[m] \in sent /\ obeyed[m] = asked[to[m]].command
    <3>1. to[m] \in 1 .. Len(asked) /\ asked[to[m]].written
          /\ obeyed[m] = asked[to[m]].command
      BY <2>3, <2>4 DEF Matches
    <3> QED BY <2>4, <3>1
  <2> HIDE DEF sent
  <2>6. /\ at \in [all -> sent] /\ DOMAIN at = all
        /\ \A m \in all : at[m] = to[m]
    BY <2>5
  <2> HIDE DEF at
  <2>7. InOrder(at)
    <3>1. ASSUME NEW m \in all, NEW o \in all, m < o PROVE at[m] < at[o]
      <4>1. to[m] < to[o]
        BY <2>3, <2>4, <3>1 DEF Matches
      <4> QED BY <2>6, <4>1
    <3> QED BY <2>6, <3>1 DEF InOrder
  <2>8. \A m \in DOMAIN at : obeyed[m] = asked[at[m]].command
    BY <2>5, <2>6
  <2>9. at \in [DOMAIN obeyed -> {m \in DOMAIN asked : asked[m].written}]
    BY <2>6 DEF all, sent
  <2> QED BY <2>7, <2>8, <2>9
<1> QED BY <1>1, PtzInvariant, PTL
=============================================================================
