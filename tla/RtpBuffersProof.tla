-------------------------- MODULE RtpBuffersProof ---------------------------
(***************************************************************************)
(* The bookkeeping of the fragment buffers, for any number of slots,       *)
(* packets and failures.                                                   *)
(***************************************************************************)
EXTENDS RtpBuffers, FiniteSetTheorems, TLAPS

\* The heap is empty before and after every call: rtp_recv pops what it has
\* pushed.  The counts follow.
BuffersInv ==
  /\ TypeOK
  /\ fragments_heap = {}
  /\ queue_size + (IF pc = "recvfrom" THEN 1 ELSE 0) + failures
       = FRAGMENT_COUNT
  /\ HandedAsArrived

LEMMA SlotArithmetic ==
  /\ Slots # {} /\ 0 \in Slots /\ FRAGMENT_COUNT - 1 \in Slots
  /\ \A i \in Slots : (i + 1) % FRAGMENT_COUNT \in Slots
BY BuffersAssumption DEF Slots

LEMMA InitBuffers == BuffersInit => BuffersInv
<1> SUFFICES ASSUME BuffersInit PROVE BuffersInv
  OBVIOUS
<1>1. TypeOK
  BY SlotArithmetic, BuffersAssumption
     DEF BuffersInit, TypeOK, Packets
<1>2. HandedAsArrived
  BY DEF BuffersInit, HandedAsArrived
<1>. QED
  BY <1>1, <1>2, BuffersAssumption DEF BuffersInit, BuffersInv

\* With an empty heap the slot popped is the slot pushed.
LEMMA ThroughHeap ==
  ASSUME NEW x, NEW f
  PROVE  First({} \union {x}, f) = x /\ heap_pop({} \union {x}, x) = {}
BY DEF First, heap_pop

LEMMA ReceiveBuffers == BuffersInv /\ Receive => BuffersInv'
<1> SUFFICES ASSUME BuffersInv, Receive PROVE BuffersInv'
  OBVIOUS
<1> USE DEF BuffersInv
<1>1. /\ pc = "recvfrom" /\ pc' = "idle"
      /\ received < Len(delivered) /\ received' = received + 1
      /\ fragment' = [fragment EXCEPT ![qp] = delivered[received + 1]]
      /\ UNCHANGED <<qp, toSend, delivered, failures>>
  BY DEF Receive, network
<1>2. fragments_heap = {}
  OBVIOUS
<1>3. /\ fragments_heap' = {}
      /\ queue_push(qp)
      /\ handed' = Append(handed, fragment'[qp])
  BY <1>2, ThroughHeap DEF Receive
<1>4. /\ received + 1 \in 1 .. Len(delivered)
      /\ delivered[received + 1] \in Packets
  BY <1>1 DEF TypeOK
<1>5. fragment'[qp] = delivered[received + 1]
  BY <1>1 DEF TypeOK
<1>6. /\ queue_size' = queue_size + 1 /\ queue_start' = queue_start
      /\ queue_end' \in Slots /\ fragments_queue' \in [Slots -> Slots]
  BY <1>3, SlotArithmetic DEF queue_push, TypeOK
<1>7. /\ queue_size' + (IF pc' = "recvfrom" THEN 1 ELSE 0) + failures'
           = FRAGMENT_COUNT
      /\ queue_size' \in 0 .. FRAGMENT_COUNT
  BY <1>1, <1>6, BuffersAssumption DEF TypeOK
<1>8. /\ handed' \in Seq(Packets \union {NoPacket})
      /\ Len(handed') = Len(handed) + 1
      /\ handed'[Len(handed) + 1] = delivered[received + 1]
      /\ \A i \in 1 .. Len(handed) : handed'[i] = handed[i]
  BY <1>3, <1>4, <1>5 DEF TypeOK
<1>9. TypeOK'
  <2>1. fragment' \in [Slots -> Packets \union {NoPacket}]
    BY <1>1, <1>4 DEF TypeOK
  <2>2. received' \in 0 .. Len(delivered') /\ fragments_heap' \subseteq Slots
    BY <1>1, <1>3 DEF TypeOK
  <2>. QED BY <1>1, <1>6, <1>7, <1>8, <2>1, <2>2 DEF TypeOK
<1>10. HandedAsArrived'
  <2>1. Len(handed) = received /\ Len(handed) \in Nat
    BY DEF HandedAsArrived, TypeOK
  <2>2. ASSUME NEW i \in 1 .. Len(handed) + 1
        PROVE  handed'[i] = delivered[i]
    <3>1. CASE i = Len(handed) + 1
      BY <1>8, <2>1, <3>1
    <3>2. CASE i \in 1 .. Len(handed)
      BY <1>8, <2>1, <3>2 DEF HandedAsArrived
    <3>. QED BY <2>1, <2>2, <3>1, <3>2
  <2>. QED BY <1>1, <1>8, <2>1, <2>2 DEF HandedAsArrived
<1>. QED BY <1>3, <1>7, <1>9, <1>10

LEMMA NextBuffers == BuffersInv /\ [BuffersNext]_buffersVars => BuffersInv'
<1> SUFFICES ASSUME BuffersInv, [BuffersNext]_buffersVars PROVE BuffersInv'
  OBVIOUS
<1> USE DEF BuffersInv
<1>1. CASE Deliver
  <2>1. PICK p \in toSend : /\ toSend' = toSend \ {p}
                            /\ delivered' = Append(delivered, p)
    BY <1>1 DEF Deliver
  <2>2. UNCHANGED <<pc, queue_start, queue_end, queue_size, fragments_queue,
                    fragments_heap, fragment, qp, received, handed, failures>>
    BY <1>1 DEF Deliver, queue
  <2>3. p \in Packets
    BY DEF TypeOK
  <2>4. /\ delivered' \in Seq(Packets) /\ Len(delivered') = Len(delivered) + 1
        /\ \A i \in 1 .. Len(delivered) : delivered'[i] = delivered[i]
    BY <2>1, <2>3 DEF TypeOK
  <2>5. TypeOK'
    BY <2>1, <2>2, <2>4 DEF TypeOK
  <2>6. HandedAsArrived'
    <3>1. Len(handed) = received /\ received \in 0 .. Len(delivered)
      BY DEF HandedAsArrived, TypeOK
    <3>2. ASSUME NEW i \in 1 .. Len(handed) PROVE handed[i] = delivered'[i]
      <4>1. i \in 1 .. Len(delivered) /\ handed[i] = delivered[i]
        BY <3>1, <3>2 DEF HandedAsArrived, TypeOK
      <4>. QED BY <2>4, <4>1
    <3>. QED BY <2>2, <3>1, <3>2 DEF HandedAsArrived
  <2>. QED BY <2>2, <2>5, <2>6
<1>2. CASE Begin
  <2>1. /\ pc = "idle" /\ pc' = "recvfrom" /\ queue_size > 0
        /\ qp' = queue_start /\ queue_size' = queue_size - 1
        /\ queue_start' = (queue_start + 1) % FRAGMENT_COUNT
        /\ UNCHANGED <<queue_end, fragments_queue, fragments_heap, fragment,
                       toSend, delivered, received, handed, failures>>
    BY <1>2 DEF Begin, queue_pop, network
  <2>2. queue_start' \in Slots /\ qp' \in Slots
    BY <2>1, SlotArithmetic DEF TypeOK
  <2>3. queue_size' \in 0 .. FRAGMENT_COUNT
    BY <2>1, BuffersAssumption DEF TypeOK
  <2>4. TypeOK'
    BY <2>1, <2>2, <2>3 DEF TypeOK
  <2>5. queue_size' + (IF pc' = "recvfrom" THEN 1 ELSE 0) + failures'
          = FRAGMENT_COUNT
    BY <2>1, BuffersAssumption DEF TypeOK
  <2>6. HandedAsArrived'
    BY <2>1 DEF HandedAsArrived
  <2>. QED BY <2>1, <2>4, <2>5, <2>6
<1>3. CASE Receive
  BY <1>3, ReceiveBuffers
<1>4. CASE ReceiveFails
  <2>1. /\ pc = "recvfrom" /\ pc' = "idle" /\ failures' = failures + 1
        /\ UNCHANGED <<queue_start, queue_end, queue_size, fragments_queue,
                       fragments_heap, fragment, qp, toSend, delivered,
                       received, handed>>
    BY <1>4 DEF ReceiveFails, queue, network
  <2>2. TypeOK'
    BY <2>1 DEF TypeOK
  <2>3. queue_size' + (IF pc' = "recvfrom" THEN 1 ELSE 0) + failures'
          = FRAGMENT_COUNT
    BY <2>1, BuffersAssumption DEF TypeOK
  <2>4. HandedAsArrived'
    BY <2>1 DEF HandedAsArrived
  <2>. QED BY <2>1, <2>2, <2>3, <2>4
<1>5. CASE UNCHANGED buffersVars
  BY <1>5 DEF buffersVars, queue, network, TypeOK, HandedAsArrived
<1>. QED BY <1>1, <1>2, <1>3, <1>4, <1>5 DEF BuffersNext, Idle

LEMMA BuffersInvariant == BuffersSpec => []BuffersInv
BY InitBuffers, NextBuffers, PTL DEF BuffersSpec

\* Every index stays inside its array.
THEOREM BuffersTyping == BuffersSpec => []TypeOK
<1>1. BuffersInv => TypeOK
  BY DEF BuffersInv
<1>. QED BY <1>1, BuffersInvariant, PTL

\* A slot is lost with every failure of recvfrom and in no other way.
THEOREM SlotsLostByFailures == BuffersSpec => []SlotsAccounted
<1>1. BuffersInv => SlotsAccounted
  <2> SUFFICES ASSUME BuffersInv PROVE SlotsAccounted
    OBVIOUS
  <2>1. Cardinality(fragments_heap) = 0
    BY FS_EmptySet DEF BuffersInv
  <2>. QED
    BY <2>1, BuffersAssumption DEF BuffersInv, TypeOK, SlotsAccounted
<1>. QED BY <1>1, BuffersInvariant, PTL

\* append gets every packet once, in the order of arrival.
THEOREM PacketsHandedAsArrived == BuffersSpec => []HandedAsArrived
<1>1. BuffersInv => HandedAsArrived
  BY DEF BuffersInv
<1>. QED BY <1>1, BuffersInvariant, PTL
=============================================================================
