----------------------------- MODULE RtpBuffers -----------------------------
(***************************************************************************)
(* The fragment buffers of rtp_recv: a ring of free slots                  *)
(* (fragments_queue), a heap that orders what was received                 *)
(* (fragments_heap) and the slots themselves (fragment).                   *)
(*                                                                         *)
(* A call takes a slot, blocks in recvfrom, pushes the slot on the heap,   *)
(* pops the first one in the order of the sequence numbers, gives it back  *)
(* to the ring and hands it to append.  The call has two steps here, one   *)
(* on each side of recvfrom.  The caller retries a failed call, as the     *)
(* loops of the examples do.                                               *)
(*                                                                         *)
(* The heap is the set of the slots in it; heap_pop takes the least.  The  *)
(* sequence numbers do not wrap here.                                      *)
(***************************************************************************)
EXTENDS Integers, Sequences, FiniteSets

CONSTANTS FRAGMENT_COUNT,
          MaxRtpPackets,  \* bound: packets the device sends
          MaxFailures,    \* bound: failures of recvfrom
          Reorders        \* the network may change the order of packets

ASSUME BuffersAssumption ==
  /\ FRAGMENT_COUNT \in Nat \ {0}
  /\ MaxRtpPackets \in Nat /\ MaxFailures \in Nat /\ Reorders \in BOOLEAN

Slots   == 0 .. FRAGMENT_COUNT - 1
Packets == 1 .. MaxRtpPackets
NoPacket == 0    \* what a slot holds before its first packet

VARIABLES pc,               \* "idle", "recvfrom"
          queue_start, queue_end, queue_size,
          fragments_queue,  \* written by queue_push, read by nobody
          fragments_heap,
          fragment,         \* the packet in each slot
          qp,               \* the slot of the call in progress
          toSend,           \* packets still to be sent
          delivered,        \* packets in the order in which they arrived
          received,         \* how many of them recvfrom has returned
          handed,           \* packets given to append
          failures          \* calls whose recvfrom failed

queue == <<queue_start, queue_end, queue_size, fragments_queue>>
network == <<toSend, delivered>>
buffersVars == <<pc, queue, fragments_heap, fragment, qp, network, received,
                 handed, failures>>

TypeOK ==
  /\ pc \in {"idle", "recvfrom"}
  /\ queue_start \in Slots /\ queue_end \in Slots
  /\ queue_size \in 0 .. FRAGMENT_COUNT
  /\ fragments_queue \in [Slots -> Slots]
  /\ fragments_heap \subseteq Slots
  /\ fragment \in [Slots -> Packets \union {NoPacket}]
  /\ qp \in Slots
  /\ toSend \subseteq Packets
  /\ delivered \in Seq(Packets) /\ received \in 0 .. Len(delivered)
  /\ handed \in Seq(Packets \union {NoPacket})
  /\ failures \in Nat

\* rtp_init: queue_end is not queue_start, although the ring is full.
BuffersInit ==
  /\ pc = "idle"
  /\ queue_start = 0 /\ queue_end = FRAGMENT_COUNT - 1
  /\ queue_size = FRAGMENT_COUNT
  /\ fragments_queue = [i \in Slots |-> i]
  /\ fragments_heap = {}
  /\ fragment = [i \in Slots |-> NoPacket]
  /\ qp = 0
  /\ toSend = Packets /\ delivered = <<>> /\ received = 0
  /\ handed = <<>> /\ failures = 0

-----------------------------------------------------------------------------
\* The device sends in the order of the sequence numbers.
Deliver ==
  /\ \E p \in toSend :
       /\ Reorders \/ \A q \in toSend : p <= q
       /\ toSend' = toSend \ {p}
       /\ delivered' = Append(delivered, p)
  /\ UNCHANGED <<pc, queue, fragments_heap, fragment, qp, received, handed,
                 failures>>

\* It returns the index in the ring, not the slot stored there.
queue_pop ==
  /\ qp' = queue_start
  /\ queue_start' = (queue_start + 1) % FRAGMENT_COUNT
  /\ queue_size' = queue_size - 1
  /\ UNCHANGED <<queue_end, fragments_queue>>

\* Mutant: the count is not restored.
queue_pushUncounted(x) ==
  /\ fragments_queue' = [fragments_queue EXCEPT ![queue_end] = x]
  /\ queue_end' = (queue_end + 1) % FRAGMENT_COUNT
  /\ UNCHANGED <<queue_start, queue_size>>

queue_push(x) ==
  /\ fragments_queue' = [fragments_queue EXCEPT ![queue_end] = x]
  /\ queue_size' = queue_size + 1
  /\ queue_end' = (queue_end + 1) % FRAGMENT_COUNT
  /\ UNCHANGED queue_start

\* The slot that seq_cmp puts before all the others of the heap h.
First(h, f) == CHOOSE x \in h : \A y \in h : f[x] <= f[y]

\* Mutant: the slot stays in the heap.
heap_popKeeps(h, x) == h

\* What heap_pop leaves when it returns x.
heap_pop(h, x) == h \ {x}

\* The first half of rtp_recv.  With no slot left it returns -1 at once.
Begin ==
  /\ pc = "idle" /\ queue_size > 0
  /\ queue_pop
  /\ pc' = "recvfrom"
  /\ UNCHANGED <<fragments_heap, fragment, network, received, handed,
                 failures>>

\* recvfrom returned a packet: through the heap to append.  heap_push finds
\* room, heap_pop an element and queue_push room (SlotsAccounted).
Receive ==
  /\ pc = "recvfrom" /\ received < Len(delivered)
  /\ received' = received + 1
  /\ fragment' = [fragment EXCEPT ![qp] = delivered[received + 1]]
  /\ LET h  == fragments_heap \union {qp}
         hp == First(h, fragment')
     IN  /\ fragments_heap' = heap_pop(h, hp)
         /\ queue_push(hp)
         /\ handed' = Append(handed, fragment'[hp])
  /\ pc' = "idle"
  /\ UNCHANGED <<qp, network, failures>>

\* recvfrom failed or timed out (the socket has a timeout of ten seconds): the
\* call returns -1 and the slot that it took is not given back.
ReceiveFails ==
  /\ pc = "recvfrom" /\ failures < MaxFailures
  /\ pc' = "idle"
  /\ failures' = failures + 1
  /\ UNCHANGED <<queue, fragments_heap, fragment, qp, network, received,
                 handed>>

\* No packet will come, or no call can take a slot any more.
Idle ==
  /\ \/ pc = "recvfrom" /\ toSend = {} /\ received = Len(delivered)
     \/ pc = "idle" /\ queue_size = 0
  /\ UNCHANGED buffersVars

BuffersNext == Deliver \/ Begin \/ Receive \/ ReceiveFails \/ Idle

BuffersSpec == BuffersInit /\ [][BuffersNext]_buffersVars

\* The device sends and the receiving loop runs.
FairBuffers ==
  BuffersSpec /\ WF_buffersVars(Deliver) /\ WF_buffersVars(Begin)
              /\ WF_buffersVars(Receive)

-----------------------------------------------------------------------------
\* A slot is lost with every call whose recvfrom fails, and in no other way:
\* the ring and the heap lose none and make none (queue_pop, queue_push,
\* rtp_recv).
SlotsAccounted ==
  queue_size + (IF pc = "recvfrom" THEN 1 ELSE 0)
             + Cardinality(fragments_heap) + failures = FRAGMENT_COUNT

\* append gets every packet once, in the order of arrival: the slot that comes
\* out of the heap is the one just received, never an old one or one that
\* recvfrom may overwrite (rtp_recv).
HandedAsArrived ==
  /\ Len(handed) = received
  /\ \A i \in 1 .. Len(handed) : handed[i] = delivered[i]

\* Every packet that arrives is handed on, also after a call has failed: the
\* loops around rtp_recv try again (test_h264_udp.c:93).  That is so as long as
\* fewer calls fail than there are slots.
KeepsReceiving == \A k \in Packets : Len(delivered) >= k ~> Len(handed) >= k
=============================================================================
