------------------------------ MODULE MCStreams ------------------------------
(***************************************************************************)
(* What comes in through a socket, for TLC: a behaviour is one of the      *)
(* octets that rcp_recv cuts into packets (RcpFraming), of the buffers     *)
(* that RTP packets pass through (RtpBuffers) or of the H.263 frames that  *)
(* are made of them (RtpH263).                                             *)
(***************************************************************************)
EXTENDS RcpFraming, RtpBuffers, RtpH263

VARIABLE stream
streamVars == <<stream, framingVars, buffersVars, vars>>

\* The parts that do not run stay in their initial states.
StreamsInit ==
  /\ stream \in {"framing", "buffers", "h263"}
  /\ FramingInit /\ BuffersInit /\ Init

\* A step of one part, which leaves the others alone.
InFraming(A) ==
  stream = "framing" /\ A /\ UNCHANGED <<stream, buffersVars, vars>>
InBuffers(A) ==
  stream = "buffers" /\ A /\ UNCHANGED <<stream, framingVars, vars>>
InH263(A) ==
  stream = "h263" /\ A /\ UNCHANGED <<stream, framingVars, buffersVars>>

StreamsNext == InFraming(FramingNext) \/ InBuffers(BuffersNext) \/ InH263(Next)

\* The fairness of each part (FairFraming, FairBuffers).
StreamsSpec ==
  /\ StreamsInit /\ [][StreamsNext]_streamVars
  /\ WF_streamVars(InFraming(Arrive)) /\ WF_streamVars(InFraming(RecvHeader))
  /\ WF_streamVars(InFraming(RecvBody))
  /\ WF_streamVars(InFraming(ReturnPacket))
  /\ WF_streamVars(InBuffers(Deliver)) /\ WF_streamVars(InBuffers(Begin))
  /\ WF_streamVars(InBuffers(Receive))
=============================================================================
