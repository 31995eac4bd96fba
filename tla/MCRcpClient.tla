----------------------------- MODULE MCRcpClient -----------------------------
(***************************************************************************)
(* The modules about the life of a program, for TLC: a behaviour is one of *)
(* its threads, mutex and sockets (RcpSession), of the handlers that the   *)
(* message manager calls (RcpEvents) or of its registrations and streams   *)
(* at the devices (RcpAccess).                                             *)
(***************************************************************************)
EXTENDS RcpSession, RcpEvents, RcpAccess

VARIABLE part
clientVars == <<part, vars, eventsVars, accessVars>>

\* The parts that do not run stay in one of their initial states.
ClientInit ==
  /\ part \in {"session", "events", "access"}
  /\ Init /\ EventsInit /\ AccessInit
  /\ part # "session" => program = "stream"
  /\ part # "access" => place = CHOOSE d \in Places : TRUE

\* A step of the part p, which leaves the others alone.
InSession(A) ==
  part = "session" /\ A /\ UNCHANGED <<part, eventsVars, accessVars>>
InEvents(A) == part = "events" /\ A /\ UNCHANGED <<part, vars, accessVars>>
InAccess(A) == part = "access" /\ A /\ UNCHANGED <<part, vars, eventsVars>>

\* A program that is not a session may stop anywhere.
Rests == part # "session" /\ UNCHANGED clientVars

ClientNext ==
  InSession(Next) \/ InEvents(EventsNext) \/ InAccess(AccessNext) \/ Rests

\* The fairness of RcpSession (FairSpec) and of the message managers.
ClientSpec ==
  /\ ClientInit /\ [][ClientNext]_clientVars
  /\ WF_clientVars(InSession(MainSteps))
  /\ \A t \in Threads :
       /\ SF_clientVars(InSession(Lock(t)))
       /\ WF_clientVars(InSession(BeginSend(t)))
       /\ WF_clientVars(InSession(EndSend(t)))
       /\ WF_clientVars(InSession(Unlock(t)))
       /\ WF_clientVars(InSession(EndWait(t)))
  /\ WF_clientVars(InSession(AliveCancelled))
  /\ \A k \in Managers :
       /\ WF_clientVars(InEvents(Dispatch(k)))
       /\ WF_clientVars(InEvents(Ends(k)))
=============================================================================
