----------------------------- MODULE RcpService -----------------------------
(***************************************************************************)
(* What a caller of rcp_command may rely on, with no wire, no request      *)
(* identifiers, no semaphores and no shared response slots.                *)
(*                                                                         *)
(* A thread issues one command at a time.  The device may answer a command *)
(* it was sent, at most once.  A command returns either NULL or a reply,   *)
(* and a reply that is returned is the device's answer to that very        *)
(* command; it stays readable until the thread is done with it.            *)
(*                                                                         *)
(* RcpCommand is the detailed specification: it implements this one only   *)
(* under the conditions that the README lists.                             *)
(***************************************************************************)
EXTENDS Naturals

CONSTANTS Threads,   \* the threads of the program that issue commands
          MaxCmds    \* bound: commands that one thread issues

VARIABLES phase,     \* phase[t]: how far the current command of t is
          issued,    \* issued[t]: number of commands t has issued
          answered,  \* the commands the device has answered
          reply      \* reply[t]: the command whose answer t is reading

vars == <<phase, issued, answered, reply>>

\* A command is named by its thread and its number in that thread.
Command == [thr : Threads, seq : 1..MaxCmds]
NoReply == [thr |-> "none", seq |-> 0]

Current(t) == [thr |-> t, seq |-> issued[t]]

TypeOK ==
  /\ phase \in [Threads -> {"idle", "called", "reply", "null"}]
  /\ issued \in [Threads -> 0..MaxCmds]
  /\ answered \subseteq Command
  /\ reply \in [Threads -> Command \cup {NoReply}]

Init ==
  /\ phase = [t \in Threads |-> "idle"]
  /\ issued = [t \in Threads |-> 0]
  /\ answered = {}
  /\ reply = [t \in Threads |-> NoReply]

Call(t) ==
  /\ phase[t] = "idle"
  /\ issued[t] < MaxCmds
  /\ phase' = [phase EXCEPT ![t] = "called"]
  /\ issued' = [issued EXCEPT ![t] = @ + 1]
  /\ UNCHANGED <<answered, reply>>

\* The device answers each command at most once, at any time after the call:
\* possibly after the caller has given up.
Answer(c) ==
  /\ c.seq <= issued[c.thr]
  /\ c \notin answered
  /\ answered' = answered \cup {c}
  /\ UNCHANGED <<phase, issued, reply>>

ReturnReply(t) ==
  /\ phase[t] = "called"
  /\ Current(t) \in answered
  /\ phase' = [phase EXCEPT ![t] = "reply"]
  /\ reply' = [reply EXCEPT ![t] = Current(t)]
  /\ UNCHANGED <<issued, answered>>

\* A send that failed, a wait that ended without an answer, an answer that is
\* an error: the caller gets NULL in each of these cases.
ReturnNull(t) ==
  /\ phase[t] = "called"
  /\ phase' = [phase EXCEPT ![t] = "null"]
  /\ UNCHANGED <<issued, answered, reply>>

Finish(t) ==
  /\ phase[t] \in {"reply", "null"}
  /\ phase' = [phase EXCEPT ![t] = "idle"]
  /\ reply' = [reply EXCEPT ![t] = NoReply]
  /\ UNCHANGED <<issued, answered>>

Next ==
  \/ \E t \in Threads : Call(t) \/ ReturnReply(t) \/ ReturnNull(t) \/ Finish(t)
  \/ \E c \in Command : Answer(c)

Spec == Init /\ [][Next]_vars

\* Each call returns in the end, with an answer or with NULL (rcp_command).
Returns ==
  \A t \in Threads : phase[t] = "called" ~> phase[t] \in {"reply", "null"}

LiveSpec == Spec /\ Returns
=============================================================================
