----------------------------- MODULE RcpCommand -----------------------------
(***************************************************************************)
(* The command engine of rcpcommand.c: several threads of one program call *)
(* rcp_command over one control connection, and one more thread, the       *)
(* message manager, receives what the device sends.                        *)
(*                                                                         *)
(* A command takes an identifier from a static counter (init_rcp_header),  *)
(* is sent under send_mutex (rcp_send) and then waits on the semaphore of  *)
(* its identifier (rcp_command).  The manager stores each incoming message *)
(* in response[identifier] and posts resp_available[identifier].  The      *)
(* caller reads the reply in place, through the pointer it gets.           *)
(*                                                                         *)
(* The device and the network are external: a request that was sent stays  *)
(* in `outstanding' until the manager receives the answer to it.  Answers  *)
(* come in any order, late, or never.  The device may also send messages   *)
(* that answer no request (alarms).                                        *)
(***************************************************************************)
EXTENDS Integers, FiniteSets

CONSTANTS
  Threads,      \* the threads that issue commands
  NoThread,     \* not a thread: the sender of an unsolicited message
  NumIds,       \* how many identifiers there are, 0x100 in the code
  EventIds,     \* the identifiers that unsolicited messages carry
  WaitMayFail,  \* may a wait end without a token: 10 s passed, or a signal
  MaxCmds,      \* bound: commands that one thread issues
  MaxEvents     \* bound: unsolicited messages that the device sends

Ids == 0 .. NumIds - 1

ASSUME CommandAssumption ==
  /\ IsFiniteSet(Threads) /\ NoThread \notin Threads
  /\ NumIds \in Nat /\ NumIds > 1
  /\ EventIds \subseteq Ids
  /\ WaitMayFail \in BOOLEAN
  /\ MaxCmds \in Nat
  /\ MaxEvents \in Nat

VARIABLES
  counter,      \* static int request_id of init_rcp_header, modulo NumIds
  pc,           \* pc[t]: where thread t is
  reg,          \* reg[t]: the value that ++request_id loaded
  id,           \* id[t]: hdr->request_id of the current command of t
  issued,       \* issued[t]: how many commands t has issued
  mutex,        \* the owner of send_mutex, or NoThread
  outstanding,  \* requests sent, whose answer was not received
  sem,          \* sem[i]: the value of resp_available[i]
  slot,         \* slot[i]: response[i], the message its header is of and the
                \*          message its payload is of
  mgr,          \* where the message manager is
  msg,          \* the message in the buffer of rcp_recv
  events,       \* how many unsolicited messages were received
  \* History: these record what the code forgets; no guard reads them.
  answered,     \* the commands whose answer was received
  surplus,      \* surplus[i]: tokens of i, posted or due, that no wait is for
  clean         \* clean[t]: the identifier of t is free of other uses

callVars == <<counter, pc, reg, id, issued, mutex>>
netVars  == <<outstanding, events>>
mgrVars  == <<mgr, msg, slot>>
histVars == <<answered, surplus, clean>>
vars     == <<callVars, netVars, mgrVars, sem, histVars>>

Command == [thr : Threads, seq : 0..MaxCmds]
Request == [thr : Threads, seq : 0..MaxCmds, id : Ids]

\* A message: the request that it answers, its identifier and its action.
Event(i) == [thr |-> NoThread, seq |-> 0, id |-> i, action |-> "MESSAGE"]
Answer(r, a) == [thr |-> r.thr, seq |-> r.seq, id |-> r.id, action |-> a]
Answers  == [thr : Threads, seq : 0..MaxCmds, id : Ids,
             action : {"REPLY", "ERROR"}]

\* response[] is zeroed memory at first: action 0 is REQUEST.
Blank    == [thr |-> NoThread, seq |-> 0, id |-> 0, action |-> "REQUEST"]
Message  == Answers \cup {Event(i) : i \in Ids} \cup {Blank}

MyCommand(t) == [thr |-> t, seq |-> issued[t]]
MyRequest(t) == [thr |-> t, seq |-> issued[t], id |-> id[t]]
OfCommand(m, t) == m.thr = t /\ m.seq = issued[t] /\ m.id = id[t]

\* The identifier of t is in use: assigned, and the caller is not done yet.
InUse(t) == pc[t] \in {"ready", "sending", "unlock", "unlockErr", "wait",
                       "check", "done"}

\* The manager holds a message with identifier i that it has not posted.
Handling(i) == mgr \in {"header", "payload", "post"} /\ msg.id = i

\* Nothing is left of earlier uses of i.
Quiet(i) ==
  /\ sem[i] = 0
  /\ ~ Handling(i)
  /\ \A r \in outstanding : r.id # i

-----------------------------------------------------------------------------
TypeOK ==
  /\ counter \in Ids
  /\ pc \in [Threads -> {"idle", "load", "store", "ready", "sending", "unlock",
                         "unlockErr", "wait", "check", "done", "null"}]
  /\ reg \in [Threads -> Ids]
  /\ id \in [Threads -> Ids]
  /\ issued \in [Threads -> 0..MaxCmds]
  /\ mutex \in Threads \cup {NoThread}
  /\ outstanding \subseteq Request
  /\ sem \in [Ids -> Nat]
  /\ slot \in [Ids -> [hdr : Message, pay : Message]]
  /\ mgr \in {"recv", "header", "payload", "post", "event"}
  /\ msg \in Message
  /\ events \in 0..MaxEvents
  /\ answered \subseteq Command
  /\ surplus \in [Ids -> Nat]
  /\ clean \in [Threads -> BOOLEAN]

Init ==
  /\ counter = 1
  /\ pc = [t \in Threads |-> "idle"]
  /\ reg = [t \in Threads |-> 0]
  /\ id = [t \in Threads |-> 0]
  /\ issued = [t \in Threads |-> 0]
  /\ mutex = NoThread
  /\ outstanding = {}
  /\ sem = [i \in Ids |-> 0]
  /\ slot = [i \in Ids |-> [hdr |-> Blank, pay |-> Blank]]
  /\ mgr = "recv"
  /\ msg = Blank
  /\ events = 0
  /\ answered = {}
  /\ surplus = [i \in Ids |-> 0]
  /\ clean = [t \in Threads |-> FALSE]

-----------------------------------------------------------------------------
Goto(t, from, to) == pc[t] = from /\ pc' = [pc EXCEPT ![t] = to]

(***************************************************************************)
(* Mutants: the code with a plausible bug.  No run uses them as they are;  *)
(* each, put in the place of the action it is named after, breaks a        *)
(* property of the run it belongs to.                                      *)
(***************************************************************************)
\* The identifier is not reduced modulo the number of slots.
StoreCounterNoWrap(t) ==
  /\ Goto(t, "load", "store")
  /\ counter' = reg[t] + 1
  /\ UNCHANGED <<reg, id, issued, mutex, netVars, mgrVars, sem, histVars>>

\* The mutex is not taken before send().
LockMutexUnguarded(t) ==
  /\ Goto(t, "ready", "sending")
  /\ mutex' = t
  /\ UNCHANGED <<counter, reg, id, issued, netVars, mgrVars, sem, histVars>>

\* The result of send() is not looked at: the caller waits all the same.
UnlockMutexIgnoresError(t) ==
  /\ Goto(t, "unlock", "wait") \/ Goto(t, "unlockErr", "wait")
  /\ mutex' = NoThread
  /\ UNCHANGED <<counter, reg, id, issued, netVars, mgrVars, sem, histVars>>

\* The result of the wait is not looked at.
TakeTokenUnchecked(t) ==
  /\ Goto(t, "wait", "check")
  /\ sem' = [sem EXCEPT ![id[t]] = IF @ > 0 THEN @ - 1 ELSE 0]
  /\ UNCHANGED <<counter, reg, id, issued, mutex, netVars, mgrVars, histVars>>

\* sem_wait in the place of sem_timedwait: the wait has no limit.
GiveUpNever(t) == FALSE /\ UNCHANGED vars /\ t \in Threads

\* The token is posted before the payload is stored.
WriteHeaderPosts ==
  /\ mgr = "header"
  /\ mgr' = "payload"
  /\ slot' = [slot EXCEPT ![msg.id].hdr = msg]
  /\ sem' = [sem EXCEPT ![msg.id] = @ + 1]
  /\ UNCHANGED <<callVars, netVars, msg, histVars>>

-----------------------------------------------------------------------------
(***************************************************************************)
(* init_rcp_header.  At -O0 `++request_id % 0x100' is a load, a store and  *)
(* a second load, and nothing orders the threads between them.             *)
(***************************************************************************)
LoadCounter(t) ==
  /\ Goto(t, "idle", "load")
  /\ issued[t] < MaxCmds
  /\ issued' = [issued EXCEPT ![t] = @ + 1]
  /\ reg' = [reg EXCEPT ![t] = counter]
  /\ UNCHANGED <<counter, id, mutex, netVars, mgrVars, sem, histVars>>

StoreCounter(t) ==
  /\ Goto(t, "load", "store")
  /\ counter' = (reg[t] + 1) % NumIds
  /\ UNCHANGED <<reg, id, issued, mutex, netVars, mgrVars, sem, histVars>>

\* The command is clean if nothing uses its identifier or is left of it; and
\* a command of another thread with the same identifier is clean no more.
TakeId(t) ==
  /\ Goto(t, "store", "ready")
  /\ id' = [id EXCEPT ![t] = counter]
  /\ LET others == {u \in Threads \ {t} : InUse(u) /\ id[u] = counter}
     IN  clean' = [u \in Threads |->
                     IF u = t THEN Quiet(counter) /\ others = {}
                     ELSE clean[u] /\ u \notin others]
  /\ UNCHANGED <<counter, reg, issued, mutex, netVars, mgrVars, sem,
                 answered, surplus>>

-----------------------------------------------------------------------------
(***************************************************************************)
(* rcp_send.  send() may block half way, so it has a beginning and an end. *)
(***************************************************************************)
LockMutex(t) ==
  /\ Goto(t, "ready", "sending")
  /\ mutex = NoThread
  /\ mutex' = t
  /\ UNCHANGED <<counter, reg, id, issued, netVars, mgrVars, sem, histVars>>

SendOk(t) ==
  /\ Goto(t, "sending", "unlock")
  /\ outstanding' = outstanding \cup {MyRequest(t)}
  /\ UNCHANGED <<counter, reg, id, issued, mutex, events, mgrVars, sem,
                 histVars>>

SendFails(t) ==
  /\ Goto(t, "sending", "unlockErr")
  /\ UNCHANGED <<counter, reg, id, issued, mutex, netVars, mgrVars, sem,
                 histVars>>

UnlockMutex(t) ==
  /\ Goto(t, "unlock", "wait") \/ Goto(t, "unlockErr", "null")
  /\ mutex' = NoThread
  /\ UNCHANGED <<counter, reg, id, issued, netVars, mgrVars, sem, histVars>>

-----------------------------------------------------------------------------
(***************************************************************************)
(* The rest of rcp_command.                                                *)
(***************************************************************************)
TakeToken(t) ==
  /\ Goto(t, "wait", "check")
  /\ sem[id[t]] > 0
  /\ sem' = [sem EXCEPT ![id[t]] = @ - 1]
  /\ UNCHANGED <<counter, reg, id, issued, mutex, netVars, mgrVars, histVars>>

\* sem_timedwait fails only while there is no token.  The caller gets NULL;
\* the answer, when it comes, is for nobody.
GiveUp(t) ==
  /\ WaitMayFail
  /\ Goto(t, "wait", "null")
  /\ sem[id[t]] = 0
  /\ surplus' = [surplus EXCEPT ![id[t]] = @ + 1]
  /\ UNCHANGED <<counter, reg, id, issued, mutex, netVars, mgrVars, sem,
                 answered, clean>>

CheckAction(t) ==
  /\ \/ Goto(t, "check", "null") /\ slot[id[t]].hdr.action = "ERROR"
     \/ Goto(t, "check", "done") /\ slot[id[t]].hdr.action # "ERROR"
  /\ UNCHANGED <<counter, reg, id, issued, mutex, netVars, mgrVars, sem,
                 histVars>>

\* In "done" the caller reads the reply through the pointer, as often as it
\* likes; then, or after a NULL, it may issue its next command.
Finish(t) ==
  /\ Goto(t, "done", "idle") \/ Goto(t, "null", "idle")
  /\ UNCHANGED <<counter, reg, id, issued, mutex, netVars, mgrVars, sem,
                 histVars>>

-----------------------------------------------------------------------------
(***************************************************************************)
(* message_manager_rutine and rcp_recv.                                    *)
(***************************************************************************)
ReceiveAnswer(r, a) ==
  /\ mgr = "recv"
  /\ mgr' = "header"
  /\ msg' = Answer(r, a)
  /\ outstanding' = outstanding \ {r}
  /\ answered' = answered \cup {[thr |-> r.thr, seq |-> r.seq]}
  /\ UNCHANGED <<callVars, events, slot, sem, surplus, clean>>

ReceiveEvent(i) ==
  /\ mgr = "recv"
  /\ events < MaxEvents
  /\ events' = events + 1
  /\ mgr' = "header"
  /\ msg' = Event(i)
  /\ surplus' = [surplus EXCEPT ![i] = @ + 1]
  /\ clean' = [t \in Threads |-> clean[t] /\ ~ (InUse(t) /\ id[t] = i)]
  /\ UNCHANGED <<callVars, outstanding, slot, sem, answered>>

WriteHeader ==
  /\ mgr = "header"
  /\ mgr' = "payload"
  /\ slot' = [slot EXCEPT ![msg.id].hdr = msg]
  /\ UNCHANGED <<callVars, netVars, msg, sem, histVars>>

WritePayload ==
  /\ mgr = "payload"
  /\ mgr' = "post"
  /\ slot' = [slot EXCEPT ![msg.id].pay = msg]
  /\ UNCHANGED <<callVars, netVars, msg, sem, histVars>>

PostToken ==
  /\ mgr = "post"
  /\ mgr' = "event"
  /\ sem' = [sem EXCEPT ![msg.id] = @ + 1]
  /\ UNCHANGED <<callVars, netVars, msg, slot, histVars>>

\* A registered handler, if there is one for the tag, reads the slot; the
\* manager receives nothing while it runs.
RunHandler ==
  /\ mgr = "event"
  /\ mgr' = "recv"
  /\ UNCHANGED <<callVars, netVars, msg, slot, sem, histVars>>

-----------------------------------------------------------------------------
InitHeader(t) == LoadCounter(t) \/ StoreCounter(t) \/ TakeId(t)
RcpSend(t) == LockMutex(t) \/ SendOk(t) \/ SendFails(t) \/ UnlockMutex(t)
Await(t) == TakeToken(t) \/ GiveUp(t)

Receive ==
  \/ \E r \in outstanding, a \in {"REPLY", "ERROR"} : ReceiveAnswer(r, a)
  \/ \E i \in EventIds : ReceiveEvent(i)
Deliver == WriteHeader \/ WritePayload \/ PostToken \/ RunHandler

\* Every thread has issued its commands and is done with them.
Finished ==
  /\ \A t \in Threads : pc[t] = "idle" /\ issued[t] = MaxCmds
  /\ UNCHANGED vars

Next ==
  \/ \E t \in Threads :
       InitHeader(t) \/ RcpSend(t) \/ Await(t) \/ CheckAction(t) \/ Finish(t)
  \/ Receive
  \/ Deliver
  \/ Finished

Spec == Init /\ [][Next]_vars

(***************************************************************************)
(* Fairness.  A thread that can take a step of a command it has started    *)
(* takes it; that a send ends assumes that the device keeps reading.       *)
(* Nothing obliges a thread to start a command.  NetFairness: the device   *)
(* answers what it was sent, and the manager is scheduled.                 *)
(***************************************************************************)
ThreadFairness ==
  \A t \in Threads :
    /\ WF_vars(StoreCounter(t)) /\ WF_vars(TakeId(t))
    /\ WF_vars(RcpSend(t)) /\ WF_vars(Await(t))
    /\ WF_vars(CheckAction(t)) /\ WF_vars(Finish(t))

NetFairness == WF_vars(Receive) /\ WF_vars(Deliver)

ThreadSpec == Spec /\ ThreadFairness
FairSpec   == ThreadSpec /\ NetFairness

-----------------------------------------------------------------------------
\* Packets are never mixed on the wire: at most one thread is inside send()
\* (rcp_send, the mutex around the call).
OneSender ==
  \A t, u \in Threads : pc[t] = "sending" /\ pc[u] = "sending" => t = u

Pending(i) == {r \in outstanding : r.id = i}
Waiting(i) == {t \in Threads : pc[t] \in {"unlock", "wait"} /\ id[t] = i}

\* For each identifier, the tokens that are posted or due are those that some
\* thread still waits for, and the surplus.  Nothing ever takes the surplus
\* back: after one abandoned wait or one unsolicited message the identifier
\* stays ahead of its commands (rcp_command, message_manager_rutine).
TokenBalance ==
  \A i \in Ids :
    sem[i] + Cardinality(Pending(i)) + (IF Handling(i) THEN 1 ELSE 0)
      = Cardinality(Waiting(i)) + surplus[i]

\* The reply that t reads, header and payload, answers the command of t.
OwnReply(t) ==
  /\ OfCommand(slot[id[t]].hdr, t)
  /\ OfCommand(slot[id[t]].pay, t)

\* A command whose identifier nothing else uses, from its first use of the
\* identifier until the caller is done, gets the answer to itself, whole, and
\* keeps it: whatever the other identifiers go through, and however late
\* answers are (rcp_command returns a pointer into response[]).
CleanReply == \A t \in Threads : clean[t] /\ pc[t] = "done" => OwnReply(t)

\* Why CleanReply holds: where the answer to a clean command is.  Before the
\* request is sent there is no trace of the identifier; then the only trace is
\* the request at the device, or the answer in the manager, or the stored
\* answer with its one token; then there is the stored answer alone.
AtDevice(t) ==
  /\ MyRequest(t) \in outstanding
  /\ \A r \in outstanding : r.id = id[t] => r = MyRequest(t)
  /\ sem[id[t]] = 0
  /\ ~ Handling(id[t])

InManager(t) ==
  /\ Handling(id[t])
  /\ OfCommand(msg, t)
  /\ \A r \in outstanding : r.id # id[t]
  /\ sem[id[t]] = 0
  /\ mgr \in {"payload", "post"} => OfCommand(slot[id[t]].hdr, t)
  /\ mgr = "post" => OfCommand(slot[id[t]].pay, t)

Stored(t) ==
  /\ OwnReply(t)
  /\ sem[id[t]] = 1
  /\ ~ Handling(id[t])
  /\ \A r \in outstanding : r.id # id[t]

Isolated(t) ==
  /\ \A u \in Threads \ {t} : InUse(u) => id[u] # id[t]
  /\ pc[t] \in {"ready", "sending", "unlockErr"} => Quiet(id[t])
  /\ pc[t] \in {"unlock", "wait"} => AtDevice(t) \/ InManager(t) \/ Stored(t)
  /\ pc[t] \in {"check", "done"} => Quiet(id[t]) /\ OwnReply(t)

\* The inductive form of CleanReply.
Isolation == \A t \in Threads : clean[t] /\ InUse(t) => Isolated(t)

\* Every reply that is returned answers the command it is returned for.
ReplyMatches == \A t \in Threads : pc[t] = "done" => OwnReply(t)

\* Every command that is started returns: no thread stays behind the mutex or
\* in a wait that nobody ends (rcp_command and its 10 second limit).
CommandReturns ==
  \A t \in Threads : pc[t] = "load" ~> pc[t] \in {"done", "null"}

\* The engine implements RcpService: what is returned to a caller is the
\* device's answer to the caller's own command, or NULL, and each call returns.
Phase(t) == CASE pc[t] = "idle" -> "idle"
              [] pc[t] = "done" -> "reply"
              [] pc[t] = "null" -> "null"
              [] OTHER          -> "called"

Service == INSTANCE RcpService WITH
  phase <- [t \in Threads |-> Phase(t)],
  reply <- [t \in Threads |->
              IF pc[t] = "done"
              THEN LET m == slot[id[t]].pay IN [thr |-> m.thr, seq |-> m.seq]
              ELSE [thr |-> "none", seq |-> 0]]

ImplementsService == Service!LiveSpec
=============================================================================
