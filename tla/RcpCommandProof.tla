-------------------------- MODULE RcpCommandProof --------------------------
(***************************************************************************)
(* Theorems about RcpCommand, for every set of threads, every number of    *)
(* identifiers and every choice of the other constants.  The last two say  *)
(* when it implements RcpService.                                          *)
(***************************************************************************)
EXTENDS RcpCommand, FiniteSetTheorems, TLAPS

USE CommandAssumption

-----------------------------------------------------------------------------
(***************************************************************************)
(* Messages.                                                               *)
(***************************************************************************)
\* The identifier of every message indexes response[] and resp_available[].
LEMMA MessageId == \A m \in Message : m.id \in Ids
  BY DEF Message, Answers, Event, Blank, Ids

\* What the manager can receive, and zeroed memory, are messages.
LEMMA MessageTypes ==
  /\ Blank \in Message
  /\ \A i \in Ids : Event(i) \in Message
  /\ \A r \in Request, a \in {"REPLY", "ERROR"} : Answer(r, a) \in Message
  BY DEF Message, Answers, Request, Event, Blank, Answer, Ids

\* The counter stays an identifier, and the first identifiers exist.
LEMMA IdArithmetic ==
  /\ 0 \in Ids /\ 1 \in Ids
  /\ \A c \in Ids : (c + 1) % NumIds \in Ids
  BY DEF Ids

-----------------------------------------------------------------------------
(***************************************************************************)
(* Type correctness.                                                       *)
(***************************************************************************)
\* Every variable keeps its type: in particular no index leaves response[]
\* and resp_available[], and no semaphore falls below zero.
THEOREM Typing == Spec => []TypeOK
<1>1. Init => TypeOK
  BY MessageTypes, IdArithmetic DEF Init, TypeOK
<1>2. TypeOK /\ [Next]_vars => TypeOK'
  <2> SUFFICES ASSUME TypeOK, [Next]_vars PROVE TypeOK'
    OBVIOUS
  <2> USE DEF TypeOK, callVars, netVars, mgrVars, histVars, Goto
  <2>1. ASSUME NEW t \in Threads, InitHeader(t) PROVE TypeOK'
    <3>1. CASE LoadCounter(t)  BY <3>1 DEF LoadCounter
    <3>2. CASE StoreCounter(t) BY <3>2, IdArithmetic DEF StoreCounter
    <3>3. CASE TakeId(t)
      <4>1. clean' \in [Threads -> BOOLEAN]
        BY <3>3 DEF TakeId, Quiet, InUse
      <4> QED BY <3>3, <4>1 DEF TakeId
    <3> QED BY <2>1, <3>1, <3>2, <3>3 DEF InitHeader
  <2>2. ASSUME NEW t \in Threads, RcpSend(t) PROVE TypeOK'
    <3>1. CASE LockMutex(t)   BY <3>1 DEF LockMutex
    <3>2. CASE SendOk(t)
      <4>1. MyRequest(t) \in Request
        BY DEF MyRequest, Request
      <4> QED BY <3>2, <4>1 DEF SendOk
    <3>3. CASE SendFails(t)   BY <3>3 DEF SendFails
    <3>4. CASE UnlockMutex(t) BY <3>4 DEF UnlockMutex
    <3> QED BY <2>2, <3>1, <3>2, <3>3, <3>4 DEF RcpSend
  <2>3. ASSUME NEW t \in Threads, Await(t) PROVE TypeOK'
    <3>1. CASE TakeToken(t) BY <3>1 DEF TakeToken
    <3>2. CASE GiveUp(t)    BY <3>2 DEF GiveUp
    <3> QED BY <2>3, <3>1, <3>2 DEF Await
  <2>4. ASSUME NEW t \in Threads, CheckAction(t) PROVE TypeOK'
    BY <2>4 DEF CheckAction
  <2>5. ASSUME NEW t \in Threads, Finish(t) PROVE TypeOK'
    BY <2>5 DEF Finish
  <2>6. CASE Receive
    <3>1. ASSUME NEW r \in outstanding, NEW a \in {"REPLY", "ERROR"},
                 ReceiveAnswer(r, a)
          PROVE  TypeOK'
      <4>1. r \in Request /\ [thr |-> r.thr, seq |-> r.seq] \in Command
        BY DEF Request, Command
      <4> QED BY <3>1, <4>1, MessageTypes DEF ReceiveAnswer
    <3>2. ASSUME NEW i \in EventIds, ReceiveEvent(i) PROVE TypeOK'
      <4>1. i \in Ids
        OBVIOUS
      <4>2. clean' \in [Threads -> BOOLEAN]
        BY <3>2 DEF ReceiveEvent, InUse
      <4> QED BY <3>2, <4>1, <4>2, MessageTypes DEF ReceiveEvent
    <3> QED BY <2>6, <3>1, <3>2 DEF Receive
  <2>7. CASE Deliver
    <3>1. CASE WriteHeader  BY <3>1, MessageId DEF WriteHeader
    <3>2. CASE WritePayload BY <3>2, MessageId DEF WritePayload
    <3>3. CASE PostToken    BY <3>3, MessageId DEF PostToken
    <3>4. CASE RunHandler   BY <3>4 DEF RunHandler
    <3> QED BY <2>7, <3>1, <3>2, <3>3, <3>4 DEF Deliver
  <2>8. CASE Finished    BY <2>8 DEF Finished, vars
  <2>9. CASE UNCHANGED vars BY <2>9 DEF vars
  <2> QED BY <2>1, <2>2, <2>3, <2>4, <2>5, <2>6, <2>7, <2>8, <2>9 DEF Next
<1> QED BY <1>1, <1>2, PTL DEF Spec

-----------------------------------------------------------------------------
(***************************************************************************)
(* Mutual exclusion around send().                                         *)
(***************************************************************************)
\* The inductive form of OneSender: the mutex names its owner, and exactly the
\* owner is between lock and unlock.
MutexInv ==
  \A t \in Threads :
    pc[t] \in {"sending", "unlock", "unlockErr"} <=> mutex = t

\* No two threads are ever inside send(): packets are not mixed on the wire.
THEOREM SendExclusion == Spec => []OneSender
<1> USE DEF callVars, netVars, mgrVars, histVars, Goto
<1>1. Init => MutexInv
  BY DEF Init, MutexInv
<1>2. TypeOK /\ MutexInv /\ [Next]_vars => MutexInv'
  <2> SUFFICES ASSUME TypeOK, MutexInv, [Next]_vars PROVE MutexInv'
    OBVIOUS
  <2> USE DEF TypeOK, MutexInv
  <2>1. ASSUME NEW t \in Threads, InitHeader(t) PROVE MutexInv'
    BY <2>1 DEF InitHeader, LoadCounter, StoreCounter, TakeId
  <2>2. ASSUME NEW t \in Threads, RcpSend(t) PROVE MutexInv'
    <3>1. CASE LockMutex(t)   BY <3>1 DEF LockMutex
    <3>2. CASE SendOk(t)      BY <3>2 DEF SendOk
    <3>3. CASE SendFails(t)   BY <3>3 DEF SendFails
    <3>4. CASE UnlockMutex(t) BY <3>4 DEF UnlockMutex
    <3> QED BY <2>2, <3>1, <3>2, <3>3, <3>4 DEF RcpSend
  <2>3. ASSUME NEW t \in Threads, Await(t) PROVE MutexInv'
    BY <2>3 DEF Await, TakeToken, GiveUp
  <2>4. ASSUME NEW t \in Threads, CheckAction(t) PROVE MutexInv'
    BY <2>4 DEF CheckAction
  <2>5. ASSUME NEW t \in Threads, Finish(t) PROVE MutexInv'
    BY <2>5 DEF Finish
  <2>6. CASE Receive
    BY <2>6 DEF Receive, ReceiveAnswer, ReceiveEvent
  <2>7. CASE Deliver
    BY <2>7 DEF Deliver, WriteHeader, WritePayload, PostToken, RunHandler
  <2>8. CASE Finished
    BY <2>8 DEF Finished, vars
  <2>9. CASE UNCHANGED vars
    BY <2>9 DEF vars
  <2> QED BY <2>1, <2>2, <2>3, <2>4, <2>5, <2>6, <2>7, <2>8, <2>9 DEF Next
<1>3. MutexInv => OneSender
  BY DEF MutexInv, OneSender
<1> QED BY <1>1, <1>2, <1>3, Typing, PTL DEF Spec

-----------------------------------------------------------------------------
(***************************************************************************)
(* The reply of a clean command.                                           *)
(***************************************************************************)
\* A step of a caller preserves Isolation, for the thread that moves and for
\* every other thread.
LEMMA CallerSteps ==
  ASSUME TypeOK, Isolation, NEW t \in Threads,
         InitHeader(t) \/ RcpSend(t) \/ Await(t) \/ CheckAction(t) \/ Finish(t)
  PROVE  Isolation'
<1> SUFFICES ASSUME NEW v \in Threads, clean'[v], InUse(v)'
             PROVE  Isolated(v)'
  BY DEF Isolation
<1> USE DEF TypeOK, callVars, netVars, mgrVars, histVars, Goto, Isolation,
            Isolated, InUse, Quiet, Handling, AtDevice, InManager, Stored,
            OwnReply, OfCommand, MyRequest
<1>1. CASE LoadCounter(t)  BY <1>1 DEF LoadCounter
<1>2. CASE StoreCounter(t) BY <1>2 DEF StoreCounter
<1>3. CASE TakeId(t)
  <2> DEFINE others == {u \in Threads \ {t} : InUse(u) /\ id[u] = counter}
  <2>1. clean' = [u \in Threads |->
                    IF u = t THEN Quiet(counter) /\ others = {}
                    ELSE clean[u] /\ u \notin others]
    BY <1>3 DEF TakeId
  <2>2. CASE v = t
    \* The identifier is quiet, and no other thread uses it.
    <3>1. Quiet(counter) /\ others = {}
      BY <2>1, <2>2, Zenon
    <3>2. /\ pc'[t] = "ready" /\ id'[t] = counter
          /\ \A u \in Threads \ {t} : pc'[u] = pc[u] /\ id'[u] = id[u]
      BY <1>3 DEF TakeId
    <3>3. Quiet(id[t])'
      BY <1>3, <3>1, <3>2 DEF TakeId
    <3> QED BY <2>2, <3>1, <3>2, <3>3
  <2>3. CASE v # t
    \* t takes an identifier that is not the one of v.
    <3>1. clean[v] /\ v \notin others
      BY <2>1, <2>3, Zenon
    <3>2. /\ pc'[t] = "ready" /\ id'[t] = counter
          /\ \A u \in Threads \ {t} : pc'[u] = pc[u] /\ id'[u] = id[u]
      BY <1>3 DEF TakeId
    <3>3. InUse(v) /\ id[v] # counter /\ Isolated(v)
      BY <2>3, <3>1, <3>2
    <3> QED BY <1>3, <2>3, <3>2, <3>3 DEF TakeId
  <2> QED BY <2>2, <2>3
<1>4. CASE LockMutex(t)    BY <1>4 DEF LockMutex
<1>5. CASE SendOk(t)       BY <1>5 DEF SendOk
<1>6. CASE SendFails(t)    BY <1>6 DEF SendFails
<1>7. CASE UnlockMutex(t)  BY <1>7 DEF UnlockMutex
<1>8. CASE TakeToken(t)    BY <1>8 DEF TakeToken
<1>9. CASE GiveUp(t)       BY <1>9 DEF GiveUp
<1>10. CASE CheckAction(t) BY <1>10 DEF CheckAction
<1>11. CASE Finish(t)      BY <1>11 DEF Finish
<1> QED
  BY <1>1, <1>2, <1>3, <1>4, <1>5, <1>6, <1>7, <1>8, <1>9, <1>10, <1>11
  DEF InitHeader, RcpSend, Await

\* A step of the message manager preserves Isolation: it touches one
\* identifier, and if a clean command has it, the message answers the command.
LEMMA ManagerSteps ==
  ASSUME TypeOK, Isolation, Receive \/ Deliver
  PROVE  Isolation'
<1> SUFFICES ASSUME NEW v \in Threads, clean'[v], InUse(v)'
             PROVE  Isolated(v)'
  BY DEF Isolation
<1> USE DEF TypeOK, callVars, netVars, mgrVars, histVars, Goto, Isolation,
            Isolated, InUse, Quiet, Handling, AtDevice, InManager, Stored,
            OwnReply, OfCommand, MyRequest
<1>1. ASSUME NEW r \in outstanding, NEW a \in {"REPLY", "ERROR"},
             ReceiveAnswer(r, a)
      PROVE  Isolated(v)'
  BY <1>1 DEF ReceiveAnswer, Answer
<1>2. ASSUME NEW i \in EventIds, ReceiveEvent(i)
      PROVE  Isolated(v)'
  BY <1>2 DEF ReceiveEvent, Event
<1>3. CASE WriteHeader  BY <1>3, MessageId DEF WriteHeader
<1>4. CASE WritePayload BY <1>4, MessageId DEF WritePayload
<1>5. CASE PostToken    BY <1>5, MessageId DEF PostToken
<1>6. CASE RunHandler   BY <1>6 DEF RunHandler
<1> HIDE DEF TypeOK, Isolation, Isolated, InUse
<1> QED BY <1>1, <1>2, <1>3, <1>4, <1>5, <1>6 DEF Receive, Deliver

\* A step of anyone preserves Isolation.
LEMMA IsolationSteps ==
  ASSUME TypeOK, Isolation, [Next]_vars
  PROVE  Isolation'
<1>1. CASE UNCHANGED vars
  BY <1>1 DEF vars, callVars, netVars, mgrVars, histVars, Isolation, Isolated,
              InUse, Quiet, Handling, AtDevice, InManager, Stored, OwnReply,
              OfCommand, MyRequest
<1> QED BY <1>1, CallerSteps, ManagerSteps DEF Next, Finished

\* Whatever the other commands and the device do, a command whose identifier
\* is its own for as long as it lasts gets its own reply and no other.
THEOREM CleanCommandsGetTheirReply == Spec => []CleanReply
<1>1. Init => Isolation
  BY DEF Init, Isolation, InUse
<1>2. TypeOK /\ Isolation /\ [Next]_vars => Isolation'
  BY IsolationSteps
<1>3. Isolation => CleanReply
  BY DEF Isolation, CleanReply, Isolated, InUse
<1> QED BY <1>1, <1>2, <1>3, Typing, PTL DEF Spec

-----------------------------------------------------------------------------
(***************************************************************************)
(* A program with one thread.                                              *)
(***************************************************************************)
\* With one thread, a device that sends no messages of its own and no wait
\* that fails, a command in progress is clean, and of any other identifier
\* there is no trace.
SerialInv ==
  \A t \in Threads :
    /\ InUse(t) => clean[t]
    /\ \A i \in Ids : (InUse(t) /\ id[t] = i) \/ Quiet(i)

\* One command leaves no trace for the next, on whatever identifier.
LEMMA SerialInvariant ==
  ASSUME NEW x, Threads = {x}, EventIds = {}, WaitMayFail = FALSE
  PROVE  Spec => [](Isolation /\ SerialInv)
<1>1. Init => Isolation /\ SerialInv
  BY DEF Init, Isolation, SerialInv, InUse, Quiet, Handling
<1>2. TypeOK /\ Isolation /\ SerialInv /\ [Next]_vars
        => Isolation' /\ SerialInv'
  <2> SUFFICES ASSUME TypeOK, Isolation, SerialInv, [Next]_vars
               PROVE  Isolation' /\ SerialInv'
    OBVIOUS
  <2>1. Isolation'
    BY IsolationSteps
  <2> USE DEF TypeOK, SerialInv, callVars, netVars, mgrVars, histVars, Goto
  <2>2. ASSUME NEW t \in Threads, InitHeader(t) PROVE SerialInv'
    <3>1. CASE LoadCounter(t)
      BY <3>1 DEF LoadCounter, InUse, Quiet, Handling
    <3>2. CASE StoreCounter(t)
      BY <3>2 DEF StoreCounter, InUse, Quiet, Handling
    <3>3. CASE TakeId(t)
      <4>1. Quiet(counter) /\ \A i \in Ids : Quiet(i)
        BY <3>3 DEF TakeId, InUse
      <4>2. \A i \in Ids : Quiet(i)'
        BY <3>3, <4>1 DEF TakeId, Quiet, Handling
      <4>3. clean'[t] = (Quiet(counter) /\ TRUE)
        BY <3>3 DEF TakeId
      <4> QED BY <4>1, <4>2, <4>3
    <3> QED BY <2>2, <3>1, <3>2, <3>3 DEF InitHeader
  <2>3. ASSUME NEW t \in Threads, RcpSend(t) PROVE SerialInv'
    BY <2>3 DEF RcpSend, LockMutex, SendOk, SendFails, UnlockMutex, InUse,
                Quiet, Handling, Isolation, Isolated, MyRequest
  <2>4. ASSUME NEW t \in Threads, Await(t) PROVE SerialInv'
    BY <2>4 DEF Await, TakeToken, GiveUp, InUse, Quiet, Handling
  <2>5. ASSUME NEW t \in Threads, CheckAction(t) \/ Finish(t) PROVE SerialInv'
    BY <2>5 DEF CheckAction, Finish, InUse, Quiet, Handling, Isolation, Isolated
  <2>6. ASSUME Receive PROVE SerialInv'
    \* The request that is answered has the identifier of the command.
    <3>1. PICK r \in outstanding, a \in {"REPLY", "ERROR"} : ReceiveAnswer(r, a)
      BY <2>6 DEF Receive
    <3>2. r.id \in Ids /\ ~ Quiet(r.id)
      BY DEF Request, Quiet
    <3>3. mgr' = "header" /\ msg'.id = r.id
      BY <3>1 DEF ReceiveAnswer, Answer
    <3>4. \A i \in Ids : Quiet(i) => Quiet(i)'
      BY <3>1, <3>2, <3>3 DEF ReceiveAnswer, Quiet, Handling
    <3> QED BY <3>1, <3>4 DEF ReceiveAnswer, InUse
  <2>7. ASSUME Deliver PROVE SerialInv'
    <3>1. \A i \in Ids : Quiet(i) => Quiet(i)'
      BY <2>7, MessageId DEF Deliver, WriteHeader, WritePayload, PostToken,
         RunHandler, Quiet, Handling
    <3> QED BY <2>7, <3>1 DEF Deliver, WriteHeader, WritePayload, PostToken,
                              RunHandler, InUse
  <2>8. ASSUME Finished \/ UNCHANGED vars PROVE SerialInv'
    <3>1. \A i \in Ids : Quiet(i) => Quiet(i)'
      BY <2>8 DEF Finished, vars, Quiet, Handling
    <3> QED BY <2>8, <3>1 DEF Finished, vars, InUse
  <2> HIDE DEF SerialInv, TypeOK
  <2> QED
    BY <2>1, <2>2, <2>3, <2>4, <2>5, <2>6, <2>7, <2>8 DEF Next
<1> QED BY <1>1, <1>2, Typing, PTL DEF Spec

\* In such a program every reply that is returned answers the command it is
\* returned for, however often the identifiers have been around.
THEOREM SerialCommandsGetTheirReply ==
  ASSUME NEW x, Threads = {x}, EventIds = {}, WaitMayFail = FALSE
  PROVE  Spec => []ReplyMatches
<1>1. Isolation /\ SerialInv => ReplyMatches
  BY DEF Isolation, SerialInv, ReplyMatches, Isolated, InUse
<1> QED BY <1>1, SerialInvariant, PTL

-----------------------------------------------------------------------------
(***************************************************************************)
(* The tokens of an identifier.                                            *)
(***************************************************************************)
\* A request at the device was sent by a command that has been issued, and the
\* command that a thread has not sent yet is not among them.
FreshInv ==
  \A r \in outstanding :
    /\ r.seq <= issued[r.thr]
    /\ pc[r.thr] \in {"load", "store", "ready", "sending"}
         => r.seq < issued[r.thr]

LEMMA Freshness ==
  ASSUME TypeOK, FreshInv, [Next]_vars
  PROVE  FreshInv'
<1> USE DEF TypeOK, FreshInv, callVars, netVars, mgrVars, histVars, Goto
<1>0. \A r \in outstanding : r \in Request /\ r.thr \in Threads /\ r.seq \in Nat
  BY DEF Request
<1>1. ASSUME NEW t \in Threads, InitHeader(t) PROVE FreshInv'
  BY <1>0, <1>1 DEF InitHeader, LoadCounter, StoreCounter, TakeId
<1>2. ASSUME NEW t \in Threads, RcpSend(t) PROVE FreshInv'
  <2>1. CASE SendOk(t) BY <1>0, <2>1 DEF SendOk, MyRequest
  <2>2. CASE LockMutex(t) \/ SendFails(t) \/ UnlockMutex(t)
    BY <1>0, <2>2 DEF LockMutex, SendFails, UnlockMutex
  <2> QED BY <1>2, <2>1, <2>2 DEF RcpSend
<1>3. ASSUME NEW t \in Threads, Await(t) \/ CheckAction(t) \/ Finish(t)
      PROVE  FreshInv'
  BY <1>0, <1>3 DEF Await, TakeToken, GiveUp, CheckAction, Finish
<1>4. ASSUME Receive \/ Deliver PROVE FreshInv'
  BY <1>0, <1>4 DEF Receive, ReceiveAnswer, ReceiveEvent, Deliver, WriteHeader,
                    WritePayload, PostToken, RunHandler
<1>5. ASSUME Finished \/ UNCHANGED vars PROVE FreshInv'
  BY <1>5 DEF Finished, vars
<1> HIDE DEF TypeOK, FreshInv
<1> QED BY <1>1, <1>2, <1>3, <1>4, <1>5 DEF Next

\* The cardinality of a finite set with one more, or one less, element.
LEMMA OneMore ==
  ASSUME NEW S, IsFiniteSet(S), NEW x, x \notin S
  PROVE  Cardinality(S \cup {x}) = Cardinality(S) + 1
  BY FS_AddElement

LEMMA OneLess ==
  ASSUME NEW S, IsFiniteSet(S), NEW x \in S
  PROVE  Cardinality(S \ {x}) = Cardinality(S) - 1
  BY FS_RemoveElement

Owed(i) == IF Handling(i) THEN 1 ELSE 0

\* The inductive form of TokenBalance.
BalanceInv == IsFiniteSet(outstanding) /\ FreshInv /\ TokenBalance

\* The counts of an identifier are numbers.
LEMMA Counts ==
  ASSUME TypeOK, IsFiniteSet(outstanding), NEW i \in Ids
  PROVE  /\ IsFiniteSet(Pending(i)) /\ Cardinality(Pending(i)) \in Nat
         /\ IsFiniteSet(Waiting(i)) /\ Cardinality(Waiting(i)) \in Nat
         /\ sem[i] \in Nat /\ surplus[i] \in Nat /\ Owed(i) \in Nat
<1>1. Pending(i) \in SUBSET outstanding /\ Waiting(i) \in SUBSET Threads
  BY DEF Pending, Waiting
<1>2. IsFiniteSet(Pending(i)) /\ IsFiniteSet(Waiting(i))
  BY <1>1, FS_Subset
<1> QED BY <1>2, FS_CardinalityType DEF TypeOK, Owed

\* A step that leaves alone what an identifier is counted by keeps its balance.
LEMMA BalanceFrame ==
  ASSUME NEW i \in Ids, TokenBalance,
         Pending(i)' = Pending(i), Waiting(i)' = Waiting(i),
         Owed(i)' = Owed(i), sem'[i] = sem[i], surplus'[i] = surplus[i]
  PROVE  sem'[i] + Cardinality(Pending(i)') + Owed(i)'
           = Cardinality(Waiting(i)') + surplus'[i]
  BY DEF TokenBalance, Owed

LEMMA CallerBalance ==
  ASSUME TypeOK, BalanceInv, NEW t \in Threads,
         InitHeader(t) \/ RcpSend(t) \/ Await(t) \/ CheckAction(t) \/ Finish(t),
         NEW i \in Ids
  PROVE  /\ IsFiniteSet(outstanding')
         /\ sem'[i] + Cardinality(Pending(i)') + Owed(i)'
              = Cardinality(Waiting(i)') + surplus'[i]
<1>0. /\ IsFiniteSet(Pending(i)) /\ Cardinality(Pending(i)) \in Nat
      /\ IsFiniteSet(Waiting(i)) /\ Cardinality(Waiting(i)) \in Nat
      /\ sem[i] \in Nat /\ surplus[i] \in Nat /\ Owed(i) \in Nat
  BY Counts DEF BalanceInv
<1> USE DEF TypeOK, callVars, netVars, mgrVars, histVars, Goto
<1>1. IsFiniteSet(outstanding) /\ TokenBalance /\ FreshInv
  BY DEF BalanceInv
<1>2. sem[i] + Cardinality(Pending(i)) + Owed(i)
        = Cardinality(Waiting(i)) + surplus[i]
  BY <1>1 DEF TokenBalance, Owed
<1>3. CASE InitHeader(t)
  <2>1. Waiting(i)' = Waiting(i)
    BY <1>3 DEF InitHeader, LoadCounter, StoreCounter, TakeId, Waiting
  <2>2. /\ outstanding' = outstanding /\ sem' = sem /\ surplus' = surplus
        /\ Owed(i)' = Owed(i)
    BY <1>3 DEF InitHeader, LoadCounter, StoreCounter, TakeId, Owed, Handling
  <2> QED BY <1>1, <2>1, <2>2, BalanceFrame DEF Pending
<1>4. CASE SendOk(t)
  \* One more request at the device, and one more thread that waits.
  <2>1. /\ MyRequest(t) \notin outstanding
        /\ outstanding' = outstanding \cup {MyRequest(t)}
        /\ sem' = sem /\ surplus' = surplus /\ Owed(i)' = Owed(i)
    <3>1. \A r \in outstanding : r.thr = t => r.seq < issued[t]
      BY <1>1, <1>4 DEF SendOk, FreshInv
    <3>2. MyRequest(t).thr = t /\ MyRequest(t).seq = issued[t]
      BY DEF MyRequest
    <3>3. MyRequest(t) \notin outstanding
      BY <3>1, <3>2
    <3> QED BY <1>4, <3>3 DEF SendOk, Owed, Handling
  <2>2. IsFiniteSet(outstanding')
    BY <1>1, <2>1, FS_AddElement
  <2>3. CASE id[t] = i
    <3>1. Pending(i)' = Pending(i) \cup {MyRequest(t)}
      BY <2>1, <2>3 DEF Pending, MyRequest
    <3>2. Waiting(i)' = Waiting(i) \cup {t} /\ t \notin Waiting(i)
      BY <1>4, <2>3 DEF Waiting, SendOk
    <3>3. MyRequest(t) \notin Pending(i)
      BY <2>1 DEF Pending
    <3>4. Cardinality(Pending(i)') = Cardinality(Pending(i)) + 1
      BY <1>0, <3>1, <3>3, OneMore
    <3>5. Cardinality(Waiting(i)') = Cardinality(Waiting(i)) + 1
      BY <1>0, <3>2, OneMore
    <3> HIDE DEF TypeOK
    <3> QED BY <1>0, <1>2, <2>1, <2>2, <3>4, <3>5
  <2>4. CASE id[t] # i
    <3>1. Pending(i)' = Pending(i)
      BY <2>1, <2>4 DEF Pending, MyRequest
    <3>2. Waiting(i)' = Waiting(i)
      BY <1>4, <2>4 DEF Waiting, SendOk
    <3> QED BY <1>1, <2>1, <2>2, <3>1, <3>2, BalanceFrame
  <2> QED BY <2>3, <2>4
<1>5. CASE LockMutex(t) \/ SendFails(t) \/ UnlockMutex(t) \/ CheckAction(t)
           \/ Finish(t)
  <2>1. Waiting(i)' = Waiting(i)
    BY <1>5 DEF LockMutex, SendFails, UnlockMutex, CheckAction, Finish, Waiting
  <2>2. /\ outstanding' = outstanding /\ sem' = sem /\ surplus' = surplus
        /\ Owed(i)' = Owed(i)
    BY <1>5 DEF LockMutex, SendFails, UnlockMutex, CheckAction, Finish, Owed,
                Handling
  <2> QED BY <1>1, <2>1, <2>2, BalanceFrame DEF Pending
<1>6. CASE Await(t)
  \* One thread less waits: it has a token, or leaves a surplus.
  <2>1. outstanding' = outstanding /\ Pending(i)' = Pending(i)
    BY <1>6 DEF Await, TakeToken, GiveUp, Pending
  <2>2. Owed(i)' = Owed(i)
    BY <1>6 DEF Await, TakeToken, GiveUp, Owed, Handling
  <2>3. CASE id[t] = i
    <3>1. Waiting(i)' = Waiting(i) \ {t} /\ t \in Waiting(i)
      BY <1>6, <2>3 DEF Await, TakeToken, GiveUp, Waiting
    <3>2. Cardinality(Waiting(i)') = Cardinality(Waiting(i)) - 1
      BY <1>0, <3>1, OneLess
    <3>3. \/ sem'[i] = sem[i] - 1 /\ surplus'[i] = surplus[i]
          \/ sem'[i] = sem[i] /\ surplus'[i] = surplus[i] + 1
      BY <1>6, <2>3 DEF Await, TakeToken, GiveUp
    <3>4. IsFiniteSet(outstanding')
      BY <1>1, <2>1
    <3> HIDE DEF TypeOK
    <3> QED BY <1>0, <1>2, <2>1, <2>2, <3>2, <3>3, <3>4
  <2>4. CASE id[t] # i
    <3>1. Waiting(i)' = Waiting(i)
      BY <1>6, <2>4 DEF Await, TakeToken, GiveUp, Waiting
    <3>2. sem'[i] = sem[i] /\ surplus'[i] = surplus[i]
      BY <1>6, <2>4 DEF Await, TakeToken, GiveUp
    <3> QED BY <1>1, <2>1, <2>2, <3>1, <3>2, BalanceFrame
  <2> QED BY <2>3, <2>4
<1> QED BY <1>3, <1>4, <1>5, <1>6 DEF RcpSend

LEMMA ManagerBalance ==
  ASSUME TypeOK, BalanceInv, Receive \/ Deliver, NEW i \in Ids
  PROVE  /\ IsFiniteSet(outstanding')
         /\ sem'[i] + Cardinality(Pending(i)') + Owed(i)'
              = Cardinality(Waiting(i)') + surplus'[i]
<1>0. /\ IsFiniteSet(Pending(i)) /\ Cardinality(Pending(i)) \in Nat
      /\ IsFiniteSet(Waiting(i)) /\ Cardinality(Waiting(i)) \in Nat
      /\ sem[i] \in Nat /\ surplus[i] \in Nat /\ Owed(i) \in Nat
  BY Counts DEF BalanceInv
<1> USE DEF TypeOK, callVars, netVars, mgrVars, histVars
<1>1. IsFiniteSet(outstanding) /\ TokenBalance
  BY DEF BalanceInv
<1>2. sem[i] + Cardinality(Pending(i)) + Owed(i)
        = Cardinality(Waiting(i)) + surplus[i]
  BY <1>1 DEF TokenBalance, Owed
<1>3. Waiting(i)' = Waiting(i)
  BY DEF Receive, ReceiveAnswer, ReceiveEvent, Deliver, WriteHeader,
         WritePayload, PostToken, RunHandler, Waiting
<1>4. ASSUME NEW r \in outstanding, NEW a \in {"REPLY", "ERROR"},
             ReceiveAnswer(r, a)
      PROVE  /\ IsFiniteSet(outstanding')
             /\ sem'[i] + Cardinality(Pending(i)') + Owed(i)'
                  = Cardinality(Waiting(i)') + surplus'[i]
  <2>1. /\ outstanding' = outstanding \ {r} /\ sem' = sem
        /\ surplus' = surplus /\ Owed(i) = 0
        /\ Owed(i)' = IF r.id = i THEN 1 ELSE 0
    BY <1>4 DEF ReceiveAnswer, Answer, Owed, Handling
  <2>2. IsFiniteSet(outstanding')
    BY <1>1, <2>1, FS_RemoveElement
  <2>3. CASE r.id = i
    <3>1. Pending(i)' = Pending(i) \ {r} /\ r \in Pending(i)
      BY <2>1, <2>3 DEF Pending
    <3>2. Cardinality(Pending(i)') = Cardinality(Pending(i)) - 1
      BY <1>0, <3>1, OneLess
    <3> QED BY <1>0, <1>2, <1>3, <2>1, <2>2, <2>3, <3>2
  <2>4. CASE r.id # i
    <3>1. Pending(i)' = Pending(i)
      BY <2>1, <2>4 DEF Pending
    <3> QED BY <1>1, <1>3, <2>1, <2>2, <2>4, <3>1, BalanceFrame
  <2> QED BY <2>3, <2>4
<1>5. ASSUME NEW e \in EventIds, ReceiveEvent(e)
      PROVE  /\ IsFiniteSet(outstanding')
             /\ sem'[i] + Cardinality(Pending(i)') + Owed(i)'
                  = Cardinality(Waiting(i)') + surplus'[i]
  <2>1. /\ outstanding' = outstanding /\ Pending(i)' = Pending(i) /\ sem' = sem
        /\ surplus'[i] = IF e = i THEN surplus[i] + 1 ELSE surplus[i]
        /\ Owed(i) = 0 /\ Owed(i)' = IF e = i THEN 1 ELSE 0
    BY <1>5 DEF ReceiveEvent, Event, Owed, Handling, Pending
  <2> QED BY <1>0, <1>1, <1>2, <1>3, <2>1
<1>6. ASSUME Deliver
      PROVE  /\ IsFiniteSet(outstanding')
             /\ sem'[i] + Cardinality(Pending(i)') + Owed(i)'
                  = Cardinality(Waiting(i)') + surplus'[i]
  <2>1. /\ outstanding' = outstanding /\ Pending(i)' = Pending(i)
        /\ surplus' = surplus
    BY <1>6
    DEF Deliver, WriteHeader, WritePayload, PostToken, RunHandler, Pending
  <2>2. sem'[i] + Owed(i)' = sem[i] + Owed(i)
    BY <1>6 DEF Deliver, WriteHeader, WritePayload, PostToken, RunHandler, Owed,
                Handling
  <2>3. sem'[i] \in Nat /\ Owed(i)' \in Nat
    BY <1>6, MessageId DEF Deliver, WriteHeader, WritePayload, PostToken,
                           RunHandler, Owed
  <2> HIDE DEF TypeOK
  <2> QED BY <1>0, <1>1, <1>2, <1>3, <2>1, <2>2, <2>3
<1> QED BY <1>4, <1>5, <1>6 DEF Receive

\* For each identifier the tokens posted or due are those waited for and the
\* surplus, which is what makes one abandoned wait a permanent shift.
THEOREM TokensBalance == Spec => []TokenBalance
<1>1. Init => BalanceInv
  <2> SUFFICES ASSUME Init PROVE BalanceInv
    OBVIOUS
  <2>1. outstanding = {} /\ IsFiniteSet(outstanding) /\ FreshInv
    BY FS_EmptySet DEF Init, FreshInv
  <2>2. \A i \in Ids : /\ Pending(i) = {} /\ Waiting(i) = {} /\ ~ Handling(i)
                       /\ sem[i] = 0 /\ surplus[i] = 0
    BY DEF Init, Pending, Waiting, Handling
  <2> QED BY <2>1, <2>2, FS_EmptySet DEF BalanceInv, TokenBalance
<1>2. TypeOK /\ BalanceInv /\ [Next]_vars => BalanceInv'
  <2> SUFFICES ASSUME TypeOK, BalanceInv, [Next]_vars PROVE BalanceInv'
    OBVIOUS
  <2>1. FreshInv'
    BY Freshness DEF BalanceInv
  <2>2. 0 \in Ids
    BY IdArithmetic
  <2>3. CASE Finished \/ UNCHANGED vars
    BY <2>1, <2>3 DEF Finished, vars, callVars, netVars, mgrVars, histVars,
                      BalanceInv, TokenBalance, Pending, Waiting, Handling
  <2>4. CASE \E t \in Threads : \/ InitHeader(t) \/ RcpSend(t) \/ Await(t)
                                \/ CheckAction(t) \/ Finish(t)
    BY <2>1, <2>2, <2>4, CallerBalance DEF BalanceInv, TokenBalance, Owed
  <2>5. CASE Receive \/ Deliver
    BY <2>1, <2>2, <2>5, ManagerBalance DEF BalanceInv, TokenBalance, Owed
  <2> QED BY <2>3, <2>4, <2>5 DEF Next
<1>3. BalanceInv => TokenBalance
  BY DEF BalanceInv
<1> QED BY <1>1, <1>2, <1>3, Typing, PTL DEF Spec

-----------------------------------------------------------------------------
(***************************************************************************)
(* The engine implements RcpService, as far as safety goes.                *)
(***************************************************************************)
CommandOf(m) == [thr |-> m.thr, seq |-> m.seq]

\* A message that answers a command was counted among the answers.
Recorded(m) == m.thr \in Threads => CommandOf(m) \in answered

\* Each command is sent once and answered once: its request is at the device
\* once, and not after its answer; nothing answers a command not sent yet; and
\* the slots hold answers that were received.
SentInv ==
  /\ \A r \in outstanding : r.seq > 0 /\ CommandOf(r) \notin answered
  /\ \A r, s \in outstanding : CommandOf(r) = CommandOf(s) => r = s
  /\ \A c \in answered :
       /\ c.seq <= issued[c.thr]
       /\ pc[c.thr] \in {"load", "store", "ready", "sending"}
            => c.seq < issued[c.thr]
  /\ \A t \in Threads : pc[t] # "idle" => issued[t] > 0
  /\ Recorded(msg)
  /\ \A i \in Ids : Recorded(slot[i].hdr) /\ Recorded(slot[i].pay)

\* No step sends or answers a command again.
LEMMA SentOnce ==
  ASSUME TypeOK, FreshInv, SentInv, [Next]_vars
  PROVE  SentInv'
<1> USE DEF TypeOK, callVars, netVars, mgrVars, histVars, Goto, Recorded,
            CommandOf
<1>0. /\ \A r \in outstanding : r.thr \in Threads /\ r.seq \in Nat
      /\ \A c \in answered : c.thr \in Threads /\ c.seq \in Nat
      /\ \A t \in Threads : issued[t] \in Nat
  BY DEF Request, Command
<1>1. ASSUME NEW t \in Threads, InitHeader(t) PROVE SentInv'
  <2>1. CASE LoadCounter(t)
    <3>1. /\ issued' = [issued EXCEPT ![t] = @ + 1]
          /\ pc' = [pc EXCEPT ![t] = "load"]
          /\ answered' = answered /\ outstanding' = outstanding
          /\ msg' = msg /\ slot' = slot
      BY <2>1 DEF LoadCounter
    <3> QED BY <1>0, <3>1 DEF SentInv
  <2>2. CASE StoreCounter(t) BY <1>0, <2>2 DEF SentInv, StoreCounter
  <2>3. CASE TakeId(t)       BY <1>0, <2>3 DEF SentInv, TakeId
  <2> QED BY <1>1, <2>1, <2>2, <2>3 DEF InitHeader
<1>2. ASSUME NEW t \in Threads, RcpSend(t) PROVE SentInv'
  <2>1. CASE SendOk(t)
    \* No request of this command is at the device, and no answer was.
    <3>1. /\ MyRequest(t).thr = t /\ MyRequest(t).seq = issued[t]
          /\ pc[t] = "sending" /\ issued[t] > 0
      BY <2>1 DEF SentInv, SendOk, MyRequest
    <3>2. \A r \in outstanding : CommandOf(r) # CommandOf(MyRequest(t))
      BY <1>0, <3>1 DEF FreshInv
    <3>3. CommandOf(MyRequest(t)) \notin answered
      BY <1>0, <3>1 DEF SentInv
    <3> QED BY <1>0, <2>1, <3>1, <3>2, <3>3 DEF SentInv, SendOk
  <2>2. CASE LockMutex(t) \/ SendFails(t) \/ UnlockMutex(t)
    BY <1>0, <2>2 DEF SentInv, LockMutex, SendFails, UnlockMutex
  <2> QED BY <1>2, <2>1, <2>2 DEF RcpSend
<1>3. ASSUME NEW t \in Threads, Await(t) \/ CheckAction(t) \/ Finish(t)
      PROVE  SentInv'
  BY <1>0, <1>3 DEF SentInv, Await, TakeToken, GiveUp, CheckAction, Finish
<1>4. ASSUME NEW r \in outstanding, NEW a \in {"REPLY", "ERROR"},
             ReceiveAnswer(r, a)
      PROVE  SentInv'
  <2>1. /\ outstanding' = outstanding \ {r}
        /\ answered' = answered \cup {CommandOf(r)}
        /\ CommandOf(msg') = CommandOf(r)
        /\ pc' = pc /\ issued' = issued /\ slot' = slot
    BY <1>4 DEF ReceiveAnswer, Answer
  <2>2. \A s \in outstanding' : CommandOf(s) \notin answered'
    BY <2>1 DEF SentInv
  <2>3. /\ r.seq <= issued[r.thr]
        /\ pc[r.thr] \in {"load", "store", "ready", "sending"}
             => r.seq < issued[r.thr]
    BY DEF FreshInv
  <2> QED BY <1>0, <2>1, <2>2, <2>3 DEF SentInv
<1>5. ASSUME NEW i \in EventIds, ReceiveEvent(i) PROVE SentInv'
  BY <1>0, <1>5 DEF SentInv, ReceiveEvent, Event
<1>6. ASSUME Deliver PROVE SentInv'
  <2>1. /\ pc' = pc /\ issued' = issued /\ answered' = answered
        /\ outstanding' = outstanding /\ msg' = msg
    BY <1>6 DEF Deliver, WriteHeader, WritePayload, PostToken, RunHandler
  <2>2. \A i \in Ids : /\ slot'[i].hdr \in {slot[i].hdr, msg}
                       /\ slot'[i].pay \in {slot[i].pay, msg}
    <3>1. CASE WriteHeader  BY <3>1, MessageId DEF WriteHeader
    <3>2. CASE WritePayload BY <3>2, MessageId DEF WritePayload
    <3>3. CASE PostToken \/ RunHandler BY <3>3 DEF PostToken, RunHandler
    <3> QED BY <1>6, <3>1, <3>2, <3>3 DEF Deliver
  <2>3. \A i \in Ids : Recorded(slot'[i].hdr) /\ Recorded(slot'[i].pay)
    BY <2>2 DEF SentInv
  <2> QED BY <2>1, <2>3 DEF SentInv
<1>7. ASSUME Finished \/ UNCHANGED vars PROVE SentInv'
  BY <1>7 DEF SentInv, Finished, vars
<1> HIDE DEF TypeOK
<1> QED BY <1>1, <1>2, <1>3, <1>4, <1>5, <1>6, <1>7 DEF Next, Receive

\* While every command in progress is clean, a step of the engine is a step of
\* the service or none: what CheckAction returns is the answer to its caller's
\* own command, and it stays what it is until the caller is done.
AllClean == \A t \in Threads : InUse(t) => clean[t]

\* The reply of a thread as the service sees it.
ReplyBar(t) == IF pc[t] = "done"
               THEN LET m == slot[id[t]].pay IN [thr |-> m.thr, seq |-> m.seq]
               ELSE [thr |-> "none", seq |-> 0]

\* A thread that does not move is seen as it was: nothing touches the slot that
\* it reads.
LEMMA OthersLookTheSame ==
  ASSUME TypeOK, Isolation, AllClean, [Next]_vars, NEW u \in Threads,
         pc'[u] = pc[u]
  PROVE  Phase(u)' = Phase(u) /\ ReplyBar(u)' = ReplyBar(u)
<1>1. Phase(u)' = Phase(u)
  BY DEF Phase
<1>2. CASE pc[u] # "done"
  BY <1>1, <1>2 DEF ReplyBar
<1>3. CASE pc[u] = "done"
  <2>1. ~ Handling(id[u])
    BY <1>3 DEF Isolation, AllClean, Isolated, InUse, Quiet
  <2>2. id'[u] = id[u] /\ slot'[id[u]].pay = slot[id[u]].pay
    BY <1>3, <2>1, MessageId
    DEF TypeOK, Next, vars, callVars, netVars, mgrVars, histVars, Goto,
        Handling, InitHeader, LoadCounter, StoreCounter, TakeId, RcpSend,
        LockMutex, SendOk, SendFails, UnlockMutex, Await, TakeToken, GiveUp,
        CheckAction, Finish, Receive, ReceiveAnswer, ReceiveEvent, Deliver,
        WriteHeader, WritePayload, PostToken, RunHandler, Finished
  <2> QED BY <1>1, <1>3, <2>2 DEF ReplyBar
<1> QED BY <1>2, <1>3

\* Each step of the engine is one of the service, or nothing to it.
LEMMA ServiceStep ==
  ASSUME TypeOK, Isolation, AllClean, FreshInv, SentInv, [Next]_vars
  PROVE  [Service!Next]_(Service!vars)
<1> DEFINE phaseBar == [t \in Threads |-> Phase(t)]
           replyBar == [t \in Threads |->
                          IF pc[t] = "done"
                          THEN LET m == slot[id[t]].pay
                               IN  [thr |-> m.thr, seq |-> m.seq]
                          ELSE [thr |-> "none", seq |-> 0]]
<1> USE DEF callVars, netVars, mgrVars, histVars, Goto
<1>0. /\ replyBar = [t \in Threads |-> ReplyBar(t)]
      /\ replyBar' = [t \in Threads |-> ReplyBar(t)']
      /\ phaseBar' = [t \in Threads |-> Phase(t)']
  BY DEF ReplyBar
<1>1. ASSUME pc' = pc PROVE phaseBar' = phaseBar /\ replyBar' = replyBar
  <2>1. \A u \in Threads :
          Phase(u)' = Phase(u) /\ ReplyBar(u)' = ReplyBar(u)
    BY <1>1, OthersLookTheSame
  <2> QED BY <1>0, <2>1, Zenon
<1>2. ASSUME NEW t \in Threads, NEW p, pc' = [pc EXCEPT ![t] = p]
      PROVE  /\ phaseBar' = [phaseBar EXCEPT ![t] = Phase(t)']
             /\ replyBar' = [replyBar EXCEPT ![t] = ReplyBar(t)']
  <2>1. \A u \in Threads \ {t} :
          Phase(u)' = Phase(u) /\ ReplyBar(u)' = ReplyBar(u)
    <3>1. \A u \in Threads \ {t} : pc'[u] = pc[u]
      BY <1>2 DEF TypeOK
    <3> QED BY <3>1, OthersLookTheSame
  <2> HIDE DEF phaseBar, replyBar
  <2>2. phaseBar = [u \in Threads |-> Phase(u)]
    BY DEF phaseBar
  <2> QED BY <1>0, <2>1, <2>2
<1>3. \A t \in Threads :
        /\ pc[t] = "idle" => Phase(t) = "idle"
        /\ pc[t] = "done" => Phase(t) = "reply"
        /\ pc[t] = "null" => Phase(t) = "null"
        /\ pc[t] \notin {"idle", "done", "null"} => Phase(t) = "called"
        /\ pc'[t] = "idle" => Phase(t)' = "idle"
        /\ pc'[t] = "done" => Phase(t)' = "reply"
        /\ pc'[t] = "null" => Phase(t)' = "null"
        /\ pc'[t] \notin {"idle", "done", "null"} => Phase(t)' = "called"
  BY DEF Phase
<1>4. ASSUME pc' = pc, issued' = issued, answered' = answered
      PROVE  UNCHANGED Service!vars
  BY <1>1, <1>4 DEF Service!vars
\* A step between the call and the return: the service sees nothing of it.
<1>5. ASSUME NEW t \in Threads, NEW p, pc' = [pc EXCEPT ![t] = p],
             pc[t] \notin {"idle", "done", "null"},
             p \notin {"idle", "done", "null"},
             issued' = issued, answered' = answered
      PROVE  UNCHANGED Service!vars
  <2>1. pc'[t] = p /\ Phase(t)' = Phase(t) /\ ReplyBar(t)' = ReplyBar(t)
    BY <1>3, <1>5 DEF TypeOK, ReplyBar
  <2>2. phaseBar' = phaseBar /\ replyBar' = replyBar
    <3>1. /\ phaseBar' = [phaseBar EXCEPT ![t] = Phase(t)]
          /\ replyBar' = [replyBar EXCEPT ![t] = ReplyBar(t)]
      BY <1>2, <1>5, <2>1
    <3> QED BY <1>0, <3>1
  <2> QED BY <1>5, <2>2 DEF Service!vars
\* A command is issued.
<1>6. ASSUME NEW t \in Threads, LoadCounter(t) PROVE Service!Call(t)
  <2>1. /\ pc[t] = "idle" /\ pc' = [pc EXCEPT ![t] = "load"] /\ pc'[t] = "load"
        /\ issued[t] < MaxCmds /\ issued' = [issued EXCEPT ![t] = @ + 1]
        /\ answered' = answered
    BY <1>6 DEF TypeOK, LoadCounter
  <2>2. Phase(t) = "idle" /\ Phase(t)' = "called" /\ ReplyBar(t)' = ReplyBar(t)
    BY <1>3, <2>1 DEF ReplyBar
  <2>3. /\ phaseBar[t] = "idle"
        /\ phaseBar' = [phaseBar EXCEPT ![t] = "called"]
        /\ replyBar' = replyBar
    BY <1>0, <1>2, <2>1, <2>2
  <2> QED BY <2>1, <2>3 DEF Service!Call
\* NULL is returned: the send failed, the wait ended, the answer is an error.
<1>7. ASSUME NEW t \in Threads, pc' = [pc EXCEPT ![t] = "null"],
             pc[t] \notin {"idle", "done", "null"},
             issued' = issued, answered' = answered
      PROVE  Service!ReturnNull(t)
  <2>1. pc'[t] = "null"
    BY <1>7 DEF TypeOK
  <2>2. Phase(t) = "called" /\ Phase(t)' = "null" /\ ReplyBar(t)' = ReplyBar(t)
    BY <1>3, <1>7, <2>1 DEF ReplyBar
  <2>3. /\ phaseBar[t] = "called"
        /\ phaseBar' = [phaseBar EXCEPT ![t] = "null"]
        /\ replyBar' = replyBar
    <3>1. /\ phaseBar' = [phaseBar EXCEPT ![t] = "null"]
          /\ replyBar' = [replyBar EXCEPT ![t] = ReplyBar(t)]
      BY <1>2, <1>7, <2>2
    <3> QED BY <1>0, <2>2, <3>1
  <2> QED BY <1>7, <2>3 DEF Service!ReturnNull
\* The slot that CheckAction finds holds the answer to the caller's command.
<1>8. ASSUME NEW t \in Threads, CheckAction(t), pc' = [pc EXCEPT ![t] = "done"]
      PROVE  Service!ReturnReply(t)
  <2>1. /\ pc[t] = "check" /\ pc'[t] = "done" /\ id' = id /\ slot' = slot
        /\ issued' = issued /\ answered' = answered
    BY <1>8 DEF TypeOK, CheckAction
  <2>2. OwnReply(t)
    BY <2>1 DEF Isolation, AllClean, Isolated, InUse
  <2>3. /\ ReplyBar(t)' = MyCommand(t)
        /\ MyCommand(t) = CommandOf(slot[id[t]].pay)
        /\ slot[id[t]].pay.thr = t
    BY <2>1, <2>2 DEF ReplyBar, OwnReply, OfCommand, MyCommand, CommandOf
  <2>4. MyCommand(t) \in answered
    BY <2>3 DEF TypeOK, SentInv, Recorded
  <2>5. Phase(t) = "called" /\ Phase(t)' = "reply"
    BY <1>3, <2>1
  <2>6. /\ phaseBar[t] = "called"
        /\ phaseBar' = [phaseBar EXCEPT ![t] = "reply"]
        /\ replyBar' = [replyBar EXCEPT ![t] = MyCommand(t)]
    BY <1>2, <1>8, <2>3, <2>5
  <2> QED BY <2>1, <2>4, <2>6
          DEF Service!ReturnReply, Service!Current, MyCommand
<1>9. ASSUME NEW t \in Threads, Finish(t) PROVE Service!Finish(t)
  <2>1. /\ pc[t] \in {"done", "null"} /\ pc' = [pc EXCEPT ![t] = "idle"]
        /\ pc'[t] = "idle" /\ issued' = issued /\ answered' = answered
    BY <1>9 DEF TypeOK, Finish
  <2>2. /\ Phase(t) \in {"reply", "null"} /\ Phase(t)' = "idle"
        /\ ReplyBar(t)' = [thr |-> "none", seq |-> 0]
    BY <1>3, <2>1 DEF ReplyBar
  <2>3. /\ phaseBar[t] \in {"reply", "null"}
        /\ phaseBar' = [phaseBar EXCEPT ![t] = "idle"]
        /\ replyBar' = [replyBar EXCEPT ![t] = [thr |-> "none", seq |-> 0]]
    BY <1>2, <2>1, <2>2
  <2> QED BY <2>1, <2>3 DEF Service!Finish, Service!NoReply
\* The manager receives the answer to a request.
<1>10. ASSUME NEW r \in outstanding, NEW a \in {"REPLY", "ERROR"},
              ReceiveAnswer(r, a)
       PROVE  CommandOf(r) \in Service!Command /\ Service!Answer(CommandOf(r))
  <2>1. /\ pc' = pc /\ issued' = issued
        /\ answered' = answered \cup {CommandOf(r)}
    BY <1>10 DEF ReceiveAnswer, CommandOf
  <2>2. /\ r.thr \in Threads /\ r.seq \in 1 .. MaxCmds
        /\ r.seq <= issued[r.thr] /\ CommandOf(r) \notin answered
    BY DEF TypeOK, Request, FreshInv, SentInv
  <2> QED BY <1>1, <2>1, <2>2 DEF Service!Answer, Service!Command, CommandOf
<1> HIDE DEF phaseBar, replyBar
<1>11. ASSUME NEW t \in Threads,
              InitHeader(t) \/ RcpSend(t) \/ Await(t) \/ CheckAction(t)
       PROVE  [Service!Next]_(Service!vars)
  <2>1. CASE LoadCounter(t) BY <1>6, <2>1 DEF Service!Next
  <2>2. CASE \/ StoreCounter(t) \/ TakeId(t) \/ LockMutex(t) \/ SendOk(t)
             \/ SendFails(t) \/ TakeToken(t)
    <3>1. /\ issued' = issued /\ answered' = answered
          /\ \E p \in {"store", "ready", "sending", "unlock", "unlockErr",
                       "check"} : pc' = [pc EXCEPT ![t] = p]
          /\ pc[t] \in {"load", "store", "ready", "sending", "wait"}
      BY <2>2 DEF StoreCounter, TakeId, LockMutex, SendOk, SendFails, TakeToken
    <3> QED BY <1>5, <3>1
  <2>3. CASE UnlockMutex(t) \/ GiveUp(t) \/ CheckAction(t)
    <3>1. /\ issued' = issued /\ answered' = answered
          /\ pc[t] \in {"unlock", "unlockErr", "wait", "check"}
          /\ \E p \in {"wait", "null", "done"} : pc' = [pc EXCEPT ![t] = p]
      BY <2>3 DEF UnlockMutex, GiveUp, CheckAction
    <3>2. CASE pc' = [pc EXCEPT ![t] = "wait"] BY <1>5, <3>1, <3>2
    <3>3. CASE pc' = [pc EXCEPT ![t] = "null"]
      BY <1>7, <3>1, <3>3 DEF Service!Next
    <3>4. CASE pc' = [pc EXCEPT ![t] = "done"]
      <4>1. CheckAction(t)
        BY <2>3, <3>4 DEF TypeOK, UnlockMutex, GiveUp
      <4> QED BY <1>8, <3>4, <4>1 DEF Service!Next
    <3> QED BY <3>1, <3>2, <3>3, <3>4
  <2> QED BY <1>11, <2>1, <2>2, <2>3 DEF InitHeader, RcpSend, Await
<1>12. CASE Receive
  <2>1. ASSUME NEW i \in EventIds, ReceiveEvent(i) PROVE UNCHANGED Service!vars
    BY <1>4, <2>1 DEF ReceiveEvent
  <2> QED BY <1>10, <1>12, <2>1 DEF Receive, Service!Next
<1>13. CASE Deliver \/ Finished \/ UNCHANGED vars
  <2>1. pc' = pc /\ issued' = issued /\ answered' = answered
    BY <1>13 DEF Deliver, WriteHeader, WritePayload, PostToken, RunHandler,
                 Finished, vars
  <2> QED BY <1>4, <2>1
<1>14. ASSUME NEW t \in Threads, Finish(t) PROVE [Service!Next]_(Service!vars)
  BY <1>9, <1>14 DEF Service!Next
<1> QED BY <1>11, <1>12, <1>13, <1>14 DEF Next

\* As long as every command in progress is clean, the engine is the service,
\* for any number of threads, with timeouts, late answers and messages that
\* answer nothing: a caller gets the answer to its own command, or NULL.
THEOREM CleanProgramsAreServed == Spec /\ []AllClean => Service!Spec
<1>1. Init => Service!Init
  <2> SUFFICES ASSUME Init PROVE Service!Init
    OBVIOUS
  <2>1. \A t \in Threads : pc[t] = "idle" /\ Phase(t) = "idle"
    BY DEF Init, Phase
  <2> QED BY <2>1 DEF Init, Service!Init, Service!NoReply
<1>2. Init => FreshInv /\ SentInv /\ Isolation
  BY DEF Init, FreshInv, SentInv, Isolation, InUse, Recorded, Blank
<1>3. TypeOK /\ Isolation /\ [Next]_vars => Isolation'
  BY IsolationSteps
<1>4. TypeOK /\ FreshInv /\ SentInv /\ [Next]_vars => FreshInv' /\ SentInv'
  BY Freshness, SentOnce
<1>5. TypeOK /\ Isolation /\ AllClean /\ FreshInv /\ SentInv /\ [Next]_vars
        => [Service!Next]_(Service!vars)
  BY ServiceStep
<1> QED BY <1>1, <1>2, <1>3, <1>4, <1>5, Typing, PTL DEF Spec, Service!Spec

\* So it is for a program with one thread, which therefore never needs to look
\* at which command a reply answers.
THEOREM SerialProgramsAreServed ==
  ASSUME NEW x, Threads = {x}, EventIds = {}, WaitMayFail = FALSE
  PROVE  Spec => Service!Spec
<1>1. Isolation /\ SerialInv => AllClean
  BY DEF SerialInv, AllClean
<1> QED BY <1>1, SerialInvariant, CleanProgramsAreServed, PTL
=============================================================================
