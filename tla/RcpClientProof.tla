--------------------------- MODULE RcpClientProof ---------------------------
(***************************************************************************)
(* The three parts of a client's life (RcpSession, RcpEvents, RcpAccess),  *)
(* for any number of sessions, managers, registrations, devices and other  *)
(* clients.                                                                *)
(***************************************************************************)
EXTENDS RcpSession, RcpEvents, RcpAccess, TLAPS

-----------------------------------------------------------------------------
(***************************************************************************)
(* The mutex of rcp_send, also after it has been destroyed.                *)
(***************************************************************************)
CommandSteps == {"none", "lock", "locked", "send", "unlock", "wait"}

SessionTypes ==
  /\ at \in Nat \ {0} /\ cmd \in [Threads -> CommandSteps]
  /\ send_mutex \in {"free", "main", "keep", "destroyed"}
  /\ keep \in {"none", "runs", "ended"} /\ cancelled \in BOOLEAN

\* What the script implies: the keep-alive thread exists from "spawn" to the
\* end, and a program that cancels it has done so once the main thread is past
\* "cancel".
Scripted ==
  /\ keep # "none" => KeepAlive /\ at > 6
  /\ KeepAlive /\ program # "audio" /\ at > 8 => cancelled
  /\ cancelled => program # "audio"

\* The thread may do with the destroyed mutex what it likes.
Loose == send_mutex = "destroyed" /\ program = "audio"

\* Who is between lock and unlock holds the mutex, but for the two that may
\* find it destroyed: the main thread in client_unregister, and a keep-alive
\* thread that was never cancelled, or that is and will not send any more.
Held ==
  /\ cmd["main"] \in {"locked", "send", "unlock"} =>
       send_mutex \in {"main", "destroyed"}
  /\ cmd["keep"] \in {"send", "unlock"} => send_mutex = "keep" \/ Loose
  /\ cmd["keep"] = "locked" =>
       \/ send_mutex = "keep" \/ Loose
       \/ send_mutex = "destroyed" /\ cancelled
  /\ send_mutex = "destroyed" /\ KeepAlive => at > 10
  /\ keep = "none" => cmd["keep"] = "none"

SessionInv == SessionTypes /\ Scripted /\ Held

\* The steps of the script that matter, at their places in the script.
LEMMA ScriptPlaces ==
  /\ KeepAlive => /\ Len(Script) = 13
                  /\ \A i \in 1 .. 13 :
                       /\ Script[i] = "register" <=> i = 4
                       /\ Script[i] = "spawn" <=> i = 6
                       /\ Script[i] = Quits <=> i = 8
                       /\ Script[i] = "cancel" => program # "audio"
                       /\ Script[i] = "unregister" <=> i = 10
                       /\ Script[i] # "close"
  /\ ~KeepAlive => /\ Len(Script) = 9
                   /\ \A i \in 1 .. 9 : Script[i] # "spawn"
<1>1. CASE KeepAlive
  <2>1. Script = <<"connect", "create", "sem_init", "register",
                   "client_connect", "spawn", "stream", Quits,
                   "disconnect", "unregister", "stop", "sem_destroy",
                   "return">>
    BY <1>1 DEF Script
  <2>. QED BY <1>1, <2>1 DEF Quits
<1>2. CASE ~KeepAlive
  <2>1. Script = <<"connect", "create", "sem_init", "register", "command",
                   "unregister", "stop", "sem_destroy", "close">>
    BY <1>2 DEF Script
  <2>. QED BY <1>2, <2>1
<1>. QED BY <1>1, <1>2

LEMMA InitSession == Init => SessionInv
<1> SUFFICES ASSUME Init PROVE SessionInv
  OBVIOUS
<1>1. /\ at = 1 /\ cmd = [t \in Threads |-> "none"] /\ send_mutex = "free"
      /\ keep = "none" /\ cancelled = FALSE
  BY DEF Init
<1>2. cmd["main"] = "none" /\ cmd["keep"] = "none"
  BY <1>1 DEF Threads
<1>3. cmd \in [Threads -> CommandSteps]
  BY <1>1 DEF Threads, CommandSteps
<1>4. SessionTypes
  <2>1. cancelled \in BOOLEAN
    BY <1>1
  <2>2. at \in Nat \ {0}
    BY <1>1
  <2>. QED BY <1>1, <1>3, <2>1, <2>2, Zenon DEF SessionTypes
<1>. QED BY <1>1, <1>2, <1>4 DEF SessionInv, Scripted, Held, KeepAlive

LEMMA MainSession == SessionInv /\ MainSteps => SessionInv'
<1> SUFFICES ASSUME SessionInv, MainSteps PROVE SessionInv'
  OBVIOUS
<1> USE DEF SessionInv, KeepAlive
<1>0. at <= Len(Script) => /\ KeepAlive => at \in 1 .. 13
                           /\ ~KeepAlive => at \in 1 .. 9
  <2>1. at \in Nat \ {0}
    BY DEF SessionTypes
  <2>2. ASSUME at <= Len(Script), KeepAlive PROVE at \in 1 .. 13
    <3>1. Len(Script) = 13
      BY <2>2, ScriptPlaces
    <3>. QED BY <2>1, <2>2, <3>1
  <2>3. ASSUME at <= Len(Script), ~KeepAlive PROVE at \in 1 .. 9
    <3>1. Len(Script) = 9
      BY <2>3, ScriptPlaces
    <3>. QED BY <2>1, <2>3, <3>1
  <2>. QED BY <2>2, <2>3
<1>1. CASE rcp_connect \/ CreateManager \/ OtherStep \/ StopManager \/ Return
  <2>1. at' = at + 1 /\ UNCHANGED <<program, cmd, send_mutex, keep, cancelled>>
    BY <1>1 DEF rcp_connect, CreateManager, OtherStep, StopManager, Return,
                Ahead, keeper
  <2>2. KeepAlive /\ program # "audio" /\ at = 8 => cancelled
    <3>1. SUFFICES ASSUME KeepAlive, program # "audio", at = 8 PROVE FALSE
      OBVIOUS
    <3>2. Script[at] = "cancel"
      BY <3>1, ScriptPlaces DEF Quits
    <3>. QED
      BY <1>1, <3>2 DEF rcp_connect, CreateManager, OtherStep, StopManager,
                        Return, Step
  <2>3. KeepAlive /\ program # "audio" /\ at + 1 > 8 => cancelled
    BY <2>2 DEF Scripted, SessionTypes
  <2>. QED BY <2>1, <2>3 DEF SessionTypes, Scripted, Held, Loose
<1>2. CASE StartCommand
  <2>1. PICK x \in Commands :
          /\ cmd["main"] = "none" /\ at <= Len(Script) /\ Script[at] = x
          /\ send_mutex' =
               CASE x = "register" -> "free"
                 [] x = "unregister" /\ send_mutex = "free" -> "destroyed"
                 [] OTHER -> send_mutex
    BY <1>2 DEF StartCommand, Step
  <2>2. /\ at' = at + 1 /\ cmd' = [cmd EXCEPT !["main"] = "lock"]
        /\ UNCHANGED <<program, keep, cancelled>>
    BY <1>2 DEF StartCommand, Ahead, Call, keeper
  <2>3. cmd' \in [Threads -> CommandSteps] /\ cmd'["main"] = "lock"
        /\ cmd'["keep"] = cmd["keep"]
    BY <2>2 DEF SessionTypes, Threads, CommandSteps
  <2>4. send_mutex' \in {"free", "main", "keep", "destroyed"}
    BY <2>1 DEF SessionTypes
  <2>5. KeepAlive /\ program # "audio" /\ at + 1 > 8 => cancelled
    <3>1. SUFFICES ASSUME KeepAlive, program # "audio", at = 8 PROVE FALSE
      BY DEF Scripted, SessionTypes
    <3>2. Script[at] = "cancel"
      BY <3>1, ScriptPlaces DEF Quits
    <3>. QED BY <2>1, <3>2 DEF Commands
  <2>6. SessionTypes' /\ Scripted'
    BY <2>2, <2>3, <2>4, <2>5 DEF SessionTypes, Scripted
  <2>7. CASE x = "register"
    <3>1. cmd["keep"] = "none"
      <4>1. KeepAlive => at = 4
        BY <1>0, <2>1, <2>7, ScriptPlaces
      <4>2. keep = "none"
        BY <4>1 DEF Scripted, SessionTypes
      <4>. QED BY <4>2 DEF Held, Loose
    <3>2. send_mutex' = "free"
      BY <2>1, <2>7
    <3>. QED BY <2>3, <2>6, <3>1, <3>2 DEF Held, Loose
  <2>8. CASE x = "unregister" /\ send_mutex = "free"
    <3>1. send_mutex' = "destroyed"
      BY <2>1, <2>8
    <3>2. KeepAlive => at = 10
      <4>1. KeepAlive => at \in 1 .. 13
        BY <1>0, <2>1
      <4>. QED BY <2>1, <2>8, <4>1, ScriptPlaces
    <3>. QED BY <2>2, <2>3, <2>6, <2>8, <3>1, <3>2 DEF Held, Loose
  <2>9. CASE x # "register" /\ ~(x = "unregister" /\ send_mutex = "free")
    <3>1. send_mutex' = send_mutex
      BY <2>1, <2>9
    <3>. QED BY <2>2, <2>3, <2>6, <3>1 DEF Held, Loose, SessionTypes
  <2>. QED BY <2>7, <2>8, <2>9
<1>3. CASE CreateKeepAlive
  <2>1. /\ at' = at + 1 /\ keep' = "runs"
        /\ cmd' = [cmd EXCEPT !["keep"] = "lock"]
        /\ UNCHANGED <<program, send_mutex, cancelled>>
        /\ Script[at] = "spawn" /\ at <= Len(Script)
    BY <1>3 DEF CreateKeepAlive, Ahead, Call, Step
  <2>2. KeepAlive /\ at = 6
    <3>1. KeepAlive
      BY <1>0, <2>1, ScriptPlaces
    <3>2. at \in 1 .. 13
      BY <1>0, <2>1, <3>1
    <3>. QED BY <2>1, <3>1, <3>2, ScriptPlaces
  <2>3. /\ cmd' \in [Threads -> CommandSteps] /\ cmd'["keep"] = "lock"
        /\ cmd'["main"] = cmd["main"]
    BY <2>1 DEF SessionTypes, Threads, CommandSteps
  <2>4. SessionTypes'
    BY <2>1, <2>3 DEF SessionTypes
  <2>5. Scripted'
    BY <2>1, <2>2 DEF Scripted
  <2>6. Held'
    BY <2>1, <2>2, <2>3 DEF Held, Loose
  <2>. QED BY <2>4, <2>5, <2>6
<1>4. CASE CancelKeepAlive
  <2>1. /\ at' = at + 1 /\ cancelled' = TRUE
        /\ UNCHANGED <<program, cmd, send_mutex, keep>>
    BY <1>4 DEF CancelKeepAlive, Ahead
  <2>2. program # "audio"
    BY <1>0, <1>4, ScriptPlaces DEF CancelKeepAlive, Step, SessionTypes
  <2>. QED BY <2>1, <2>2 DEF SessionTypes, Scripted, Held, Loose
<1>5. CASE rcp_disconnect
  <2>1. Script[at] = "close" /\ at <= Len(Script)
    BY <1>5 DEF rcp_disconnect, Step
  <2>2. ~KeepAlive
    BY <1>0, <2>1, ScriptPlaces DEF SessionTypes
  <2>3. keep = "none"
    BY <2>2 DEF Scripted
  <2>4. /\ at' \in Nat \ {0}
        /\ UNCHANGED <<program, cmd, send_mutex, keep, cancelled>>
    BY <1>5 DEF rcp_disconnect, keeper, SessionTypes
  <2>. QED BY <2>2, <2>3, <2>4 DEF SessionTypes, Scripted, Held, Loose
<1>. QED BY <1>1, <1>2, <1>3, <1>4, <1>5 DEF MainSteps

\* The steps of a command, in either thread.
LEMMA CommandSession ==
  ASSUME SessionInv, NEW t \in Threads, rcp_command(t)
  PROVE  SessionInv'
<1> USE DEF SessionInv, KeepAlive
<1>1. UNCHANGED <<program, at, keep, cancelled>> /\ Runs(t)
  BY DEF rcp_command, Lock, BeginSend, EndSend, Unlock, EndWait, main, keeper
<1>2. PICK to \in CommandSteps : cmd' = [cmd EXCEPT ![t] = to]
  BY DEF rcp_command, Lock, BeginSend, EndSend, Unlock, EndWait, Goes,
      CommandSteps
<1>3. cmd' \in [Threads -> CommandSteps] /\ cmd'[t] = to
  BY <1>2 DEF SessionTypes
<1>4. \A u \in Threads : u # t => cmd'[u] = cmd[u]
  BY <1>2 DEF SessionTypes
<1>5. "main" \in Threads /\ "keep" \in Threads /\ t \in {"main", "keep"}
  BY DEF Threads
<1>6. send_mutex' \in {"free", "main", "keep", "destroyed"}
  BY <1>5 DEF rcp_command, Lock, BeginSend, EndSend, Unlock, EndWait,
      SessionTypes
<1>7. SessionTypes' /\ Scripted'
  BY <1>1, <1>3, <1>6 DEF SessionTypes, Scripted
<1>8. keep = "none" => cmd'["keep"] = "none"
  BY <1>1, <1>4, <1>5 DEF Runs, Held, Loose
<1>9. CASE Lock(t)
  <2>1. cmd[t] = "lock" /\ to = "locked"
    BY <1>3, <1>9 DEF Lock, Goes, SessionTypes
  <2>2. CASE send_mutex = "free" /\ send_mutex' = t
    <3>1. CASE t = "main"
      BY <1>1, <1>7, <1>3, <1>4, <1>5, <1>8, <2>1, <2>2, <3>1 DEF Held, Loose
    <3>2. CASE t = "keep"
      BY <1>1, <1>7, <1>3, <1>4, <1>5, <1>8, <2>1, <2>2, <3>2 DEF Held, Loose
    <3>. QED BY <1>5, <1>7, <3>1, <3>2
  <2>3. CASE send_mutex = "destroyed" /\ UNCHANGED send_mutex
    <3>1. t = "keep" => cancelled \/ program = "audio"
      BY <1>1, <2>3 DEF Runs, Scripted, Held, Loose, SessionTypes
    <3>2. Held'
      BY <1>1, <1>3, <1>4, <1>5, <1>8, <2>1, <2>3, <3>1 DEF Held, Loose
    <3>. QED BY <1>7, <3>2
  <2>. QED BY <1>9, <2>2, <2>3 DEF Lock
<1>10. CASE BeginSend(t)
  <2>1. cmd[t] = "locked" /\ to = "send" /\ UNCHANGED send_mutex
    BY <1>3, <1>10 DEF BeginSend, Goes, SessionTypes
  <2>2. t = "keep" => ~cancelled
    BY <1>10 DEF BeginSend, Cancelled
  <2>3. Held'
    BY <1>1, <1>3, <1>4, <1>5, <1>8, <2>1, <2>2 DEF Held, Loose
  <2>. QED BY <1>7, <2>3
<1>11. CASE EndSend(t)
  <2>1. cmd[t] = "send" /\ to = "unlock" /\ UNCHANGED send_mutex
    BY <1>3, <1>11 DEF EndSend, Goes, SessionTypes
  <2>2. Held'
    BY <1>1, <1>3, <1>4, <1>5, <1>8, <2>1 DEF Held, Loose
  <2>. QED BY <1>7, <2>2
<1>12. CASE Unlock(t)
  <2>1. /\ cmd[t] = "unlock" /\ to \in {"wait", "none"}
        /\ send_mutex' = IF send_mutex = t THEN "free" ELSE send_mutex
    BY <1>3, <1>12 DEF Unlock, Goes, SessionTypes
  <2>2. Held'
    BY <1>1, <1>3, <1>4, <1>5, <1>8, <2>1 DEF Held, Loose
  <2>. QED BY <1>7, <2>2
<1>13. CASE EndWait(t)
  <2>1. cmd[t] = "wait" /\ to = "none" /\ UNCHANGED send_mutex
    BY <1>3, <1>13 DEF EndWait, Goes, SessionTypes
  <2>2. Held'
    BY <1>1, <1>3, <1>4, <1>5, <1>8, <2>1 DEF Held, Loose
  <2>. QED BY <1>7, <2>2
<1>. QED BY <1>9, <1>10, <1>11, <1>12, <1>13 DEF rcp_command

\* The keep-alive thread between its commands, and its end.
LEMMA KeeperSession ==
  SessionInv /\ (AliveAgain \/ AliveFails \/ AliveCancelled) => SessionInv'
<1> SUFFICES ASSUME SessionInv, AliveAgain \/ AliveFails \/ AliveCancelled
             PROVE  SessionInv'
  OBVIOUS
<1> USE DEF SessionInv, KeepAlive
<1>1. /\ UNCHANGED <<program, at, send_mutex, cancelled>>
      /\ keep = "runs" /\ keep' \in {"runs", "ended"}
  BY DEF AliveAgain, AliveFails, AliveCancelled, main, keeper
<1>2. \E to \in {"none", "lock"} : cmd' = [cmd EXCEPT !["keep"] = to]
  <2>1. CASE AliveAgain
    BY <2>1 DEF AliveAgain, Call
  <2>2. CASE AliveCancelled
    BY <2>2 DEF AliveCancelled
  <2>3. CASE AliveFails
    <3>1. cmd["keep"] = "none" /\ cmd' = cmd
      BY <2>3 DEF AliveFails
    <3>2. cmd = [cmd EXCEPT !["keep"] = "none"]
      BY <3>1 DEF SessionTypes, Threads
    <3>. QED BY <3>1, <3>2
  <2>. QED BY <2>1, <2>2, <2>3
<1>3. /\ cmd' \in [Threads -> CommandSteps] /\ cmd'["main"] = cmd["main"]
      /\ cmd'["keep"] \in {"none", "lock"}
  BY <1>2 DEF SessionTypes, Threads, CommandSteps
<1>4. SessionTypes' /\ Scripted'
  BY <1>1, <1>3 DEF SessionTypes, Scripted
<1>5. Held'
  BY <1>1, <1>3 DEF Held, Loose
<1>. QED BY <1>4, <1>5

LEMMA StepSession == SessionInv /\ [Next]_vars => SessionInv'
<1> SUFFICES ASSUME SessionInv, [Next]_vars PROVE SessionInv'
  OBVIOUS
<1>1. CASE MainSteps
  BY <1>1, MainSession
<1>2. CASE \E t \in Threads : rcp_command(t)
  BY <1>2, CommandSession
<1>3. CASE AliveAgain \/ AliveFails \/ AliveCancelled
  BY <1>3, KeeperSession
<1>4. CASE UNCHANGED <<main, cmd, send_mutex, keeper>>
  BY <1>4 DEF SessionInv, SessionTypes, Scripted, Held, Loose, KeepAlive, main,
              keeper
<1>5. CASE \E s \in 1 .. Sessions : message_manager_rutine(s)
  <2>1. UNCHANGED <<main, cmd, send_mutex, keeper>>
    BY <1>5 DEF message_manager_rutine, EnterRecv, ManagerCancelled,
                TakePacket, Post, Handle
  <2>. QED BY <1>4, <2>1
<1>6. CASE Finished \/ UNCHANGED vars
  <2>1. UNCHANGED <<main, cmd, send_mutex, keeper>>
    BY <1>6 DEF Finished, vars
  <2>. QED BY <1>4, <2>1
<1>. QED BY <1>1, <1>2, <1>3, <1>5, <1>6 DEF Next

\* Two threads are inside send() at once only in a program that never cancels
\* its keep-alive thread, and only when client_unregister has destroyed the
\* mutex: with any number of sessions, however a cancelled thread leaves the
\* mutex (rcp_send, client_unregister, test_audio.c).
THEOREM SendersStayApart == Spec => []SendersApart
<1>1. SessionInv => SendersApart
  BY DEF SessionInv, Held, Loose, Scripted, TwoSenders, SendersApart
<1>. QED BY <1>1, InitSession, StepSession, PTL DEF Spec

-----------------------------------------------------------------------------
(***************************************************************************)
(* The message managers that stop_message_manager leaves behind.           *)
(***************************************************************************)
StopAt == IF KeepAlive THEN 11 ELSE 7

\* Where the script makes and stops the message manager and its connection.
LEMMA ManagerPlaces ==
  /\ Len(Script) = IF KeepAlive THEN 13 ELSE 9
  /\ \A i \in 1 .. Len(Script) :
       /\ Script[i] = "connect" <=> i = 1
       /\ Script[i] = "create" <=> i = 2
       /\ Script[i] = "stop" <=> i = StopAt
       /\ Script[i] = "close" => i = 9 /\ ~KeepAlive
<1>1. CASE KeepAlive
  <2>1. Script = <<"connect", "create", "sem_init", "register",
                   "client_connect", "spawn", "stream", Quits,
                   "disconnect", "unregister", "stop", "sem_destroy",
                   "return">>
    BY <1>1 DEF Script
  <2>. QED BY <1>1, <2>1 DEF StopAt, Quits
<1>2. CASE ~KeepAlive
  <2>1. Script = <<"connect", "create", "sem_init", "register", "command",
                   "unregister", "stop", "sem_destroy", "close">>
    BY <1>2 DEF Script
  <2>. QED BY <1>2, <2>1 DEF StopAt
<1>. QED BY <1>1, <1>2

StrayTypes ==
  /\ program \in Programs
  /\ session \in 1 .. Sessions /\ at \in Nat \ {0}
  /\ manager \in [1 .. Sessions ->
                    {"none", "loop", "recv", "packet", "handler", "ended"}]
  /\ reads \in [1 .. Sessions -> Int] /\ posts \in [1 .. Sessions -> Nat]
  /\ stopped \subseteq 1 .. Sessions

\* A manager that has not been stopped is the one of the running session, whose
\* connection is open from the start of its manager to the end of it.
Attended ==
  /\ \A s \in 1 .. Sessions :
       manager[s] # "none" /\ s \notin stopped =>
         s = session /\ at \in 3 .. StopAt
  /\ at \in 2 .. StopAt => control_socket = session

\* A manager posts nothing that counts before it is stopped, and once after it:
\* then it is past the only recv that it could still be in.
Strays ==
  \A s \in 1 .. Sessions :
    /\ s \notin stopped => posts[s] = 0
    /\ \/ posts[s] = 0
       \/ posts[s] = 1 /\ manager[s] \in {"handler", "loop", "ended"}

StrayInv == StrayTypes /\ Attended /\ OwnConnection /\ Strays

LEMMA InitStrays == Init => StrayInv
  BY SessionAssumption
  DEF Init, StrayInv, StrayTypes, Attended, OwnConnection, Strays, KeepAlive,
      StopAt

\* A step of the script: the running session gets its manager and stops it.
LEMMA MainStrays == StrayInv /\ MainSteps => StrayInv'
<1> SUFFICES ASSUME StrayInv, MainSteps PROVE StrayInv'
  OBVIOUS
<1> USE DEF StrayInv, KeepAlive
<1>0. program' = program /\ (StopAt)' = StopAt /\ StopAt \in {7, 11}
  BY DEF MainSteps, rcp_connect, CreateManager, OtherStep, StartCommand,
         CreateKeepAlive, CancelKeepAlive, StopManager, rcp_disconnect, Return,
         Ahead, StopAt
<1>1. CASE OtherStep \/ StartCommand \/ CreateKeepAlive \/ CancelKeepAlive
           \/ Return
  <2>1. PICK x \in {"sem_init", "sem_destroy", "stream", "quit", "spawn",
                    "cancel", "return"} \union Commands : Step(x)
    BY <1>1 DEF OtherStep, StartCommand, CreateKeepAlive, CancelKeepAlive,
                Return
  <2>2. at \notin {1, 2, StopAt} /\ at <= Len(Script)
    BY <2>1, ManagerPlaces DEF Step, Commands, StrayTypes
  <2>3. at' = at + 1 /\ UNCHANGED <<session, managers, control_socket>>
    BY <1>1 DEF OtherStep, StartCommand, CreateKeepAlive, CancelKeepAlive,
                Return, Ahead
  <2>4. at' \in 2 .. StopAt => at \in 2 .. StopAt
    BY <1>0, <2>2, <2>3 DEF StrayTypes
  <2>5. at \in 3 .. StopAt => at' \in 3 .. StopAt
    BY <1>0, <2>2, <2>3 DEF StrayTypes
  <2>. QED BY <1>0, <2>3, <2>4, <2>5
           DEF managers, StrayTypes, Attended, OwnConnection, Strays
<1>2. CASE rcp_connect
  <2>1. at = 1
    BY <1>2, ManagerPlaces DEF rcp_connect, Step, StrayTypes
  <2>2. /\ at' = 2 /\ control_socket' = session
        /\ UNCHANGED <<session, managers>>
    BY <1>2, <2>1 DEF rcp_connect, Ahead
  <2>. QED BY <1>0, <2>1, <2>2
           DEF managers, StrayTypes, Attended, OwnConnection, Strays
<1>3. CASE CreateManager
  <2>1. at = 2
    BY <1>3, ManagerPlaces DEF CreateManager, Step, StrayTypes
  <2>2. /\ at' = 3 /\ manager' = [manager EXCEPT ![session] = "loop"]
        /\ UNCHANGED <<session, stopped, reads, posts, control_socket>>
    BY <1>3, <2>1 DEF CreateManager, Ahead
  <2>. QED BY <1>0, <2>1, <2>2
           DEF StrayTypes, Attended, OwnConnection, Strays
<1>4. CASE StopManager
  <2>1. at = StopAt
    BY <1>4, ManagerPlaces DEF StopManager, Step, StrayTypes
  <2>2. /\ at' = at + 1 /\ stopped' = stopped \union {session}
        /\ UNCHANGED <<session, manager, reads, posts, control_socket>>
    BY <1>4 DEF StopManager, Ahead
  <2>. QED BY <1>0, <2>1, <2>2
           DEF StrayTypes, Attended, OwnConnection, Strays
<1>5. CASE rcp_disconnect
  <2>1. at = 9 /\ StopAt = 7
    BY <1>5, ManagerPlaces DEF rcp_disconnect, Step, StrayTypes, StopAt
  <2>2. /\ session' \in 1 .. Sessions /\ at' \in {1, 10}
        /\ UNCHANGED managers
    BY <1>5, <2>1, SessionAssumption DEF rcp_disconnect, StrayTypes
  <2>. QED BY <1>0, <2>1, <2>2
           DEF managers, StrayTypes, Attended, OwnConnection, Strays
<1>. QED BY <1>1, <1>2, <1>3, <1>4, <1>5 DEF MainSteps

\* A step of a manager: only one that is attended enters recv.
LEMMA ManagerStrays ==
  ASSUME StrayInv, NEW s \in 1 .. Sessions, message_manager_rutine(s)
  PROVE  StrayInv'
<1> USE DEF StrayInv, KeepAlive, ManagerGoes
<1>0. /\ program' = program /\ session' = session /\ at' = at
      /\ stopped' = stopped /\ control_socket' = control_socket
      /\ (StopAt)' = StopAt /\ StopAt \in {7, 11}
  BY DEF message_manager_rutine, EnterRecv, ManagerCancelled, TakePacket, Post,
         Handle, main, StopAt
<1>1. CASE EnterRecv(s)
  <2>1. control_socket = s
    BY <1>1 DEF EnterRecv, StrayTypes, Attended
  <2>2. /\ manager' = [manager EXCEPT ![s] = "recv"] /\ manager[s] = "loop"
        /\ reads' = [reads EXCEPT ![s] = control_socket] /\ s \notin stopped
        /\ posts' = posts
    BY <1>1 DEF EnterRecv
  <2>3. StrayTypes'
    BY <1>0, <2>1, <2>2 DEF StrayTypes
  <2>4. Attended'
    BY <1>0, <2>2 DEF Attended, StrayTypes
  <2>5. OwnConnection'
    BY <2>1, <2>2 DEF OwnConnection, StrayTypes
  <2>6. Strays'
    BY <1>0, <2>2 DEF Strays, StrayTypes
  <2>. QED BY <2>3, <2>4, <2>5, <2>6
<1>2. CASE ManagerCancelled(s) \/ TakePacket(s) \/ Handle(s)
  <2>1. /\ \/ manager' = [manager EXCEPT ![s] = "ended"] /\ s \in stopped
              /\ manager[s] \in {"loop", "recv"}
           \/ manager' = [manager EXCEPT ![s] = "packet"]
              /\ manager[s] = "recv"
           \/ manager' = [manager EXCEPT ![s] = "loop"]
              /\ manager[s] = "handler"
        /\ UNCHANGED <<reads, posts>>
    BY <1>2, Zenon DEF ManagerCancelled, TakePacket, Handle
  <2>2. StrayTypes'
    BY <1>0, <2>1 DEF StrayTypes
  <2>3. Attended'
    BY <1>0, <2>1 DEF Attended, StrayTypes
  <2>4. OwnConnection'
    BY <2>1 DEF OwnConnection, StrayTypes
  <2>5. Strays'
    BY <1>0, <2>1 DEF Strays, StrayTypes
  <2>. QED BY <2>2, <2>3, <2>4, <2>5
<1>3. CASE Post(s)
  BY <1>0, <1>3 DEF Post, StrayTypes, Attended, OwnConnection, Strays
<1>. QED BY <1>1, <1>2, <1>3 DEF message_manager_rutine

LEMMA StepStrays == StrayInv /\ [Next]_vars => StrayInv'
<1> SUFFICES ASSUME StrayInv, [Next]_vars PROVE StrayInv'
  OBVIOUS
<1>1. CASE MainSteps
  BY <1>1, MainStrays
<1>2. CASE \E s \in 1 .. Sessions : message_manager_rutine(s)
  BY <1>2, ManagerStrays
<1>3. CASE \/ \E t \in Threads : rcp_command(t)
           \/ AliveAgain \/ AliveFails \/ AliveCancelled
           \/ Finished \/ UNCHANGED vars
  <2>1. UNCHANGED <<main, managers, control_socket>>
    BY <1>3 DEF rcp_command, Lock, BeginSend, EndSend, Unlock, EndWait,
                AliveAgain, AliveFails, AliveCancelled, Finished, vars
  <2>. QED BY <2>1 DEF StrayInv, StrayTypes, Attended, OwnConnection, Strays,
                       KeepAlive, StopAt, main, managers
<1>. QED BY <1>1, <1>2, <1>3 DEF Next

\* However many sessions follow each other, no message manager receives on the
\* connection of another session, although nobody waits for its end.
THEOREM ManagersKeepTheirConnection == Spec => []OwnConnection
<1>1. StrayInv => OwnConnection
  BY DEF StrayInv
<1>. QED BY <1>1, InitStrays, StepStrays, PTL DEF Spec

\* A message manager that was stopped posts one token at most, in whatever
\* session the program is by then.
THEOREM OneTokenAfterTheEnd == Spec => []OneStrayToken
<1>1. StrayInv => OneStrayToken
  BY DEF StrayInv, Strays, StrayTypes, OneStrayToken
<1>. QED BY <1>1, InitStrays, StepStrays, PTL DEF Spec

-----------------------------------------------------------------------------
(***************************************************************************)
(* The handlers of events: which handler is called with what.              *)
(***************************************************************************)
Stages == {"stopped", "init", "clear", "use", "param"}
Steps  == {"none", "recv", "check", "load", "handler", "wait", "ended"}
Looks  == Nat \union {-1}

EventsTypes ==
  /\ doing_main \in Stages
  /\ starts \in 0 .. MaxStarts /\ registrations \in 0 .. MaxRegistrations
  /\ target \in AlarmTags \union {NoAlarm}
  /\ registered_events \in [AlarmTags -> Nat]
  /\ registered_events_param \in [AlarmTags -> Nat]
  /\ newest \in [AlarmTags -> Nat]
  /\ tag_of \in [1 .. MaxRegistrations -> AlarmTags \union {NoAlarm}]
  /\ taker \in [Managers -> Steps]
  /\ message_tag \in [Managers -> AlarmTags \union {NoAlarm}]
  /\ looked \in [Managers -> [handler : Looks, param : Looks]]
  /\ due \in [Managers -> Nat]
  /\ restarted \in [Managers -> BOOLEAN] /\ changed \in [Managers -> BOOLEAN]

\* n is NULL or a registration of the tag t.
OfTag(n, t) == n # NULL => n \in 1 .. registrations /\ tag_of[n] = t

\* The handler of a tag is its newest one, and the parameter too, unless this
\* is just being set or there is no handler.
Tables ==
  \A t \in AlarmTags :
    /\ registered_events[t] = newest[t]
    /\ \/ doing_main = "param" /\ target = t
       \/ newest[t] = NULL
       \/ registered_events_param[t] = newest[t]
    /\ OfTag(newest[t], t) /\ OfTag(registered_events_param[t], t)

\* What is being registered is the newest handler of its tag.
Registering ==
  doing_main = "param" =>
    /\ target \in AlarmTags
    /\ registrations # 0 /\ newest[target] = registrations

\* A manager has looked at nothing before it has found a handler.
NothingYet(k) ==
  /\ k > starts => taker[k] = "none"
  /\ taker[k] \in {"none", "recv", "check", "ended"} => looked[k] = NotLooked

\* What has become of the tables since manager k took its message: only a start
\* takes a handler away, only a registration of the tag puts another one there.
StaysDue(k) ==
  taker[k] \in {"check", "load"} /\ message_tag[k] \in AlarmTags =>
    /\ due[k] <= registrations
    /\ newest[message_tag[k]] = NULL \/ newest[message_tag[k]] >= due[k]
    /\ ~restarted[k] =>
         doing_main \notin {"init", "clear"} /\ newest[message_tag[k]] >= due[k]
    /\ ~changed[k] =>
         /\ newest[message_tag[k]] \in {NULL, due[k]}
         /\ due[k] # NULL => registered_events_param[message_tag[k]] = due[k]
         /\ ~(doing_main = "param" /\ target = message_tag[k])

\* What manager k has loaded, in either order.
LoadsDue(k) ==
  taker[k] = "load" =>
    /\ message_tag[k] \in AlarmTags
    /\ looked[k].handler # -1 => OfTag(looked[k].handler, message_tag[k])
    /\ looked[k].param # -1 => OfTag(looked[k].param, message_tag[k])
    /\ looked[k].handler \in {-1, NULL} \/ looked[k].handler >= due[k]
    /\ ~restarted[k] =>
         newest[message_tag[k]] # NULL /\ looked[k].handler # NULL
    /\ ~changed[k] => /\ due[k] # NULL
                      /\ looked[k].handler \in {-1, NULL, due[k]}
                      /\ looked[k].param \in {-1, due[k]}

ManagerInv == \A k \in Managers : NothingYet(k) /\ StaysDue(k) /\ LoadsDue(k)

\* RightHandler, with registrations that there have been.
CallInv ==
  /\ RightHandler
  /\ call # NoCallYet =>
       OfTag(call.handler, call.tag) /\ OfTag(call.param, call.tag)

EventsInv == EventsTypes /\ Tables /\ Registering /\ ManagerInv /\ CallInv

-----------------------------------------------------------------------------
LEMMA InitEvents == EventsInit => EventsInv
<1> SUFFICES ASSUME EventsInit PROVE EventsInv
  OBVIOUS
<1> USE DEF EventsInit, NULL
<1>1. EventsTypes
  BY EventsAssumption DEF EventsTypes, Stages, Steps, Looks, Managers, NotLooked
<1>2. Tables /\ Registering /\ CallInv
  BY DEF Tables, Registering, CallInv, RightHandler, OfTag
<1>3. ManagerInv
  BY DEF ManagerInv, NothingYet, StaysDue, LoadsDue
<1>. QED BY <1>1, <1>2, <1>3 DEF EventsInv

\* EventsTypes, first for the program and then for the managers.
LEMMA MainTypes == EventsTypes /\ EventsMain => EventsTypes'
<1> SUFFICES ASSUME EventsTypes, EventsMain PROVE EventsTypes'
  OBVIOUS
<1> USE DEF EventsTypes, Stages, MainGoes, takerVars, tables, overlaps, NULL
<1>1. CASE CreateTaker
  <2>1. starts' \in 0 .. MaxStarts /\ taker' \in [Managers -> Steps]
    BY <1>1, EventsAssumption DEF CreateTaker, Managers, Steps
  <2>. QED BY <1>1, <2>1 DEF CreateTaker
<1>2. CASE InitSemaphores
  BY <1>2 DEF InitSemaphores
<1>3. CASE ClearHandlers
  BY <1>3 DEF ClearHandlers
<1>4. CASE \E t \in AlarmTags : RegisterHandler(t)
  <2> PICK t \in AlarmTags : RegisterHandler(t)
    BY <1>4
  <2>1. /\ registrations' \in 0 .. MaxRegistrations
        /\ registrations' = registrations + 1
    BY EventsAssumption DEF RegisterHandler
  <2>2. /\ registered_events' \in [AlarmTags -> Nat]
        /\ newest' \in [AlarmTags -> Nat]
    BY <2>1 DEF RegisterHandler
  <2>3. changed' \in [Managers -> BOOLEAN]
    BY DEF RegisterHandler
  <2>4. tag_of' \in [1 .. MaxRegistrations -> AlarmTags \union {NoAlarm}]
    BY DEF RegisterHandler
  <2>. QED BY <2>1, <2>2, <2>3, <2>4 DEF RegisterHandler
<1>5. CASE RegisterParam
  <2>1. registrations \in Nat
    BY EventsAssumption
  <2>2. [registered_events_param EXCEPT ![target] = registrations] \in
          [AlarmTags -> Nat]
    BY <2>1
  <2>. QED BY <1>5, <2>2 DEF RegisterParam
<1>6. CASE StopTaker
  BY <1>6 DEF StopTaker
<1>. QED BY <1>1, <1>2, <1>3, <1>4, <1>5, <1>6 DEF EventsMain

\* Everything that a manager may do.
ManagerStep(k) ==
  \/ \E t \in AlarmTags \union {NoAlarm} : TakeMessage(k, t)
  \/ Dispatch(k) \/ AskInHandler(k) \/ HandlerReturns(k) \/ Ends(k)

LEMMA ManagerTypes ==
  ASSUME NEW k \in Managers, EventsTypes, ManagerInv, ManagerStep(k)
  PROVE  EventsTypes'
<1> USE DEF EventsTypes, TakerGoes, mainVars, tables, overlaps, NULL
<1>0. ASSUME NEW b \in BOOLEAN
      PROVE  /\ [restarted EXCEPT ![k] = b] \in [Managers -> BOOLEAN]
             /\ [changed EXCEPT ![k] = b] \in [Managers -> BOOLEAN]
  OBVIOUS
<1>1. CASE \E t \in AlarmTags \union {NoAlarm} : TakeMessage(k, t)
  <2> PICK t \in AlarmTags \union {NoAlarm} : TakeMessage(k, t)
    BY <1>1
  <2>1. due' \in [Managers -> Nat]
    BY DEF TakeMessage
  <2>2. /\ (doing_main \in {"init", "clear"}) \in BOOLEAN
        /\ (doing_main = "param" /\ target = t) \in BOOLEAN
    OBVIOUS
  <2>3. restarted' \in [Managers -> BOOLEAN]
    BY <2>2, <1>0, Zenon DEF TakeMessage
  <2>4. changed' \in [Managers -> BOOLEAN]
    BY <2>2, <1>0, Zenon DEF TakeMessage
  <2>. QED BY <2>1, <2>3, <2>4 DEF TakeMessage, Steps
<1>2. ASSUME Forget(k), taker' \in [Managers -> Steps]
      PROVE  EventsTypes'
  BY <1>2, <1>0 DEF Forget, NotLooked, Looks
<1>3. CASE FindHandler(k)
  BY <1>3 DEF FindHandler, Steps
<1>4. CASE NoHandler(k)
  BY <1>4, <1>2 DEF NoHandler, Steps
<1>5. CASE LoadHandler(k) \/ LoadParam(k)
  <2>1. ASSUME NEW x \in Looks
        PROVE  /\ [looked EXCEPT ![k].handler = x] \in
                     [Managers -> [handler : Looks, param : Looks]]
               /\ [looked EXCEPT ![k].param = x] \in
                     [Managers -> [handler : Looks, param : Looks]]
    OBVIOUS
  <2>2. message_tag[k] \in AlarmTags
    BY <1>5 DEF ManagerInv, LoadsDue, LoadHandler, LoadParam
  <2>3. /\ registered_events[message_tag[k]] \in Looks
        /\ registered_events_param[message_tag[k]] \in Looks
    BY <2>2 DEF Looks
  <2>. QED BY <1>5, <2>1, <2>3 DEF LoadHandler, LoadParam
<1>6. CASE CallHandler(k) \/ AskInHandler(k)
  BY <1>6 DEF CallHandler, AskInHandler, Steps
<1>7. CASE HandlerReturns(k)
  BY <1>7, <1>2 DEF HandlerReturns, Steps
<1>8. CASE Ends(k)
  <2>1. CASE GiveUpInHandler(k)
    BY <2>1 DEF GiveUpInHandler, Steps
  <2>2. CASE TakerCancelled(k)
    BY <2>2, <1>2 DEF TakerCancelled, Steps
  <2>. QED BY <1>8, <2>1, <2>2 DEF Ends
<1>. QED BY <1>1, <1>3, <1>4, <1>5, <1>6, <1>7, <1>8 DEF ManagerStep, Dispatch

-----------------------------------------------------------------------------
\* A registration keeps the tags of those before it.
LEMMA TagsStay ==
  ASSUME EventsTypes, EventsMain
  PROVE  /\ registrations' \in Nat /\ registrations <= registrations'
         /\ \A i \in 1 .. registrations : tag_of'[i] = tag_of[i]
<1> USE DEF EventsTypes
<1>1. CASE \E u \in AlarmTags : RegisterHandler(u)
  <2> PICK u \in AlarmTags : RegisterHandler(u)
    BY <1>1
  <2>. QED BY EventsAssumption DEF RegisterHandler
<1>2. CASE UNCHANGED <<registrations, tag_of>>
  BY <1>2
<1>. QED BY <1>1, <1>2 DEF EventsMain, CreateTaker, InitSemaphores,
                           ClearHandlers, RegisterParam, StopTaker, tables

\* What the program does: a call is never changed, and a start or a registration
\* leaves its mark on the messages that it may disturb.
LEMMA MainStep == EventsInv /\ EventsMain => EventsInv'
<1> SUFFICES ASSUME EventsInv, EventsMain PROVE EventsInv'
  OBVIOUS
<1> USE DEF EventsInv
<1>0. EventsTypes'
  BY MainTypes
<1>1. CallInv'
  <2>1. call' = call
    BY DEF EventsMain, CreateTaker, InitSemaphores, ClearHandlers,
           RegisterHandler, RegisterParam, StopTaker
  <2>2. call # NoCallYet =>
          OfTag(call.handler, call.tag)' /\ OfTag(call.param, call.tag)'
    BY <2>1, TagsStay DEF CallInv, OfTag, EventsTypes
  <2>. QED BY <2>1, <2>2 DEF CallInv, RightHandler, OfTag
<1>2. /\ registrations' \in Nat /\ registrations <= registrations'
      /\ \A i \in 1 .. registrations : tag_of'[i] = tag_of[i]
  BY TagsStay
<1> USE DEF MainGoes, NULL, EventsTypes, Registering, ManagerInv
<1>3. CASE CreateTaker
  <2>1. Tables' /\ Registering'
    BY <1>3 DEF CreateTaker, tables, Tables, OfTag
  <2>2. ASSUME NEW k \in Managers
        PROVE  NothingYet(k)' /\ StaysDue(k)' /\ LoadsDue(k)'
    <3>1. restarted'[k] = TRUE /\ UNCHANGED <<tables, looked, due, changed>>
      BY <1>3 DEF CreateTaker
    <3>2. taker'[k] = IF k = starts' THEN "recv" ELSE taker[k]
      BY <1>3 DEF CreateTaker, Managers
    <3>3. /\ starts' = starts + 1 /\ doing_main' = "init"
          /\ UNCHANGED <<message_tag, registrations>>
      BY <1>3 DEF CreateTaker
    <3>4. NothingYet(k)'
      BY <3>1, <3>2, <3>3, EventsAssumption DEF NothingYet, Managers
    <3>5. StaysDue(k)'
      BY <3>1, <3>2, <3>3 DEF StaysDue, tables
    <3>6. LoadsDue(k)'
      BY <3>1, <3>2, <3>3 DEF LoadsDue, OfTag, tables
    <3>. QED BY <3>4, <3>5, <3>6
  <2>. QED BY <1>0, <1>1, <2>1, <2>2
<1>4. CASE InitSemaphores
  <2>1. Tables' /\ Registering'
    BY <1>4 DEF InitSemaphores, tables, Tables, OfTag
  <2>2. ManagerInv'
    BY <1>4 DEF InitSemaphores, tables, takerVars, overlaps, NothingYet,
                StaysDue, LoadsDue, OfTag
  <2>. QED BY <1>0, <1>1, <2>1, <2>2
<1>5. CASE ClearHandlers
  <2>1. Tables' /\ Registering'
    BY <1>5 DEF ClearHandlers, Tables, OfTag
  <2>2. ASSUME NEW k \in Managers
        PROVE  NothingYet(k)' /\ StaysDue(k)' /\ LoadsDue(k)'
    <3>1. /\ UNCHANGED <<starts, takerVars, overlaps, registrations, tag_of,
                         registered_events_param>>
          /\ doing_main = "clear" /\ doing_main' = "use"
          /\ \A t \in AlarmTags : newest'[t] = NULL
      BY <1>5 DEF ClearHandlers
    <3>2. taker[k] \in {"check", "load"} /\ message_tag[k] \in AlarmTags =>
            restarted[k]
      BY <3>1 DEF StaysDue
    <3>3. StaysDue(k)'
      BY <3>1, <3>2 DEF StaysDue, takerVars, overlaps
    <3>4. NothingYet(k)' /\ LoadsDue(k)'
      BY <3>1, <3>2 DEF NothingYet, LoadsDue, OfTag, takerVars, overlaps
    <3>. QED BY <3>3, <3>4
  <2>. QED BY <1>0, <1>1, <2>1, <2>2
<1>6. CASE \E t \in AlarmTags : RegisterHandler(t)
  <2> PICK t \in AlarmTags : RegisterHandler(t)
    BY <1>6
  <2>0. /\ registrations' = registrations + 1
        /\ doing_main = "use" /\ doing_main' = "param" /\ target' = t
        /\ newest' = [newest EXCEPT ![t] = registrations']
        /\ registered_events' = [registered_events EXCEPT ![t] = registrations']
        /\ UNCHANGED <<registered_events_param, starts, takerVars, restarted>>
    BY DEF RegisterHandler
  <2>1. OfTag(registrations, t)'
    BY <2>0, EventsAssumption DEF RegisterHandler, OfTag
  <2>2. Tables' /\ Registering'
    <3>1. ASSUME NEW u \in AlarmTags
          PROVE  OfTag(newest[u], u)' /\ OfTag(registered_events_param[u], u)'
      <4>1. newest'[u] = IF u = t THEN registrations' ELSE newest[u]
        BY <2>0
      <4>2. OfTag(newest[u], u) /\ OfTag(registered_events_param[u], u)
        BY DEF Tables
      <4>. QED BY <2>0, <2>1, <1>2, <4>1, <4>2 DEF OfTag
    <3>. QED BY <2>0, <3>1, EventsAssumption DEF Tables, OfTag
  <2>3. ASSUME NEW k \in Managers
        PROVE  NothingYet(k)' /\ StaysDue(k)' /\ LoadsDue(k)'
    <3>1. ~changed'[k] => ~changed[k] /\ message_tag[k] # t
      BY DEF RegisterHandler
    <3>2. /\ newest'[t] = registrations + 1
          /\ \A u \in AlarmTags \ {t} : newest'[u] = newest[u]
      BY <2>0
    <3>3. StaysDue(k)'
      <4>1. UNCHANGED <<taker, message_tag, due, restarted,
                        registered_events_param>>
        BY <2>0 DEF takerVars
      <4>2. StaysDue(k) /\ registrations \in Nat /\ due[k] \in Nat
        BY EventsAssumption
      <4> HIDE DEF EventsInv, EventsTypes, ManagerInv, Registering
      <4>3. CASE message_tag[k] = t
        <5>1. due[k] <= registrations => newest'[t] >= due[k]
          BY <3>2, <4>2
        <5>2. due[k] <= registrations => due[k] <= registrations'
          BY <2>0, <4>2
        <5>3. doing_main' \notin {"init", "clear"}
          BY <2>0
        <5>. QED BY <3>1, <4>1, <4>2, <4>3, <5>1, <5>2, <5>3 DEF StaysDue
      <4>4. CASE message_tag[k] # t
        <5>1. message_tag[k] \in AlarmTags =>
                newest'[message_tag[k]] = newest[message_tag[k]]
          BY <3>2, <4>4
        <5>2. due[k] <= registrations => due[k] <= registrations'
          BY <2>0, <4>2
        <5>3. doing_main' \notin {"init", "clear"} /\ target' # message_tag[k]
          BY <2>0, <4>4
        <5>. QED BY <3>1, <4>1, <4>2, <5>1, <5>2, <5>3 DEF StaysDue
      <4>. QED BY <4>3, <4>4
    <3>4. LoadsDue(k)'
      <4>1. taker[k] = "load" =>
              /\ looked[k].handler # -1 =>
                   OfTag(looked[k].handler, message_tag[k])'
              /\ looked[k].param # -1 => OfTag(looked[k].param, message_tag[k])'
        <5>1. UNCHANGED <<taker, message_tag, looked>>
          BY <2>0 DEF takerVars
        <5>2. taker[k] = "load" =>
                /\ looked[k].handler # -1 =>
                     OfTag(looked[k].handler, message_tag[k])
                /\ looked[k].param # -1 =>
                     OfTag(looked[k].param, message_tag[k])
          BY DEF LoadsDue
        <5>. QED BY <5>1, <5>2, <1>2 DEF OfTag
      <4>. QED BY <2>0, <3>1, <3>2, <4>1 DEF LoadsDue, takerVars, OfTag
    <3>5. NothingYet(k)'
      BY <2>0 DEF NothingYet, takerVars
    <3>. QED BY <3>3, <3>4, <3>5
  <2>. QED BY <1>0, <1>1, <2>2, <2>3
<1>7. CASE RegisterParam
  <2>0. /\ UNCHANGED <<starts, registrations, newest, registered_events, tag_of,
                       takerVars, overlaps>>
        /\ doing_main = "param" /\ doing_main' = "use"
        /\ registered_events_param' =
             [registered_events_param EXCEPT ![target] = registrations]
    BY <1>7 DEF RegisterParam
  <2>1. Tables' /\ Registering'
    <3>1. OfTag(registrations, target)
      BY <2>0 DEF Tables
    <3>. QED BY <2>0, <3>1 DEF Tables, OfTag
  <2>2. ASSUME NEW k \in Managers
        PROVE  NothingYet(k)' /\ StaysDue(k)' /\ LoadsDue(k)'
    <3>1. StaysDue(k)'
      BY <2>0 DEF StaysDue, takerVars, overlaps
    <3>2. NothingYet(k)' /\ LoadsDue(k)'
      BY <2>0 DEF NothingYet, LoadsDue, OfTag, takerVars, overlaps
    <3>. QED BY <3>1, <3>2
  <2>. QED BY <1>0, <1>1, <2>1, <2>2
<1>8. CASE StopTaker
  <2>1. Tables' /\ Registering'
    BY <1>8 DEF StopTaker, tables, Tables, OfTag
  <2>2. ManagerInv'
    BY <1>8 DEF StopTaker, tables, takerVars, overlaps, NothingYet, StaysDue,
                LoadsDue, OfTag
  <2>. QED BY <1>0, <1>1, <2>1, <2>2
<1>. QED BY <1>3, <1>4, <1>5, <1>6, <1>7, <1>8 DEF EventsMain

\* A manager touches neither the tables nor another manager.
LEMMA OtherManagers ==
  ASSUME NEW k \in Managers, EventsTypes, ManagerStep(k)
  PROVE  /\ UNCHANGED <<mainVars, tables>>
         /\ \A j \in Managers \ {k} :
              /\ taker'[j] = taker[j] /\ message_tag'[j] = message_tag[j]
              /\ looked'[j] = looked[j] /\ due'[j] = due[j]
              /\ restarted'[j] = restarted[j] /\ changed'[j] = changed[j]
  BY DEF EventsTypes, ManagerStep, TakeMessage, Dispatch, FindHandler,
         NoHandler, LoadHandler, LoadParam, CallHandler, AskInHandler,
         HandlerReturns, Ends, GiveUpInHandler, TakerCancelled, TakerGoes,
         Forget, overlaps

\* What it does to itself.
LEMMA ThisManager ==
  ASSUME NEW k \in Managers, EventsInv, ManagerStep(k)
  PROVE  NothingYet(k)' /\ StaysDue(k)' /\ LoadsDue(k)' /\ CallInv'
<1>0. UNCHANGED <<mainVars, tables>>
  BY OtherManagers DEF EventsInv
<1> USE DEF EventsInv, EventsTypes, ManagerInv, TakerGoes, NULL
<1>1. UNCHANGED call => CallInv'
  BY <1>0 DEF CallInv, RightHandler, OfTag, mainVars, tables
<1>2. CASE \E t \in AlarmTags \union {NoAlarm} : TakeMessage(k, t)
  <2> PICK t \in AlarmTags \union {NoAlarm} : TakeMessage(k, t)
    BY <1>2
  <2>1. taker'[k] = "check" /\ message_tag'[k] = t /\ call' = call
    BY DEF TakeMessage
  <2>2. t \in AlarmTags => due'[k] = newest[t]
    BY EventsAssumption DEF TakeMessage
  <2>3. /\ ~restarted'[k] => doing_main \notin {"init", "clear"}
        /\ ~changed'[k] => ~(doing_main = "param" /\ target = t)
    BY DEF TakeMessage
  <2>4. StaysDue(k)'
    <3>1. t \in AlarmTags =>
            /\ newest[t] \in 0 .. registrations /\ newest'[t] = newest[t]
            /\ registered_events_param'[t] = registered_events_param[t]
            /\ \/ doing_main = "param" /\ target = t
               \/ newest[t] = NULL
               \/ registered_events_param[t] = newest[t]
      BY <1>0, EventsAssumption DEF Tables, OfTag, tables
    <3>2. UNCHANGED <<doing_main, target, registrations>>
      BY <1>0 DEF mainVars
    <3>3. t \in AlarmTags => newest[t] \in Nat /\ registrations \in Nat
      BY EventsAssumption
    <3> HIDE DEF EventsInv, EventsTypes, ManagerInv
    <3>. QED BY <2>1, <2>2, <2>3, <3>1, <3>2, <3>3 DEF StaysDue
  <2>5. NothingYet(k)' /\ LoadsDue(k)'
    BY <1>0, <2>1 DEF TakeMessage, NothingYet, LoadsDue, mainVars
  <2>. QED BY <1>1, <2>1, <2>4, <2>5
<1>3. ASSUME Forget(k), taker'[k] \in {"recv", "ended"}, k <= starts
      PROVE  NothingYet(k)' /\ StaysDue(k)' /\ LoadsDue(k)'
  BY <1>3 DEF Forget, NothingYet, StaysDue, LoadsDue, Managers, mainVars
<1>4. CASE FindHandler(k)
  <2>1. message_tag[k] \in AlarmTags /\ newest[message_tag[k]] # NULL
    BY <1>4 DEF FindHandler, Handled, Tables
  <2>2. /\ taker[k] = "check" /\ taker'[k] = "load" /\ looked[k] = NotLooked
        /\ UNCHANGED <<message_tag, looked, due, overlaps, call>>
    BY <1>4 DEF FindHandler, NothingYet
  <2>3. StaysDue(k)'
    BY <1>0, <2>2 DEF StaysDue, mainVars, tables, overlaps
  <2>4. LoadsDue(k)'
    BY <1>0, <2>1, <2>2
    DEF StaysDue, LoadsDue, NotLooked, mainVars, tables, overlaps
  <2>5. NothingYet(k)'
    BY <1>0, <2>2 DEF NothingYet, mainVars
  <2>. QED BY <1>1, <2>2, <2>3, <2>4, <2>5
<1>5. CASE NoHandler(k)
  <2>1. taker'[k] = "recv" /\ k <= starts
    BY <1>5 DEF NoHandler, NothingYet, Managers
  <2>. QED BY <1>1, <1>3, <1>5, <2>1 DEF NoHandler
<1>6. CASE LoadHandler(k) \/ LoadParam(k)
  <2>1. /\ taker[k] = "load" /\ message_tag[k] \in AlarmTags
        /\ UNCHANGED <<taker, message_tag, due, overlaps, call>>
    BY <1>6 DEF LoadHandler, LoadParam, LoadsDue
  <2>2. \/ /\ looked'[k].handler = newest[message_tag[k]]
           /\ looked'[k].param = looked[k].param
        \/ /\ looked'[k].param = registered_events_param[message_tag[k]]
           /\ looked'[k].handler = looked[k].handler
    BY <1>6, <2>1 DEF LoadHandler, LoadParam, Tables
  <2>3. /\ OfTag(newest[message_tag[k]], message_tag[k])
        /\ OfTag(registered_events_param[message_tag[k]], message_tag[k])
    BY <2>1 DEF Tables
  <2>4. LoadsDue(k)'
    BY <1>0, <2>1, <2>2, <2>3
    DEF StaysDue, LoadsDue, OfTag, mainVars, tables, overlaps
  <2>5. NothingYet(k)' /\ StaysDue(k)'
    BY <1>0, <2>1 DEF NothingYet, StaysDue, mainVars, tables, overlaps
  <2>. QED BY <1>1, <2>1, <2>4, <2>5
<1>7. CASE CallHandler(k)
  <2>1. taker[k] = "load" /\ taker'[k] = "handler"
    BY <1>7 DEF CallHandler
  <2>2. /\ looked[k].handler # -1 /\ looked[k].param # -1
        /\ call' = [handler |-> looked[k].handler, param |-> looked[k].param,
                    tag |-> message_tag[k], due |-> due[k],
                    restarted |-> restarted[k], changed |-> changed[k]]
    BY <1>7 DEF CallHandler
  <2>3. /\ OfTag(looked[k].handler, message_tag[k])
        /\ OfTag(looked[k].param, message_tag[k])
    BY <2>1, <2>2 DEF LoadsDue
  <2>4. CallInv'
    BY <1>0, <2>1, <2>2, <2>3
    DEF CallInv, RightHandler, LoadsDue, OfTag, mainVars, tables
  <2>5. NothingYet(k)' /\ StaysDue(k)' /\ LoadsDue(k)'
    BY <1>0, <2>1 DEF NothingYet, StaysDue, LoadsDue, mainVars
  <2>. QED BY <2>4, <2>5
<1>8. CASE AskInHandler(k) \/ GiveUpInHandler(k)
  <2>1. /\ taker'[k] \in {"handler", "wait"} /\ taker[k] \in {"handler", "wait"}
        /\ call' = call
    BY <1>8 DEF AskInHandler, GiveUpInHandler
  <2>2. NothingYet(k)' /\ StaysDue(k)' /\ LoadsDue(k)'
    BY <1>0, <2>1 DEF NothingYet, StaysDue, LoadsDue, mainVars
  <2>. QED BY <1>1, <2>1, <2>2
<1>9. CASE HandlerReturns(k)
  <2>1. taker'[k] = "recv" /\ k <= starts
    BY <1>9 DEF HandlerReturns, NothingYet, Managers
  <2>. QED BY <1>3, <1>9, <2>1 DEF HandlerReturns, CallInv, RightHandler
<1>10. CASE TakerCancelled(k)
  <2>0. taker' = [taker EXCEPT ![k] = "ended"] /\ taker[k] \in {"recv", "wait"}
    BY <1>10 DEF TakerCancelled
  <2>1. taker'[k] = "ended" /\ k <= starts
    BY <2>0 DEF NothingYet, Managers
  <2>. QED BY <1>1, <1>3, <1>10, <2>1 DEF TakerCancelled
<1>. QED BY <1>2, <1>4, <1>5, <1>6, <1>7, <1>8, <1>9, <1>10
         DEF ManagerStep, Dispatch, Ends

LEMMA EventsStep == EventsInv /\ [EventsNext]_eventsVars => EventsInv'
<1> SUFFICES ASSUME EventsInv, [EventsNext]_eventsVars PROVE EventsInv'
  OBVIOUS
<1>1. CASE EventsMain
  BY <1>1, MainStep
<1>2. ASSUME NEW k \in Managers, ManagerStep(k) PROVE EventsInv'
  <2>1. EventsTypes'
    BY <1>2, ManagerTypes DEF EventsInv
  <2>2. UNCHANGED <<mainVars, tables>>
    BY <1>2, OtherManagers DEF EventsInv
  <2>3. Tables' /\ Registering'
    BY <2>2 DEF EventsInv, Tables, Registering, OfTag, mainVars, tables
  <2>4. NothingYet(k)' /\ StaysDue(k)' /\ LoadsDue(k)' /\ CallInv'
    BY <1>2, ThisManager
  <2>5. ASSUME NEW j \in Managers \ {k}
        PROVE  NothingYet(j)' /\ StaysDue(j)' /\ LoadsDue(j)'
    <3>1. /\ taker'[j] = taker[j] /\ message_tag'[j] = message_tag[j]
          /\ looked'[j] = looked[j] /\ due'[j] = due[j]
          /\ restarted'[j] = restarted[j] /\ changed'[j] = changed[j]
      BY <1>2, OtherManagers DEF EventsInv
    <3>2. NothingYet(j) /\ StaysDue(j) /\ LoadsDue(j)
      BY DEF EventsInv, ManagerInv
    <3>. QED BY <2>2, <3>1, <3>2
             DEF mainVars, tables, NothingYet, StaysDue, LoadsDue, OfTag
  <2>6. ManagerInv'
    <3>1. Managers' = Managers
      BY DEF Managers
    <3>. QED BY <2>4, <2>5, <3>1 DEF ManagerInv
  <2>. QED BY <2>1, <2>3, <2>4, <2>6 DEF EventsInv
<1>3. CASE UNCHANGED eventsVars
  <2>1. EventsTypes' /\ Tables' /\ Registering' /\ CallInv'
    BY <1>3 DEF EventsInv, EventsTypes, Tables, Registering, CallInv,
                RightHandler, OfTag, eventsVars, mainVars, tables, takerVars,
                overlaps
  <2>2. ManagerInv'
    BY <1>3 DEF EventsInv, ManagerInv, NothingYet, StaysDue, LoadsDue, OfTag,
                eventsVars, mainVars, tables, takerVars, overlaps
  <2>. QED BY <2>1, <2>2 DEF EventsInv
<1>. QED BY <1>1, <1>2, <1>3 DEF EventsNext, ManagerStep

-----------------------------------------------------------------------------
\* register_event, start_message_manager, message_manager_rutine: for any number
\* of starts and registrations, NULL is called only when a start has overlapped
\* the message, another handler than the one due or another parameter than its
\* own only when a registration of the same tag has, and nothing that was
\* registered for another tag ever is.
THEOREM HandlersGetTheirParameter == EventsSpec => []RightHandler
<1>1. EventsSpec => []EventsInv
  BY InitEvents, EventsStep, PTL DEF EventsSpec
<1>2. EventsInv => RightHandler
  BY DEF EventsInv, CallInv
<1>. QED BY <1>1, <1>2, PTL

-----------------------------------------------------------------------------
(***************************************************************************)
(* Registrations and streams at the devices.                               *)
(***************************************************************************)
\* The operations between the registration and its end.
Within == {"client_connect", "use", "client_disconnect", "unregister"}

AccessTypes ==
  /\ visit \in Nat /\ place \in Places
  /\ turn \in {"random", "register", "close", "closed"} \union Within
  /\ clients \in [Places -> SUBSET [id : Identifiers, of : Nat]]
  /\ turn # "closed" => visit > 0

\* A device gives no identifier twice.
Distinct ==
  \A d \in Places : \A e, f \in clients[d] : e.id = f.id => e = f

\* A session that is registered has its own identifier in con.
OwnIdentifier ==
  turn \in Within /\ visit \notin refused_in =>
    [id |-> client_id, of |-> visit] \in clients[place]

\* The identifier in con is of a session that has been registered.
Inherited ==
  /\ refused_in \subseteq 1 .. visit
  /\ turn \in {"random", "register"} => visit \notin refused_in
  /\ client_id # 0 =>
       \E u \in 1 .. visit \ refused_in :
         turn \in {"random", "register"} => u # visit

AccessInv ==
  AccessTypes /\ Distinct /\ OwnIdentifier /\ Inherited /\ OthersStay

-----------------------------------------------------------------------------
LEMMA InitAccess == AccessInit => AccessInv
  BY DEF AccessInit, AccessInv, AccessTypes, Distinct, OwnIdentifier,
         Inherited, OthersStay, Within

\* A registration of a free number keeps the numbers apart.
LEMMA TakesFree ==
  ASSUME AccessTypes, Distinct, NEW d \in Places, NEW n \in Free(clients[d]),
         NEW v \in Nat,
         clients' = [clients EXCEPT ![d] = @ \union {[id |-> n, of |-> v]}]
  PROVE  /\ clients' \in [Places -> SUBSET [id : Identifiers, of : Nat]]
         /\ Distinct'
         /\ [id |-> n, of |-> v] \in clients'[d]
         /\ \A b \in Places : clients[b] \subseteq clients'[b]
<1>1. n \in Identifiers /\ \A e \in clients[d] : e.id # n
  BY DEF Free
<1>2. clients'[d] = clients[d] \union {[id |-> n, of |-> v]}
  BY DEF AccessTypes
<1>3. \A b \in Places \ {d} : clients'[b] = clients[b]
  BY DEF AccessTypes
<1>4. clients' \in [Places -> SUBSET [id : Identifiers, of : Nat]]
  <2>1. clients[d] \union {[id |-> n, of |-> v]} \in
          SUBSET [id : Identifiers, of : Nat]
    BY <1>1 DEF AccessTypes
  <2>. QED BY <2>1 DEF AccessTypes
<1>5. Distinct'
  BY <1>1, <1>2, <1>3 DEF Distinct
<1>. QED BY <1>2, <1>3, <1>4, <1>5

\* So does a registration that is taken away.
LEMMA GivesBack ==
  ASSUME AccessTypes, Distinct, NEW d \in Places,
      NEW rest \in SUBSET clients[d],
         clients' = [clients EXCEPT ![d] = rest]
  PROVE  /\ clients' \in [Places -> SUBSET [id : Identifiers, of : Nat]]
         /\ Distinct'
         /\ clients'[d] = rest
         /\ \A b \in Places \ {d} : clients'[b] = clients[b]
<1>1. clients'[d] = rest
  BY DEF AccessTypes
<1>2. \A b \in Places \ {d} : clients'[b] = clients[b]
  BY DEF AccessTypes
<1>3. clients' \in [Places -> SUBSET [id : Identifiers, of : Nat]]
  <2>1. rest \in SUBSET [id : Identifiers, of : Nat]
    BY DEF AccessTypes
  <2>. QED BY <2>1 DEF AccessTypes
<1>4. Distinct'
  BY <1>1, <1>2 DEF Distinct
<1>. QED BY <1>1, <1>2, <1>3, <1>4

LEMMA AccessStep == AccessInv /\ [AccessNext]_accessVars => AccessInv'
<1> SUFFICES ASSUME AccessInv, [AccessNext]_accessVars PROVE AccessInv'
  OBVIOUS
<1> USE DEF AccessInv, Does, Succeeds, Fails, Within
<1>1. CASE EnterDevice
  <2>1. Inherited'
    BY <1>1 DEF EnterDevice, AccessTypes, Inherited
  <2>. QED BY <1>1, <2>1 DEF EnterDevice, tableVars, AccessTypes, Distinct,
                             OwnIdentifier, OthersStay
<1>2. CASE get_md5_random \/ LeaveDevice
  <2>1. Inherited'
    BY <1>2 DEF get_md5_random, LeaveDevice, Inherited
  <2>. QED BY <1>2, <2>1 DEF get_md5_random, LeaveDevice, AccessTypes, Distinct,
                             OwnIdentifier, OthersStay
<1>3. CASE client_register
  <2>1. PICK n \in Free(clients[place]) : Registered(n) /\ client_id' = n
    BY <1>3 DEF client_register
  <2>2. /\ clients' \in [Places -> SUBSET [id : Identifiers, of : Nat]]
        /\ Distinct' /\ [id |-> n, of |-> visit] \in clients'[place]
    BY <2>1, TakesFree DEF Registered, AccessTypes
  <2>3. Inherited'
    BY <1>3 DEF client_register, Registers, AccessTypes, Inherited
  <2>. QED BY <1>3, <2>1, <2>2, <2>3 DEF client_register, Registers,
                                         AccessTypes, OwnIdentifier, OthersStay
<1>4. CASE RegisterFails
  <2>1. clients' \in [Places -> SUBSET [id : Identifiers, of : Nat]]
        /\ Distinct'
    <3>1. CASE \E n \in Free(clients[place]) : Registered(n)
      BY <3>1, TakesFree DEF Registered, AccessTypes
    <3>2. CASE UNCHANGED clients
      BY <3>2 DEF AccessTypes, Distinct
    <3>. QED BY <1>4, <3>1, <3>2 DEF RegisterFails
  <2>2. Inherited'
    BY <1>4 DEF RegisterFails, Registers, AccessTypes, Inherited
  <2>3. OthersStay'
    <3>1. visit \notin harmed_in
      BY <1>4 DEF RegisterFails, Registers, Inherited, OthersStay
    <3>2. \A v \in harmed_in : v \in 1 .. visit
      BY DEF Inherited, OthersStay
    <3>. QED BY <1>4, <3>1, <3>2 DEF RegisterFails, Registers, AccessTypes,
                                     OthersStay
  <2>. QED BY <1>4, <2>1, <2>2, <2>3 DEF RegisterFails, Registers, AccessTypes,
                                         OwnIdentifier
<1>5. CASE client_connect \/ ConnectFails \/ NoStream \/ UseStream
  <2>1. UNCHANGED <<visit, place, client_id, clients, harmed_in, refused_in>>
    BY <1>5 DEF client_connect, ConnectFails, NoStream, UseStream, Connects
  <2>2. turn \in Within /\ turn' \in Within
    BY <1>5 DEF client_connect, ConnectFails, NoStream, UseStream, Connects
  <2>. QED BY <2>1, <2>2 DEF AccessTypes, Distinct, OwnIdentifier, Inherited,
                             OthersStay
<1>6. CASE client_disconnect
  <2>1. UNCHANGED <<visit, place, client_id, clients, harmed_in, refused_in>>
    BY <1>6 DEF client_disconnect
  <2>2. turn \in Within /\ turn' \in Within
    BY <1>6 DEF client_disconnect
  <2>. QED BY <2>1, <2>2 DEF AccessTypes, Distinct, OwnIdentifier, Inherited,
                             OthersStay
<1>7. CASE client_unregister
  <2>1. /\ turn = "unregister" /\ turn' = "close"
        /\ UNCHANGED <<visit, place, client_id, refused_in>>
    BY <1>7 DEF client_unregister
  <2>0. Inherited'
    BY <2>1 DEF Inherited
  <2>2. CASE UNCHANGED <<clients, harmed_in>>
    BY <2>0, <2>1, <2>2 DEF AccessTypes, Distinct, OwnIdentifier, OthersStay
  <2>3. CASE Unregistered
    <3>1. /\ clients' \in [Places -> SUBSET [id : Identifiers, of : Nat]]
          /\ Distinct'
      <4>1. clients' = [clients EXCEPT ![place] =
                          {e \in clients[place] : e.id # client_id}]
        BY <2>3 DEF Unregistered
      <4>2. {e \in clients[place] : e.id # client_id} \in
              SUBSET clients[place]
        OBVIOUS
      <4>. QED BY <4>1, <4>2, GivesBack DEF AccessTypes
    \* Who is registered has no number of another client.
    <3>2. visit \notin refused_in =>
            [id |-> client_id, of |-> Guest] \notin clients[place]
      BY <2>1 DEF AccessTypes, Distinct, OwnIdentifier, Guest
    \* Who is not has its number from an earlier session.
    <3>3. visit \in refused_in =>
            \E u \in 1 .. visit - 1 : u \notin refused_in
      <4>1. client_id # 0
        BY <2>3, AccessAssumption DEF Unregistered, IsClient, AccessTypes
      <4>. QED BY <4>1 DEF AccessTypes, Inherited
    <3>4. OthersStay'
      BY <2>1, <2>3, <3>2, <3>3 DEF Unregistered, OthersStay
    <3>. QED BY <2>0, <2>1, <3>1, <3>4 DEF AccessTypes, OwnIdentifier
  <2>. QED BY <1>7, <2>2, <2>3 DEF client_unregister
<1>8. ASSUME NEW d \in Places, GuestComes(d) PROVE AccessInv'
  <2>1. /\ clients' \in [Places -> SUBSET [id : Identifiers, of : Nat]]
        /\ Distinct' /\ \A b \in Places : clients[b] \subseteq clients'[b]
    BY <1>8, TakesFree DEF GuestComes, Guest
  <2>. QED BY <1>8, <2>1 DEF GuestComes, scriptVars, AccessTypes, OwnIdentifier,
                             Inherited, OthersStay
<1>9. ASSUME NEW d \in Places, GuestLeaves(d) PROVE AccessInv'
  <2>1. PICK e \in clients[d] :
          e.of = Guest /\ clients' = [clients EXCEPT ![d] = @ \ {e}]
    BY <1>9 DEF GuestLeaves
  <2>2. /\ clients' \in [Places -> SUBSET [id : Identifiers, of : Nat]]
        /\ Distinct' /\ clients'[d] = clients[d] \ {e}
        /\ \A b \in Places \ {d} : clients'[b] = clients[b]
    <3>1. clients[d] \ {e} \in SUBSET clients[d]
      OBVIOUS
    <3>. QED BY <2>1, <3>1, GivesBack
  <2>3. turn \in Within => [id |-> client_id, of |-> visit] # e
    BY <2>1 DEF AccessTypes, Guest
  <2>. QED BY <1>9, <2>2, <2>3 DEF GuestLeaves, scriptVars, AccessTypes,
                                   OwnIdentifier, Inherited, OthersStay
<1>10. CASE UNCHANGED accessVars
  BY <1>10 DEF accessVars, scriptVars, tableVars, AccessTypes, Distinct,
               OwnIdentifier, Inherited, OthersStay
<1>. QED BY <1>1, <1>2, <1>3, <1>4, <1>5, <1>6, <1>7, <1>8, <1>9, <1>10
         DEF AccessNext

-----------------------------------------------------------------------------
\* client_register, client_unregister: for any devices and identifiers, any
\* number of sessions and of other clients, a session takes another client's
\* registration away only when it was refused and an earlier one was not.
THEOREM RegistrationsOfOthersStay == AccessSpec => []OthersStay
<1>1. AccessSpec => []AccessInv
  BY InitAccess, AccessStep, PTL DEF AccessSpec
<1>2. AccessInv => OthersStay
  BY DEF AccessInv
<1>. QED BY <1>1, <1>2, PTL

-----------------------------------------------------------------------------
\* What a session leaves behind.  Nothing at a device is of a later session.
Past ==
  /\ streams \in [Places -> SUBSET [id : Identifiers, of : Nat]]
  /\ \A d \in Places : \A x \in clients[d] \union streams[d] : x.of <= visit

\* What this session has at its device has the identifiers that it knows, as
\* long as the commands that get them and give them back have not failed.
Holdings ==
  /\ turn \in {"random", "register"} => Mine(clients) = {}
  /\ turn \in {"random", "register", "client_connect"} => Mine(streams) = {}
  /\ turn \in Within /\ "register" \notin failed =>
       \A x \in Mine(clients) : x.id = client_id
  /\ turn \in {"use", "client_disconnect"} /\ "client_connect" \notin failed =>
       \A x \in Mine(streams) : x.id = session_id
  /\ /\ turn \in {"unregister", "close"}
     /\ "client_connect" \notin failed /\ "client_disconnect" \notin failed
     => Mine(streams) = {}
  /\ turn = "close" /\ "register" \notin failed /\ "unregister" \notin failed =>
       Mine(clients) = {}

RemainsInv == AccessTypes /\ Past /\ Holdings

LEMMA InitRemains == AccessInit => RemainsInv
  BY InitAccess
  DEF AccessInit, AccessInv, RemainsInv, Past, Holdings, Mine, AccessTypes,
      Within

LEMMA RemainsStep ==
  AccessInv /\ RemainsInv /\ [AccessNext]_accessVars => RemainsInv'
<1> SUFFICES ASSUME AccessInv, RemainsInv, [AccessNext]_accessVars
             PROVE  Past' /\ Holdings'
  BY AccessStep DEF RemainsInv, AccessInv
<1> USE DEF RemainsInv, Does, Succeeds, Fails, Within, Mine
<1>1. CASE EnterDevice
  BY <1>1 DEF EnterDevice, tableVars, AccessTypes, Past, Holdings
<1>2. CASE get_md5_random
  BY <1>2 DEF get_md5_random, Past, Holdings
<1>3. CASE LeaveDevice
  BY <1>3 DEF LeaveDevice, Past, Holdings
<1>4. CASE client_register
  <2>1. PICK n \in Free(clients[place]) : Registered(n) /\ client_id' = n
    BY <1>4 DEF client_register
  <2>2. /\ clients'[place] =
             clients[place] \union {[id |-> n, of |-> visit]}
        /\ \A d \in Places \ {place} : clients'[d] = clients[d]
    BY <2>1 DEF Registered, AccessTypes
  <2>. QED BY <1>4, <2>1, <2>2
           DEF client_register, Registers, AccessTypes, Past, Holdings
<1>5. CASE RegisterFails
  <2>1. Past'
    <3>1. CASE UNCHANGED clients
      BY <1>5, <3>1 DEF RegisterFails, Registers, Past
    <3>2. ASSUME NEW n \in Free(clients[place]), Registered(n) PROVE Past'
      <4>1. /\ clients'[place] =
                 clients[place] \union {[id |-> n, of |-> visit]}
            /\ \A d \in Places \ {place} : clients'[d] = clients[d]
        BY <3>2 DEF Registered, AccessTypes
      <4>. QED BY <1>5, <4>1 DEF RegisterFails, Registers, AccessTypes, Past
    <3>. QED BY <1>5, <3>1, <3>2 DEF RegisterFails
  <2>. QED BY <1>5, <2>1 DEF RegisterFails, Registers, Holdings
<1>6. ASSUME NEW n \in Free(streams[place]), Opened(n)
      PROVE  /\ streams'[place] =
                  streams[place] \union {[id |-> n, of |-> visit]}
             /\ \A d \in Places \ {place} : streams'[d] = streams[d]
             /\ streams' \in [Places -> SUBSET [id : Identifiers, of : Nat]]
  <2>1. streams[place] \union {[id |-> n, of |-> visit]} \in
          SUBSET [id : Identifiers, of : Nat]
    BY <1>6 DEF Free, Past, AccessTypes
  <2>. QED BY <1>6, <2>1 DEF Opened, Past, AccessTypes
<1>7. CASE client_connect
  <2>1. PICK n \in Free(streams[place]) : Opened(n) /\ session_id' = n
    BY <1>7 DEF client_connect
  <2>. QED BY <1>7, <2>1, <1>6
           DEF client_connect, Connects, AccessTypes, Past, Holdings
<1>8. CASE ConnectFails
  <2>1. Past'
    <3>1. CASE UNCHANGED streams
      BY <1>8, <3>1 DEF ConnectFails, Connects, Past
    <3>2. ASSUME NEW n \in Free(streams[place]), Opened(n) PROVE Past'
      BY <1>8, <3>2, <1>6 DEF ConnectFails, Connects, AccessTypes, Past
    <3>. QED BY <1>8, <3>1, <3>2 DEF ConnectFails
  <2>. QED BY <1>8, <2>1 DEF ConnectFails, Connects, Holdings
<1>9. CASE NoStream \/ UseStream
  BY <1>9 DEF NoStream, UseStream, Past, Holdings
<1>10. CASE client_disconnect
  <2>1. CASE Closed
    <3>1. streams'[place] = {x \in streams[place] : x.id # session_id}
      BY <2>1 DEF Closed, AccessTypes, Past
    <3>2. \A d \in Places \ {place} : streams'[d] = streams[d]
      BY <2>1 DEF Closed, AccessTypes, Past
    <3>3. streams' \in [Places -> SUBSET [id : Identifiers, of : Nat]]
      <4>1. {x \in streams[place] : x.id # session_id} \in
              SUBSET [id : Identifiers, of : Nat]
        BY DEF AccessTypes, Past
      <4>. QED BY <2>1, <4>1 DEF Closed, AccessTypes, Past
    <3>. QED BY <1>10, <3>1, <3>2, <3>3
             DEF client_disconnect, AccessTypes, Past, Holdings
  <2>2. CASE Fails("client_disconnect") /\ UNCHANGED streams
    BY <1>10, <2>2 DEF client_disconnect, Past, Holdings
  <2>. QED BY <1>10, <2>1, <2>2 DEF client_disconnect
<1>11. CASE client_unregister
  <2>1. CASE Unregistered
    <3>1. /\ clients'[place] = {e \in clients[place] : e.id # client_id}
          /\ \A d \in Places \ {place} : clients'[d] = clients[d]
      BY <2>1 DEF Unregistered, AccessTypes
    <3>. QED BY <1>11, <3>1 DEF client_unregister, AccessTypes, Past, Holdings
  <2>2. CASE Fails("unregister") /\ UNCHANGED <<clients, harmed_in>>
    BY <1>11, <2>2 DEF client_unregister, Past, Holdings
  <2>. QED BY <1>11, <2>1, <2>2 DEF client_unregister
<1>12. ASSUME NEW d \in Places, GuestComes(d) PROVE Past' /\ Holdings'
  <2>1. PICK n \in Free(clients[d]) :
          clients' = [clients EXCEPT ![d] = @ \union
                        {[id |-> n, of |-> Guest]}]
    BY <1>12 DEF GuestComes
  <2>2. /\ clients'[d] = clients[d] \union {[id |-> n, of |-> Guest]}
        /\ \A b \in Places \ {d} : clients'[b] = clients[b]
    BY <2>1 DEF AccessTypes
  <2>3. Past'
    BY <1>12, <2>2 DEF GuestComes, scriptVars, Guest, AccessTypes, Past
  <2>4. turn # "closed" => Mine(clients)' = Mine(clients)
    BY <1>12, <2>2 DEF GuestComes, scriptVars, Guest, AccessTypes
  <2>. QED BY <1>12, <2>3, <2>4 DEF GuestComes, scriptVars, Holdings
<1>13. ASSUME NEW d \in Places, GuestLeaves(d) PROVE Past' /\ Holdings'
  <2>1. PICK e \in clients[d] :
          e.of = Guest /\ clients' = [clients EXCEPT ![d] = @ \ {e}]
    BY <1>13 DEF GuestLeaves
  <2>2. /\ clients'[d] = clients[d] \ {e}
        /\ \A b \in Places \ {d} : clients'[b] = clients[b]
    BY <2>1 DEF AccessTypes
  <2>. QED BY <1>13, <2>2 DEF GuestLeaves, scriptVars, AccessTypes, Past,
      Holdings
<1>14. CASE UNCHANGED accessVars
  BY <1>14 DEF accessVars, scriptVars, tableVars, Past, Holdings
<1>. QED BY <1>1, <1>2, <1>3, <1>4, <1>5, <1>7, <1>8, <1>9, <1>10, <1>11,
            <1>12, <1>13, <1>14 DEF AccessNext

\* client_register ... client_unregister: for any devices, identifiers and
\* number of sessions, one leaves its registration at the device only when
\* registering or unregistering has failed, and its stream only when connecting
\* or disconnecting has, whatever else fails and whatever earlier ones have
\* left there.
THEOREM SessionsLeaveNothing == AccessSpec => []LeavesNothing
<1>1. AccessInit => AccessInv /\ RemainsInv
  BY InitAccess, InitRemains
<1>2. AccessInv /\ RemainsInv /\ [AccessNext]_accessVars =>
        AccessInv' /\ RemainsInv'
  BY AccessStep, RemainsStep
<1>3. RemainsInv => LeavesNothing
  BY DEF RemainsInv, Holdings, Mine, LeavesNothing
<1>. QED BY <1>1, <1>2, <1>3, PTL DEF AccessSpec
=============================================================================
