----------------------------- MODULE RcpSession -----------------------------
(***************************************************************************)
(* A program that uses the library, from rcp_connect to rcp_disconnect,    *)
(* with the life of its threads, of the mutex and of the semaphores.       *)
(*                                                                         *)
(* The main thread follows the script of the examples: with a stream and a *)
(* keep-alive thread that is cancelled before the end (test_h264_udp.c,    *)
(* test_play.c, test_record.c, test_transcode.c) or that is left running   *)
(* (test_audio.c), or one short session after another (bulk_config.c).  A  *)
(* command goes through send_mutex, send, and the wait on a semaphore;     *)
(* what it asks and what the answer says does not matter here, because the *)
(* scripts go on after a failure.                                          *)
(*                                                                         *)
(* pthread_cancel is deferred: a cancelled thread goes on up to its next   *)
(* cancellation point, send, sem_timedwait, sleep or recv, and ends there. *)
(* It does not unlock what it holds, and nobody joins it.                  *)
(***************************************************************************)
EXTENDS Integers, Sequences

CONSTANTS Programs,  \* the kinds of program to look at
          Sessions   \* how many sessions a "series" has

ASSUME SessionAssumption ==
  /\ Programs \subseteq {"stream", "audio", "series"} /\ Sessions \in Nat \ {0}

VARIABLE program     \* the kind of this program
KeepAlive == program \in {"stream", "audio"}

\* test_audio.c closes its window where the others cancel their thread.
Quits == IF program = "audio" THEN "quit" ELSE "cancel"

\* client_register stands for the command get_md5_random too, and for those
\* that only read settings.
Script ==
  IF KeepAlive
  THEN <<"connect", "create", "sem_init", "register", "client_connect",
         "spawn", "stream", Quits, "disconnect", "unregister",
         "stop", "sem_destroy", "return">>
  ELSE <<"connect", "create", "sem_init", "register", "command",
         "unregister", "stop", "sem_destroy", "close">>

Commands == {"register", "client_connect", "command", "disconnect",
             "unregister"}

VARIABLES session,    \* the session the main thread is in
          at,         \* its place in the script
          cmd,        \* where the command of each thread is
          send_mutex, \* "free", the thread that holds it, or "destroyed"
          keep,       \* the keep-alive thread: "none", "runs", "ended"
          cancelled,  \* it has been cancelled
          manager,    \* the message manager of each session
          stopped,    \* the sessions whose message manager was cancelled
          control_socket,   \* the session whose connection con holds, or 0
          reads,      \* the connection on which each manager calls recv
          posts       \* tokens each manager has posted since it was stopped

main == <<program, session, at>>
keeper == <<keep, cancelled>>
managers == <<manager, stopped, reads, posts>>
vars == <<main, cmd, send_mutex, keeper, managers, control_socket>>

Threads == {"main", "keep"}

Init ==
  /\ program \in Programs /\ session = 1 /\ at = 1
  /\ cmd = [t \in Threads |-> "none"]
  /\ send_mutex = "free"   \* zeroed memory is a mutex that is free
  /\ keep = "none" /\ cancelled = FALSE
  /\ manager = [s \in 1 .. Sessions |-> "none"] /\ stopped = {}
  /\ control_socket = 0 /\ reads = [s \in 1 .. Sessions |-> 0]
  /\ posts = [s \in 1 .. Sessions |-> 0]

-----------------------------------------------------------------------------
\* The main thread is about to take the step x of its script.
Step(x) == cmd["main"] = "none" /\ at <= Len(Script) /\ Script[at] = x
Ahead == at' = at + 1 /\ UNCHANGED <<program, session>>
Call(t) == cmd' = [cmd EXCEPT ![t] = "lock"]

\* It returns 0 even when connect fails.
rcp_connect ==
  /\ Step("connect") /\ Ahead
  /\ control_socket' = session
  /\ UNCHANGED <<cmd, send_mutex, keeper, managers>>

\* start_message_manager: the thread first, the semaphores after it.
CreateManager ==
  /\ Step("create") /\ Ahead
  /\ manager' = [manager EXCEPT ![session] = "loop"]
  /\ UNCHANGED <<cmd, send_mutex, keeper, stopped, reads, posts,
                 control_socket>>

\* sem_init and sem_destroy of all the semaphores; the loop of the stream, and
\* the end of the window.
OtherStep ==
  /\ \E x \in {"sem_init", "sem_destroy", "stream", "quit"} : Step(x)
  /\ Ahead
  /\ UNCHANGED <<cmd, send_mutex, keeper, managers, control_socket>>

\* client_register makes the mutex, client_unregister destroys it, each before
\* it sends its command.  A mutex that is held is not destroyed (EBUSY).
StartCommand ==
  /\ \E x \in Commands :
       /\ Step(x)
       /\ send_mutex' =
            CASE x = "register" -> "free"
              [] x = "unregister" /\ send_mutex = "free" -> "destroyed"
              [] OTHER -> send_mutex
  /\ Ahead /\ Call("main")
  /\ UNCHANGED <<keeper, managers, control_socket>>

\* The thread begins with a keep_alive.
CreateKeepAlive ==
  /\ Step("spawn") /\ Ahead
  /\ keep' = "runs" /\ Call("keep")
  /\ UNCHANGED <<send_mutex, cancelled, managers, control_socket>>

\* pthread_cancel, and no join.
CancelKeepAlive ==
  /\ Step("cancel") /\ Ahead
  /\ cancelled' = TRUE
  /\ UNCHANGED <<cmd, send_mutex, keep, managers, control_socket>>

\* Mutant: the thread is not cancelled.
StopManagerNot ==
  /\ Step("stop") /\ Ahead
  /\ UNCHANGED <<cmd, send_mutex, keeper, managers, control_socket>>

\* stop_message_manager: pthread_cancel, and no join.
StopManager ==
  /\ Step("stop") /\ Ahead
  /\ stopped' = stopped \union {session}
  /\ UNCHANGED <<cmd, send_mutex, keeper, manager, reads, posts,
                 control_socket>>

\* rcp_disconnect, and the next device.
rcp_disconnect ==
  /\ Step("close")
  /\ control_socket' = 0
  /\ IF session < Sessions THEN session' = session + 1 /\ at' = 1
                           ELSE at' = at + 1 /\ UNCHANGED session
  /\ UNCHANGED <<program, cmd, send_mutex, keeper, managers>>

Return ==
  /\ Step("return") /\ Ahead
  /\ UNCHANGED <<cmd, send_mutex, keeper, managers, control_socket>>

-----------------------------------------------------------------------------
\* rcp_command of thread t.  A cancelled thread does not begin to send.
Goes(t, from, to) == cmd[t] = from /\ cmd' = [cmd EXCEPT ![t] = to]
Runs(t) == t = "main" \/ keep = "runs"
Cancelled(t) == t = "keep" /\ cancelled

\* Mutant: the mutex is taken whoever holds it.
LockAnyway(t) ==
  /\ Runs(t) /\ Goes(t, "lock", "locked")
  /\ send_mutex' = IF send_mutex = "destroyed" THEN send_mutex ELSE t
  /\ UNCHANGED <<main, keeper, managers, control_socket>>

\* Locking a destroyed mutex fails, which rcp_send does not see.
Lock(t) ==
  /\ Runs(t) /\ Goes(t, "lock", "locked")
  /\ \/ send_mutex = "free" /\ send_mutex' = t
     \/ send_mutex = "destroyed" /\ UNCHANGED send_mutex
  /\ UNCHANGED <<main, keeper, managers, control_socket>>

BeginSend(t) ==
  /\ Runs(t) /\ ~Cancelled(t) /\ Goes(t, "locked", "send")
  /\ UNCHANGED <<main, send_mutex, keeper, managers, control_socket>>

EndSend(t) ==
  /\ Runs(t) /\ Goes(t, "send", "unlock")
  /\ UNCHANGED <<main, send_mutex, keeper, managers, control_socket>>

\* Mutant: the mutex is not unlocked when send has failed.
UnlockUnlessFailed(t) ==
  /\ Runs(t)
  /\ \/ /\ Goes(t, "unlock", "wait")
        /\ send_mutex' = IF send_mutex = t THEN "free" ELSE send_mutex
     \/ Goes(t, "unlock", "none") /\ UNCHANGED send_mutex
  /\ UNCHANGED <<main, keeper, managers, control_socket>>

\* When send has failed, the command is over.
Unlock(t) ==
  /\ Runs(t) /\ (Goes(t, "unlock", "wait") \/ Goes(t, "unlock", "none"))
  /\ send_mutex' = IF send_mutex = t THEN "free" ELSE send_mutex
  /\ UNCHANGED <<main, keeper, managers, control_socket>>

\* The answer or the timeout, ten seconds later.
EndWait(t) ==
  /\ Runs(t) /\ ~Cancelled(t) /\ Goes(t, "wait", "none")
  /\ UNCHANGED <<main, send_mutex, keeper, managers, control_socket>>

rcp_command(t) ==
  Lock(t) \/ BeginSend(t) \/ EndSend(t) \/ Unlock(t) \/ EndWait(t)

-----------------------------------------------------------------------------
\* keep_alive, again after a sleep.
AliveAgain ==
  /\ keep = "runs" /\ ~cancelled /\ cmd["keep"] = "none"
  /\ Call("keep")
  /\ UNCHANGED <<main, send_mutex, keeper, managers, control_socket>>

\* keep_alive has failed: the loop is over.
AliveFails ==
  /\ keep = "runs" /\ cmd["keep"] = "none"
  /\ keep' = "ended"
  /\ UNCHANGED <<main, cmd, send_mutex, cancelled, managers, control_socket>>

\* The cancellation takes effect in sleep, on the way into send, in send and in
\* sem_timedwait.
AliveCancelled ==
  /\ keep = "runs" /\ cancelled
  /\ cmd["keep"] \in {"none", "locked", "send", "wait"}
  /\ keep' = "ended"
  /\ cmd' = [cmd EXCEPT !["keep"] = "none"]
  /\ UNCHANGED <<main, send_mutex, cancelled, managers, control_socket>>

-----------------------------------------------------------------------------
\* The message manager of session s.
ManagerGoes(s, from, to) ==
  manager[s] = from /\ manager' = [manager EXCEPT ![s] = to]

\* Mutant: recv does not look whether the thread is cancelled.
EnterRecvAnyway(s) ==
  /\ ManagerGoes(s, "loop", "recv") /\ posts[s] < 3
  /\ reads' = [reads EXCEPT ![s] = control_socket]
  /\ UNCHANGED <<main, cmd, send_mutex, keeper, stopped, posts,
                 control_socket>>

EnterRecv(s) ==
  /\ s \notin stopped /\ ManagerGoes(s, "loop", "recv")
  /\ reads' = [reads EXCEPT ![s] = control_socket]
  /\ UNCHANGED <<main, cmd, send_mutex, keeper, stopped, posts,
                 control_socket>>

\* recv is a cancellation point.
ManagerCancelled(s) ==
  /\ s \in stopped
  /\ ManagerGoes(s, "loop", "ended") \/ ManagerGoes(s, "recv", "ended")
  /\ UNCHANGED <<main, cmd, send_mutex, keeper, stopped, reads, posts,
                 control_socket>>

\* A packet is complete, perhaps just before the cancellation.
TakePacket(s) ==
  /\ ManagerGoes(s, "recv", "packet")
  /\ UNCHANGED <<main, cmd, send_mutex, keeper, stopped, reads, posts,
                 control_socket>>

Post(s) ==
  /\ ManagerGoes(s, "packet", "handler")
  /\ posts' = [posts EXCEPT ![s] = IF s \in stopped THEN @ + 1 ELSE @]
  /\ UNCHANGED <<main, cmd, send_mutex, keeper, stopped, reads,
                 control_socket>>

Handle(s) ==
  /\ ManagerGoes(s, "handler", "loop")
  /\ UNCHANGED <<main, cmd, send_mutex, keeper, stopped, reads, posts,
                 control_socket>>

message_manager_rutine(s) ==
  EnterRecv(s) \/ ManagerCancelled(s) \/ TakePacket(s) \/ Post(s) \/ Handle(s)

-----------------------------------------------------------------------------
MainEnds == at > Len(Script) /\ cmd["main"] = "none"

Finished == MainEnds /\ UNCHANGED vars

MainSteps ==
  \/ rcp_connect \/ CreateManager \/ OtherStep \/ StartCommand
  \/ CreateKeepAlive \/ CancelKeepAlive \/ StopManager \/ rcp_disconnect
  \/ Return

Next ==
  \/ MainSteps \/ (\E t \in Threads : rcp_command(t))
  \/ AliveAgain \/ AliveFails \/ AliveCancelled
  \/ (\E s \in 1 .. Sessions : message_manager_rutine(s))
  \/ Finished

Spec == Init /\ [][Next]_vars

\* The threads run and every wait ends.  The keep-alive thread sleeps between
\* its commands, so the main thread gets the mutex if it is free again and
\* again.
FairSpec ==
  /\ Spec
  /\ WF_vars(MainSteps)
  /\ \A t \in Threads :
       /\ SF_vars(Lock(t)) /\ WF_vars(BeginSend(t)) /\ WF_vars(EndSend(t))
       /\ WF_vars(Unlock(t)) /\ WF_vars(EndWait(t))
  /\ WF_vars(AliveCancelled)

-----------------------------------------------------------------------------
TwoSenders == cmd["main"] = "send" /\ cmd["keep"] = "send"

\* Two threads are never inside send() - the mutex is there for it - but when
\* client_unregister has destroyed the mutex under a keep-alive thread that
\* nobody has cancelled, as in test_audio.c.  A thread that is cancelled may
\* still lock what is destroyed, but it does not begin to send any more
\* (rcp_send, client_unregister, pthread_cancel in the other examples).
SendersApart ==
  TwoSenders => program = "audio" /\ ~cancelled /\ send_mutex = "destroyed"

\* rcp_send puts send between "pthread_mutex_lock(&send_mutex)" and
\* "pthread_mutex_unlock(&send_mutex)" (rcpcommand.c:78-80), so that packets do
\* not mix on the way to the device.
OneSender == ~TwoSenders

\* A message manager never receives on the connection of another session, even
\* though nobody waits for its end and descriptors are used again
\* (stop_message_manager, rcp_disconnect, rcp_connect).
OwnConnection ==
  \A s \in 1 .. Sessions : manager[s] = "recv" => reads[s] = s

\* After stop_message_manager the old thread posts one token and calls one
\* handler at most: what a later session may find in its semaphores.
OneStrayToken == \A s \in 1 .. Sessions : posts[s] <= 1

\* A series of sessions and a program that leaves its keep-alive thread running
\* come to their end, however often send() or a wait fails (bulk_config.c,
\* test_audio.c; rcp_send gives the mutex back in every case).
UncancelledEnd == program # "stream" => <>MainEnds

\* The script comes to its end: "client_disconnect", "client_unregister",
\* "stop_message_manager", "return 0" (test_h264_udp.c:118-124).
ProgramEnds == <>MainEnds
=============================================================================
