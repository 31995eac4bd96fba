------------------------------ MODULE RcpEvents ------------------------------
(***************************************************************************)
(* Events: the tables of register_event, which start_message_manager       *)
(* clears, and the message managers, which look into them without a lock.  *)
(*                                                                         *)
(* The n-th registration gives handler n the parameter n, so a call shows  *)
(* which registrations it was put together from.  A manager takes three    *)
(* looks at the tables for one message.  A handler runs on the manager; it *)
(* may give a command, whose answer nobody can receive meanwhile.          *)
(*                                                                         *)
(* A program may stop its manager and start another one.  The old one is   *)
(* not joined: it goes on to its next cancellation point, which is recv or *)
(* the wait of a command in a handler.                                     *)
(***************************************************************************)
EXTENDS Integers

CONSTANTS AlarmTags,         \* tags below MAX_ALARM_TAG
          MaxStarts,         \* bound: calls of start_message_manager
          MaxRegistrations   \* bound: calls of register_event

NULL == 0
NoAlarm == "other"    \* a tag that is not below MAX_ALARM_TAG

ASSUME EventsAssumption ==
  /\ NoAlarm \notin AlarmTags
  /\ MaxStarts \in Nat /\ MaxRegistrations \in Nat

Managers == 1 .. MaxStarts

VARIABLES
  doing_main,   \* "stopped", "init", "clear", "use" or "param"
  starts,       \* counter; the number of the last manager
  registrations,  \* counter; the number of the last registration
  target,       \* the tag that is being registered
  registered_events, registered_events_param,
  taker,        \* taker[k]: where manager k is
  message_tag,  \* the tag of the message that each manager has
  looked,       \* what each manager has loaded from the tables
  halted,       \* the managers that have been cancelled
  \* History.
  newest,       \* the last registration of each tag since the tables were
                \* cleared
  tag_of,       \* the tag of each registration
  due,          \* newest of the tag, when the manager took its message
  restarted,    \* a start was under way then, or has begun since
  changed,      \* the same of a registration of this tag
  call          \* the call of a handler that has been made last

tables    == <<registered_events, registered_events_param, newest, tag_of>>
mainVars  == <<doing_main, starts, registrations, target>>
takerVars == <<taker, message_tag, looked, due>>
overlaps  == <<restarted, changed>>
eventsVars == <<mainVars, tables, takerVars, halted, overlaps, call>>

NotLooked == [handler |-> -1, param |-> -1]
NoCallYet == [handler |-> -1, param |-> -1, tag |-> NoAlarm, due |-> NULL,
              restarted |-> FALSE, changed |-> FALSE]

EventsInit ==
  /\ doing_main = "stopped" /\ starts = 0 /\ registrations = 0
  /\ target = NoAlarm
  /\ registered_events = [t \in AlarmTags |-> NULL]
  /\ registered_events_param = [t \in AlarmTags |-> NULL]
  /\ taker = [k \in Managers |-> "none"]
  /\ message_tag = [k \in Managers |-> NoAlarm]
  /\ looked = [k \in Managers |-> NotLooked]
  /\ halted = {}
  /\ newest = [t \in AlarmTags |-> NULL]
  /\ tag_of = [n \in 1 .. MaxRegistrations |-> NoAlarm]
  /\ due = [k \in Managers |-> NULL]
  /\ restarted = [k \in Managers |-> FALSE]
  /\ changed = [k \in Managers |-> FALSE]
  /\ call = NoCallYet

\* The program has called NULL.
Crashed == call.handler = NULL

-----------------------------------------------------------------------------
MainGoes(from, to) ==
  ~Crashed /\ doing_main = from /\ doing_main' = to

\* start_message_manager: the thread, the semaphores, the table of handlers.
CreateTaker ==
  /\ MainGoes("stopped", "init")
  /\ starts < MaxStarts /\ starts' = starts + 1
  /\ taker' = [taker EXCEPT ![starts'] = "recv"]
  /\ restarted' = [k \in Managers |-> TRUE]
  /\ UNCHANGED <<registrations, target, tables, message_tag, looked,
                 due, halted, changed, call>>

InitSemaphores ==
  /\ MainGoes("init", "clear")
  /\ UNCHANGED <<starts, registrations, target, tables, takerVars, halted,
                 overlaps, call>>

\* Mutant: the handlers are not cleared.
ClearNothing ==
  /\ MainGoes("clear", "use")
  /\ newest' = [t \in AlarmTags |-> NULL]
  /\ UNCHANGED <<starts, registrations, target, registered_events,
                 registered_events_param, tag_of, takerVars, halted, overlaps,
                 call>>

\* The parameters stay.
ClearHandlers ==
  /\ MainGoes("clear", "use")
  /\ registered_events' = [t \in AlarmTags |-> NULL]
  /\ newest' = [t \in AlarmTags |-> NULL]
  /\ UNCHANGED <<starts, registrations, target, registered_events_param,
                 tag_of, takerVars, halted, overlaps, call>>

\* register_event.
RegisterHandler(t) ==
  /\ MainGoes("use", "param")
  /\ registrations < MaxRegistrations /\ registrations' = registrations + 1
  /\ target' = t
  /\ registered_events' = [registered_events EXCEPT ![t] = registrations']
  /\ newest' = [newest EXCEPT ![t] = registrations']
  /\ tag_of' = [tag_of EXCEPT ![registrations'] = t]
  /\ changed' = [k \in Managers |-> changed[k] \/ message_tag[k] = t]
  /\ UNCHANGED <<starts, registered_events_param, takerVars, halted, restarted,
                 call>>

RegisterParam ==
  /\ MainGoes("param", "use")
  /\ registered_events_param' =
       [registered_events_param EXCEPT ![target] = registrations]
  /\ target' = NoAlarm
  /\ UNCHANGED <<starts, registrations, registered_events, newest, tag_of,
                 takerVars, halted, overlaps, call>>

\* stop_message_manager.
StopTaker ==
  /\ MainGoes("use", "stopped")
  /\ halted' = halted \union {starts}
  /\ UNCHANGED <<starts, registrations, target, tables, takerVars, overlaps,
                 call>>

-----------------------------------------------------------------------------
\* message_manager_rutine of manager k.
TakerGoes(k, from, to) ==
  ~Crashed /\ taker[k] = from /\ taker' = [taker EXCEPT ![k] = to]

\* Any message: an event, or the late answer to a command; answers have tags
\* too, and call the handler of theirs.
TakeMessage(k, t) ==
  /\ k \notin halted
  /\ TakerGoes(k, "recv", "check")
  /\ message_tag' = [message_tag EXCEPT ![k] = t]
  /\ due' = [due EXCEPT ![k] = IF t = NoAlarm THEN NULL ELSE newest[t]]
  /\ restarted' = [restarted EXCEPT ![k] = doing_main \in {"init", "clear"}]
  /\ changed' = [changed EXCEPT ![k] = doing_main = "param" /\ target = t]
  /\ UNCHANGED <<mainVars, tables, looked, halted, call>>

\* tag < MAX_ALARM_TAG && registered_events[tag] != NULL.
Handled(t) == t # NoAlarm /\ registered_events[t] # NULL
FindHandler(k) ==
  /\ Handled(message_tag[k]) /\ TakerGoes(k, "check", "load")
  /\ UNCHANGED <<mainVars, tables, message_tag, looked, due, halted, overlaps,
                 call>>

\* The manager is done with its message.
Forget(k) ==
  /\ message_tag' = [message_tag EXCEPT ![k] = NoAlarm]
  /\ looked' = [looked EXCEPT ![k] = NotLooked]
  /\ due' = [due EXCEPT ![k] = NULL]
  /\ restarted' = [restarted EXCEPT ![k] = FALSE]
  /\ changed' = [changed EXCEPT ![k] = FALSE]
  /\ UNCHANGED <<mainVars, tables, halted>>

NoHandler(k) ==
  /\ ~Handled(message_tag[k]) /\ TakerGoes(k, "check", "recv")
  /\ Forget(k) /\ UNCHANGED call

\* The handler and its parameter are loaded again, in either order.
LoadHandler(k) ==
  /\ ~Crashed /\ taker[k] = "load" /\ looked[k].handler = -1
  /\ looked' = [looked EXCEPT ![k].handler = registered_events[message_tag[k]]]
  /\ UNCHANGED <<mainVars, tables, taker, message_tag, due, halted,
                 overlaps, call>>

\* Mutant: the parameter is taken from the last registration, whatever its tag.
LoadLastParam(k) ==
  /\ ~Crashed /\ taker[k] = "load" /\ looked[k].param = -1
  /\ looked' = [looked EXCEPT ![k].param = registrations]
  /\ UNCHANGED <<mainVars, tables, taker, message_tag, due, halted,
                 overlaps, call>>

LoadParam(k) ==
  /\ ~Crashed /\ taker[k] = "load" /\ looked[k].param = -1
  /\ looked' =
       [looked EXCEPT ![k].param = registered_events_param[message_tag[k]]]
  /\ UNCHANGED <<mainVars, tables, taker, message_tag, due, halted,
                 overlaps, call>>

CallHandler(k) ==
  /\ looked[k].handler # -1 /\ looked[k].param # -1
  /\ TakerGoes(k, "load", "handler")
  /\ call' = [handler |-> looked[k].handler, param |-> looked[k].param,
              tag |-> message_tag[k], due |-> due[k],
              restarted |-> restarted[k], changed |-> changed[k]]
  /\ UNCHANGED <<mainVars, tables, message_tag, looked, due, halted,
                 overlaps>>

\* The handler gives a command: it is sent, and its answer stays in the socket.
AskInHandler(k) ==
  /\ TakerGoes(k, "handler", "wait")
  /\ UNCHANGED <<mainVars, tables, message_tag, looked, due, halted,
                 overlaps, call>>

\* Mutant: the wait has no limit.
GiveUpInHandlerNever(k) == FALSE /\ k \in Managers /\ UNCHANGED eventsVars

\* Ten seconds are over.
GiveUpInHandler(k) ==
  /\ k \notin halted
  /\ TakerGoes(k, "wait", "handler")
  /\ UNCHANGED <<mainVars, tables, message_tag, looked, due, halted,
                 overlaps, call>>

HandlerReturns(k) ==
  /\ TakerGoes(k, "handler", "recv")
  /\ Forget(k) /\ call' = NoCallYet

\* In recv or in sem_timedwait.
TakerCancelled(k) ==
  /\ k \in halted
  /\ TakerGoes(k, "recv", "ended") \/ TakerGoes(k, "wait", "ended")
  /\ Forget(k) /\ UNCHANGED call

-----------------------------------------------------------------------------
EventsMain ==
  \/ CreateTaker \/ InitSemaphores \/ ClearHandlers
  \/ (\E t \in AlarmTags : RegisterHandler(t)) \/ RegisterParam \/ StopTaker

\* What manager k does by itself.
Dispatch(k) ==
  \/ FindHandler(k) \/ NoHandler(k)
  \/ LoadHandler(k) \/ LoadParam(k) \/ CallHandler(k)
Ends(k) == GiveUpInHandler(k) \/ TakerCancelled(k)

EventsNext ==
  \/ EventsMain
  \/ \E k \in Managers :
       \/ \E t \in AlarmTags \union {NoAlarm} : TakeMessage(k, t)
       \/ Dispatch(k) \/ AskInHandler(k) \/ HandlerReturns(k) \/ Ends(k)

EventsSpec == EventsInit /\ [][EventsNext]_eventsVars

-----------------------------------------------------------------------------
\* Who calls which handler with what, when start_message_manager and
\* register_event change the tables under a message manager that is at work
\* (register_event, start_message_manager, message_manager_rutine):
\*   - NULL is called only when a start has run while the manager had the
\*     message, and never because of a registration;
\*   - a handler that is not the one that was registered for the tag when the
\*     message came is a newer one, and its registration ran meanwhile;
\*   - a handler has the parameter of another registration only when one of
\*     this very tag ran meanwhile, and then of an earlier or later one for the
\*     same tag: never what has been registered for another tag.
\* Registrations of other tags, handlers that give commands and a manager that
\* has been stopped and not joined do no harm.
RightHandler ==
  call # NoCallYet =>
    /\ call.handler = NULL => call.restarted
    /\ call.handler \notin {NULL, call.due} =>
         call.changed /\ call.handler > call.due
    /\ call.handler \notin {NULL, call.param} => call.changed
    /\ \A n \in {call.handler, call.param} \ {NULL} : tag_of[n] = call.tag

\* Nothing has changed the tables for the message that manager k has.
Calm(k) == ~restarted[k] /\ ~changed[k]

\* A manager that has taken a message for a handler, or waits in a handler.
Busy(k) ==
  \/ taker[k] = "check" /\ Calm(k) /\ due[k] # NULL
  \/ taker[k] = "wait"

\* A message for which a handler is registered calls it, unless the handler is
\* just being changed, and a handler that gives a command goes on, although it
\* waits for an answer that only its own thread could receive: the limit of ten
\* seconds in rcp_command ends each wait (message_manager_rutine, rcp_command).
EventsHandled ==
  \A k \in Managers :
    Busy(k) ~> \/ taker[k] \in {"handler", "ended"} \/ Crashed
               \/ taker[k] \in {"check", "load"} /\ ~Calm(k)
=============================================================================
