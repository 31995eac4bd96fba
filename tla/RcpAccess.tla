------------------------------ MODULE RcpAccess ------------------------------
(***************************************************************************)
(* Access to devices: a program registers at a device, opens a stream and  *)
(* closes both again, at one device after the other (client_register ...   *)
(* client_unregister, as test_h264_udp.c and bulk_config.c call them).     *)
(*                                                                         *)
(* The examples look at no result and go on.  Every command may get lost   *)
(* or be refused, or be obeyed while its answer is lost or late.  The      *)
(* client identifier is kept in the global con, which nobody resets; the   *)
(* session identifier in a variable that is zeroed for each session.       *)
(*                                                                         *)
(* The device is external: it gives each client a number that is free, or  *)
(* refuses it when there is none, and obeys commands of registered clients *)
(* only.  Other clients register and leave meanwhile.                      *)
(***************************************************************************)
EXTENDS Integers, FiniteSets

CONSTANTS Places,       \* the devices
          Guarded,      \* those with a password
          Identifiers,  \* what a device numbers clients and streams with
          MaxVisits,    \* bound: sessions
          MaxGuests     \* bound: registrations of other clients

ASSUME AccessAssumption ==
  /\ Guarded \subseteq Places
  /\ Identifiers \subseteq Nat \ {0}
  /\ MaxVisits \in Nat /\ MaxGuests \in Nat

VARIABLES
  visit,        \* the number of this session
  place,        \* the device of this session
  turn,         \* the operation of the script that is next
  challenge,    \* in MD5 mode: what get_md5_random has left on the stack
  client_id,    \* con.client_id
  session_id,   \* session->session_id
  clients,      \* clients[d]: the registrations at d: identifier, session
  streams,      \* streams[d]: the streams at d
  guests,       \* counter
  \* History.
  failed,       \* the operations of this session that have failed
  refused_in,   \* sessions in which client_register has not returned 0
  harmed_in     \* sessions that have unregistered another client

scriptVars == <<visit, place, turn>>
tableVars  == <<clients, streams, guests>>
accessVars == <<scriptVars, challenge, client_id, session_id, tableVars,
                failed, refused_in, harmed_in>>

Guest == 0   \* what is not of a session

AccessInit ==
  /\ visit = 0 /\ place \in Places /\ turn = "closed"
  /\ challenge = "none"
  /\ client_id = 0 /\ session_id = 0
  /\ clients = [d \in Places |-> {}] /\ streams = [d \in Places |-> {}]
  /\ guests = 0
  /\ failed = {} /\ refused_in = {} /\ harmed_in = {}

-----------------------------------------------------------------------------
\* What the device does with a request.
Free(table) == Identifiers \ {e.id : e \in table}
IsClient(c) == \E e \in clients[place] : e.id = c

\* A passphrase has the password itself, or the challenge and a response that
\* was recorded at a device without one: it fits no other challenge.
generate_passphrase(password) ==
  IF challenge = "none" THEN [word |-> password]
  ELSE [challenge |-> challenge, response |-> "recorded"]
Accepts(phrase) ==
  \/ place \notin Guarded
  \/ "word" \in DOMAIN phrase /\ phrase.word = "right"
Admitted == \E w \in {"right", "wrong"} : Accepts(generate_passphrase(w))

-----------------------------------------------------------------------------
\* rcp_connect and start_message_manager at the next device.
EnterDevice ==
  /\ turn = "closed" /\ visit < MaxVisits
  /\ visit' = visit + 1 /\ place' \in Places
  /\ \/ turn' = "random" /\ challenge' = "junk"
     \/ turn' = "register" /\ challenge' = "none"
  /\ UNCHANGED <<client_id, session_id, tableVars, failed, refused_in,
                 harmed_in>>

\* The next operation is next, whatever comes of this one.
Does(op, next) ==
  /\ turn = op /\ turn' = next
  /\ UNCHANGED <<visit, place, guests>>
Succeeds == UNCHANGED <<failed, refused_in>>
\* The command is lost or refused (obeyed = FALSE), or only its answer is lost.
Fails(op) == failed' = failed \union {op} /\ UNCHANGED refused_in

get_md5_random ==
  /\ Does("random", "register")
  /\ \/ challenge' = "fresh" /\ Succeeds
     \/ Fails("random") /\ UNCHANGED challenge
  /\ UNCHANGED <<client_id, session_id, clients, streams, harmed_in>>

Registered(n) ==
  clients' = [clients EXCEPT ![place] = @ \union {[id |-> n, of |-> visit]}]
Registers ==
  /\ Does("register", "client_connect")
  /\ challenge' = "none"
  /\ UNCHANGED <<session_id, streams, harmed_in>>

\* Mutant: an identifier that is there already is kept.
client_registerOnce ==
  /\ Registers /\ Admitted /\ Succeeds
  /\ \E n \in Free(clients[place]) :
       Registered(n) /\ client_id' = IF client_id = 0 THEN n ELSE client_id

client_register ==
  /\ Registers /\ Admitted /\ Succeeds
  /\ \E n \in Free(clients[place]) : Registered(n) /\ client_id' = n

\* The device says no, or the answer is lost; the identifier stays what it was.
RegisterFails ==
  /\ Registers
  /\ \/ Admitted /\ \E n \in Free(clients[place]) : Registered(n)
     \/ UNCHANGED clients
  /\ failed' = failed \union {"register"}
  /\ refused_in' = refused_in \union {visit}
  /\ UNCHANGED client_id

Opened(n) ==
  streams' = [streams EXCEPT ![place] = @ \union {[id |-> n, of |-> visit]}]
Connects ==
  /\ Does("client_connect", "use")
  /\ UNCHANGED <<challenge, client_id, clients, harmed_in>>

\* Mutant: the session of the request is kept.
client_connectOwn ==
  /\ Connects /\ IsClient(client_id) /\ Succeeds
  /\ \E n \in Free(streams[place]) : Opened(n)
  /\ UNCHANGED session_id

\* "Access granted"; the session is in the header of the answer.
client_connect ==
  /\ Connects /\ IsClient(client_id) /\ Succeeds
  /\ \E n \in Free(streams[place]) : Opened(n) /\ session_id' = n

ConnectFails ==
  /\ Connects
  /\ \/ IsClient(client_id) /\ \E n \in Free(streams[place]) : Opened(n)
     \/ UNCHANGED streams
  /\ Fails("client_connect") /\ UNCHANGED session_id

\* A program without a stream goes on with its commands and then unregisters.
NoStream ==
  /\ Does("client_connect", "unregister")
  /\ Succeeds
  /\ UNCHANGED <<challenge, client_id, session_id, clients, streams, harmed_in>>

\* keep_alive, request_intraframe and request_sps_pps name the session; they
\* change nothing here.
UseStream ==
  /\ Does("use", "use") \/ Does("use", "client_disconnect")
  /\ Succeeds \/ Fails("use")
  /\ UNCHANGED <<challenge, client_id, session_id, clients, streams, harmed_in>>

Closed ==
  /\ IsClient(client_id)
  /\ streams' = [streams EXCEPT ![place] = {x \in @ : x.id # session_id}]
client_disconnect ==
  /\ Does("client_disconnect", "unregister")
  /\ \/ Closed /\ (Succeeds \/ Fails("client_disconnect"))
     \/ Fails("client_disconnect") /\ UNCHANGED streams
  /\ UNCHANGED <<challenge, client_id, session_id, clients, harmed_in>>

\* The device takes the identifier in the header off its table.
Unregistered ==
  /\ IsClient(client_id)
  /\ clients' = [clients EXCEPT ![place] = {e \in @ : e.id # client_id}]
  /\ harmed_in' = IF [id |-> client_id, of |-> Guest] \in clients[place]
                  THEN harmed_in \union {visit} ELSE harmed_in
client_unregister ==
  /\ Does("unregister", "close")
  /\ \/ Unregistered /\ (Succeeds \/ Fails("unregister"))
     \/ Fails("unregister") /\ UNCHANGED <<clients, harmed_in>>
  /\ UNCHANGED <<challenge, client_id, session_id, streams>>

\* stop_message_manager and rcp_disconnect; the next session has a new variable.
LeaveDevice ==
  /\ Does("close", "closed")
  /\ session_id' = 0 /\ failed' = {}
  /\ UNCHANGED <<challenge, client_id, clients, streams, refused_in, harmed_in>>

GuestComes(d) ==
  /\ guests < MaxGuests /\ guests' = guests + 1
  /\ \E n \in Free(clients[d]) :
       clients' = [clients EXCEPT ![d] = @ \union {[id |-> n, of |-> Guest]}]
  /\ UNCHANGED <<scriptVars, challenge, client_id, session_id, streams, failed,
                 refused_in, harmed_in>>
GuestLeaves(d) ==
  /\ \E e \in clients[d] :
       /\ e.of = Guest
       /\ clients' = [clients EXCEPT ![d] = @ \ {e}]
  /\ UNCHANGED <<scriptVars, challenge, client_id, session_id, streams, guests,
                 failed, refused_in, harmed_in>>

AccessNext ==
  \/ EnterDevice \/ get_md5_random \/ client_register \/ RegisterFails
  \/ client_connect \/ ConnectFails \/ NoStream \/ UseStream
  \/ client_disconnect \/ client_unregister \/ LeaveDevice
  \/ \E d \in Places : GuestComes(d) \/ GuestLeaves(d)

AccessSpec == AccessInit /\ [][AccessNext]_accessVars

-----------------------------------------------------------------------------
\* What the session in progress has at its device.
Mine(table) == {x \in table[place] : x.of = visit}

\* A session leaves its registration behind only when client_register or
\* client_unregister has failed, and its stream only when client_connect or
\* client_disconnect has: no other failure does that - not even a registration
\* that failed, after which the commands go out with whatever identifier con
\* still has - and nothing that earlier sessions have left in con and at the
\* devices ("this ID has to be provided in all following RCP commands",
\* rcpplus.h:35; client_unregister, client_disconnect).
LeavesNothing ==
  turn = "close" =>
    /\ Mine(clients) # {} => failed \intersect {"register", "unregister"} # {}
    /\ Mine(streams) # {} =>
         failed \intersect {"client_connect", "client_disconnect"} # {}

\* A session takes the registration of another client away only when it was not
\* registered itself and an earlier one was, whose identifier con still has and
\* means somebody else here: a program whose first session fails, or all of
\* them, harms nobody, and neither does a session that is registered, whatever
\* identifiers are free (client_register does not reset con.client_id, the
\* programs go on with client_unregister).
OthersStay ==
  \A v \in harmed_in :
    v \in refused_in /\ \E u \in 1 .. v - 1 : u \notin refused_in
=============================================================================
