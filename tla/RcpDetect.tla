------------------------------ MODULE RcpDetect ------------------------------
(***************************************************************************)
(* Finding devices: autodetect broadcasts a request that has the port of a *)
(* new socket in it, and lists the devices whose answers come before       *)
(* nothing has come for AUTODETECT_TIMEOUT.  Each device answers twice;    *)
(* the second answer has another magic number.                             *)
(*                                                                         *)
(* Requests and answers are datagrams: they are lost, doubled or late.  A  *)
(* program searches several times; no search closes its socket.            *)
(***************************************************************************)
EXTENDS Integers, Sequences, FiniteSets

CONSTANTS Devices,
          MaxSockets,   \* descriptors that the program may have
          MaxSearches,  \* bound: searches
          MaxDoubled    \* bound: answers that come twice

ASSUME DetectAssumption ==
  MaxSockets \in Nat /\ MaxSearches \in Nat /\ MaxDoubled \in Nat

VARIABLES searching,    \* autodetect is running
          searches,     \* counter; the number of the last search
          sockets,      \* how many are open
          reply_port,   \* of the last one
          inFlight,     \* answers on their way
          received,     \* answers in the buffer of the last socket
          dev_list,     \* what the search has found
          arrived,      \* history: first answers that came during the search
          doubled       \* counter

detectVars == <<searching, searches, sockets, reply_port, inFlight, received,
                dev_list, arrived, doubled>>

Ports == 1 .. MaxSearches

\* The search that is answered is not in the code: nobody looks at seq_num.
Answers == [device : Devices, magic : {1, 2}, port : Ports, search : Ports]

DetectInit ==
  /\ searching = FALSE /\ searches = 0 /\ sockets = 0 /\ reply_port = 0
  /\ inFlight = {} /\ received = <<>>
  /\ dev_list = <<>> /\ arrived = <<>> /\ doubled = 0

BeginSearch ==
  /\ ~searching /\ searches < MaxSearches
  /\ searches' = searches + 1

\* Mutant: the port of the last search can be had again.
NewPortAgain == 1
\* bind() finds a port that no open socket has.
NewPort == sockets + 1

\* socket(), bind() and the broadcast; some devices do not hear it, and none
\* when it fails, which is not looked at.
Broadcast ==
  /\ BeginSearch /\ sockets < MaxSockets
  /\ searching' = TRUE /\ sockets' = sockets + 1 /\ reply_port' = NewPort
  /\ \E D \in SUBSET Devices :
       inFlight' = inFlight \union
         [device : D, magic : {1, 2}, port : {NewPort}, search : {searches'}]
  /\ dev_list' = <<>> /\ arrived' = <<>>
  /\ UNCHANGED <<received, doubled>>

\* There is no descriptor left, bind() fails and autodetect returns -1.
NoSocket ==
  /\ BeginSearch /\ sockets = MaxSockets
  /\ UNCHANGED <<searching, sockets, reply_port, inFlight, received, dev_list,
                 arrived, doubled>>

\* An answer that is lost stays in flight for ever, like one for a socket that
\* nobody reads any more.
Arrives(a) ==
  /\ searching /\ a.port = reply_port
  /\ \/ inFlight' = inFlight \ {a} /\ UNCHANGED doubled
     \/ /\ doubled < MaxDoubled /\ doubled' = doubled + 1
        /\ UNCHANGED inFlight
  /\ received' = Append(received, a)
  /\ arrived' = IF a.magic = 1 THEN Append(arrived, a) ELSE arrived
  /\ UNCHANGED <<searching, searches, sockets, reply_port, dev_list>>

Listed(a) == a.magic = 1

\* select() and recvfrom().
Receive ==
  /\ searching /\ received # <<>>
  /\ LET a == Head(received)
     IN  dev_list' = IF Listed(a) THEN Append(dev_list, a) ELSE dev_list
  /\ received' = Tail(received)
  /\ UNCHANGED <<searching, searches, sockets, reply_port, inFlight, arrived,
                 doubled>>

\* select() returns 0.
TimeOut ==
  /\ searching /\ received = <<>>
  /\ searching' = FALSE
  /\ UNCHANGED <<searches, sockets, reply_port, inFlight, received, dev_list,
                 arrived, doubled>>

DetectNext ==
  \/ Broadcast \/ NoSocket \/ Receive \/ TimeOut
  \/ \E a \in inFlight : Arrives(a)

DetectSpec == DetectInit /\ [][DetectNext]_detectVars

-----------------------------------------------------------------------------
\* What a search lists are the first answers that came before the time was over,
\* in the order they came; what comes twice is listed twice.  No device is
\* listed that has only answered an earlier search, however late its answer
\* comes: nobody compares the sequence number, but every search has a port of
\* its own (autodetect).
ListsAnswers ==
  /\ IF searching
     THEN \E n \in 0 .. Len(arrived) : dev_list = SubSeq(arrived, 1, n)
     ELSE dev_list = arrived
  /\ searching =>
       \A i \in 1 .. Len(dev_list) : dev_list[i].search = searches
=============================================================================
