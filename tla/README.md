# rcpplus: specifications, model checking and proofs

rcpplus is a C library for the RCP+ protocol of Bosch/VCS video devices: a
control connection with commands and events, RTP reception of H.264 and H.263,
and a set of calls that read and write the settings of a device.  This directory
holds TLA+ modules of the library, configurations for TLC, and proofs that TLAPS
checks.  Line numbers are those of `src/src/` unless a path says otherwise.

1. [Inventory](#1-inventory) - the parts of the library and what is hard in them
2. [Modules](#2-modules) - which module models which part, state and actions
3. [Runs](#3-runs) - what each run asks, its bounds, its fairness
4. [Proofs](#4-proofs) - theorems, invariants, assumptions
5. [Where the code and its texts disagree](#5-where-the-code-and-its-texts-disagree)
6. [What is not modelled, and why](#6-what-is-not-modelled-and-why)
7. [Plan](#7-plan)

To repeat the work: `tlc -config CommandThreads.cfg MCRcpCommand` for a run,
`tlapm RcpCommandProof.tla` for a proof; `PROJECT.json` lists all runs,
theorems, mutants and the lines of code that each definition stands for.

## 1. Inventory

| part | state it keeps | operations | what makes it correct |
|---|---|---|---|
| control connection (`rcpplus.c`) | `con.control_socket`, addresses | `rcp_connect`, `rcp_disconnect`, `stream_connect_*` | a thread never reads the connection of another session |
| command engine (`rcpcommand.c` 53-249) | the counter of `init_rcp_header`, `send_mutex`, `resp_available[256]`, `response[256]`, `received[256]` | `init_rcp_header`, `rcp_send`, `rcp_command`, `rcp_recv`, `message_manager_rutine` | packets are not mixed on the wire; a command gets the answer to itself or NULL, and always returns |
| wire format (`rcpcommand.c` 53-61, 89-201; `rcpplus.h`) | none | `write_TPKT_header`, `write_rcp_header`, `read_rcp_header` | what one side writes the other reads |
| framing (`rcp_recv`) | the position in the TCP stream | `rcp_recv` | packets are returned whole and in order, however TCP splits them |
| session life cycle (`rcpcommand.c` 251-275, 377-455, examples) | threads, mutex, semaphores, socket | `start_message_manager`, `stop_message_manager`, `client_register` ... `client_unregister`, `pthread_create`, `pthread_cancel` | exclusion as long as there is a mutex; sessions apart although nothing is joined; the program ends |
| RTP buffers (`rtp.c` 113-225, 444-522) | ring of free slots, heap, slots | `rtp_recv`, `queue_pop`, `queue_push`, `heap_push`, `heap_pop` | no slot is lost or used twice, each packet is handed on once |
| H.264 reassembly (`rtp.c` 227-325, 395-442, 524-) | `mdesc->data`, `len`, `frame_complete` | `append_h264`, `rtp_pop_frame` | frames are NAL units; a loss costs what it hits |
| H.263 reassembly (`rtp.c` 327-393) | the same, `ebit`, `frame_error` | `append_h263` | frames bit for bit; recovery after a loss |
| presets (`preset.c`, `bulk_config.c`) | a variable on the caller's stack | `get_preset`, `set_preset`, `update_preset` | an update changes what is wanted and nothing else |
| simple settings (`rcpcommand.c` 782-890, `coder.c`, `audio.c`, `alarm.c`) | in the device | over two dozen getters and setters | what is set is what is read back |
| coders, resolution (`coder.c`, `utils.c`) | in the device | `get_resolution`, coder lists, operation modes | the size is that of the stream asked about |
| PTZ (`ptz.c`) | none | `move_*`, `zoom_*`, `focus_*`, `iris_*`, `preposition_*`, through `send_osrd` | the camera does what was asked and nothing else |
| events (`rcpcommand.c` 42-48, 227-277) | `registered_events`, `registered_events_param` | `register_event`, `message_manager_rutine` | what a call of a handler is made of while the tables change; a message with a handler calls it |
| registration (`rcpcommand.c` 289-609) | `con.client_id`, `session->session_id`; tables in the device | `client_register`, `client_connect`, `client_disconnect`, `client_unregister` | what a session has opened it closes, and nothing of anybody else |
| discovery (`device.c` 46-183) | a socket, a list, `seq_num` | `autodetect`, `broadcast` | the list has the answers to this search |
| addresses (`device.c` 337-437) | a `rcp_device` of the caller | `get_device`, `set_device_address`, `broadcast_command` | a device is left with a network of its own |
| answers with a structure (`caps.c`, `coder.c`, `preset.c` 292-309) | none | `get_capability_list`, `get_coder_list`, `get_supported_video_operation_modes`, `get_current_stream_profile`, `get_stream_profile` | what is read is what was sent, in its place |
| picture (`rcpcommand.c` 611-660) | a connection of its own, the caller's buffer | `get_jpeg_snapshot` | the octets of the picture, each once, in order |
| MD5, constants (`md5.c`, `rcpdefs.h`) | | | outside the core |

### How the parts interact

A program has up to four kinds of thread: its own, which call commands; a
keep-alive thread that repeats `client_connect`'s keep-alive command; the
message manager, which alone receives on the control connection; and a loop
around `rtp_recv`.  They share

* the counter `request_id` of `init_rcp_header` (rcpcommand.c:147), incremented without a
  lock;
* `send_mutex`, which `client_register` makes and `client_unregister` destroys
  *before* it sends its own command;
* `resp_available[id]` and `response[id]`: the manager writes a slot and posts
  its semaphore; the caller waits ten seconds at most and gets a pointer *into*
  the slot, so the reply is read in place while the manager goes on;
* `con`, a global that the next session overwrites.

Threads are cancelled (`pthread_cancel`) and never joined; the keep-alive thread
of `test_audio.c` is not even cancelled.  Handlers of events
run on the message manager.  The RTP part has one thread and shares nothing with
the control connection.

### What is hard to test here

`PROJECT.json` lists the hazards, each at its line with the properties that
look at it.  The most telling ones: identifiers that meet (two threads in the
counter; 256 commands later), an answer that comes after its command has given
up, an event that carries an identifier in use, a slot overwritten while it is
read, a TPKT header in two pieces, the mutex destroyed under a thread that still sends, the cancelled
thread that holds the mutex, the buffer slot that a failed `recvfrom` keeps, fragments
lost or out of order, octets shared by two packets, presets whose twenty
commands fail one by one, datagrams that answer an earlier search, handlers that
are changed while the manager looks them up three times, a client identifier that
the next session finds in `con`, and a command that is obeyed although it has
failed.

Some of these the code does not guard against: the hazard happens, here and in
the models.  There the property says *exactly when* (`TokenBalance`, `SendersApart`,
`RightHandler`, `OthersStay`, `LeavesNothing`), or a run shows a sentence of the
repository to be violated (section 5), or, when no text says what should hold, the hazard has a
note instead of a property of its own (a header in parts, a section of an unknown type, a caller
who goes on with half a device, a search without a socket).

## 2. Modules

| module | models | checked in | proofs |
|---|---|---|---|
| `RcpService` | what a caller of `rcp_command` may rely on (abstract) | refinement, `command_serial` | |
| `RcpCommand` | the command engine | `MCRcpCommand` | `RcpCommandProof` |
| `RcpFraming` | `rcp_recv` on a stream | `MCStreams` | `RcpReadingProof` |
| `RcpSession` | threads, mutex and sockets through a program's life, for the kinds of program there are | `MCRcpClient`, itself | `RcpClientProof` |
| `RcpEvents` | handlers, message managers one after the other | `MCRcpClient` | `RcpClientProof` |
| `RcpAccess` | registrations and streams at devices | `MCRcpClient` | `RcpClientProof` |
| `RtpBuffers` | `rtp_recv` with ring, heap, slots | `MCStreams` | `RtpBuffersProof` |
| `RtpMerge` | H.264 reassembly | itself | `RtpMergeProof` |
| `RtpH263` | H.263 reassembly | `MCStreams` | `RtpH263Proof` |
| `RcpWire` | octets of the headers | `MCRcpMessages` | `RcpMessagesProof` |
| `RcpSettings` | single getters and setters | `MCRcpMessages` | `RcpMessagesProof` |
| `RcpPreset` | presets and their update | `MCRcpMessages` | `RcpMessagesProof` |
| `RcpResolution` | `get_resolution` | `MCRcpMessages` | `RcpMessagesProof` |
| `RcpPtz` | moving a camera | `MCRcpMessages` | `RcpPtzProof` |
| `RcpDetect` | finding devices | `MCRcpMessages` | `RcpMessagesProof` |
| `RcpAddress` | the address of a device | `MCRcpMessages` | `RcpMessagesProof` |
| `RcpReplies` | capabilities and tables | `MCRcpMessages` | `RcpReadingProof` |
| `RcpSnapshot` | a picture over HTTP | `MCRcpMessages`, itself | `RcpMessagesProof` |

Each layer relies on what the one below is shown to give.  `RcpCommand` has
whole messages: that `rcp_recv` returns whole packets is `RcpFraming`, that a
header survives the wire is `RcpWire`.  The modules about settings, presets,
resolution and PTZ have commands that either return the answer to themselves or
fail, possibly after they were obeyed: that is what `RcpService` promises and
`RcpCommand` delivers under the conditions of section 4.  `RtpMerge` and
`RtpH263` take packets in the order of arrival, which is `HandedAsArrived` of
`RtpBuffers`.

Definitions named `Mutant` in their comment (`NextPresetAgain`, ...) are not part
of any specification: each is a plausible mistake in the code, and putting it in
place of the definition it stands for makes the named property fail.

**`RcpCommand`.**  A command of thread `t` goes through the steps of the code
that touch shared state: `LoadCounter` and `StoreCounter` (the unsynchronised
`++request_id`, 147), `TakeId` (the second read of the counter, then the modulus
that names the slot), `RcpSend` (`pthread_mutex_lock`, `send`, `unlock`, the failing
`send`, 63-87), `Await` (`sem_timedwait`, which takes a token or fails, 212), `CheckAction` (the
action of the header read in place, 219) and `Finish` (the caller is done with
the pointer).  `Receive` and `Deliver` are the manager: header and payload
written to the slot in two steps, the token posted, then the handler
(227-248).  `outstanding` is the device together with the network: answers come
in any order, late, or never.  `answered`, `surplus` and `clean` are history, and
no guard reads them.

**`RcpService`.**  One command per thread at a time; the device answers a
command at most once; what is returned is NULL or the answer to that very
command, and each call returns (`Returns`).  No identifiers, no semaphores, no slots.

**`RcpFraming`.**  An octet is its position in the stream; a packet is the
stretch between two ends.  `RecvHeader` is the one `recv` of four octets whose
result is used however short it is, `RecvBody` the loop, `ReturnPacket` the
return.  `derailed` remembers the two accidents: a header that came in parts, a
body given up because `recv` failed.

**`RcpSession`.**  There are three kinds of program.  "stream" is `test_h264_udp.c` (and
`test_play.c`, `test_record.c`, `test_transcode.c`): a keep-alive thread is started and cancelled
before the end.  "audio" is `test_audio.c`, which starts the thread (line 172) and closes with
`client_disconnect`, `client_unregister` and `stop_message_manager` (192-196) without a cancel.
"series" is `bulk_config.c`: sessions one after the other.  Cancellation is deferred: a
cancelled thread runs to its next cancellation point, and it does not unlock what
it holds.  glibc's behaviour with a destroyed mutex is external: locking it fails at once
(`EINVAL`) and destroying one that is held fails (`EBUSY`); the code looks at
neither result.

**`RtpBuffers`.**  A call has two steps, one on each side of the blocking
`recvfrom`.  The ring has its real indices (`queue_start`, `queue_end`, the
unused start offset); the heap is a set whose least element is popped.

**`RtpMerge`.**  Part 0 of a NAL unit is its header octet, parts 1 .. `Parts` are
its fragments; `data` is a sequence of parts, with the start code as a part of
its own.  The network loses, doubles and reorders; packets of a kind that is
not supported come in between; the application may leave a complete frame.  An
aggregate has as many units as `Aggregated` allows; `append_stap_a` has no loop, it takes the
first two whatever there is.

**`RtpH263`.**  A bit is `<<frame, position>>`, so what the two masks of
`append_h263` do to a shared octet is computed bit by bit, including the bits to
be ignored that are left over.

**`RcpWire`.**  One packet goes out and comes back: the fields are split into
octets and nibbles as the code does.

**`RcpSettings`.**  A catalogue of over two dozen functions: setting, READ or WRITE,
what is sent (nothing, an octet, a double word) and what is made of the answer.
`Call` is each of them; `OtherWrites` is another client.  A behaviour is about
one setting, because settings do not depend on each other.

**`RcpPreset`.**  `get_preset_param`, `GetFails`, `Edit`, `set_preset_param`, `SetFails`,
`NextPreset`: one step per command.  `held` records the values a setting
legitimately had or should get, `unread` those whose read failed (the stack's old
contents are then written), `late` those another client changed in between.

**`RcpResolution`.**  The up to six commands of `get_resolution` in their order,
each failing or not, over every camera of the constants.

**`RcpPtz`.**  The bit fields of `VarSpeedPTZ` and `Preposition`, the packet with
its address and checksum, and a serial line that loses or changes octets.  The
camera is external and modelled from `send_osrd`: it starts a packet at each octet
with the top bit set and obeys whole packets for its address.

**`RcpDetect`.**  `Broadcast` opens a socket and sends its port, answers arrive at
any time, `Receive` and `TimeOut` are the two results of `select`.  No search closes
its socket (device.c:97); without one `bind` fails (`NoSocket`).

**`RcpEvents`.**  `RegisterHandler` and `RegisterParam` are the two assignments of
`register_event`; `CreateTaker`, `InitSemaphores`, `ClearHandlers` and `StopTaker` are
`start_message_manager` and `stop_message_manager`.  A manager goes from `recv` to `check`
(240), loads handler and parameter in either order (`LoadHandler`, `LoadParam`, 243) and
is then in the handler, which may give a command (`AskInHandler`) and wait for an
answer that nobody receives (`GiveUpInHandler`).  The n-th registration has
handler n and parameter n, so a call shows which registrations it comes from.  An
old manager is cancelled, not joined: it goes on to `recv` or to the wait of a
handler's command.  `newest`, `tag_of`, `due`, `restarted`, `changed` and `call` are history: what
was registered last for each tag and for which tag, what should be called for a message,
whether a start or a registration of that tag overlapped it, and the last call.

**`RcpAccess`.**  A program visits one device after the other: `get_md5_random` (in MD5
mode), `client_register`, `client_connect`, commands of the stream, `client_disconnect`,
`client_unregister`, as the two examples do, with no look at a result.  `RegisterFails`
and `ConnectFails` have both ways to fail: refused, or obeyed with the answer lost.
The devices are external: they number clients and streams with what is free and obey
the registered.  Whether a passphrase fits is decided by what it was made from
(the password, or a challenge that this session has never got).

**`RcpAddress`.**  `get_device` is five commands, each of which may end it and leave the
caller's variable half filled; a datagram of `set_device_address` stays on the air and is
heard any number of times.  Addresses are names; of a netmask the octets are kept,
because `ntohl(*resp->payload)` makes four octets of the first one (`ReadMask`).

**`RcpReplies`.**  Each word of an answer tells its place, and what is behind the
answer is what an earlier one has left, so a reader that is out of step or goes too far
shows.  `ReadSection` is one turn of the outer loop of `get_capability_list`; the readers of
tables take one step each.

**`RcpSnapshot`.**  An octet is its number.  `FirstRecv` is the `recv` in which
the header is looked for, `NextRecv` the loop, `RecvBreaks` a `recv` that fails and
whose -1 is added to both counters.  The server sends at any speed and may close.

**`MCRcpClient`, `MCRcpMessages`, `MCStreams`** and `MCRcpCommand` give constants their values.  The
first three put several modules into one specification: a behaviour is one of them, the others
stay in an initial state.

## 3. Runs

Fairness is stated only where a liveness property needs it.

| run | asks | bounds | fairness |
|---|---|---|---|
| `command_threads` | `TypeOK`, `OneSender`, `TokenBalance`, `CleanReply` | two threads, two commands each, two identifiers, waits may fail; symmetry of the threads | none |
| `command_events` | `CleanReply`, `CommandReturns` | one thread, four commands on two identifiers, two events | `ThreadSpec` |
| `command_serial` | `ReplyMatches`, `ImplementsService` | one thread, seven commands on three identifiers, no failing wait | `FairSpec` |
| `late_reply` | `ReplyMatches`, violated | one thread, four commands, three identifiers, waits may fail | none |
| `streams` | `PacketsAsSent`, `AllReturned`; `SlotsAccounted`, `HandedAsArrived`, `KeepsReceiving`; `FramesWhole`, `BitsInPlace`, `Recovers` | three packets of 4 or 6 octets, any split, failures, close; three slots, four packets in any order, two failures; four frames of 21 bits, five places to cut, any loss | that of `FairFraming` and `FairBuffers` |
| `merge` | `FramesAreUnits`, `FramesKeepOrder`, `Recovers`, `AllFramesOut` | four NAL units, three fragments, aggregates of one to three units, two faults, three packets in flight | `FairSpec` |
| `merge_stap` | `OnlyUnitsInFrames`, violated | three NAL units, no fault | none |
| `session` | `SendersApart`, `OwnConnection`, `OneStrayToken`, `UncancelledEnd`; `RightHandler`, `EventsHandled`; `LeavesNothing`, `OthersStay` | all three kinds of program, three sessions; two tags, two starts, two registrations; two devices (one with a password), two identifiers, two visits, one other client | `ClientSpec` |
| `session_cancel` | `ProgramEnds`, violated | the stream script | `FairSpec` |
| `session_audio` | `OneSender`, violated | the audio program, one session | none |
| `messages` | `RoundTrip`; `ReadBack`; `InventsNothing`, `OthersSurvive`, `AsWanted`; `SizeOfStream`; `OnlyAsked`, `Heeded`; `ListsAnswers`; `OwnNetwork`; `AnswersAsSent`; `SnapshotTail` | see `Messages.cfg` | none |
| `snapshot` | `SnapshotIsPicture`, violated | a header of two octets, a picture of five | none |

### What they show, and why the bounds are enough

*Command engine.*  Two identifiers and two commands per thread make every
meeting happen: two threads in the counter at once, a thread that meets its own
abandoned command, and both of these together.  `OneSender` holds, `TokenBalance`
says exactly what an abandoned wait leaves behind (a surplus token that nothing
ever removes), and `CleanReply` says what survives all this: a command whose
identifier nothing else uses gets its own reply.  `Isolation` is its inductive form.
`command_events` adds unsolicited messages and shows that every command returns
whatever the device does (what a handler does is in `RcpEvents`).  In both runs a command is
no longer clean once another use of its identifier may reach it: what becomes of it then is
not for `CleanReply` but for `TokenBalance`, and for `late_reply`.
`command_serial` goes more than twice round the identifiers: without failing
waits, events or a second thread the engine implements `RcpService`.  `late_reply` drops one of these conditions and finds the
reply of an abandoned command returned for a later one.

*Framing.*  Lengths 4 and 6 give a packet without a body and one whose body
comes in two pieces; three packets let an accident in the first reach the
third.  `AllReturned` needs no fairness for closing or failing.

*RTP.*  Three slots and two failures leave one slot, the last with which anything
works; four packets take the ring round its end.  Three fragments are first,
middle and last; two faults are the least that can cancel each other out.
Frames of 21 bits cut at 1, 4, 8, 13 and 18 have octets shared by two packets,
cuts on an octet boundary, and packets inside one octet.

*Sessions.*  Three sessions let the manager of the first overlap the third.
`SendersApart` says when the destroyed mutex does harm: only when the keep-alive thread was
never cancelled, as in `test_audio.c`, for which `session_audio` shows two threads
inside `send`.  A thread that is cancelled but not joined may still lock the destroyed mutex and
cannot reach `send` again.  `UncancelledEnd` leaves out the stream program, whose end is the
question of `session_cancel`.  `OneStrayToken` bounds what an old manager can do to a
later session.

*Events.*  Two starts let a stopped manager and its successor look into the tables
at once; two registrations can be of the same tag or of two.  `RightHandler` says
what can go wrong then, and when: NULL is called only when a start overlaps the message;
another handler than the one due, a newer one, or a parameter of another registration comes
only from a registration of this very tag meanwhile; what was registered for another tag is
never used.  The run reaches each of these calls (`Crashed` among them).  `EventsHandled` says that a message with a handler calls
it, and that a handler which gives a command goes on, although nobody
can receive its answer.

*Registrations.*  Two visits are the least for which `con.client_id` is that of another
device; two identifiers can be refused, be the same at both devices, or belong to
the other client.  `LeavesNothing` names the failures after which something stays at a
device: of registering or unregistering for the registration, of connecting or disconnecting for
the stream, and none else.  `OthersStay` names the sessions that unregister somebody else by
mistake: those that were refused, after one that was registered.

*Messages.*  `MCRcpMessages` runs one of nine independent parts per behaviour, so
its states are the sum of theirs.  Values lie on both sides of each boundary:
0, 127 (sign), 255 and 256 (octet), 65535 and payloads whose length needs the
second octet.  `RoundTrip` is about every field, `rw` too, which comes back as the
version.  Settings of each type appear in the presets, one wanted and one
left alone; two failed commands can hit the read and the write of one setting.
One damaged octet on the serial line can be the top-bit octet, an address, a
datum or a checksum; two changes are not covered by a sum of seven bits and the
bound says so.  Three searches with two descriptors reach the search without
a socket.  Two requests for an address, with an owner who moves a device, are an old
one and a new one in either order; netmasks are one that `get_device` reads back
nearly right (255.255.255.0) and one that it spoils.  Three sections are enough to have a
known one before and after one of a new type, with none or two elements.  A
header of two octets and a picture of five come in every pair of pieces, with as
much of the picture in the first `recv` as fits.

Deadlock is checked in every run but `messages` and `snapshot`, where the single calls, the
camera, the packet and the picture come to their end.  Elsewhere a step `Finished`, `Drained` or
`Idle` is the regular end, or the thread that waits for ever in `recv`.  In
`MCRcpClient` the programs of `RcpEvents` and `RcpAccess` may stop anywhere (`Rests`), those of
`RcpSession` may not.

The types of `RcpFraming` (`Types` of its proof) and of `RtpBuffers`, `Isolation` of `RcpCommand`,
`InsidePacket` (no octet of a later packet is read into a body) and `JoinsSomething` (an
octet is only joined with one that is there) are proved and not repeated in a
run; the last is a part of `BitsInPlace`.

### Fairness, and why the code justifies it

* `ThreadSpec` of `RcpCommand`: a thread that has started a command takes its next
  step.  `send` ends because the device keeps reading; the mutex is held over
  `send` alone; `sem_timedwait` ends after ten seconds.  Nothing obliges a thread
  to start a command.  `FairSpec` adds that the device answers and the manager is
  scheduled; only `command_serial`, in which waits do not fail, needs it.
* `RcpFraming`: what was sent arrives, and the manager's thread runs.
* `RtpBuffers`, `RtpMerge`: the loop of the application calls again
  (`test_h264_udp.c:93`); the device sends.  Failures and losses have none.
* `RcpSession`: weak fairness of the steps, strong fairness of `Lock`: the keep-alive
  thread sleeps between its commands, so the main thread gets the mutex if it
  is free again and again.  A cancelled `sleep` ends.  `ClientSpec` states the same for this part.
* `RcpEvents`, in `ClientSpec`: a message manager takes its next step (`Dispatch`); its wait for an
  answer ends, after ten seconds or by cancellation (`Ends`).  Nothing obliges a
  device to send, a program to register or a handler to return.

## 4. Proofs

| theorem | says | from |
|---|---|---|
| `RcpCommandProof!Typing` | every variable keeps its type | `CommandAssumption` |
| `RcpCommandProof!SendExclusion` | `OneSender` | the same |
| `RcpCommandProof!CleanCommandsGetTheirReply` | `CleanReply` | the same |
| `RcpCommandProof!SerialCommandsGetTheirReply` | `ReplyMatches` | and: one thread, no events, no failing wait |
| `RcpCommandProof!CleanProgramsAreServed` | `Service!Spec`, the safety part of `ImplementsService` | and: every command in progress is clean |
| `RcpCommandProof!SerialProgramsAreServed` | the same | and: one thread, no events, no failing wait |
| `RcpCommandProof!TokensBalance` | `TokenBalance` | `CommandAssumption` |
| `RcpReadingProof!PacketsReturnedAsSent` | `PacketsAsSent` | `FramingAssumption` |
| `RcpReadingProof!BodiesStayInside` | `InsidePacket` of the module | the same |
| `RcpReadingProof!AnswersComeAsSent` | `AnswersAsSent` | `RepliesAssumption` |
| `RtpBuffersProof!BuffersTyping`, `SlotsLostByFailures`, `PacketsHandedAsArrived` | types, `SlotsAccounted`, `HandedAsArrived` | `BuffersAssumption` |
| `RtpMergeProof!EveryUnitOnce` | `FramesAreUnits` | `MergeAssumption` |
| `RtpMergeProof!PartsStayInOrder` | `FramesKeepOrder` | the same |
| `RtpMergeProof!LossesDoNotSpread` | `Recovers` | the same |
| `RtpH263Proof!OctetsJoinOctets` | `JoinsSomething`, a part of `BitsInPlace` | `H263Assumption`, `PopsAlways` |
| `RtpH263Proof!FramesComeOutWhole` | `FramesWhole` | the same |
| `RtpH263Proof!LossCostsTwoFrames` | `Recovers` | the same |
| `RtpH263Proof!BitsStayInPlace` | `BitsInPlace` | the same |
| `RcpClientProof!SendersStayApart` | `SendersApart` | `SessionAssumption` |
| `RcpClientProof!ManagersKeepTheirConnection` | `OwnConnection` | the same |
| `RcpClientProof!OneTokenAfterTheEnd` | `OneStrayToken` | the same |
| `RcpMessagesProof!UpdateInventsNoValue` | `InventsNothing` | `PresetAssumption` |
| `RcpMessagesProof!ChangesOfOthersSurvive` | `OthersSurvive` | the same |
| `RcpMessagesProof!UpdateIsAsWanted` | `AsWanted` | the same |
| `RcpClientProof!HandlersGetTheirParameter` | `RightHandler` | `EventsAssumption` |
| `RcpClientProof!RegistrationsOfOthersStay` | `OthersStay` | nothing |
| `RcpClientProof!SessionsLeaveNothing` | `LeavesNothing` | nothing |
| `RcpMessagesProof!PacketsComeBack` | `RoundTrip`: every field as it was, `rw` as the version | `WireAssumption` |
| `RcpMessagesProof!SetIsReadBack` | `ReadBack` | `SettingsAssumption` |
| `RcpMessagesProof!SizeIsOfTheStream` | `SizeOfStream` | nothing |
| `RcpMessagesProof!SnapshotIsTheTail` | `SnapshotTail` | `SnapshotAssumption` |
| `RcpMessagesProof!SearchesListTheirAnswers` | `ListsAnswers` | nothing |
| `RcpMessagesProof!AddressesStayOwn` | `OwnNetwork` | nothing |
| `RcpPtzProof!CommandsAreHeeded` | `Heeded` | `PtzAssumption` |
| `RcpPtzProof!NothingElseIsObeyed` | `OnlyAsked`, while at most one octet is damaged | the same |

The assumptions only say what the constants are (a finite set of threads, at
least two identifiers, packets with at least a TPKT header, ...); they stand in
the modules that declare the constants, and TLC evaluates them for each run.

The arguments:

* **Exclusion.**  `MutexInv`: a thread between `lock` and `unlock` is the owner of
  the mutex.  It is inductive with `TypeOK`.
* **Clean commands.**  `CleanReply` alone is not inductive: it says nothing before the
  reply is there.  `Isolation` follows the one trace of a clean command: nothing
  before it is sent, then its request at the device, or its answer in the
  manager (header, payload, token), or the stored answer with exactly one token,
  then the stored answer alone.  Each step moves the trace on or leaves it alone;
  a step of another thread with the same identifier makes the command unclean.
* **Serial commands.**  With one thread and no failing wait each identifier
  is quiet when the counter comes round to it (`SerialInv`: only the current
  command leaves a trace), hence every command is clean.  This needs no bound
  on how often the identifiers are reused.
* **The service.**  `SentInv`: a command is sent once, its request is not at the device
  after its answer, and every stored answer was received.  Then `CheckAction` is the step
  `ReturnReply`, `ReceiveAnswer` is `Answer`, a failed send, wait or answer is
  `ReturnNull`; all that is between is a stutter (`ServiceStep`).  A reply that is being
  read stays what it is because its identifier is quiet (`Isolation`).  With several
  threads, events or waits that fail it holds as long as commands stay clean (`AllClean`);
  `late_reply` shows a program in which they do not.
* **Tokens.**  `FreshInv` says that no request is sent twice, so that the number of
  requests pending on an identifier goes up and down by one; `BalanceInv` adds
  `TokenBalance` and that sets of requests are finite.
* **Framing.**  `FramingInv` adds to the two properties that the ends are increasing,
  that each packet has room for its header, and that between packets `rcp_recv`
  stands where the last packet ended (`AtEnd`).
* **Answers with a structure.**  An answer is put together by `FlattenSeq`, which is recursive.
  `Upwards` is an induction over numbers, from the least member of a set (`Least`, by
  `WFMin`); with it `GrowsExists` shows that the recursion has a solution, and `Flattened`
  where each piece of a sequence ends and what lies between.  Hence `Layout`: every section
  lies where the sizes of those before it put it.  `Reading` adds that the reader is at the
  next section as long as it knows the types of those before, so that what it takes is
  that section; rows all have one length (`EvenPieces`) and are found at its multiples.
* **Buffers.**  The heap is empty between calls (`BuffersInv`), so the slot popped is the
  slot pushed; the counts follow.
* **H.264.**  Three invariants over the types of the state.  Units (`Seamless`): as long as
  nothing has gone wrong the packets in the network go, without a gap, from where the
  receiver is (`Expected`: between two units, behind the first fragments of one, or with a
  unit that is to be popped) to where the device is.  Order (`Sorted`): what is put together
  was sent before what is in the network, and that before what comes next; and `data` begins
  with the starter and a header octet, or is empty.  Losses (`RecoveryInv`): when the
  packets taken end with the first fragments of a unit, `data` is the beginning of that unit,
  whatever it was before.
* **H.263.**  `JoinInv`: a packet that fits and shares an octet follows a packet that
  ended in one, and its octets are still there.  `WholeInv` says what the receiver holds by
  the cursor (`LastFrame`, `LastBit`), the last bit that was handed on or lost.  `Undamaged`
  and `Came` are the two properties carried back to a frame that is not complete yet.
  Neither is inductive without `Resync`, which follows a receiver out of an error: in the
  first whole frame it knows where octets end or drops what it has, with the marker of the
  second no error is left, and in the third it has every bit.  For the bits themselves
  `PayloadBits` says what a packet carries, `SharedOctet` what the two masks leave of each
  side, `FilledJoin` that the next packet goes on where the last one ended, and `JoinPlaced`
  that a packet joined to octets in their place leaves every bit in its place; the bits to
  be ignored that are still in the last octet are what makes `InPlace` depend on `ebit`.
* **Sessions.**  `Held`: who is between lock and unlock holds the mutex, but for
  the main thread in `client_unregister` and a keep-alive thread that was cancelled, and will
  not send again, or never was, which only the audio program leaves out; `Scripted` ties
  this to the place in the script.  For the managers,
  `Attended`: one that was not stopped is that of the running session, whose connection is
  open from its start to its end, so that no manager enters `recv` on another session's
  connection; and `Strays`: it posts nothing that counts before it is stopped, and when
  it posts after that it is past the only `recv` it could still be in.
* **Presets.**  While a preset is read, each setting that has been read would be written
  back with one of its values (`ReadSoFar`); while it is written, this holds for
  all that could be read and all that are wanted (`ToWrite`).  The conversion of
  an octet to a signed number and back is exact, which `EncodeDecode` states.  For
  `OthersSurvive`, `Carried`: from the read to the write of a setting the variable on the
  stack holds what another client gave the setting last.  For `AsWanted`, `Exact`: what is
  on the stack is what the device has while it is read, and what is wanted while it is
  written; each setting of the list stands there once.
* **Events.**  `Tables`: what stands at a tag was registered for it; its handler is its newest,
  and so is its parameter unless it is just being set.  A tag once given to a registration stays
  (`TagsStay`).  `StaysDue`: the registration a manager took its message for stays the newest
  but for a start, which takes it away, and a registration of the tag, which puts a newer one
  there; hence what is loaded (`LoadsDue`) and what is called (`CallInv`).  No bound on
  managers or registrations is used.
* **Registrations.**  A device gives no identifier twice (`Distinct`) and a registered
  session has its own in `con` (`OwnIdentifier`), so that the one it unregisters is no
  other client's; what `con` has otherwise is nothing or the identifier of an earlier session that
  was registered (`Inherited`).  What remains is followed by `Holdings`: until one of the
  commands named fails, what a device has of this session is what `con` and the session variable
  name, and nothing at a device is of a later session (`Past`).
* **Messages.**  The wire (`WireInv`): what is sent is the header of the request that was
  made; the rest is arithmetic on octets and nibbles, with each field in its range
  (`FieldRanges`).  Settings (`Relied`): what a later read may rely on is what the stored octets
  decode to, for every setting whose functions agree (`Sound`).  Resolution: what is known
  of the camera, question by question, unless the answer was missed (`PresetKnown`,
  `FormatKnown`, `ModeKnown`).  Snapshot (`SoFar`): octet `i` of the buffer is octet `i` behind the
  header and what came with it.  Discovery (`Matches`): what has come and is not read yet is,
  in its order, what the list still lacks; sockets are new, so that answers to an old search go to
  an old port (`OwnPorts`).  Addresses (`Others`, `ReadOwn`): what is on the air and what the caller
  holds is of the device it names; a netmask read a third time is as the second time
  (`MaskSettles`), so reading and sending it back leads no further.
* **Moving a camera.**  The sum over a packet is a function defined by itself on shorter
  sequences; `SumsExist` and `SumIs` show by `Upwards` that there is one, and `SumChanges` that a
  changed octet changes it by the same amount.  `PacketIs`: the packet of every command keeps its
  checksum and is understood as that command.  `Line`: each octet that is still on the line is a
  certain octet of the packet of a certain command, and they follow each other.  From there
  two invariants go on.  `Heeds`, whatever is damaged: every command that was written is
  obeyed, but for as many as octets were damaged, and of an undamaged packet the camera has
  what has come.  `Only`, with one damaged octet at most: the camera has what has come
  of the packet, or fewer octets, or as many of which one is altered, or waits for the next packet.
  One changed octet never leaves the checksum right (`NotGenuine`), but an altered header may
  end a packet early or late, and the octets behind it have to be skipped until the
  next header (`OnlySkips`).

Only model-checked: everything temporal (`CommandReturns`, `AllReturned`,
`KeepsReceiving`, `AllFramesOut`, `UncancelledEnd`, `EventsHandled`), for
which the prover has no rule of fairness, and that every call returns in `RcpService`.
Each invariant of the passing runs is stated by a theorem.  `OnlyAsked` is proved under the condition
that at most one octet is damaged, which the run has as a bound: with two it is false, since two
changes of the same bit may cancel in a sum of seven bits (TLC finds such a pair
with `MaxDamage = 2`), and `Heeded` is proved without that condition.

## 5. Where the code and its texts disagree

Five runs end in a counterexample, each to a sentence of the repository
(`findings` in `PROJECT.json`):

* `late_reply`: "It is up to the user to setup a request ID here to assign the
  replies to multiple pending requests" (rcpplus.h:41).  After a failed wait the
  token of the late answer stays in `resp_available[id]`, and a later command with
  the same identifier returns at once, with the old reply (rcpcommand.c:212).
* `merge_stap`: rtp.h:28 says that the non-interleaved mode is supported, and
  `append_stap_a` handles its aggregates.  The size field counts the header octet, the code
  copies that octet and then `size` more (rtp.c:308-320).
* `session_cancel`: `test_h264_udp.c` cancels the keep-alive thread and goes on to
  `return 0`.  `send` is a cancellation point inside `lock` / `unlock` without a
  clean-up handler, so `client_disconnect` may wait for ever.
* `session_audio`: `rcp_send` puts `send` between lock and unlock (rcpcommand.c:78-80).  `test_audio.c`
  closes without cancelling its keep-alive thread (172, 192-196), and `client_unregister`
  destroys the mutex under it (rcpcommand.c:433): two threads are inside `send`.
* `snapshot`: `test_jpeg.c` stores what `get_jpeg_snapshot` gives it as `snap.jpeg` (23, 28-29).  The
  octets of the picture that come with the HTTP header are overwritten by the next ones and not
  counted (rcpcommand.c:645-653): what is stored is the end of the picture (`SnapshotTail`).

Other places that the models show, with no run of their own, because no
sentence of the repository says otherwise or because the property would restate
a line:

* Two threads may get the same identifier from the unsynchronised counter
  (rcpcommand.c:147); both commands are then unclean in `RcpCommand`.
* `read_rcp_header` masks `rw` with `0xF0`; rcpplus.h:38 and `write_rcp_header` have it in
  the lower nibble (rcpcommand.c:190-191): what comes back as `rw` is the version, as
  `RoundTrip` says.  `action` is written four bits higher than it is read (167, 193), which does
  not show because nothing but requests, action 0, is written; `RoundTrip` is about those.
* After `FRAGMENT_COUNT` failures of `recvfrom` no slot is left and `rtp_recv` fails for ever
  (rtp.c:476-488; `SlotsAccounted`).
* After a loss H.263 skips one frame more than it has to, and `ebit` survives a
  frame the application has left (rtp.c:333-343, 367-386).
* When the device closes the connection inside a body, the manager spins
  (rcpcommand.c:110).
* `set_coder_preset`, `set_mic_level` and `set_audio_input_peek` send READ requests; `get_coder_preset`
  asks with `coder + 1` (coder.c:38), the setter with `coder`.
* The audio levels are read by `ntohl` of one octet (audio.c:166).
* The video analysis modes `0xfd` to `0xff` come back negative (alarm.c:90).
* `viproc_get_sensitive_area` reads `height` from the wrong place and writes `start_x` twice
  (alarm.c:210-216).
* `set_password` never sets its payload length, so no password is sent (rcpcommand.c:707-713).
* A preset setting that cannot be read is written back as whatever the variable
  holds (preset.c, bulk_config.c:41); `get_resolution` returns 0 without a size.
* `autodetect` does not close its socket and, when `bind` fails, leaves `*devs` unset
  (device.c:97-106); `broadcast_command` declares an array of 16 pointers, so that command
  and data land behind what is sent (device.c:422-434) and the device is told command 0,
  whatever was asked.
* `get_device` makes a netmask of the first octet alone, with its sign (device.c:376):
  255.255.255.0 becomes 255.255.255.255, and `set_device_address` sends it back.
* A handler that is looked up while the manager is restarted may be NULL when it is called
  (rcpcommand.c:240-243, 265; `RightHandler` says that it needs this); an answer to a command calls the handler of its tag, too.
* `con.client_id` outlives its session.  A session that could not register goes on with it and may
  unregister somebody else at another device (rcpcommand.c:422, 437; `OthersStay` says when).
* When the server closes early, the loop of `get_jpeg_snapshot` spins (rcpcommand.c:651).
* Behind a section of a type it does not know, `get_capability_list` is out of step, because it
  does not use the size of the section (caps.c:52-88).
* PTZ speeds that do not fit their field are truncated.

## 6. What is not modelled, and why

* MD5 (`md5.c`) and `rcpdefs.h`: third-party code and numbers.
* `set_password`, `set_defaults`, `set_factory_defaults`, `board_reset`: one command each whose payload is
  never sent; what a device makes of that no text tells.
* `preset_set_default`: nobody calls it, and the defaults are in the device.
* `viproc_start_edit`, `viproc_stop_edit`: what editing means is in the device.  The sensitive area: its
  getter sends a WRITE without a payload, and what the device then has cannot be told from
  the source.
* `read_client_registration`, `ptz_available`: read one thing and log or return it.
* The digest inside a passphrase: `RcpAccess` has what it is made from.
* The stream sockets (`stream_connect_udp`, `stream_connect_tcp`, `initiate_tcp_stream`): bind, connect, one
  write.
* Names of things (`error_str`, `log_*`, `nid_str`, ...), ffmpeg, files and the terminal in the
  examples.

Assumptions about what is outside: the host is little-endian and `char` is
signed (as the Makefile's gcc builds it on x86); the wrap of the RTP sequence
numbers does not matter while the heap holds one packet; the device answers a
request at most once and returns its identifier; a device may adjust a value
it is told to take; settings are independent of each other.

## 7. Plan

The order was: the command engine and its abstract service first, because all
else rests on it; then what lies under it (framing, wire) and around it
(sessions); the RTP chain from slots to frames; and what messages carry.

Done since: handlers and their tables (`RcpEvents`), registrations (`RcpAccess`), addresses, answers with a
structure, pictures.

Next, models: a heap with several packets in `RtpBuffers`, for `seq_cmp` near the wrap; the answers of a
handler's command in `RcpCommand`, so that events and commands are composed at the grain of
slots; a preset that is reset by `preset_set_default` while another client updates it.

Next, proofs: of the models above, when they are there.  There are eight modules of proofs, one
per group of components: `RcpCommandProof`, `RcpReadingProof` (the stream, answers with a structure),
`RcpClientProof` (sessions, events, registrations), `RtpBuffersProof`, `RtpMergeProof`, `RtpH263Proof`,
`RcpMessagesProof` (what messages carry, presets among them) and `RcpPtzProof` (which takes the
induction over numbers from `RcpReadingProof`); new proofs join them.
