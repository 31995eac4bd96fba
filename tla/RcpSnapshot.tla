----------------------------- MODULE RcpSnapshot -----------------------------
(***************************************************************************)
(* get_jpeg_snapshot: an HTTP request on a connection of its own.  The     *)
(* first recv must give the whole header; what follows is put at the start *)
(* of the caller's buffer until the length in the header is used up.       *)
(*                                                                         *)
(* An octet is its place in what the server sends: the header is 1 ..      *)
(* HeaderLength, the picture comes after it.  TCP splits it anywhere, recv *)
(* may fail and the server may close the connection early.                 *)
(***************************************************************************)
EXTENDS Integers, Sequences

CONSTANTS HeaderLength, PictureLength,
          FirstMost, NextMost,   \* what recv may give, 2048 and 4096
          MaxBroken              \* bound: calls of recv that fail

ASSUME SnapshotAssumption ==
  /\ HeaderLength \in Nat \ {0} /\ PictureLength \in Nat
  /\ FirstMost \in Nat \ {0} /\ NextMost \in Nat \ {0}
  /\ MaxBroken \in Nat

VARIABLES snap,       \* "connect", "first", "rest", "done", "lost" or "error"
          come,       \* how many octets have come through the network
          taken_up,   \* how many of them recv has given
          hung_up,    \* the server has closed the connection
          pos, to_read,   \* as in the code
          data,       \* the caller's buffer: data[i] is at the offset i - 1
          broken,     \* counter
          with_header   \* history: octets of the picture in the first recv

snapshotVars == <<snap, come, taken_up, hung_up, pos, to_read, data, broken,
                  with_header>>

Sent == HeaderLength + PictureLength
Stretch(n, k) == [i \in 1 .. k |-> n + i]   \* the k octets after the n-th

SnapshotInit ==
  /\ snap = "connect" /\ come = 0 /\ taken_up = 0 /\ hung_up = FALSE
  /\ pos = 0 /\ to_read = 0 /\ data = <<>> /\ broken = 0 /\ with_header = 0

\* socket, gethostbyname and connect, one of which may fail.
OpenHttp ==
  /\ snap = "connect" /\ snap' \in {"first", "error"}
  /\ UNCHANGED <<come, taken_up, hung_up, pos, to_read, data, broken,
                 with_header>>

ServerSends ==
  /\ snap \in {"first", "rest"} /\ ~hung_up /\ come < Sent
  /\ come' = come + 1
  /\ UNCHANGED <<snap, taken_up, hung_up, pos, to_read, data, broken,
                 with_header>>

ServerCloses ==
  /\ snap \in {"first", "rest"} /\ ~hung_up
  /\ hung_up' = TRUE
  /\ UNCHANGED <<snap, come, taken_up, pos, to_read, data, broken, with_header>>

\* What recv may give, at most m octets.
Gives(k, m) == k \in 1 .. m /\ taken_up + k <= come

\* Mutant: the rest is put behind what has come with the header.
FirstRecvKeeps(k) ==
  /\ snap = "first" /\ Gives(k, FirstMost)
  /\ taken_up' = k
  /\ data' = Stretch(0, k)
  /\ IF k < HeaderLength
     THEN snap' = "lost" /\ UNCHANGED <<pos, to_read, with_header>>
     ELSE /\ snap' = "rest" /\ pos' = k
          /\ to_read' = PictureLength - (k - HeaderLength)
          /\ with_header' = k - HeaderLength
  /\ UNCHANGED <<come, hung_up, broken>>

\* Content-Length and the empty line are looked for in what has come; when they
\* are not there, strstr gives NULL and all is lost.
FirstRecv(k) ==
  /\ snap = "first" /\ Gives(k, FirstMost)
  /\ taken_up' = k
  /\ data' = Stretch(0, k)
  /\ IF k < HeaderLength
     THEN snap' = "lost" /\ UNCHANGED <<to_read, with_header>>
     ELSE /\ snap' = "rest"
          /\ to_read' = PictureLength - (k - HeaderLength)
          /\ with_header' = k - HeaderLength
  /\ UNCHANGED <<come, hung_up, pos, broken>>

\* Nothing has come: the server has closed, or recv fails.
FirstRecvEmpty ==
  /\ snap = "first" /\ snap' = "lost"
  /\ hung_up /\ come = 0
  /\ UNCHANGED <<come, taken_up, hung_up, pos, to_read, data, broken,
                 with_header>>

Looping == snap = "rest" /\ to_read # 0

\* The k octets after the n-th, from the offset o on.
Put(buffer, o, n, k) ==
  [i \in 1 .. (IF o + k > Len(buffer) THEN o + k ELSE Len(buffer)) |->
     IF i > o /\ i <= o + k THEN n + i - o ELSE buffer[i]]

\* At an offset below zero it would write in front of the buffer.
NextRecv(k) ==
  /\ Looping /\ Gives(k, NextMost) /\ pos >= 0
  /\ data' = Put(data, pos, taken_up, k)
  /\ taken_up' = taken_up + k
  /\ pos' = pos + k /\ to_read' = to_read - k
  /\ UNCHANGED <<snap, come, hung_up, broken, with_header>>

\* The -1 that recv returns is added like a length.
RecvBreaks ==
  /\ Looping
  /\ broken < MaxBroken /\ broken' = broken + 1
  /\ pos' = pos - 1 /\ to_read' = to_read + 1
  /\ UNCHANGED <<snap, come, taken_up, hung_up, data, with_header>>

\* *len = pos.  (When recv returns 0 the loop only spins.)
SnapshotDone ==
  /\ snap = "rest" /\ to_read = 0 /\ snap' = "done"
  /\ UNCHANGED <<come, taken_up, hung_up, pos, to_read, data, broken,
                 with_header>>

Receives == (\E k \in 1 .. NextMost : NextRecv(k)) \/ SnapshotDone

SnapshotNext ==
  \/ OpenHttp \/ ServerSends \/ ServerCloses
  \/ (\E k \in 1 .. FirstMost : FirstRecv(k)) \/ FirstRecvEmpty
  \/ Receives \/ RecvBreaks

SnapshotSpec == SnapshotInit /\ [][SnapshotNext]_snapshotVars

-----------------------------------------------------------------------------
\* What the caller gets is the end of the picture, each octet once and in its
\* place and none of the header: exactly what came with the header is missing,
\* so the picture is whole when the header came alone and at no other time (see
\* SnapshotIsPicture).  When the connection was closed before the end, or a recv
\* has failed, the call does not return (get_jpeg_snapshot).
SnapshotTail ==
  snap = "done" =>
    /\ SubSeq(data, 1, pos) =
         Stretch(HeaderLength + with_header, PictureLength - with_header)
    /\ taken_up = Sent /\ broken = 0

\* The test program stores what the call returns, without a look at its result,
\* as a picture: "get_jpeg_snapshot("10.25.25.237", data, &len)" and then
\* "fopen("snap.jpeg", "w"); fwrite(data, len, 1, out)" (test_jpeg.c:23, 28-29).
\* It does not hold: recv in the loop writes over what has come with the header.
SnapshotIsPicture ==
  snap = "done" => SubSeq(data, 1, pos) = Stretch(HeaderLength, PictureLength)
=============================================================================
