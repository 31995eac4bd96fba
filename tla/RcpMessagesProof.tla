-------------------------- MODULE RcpMessagesProof --------------------------
(***************************************************************************)
(* What messages carry: the inductive invariants of a packet on the wire,  *)
(* of a setting, of the size of a stream, of a snapshot, of a search for   *)
(* devices, of their addresses and of an update of presets, for all values *)
(* of the constants.  Each part has its own specification; none looks at   *)
(* the state of another.                                                   *)
(***************************************************************************)
EXTENDS RcpWire, RcpSettings, RcpResolution, RcpSnapshot, RcpDetect,
        RcpAddress, RcpPreset, SequenceTheorems, TLAPS

-----------------------------------------------------------------------------
(***************************************************************************)
(* The packets: what is on the wire comes from the header that was given   *)
(* to rcp_send, and what rcp_recv stores comes from what is on the wire.   *)
(***************************************************************************)

OnTheWire ==
  /\ req \in Requests
  /\ tpkt = write_TPKT_header(req.payload_length + RCP_HEADER_LENGTH
                                + TPKT_HEADER_LENGTH)
  /\ packet = write_rcp_header(req)

WireInv ==
  /\ phase \in {"sent", "received"} => OnTheWire
  /\ phase = "received" =>
       /\ len = FromWord(tpkt[3], tpkt[4]) - TPKT_HEADER_LENGTH
       /\ slot = get_request_id(packet)
       /\ resp = read_rcp_header(packet)

\* Words as numbers.  Their bound is opened here only: the provers would write
\* a range of 65536 numbers out.
LEMMA WordIs ==
  ASSUME NEW w
  PROVE  /\ w \in Word <=> w \in Nat /\ w < 65536
         /\ w \in 0 .. WordMost - 20 <=> w \in Nat /\ w < 65516
<1>1. WordMost \in Nat /\ WordMost > 65534 /\ WordMost < 65536
  BY DEF WordMost
<1>2. w \in 0 .. WordMost <=> w \in Nat /\ w < 65536
  BY <1>1
<1>3. w \in 0 .. WordMost - 20 <=> w \in Nat /\ w < 65516
  BY <1>1
<1> QED BY <1>2, <1>3 DEF Word

\* The high octet of a word is one.
LEMMA DivRange ==
  ASSUME NEW w \in Word
  PROVE  w \div 256 \in 0 .. 255
<1>1. w \in Nat /\ w < 65536
  BY WordIs
<1> QED BY <1>1

\* The octets of a word give the word again.
LEMMA WordAgain ==
  ASSUME NEW w \in Word
  PROVE  FromWord(Hi(w), Lo(w)) = w
BY WordIs DEF FromWord, Hi, Lo

\* The length in the TPKT header is read back as it was written (no packet of a
\* caller has 65536 octets).
LEMMA LengthAgain ==
  ASSUME NEW n \in Word
  PROVE  FromWord(write_TPKT_header(n)[3], write_TPKT_header(n)[4]) = n
<1>1. (n \div 256) % 256 = n \div 256
  <2>1. n \div 256 \in 0 .. 255
    BY DivRange
  <2>2. \A q \in 0 .. 255 : q % 256 = q
    OBVIOUS
  <2> QED BY <2>1, <2>2
<1>2. write_TPKT_header(n)[3] = Hi(n) /\ write_TPKT_header(n)[4] = Lo(n)
  BY <1>1 DEF write_TPKT_header, Hi, Lo
<1> QED BY <1>2, WordAgain

\* The fields of a request, one by one.
LEMMA RequestFields ==
  ASSUME NEW h \in Requests
  PROVE  /\ h.tag \in Tags /\ h.rw \in Rws /\ h.client_id \in ClientIds
         /\ h.version = RCP_VERSION /\ h.continuation = 0
         /\ h.action = RCP_PACKET_ACTION_REQUEST
         /\ h.session_id \in SessionWords \X SessionWords
         /\ h.numeric_descriptor \in Descriptors
         /\ h.payload_length \in PayloadLengths
BY DEF Requests

\* The version, rw, continuation and action of a request in their octets: rw is
\* read from the half of the version.
LEMMA SharedOctets ==
  ASSUME NEW h \in Requests, NEW o, NEW q,
         o = (h.version * 16 + h.rw) % 256,
         q = (h.continuation * 128 + h.action * 16) % 256
  PROVE  /\ o \div 16 = h.version /\ o - (o % 16) = 16 * h.version
         /\ q \div 128 = h.continuation /\ q % 128 = h.action
<1>1. h.version = 3 /\ h.continuation = 0 /\ h.action = 0 /\ h.rw \in Rws
  BY RequestFields DEF RCP_VERSION, RCP_PACKET_ACTION_REQUEST
<1>2. h.rw \in 0 .. 1
  BY <1>1, WireAssumption
<1>3. h.version * 16 + h.rw \in 48 .. 49
  BY <1>1, <1>2
<1>4. h.continuation * 128 + h.action * 16 = 0
  BY <1>1
<1>5. \A x \in 48 .. 49 : /\ (x % 256) \div 16 = 3
                          /\ (x % 256) - ((x % 256) % 16) = 48
  OBVIOUS
<1>6. (0 % 256) \div 128 = 0 /\ (0 % 256) % 128 = 0
  OBVIOUS
<1> QED BY <1>1, <1>3, <1>4, <1>5, <1>6

\* Each field of a request is in the range of its octets.
LEMMA FieldRanges ==
  ASSUME NEW h \in Requests
  PROVE  /\ h.tag \in Word /\ h.client_id \in Word
         /\ h.session_id[1] \in Word /\ h.session_id[2] \in Word
         /\ h.session_id = <<h.session_id[1], h.session_id[2]>>
         /\ h.numeric_descriptor \in Word
         /\ h.payload_length \in 0 .. WordMost - 20
<1>1. h.tag \in Word /\ h.client_id \in Word /\ h.numeric_descriptor \in Word
  BY RequestFields, WireAssumption, Zenon
<1>2. h.payload_length \in 0 .. WordMost - 20
  BY RequestFields, WireAssumption, Zenon
<1>3. PICK a, b \in SessionWords : h.session_id = <<a, b>>
  BY RequestFields
<1>4. a \in Word /\ b \in Word
  BY WireAssumption
<1> QED BY <1>1, <1>2, <1>3, <1>4

\* read_rcp_header undoes write_rcp_header, but for rw.
LEMMA HeaderAgain ==
  ASSUME NEW h \in Requests
  PROVE  /\ read_rcp_header(write_rcp_header(h))
              = [h EXCEPT !.rw = 16 * h.version]
         /\ get_request_id(write_rcp_header(h)) = h.request_id
<1> DEFINE p == write_rcp_header(h)
           r == read_rcp_header(p)
<1>1. /\ p[1] = Hi(h.tag) /\ p[2] = Lo(h.tag) /\ p[3] = h.data_type
      /\ p[4] = (h.version * 16 + h.rw) % 256
      /\ p[5] = (h.continuation * 128 + h.action * 16) % 256
      /\ p[6] = h.request_id
      /\ p[7] = Hi(h.client_id) /\ p[8] = Lo(h.client_id)
  BY DEF write_rcp_header
<1>2. /\ p[9] = Hi(h.session_id[1]) /\ p[10] = Lo(h.session_id[1])
      /\ p[11] = Hi(h.session_id[2]) /\ p[12] = Lo(h.session_id[2])
      /\ p[13] = Hi(h.numeric_descriptor)
      /\ p[14] = Lo(h.numeric_descriptor)
      /\ p[15] = Hi(h.payload_length) /\ p[16] = Lo(h.payload_length)
  BY DEF write_rcp_header
<1> HIDE DEF p
<1>3. /\ r.tag = FromWord(p[1], p[2]) /\ r.data_type = p[3]
      /\ r.version = p[4] \div 16 /\ r.continuation = p[5] \div 128
      /\ r.rw = p[4] - (p[4] % 16) /\ r.action = p[5] % 128
      /\ r.request_id = p[6] /\ r.client_id = FromWord(p[7], p[8])
      /\ r.session_id = <<FromWord(p[9], p[10]), FromWord(p[11], p[12])>>
      /\ r.numeric_descriptor = FromWord(p[13], p[14])
      /\ r.payload_length = FromWord(p[15], p[16])
  BY DEF read_rcp_header
<1> HIDE DEF r
<1>4. /\ h.session_id[1] \in Word /\ h.session_id[2] \in Word
      /\ h.session_id = <<h.session_id[1], h.session_id[2]>>
  BY FieldRanges
<1>5. r.session_id = h.session_id
  BY <1>2, <1>3, <1>4, WordAgain
<1>6. h.payload_length \in Word
  <2>1. \A n \in 0 .. WordMost - 20 : n \in Word
    BY WordIs
  <2> QED BY <2>1, FieldRanges
<1>7. /\ r.tag = h.tag /\ r.client_id = h.client_id
      /\ r.numeric_descriptor = h.numeric_descriptor
      /\ r.payload_length = h.payload_length
  BY <1>1, <1>2, <1>3, <1>6, FieldRanges, WordAgain
<1>8. /\ r.version = h.version /\ r.continuation = h.continuation
      /\ r.rw = 16 * h.version /\ r.action = h.action
  BY <1>1, <1>3, SharedOctets
<1>9. get_request_id(p) = h.request_id
  BY <1>1 DEF get_request_id
<1>10. r = [h EXCEPT !.rw = 16 * h.version]
  <2>1. r = [tag |-> r.tag, data_type |-> r.data_type, version |-> r.version,
             rw |-> r.rw, continuation |-> r.continuation,
             action |-> r.action, request_id |-> r.request_id,
             client_id |-> r.client_id, session_id |-> r.session_id,
             numeric_descriptor |-> r.numeric_descriptor,
             payload_length |-> r.payload_length]
    BY DEF r, read_rcp_header
  <2>2. [h EXCEPT !.rw = 16 * h.version]
          = [tag |-> h.tag, data_type |-> h.data_type, version |-> h.version,
             rw |-> 16 * h.version, continuation |-> h.continuation,
             action |-> h.action, request_id |-> h.request_id,
             client_id |-> h.client_id, session_id |-> h.session_id,
             numeric_descriptor |-> h.numeric_descriptor,
             payload_length |-> h.payload_length]
    BY DEF Requests
  <2>. QED BY <1>1, <1>3, <1>5, <1>7, <1>8, <2>1, <2>2
<1> QED BY <1>9, <1>10 DEF r, p

\* A header that has gone round is the one given to rcp_send, but for rw.
LEMMA WireFollows == WireInv => RoundTrip
<1> SUFFICES ASSUME WireInv, phase = "received"
             PROVE  /\ resp = [req EXCEPT !.rw = 16 * req.version]
                    /\ slot = req.request_id
                    /\ len = RCP_HEADER_LENGTH + req.payload_length
  BY DEF RoundTrip
<1>1. OnTheWire
  BY DEF WireInv
<1>2. resp = [req EXCEPT !.rw = 16 * req.version] /\ slot = req.request_id
  BY <1>1, HeaderAgain DEF WireInv, OnTheWire
<1> DEFINE n == req.payload_length + RCP_HEADER_LENGTH + TPKT_HEADER_LENGTH
<1>3. n \in Word /\ req.payload_length \in Int
  <2>1. req.payload_length \in 0 .. WordMost - 20
    BY <1>1, FieldRanges DEF OnTheWire
  <2> QED BY <2>1, WordIs DEF RCP_HEADER_LENGTH, TPKT_HEADER_LENGTH
<1>4. FromWord(tpkt[3], tpkt[4]) = n
  <2>1. tpkt = write_TPKT_header(n)
    BY <1>1 DEF OnTheWire
  <2> HIDE DEF n
  <2> QED BY <2>1, <1>3, LengthAgain
<1>5. len = n - TPKT_HEADER_LENGTH
  BY <1>4 DEF WireInv
<1> QED BY <1>2, <1>3, <1>5 DEF RCP_HEADER_LENGTH, TPKT_HEADER_LENGTH

\* A header is read back as it was written, but for rw, which comes back as the
\* version; the caller's slot is chosen and the next packet starts where this
\* one ends, for every request whose fields fit into their octets
\* (write_TPKT_header, write_rcp_header, read_rcp_header).
THEOREM PacketsComeBack == WireSpec => []RoundTrip
<1>1. WireInit => WireInv
  BY DEF WireInit, WireInv
<1>2. WireInv /\ [WireNext]_wireVars => WireInv'
  <2> SUFFICES ASSUME WireInv, [WireNext]_wireVars PROVE WireInv'
    OBVIOUS
  <2>1. ASSUME NEW h \in Requests, rcp_send(h) PROVE WireInv'
    BY <2>1 DEF rcp_send, WireInv, OnTheWire
  <2>2. CASE rcp_recv
    BY <2>2 DEF rcp_recv, WireInv, OnTheWire
  <2>3. CASE UNCHANGED wireVars
    BY <2>3 DEF wireVars, WireInv, OnTheWire
  <2> QED BY <2>1, <2>2, <2>3 DEF WireNext
<1>3. WireInv => RoundTrip
  BY WireFollows
<1> QED BY <1>1, <1>2, <1>3, PTL DEF WireSpec
-----------------------------------------------------------------------------
(***************************************************************************)
(* The settings: what a caller may rely on is what its device would give   *)
(* back.  This rests on the catalogue: the functions of a sound setting    *)
(* write what they read.                                                   *)
(***************************************************************************)

Octetwide == {"AUDIO_ON_OFF", "ENABLE_VCA", "VIPROC_MODE", "VIDEO_OUT_STANDARD"}
As(c) == IF c \in Octetwide THEN "octet" ELSE "dword"
Place(c, l) ==
  IF c \in {"AUDIO_ON_OFF", "VIDEO_H264_ENC_BASE_OPERATION_MODE"} THEN 0 ELSE l

Reads(f) == f.sends = "none" /\ f.mode = "READ" /\ f.as = As(f.conf)
Writes(f) ==
  /\ f.sends = As(f.conf) /\ f.mode = "WRITE"
  /\ f.as = "ok" \/ (f.as = "same" /\ f.sends = "dword")

Relied(l) ==
  /\ relied[l] = Nothing \/ \E v : relied[l] = <<v>>
  /\ \A v : relied[l] = <<v>> =>
       Decode(As(conf), setting[Place(conf, l)]) = v

LastRead ==
  last.got /\ relied[last.line] # Nothing => <<last.value>> = relied[last.line]

SettingsInv ==
  /\ setting \in [DeviceDescriptors -> Int]
  /\ DOMAIN relied = Lines
  /\ last.got => last.line \in Lines
  /\ conf \in Sound => (\A l \in Lines : Relied(l)) /\ LastRead

-----------------------------------------------------------------------------
\* What the catalogue says of the sound settings (coder.c, audio.c, alarm.c).
LEMMA SoundFunctions ==
  ASSUME NEW f \in Functions, f.conf \in Sound
  PROVE  /\ Reads(f) \/ Writes(f)
         /\ f.name # "get_coder_preset"
<1> USE DEF Get, Set, Sound, Reads, Writes, As, Octetwide
<1>1. CASE f \in AudioState
  BY <1>1 DEF AudioState
<1>2. CASE f \in AudioInput
  BY <1>2 DEF AudioInput
<1>3. CASE f \in MicAndPeek
  BY <1>3 DEF MicAndPeek
<1>4. CASE f \in VideoAnalysis
  BY <1>4 DEF VideoAnalysis
<1>5. CASE f \in Coder
  BY <1>5 DEF Coder
<1>6. CASE f \in Video
  BY <1>6 DEF Video
<1> QED BY <1>1, <1>2, <1>3, <1>4, <1>5, <1>6 DEF Functions

\* No function of a sound setting is read or written elsewhere.
LEMMA SoundPlace ==
  ASSUME NEW f \in Functions, f.conf \in Sound, NEW l
  PROVE  Descriptor(f, l) = Place(f.conf, l)
BY SoundFunctions DEF Descriptor, Place

\* What is written is read back.
LEMMA ReadsBack ==
  ASSUME NEW f \in Functions, f.conf \in Sound, Writes(f),
         NEW v \in Inputs(f)
  PROVE  /\ v \in Int
         /\ Encode(f.sends, v) \in Int
         /\ Decode(As(f.conf), Encode(f.sends, v)) = v
         /\ f.as = "same" => Decode(As(f.conf), v) = v
<1>1. CASE f.sends = "octet"
  <2>1. v \in 0 .. 127 /\ v \in Int
    BY <1>1 DEF Inputs
  <2>2. v % 256 = v
    BY <2>1
  <2>3. As(f.conf) = "octet" /\ f.as # "same"
    BY <1>1 DEF Writes
  <2> QED BY <2>1, <2>2, <2>3, <1>1 DEF Encode, Decode, Char
<1>2. CASE f.sends = "dword"
  BY <1>2, SettingsAssumption DEF Inputs, Writes, Encode, Decode
<1> QED BY <1>1, <1>2 DEF Writes, As

\* What the device keeps of any request is a number.
LEMMA KeptIsNumber ==
  ASSUME NEW f \in Functions, NEW d \in DeviceDescriptors,
         NEW v \in Inputs(f), setting \in [DeviceDescriptors -> Int]
  PROVE  Kept(f, d, v) \subseteq Int
<1>1. v \in Int
  <2>1. f.sends \in {"none", "octet", "dword"}
    BY DEF Functions, AudioState, AudioInput, MicAndPeek, VideoAnalysis, Coder,
           Video, Get, Set
  <2> QED BY <2>1, SettingsAssumption DEF Inputs
<1>2. Encode(f.sends, v) \in Int
  BY <1>1 DEF Encode
<1> QED BY <1>2 DEF Kept, Adjusted

\* A function that reads leaves the setting alone.
LEMMA ReadingKeeps ==
  ASSUME NEW f \in Functions, NEW d, NEW v, Reads(f)
  PROVE  Kept(f, d, v) = {setting[d]} /\ ~Setter(f)
BY DEF Kept, Reads, Setter

\* A call leaves a number in each setting, whatever becomes of it.
LEMMA AnswerTypes ==
  ASSUME SettingsInv, NEW f \in Functions, NEW l \in Lines,
         NEW v \in Inputs(f), Answered(f, l, v) \/ NotAnswered(f, l, v)
  PROVE  /\ setting' \in [DeviceDescriptors -> Int]
         /\ DOMAIN relied' = Lines
         /\ last'.got => last'.line \in Lines
<1> DEFINE d == Descriptor(f, l)
<1>1. d \in DeviceDescriptors
  BY DEF DeviceDescriptors
<1>2. setting \in [DeviceDescriptors -> Int] /\ DOMAIN relied = Lines
  BY DEF SettingsInv
<1>3. Kept(f, d, v) \subseteq Int /\ setting[d] \in Int
  BY <1>1, <1>2, KeptIsNumber
<1>4. \E x \in Int : setting' = [setting EXCEPT ![d] = x]
  BY <1>3 DEF Answered, NotAnswered
<1>5. DOMAIN relied' = Lines
  BY <1>2 DEF Answered, NotAnswered
<1>6. last'.got => last'.line = l
  BY DEF Answered, NotAnswered
<1> QED BY <1>1, <1>2, <1>4, <1>5, <1>6

\* Reading: what comes is what the caller has relied on.
LEMMA KeepsReading ==
  ASSUME SettingsInv, NEW f \in Functions, NEW l \in Lines,
         NEW v \in Inputs(f), Answered(f, l, v) \/ NotAnswered(f, l, v),
         f.conf = conf, conf' = conf, conf \in Sound, Reads(f)
  PROVE  (\A k \in Lines : Relied(k))' /\ LastRead'
<1> DEFINE d == Descriptor(f, l)
<1>1. d = Place(conf, l) /\ d \in DeviceDescriptors
  BY SoundPlace DEF DeviceDescriptors
<1>2. setting' = setting /\ relied' = relied
  <2>1. Kept(f, d, v) = {setting[d]} /\ ~Setter(f)
    BY ReadingKeeps
  <2>2. setting' = [setting EXCEPT ![d] = setting[d]]
    BY <2>1 DEF Answered, NotAnswered
  <2>3. relied' = relied
    BY <2>1 DEF Answered, NotAnswered
  <2> QED BY <2>2, <2>3, <1>1 DEF SettingsInv
<1>3. (\A k \in Lines : Relied(k))'
  BY <1>2 DEF SettingsInv, Relied
<1>4. CASE NotAnswered(f, l, v)
  <2>1. ~last'.got
    BY <1>4 DEF NotAnswered
  <2> QED BY <2>1, <1>3 DEF LastRead
<1>5. CASE Answered(f, l, v)
  <2>1. last'.line = l /\ last'.value = Result(f, v, setting[d])
    BY <1>5, ReadingKeeps DEF Answered
  <2>2. Result(f, v, setting[d]) = Decode(As(conf), setting[d])
    BY DEF Result, Reads, As
  <2>3. Relied(l)
    BY DEF SettingsInv
  <2>4. relied[l] # Nothing => <<last'.value>> = relied[l]
    BY <2>1, <2>2, <2>3, <1>1 DEF Relied
  <2> QED BY <2>1, <2>4, <1>2, <1>3 DEF LastRead
<1> QED BY <1>4, <1>5

\* Writing: the caller relies on a value only if the device has it.
LEMMA KeepsWriting ==
  ASSUME SettingsInv, NEW f \in Functions, NEW l \in Lines,
         NEW v \in Inputs(f), Answered(f, l, v) \/ NotAnswered(f, l, v),
         f.conf = conf, conf' = conf, conf \in Sound, Writes(f)
  PROVE  (\A k \in Lines : Relied(k))' /\ LastRead'
<1> DEFINE d == Descriptor(f, l)
<1>1. /\ \A k : Descriptor(f, k) = Place(conf, k)
      /\ d \in DeviceDescriptors
  BY SoundPlace DEF DeviceDescriptors
<1>2. Setter(f)
  BY DEF Writes, Setter, As
<1>3. ~last'.got
  <2>1. CASE NotAnswered(f, l, v)
    BY <2>1 DEF NotAnswered
  <2>2. CASE Answered(f, l, v)
    <3>1. last'.got = ~Setter(f)
      BY <2>2 DEF Answered
    <3> QED BY <3>1, <1>2
  <2> QED BY <2>1, <2>2
<1>4. PICK x : setting' = [setting EXCEPT ![d] = x]
  BY DEF Answered, NotAnswered
<1>5. \A k \in Lines : Place(conf, k) # d => setting'[Place(conf, k)]
                                               = setting[Place(conf, k)]
  <2> SUFFICES ASSUME NEW k \in Lines, Place(conf, k) # d
               PROVE  setting'[Place(conf, k)] = setting[Place(conf, k)]
    OBVIOUS
  <2>1. Place(conf, k) \in DeviceDescriptors
    BY <1>1 DEF DeviceDescriptors
  <2> QED BY <2>1, <1>4 DEF SettingsInv
<1>6. ASSUME NEW k \in Lines, Place(conf, k) # d PROVE Relied(k)'
  <2>1. relied'[k] = relied[k]
    BY <1>6, <1>1, <1>2 DEF Answered, NotAnswered
  <2>2. Relied(k)
    BY DEF SettingsInv
  <2> QED BY <2>1, <2>2, <1>5, <1>6 DEF Relied
<1>7. ASSUME NEW k \in Lines, Place(conf, k) = d PROVE Relied(k)'
  <2>1. CASE NotAnswered(f, l, v)
    <3>1. relied'[k] = Nothing
      BY <2>1, <1>1, <1>2, <1>7 DEF NotAnswered
    <3> QED BY <3>1 DEF Relied, Nothing
  <2>2. CASE Answered(f, l, v)
    <3>1. PICK y \in Kept(f, d, v) :
            /\ setting' = [setting EXCEPT ![d] = y]
            /\ relied'[k] =
                 IF Result(f, v, y) # Failed
                      /\ (f.as = "same" \/ y = Encode(f.sends, v))
                 THEN <<v>> ELSE Nothing
      <4>1. PICK y \in Kept(f, d, v) :
              /\ setting' = [setting EXCEPT ![d] = y]
              /\ relied' =
                   [n \in Lines |->
                      IF Descriptor(f, n) # d THEN relied[n]
                      ELSE IF Result(f, v, y) # Failed
                                /\ (f.as = "same" \/ y = Encode(f.sends, v))
                      THEN <<v>> ELSE Nothing]
        BY <2>2, <1>2, Zenon DEF Answered
      <4>2. Descriptor(f, k) = d
        BY <1>1, <1>7
      <4> QED BY <4>1, <4>2
    <3>2. setting'[d] = y
      BY <3>1, <1>1 DEF SettingsInv
    <3>3. Result(f, v, y) # Failed
            /\ (f.as = "same" \/ y = Encode(f.sends, v)) =>
            Decode(As(conf), y) = v
      BY ReadsBack DEF Result
    <3>4. relied'[k] = <<v>> => Decode(As(conf), setting'[d]) = v
      <4>1. Nothing # <<v>>
        BY DEF Nothing
      <4>2. relied'[k] = <<v>> => Decode(As(conf), y) = v
        BY <3>1, <3>3, <4>1, Zenon
      <4> QED BY <4>2, <3>2
    <3>5. relied'[k] = Nothing \/ relied'[k] = <<v>>
      BY <3>1
    <3> QED BY <3>4, <3>5, <1>7, SMTT(30) DEF Relied, Nothing
  <2> QED BY <2>1, <2>2
<1> QED BY <1>3, <1>6, <1>7 DEF LastRead

\* The invariant of the settings is inductive.
LEMMA KeepsSettings ==
  ASSUME SettingsInv, [SettingsNext]_settingVars
  PROVE  SettingsInv'
<1>1. ASSUME NEW f \in Functions, NEW l \in Lines, Call(f, l)
      PROVE  SettingsInv'
  <2>1. PICK v \in Inputs(f) : Answered(f, l, v) \/ NotAnswered(f, l, v)
    BY <1>1 DEF Call
  <2>2. f.conf = conf /\ conf' = conf
    BY <1>1 DEF Call
  <2>3. conf \in Sound => (\A k \in Lines : Relied(k))' /\ LastRead'
    BY <2>1, <2>2, SoundFunctions, KeepsReading, KeepsWriting
  <2> QED BY <2>1, <2>2, <2>3, AnswerTypes DEF SettingsInv
<1>2. ASSUME NEW d \in DeviceDescriptors, OtherWrites(d)
      PROVE  SettingsInv'
  <2>1. PICK v \in Values :
          setting' = [setting EXCEPT ![d] = Encode(Width(conf), v)]
    BY <1>2 DEF OtherWrites
  <2>2. Encode(Width(conf), v) \in Int
    BY SettingsAssumption DEF Encode
  <2>3. setting' \in [DeviceDescriptors -> Int]
    BY <2>1, <2>2 DEF SettingsInv
  <2>4. relied' = Unknown /\ last' = last /\ conf' = conf
    BY <1>2 DEF OtherWrites
  <2>5. \A l \in Lines : relied'[l] = Nothing
    BY <2>4 DEF Unknown
  <2> QED BY <2>3, <2>4, <2>5
          DEF SettingsInv, Relied, LastRead, Unknown, Nothing
<1>3. CASE UNCHANGED settingVars
  BY <1>3 DEF settingVars, SettingsInv, Relied, LastRead
<1> QED BY <1>1, <1>2, <1>3 DEF SettingsNext

\* What a caller has set is what it reads back, for every setting whose
\* functions write what they read, every value that fits and every course of
\* failures (the pairs of functions of coder.c, audio.c, alarm.c).
THEOREM SetIsReadBack == SettingsSpec => []ReadBack
<1>1. SettingsInit => SettingsInv
  BY DEF SettingsInit, SettingsInv, Relied, LastRead, Unknown, Nothing, NoCall
<1>2. SettingsInv /\ [SettingsNext]_settingVars => SettingsInv'
  BY KeepsSettings
<1>3. SettingsInv => ReadBack
  BY DEF SettingsInv, LastRead, ReadBack
<1> QED BY <1>1, <1>2, <1>3, PTL DEF SettingsSpec
-----------------------------------------------------------------------------
(***************************************************************************)
(* The size of a stream: what each local variable of get_resolution is     *)
(* once its command is over.                                               *)
(***************************************************************************)

AfterBase       == {"choose", "done"}
AfterFormat     == AfterBase \union {"base"}
AfterFrequency  == AfterFormat \union {"format"}
AfterResolution == AfterFrequency \union {"frequency"}
AfterCoding     == AfterResolution \union {"resolution"}
AfterCurrent    == AfterCoding \union {"coding"}
Running         == AfterCurrent \union {"current"}

Known ==
  [current : Int, coding : {"none", "H263", "H264"}, resolution : Resolutions,
   format : {"NONE", "NTSC", "PAL"}, base : [Streams -> Modes \union {"none"}]]

ResolutionTypes ==
  /\ stream \in Streams /\ camera \in Cameras /\ known \in Known

PresetKnown ==
  /\ pc \in AfterCurrent /\ "current" \notin missed =>
       known.current = camera.current
  /\ pc \in AfterResolution /\ {"current", "resolution"} \cap missed = {} =>
       known.resolution = camera.resolution[camera.current]

FormatKnown ==
  /\ pc = "format" /\ "frequency" \notin missed =>
       known.format = StandardOf(camera.frequency)
  /\ pc \in AfterFormat /\ {"frequency", "format"} \cap missed = {} =>
       known.format = Standard

\* The operation mode is that of the encoder, and it is only there when the
\* encoder was found to be one of H.264.
ModeKnown ==
  /\ pc \in AfterCoding =>
       /\ known.coding \in {"none", camera.coding}
       /\ "coding" \notin missed => known.coding = camera.coding
  /\ pc \in Running \ AfterCoding => known.coding = "none"
  /\ \/ known.base[stream] = "none"
     \/ camera.coding = "H264" /\ known.base[stream] = camera.base[stream]
  /\ pc \in AfterBase /\ camera.coding = "H264"
       /\ {"coding", "base"} \cap missed = {} =>
       known.base[stream] = camera.base[stream]

Chosen ==
  size = IF OwnSize # NoSize THEN OwnSize
         ELSE get_resolution_from_preset(known.resolution, known.format)

ResolutionInv ==
  /\ pc \in Running \union {"start"}
  /\ pc \in Running =>
       ResolutionTypes /\ PresetKnown /\ FormatKnown /\ ModeKnown
  /\ pc = "done" => Chosen

\* A command changes one variable, or none and is remembered as missed.
LEMMA ReadIs ==
  ASSUME NEW c, NEW next, NEW v, NEW x, Read(c, next, v, x)
  PROVE  /\ pc = c /\ pc' = next
         /\ stream' = stream /\ camera' = camera /\ size' = size
         /\ \/ known' = [known EXCEPT ![v] = x] /\ missed' = missed
            \/ known' = known /\ missed' = missed \union {c}
BY DEF Read

\* What a camera has for the settings that are read.
LEMMA CameraHas ==
  ASSUME camera \in Cameras
  PROVE  /\ camera.current \in PresetIds /\ camera.coding \in {"H263", "H264"}
         /\ camera.resolution \in [PresetIds -> Resolutions]
         /\ camera.format \in {"NTSC", "PAL"}
         /\ camera.base \in [Streams -> Modes]
         /\ PresetIds \subseteq Int
         /\ StandardOf(camera.frequency) \in {"NONE", "NTSC", "PAL"}
BY DEF Cameras, PresetIds, StandardOf

\* get_resolution starts with what is on the stack.
LEMMA KeepsBegin == ASSUME ResolutionInv, Begin PROVE ResolutionInv'
<1>1. PICK r \in Resolutions : known' = Start(r)
  BY DEF Begin
<1>2. stream' \in Streams /\ camera' \in Cameras /\ pc' = "current"
  BY DEF Begin
<1>3. known'.coding = "none" /\ known'.base[stream'] = "none"
  BY <1>1, <1>2 DEF Start
<1>4. known' \in Known
  BY <1>1 DEF Start, Known
<1> QED BY <1>2, <1>3, <1>4
        DEF ResolutionInv, ResolutionTypes, PresetKnown, FormatKnown,
            ModeKnown, Running, AfterCurrent, AfterCoding, AfterResolution,
            AfterFrequency, AfterFormat, AfterBase

\* The preset that the coder uses, or -1.
LEMMA KeepsCurrent == ASSUME ResolutionInv, get_coder_preset
  PROVE ResolutionInv'
<1> USE DEF Running, AfterCurrent, AfterCoding, AfterResolution,
            AfterFrequency, AfterFormat, AfterBase
<1>1. /\ pc = "current" /\ pc' = "coding"
      /\ stream' = stream /\ camera' = camera /\ size' = size
      /\ \/ known' = [known EXCEPT !.current = camera.current]
              /\ missed' = missed
         \/ known' = known /\ missed' = missed \union {"current"}
  BY ReadIs DEF get_coder_preset
<1>2. ResolutionTypes /\ PresetKnown /\ FormatKnown /\ ModeKnown
  BY <1>1 DEF ResolutionInv
<1>3. ResolutionTypes'
  BY <1>1, <1>2, CameraHas DEF ResolutionTypes, Known
<1>4. known'.coding = known.coding /\ known'.base = known.base
      /\ ("current" \notin missed' => known'.current = camera.current)
  BY <1>1, <1>2 DEF ResolutionTypes, Known
<1> QED BY <1>1, <1>2, <1>3, <1>4
        DEF ResolutionInv, PresetKnown, FormatKnown, ModeKnown

\* The kind of the coder, or none.
LEMMA KeepsCoding ==
  ASSUME ResolutionInv, get_coder_video_operation_mode
  PROVE  ResolutionInv'
<1> USE DEF Running, AfterCurrent, AfterCoding, AfterResolution,
            AfterFrequency, AfterFormat, AfterBase
<1>1. /\ pc = "coding" /\ pc' = "resolution"
      /\ stream' = stream /\ camera' = camera /\ size' = size
      /\ \/ known' = [known EXCEPT !.coding = camera.coding]
              /\ missed' = missed
         \/ known' = known /\ missed' = missed \union {"coding"}
  BY ReadIs DEF get_coder_video_operation_mode
<1>2. ResolutionTypes /\ PresetKnown /\ FormatKnown /\ ModeKnown
  BY <1>1 DEF ResolutionInv
<1>3. ResolutionTypes'
  BY <1>1, <1>2, CameraHas DEF ResolutionTypes, Known
<1>4. known'.current = known.current /\ known'.base = known.base
      /\ known'.coding \in {"none", camera.coding}
      /\ ("coding" \notin missed' => known'.coding = camera.coding)
      /\ ("current" \notin missed' => "current" \notin missed)
  BY <1>1, <1>2 DEF ResolutionTypes, Known, ModeKnown
<1> QED BY <1>1, <1>2, <1>3, <1>4
        DEF ResolutionInv, PresetKnown, FormatKnown, ModeKnown

\* The resolution of the preset, which is only read of a preset that exists.
LEMMA KeepsResolution ==
  ASSUME ResolutionInv, get_preset
  PROVE  ResolutionInv'
<1> USE DEF Running, AfterCurrent, AfterCoding, AfterResolution,
            AfterFrequency, AfterFormat, AfterBase
<1>1. /\ pc = "resolution" /\ pc' = "frequency"
      /\ stream' = stream /\ camera' = camera /\ size' = size
      /\ \/ /\ known.current \in PresetIds
            /\ known' = [known EXCEPT !.resolution =
                           camera.resolution[known.current]]
            /\ missed' = missed
         \/ known' = known /\ missed' = missed \union {"resolution"}
  BY ReadIs DEF get_preset
<1>2. ResolutionTypes /\ PresetKnown /\ FormatKnown /\ ModeKnown
  BY <1>1 DEF ResolutionInv
<1>3. ResolutionTypes'
  BY <1>1, <1>2, CameraHas DEF ResolutionTypes, Known
<1>4. known'.current = known.current /\ known'.base = known.base
      /\ known'.coding = known.coding /\ missed \subseteq missed'
  BY <1>1, <1>2 DEF ResolutionTypes, Known
<1>5. {"current", "resolution"} \cap missed' = {} =>
        known'.resolution = camera.resolution[camera.current]
  BY <1>1, <1>2, <1>4 DEF ResolutionTypes, Known, PresetKnown
<1> QED BY <1>1, <1>2, <1>3, <1>4, <1>5
        DEF ResolutionInv, PresetKnown, FormatKnown, ModeKnown

\* The frequency tells the standard, or tells nothing.
LEMMA KeepsFrequency ==
  ASSUME ResolutionInv, get_video_input_frequency
  PROVE  ResolutionInv'
<1> USE DEF Running, AfterCurrent, AfterCoding, AfterResolution,
            AfterFrequency, AfterFormat, AfterBase
<1>1. /\ pc = "frequency" /\ pc' = "format"
      /\ stream' = stream /\ camera' = camera /\ size' = size
      /\ \/ known' = [known EXCEPT !.format = StandardOf(camera.frequency)]
              /\ missed' = missed
         \/ known' = known /\ missed' = missed \union {"frequency"}
  BY ReadIs DEF get_video_input_frequency
<1>2. ResolutionTypes /\ PresetKnown /\ FormatKnown /\ ModeKnown
  BY <1>1 DEF ResolutionInv
<1>3. ResolutionTypes'
  BY <1>1, <1>2, CameraHas DEF ResolutionTypes, Known
<1>4. known'.current = known.current /\ known'.base = known.base
      /\ known'.coding = known.coding /\ known'.resolution = known.resolution
      /\ missed \subseteq missed'
  BY <1>1, <1>2 DEF ResolutionTypes, Known
<1>5. "frequency" \notin missed' =>
        known'.format = StandardOf(camera.frequency)
  BY <1>1, <1>2 DEF ResolutionTypes, Known
<1> QED BY <1>1, <1>2, <1>3, <1>4, <1>5
        DEF ResolutionInv, PresetKnown, FormatKnown, ModeKnown

\* The format is read when the frequency has told nothing.
LEMMA KeepsFormat ==
  ASSUME ResolutionInv, get_video_input_format
  PROVE  ResolutionInv'
<1> USE DEF Running, AfterCurrent, AfterCoding, AfterResolution,
            AfterFrequency, AfterFormat, AfterBase
<1>1. /\ pc = "format" /\ pc' = "base"
      /\ stream' = stream /\ camera' = camera /\ size' = size
      /\ \/ /\ known.format = "NONE"
            /\ known' = [known EXCEPT !.format = camera.format]
            /\ missed' = missed
         \/ /\ known.format = "NONE"
            /\ known' = known /\ missed' = missed \union {"format"}
         \/ known.format # "NONE" /\ known' = known /\ missed' = missed
  BY ReadIs DEF get_video_input_format
<1>2. ResolutionTypes /\ PresetKnown /\ FormatKnown /\ ModeKnown
  BY <1>1 DEF ResolutionInv
<1>3. ResolutionTypes'
  BY <1>1, <1>2, CameraHas DEF ResolutionTypes, Known
<1>4. known'.current = known.current /\ known'.base = known.base
      /\ known'.coding = known.coding /\ known'.resolution = known.resolution
      /\ missed \subseteq missed'
  BY <1>1, <1>2 DEF ResolutionTypes, Known
<1>5. {"frequency", "format"} \cap missed' = {} => known'.format = Standard
  BY <1>1, <1>2, <1>4 DEF ResolutionTypes, Known, FormatKnown, Standard
<1>6. Standard' = Standard
  BY <1>1 DEF Standard
<1> QED BY <1>1, <1>2, <1>3, <1>4, <1>5, <1>6
        DEF ResolutionInv, PresetKnown, FormatKnown, ModeKnown

\* The modes are read when the coder is one of H.264.
LEMMA KeepsBase ==
  ASSUME ResolutionInv, get_h264_encoder_video_operation_mode
  PROVE  ResolutionInv'
<1> USE DEF Running, AfterCurrent, AfterCoding, AfterResolution,
            AfterFrequency, AfterFormat, AfterBase
<1>1. /\ pc = "base" /\ pc' = "choose"
      /\ stream' = stream /\ camera' = camera /\ size' = size
      /\ \/ /\ known.coding = "H264"
            /\ known' = [known EXCEPT !.base = camera.base]
            /\ missed' = missed
         \/ /\ known.coding = "H264"
            /\ known' = known /\ missed' = missed \union {"base"}
         \/ known.coding # "H264" /\ known' = known /\ missed' = missed
  BY ReadIs DEF get_h264_encoder_video_operation_mode
<1>2. ResolutionTypes /\ PresetKnown /\ FormatKnown /\ ModeKnown
  BY <1>1 DEF ResolutionInv
<1>3. ResolutionTypes'
  BY <1>1, <1>2, CameraHas DEF ResolutionTypes, Known
<1>4. known'.current = known.current /\ known'.format = known.format
      /\ known'.coding = known.coding /\ known'.resolution = known.resolution
      /\ missed \subseteq missed'
      /\ known'.base \in {known.base, camera.base}
  BY <1>1, <1>2 DEF ResolutionTypes, Known
<1>5. known'.base[stream] = "none"
      \/ (camera.coding = "H264" /\ known'.base[stream] = camera.base[stream])
  BY <1>1, <1>2, CameraHas DEF ResolutionTypes, Known, ModeKnown
<1>6. camera.coding = "H264" /\ {"coding", "base"} \cap missed' = {} =>
        known'.base[stream] = camera.base[stream]
  BY <1>1, <1>2, <1>4 DEF ResolutionTypes, Known, ModeKnown
<1>7. Standard' = Standard
  BY <1>1 DEF Standard
<1> QED BY <1>1, <1>2, <1>3, <1>4, <1>5, <1>6, <1>7
        DEF ResolutionInv, PresetKnown, FormatKnown, ModeKnown

\* The size is chosen from what has been read.
LEMMA KeepsChoose == ASSUME ResolutionInv, Choose PROVE ResolutionInv'
BY DEF Choose, ResolutionInv, ResolutionTypes, PresetKnown, FormatKnown,
       ModeKnown, Chosen, OwnSize, Standard, Running, AfterCurrent,
       AfterCoding, AfterResolution, AfterFrequency, AfterFormat, AfterBase

\* A size from the table of modes is one: the code tells by it that there is no
\* need to look at the preset.
LEMMA ModeHasSize ==
  /\ \A m \in DOMAIN ModeSizes : ModeSizes[m] # NoSize
  /\ "none" \notin DOMAIN ModeSizes
BY DEF ModeSizes, NoSize

\* When the answers that it needs are there, the size is that of the stream.
LEMMA ResolutionFollows == ResolutionInv => SizeOfStream
<1> SUFFICES ASSUME ResolutionInv, pc = "done", missed \cap Needed = {}
             PROVE  size = IF HasOwnSize THEN ModeSizes[camera.base[stream]]
                           ELSE get_resolution_from_preset(
                                  camera.resolution[camera.current], Standard)
  BY DEF SizeOfStream
<1>1. ResolutionTypes /\ PresetKnown /\ FormatKnown /\ ModeKnown /\ Chosen
  BY DEF ResolutionInv, Running, AfterCurrent, AfterCoding, AfterResolution,
         AfterFrequency, AfterFormat, AfterBase
<1>2. CASE HasOwnSize
  <2>1. known.base[stream] = camera.base[stream]
    BY <1>1, <1>2 DEF HasOwnSize, Needed, ModeKnown, AfterBase
  <2>2. OwnSize = ModeSizes[camera.base[stream]] /\ OwnSize # NoSize
    BY <2>1, <1>2, ModeHasSize
       DEF OwnSize, HasOwnSize, get_resolution_from_h264_operation_mode
  <2> QED BY <2>2, <1>1, <1>2 DEF Chosen
<1>3. CASE ~HasOwnSize
  <2>1. known.base[stream] \notin DOMAIN ModeSizes
    BY <1>1, <1>3, ModeHasSize DEF HasOwnSize, ModeKnown
  <2>2. OwnSize = NoSize
    BY <2>1 DEF OwnSize, get_resolution_from_h264_operation_mode
  <2>3. known.resolution = camera.resolution[camera.current]
        /\ known.format = Standard
    BY <1>1, <1>3 DEF Needed, PresetKnown, FormatKnown, AfterResolution,
                      AfterFrequency, AfterFormat, AfterBase
  <2> QED BY <2>2, <2>3, <1>1, <1>3 DEF Chosen
<1> QED BY <1>2, <1>3

\* The size of a stream rests on the answers it needs and on no others, for
\* every camera and every failure (get_resolution).
THEOREM SizeIsOfTheStream == ResolutionSpec => []SizeOfStream
<1>1. ResolutionInit => ResolutionInv
  BY DEF ResolutionInit, ResolutionInv, Running, AfterCurrent, AfterCoding,
         AfterResolution, AfterFrequency, AfterFormat, AfterBase
<1>2. ResolutionInv /\ [ResolutionNext]_resolutionVars => ResolutionInv'
  <2> SUFFICES ASSUME ResolutionInv, [ResolutionNext]_resolutionVars
               PROVE  ResolutionInv'
    OBVIOUS
  <2>1. CASE UNCHANGED resolutionVars
    BY <2>1 DEF resolutionVars, ResolutionInv, ResolutionTypes, PresetKnown,
                FormatKnown, ModeKnown, Chosen, OwnSize, Standard
  <2> QED BY <2>1, KeepsBegin, KeepsCurrent, KeepsCoding, KeepsResolution,
             KeepsFrequency, KeepsFormat, KeepsBase, KeepsChoose
          DEF ResolutionNext
<1>3. ResolutionInv => SizeOfStream
  BY ResolutionFollows
<1> QED BY <1>1, <1>2, <1>3, PTL DEF ResolutionSpec
-----------------------------------------------------------------------------
(***************************************************************************)
(* The snapshot: what is in the caller's buffer while it is filled.        *)
(***************************************************************************)

SnapshotTypes ==
  /\ snap \in {"connect", "first", "rest", "done", "lost", "error"}
  /\ come \in 0 .. Sent /\ taken_up \in 0 .. come
  /\ pos \in Int /\ to_read \in Int /\ broken \in Nat /\ with_header \in Nat
  /\ data \in Seq(Int)

\* A failure moves pos and to_read away from what recv has given, and nothing
\* brings them back together.
SoFar ==
  /\ to_read = Sent - taken_up + broken
  /\ pos = taken_up - HeaderLength - with_header - broken
  /\ pos <= Len(data)
  /\ broken = 0 =>
       \A i \in 1 .. pos : data[i] = HeaderLength + with_header + i

SnapshotInv ==
  /\ SnapshotTypes
  /\ snap \in {"connect", "first"} => pos = 0 /\ broken = 0
  /\ snap \in {"rest", "done"} => SoFar
  /\ snap = "done" => to_read = 0

\* What a stretch of the stream is, octet by octet.
LEMMA StretchIs ==
  ASSUME NEW n \in Int, NEW k \in Nat
  PROVE  /\ Stretch(n, k) \in Seq(Int)
         /\ Len(Stretch(n, k)) = k
         /\ \A i \in 1 .. k : Stretch(n, k)[i] = n + i
BY DEF Stretch

\* What recv writes goes behind what is there and changes nothing before it.
LEMMA PutIs ==
  ASSUME NEW s \in Seq(Int), NEW o \in Nat, NEW n \in Int, NEW k \in Nat,
         o <= Len(s)
  PROVE  /\ Put(s, o, n, k) \in Seq(Int)
         /\ Len(Put(s, o, n, k)) >= o + k
         /\ \A i \in 1 .. o : Put(s, o, n, k)[i] = s[i]
         /\ \A i \in o + 1 .. o + k : Put(s, o, n, k)[i] = n + i - o
<1> DEFINE m == IF o + k > Len(s) THEN o + k ELSE Len(s)
           e(i) == IF i > o /\ i <= o + k THEN n + i - o ELSE s[i]
           t == [i \in 1 .. m |-> e(i)]
<1>1. m \in Nat /\ m >= o + k /\ Len(s) \in Nat
  OBVIOUS
<1>2. \A i \in 1 .. m : e(i) \in Int
  <2> SUFFICES ASSUME NEW i \in 1 .. m PROVE e(i) \in Int
    OBVIOUS
  <2>1. CASE i > o /\ i <= o + k
    BY <2>1
  <2>2. CASE ~(i > o /\ i <= o + k)
    <3>1. i \in 1 .. Len(s)
      BY <2>2, <1>1
    <3>2. s[i] \in Int
      BY <3>1, ElementOfSeq
    <3> QED BY <3>2, <2>2
  <2> QED BY <2>1, <2>2
<1>3. t \in Seq(Int) /\ Len(t) = m
  <2> HIDE DEF m, e
  <2> QED BY <1>1, <1>2
<1>4. Put(s, o, n, k) = t
  BY DEF Put
<1>5. \A i \in 1 .. m : t[i] = e(i)
  OBVIOUS
<1> HIDE DEF m, t
<1> QED BY <1>1, <1>3, <1>4, <1>5

\* Nothing has come and nothing is in the buffer.
LEMMA SnapshotInitially == SnapshotInit => SnapshotInv
BY SnapshotAssumption
   DEF SnapshotInit, SnapshotInv, SnapshotTypes, SoFar, Sent

\* The first recv.
LEMMA KeepsFirst ==
  ASSUME SnapshotInv, NEW k \in 1 .. FirstMost, FirstRecv(k)
  PROVE  SnapshotInv'
<1> USE SnapshotAssumption
<1>1. data' \in Seq(Int) /\ Len(data') = k
  BY StretchIs DEF FirstRecv
<1>2. taken_up' \in 0 .. come'
  BY DEF FirstRecv, Gives, SnapshotInv, SnapshotTypes, Sent
<1>3. CASE k < HeaderLength
  BY <1>1, <1>2, <1>3
     DEF FirstRecv, Gives, SnapshotInv, SnapshotTypes, SoFar, Sent
<1>4. CASE k >= HeaderLength
  <2>1. snap' = "rest" /\ pos' = 0 /\ broken' = 0 /\ taken_up' = k
        /\ with_header' = k - HeaderLength /\ come' = come
        /\ to_read' = PictureLength - (k - HeaderLength)
    BY <1>4 DEF FirstRecv, SnapshotInv
  <2>2. SoFar'
    BY <2>1, <1>1 DEF SoFar, Sent
  <2> QED BY <2>1, <2>2, <1>1, <1>2, <1>4 DEF SnapshotInv, SnapshotTypes, Sent
<1> QED BY <1>3, <1>4

\* A recv of the loop.
LEMMA KeepsNext ==
  ASSUME SnapshotInv, NEW k \in 1 .. NextMost, NextRecv(k)
  PROVE  SnapshotInv'
<1> USE SnapshotAssumption
<1>1. SoFar /\ SnapshotTypes /\ snap = "rest"
  BY DEF SnapshotInv, NextRecv, Looping
<1>2. pos \in Nat /\ pos <= Len(data) /\ k \in Nat /\ taken_up \in Int
  BY <1>1 DEF SoFar, SnapshotTypes, NextRecv
<1>3. /\ data' \in Seq(Int) /\ Len(data') >= pos + k
      /\ \A i \in 1 .. pos : data'[i] = data[i]
      /\ \A i \in pos + 1 .. pos + k : data'[i] = taken_up + i - pos
  <2>1. data' = Put(data, pos, taken_up, k) /\ data \in Seq(Int)
    BY <1>1 DEF NextRecv, SnapshotTypes
  <2>2. /\ Put(data, pos, taken_up, k) \in Seq(Int)
        /\ Len(Put(data, pos, taken_up, k)) >= pos + k
        /\ \A i \in 1 .. pos : Put(data, pos, taken_up, k)[i] = data[i]
        /\ \A i \in pos + 1 .. pos + k :
             Put(data, pos, taken_up, k)[i] = taken_up + i - pos
    BY <2>1, <1>2, PutIs, SMTT(30)
  <2> QED BY <2>1, <2>2, Zenon
<1>4. /\ taken_up' = taken_up + k /\ pos' = pos + k /\ to_read' = to_read - k
      /\ snap' = snap /\ come' = come /\ broken' = broken
      /\ with_header' = with_header /\ taken_up + k <= come
  BY DEF NextRecv, Gives
<1>5. SnapshotTypes'
  BY <1>1, <1>3, <1>4 DEF SnapshotTypes, Sent
<1>6. broken = 0 =>
        \A i \in 1 .. pos + k : data'[i] = HeaderLength + with_header + i
  <2> SUFFICES ASSUME broken = 0, NEW i \in 1 .. pos + k
               PROVE  data'[i] = HeaderLength + with_header + i
    OBVIOUS
  <2>1. CASE i <= pos
    BY <2>1, <1>1, <1>2, <1>3 DEF SoFar
  <2>2. CASE i > pos
    BY <2>2, <1>1, <1>2, <1>3 DEF SoFar, SnapshotTypes
  <2> QED BY <2>1, <2>2, <1>2
<1>7. SoFar'
  BY <1>1, <1>3, <1>4, <1>6 DEF SoFar, SnapshotTypes, Sent
<1> QED BY <1>1, <1>4, <1>5, <1>7 DEF SnapshotInv

\* The other steps leave the buffer alone.
LEMMA KeepsSnapshot ==
  ASSUME SnapshotInv, [SnapshotNext]_snapshotVars
  PROVE  SnapshotInv'
<1> USE SnapshotAssumption
<1>1. CASE UNCHANGED snapshotVars
  BY <1>1 DEF snapshotVars, SnapshotInv, SnapshotTypes, SoFar
<1>2. CASE OpenHttp \/ FirstRecvEmpty
  BY <1>2 DEF OpenHttp, FirstRecvEmpty, SnapshotInv, SnapshotTypes, SoFar
<1>3. CASE ServerSends \/ ServerCloses
  <2>1. SnapshotTypes'
    BY <1>3 DEF ServerSends, ServerCloses, SnapshotInv, SnapshotTypes, Sent
  <2>2. SoFar => SoFar'
    BY <1>3 DEF ServerSends, ServerCloses, SoFar
  <2> QED BY <2>1, <2>2, <1>3 DEF ServerSends, ServerCloses, SnapshotInv
<1>4. CASE RecvBreaks
  <2>1. SoFar'
    BY <1>4 DEF RecvBreaks, Looping, SnapshotInv, SnapshotTypes, SoFar, Sent
  <2> QED BY <2>1, <1>4 DEF RecvBreaks, Looping, SnapshotInv, SnapshotTypes
<1>5. CASE SnapshotDone
  BY <1>5 DEF SnapshotDone, SnapshotInv, SnapshotTypes, SoFar
<1> QED BY <1>1, <1>2, <1>3, <1>4, <1>5, KeepsFirst, KeepsNext
        DEF SnapshotNext, Receives

\* A picture that was read to its end is the end of the picture.
LEMMA TailFollows == SnapshotInv => SnapshotTail
<1> USE SnapshotAssumption
<1> SUFFICES ASSUME SnapshotInv, snap = "done"
             PROVE  /\ SubSeq(data, 1, pos) =
                         Stretch(HeaderLength + with_header,
                                 PictureLength - with_header)
                    /\ taken_up = Sent /\ broken = 0
  BY DEF SnapshotTail
<1>1. taken_up = Sent /\ broken = 0 /\ pos = PictureLength - with_header
  BY DEF SnapshotInv, SnapshotTypes, SoFar, Sent
<1>2. data \in Seq(Int) /\ pos <= Len(data) /\ with_header \in Nat
        /\ pos \in Int
      /\ \A i \in 1 .. pos : data[i] = HeaderLength + with_header + i
  BY <1>1 DEF SnapshotInv, SnapshotTypes, SoFar
<1> DEFINE s == SubSeq(data, 1, pos)
           t == Stretch(HeaderLength + with_header, pos)
<1>3. CASE pos < 1
  <2>1. s = <<>>
    BY <1>3, <1>2, SubSeqEmpty
  <2>2. t = <<>>
    BY <1>2, <1>3 DEF Stretch
  <2> QED BY <2>1, <2>2, <1>1
<1>4. CASE pos >= 1
  <2>1. s \in Seq(Int) /\ Len(s) = pos /\ \A i \in 1 .. pos : s[i] = data[i]
    BY <1>2, <1>4
  <2>2. t \in Seq(Int) /\ Len(t) = pos
        /\ \A i \in 1 .. pos : t[i] = HeaderLength + with_header + i
    <3>1. HeaderLength + with_header \in Int /\ pos \in Nat
      BY <1>2, <1>4
    <3> QED BY <3>1, StretchIs
  <2> HIDE DEF s, t
  <2>3. s = t
    BY <2>1, <2>2, <1>2, SeqEqual
  <2> QED BY <2>3, <1>1 DEF s, t
<1> QED BY <1>2, <1>3, <1>4

\* What the caller gets of a snapshot is the end of the picture, each octet once
\* and in its place (get_jpeg_snapshot).
THEOREM SnapshotIsTheTail == SnapshotSpec => []SnapshotTail
<1>1. SnapshotInit => SnapshotInv
  BY SnapshotInitially
<1>2. SnapshotInv /\ [SnapshotNext]_snapshotVars => SnapshotInv'
  BY KeepsSnapshot
<1>3. SnapshotInv => SnapshotTail
  BY TailFollows
<1> QED BY <1>1, <1>2, <1>3, PTL DEF SnapshotSpec
-----------------------------------------------------------------------------
(***************************************************************************)
(* Finding devices: the answers that have arrived and are not listed yet   *)
(* are those in the buffer with the right magic number, in their order.    *)
(***************************************************************************)

Replies == [device : Devices, magic : {1, 2}, port : Nat, search : Nat]

\* The k-th answer of a behind the first m is the at[k]-th of r; all that r has
\* to be listed is among them.
Matches(at, r, a, m) ==
  /\ m \in 0 .. Len(a)
  /\ at \in [1 .. Len(a) - m -> 1 .. Len(r)]
  /\ \A j, k \in 1 .. Len(a) - m : j < k => at[j] < at[k]
  /\ \A k \in 1 .. Len(a) - m :
       r[at[k]] = a[m + k] /\ r[at[k]].magic = 1
  /\ \A i \in 1 .. Len(r) :
       r[i].magic = 1 => \E k \in 1 .. Len(a) - m : at[k] = i

DetectTypes ==
  /\ sockets \in Nat /\ searches \in Nat /\ reply_port = sockets
  /\ inFlight \subseteq Replies
  /\ received \in Seq(Replies) /\ dev_list \in Seq(Replies)
  /\ arrived \in Seq(Replies)

OwnPorts ==
  /\ \A a \in inFlight : a.port <= sockets
  /\ searching =>
       \A a \in inFlight : a.port = reply_port => a.search = searches

Of(s) == \A i \in 1 .. Len(s) : s[i].search = searches

Listing ==
  /\ \A i \in 1 .. Len(dev_list) : dev_list[i] = arrived[i]
  /\ \E at : Matches(at, received, arrived, Len(dev_list))
  /\ Of(received) /\ Of(dev_list) /\ Of(arrived)

DetectInv ==
  /\ DetectTypes /\ OwnPorts
  /\ searching => Listing
  /\ ~searching => received = <<>> /\ dev_list = arrived

-----------------------------------------------------------------------------
\* An answer that arrives goes to the end of both.
LEMMA MatchesMore ==
  ASSUME NEW r \in Seq(Replies), NEW a \in Seq(Replies), NEW m, NEW at,
         NEW x \in Replies, x.magic = 1, Matches(at, r, a, m)
  PROVE  \E b : Matches(b, Append(r, x), Append(a, x), m)
<1> DEFINE n == Len(a) - m
           b == [k \in 1 .. n + 1 |-> IF k = n + 1 THEN Len(r) + 1 ELSE at[k]]
           r1 == Append(r, x)
           a1 == Append(a, x)
<1>1. n \in Nat /\ m \in Nat /\ Len(r) \in Nat /\ Len(a) \in Nat
  BY DEF Matches
<1>2. /\ Len(r1) = Len(r) + 1 /\ Len(a1) = Len(a) + 1
      /\ r1[Len(r) + 1] = x /\ a1[Len(a) + 1] = x
      /\ \A i \in 1 .. Len(r) : r1[i] = r[i]
      /\ \A i \in 1 .. Len(a) : a1[i] = a[i]
  BY AppendProperties
<1>3. Len(a1) - m = n + 1
  BY <1>1, <1>2
<1>4. /\ at \in [1 .. n -> 1 .. Len(r)]
      /\ \A j, k \in 1 .. n : j < k => at[j] < at[k]
      /\ \A k \in 1 .. n : r[at[k]] = a[m + k] /\ r[at[k]].magic = 1
      /\ \A i \in 1 .. Len(r) : r[i].magic = 1 => \E k \in 1 .. n : at[k] = i
  BY DEF Matches
<1> HIDE DEF n, r1, a1
<1>5. /\ b \in [1 .. n + 1 -> 1 .. Len(r1)]
      /\ b[n + 1] = Len(r) + 1
      /\ \A k \in 1 .. n : b[k] = at[k] /\ at[k] \in 1 .. Len(r)
  BY <1>1, <1>2, <1>4
<1> HIDE DEF b
<1>6. \A j, k \in 1 .. n + 1 : j < k => b[j] < b[k]
  <2> SUFFICES ASSUME NEW j \in 1 .. n + 1, NEW k \in 1 .. n + 1, j < k
               PROVE  b[j] < b[k]
    OBVIOUS
  <2>1. j \in 1 .. n
    BY <1>1
  <2>2. CASE k = n + 1
    BY <2>1, <2>2, <1>1, <1>5
  <2>3. CASE k # n + 1
    <3>1. k \in 1 .. n
      BY <2>3, <1>1
    <3> QED BY <2>1, <3>1, <1>4, <1>5
  <2> QED BY <2>2, <2>3
<1>7. ASSUME NEW k \in 1 .. n + 1
      PROVE  r1[b[k]] = a1[m + k] /\ r1[b[k]].magic = 1
  <2>1. CASE k = n + 1
    <3>1. m + k = Len(a) + 1
      BY <2>1, <1>1 DEF n
    <3> QED BY <2>1, <3>1, <1>2, <1>5
  <2>2. CASE k # n + 1
    <3>1. k \in 1 .. n /\ m + k \in 1 .. Len(a)
      BY <2>2, <1>1 DEF n
    <3> QED BY <3>1, <1>2, <1>4, <1>5
  <2> QED BY <2>1, <2>2
<1>8. ASSUME NEW i \in 1 .. Len(r1), r1[i].magic = 1
      PROVE  \E k \in 1 .. n + 1 : b[k] = i
  <2>1. CASE i = Len(r) + 1
    <3>1. n + 1 \in 1 .. n + 1
      BY <1>1
    <3> QED BY <2>1, <3>1, <1>5
  <2>2. CASE i # Len(r) + 1
    <3>1. i \in 1 .. Len(r)
      BY <2>2, <1>1, <1>2
    <3>2. PICK k \in 1 .. n : at[k] = i
      BY <3>1, <1>2, <1>4, <1>8
    <3>3. k \in 1 .. n + 1 /\ b[k] = i
      BY <3>2, <1>1, <1>5
    <3> QED BY <3>3
  <2> QED BY <2>1, <2>2
<1>9. m \in 0 .. Len(a1)
  BY <1>1, <1>2 DEF Matches, n
<1>10. Matches(b, r1, a1, m)
  BY <1>3, <1>5, <1>6, <1>7, <1>8, <1>9 DEF Matches
<1> QED BY <1>10 DEF r1, a1

\* An answer that is not to be listed changes nothing.
LEMMA MatchesOther ==
  ASSUME NEW r \in Seq(Replies), NEW a \in Seq(Replies), NEW m, NEW at,
         NEW x \in Replies, x.magic # 1, Matches(at, r, a, m)
  PROVE  Matches(at, Append(r, x), a, m)
<1> DEFINE n == Len(a) - m
           r1 == Append(r, x)
<1>1. n \in Nat /\ m \in Nat /\ Len(r) \in Nat
  BY DEF Matches
<1>2. /\ Len(r1) = Len(r) + 1 /\ r1[Len(r) + 1] = x
      /\ \A i \in 1 .. Len(r) : r1[i] = r[i]
  BY AppendProperties
<1>3. /\ m \in 0 .. Len(a)
      /\ at \in [1 .. n -> 1 .. Len(r)]
      /\ \A j, k \in 1 .. n : j < k => at[j] < at[k]
      /\ \A k \in 1 .. n : r[at[k]] = a[m + k] /\ r[at[k]].magic = 1
      /\ \A i \in 1 .. Len(r) : r[i].magic = 1 => \E k \in 1 .. n : at[k] = i
  BY DEF Matches
<1> HIDE DEF n, r1
<1>4. at \in [1 .. n -> 1 .. Len(r1)]
  BY <1>1, <1>2, <1>3
<1>5. \A k \in 1 .. n : r1[at[k]] = a[m + k] /\ r1[at[k]].magic = 1
  BY <1>2, <1>3
<1>6. ASSUME NEW i \in 1 .. Len(r1), r1[i].magic = 1
      PROVE  \E k \in 1 .. n : at[k] = i
  <2>1. i \in 1 .. Len(r)
    BY <1>1, <1>2, <1>6
  <2> QED BY <2>1, <1>2, <1>3, <1>6
<1>7. Matches(at, r1, a, m)
  BY <1>3, <1>4, <1>5, <1>6 DEF Matches, n
<1> QED BY <1>7 DEF r1

\* What recvfrom gives is the next one to be listed, or not to be listed.
LEMMA MatchesHead ==
  ASSUME NEW r \in Seq(Replies), NEW a \in Seq(Replies), NEW m, NEW at,
         r # <<>>, Matches(at, r, a, m)
  PROVE  /\ r[1].magic = 1 =>
              /\ m + 1 \in 1 .. Len(a) /\ a[m + 1] = r[1]
              /\ \E b : Matches(b, Tail(r), a, m + 1)
         /\ r[1].magic # 1 => \E b : Matches(b, Tail(r), a, m)
<1> DEFINE n == Len(a) - m
           t == Tail(r)
<1>1. n \in Nat /\ m \in Nat /\ Len(r) \in Nat \ {0} /\ Len(a) \in Nat
  BY DEF Matches
<1>2. /\ Len(t) = Len(r) - 1
      /\ \A i \in 1 .. Len(t) : t[i] = r[i + 1]
  BY HeadTailProperties
<1>3. /\ m \in 0 .. Len(a)
      /\ at \in [1 .. n -> 1 .. Len(r)]
      /\ \A j, k \in 1 .. n : j < k => at[j] < at[k]
      /\ \A k \in 1 .. n : r[at[k]] = a[m + k] /\ r[at[k]].magic = 1
      /\ \A i \in 1 .. Len(r) : r[i].magic = 1 => \E k \in 1 .. n : at[k] = i
  BY DEF Matches
<1>4. n = Len(a) - m
  OBVIOUS
<1> HIDE DEF n, t
<1>5. ASSUME NEW i \in 1 .. Len(t)
      PROVE  i + 1 \in 1 .. Len(r) /\ t[i] = r[i + 1]
  BY <1>1, <1>2
<1>6. \A k \in 1 .. n : at[k] \in 1 .. Len(r)
  BY <1>3
<1>7. ASSUME r[1].magic = 1
      PROVE  /\ m + 1 \in 1 .. Len(a) /\ a[m + 1] = r[1]
             /\ \E b : Matches(b, t, a, m + 1)
  <2>1. PICK q \in 1 .. n : at[q] = 1
    BY <1>1, <1>3, <1>7
  <2>2. n >= 1 /\ 1 \in 1 .. n
    BY <1>1
  <2>3. q = 1
    <3>1. ASSUME q # 1 PROVE FALSE
      <4>1. 1 < q
        BY <3>1
      <4>2. at[1] < at[q]
        BY <4>1, <2>2, <1>3
      <4> QED BY <4>2, <2>1, <2>2, <1>6
    <3> QED BY <3>1
  <2>4. m + 1 \in 1 .. Len(a) /\ a[m + 1] = r[1]
    BY <2>1, <2>2, <2>3, <1>1, <1>3, <1>4
  <2> DEFINE b == [k \in 1 .. n - 1 |-> at[k + 1] - 1]
  <2>5. ASSUME NEW k \in 1 .. n - 1
        PROVE  /\ k + 1 \in 1 .. n /\ at[k + 1] \in 2 .. Len(r)
               /\ b[k] = at[k + 1] - 1
    <3>1. k + 1 \in 1 .. n /\ 1 < k + 1
      BY <1>1
    <3>2. at[1] < at[k + 1] /\ at[k + 1] \in 1 .. Len(r)
      BY <3>1, <2>2, <1>3, <1>6
    <3> QED BY <3>1, <3>2, <2>1, <2>3
  <2>6. b \in [1 .. n - 1 -> 1 .. Len(t)]
    BY <2>5, <1>1, <1>2
  <2> HIDE DEF b
  <2>7. \A j, k \in 1 .. n - 1 : j < k => b[j] < b[k]
    <3> SUFFICES ASSUME NEW j \in 1 .. n - 1, NEW k \in 1 .. n - 1, j < k
                 PROVE  b[j] < b[k]
      OBVIOUS
    <3>1. at[j + 1] < at[k + 1]
      BY <2>5, <1>3
    <3> QED BY <3>1, <2>5
  <2>8. ASSUME NEW k \in 1 .. n - 1
        PROVE  t[b[k]] = a[m + 1 + k] /\ t[b[k]].magic = 1
    <3>1. b[k] \in 1 .. Len(t) /\ b[k] + 1 = at[k + 1]
      BY <2>5, <2>6
    <3>2. t[b[k]] = r[at[k + 1]]
      BY <3>1, <1>5
    <3>3. r[at[k + 1]] = a[m + (k + 1)] /\ r[at[k + 1]].magic = 1
      BY <2>5, <1>3
    <3>4. m + (k + 1) = m + 1 + k
      BY <1>1
    <3> QED BY <3>2, <3>3, <3>4
  <2>9. ASSUME NEW i \in 1 .. Len(t), t[i].magic = 1
        PROVE  \E k \in 1 .. n - 1 : b[k] = i
    <3>1. PICK k \in 1 .. n : at[k] = i + 1
      BY <2>9, <1>3, <1>5
    <3>2. k # 1
      BY <3>1, <2>1, <2>3
    <3>3. k - 1 \in 1 .. n - 1 /\ (k - 1) + 1 = k
      <4>1. n \in Nat /\ k \in 1 .. n /\ k # 1
        BY <3>2, <1>1
      <4> QED BY <4>1
    <3>4. b[k - 1] = i
      BY <3>1, <3>3, <2>5, SMTT(30)
    <3> QED BY <3>3, <3>4
  <2>10. Len(a) - (m + 1) = n - 1 /\ m + 1 \in 0 .. Len(a)
    BY <2>2, <1>1, <1>4
  <2>11. Matches(b, t, a, m + 1)
    BY <2>6, <2>7, <2>8, <2>9, <2>10 DEF Matches
  <2> QED BY <2>4, <2>11
<1>8. ASSUME r[1].magic # 1
      PROVE  \E b : Matches(b, t, a, m)
  <2> DEFINE b == [k \in 1 .. n |-> at[k] - 1]
  <2>1. ASSUME NEW k \in 1 .. n
        PROVE  at[k] \in 2 .. Len(r) /\ b[k] = at[k] - 1
    <3>1. at[k] \in 1 .. Len(r) /\ at[k] # 1
      BY <1>3, <1>6, <1>8
    <3> QED BY <3>1
  <2>2. b \in [1 .. n -> 1 .. Len(t)]
    BY <2>1, <1>1, <1>2
  <2> HIDE DEF b
  <2>3. \A j, k \in 1 .. n : j < k => b[j] < b[k]
    BY <2>1, <1>3
  <2>4. ASSUME NEW k \in 1 .. n
        PROVE  t[b[k]] = a[m + k] /\ t[b[k]].magic = 1
    <3>1. b[k] \in 1 .. Len(t) /\ b[k] + 1 = at[k]
      BY <2>1, <2>2
    <3> QED BY <3>1, <1>3, <1>5
  <2>5. ASSUME NEW i \in 1 .. Len(t), t[i].magic = 1
        PROVE  \E k \in 1 .. n : b[k] = i
    <3>1. PICK k \in 1 .. n : at[k] = i + 1
      BY <2>5, <1>3, <1>5
    <3>2. b[k] = i
      BY <3>1, <2>1
    <3> QED BY <3>2
  <2>6. Matches(b, t, a, m)
    BY <2>2, <2>3, <2>4, <2>5, <1>3, <1>4 DEF Matches
  <2> QED BY <2>6
<1> QED BY <1>7, <1>8 DEF t

\* Nothing has arrived yet and nothing is waiting.
LEMMA MatchesNothing == \E at : Matches(at, <<>>, <<>>, 0)
<1>1. Matches(<<>>, <<>>, <<>>, 0)
  BY DEF Matches
<1> QED BY <1>1

\* When nothing waits, all that has arrived is listed.
LEMMA MatchesAll ==
  ASSUME NEW a \in Seq(Replies), NEW m, NEW at, Matches(at, <<>>, a, m)
  PROVE  m = Len(a)
<1>1. /\ m \in 0 .. Len(a) /\ Len(a) \in Nat
      /\ at \in [1 .. Len(a) - m -> 1 .. 0]
  BY DEF Matches
<1>2. ASSUME m # Len(a) PROVE FALSE
  <2>1. 1 \in 1 .. Len(a) - m
    BY <1>1, <1>2
  <2>2. at[1] \in 1 .. 0
    BY <1>1, <2>1
  <2> QED BY <2>2
<1> QED BY <1>2

\* A new search has a port that no answer in flight has.
LEMMA KeepsBroadcast == ASSUME DetectInv, Broadcast PROVE DetectInv'
<1>1. PICK D \in SUBSET Devices :
        inFlight' = inFlight \union
          [device : D, magic : {1, 2}, port : {NewPort}, search : {searches'}]
  BY DEF Broadcast
<1>2. /\ searches' = searches + 1 /\ sockets' = sockets + 1
      /\ reply_port' = sockets + 1 /\ ~searching /\ searching'
      /\ dev_list' = <<>> /\ arrived' = <<>> /\ received' = <<>>
      /\ sockets \in Nat /\ searches \in Nat
  BY DEF Broadcast, BeginSearch, NewPort, DetectInv, DetectTypes
<1>3. ASSUME NEW a \in inFlight'
      PROVE  /\ a \in Replies /\ a.port <= sockets'
             /\ a.port = reply_port' => a.search = searches'
  <2>1. CASE a \in inFlight
    <3>1. a \in Replies /\ a.port <= sockets
      BY <2>1 DEF DetectInv, DetectTypes, OwnPorts
    <3>2. a.port \in Nat
      BY <3>1 DEF Replies
    <3> QED BY <3>1, <3>2, <1>2
  <2>2. CASE a \in [device : D, magic : {1, 2}, port : {NewPort},
                    search : {searches'}]
    <3>1. a.port = sockets + 1 /\ a.search = searches' /\ a \in Replies
      BY <2>2, <1>2 DEF NewPort, Replies
    <3> QED BY <3>1, <1>2
  <2> QED BY <2>1, <2>2, <1>1
<1>4. DetectTypes' /\ OwnPorts'
  BY <1>2, <1>3 DEF DetectTypes, OwnPorts
<1>5. Listing'
  BY <1>2, MatchesNothing DEF Listing, Of
<1> QED BY <1>2, <1>4, <1>5 DEF DetectInv

\* An answer that comes to the port is one to this search.
LEMMA KeepsArrives ==
  ASSUME DetectInv, NEW x \in inFlight, Arrives(x)
  PROVE  DetectInv'
<1>1. /\ searching /\ searching' = searching /\ searches' = searches
      /\ sockets' = sockets /\ reply_port' = reply_port
      /\ dev_list' = dev_list /\ inFlight' \subseteq inFlight
      /\ received' = Append(received, x)
      /\ arrived' = IF x.magic = 1 THEN Append(arrived, x) ELSE arrived
  BY DEF Arrives
<1>2. DetectTypes /\ OwnPorts /\ Listing
  BY <1>1 DEF DetectInv
<1>3. x \in Replies /\ x.search = searches
  BY <1>2 DEF Arrives, DetectTypes, OwnPorts
<1>4. /\ received' \in Seq(Replies) /\ Len(received') = Len(received) + 1
      /\ received'[Len(received) + 1] = x
      /\ \A i \in 1 .. Len(received) : received'[i] = received[i]
  BY <1>1, <1>2, <1>3, AppendProperties DEF DetectTypes
<1>5. Of(received)'
  <2>1. ASSUME NEW i \in 1 .. Len(received')
        PROVE received'[i].search = searches
    <3>1. i = Len(received) + 1 \/ i \in 1 .. Len(received)
      BY <1>4, <1>2 DEF DetectTypes
    <3> QED BY <3>1, <1>2, <1>3, <1>4 DEF Listing, Of
  <2> QED BY <2>1, <1>1 DEF Of
<1>6. OwnPorts'
  BY <1>1, <1>2 DEF OwnPorts
<1>7. Of(dev_list)'
  BY <1>1, <1>2 DEF Listing, Of
<1>8. PICK at : Matches(at, received, arrived, Len(dev_list))
  BY <1>2 DEF Listing
<1>9. CASE x.magic = 1
  <2>1. /\ arrived' \in Seq(Replies) /\ Len(arrived') = Len(arrived) + 1
        /\ arrived'[Len(arrived) + 1] = x
        /\ \A i \in 1 .. Len(arrived) : arrived'[i] = arrived[i]
    BY <1>1, <1>2, <1>3, <1>9, AppendProperties DEF DetectTypes
  <2>2. \E b : Matches(b, received', arrived', Len(dev_list'))
    BY <1>1, <1>2, <1>3, <1>8, <1>9, MatchesMore DEF DetectTypes
  <2>3. Of(arrived)'
    <3>1. ASSUME NEW i \in 1 .. Len(arrived')
          PROVE  arrived'[i].search = searches
      <4>1. i = Len(arrived) + 1 \/ i \in 1 .. Len(arrived)
        BY <2>1, <1>2 DEF DetectTypes
      <4> QED BY <4>1, <2>1, <1>2, <1>3 DEF Listing, Of
    <3> QED BY <3>1, <1>1 DEF Of
  <2>4. Len(dev_list) <= Len(arrived) /\ Len(dev_list) \in Nat
        /\ Len(arrived) \in Nat
    BY <1>2, <1>8 DEF Matches, DetectTypes
  <2>5. \A i \in 1 .. Len(dev_list') : dev_list'[i] = arrived'[i]
    BY <2>1, <2>4, <1>1, <1>2 DEF Listing
  <2>6. DetectTypes'
    BY <2>1, <1>1, <1>2, <1>4 DEF DetectTypes
  <2> QED BY <2>2, <2>3, <2>5, <2>6, <1>1, <1>5, <1>6, <1>7
          DEF DetectInv, Listing
<1>10. CASE x.magic # 1
  <2>1. arrived' = arrived
    BY <1>1, <1>10
  <2>2. Matches(at, received', arrived', Len(dev_list'))
    BY <2>1, <1>1, <1>2, <1>3, <1>8, <1>10, MatchesOther DEF DetectTypes
  <2>3. DetectTypes'
    BY <2>1, <1>1, <1>2, <1>4 DEF DetectTypes
  <2>4. Of(arrived)'
          /\ \A i \in 1 .. Len(dev_list') : dev_list'[i] = arrived'[i]
    BY <2>1, <1>1, <1>2 DEF Listing, Of
  <2> QED BY <2>2, <2>3, <2>4, <1>1, <1>5, <1>6, <1>7 DEF DetectInv, Listing
<1> QED BY <1>9, <1>10

\* What is taken from the buffer is the next answer, or none to be listed.
LEMMA KeepsReceive == ASSUME DetectInv, Receive PROVE DetectInv'
<1>1. /\ searching /\ searching' = searching /\ searches' = searches
      /\ sockets' = sockets /\ reply_port' = reply_port
      /\ inFlight' = inFlight /\ arrived' = arrived
      /\ received # <<>> /\ received' = Tail(received)
  BY DEF Receive
<1>2. DetectTypes /\ OwnPorts /\ Listing
  BY <1>1 DEF DetectInv
<1>3. dev_list' = IF received[1].magic = 1 THEN Append(dev_list, received[1])
                  ELSE dev_list
  BY DEF Receive, Listed
<1>4. /\ received' \in Seq(Replies) /\ Len(received') = Len(received) - 1
      /\ \A i \in 1 .. Len(received') : received'[i] = received[i + 1]
      /\ Len(received) \in Nat \ {0}
  BY <1>1, <1>2, HeadTailProperties DEF DetectTypes
<1>5. Of(received)'
  <2>1. ASSUME NEW i \in 1 .. Len(received')
        PROVE received'[i].search = searches
    <3>1. i + 1 \in 1 .. Len(received)
      BY <1>4
    <3> QED BY <3>1, <1>2, <1>4 DEF Listing, Of
  <2> QED BY <2>1, <1>1 DEF Of
<1>6. OwnPorts' /\ Of(arrived)'
  BY <1>1, <1>2 DEF OwnPorts, Listing, Of
<1>7. received[1] \in Replies /\ received[1].search = searches
  <2>1. 1 \in 1 .. Len(received)
    BY <1>4
  <2> QED BY <2>1, <1>2, ElementOfSeq DEF DetectTypes, Listing, Of
<1>8. PICK at : Matches(at, received, arrived, Len(dev_list))
  BY <1>2 DEF Listing
<1>9. CASE received[1].magic = 1
  <2>1. /\ dev_list' \in Seq(Replies) /\ Len(dev_list') = Len(dev_list) + 1
        /\ dev_list'[Len(dev_list) + 1] = received[1]
        /\ \A i \in 1 .. Len(dev_list) : dev_list'[i] = dev_list[i]
        /\ Len(dev_list) \in Nat
    BY <1>2, <1>3, <1>7, <1>9, AppendProperties DEF DetectTypes
  <2>2. /\ arrived[Len(dev_list) + 1] = received[1]
        /\ \E b : Matches(b, received', arrived', Len(dev_list'))
    BY <2>1, <1>1, <1>2, <1>8, <1>9, MatchesHead DEF DetectTypes
  <2>3. ASSUME NEW i \in 1 .. Len(dev_list')
        PROVE  dev_list'[i] = arrived'[i] /\ dev_list'[i].search = searches
    <3>1. i = Len(dev_list) + 1 \/ i \in 1 .. Len(dev_list)
      BY <2>1
    <3>2. CASE i = Len(dev_list) + 1
      BY <3>2, <2>1, <2>2, <1>1, <1>7
    <3>3. CASE i \in 1 .. Len(dev_list)
      BY <3>3, <2>1, <1>1, <1>2 DEF Listing, Of
    <3> QED BY <3>1, <3>2, <3>3
  <2>4. Of(dev_list)'
    BY <2>3, <1>1 DEF Of
  <2>5. DetectTypes'
    BY <2>1, <1>1, <1>2, <1>4 DEF DetectTypes
  <2> QED BY <2>2, <2>3, <2>4, <2>5, <1>1, <1>5, <1>6 DEF DetectInv, Listing
<1>10. CASE received[1].magic # 1
  <2>1. dev_list' = dev_list
    BY <1>3, <1>10
  <2>2. \E b : Matches(b, received', arrived', Len(dev_list'))
    BY <2>1, <1>1, <1>2, <1>8, <1>10, MatchesHead DEF DetectTypes
  <2>3. DetectTypes'
    BY <2>1, <1>1, <1>2, <1>4 DEF DetectTypes
  <2>4. Of(dev_list)'
          /\ \A i \in 1 .. Len(dev_list') : dev_list'[i] = arrived'[i]
    BY <2>1, <1>1, <1>2 DEF Listing, Of
  <2> QED BY <2>2, <2>3, <2>4, <1>1, <1>5, <1>6 DEF DetectInv, Listing
<1> QED BY <1>9, <1>10

\* When the buffer is empty the list has all that has arrived.
LEMMA KeepsTimeOut == ASSUME DetectInv, TimeOut PROVE DetectInv'
<1>1. /\ searching /\ ~searching' /\ received = <<>> /\ received' = <<>>
      /\ dev_list' = dev_list /\ arrived' = arrived /\ searches' = searches
      /\ sockets' = sockets /\ reply_port' = reply_port
      /\ inFlight' = inFlight
  BY DEF TimeOut
<1>2. DetectTypes /\ OwnPorts /\ Listing
  BY <1>1 DEF DetectInv
<1>3. Len(dev_list) = Len(arrived)
  BY <1>1, <1>2, MatchesAll DEF Listing, DetectTypes
<1>4. dev_list = arrived
  BY <1>2, <1>3, SeqEqual DEF Listing, DetectTypes
<1>5. DetectTypes' /\ OwnPorts'
  BY <1>1, <1>2 DEF DetectTypes, OwnPorts
<1> QED BY <1>1, <1>4, <1>5 DEF DetectInv

\* At any time the list is the beginning of what has arrived.
LEMMA DetectFollows == DetectInv => ListsAnswers
<1> SUFFICES ASSUME DetectInv PROVE ListsAnswers
  OBVIOUS
<1>1. CASE ~searching
  BY <1>1 DEF DetectInv, ListsAnswers
<1>2. CASE searching
  <2>1. Listing /\ DetectTypes
    BY <1>2 DEF DetectInv
  <2> DEFINE n == Len(dev_list)
  <2>2. n \in 0 .. Len(arrived) /\ n \in Nat
    BY <2>1 DEF Listing, Matches, DetectTypes
  <2>3. dev_list = SubSeq(arrived, 1, n)
    <3>1. CASE n = 0
      <4>1. dev_list = <<>>
        BY <3>1, <2>1 DEF DetectTypes
      <4> QED BY <3>1, <4>1, SubSeqEmpty
    <3>2. CASE n # 0
      <4>1. /\ SubSeq(arrived, 1, n) \in Seq(Replies)
            /\ Len(SubSeq(arrived, 1, n)) = n
            /\ \A i \in 1 .. n : SubSeq(arrived, 1, n)[i] = arrived[i]
        BY <3>2, <2>1, <2>2 DEF DetectTypes
      <4> QED BY <4>1, <2>1, SeqEqual DEF Listing, DetectTypes
    <3> QED BY <3>1, <3>2
  <2> QED BY <2>1, <2>2, <2>3, <1>2 DEF ListsAnswers, Listing, Of
<1> QED BY <1>1, <1>2

\* A search lists the first answers that come, in their order, and none of an
\* earlier search, for every number of devices and searches and whatever is
\* lost, doubled or late (autodetect).
THEOREM SearchesListTheirAnswers == DetectSpec => []ListsAnswers
<1>1. DetectInit => DetectInv
  BY DEF DetectInit, DetectInv, DetectTypes, OwnPorts
<1>2. DetectInv /\ [DetectNext]_detectVars => DetectInv'
  <2> SUFFICES ASSUME DetectInv, [DetectNext]_detectVars PROVE DetectInv'
    OBVIOUS
  <2>1. CASE NoSocket
    BY <2>1 DEF NoSocket, BeginSearch, DetectInv, DetectTypes, OwnPorts
  <2>2. CASE UNCHANGED detectVars
    BY <2>2 DEF detectVars, DetectInv, DetectTypes, OwnPorts, Listing, Of
  <2> QED BY <2>1, <2>2, KeepsBroadcast, KeepsArrives, KeepsReceive,
             KeepsTimeOut DEF DetectNext
<1>3. DetectInv => ListsAnswers
  BY DetectFollows
<1> QED BY <1>1, <1>2, <1>3, PTL DEF DetectSpec
-----------------------------------------------------------------------------
(***************************************************************************)
(* The address of a device: what the device has, what is on the air for it *)
(* and what the caller holds are all of its own network.                   *)
(***************************************************************************)

OwnGateway(d, g) == \E e \in ever[d] : g = e.gateway
OwnMask(d, n) ==
  \E e \in ever[d] :
    n \in {e.netmask, ReadMask(e.netmask), ReadMask(ReadMask(e.netmask))}

Cautious == Units \ careless
OwnAll(d, r) == d \in Cautious => OwnGateway(d, r.gateway)
                                  /\ OwnMask(d, r.netmask)

AddressTypes ==
  /\ DOMAIN has = Units /\ has = [d \in Units |-> has[d]]
  /\ DOMAIN ever = Units /\ ever = [d \in Units |-> ever[d]]
  /\ DOMAIN dev = {"hw_addr", "address", "gateway", "netmask"}
  /\ ask_at \in {"idle", "MAC_ADDRESS", "IP_STR", "GATEWAY_IP_STR", "SUBNET",
                 "HARDWARE_VERSION"}
  /\ ask_at # "idle" => unit \in Units

\* What get_device has read so far is of the device that it asks.
ReadOwn ==
  /\ ask_at \in {"IP_STR", "GATEWAY_IP_STR", "SUBNET", "HARDWARE_VERSION"} =>
       dev.hw_addr = unit
  /\ ask_at \in {"SUBNET", "HARDWARE_VERSION"} /\ unit \in Cautious =>
       OwnGateway(unit, dev.gateway)
  /\ ask_at = "HARDWARE_VERSION" /\ unit \in Cautious =>
       OwnMask(unit, dev.netmask)

Others ==
  /\ \A d \in Units : OwnAll(d, has[d])
  /\ \A m \in on_air : m.port = "ADDRESSCHANGE"
       => OwnAll(m.body.hw_addr, m.body)

AddressInv ==
  /\ AddressTypes /\ Others /\ ReadOwn
  /\ whole => ask_at = "idle" /\ OwnAll(dev.hw_addr, dev)

-----------------------------------------------------------------------------
\* What get_device makes of a netmask for the third time is what it has made of
\* it for the second time.
LEMMA MaskSettles ==
  ASSUME NEW n
  PROVE  ReadMask(ReadMask(ReadMask(n))) = ReadMask(ReadMask(n))
<1>1. CASE n[1] > 127
  <2>1. ReadMask(n) = <<255, 255, 255, n[1]>>
    BY <1>1 DEF ReadMask
  <2>2. ReadMask(ReadMask(n)) = <<255, 255, 255, 255>>
    BY <2>1 DEF ReadMask
  <2>3. ReadMask(<<255, 255, 255, 255>>) = <<255, 255, 255, 255>>
    BY DEF ReadMask
  <2> QED BY <2>2, <2>3
<1>2. CASE ~(n[1] > 127)
  <2>1. ReadMask(n) = <<0, 0, 0, n[1]>>
    BY <1>2 DEF ReadMask
  <2>2. ReadMask(ReadMask(n)) = <<0, 0, 0, 0>>
    BY <2>1 DEF ReadMask
  <2>3. ReadMask(<<0, 0, 0, 0>>) = <<0, 0, 0, 0>>
    BY DEF ReadMask
  <2> QED BY <2>2, <2>3
<1> QED BY <1>1, <1>2

\* A netmask that was read from a device's own is one of its own.
LEMMA MaskStaysOwn ==
  ASSUME NEW d, NEW n, OwnMask(d, n)
  PROVE  OwnMask(d, ReadMask(n))
<1>1. PICK e \in ever[d] :
        n \in {e.netmask, ReadMask(e.netmask), ReadMask(ReadMask(e.netmask))}
  BY DEF OwnMask
<1>2. ReadMask(n) \in {e.netmask, ReadMask(e.netmask),
                       ReadMask(ReadMask(e.netmask))}
  BY <1>1, MaskSettles
<1> QED BY <1>2 DEF OwnMask

\* A device that gets more networks keeps those it had.
LEMMA OwnGrows ==
  ASSUME NEW d, ever[d] \subseteq ever'[d]
  PROVE  /\ \A g : OwnGateway(d, g) => OwnGateway(d, g)'
         /\ \A n : OwnMask(d, n) => OwnMask(d, n)'
BY DEF OwnGateway, OwnMask

\* What is a device's own depends on what it was given and on nothing else.
LEMMA OwnSame ==
  ASSUME ever' = ever
  PROVE  /\ \A d, g : OwnGateway(d, g) <=> OwnGateway(d, g)'
         /\ \A d, n : OwnMask(d, n) <=> OwnMask(d, n)'
BY DEF OwnGateway, OwnMask

\* When no setting and no datagram changes, all is as it was.
LEMMA OthersStay ==
  ASSUME Others, has' = has, on_air' = on_air, ever' = ever,
         careless \subseteq careless'
  PROVE  Others'
<1>1. \A d : d \in Cautious' => d \in Cautious
  BY DEF Cautious
<1> QED BY <1>1, OwnSame DEF Others, OwnAll

\* One command of get_device.
LEMMA GetsIs ==
  ASSUME NEW c, NEW field, NEW x, NEW next, Gets(c, field, x, next)
  PROVE  /\ ask_at = c
         /\ has' = has /\ on_air' = on_air /\ ever' = ever
         /\ careless' = careless /\ unit' = unit /\ whole' = whole
         /\ \/ ask_at' = next /\ dev' = [dev EXCEPT ![field] = x]
            \/ ask_at' = "idle" /\ dev' = dev
BY DEF Gets, Fail, Asks

\* Each device starts in its own network.
LEMMA AddressInitially == AddressInit => AddressInv
<1> SUFFICES ASSUME AddressInit PROVE AddressInv
  OBVIOUS
<1>1. PICK mask \in NetMasks : has = [d \in Units |-> Network(d, "here", mask)]
  BY DEF AddressInit
<1>2. AddressTypes
  BY <1>1 DEF AddressInit, AddressTypes
<1>3. \A d \in Units : OwnAll(d, has[d])
  BY <1>1 DEF AddressInit, OwnAll, OwnGateway, OwnMask, Network
<1> QED BY <1>2, <1>3 DEF AddressInit, AddressInv, Others, ReadOwn

\* An entry of the list is a device with its own network.
LEMMA KeepsListEntry ==
  ASSUME AddressInv, NEW d \in Units, ListEntry(d)
  PROVE  AddressInv'
<1>1. /\ has' = has /\ on_air' = on_air /\ ever' = ever
      /\ careless' = careless /\ ask_at = "idle" /\ ask_at' = "idle"
      /\ dev' = [hw_addr |-> d, address |-> has[d].address,
                 gateway |-> has[d].gateway, netmask |-> has[d].netmask]
  BY DEF ListEntry, Lookup
<1>2. Others'
  BY <1>1, OthersStay DEF AddressInv
<1>3. OwnAll(dev.hw_addr, dev)'
  <2>1. OwnAll(d, has[d])
    BY DEF AddressInv, Others
  <2>2. dev'.hw_addr = d /\ dev'.gateway = has[d].gateway
        /\ dev'.netmask = has[d].netmask
    BY <1>1
  <2> QED BY <2>1, <2>2, <1>1, OwnSame DEF OwnAll, Cautious
<1>4. AddressTypes'
  BY <1>1 DEF AddressInv, AddressTypes
<1> QED BY <1>1, <1>2, <1>3, <1>4 DEF AddressInv, ReadOwn

\* get_device starts: the variable is nobody's until it has returned 0.
LEMMA KeepsGetDevice ==
  ASSUME AddressInv, NEW d \in Units, get_device(d)
  PROVE  AddressInv'
<1>1. Others'
  BY OthersStay DEF AddressInv, get_device, Lookup
<1>2. AddressTypes'
  BY DEF AddressInv, AddressTypes, get_device, Lookup
<1> QED BY <1>1, <1>2 DEF AddressInv, ReadOwn, get_device

\* The commands of get_device fill the variable with what is of one device.
LEMMA KeepsReads ==
  ASSUME AddressInv,
         ReadMac \/ ReadIp \/ ReadGateway \/ ReadSubnet \/ ReadVersion
  PROVE  AddressInv'
<1>1. /\ ask_at # "idle" /\ ~whole
      /\ has' = has /\ on_air' = on_air /\ ever' = ever
      /\ careless' = careless /\ unit' = unit
  BY GetsIs
     DEF AddressInv, ReadMac, ReadIp, ReadGateway, ReadSubnet, ReadVersion,
         Fail, Asks
<1>2. Others'
  BY <1>1, OthersStay DEF AddressInv
<1>3. unit \in Units /\ AddressTypes /\ ReadOwn /\ OwnAll(unit, has[unit])
  BY <1>1 DEF AddressInv, AddressTypes, Others
<1>4. Cautious' = Cautious
  BY <1>1 DEF Cautious
<1>5. CASE ReadMac
  <2>1. \/ ask_at' = "IP_STR" /\ dev' = [dev EXCEPT !.hw_addr = unit]
        \/ ask_at' = "idle" /\ dev' = dev
    BY <1>5, GetsIs DEF ReadMac
  <2>2. whole' = whole
    BY <1>5, GetsIs DEF ReadMac
  <2>3. AddressTypes'
    BY <2>1, <1>1, <1>3 DEF AddressTypes
  <2>4. ReadOwn'
    BY <2>1, <1>1, <1>3 DEF AddressTypes, ReadOwn
  <2> QED BY <1>1, <1>2, <2>2, <2>3, <2>4 DEF AddressInv
<1>6. CASE ReadIp
  <2>1. \/ ask_at' = "GATEWAY_IP_STR"
           /\ dev' = [dev EXCEPT !.address = has[unit].address]
        \/ ask_at' = "idle" /\ dev' = dev
    BY <1>6, GetsIs DEF ReadIp
  <2>2. whole' = whole /\ ask_at = "IP_STR"
    BY <1>6, GetsIs DEF ReadIp
  <2>3. AddressTypes'
    BY <2>1, <1>1, <1>3 DEF AddressTypes
  <2>4. ReadOwn'
    BY <2>1, <2>2, <1>1, <1>3 DEF AddressTypes, ReadOwn
  <2> QED BY <1>1, <1>2, <2>2, <2>3, <2>4 DEF AddressInv
<1>7. CASE ReadGateway
  <2>1. \/ ask_at' = "SUBNET"
           /\ dev' = [dev EXCEPT !.gateway = has[unit].gateway]
        \/ ask_at' = "idle" /\ dev' = dev
    BY <1>7, GetsIs DEF ReadGateway
  <2>2. whole' = whole /\ ask_at = "GATEWAY_IP_STR"
    BY <1>7, GetsIs DEF ReadGateway
  <2>3. AddressTypes'
    BY <2>1, <1>1, <1>3 DEF AddressTypes
  <2>4. unit \in Cautious => OwnGateway(unit, has[unit].gateway)'
    BY <1>1, <1>3, OwnSame DEF OwnAll
  <2>5. ReadOwn'
    BY <2>1, <2>2, <2>4, <1>1, <1>3, <1>4 DEF AddressTypes, ReadOwn
  <2> QED BY <1>1, <1>2, <2>2, <2>3, <2>5 DEF AddressInv
<1>8. CASE ReadSubnet
  <2>1. \/ ask_at' = "HARDWARE_VERSION"
           /\ dev' = [dev EXCEPT !.netmask = ReadMask(has[unit].netmask)]
        \/ ask_at' = "idle" /\ dev' = dev
    BY <1>8, GetsIs DEF ReadSubnet
  <2>2. whole' = whole /\ ask_at = "SUBNET"
    BY <1>8, GetsIs DEF ReadSubnet
  <2>3. AddressTypes'
    BY <2>1, <1>1, <1>3 DEF AddressTypes
  <2>4. unit \in Cautious => OwnMask(unit, ReadMask(has[unit].netmask))'
    BY <1>1, <1>3, OwnSame, MaskStaysOwn DEF OwnAll
  <2>5. unit \in Cautious => OwnGateway(unit, dev.gateway)'
    <3>1. unit \in Cautious => OwnGateway(unit, dev.gateway)
      BY <2>2, <1>3 DEF ReadOwn
    <3>2. dev'.gateway = dev.gateway
      BY <2>1, <1>3 DEF AddressTypes
    <3> QED BY <3>1, <3>2, <1>1, OwnSame
  <2>6. ReadOwn'
    BY <2>1, <2>2, <2>4, <2>5, <1>1, <1>3, <1>4 DEF AddressTypes, ReadOwn
  <2> QED BY <1>1, <1>2, <2>2, <2>3, <2>6 DEF AddressInv
<1>9. CASE ReadVersion
  <2>1. ask_at = "HARDWARE_VERSION" /\ ask_at' = "idle" /\ dev' = dev
    BY <1>9 DEF ReadVersion, Asks, Fail
  <2>2. AddressTypes' /\ ReadOwn'
    BY <2>1, <1>1, <1>3 DEF AddressTypes, ReadOwn
  <2>3. OwnAll(unit, dev)
    BY <2>1, <1>3 DEF OwnAll, ReadOwn
  <2>4. dev.hw_addr = unit
    BY <2>1, <1>3 DEF ReadOwn
  <2>5. OwnAll(dev.hw_addr, dev)'
    BY <2>1, <2>3, <2>4, <1>1, <1>4, OwnSame DEF OwnAll
  <2> QED BY <2>1, <2>2, <2>5, <1>2 DEF AddressInv
<1> QED BY <1>5, <1>6, <1>7, <1>8, <1>9

\* A request that a careful caller broadcasts is of the device's own network.
LEMMA KeepsSet ==
  ASSUME AddressInv, set_device_address
  PROVE  AddressInv'
<1> DEFINE m == [port |-> "ADDRESSCHANGE", body |-> dev']
<1>1. /\ dev' = [dev EXCEPT !.address = "new"]
      /\ ask_at = "idle" /\ ask_at' = "idle" /\ has' = has /\ ever' = ever
      /\ unit' = unit /\ whole' = whole
      /\ on_air' \in {on_air, on_air \union {m}}
      /\ careless' = IF whole THEN careless ELSE careless \union {dev.hw_addr}
  BY DEF set_device_address, broadcast
<1>2. AddressTypes
  BY DEF AddressInv
<1>3. dev'.hw_addr = dev.hw_addr /\ dev'.gateway = dev.gateway
      /\ dev'.netmask = dev.netmask
  BY <1>1, <1>2 DEF AddressTypes
<1>4. AddressTypes'
  BY <1>1, <1>2 DEF AddressTypes
<1>5. Cautious' \subseteq Cautious
  BY <1>1 DEF Cautious
<1>6. OwnAll(dev.hw_addr, dev)'
  <2>1. CASE whole
    <3>1. OwnAll(dev.hw_addr, dev)
      BY <2>1 DEF AddressInv
    <3> QED BY <3>1, <1>1, <1>3, <1>5, OwnSame DEF OwnAll
  <2>2. CASE ~whole
    <3>1. dev'.hw_addr \notin Cautious'
      BY <2>2, <1>1, <1>3 DEF Cautious
    <3> QED BY <3>1 DEF OwnAll
  <2> QED BY <2>1, <2>2
<1>7. Others
  BY DEF AddressInv
<1>8. \A d \in Units : OwnAll(d, has[d])'
  BY <1>1, <1>5, <1>7, OwnSame DEF Others, OwnAll
<1>9. ASSUME NEW w \in on_air', w.port = "ADDRESSCHANGE"
      PROVE  OwnAll(w.body.hw_addr, w.body)'
  <2>1. CASE w \in on_air
    <3>1. OwnAll(w.body.hw_addr, w.body)
      BY <2>1, <1>7, <1>9 DEF Others
    <3> QED BY <3>1, <1>1, <1>5, OwnSame DEF OwnAll
  <2>2. CASE w = m
    <3>1. w.body = dev'
      BY <2>2
    <3> QED BY <3>1, <1>6 DEF OwnAll
  <2> QED BY <2>1, <2>2, <1>1
<1> QED BY <1>1, <1>4, <1>6, <1>8, <1>9 DEF AddressInv, Others, ReadOwn

\* A command for a device carries no address.
LEMMA KeepsCommand ==
  ASSUME AddressInv, broadcast_command
  PROVE  AddressInv'
<1>1. /\ has' = has /\ ever' = ever /\ careless' = careless /\ dev' = dev
      /\ ask_at' = ask_at /\ ask_at = "idle" /\ unit' = unit /\ whole' = whole
      /\ \A m \in on_air' : m \in on_air \/ m.port = "COMMAND"
  BY DEF broadcast_command, broadcast
<1>2. Cautious' = Cautious
  BY <1>1 DEF Cautious
<1>3. Others'
  <2>1. \A d \in Units : OwnAll(d, has[d])'
    BY <1>1, <1>2, OwnSame DEF AddressInv, Others, OwnAll
  <2>2. ASSUME NEW w \in on_air', w.port = "ADDRESSCHANGE"
        PROVE  OwnAll(w.body.hw_addr, w.body)'
    <3>1. w \in on_air
      BY <2>2, <1>1
    <3>2. OwnAll(w.body.hw_addr, w.body)
      BY <3>1, <2>2 DEF AddressInv, Others
    <3> QED BY <3>2, <1>1, <1>2, OwnSame DEF OwnAll
  <2> QED BY <2>1, <2>2 DEF Others
<1>4. AddressTypes' /\ ReadOwn'
  BY <1>1 DEF AddressInv, AddressTypes, ReadOwn
<1>5. whole' => OwnAll(dev.hw_addr, dev)'
  BY <1>1, <1>2, OwnSame DEF AddressInv, OwnAll
<1> QED BY <1>1, <1>3, <1>4, <1>5 DEF AddressInv

\* However late and often a request comes, it is of the device's own network.
LEMMA KeepsHears ==
  ASSUME AddressInv, NEW d \in Units, NEW m \in on_air, Hears(d, m)
  PROVE  AddressInv'
<1>1. /\ m.port = "ADDRESSCHANGE" /\ m.body.hw_addr = d
      /\ has' = [has EXCEPT ![d] = [address |-> m.body.address,
               gateway |-> m.body.gateway, netmask |-> m.body.netmask]]
      /\ on_air' = on_air /\ dev' = dev /\ ask_at' = ask_at /\ unit' = unit
      /\ whole' = whole /\ ever' = ever /\ careless' = careless
  BY DEF Hears, lookupVars
<1>2. AddressTypes /\ Others
  BY DEF AddressInv
<1>3. Cautious' = Cautious
  BY <1>1 DEF Cautious
<1>4. AddressTypes'
  BY <1>1, <1>2 DEF AddressTypes
<1>5. OwnAll(d, m.body)
  BY <1>1, <1>2 DEF Others
<1>6. ASSUME NEW b \in Units PROVE OwnAll(b, has[b])'
  <2>1. CASE b = d
    <3>1. has'[b].gateway = m.body.gateway /\ has'[b].netmask = m.body.netmask
      BY <2>1, <1>1, <1>2 DEF AddressTypes
    <3> QED BY <2>1, <3>1, <1>1, <1>3, <1>5, OwnSame DEF OwnAll
  <2>2. CASE b # d
    <3>1. has'[b] = has[b]
      BY <2>2, <1>1, <1>2 DEF AddressTypes
    <3>2. OwnAll(b, has[b])
      BY <1>2 DEF Others
    <3> QED BY <3>1, <3>2, <1>1, <1>3, OwnSame DEF OwnAll
  <2> QED BY <2>1, <2>2
<1>7. ASSUME NEW w \in on_air, w.port = "ADDRESSCHANGE"
      PROVE  OwnAll(w.body.hw_addr, w.body)'
  <2>1. OwnAll(w.body.hw_addr, w.body)
    BY <1>2, <1>7 DEF Others
  <2> QED BY <2>1, <1>1, <1>3, OwnSame DEF OwnAll
<1>8. ReadOwn' /\ (whole => OwnAll(dev.hw_addr, dev)')
  BY <1>1, <1>3, OwnSame DEF AddressInv, ReadOwn, OwnAll
<1> QED BY <1>1, <1>4, <1>6, <1>7, <1>8 DEF AddressInv, Others

\* A device that is moved keeps the networks it had as its own.
LEMMA KeepsMove ==
  ASSUME AddressInv, NEW d \in Units, OwnerMoves(d)
  PROVE  AddressInv'
<1>1. PICK mask \in NetMasks :
        has' = [has EXCEPT ![d] = Network(d, "there", mask)]
  BY DEF OwnerMoves
<1>2. /\ ever' = [ever EXCEPT ![d] = @ \union
                {[gateway |-> has'[d].gateway, netmask |-> has'[d].netmask]}]
      /\ on_air' = on_air /\ dev' = dev /\ ask_at' = ask_at /\ unit' = unit
      /\ whole' = whole /\ careless' = careless
  BY DEF OwnerMoves, lookupVars
<1>3. AddressTypes /\ Others
  BY DEF AddressInv
<1>4. Cautious' = Cautious
  BY <1>2 DEF Cautious
<1>5. \A b \in Units : ever[b] \subseteq ever'[b]
  BY <1>2, <1>3 DEF AddressTypes
<1>6. AddressTypes'
  BY <1>1, <1>2, <1>3 DEF AddressTypes
<1>7. ASSUME NEW b, NEW r, OwnAll(b, r) PROVE OwnAll(b, r)'
  <2> SUFFICES ASSUME b \in Cautious' PROVE OwnAll(b, r)'
    BY DEF OwnAll
  <2>1. b \in Units /\ OwnGateway(b, r.gateway) /\ OwnMask(b, r.netmask)
    BY <1>4, <1>7 DEF OwnAll, Cautious
  <2> QED BY <2>1, <1>5, OwnGrows DEF OwnAll
<1>8. ASSUME NEW b \in Units PROVE OwnAll(b, has[b])'
  <2>1. CASE b = d
    <3>1. [gateway |-> has'[d].gateway,
            netmask |-> has'[d].netmask] \in ever'[d]
      BY <1>2, <1>3 DEF AddressTypes
    <3> QED BY <2>1, <3>1 DEF OwnAll, OwnGateway, OwnMask
  <2>2. CASE b # d
    <3>1. has'[b] = has[b]
      BY <2>2, <1>1, <1>3 DEF AddressTypes
    <3>2. OwnAll(b, has[b])
      BY <1>3 DEF Others
    <3>3. OwnAll(b, has[b]')
      BY <3>1, <3>2
    <3> QED BY <3>1, <3>2, <1>4, <1>5, OwnGrows DEF OwnAll, Cautious
  <2> QED BY <2>1, <2>2
<1>9. ASSUME NEW w \in on_air, w.port = "ADDRESSCHANGE"
      PROVE  OwnAll(w.body.hw_addr, w.body)'
  BY <1>3, <1>7, <1>9 DEF Others
<1>10. Others'
  BY <1>2, <1>8, <1>9 DEF Others
<1>11. whole => OwnAll(dev.hw_addr, dev)'
  <2>1. whole => OwnAll(dev.hw_addr, dev)
    BY DEF AddressInv
  <2> QED BY <2>1, <1>2, <1>4, <1>5, OwnGrows DEF OwnAll, Cautious
<1>12. ReadOwn'
  <2>1. ReadOwn
    BY DEF AddressInv
  <2>2. ask_at # "idle" => ever[unit] \subseteq ever'[unit]
    BY <1>3, <1>5 DEF AddressTypes
  <2> QED BY <2>1, <2>2, <1>2, <1>4, OwnGrows DEF ReadOwn
<1> QED BY <1>2, <1>6, <1>10, <1>11, <1>12 DEF AddressInv

\* Setting an address leaves a device in a network of its own, for every number
\* of devices and requests, each as late and as often as it likes, unless a
\* caller goes on after a failure (get_device, set_device_address).
THEOREM AddressesStayOwn == AddressSpec => []OwnNetwork
<1>1. AddressInit => AddressInv
  BY AddressInitially
<1>2. AddressInv /\ [AddressNext]_addressVars => AddressInv'
  <2> SUFFICES ASSUME AddressInv, [AddressNext]_addressVars PROVE AddressInv'
    OBVIOUS
  <2>1. CASE UNCHANGED addressVars
    <3>1. /\ has' = has /\ on_air' = on_air /\ ever' = ever /\ dev' = dev
          /\ careless' = careless /\ ask_at' = ask_at /\ unit' = unit
          /\ whole' = whole
      BY <2>1 DEF addressVars, lookupVars
    <3>2. Others'
      BY <3>1, OthersStay DEF AddressInv
    <3>3. AddressTypes'
      BY <3>1 DEF AddressInv, AddressTypes
    <3> QED BY <3>1, <3>2, <3>3, OwnSame
            DEF AddressInv, ReadOwn, OwnAll, Cautious
  <2> QED BY <2>1, KeepsListEntry, KeepsGetDevice, KeepsReads, KeepsSet,
             KeepsCommand, KeepsHears, KeepsMove DEF AddressNext
<1>3. AddressInv => OwnNetwork
  BY DEF AddressInv, Others, OwnAll, OwnGateway, OwnMask, Cautious, OwnNetwork
<1> QED BY <1>1, <1>2, <1>3, PTL DEF AddressSpec
-----------------------------------------------------------------------------
(***************************************************************************)
(* An update of presets gives no setting a value it should not have, for   *)
(* every list of settings, number of presets, failures and changes by      *)
(* others: the inductive invariant also says what the variable on the      *)
(* stack holds, setting by setting, while it is filled and written back.   *)
(* And it undoes no change by another client that came before its read.    *)
(* When nothing fails and nobody interferes, it leaves exactly the presets *)
(* that were wanted.                                                       *)
(***************************************************************************)

\* What the device stores for a setting: an octet has no sign there.
Stored(f, x) == x \in Int /\ (get_param_type(f) = "octet" => x \in 0 .. 255)

Shape ==
  /\ basic \in BOOLEAN /\ id \in Ids /\ step \in Nat \ {0}
  /\ preset \in [Fields -> Int]
  /\ device \in [Ids -> [Fields -> Int]]
  /\ held \in [Ids -> [Fields -> SUBSET Int]]
  /\ \A p \in Ids, f \in Fields : Stored(f, device[p][f])

\* What would be written for f is one of the values of the preset id.
Faithful(f) == EncodeParam(f, preset[f]) \in held[id][f]

ReadSoFar ==
  doing = "get" =>
    \A i \in 1 .. Len(List) :
      i < step /\ <<id, List[i]>> \notin unread => Faithful(List[i])

ToWrite ==
  doing = "set" =>
    \A i \in 1 .. Len(List) :
      <<id, List[i]>> \notin unread \/ List[i] \in Overridden
        => Faithful(List[i])

PresetInv == Shape /\ InventsNothing /\ ReadSoFar /\ ToWrite

-----------------------------------------------------------------------------
\* What is read and written back is what the device had (get_preset_param,
\* set_preset_param).
LEMMA EncodeDecode ==
  ASSUME NEW f, NEW x, Stored(f, x)
  PROVE  /\ EncodeParam(f, DecodeParam(f, x)) = x
         /\ DecodeParam(f, x) \in Int
BY DEF Stored, EncodeParam, DecodeParam

LEMMA EncodeStores ==
  ASSUME NEW f, NEW v \in Int
  PROVE  Stored(f, EncodeParam(f, v))
BY DEF Stored, EncodeParam

\* The values that are wanted fit into what carries them (update_preset).
LEMMA WantedFits ==
  ASSUME NEW f \in Overridden
  PROVE  Wanted[f] \in Int /\ EncodeParam(f, Wanted[f]) = Wanted[f]
BY DEF Overridden, Wanted, EncodeParam, get_param_type, Octets

\* The list is a sequence of settings (get_preset, set_preset).
LEMMA ListOfFields ==
  /\ List \in Seq(Fields)
  /\ Len(List) \in Nat
  /\ \A i \in 1 .. Len(List) : List[i] \in Fields
<1>1. Basic \in Seq(Fields) /\ Extended \in Seq(Fields)
  <2>1. ASSUME NEW s, NEW T, s \in Seq(T) PROVE s \in Seq(Elements(s))
    BY <2>1 DEF Elements
  <2>2. Basic \in Seq(Elements(Basic)) /\ Extended \in Seq(Elements(Extended))
    BY <2>1, PresetAssumption
  <2> QED BY <2>2 DEF Fields
<1>2. List \in Seq(Fields)
  BY <1>1 DEF List
<1> QED BY <1>2

LEMMA Initially == PresetInit => PresetInv
<1> SUFFICES ASSUME PresetInit PROVE PresetInv
  OBVIOUS
<1>1. \A p \in Ids, f \in Fields : Old(p, f) \in Int /\ Stored(f, Old(p, f))
  BY DEF Old, Stored, Ids
<1>2. \A f \in Fields : Junk(f) \in Int
  BY DEF Junk
<1>3. Shape
  BY <1>1, <1>2, PresetAssumption DEF PresetInit, Shape, Ids
<1>4. InventsNothing
  BY DEF PresetInit, InventsNothing
<1>5. ReadSoFar /\ ToWrite
  BY ListOfFields DEF PresetInit, ReadSoFar, ToWrite
<1> QED BY <1>3, <1>4, <1>5 DEF PresetInv

-----------------------------------------------------------------------------
LEMMA GetKeeps == PresetInv /\ get_preset_param => PresetInv'
<1> SUFFICES ASSUME PresetInv, get_preset_param PROVE PresetInv'
  OBVIOUS
<1> USE DEF PresetInv
<1>1. /\ doing = "get" /\ doing' = "get" /\ step' = step + 1
      /\ basic' = basic /\ id' = id /\ step \in 1 .. Len(List)
      /\ preset' = [preset EXCEPT ![Here] = DecodeParam(Here, device[id][Here])]
      /\ device' = device /\ held' = held /\ unread' = unread
  BY ListOfFields DEF get_preset_param, Forward, Within, Shape
<1>2. Here \in Fields /\ Here = List[step] /\ List' = List
  BY <1>1, ListOfFields DEF Here, List
<1>3. Stored(Here, device[id][Here])
  BY <1>2 DEF Shape
<1>4. Shape'
  BY <1>1, <1>2, <1>3, EncodeDecode DEF Shape
<1>5. InventsNothing'
  BY <1>1 DEF InventsNothing
<1>6. ReadSoFar'
  <2> SUFFICES ASSUME NEW i \in 1 .. Len(List), i < step + 1,
                      <<id, List[i]>> \notin unread
               PROVE  EncodeParam(List[i], preset'[List[i]])
                        \in held[id][List[i]]
    BY <1>1, <1>2 DEF ReadSoFar, Faithful
  <2>1. CASE List[i] = Here
    <3>1. preset'[Here] = DecodeParam(Here, device[id][Here])
      BY <1>1, <1>2 DEF Shape
    <3>2. EncodeParam(Here, preset'[Here]) = device[id][Here]
      BY <3>1, <1>3, EncodeDecode
    <3>3. device[id][Here] \in held[id][Here]
      BY <2>1, <1>2 DEF Shape, InventsNothing
    <3> QED BY <2>1, <3>2, <3>3
  <2>2. CASE List[i] # Here
    <3>1. i < step
      BY <2>2, <1>1, <1>2
    <3>2. Faithful(List[i])
      BY <3>1, <1>1 DEF ReadSoFar
    <3>3. preset'[List[i]] = preset[List[i]]
      BY <2>2, <1>1, ListOfFields DEF Shape
    <3> QED BY <3>2, <3>3 DEF Faithful
  <2> QED BY <2>1, <2>2
<1>7. ToWrite'
  BY <1>1 DEF ToWrite
<1> QED BY <1>4, <1>5, <1>6, <1>7

LEMMA GetFailsKeeps == PresetInv /\ GetFails => PresetInv'
<1> SUFFICES ASSUME PresetInv, GetFails PROVE PresetInv'
  OBVIOUS
<1> USE DEF PresetInv
<1>1. /\ doing = "get" /\ doing' = "get" /\ step' = step + 1
      /\ basic' = basic /\ id' = id /\ step \in 1 .. Len(List)
      /\ unread' = unread \union {<<id, List[step]>>}
      /\ preset' = preset /\ device' = device /\ held' = held
  BY ListOfFields DEF GetFails, Forward, Within, Shape, Here
<1>2. List' = List
  BY <1>1 DEF List
<1>3. Shape'
  BY <1>1 DEF Shape
<1>4. InventsNothing'
  BY <1>1 DEF InventsNothing
<1>5. ReadSoFar'
  <2> SUFFICES ASSUME NEW i \in 1 .. Len(List), i < step + 1,
                      <<id, List[i]>> \notin unread \union {<<id, List[step]>>}
               PROVE  Faithful(List[i])
    BY <1>1, <1>2 DEF ReadSoFar, Faithful
  <2>1. i < step
    BY <1>1
  <2> QED BY <2>1, <1>1 DEF ReadSoFar
<1>6. ToWrite'
  BY <1>1 DEF ToWrite
<1> QED BY <1>3, <1>4, <1>5, <1>6

LEMMA EditKeeps == PresetInv /\ Edit => PresetInv'
<1> SUFFICES ASSUME PresetInv, Edit PROVE PresetInv'
  OBVIOUS
<1> USE DEF PresetInv
<1>1. /\ doing = "get" /\ doing' = "set" /\ step' = 1 /\ step > Len(List)
      /\ basic' = basic /\ id' = id /\ device' = device /\ unread' = unread
  BY ListOfFields DEF Edit, Within, Shape
<1>2. preset' = [f \in Fields |-> IF f \in Overridden THEN Wanted[f]
                                  ELSE preset[f]]
  BY DEF Edit
<1>3. held' = [held EXCEPT ![id] =
                 [f \in Fields |-> IF f \in Overridden
                                   THEN @[f] \union {Wanted[f]} ELSE @[f]]]
  BY DEF Edit
<1>4. List' = List
  BY <1>1 DEF List
<1>5. ASSUME NEW f \in Fields
      PROVE  held'[id][f] = IF f \in Overridden
                            THEN held[id][f] \union {Wanted[f]}
                            ELSE held[id][f]
  BY <1>3 DEF Shape
<1>6. ASSUME NEW p \in Ids, p # id
      PROVE  held'[p] = held[p]
  BY <1>3, <1>6 DEF Shape
<1>7. Shape'
  <2>1. preset' \in [Fields -> Int]
    BY <1>2, WantedFits DEF Shape
  <2>2. ASSUME NEW p \in Ids PROVE held'[p] \in [Fields -> SUBSET Int]
    <3>1. CASE p = id
      <4>1. held'[id] = [f \in Fields |-> IF f \in Overridden
                                          THEN held[id][f] \union {Wanted[f]}
                                          ELSE held[id][f]]
        BY <1>3 DEF Shape
      <4>2. \A f \in Overridden : Wanted[f] \in Int
        BY WantedFits
      <4>3. id \in Ids /\ held[id] \in [Fields -> SUBSET Int]
        BY DEF Shape
      <4>4. ASSUME NEW f \in Fields
            PROVE  (IF f \in Overridden THEN held[id][f] \union {Wanted[f]}
                                        ELSE held[id][f]) \in SUBSET Int
        BY <4>2, <4>3
      <4> QED BY <4>1, <4>4, <3>1
    <3>2. CASE p # id
      BY <3>2, <1>6 DEF Shape
    <3> QED BY <3>1, <3>2
  <2>3. held' \in [Ids -> [Fields -> SUBSET Int]]
    BY <2>2, <1>3 DEF Shape
  <2> QED BY <2>1, <2>3, <1>1 DEF Shape
<1>8. InventsNothing'
  BY <1>1, <1>5, <1>6 DEF InventsNothing
<1>9. ToWrite'
  <2> SUFFICES ASSUME NEW i \in 1 .. Len(List),
                      <<id, List[i]>> \notin unread \/ List[i] \in Overridden
               PROVE  EncodeParam(List[i], preset'[List[i]])
                        \in held'[id][List[i]]
    BY <1>1, <1>4 DEF ToWrite, Faithful
  <2>1. List[i] \in Fields
    BY ListOfFields
  <2>2. CASE List[i] \in Overridden
    BY <2>1, <2>2, <1>2, <1>5, WantedFits
  <2>3. CASE List[i] \notin Overridden
    <3>1. Faithful(List[i])
      BY <2>3, <1>1, ListOfFields DEF ReadSoFar, Shape
    <3>2. preset'[List[i]] = preset[List[i]]
      BY <2>1, <2>3, <1>2
    <3> QED BY <2>1, <2>3, <3>1, <3>2, <1>5 DEF Faithful
  <2> QED BY <2>2, <2>3
<1>10. ReadSoFar'
  BY <1>1 DEF ReadSoFar
<1> QED BY <1>7, <1>8, <1>9, <1>10

\* One setting goes to the device, or does not (set_preset_param).
LEMMA WriteKeeps ==
  ASSUME PresetInv, doing = "set", Within, Forward,
         preset' = preset, held' = held, unread' = unread,
         device' \in
           {device,
            [device EXCEPT ![id][Here] = EncodeParam(Here, preset[Here])]}
  PROVE  PresetInv'
<1> USE DEF PresetInv
<1>1. /\ doing' = "set" /\ step' = step + 1 /\ basic' = basic /\ id' = id
      /\ step \in 1 .. Len(List)
  BY ListOfFields DEF Forward, Within, Shape
<1>2. Here \in Fields /\ Here = List[step] /\ List' = List
  BY <1>1, ListOfFields DEF Here, List
<1> DEFINE sent == EncodeParam(Here, preset[Here])
<1>3. Stored(Here, sent) /\ sent \in Int
  BY <1>2, EncodeStores DEF Shape, Stored
<1>4. ASSUME NEW p \in Ids, NEW f \in Fields
      PROVE  \/ device'[p][f] = device[p][f]
             \/ /\ p = id /\ f = Here
                /\ device'[p][f] = sent
  BY DEF Shape
<1>5. Shape'
  <2>1. device' \in [Ids -> [Fields -> Int]]
    BY <1>2, <1>3 DEF Shape
  <2> QED BY <2>1, <1>1, <1>3, <1>4 DEF Shape
<1>6. InventsNothing'
  <2> SUFFICES ASSUME NEW p \in Ids, NEW f \in Fields,
                      <<p, f>> \notin unread \/ f \in Overridden
               PROVE  device'[p][f] \in held[p][f]
    BY <1>1 DEF InventsNothing
  <2>1. CASE device'[p][f] = device[p][f]
    BY <2>1 DEF InventsNothing
  <2>2. CASE p = id /\ f = Here /\ device'[p][f] = sent
    <3>1. Faithful(Here)
      BY <2>2, <1>1, <1>2 DEF ToWrite
    <3> QED BY <3>1, <2>2 DEF Faithful
  <2> QED BY <2>1, <2>2, <1>4
<1>7. ToWrite'
  BY <1>1, <1>2 DEF ToWrite, Faithful
<1>8. ReadSoFar'
  BY <1>1 DEF ReadSoFar
<1> QED BY <1>5, <1>6, <1>7, <1>8

\* What is left of the last preset in the variable binds nobody (update_preset).
LEMMA NextPresetKeeps == PresetInv /\ NextPreset => PresetInv'
<1> SUFFICES ASSUME PresetInv, NextPreset PROVE PresetInv'
  OBVIOUS
<1> USE DEF PresetInv
<1>1. /\ doing' \in {"get", "done"} /\ step' = 1 /\ id' \in Ids
      /\ UNCHANGED <<basic, preset, device, held, unread>>
  BY PresetAssumption DEF NextPreset, Shape, Ids
<1>2. List' = List /\ Len(List) \in Nat
  BY <1>1, ListOfFields DEF List
<1>3. Shape'
  BY <1>1 DEF Shape
<1>4. InventsNothing'
  BY <1>1 DEF InventsNothing
<1>5. ReadSoFar' /\ ToWrite'
  BY <1>1, <1>2 DEF ReadSoFar, ToWrite
<1> QED BY <1>3, <1>4, <1>5

LEMMA OtherClientKeeps ==
  ASSUME PresetInv, NEW p \in Ids, NEW f \in Fields, OtherClient(p, f)
  PROVE  PresetInv'
<1> USE DEF PresetInv
<1>1. /\ UNCHANGED <<basic, id, doing, step, preset, unread>>
      /\ device' = [device EXCEPT ![p][f] = Other(f)]
      /\ held' = [held EXCEPT ![p][f] = @ \union {Other(f)}]
  BY DEF OtherClient
<1>2. Other(f) \in Int /\ Stored(f, Other(f))
  BY DEF Other, Stored
<1>3. ASSUME NEW q \in Ids, NEW g \in Fields
      PROVE  /\ held[q][g] \subseteq held'[q][g]
             /\ \/ device'[q][g] = device[q][g]
                \/ /\ q = p /\ g = f /\ device'[q][g] = Other(f)
                   /\ Other(f) \in held'[q][g]
  BY <1>1 DEF Shape
<1>4. Shape'
  <2>1. device' \in [Ids -> [Fields -> Int]]
    BY <1>1, <1>2 DEF Shape
  <2>2. held' \in [Ids -> [Fields -> SUBSET Int]]
    BY <1>1, <1>2 DEF Shape
  <2> QED BY <2>1, <2>2, <1>1, <1>2, <1>3 DEF Shape
<1>5. InventsNothing'
  BY <1>1, <1>3 DEF InventsNothing
<1>6. List' = List
  BY <1>1 DEF List
<1>7. \A g \in Fields : Faithful(g) => Faithful(g)'
  BY <1>1, <1>3 DEF Faithful, Shape
<1>8. ReadSoFar' /\ ToWrite'
  BY <1>1, <1>6, <1>7, ListOfFields DEF ReadSoFar, ToWrite
<1> QED BY <1>4, <1>5, <1>8

LEMMA StepKeeps == PresetInv /\ [PresetNext]_presetVars => PresetInv'
<1> SUFFICES ASSUME PresetInv, [PresetNext]_presetVars PROVE PresetInv'
  OBVIOUS
<1>1. CASE get_preset_param
  BY <1>1, GetKeeps
<1>2. CASE GetFails
  BY <1>2, GetFailsKeeps
<1>3. CASE Edit
  BY <1>3, EditKeeps
<1>4. CASE set_preset_param
  BY <1>4, WriteKeeps DEF set_preset_param
<1>5. CASE SetFails
  BY <1>5, WriteKeeps DEF SetFails
<1>6. CASE NextPreset
  BY <1>6, NextPresetKeeps
<1>7. ASSUME NEW p \in Ids, NEW f \in Fields, OtherClient(p, f)
      PROVE  PresetInv'
  BY <1>7, OtherClientKeeps
<1>8. CASE UNCHANGED presetVars
  <2>1. List' = List
    BY <1>8 DEF presetVars, List
  <2> QED BY <1>8, <2>1 DEF presetVars, PresetInv, Shape, InventsNothing,
                           ReadSoFar, ToWrite, Faithful
<1> QED BY <1>1, <1>2, <1>3, <1>4, <1>5, <1>6, <1>7, <1>8
        DEF PresetNext, UpdateNext

\* However many commands fail and whatever another client does meanwhile, an
\* update leaves every setting it could read with a value that the setting had
\* or that was wanted for it (update_preset, get_preset, set_preset).
THEOREM UpdateInventsNoValue == PresetSpec => []InventsNothing
<1>1. PresetInv => InventsNothing
  BY DEF PresetInv
<1> QED BY <1>1, Initially, StepKeeps, PTL DEF PresetSpec

-----------------------------------------------------------------------------
\* Another client has changed the setting last, and not between its read and
\* its write.
Changed(p, f) ==
  <<p, f>> \notin late \union unread /\ Other(f) \in held[p][f]

\* Such a change is what the variable on the stack holds for the setting from
\* the read to the write.
Carried ==
  \A f \in Fields \ Overridden :
    InWindow(id, f) /\ Changed(id, f) => EncodeParam(f, preset[f]) = Other(f)

SurvivesInv == OthersSurvive /\ Carried

LEMMA InitSurvives == PresetInit => SurvivesInv
<1> SUFFICES ASSUME PresetInit PROVE SurvivesInv
  OBVIOUS
<1>1. OthersSurvive
  BY DEF PresetInit, OthersSurvive
<1>2. Carried
  BY ListOfFields DEF PresetInit, Carried, InWindow
<1>. QED BY <1>1, <1>2 DEF SurvivesInv

LEMMA ReadSurvives ==
  PresetInv /\ SurvivesInv /\ (get_preset_param \/ GetFails) => SurvivesInv'
<1> SUFFICES ASSUME PresetInv, SurvivesInv, get_preset_param \/ GetFails
             PROVE  SurvivesInv'
  OBVIOUS
<1> USE DEF PresetInv, SurvivesInv
<1>1. /\ doing = "get" /\ doing' = "get" /\ step' = step + 1
      /\ basic' = basic /\ id' = id /\ step \in 1 .. Len(List)
      /\ UNCHANGED <<device, held, late>> /\ unread \subseteq unread'
  BY ListOfFields DEF get_preset_param, GetFails, Forward, Within, Shape
<1>2. Here \in Fields /\ Here = List[step] /\ List' = List
  BY <1>1, ListOfFields DEF Here, List
<1>3. \A p \in Ids, f \in Fields : Changed(p, f)' => Changed(p, f)
  BY <1>1 DEF Changed
<1>4. OthersSurvive'
  BY <1>1, <1>3 DEF OthersSurvive, Changed
<1>5. ASSUME NEW f \in Fields \ Overridden, InWindow(id, f)', Changed(id, f)'
      PROVE  EncodeParam(f, preset'[f]) = Other(f)
  <2>1. Changed(id, f) /\ device[id][f] = Other(f) /\ Stored(f, device[id][f])
    BY <1>1, <1>3, <1>5 DEF Shape, OthersSurvive, Changed
  <2>2. CASE f = Here
    <3>1. get_preset_param
      BY <1>1, <1>5, <2>2 DEF GetFails, Changed
    <3>2. preset'[f] = DecodeParam(f, device[id][f])
      BY <1>2, <2>2, <3>1 DEF get_preset_param, Shape
    <3>. QED BY <2>1, <3>2, EncodeDecode
  <2>3. CASE f # Here
    <3>1. InWindow(id, f)
      BY <1>1, <1>2, <1>5, <2>3 DEF InWindow, Shape
    <3>2. preset'[f] = preset[f]
      BY <1>2, <2>3 DEF get_preset_param, GetFails, Shape
    <3>. QED BY <2>1, <3>1, <3>2 DEF Carried
  <2>. QED BY <2>2, <2>3
<1>6. Carried'
  BY <1>1, <1>5 DEF Carried
<1>. QED BY <1>4, <1>6

LEMMA EditSurvives == PresetInv /\ SurvivesInv /\ Edit => SurvivesInv'
<1> SUFFICES ASSUME PresetInv, SurvivesInv, Edit PROVE SurvivesInv'
  OBVIOUS
<1> USE DEF PresetInv, SurvivesInv
<1>1. /\ doing = "get" /\ doing' = "set" /\ step > Len(List)
      /\ UNCHANGED <<basic, id, device, unread, late>>
  BY ListOfFields DEF Edit, Within, Shape
<1>2. List' = List /\ Len(List) \in Nat
  BY <1>1, ListOfFields DEF List
<1>3. ASSUME NEW p \in Ids, NEW f \in Fields \ Overridden
      PROVE  held'[p][f] = held[p][f] /\ preset'[f] = preset[f]
  BY DEF Edit, Shape
<1>4. OthersSurvive'
  BY <1>1, <1>3 DEF OthersSurvive
<1>5. ASSUME NEW f \in Fields \ Overridden, InWindow(id, f)', Changed(id, f)'
      PROVE  EncodeParam(f, preset'[f]) = Other(f)
  <2>1. InWindow(id, f)
    BY <1>1, <1>2, <1>5 DEF InWindow, Shape
  <2>2. Changed(id, f)
    BY <1>1, <1>3, <1>5 DEF Changed, Shape
  <2>. QED BY <1>3, <2>1, <2>2 DEF Carried, Shape
<1>6. Carried'
  BY <1>1, <1>5 DEF Carried
<1>. QED BY <1>4, <1>6

LEMMA WriteSurvives ==
  ASSUME PresetInv, SurvivesInv, doing = "set", Within, Forward,
         preset' = preset, held' = held, unread' = unread, late' = late,
         device' \in
           {device,
            [device EXCEPT ![id][Here] = EncodeParam(Here, preset[Here])]}
  PROVE  SurvivesInv'
<1> USE DEF PresetInv, SurvivesInv
<1>1. /\ doing' = "set" /\ step' = step + 1 /\ basic' = basic /\ id' = id
      /\ step \in 1 .. Len(List)
  BY ListOfFields DEF Forward, Within, Shape
<1>2. Here \in Fields /\ Here = List[step] /\ List' = List
  BY <1>1, ListOfFields DEF Here, List
<1>3. InWindow(id, Here)
  BY <1>1, <1>2 DEF InWindow
<1>4. ASSUME NEW p \in Ids, NEW f \in Fields
      PROVE  \/ device'[p][f] = device[p][f]
             \/ /\ p = id /\ f = Here
                /\ device'[p][f] = EncodeParam(Here, preset[Here])
  BY DEF Shape
<1>5. OthersSurvive'
  <2> SUFFICES ASSUME NEW p \in Ids, NEW f \in Fields \ Overridden,
                      Changed(p, f)
               PROVE  device'[p][f] = Other(f)
    BY DEF OthersSurvive, Changed
  <2>1. CASE device'[p][f] = device[p][f]
    BY <2>1 DEF OthersSurvive, Changed
  <2>2. CASE /\ p = id /\ f = Here
             /\ device'[p][f] = EncodeParam(Here, preset[Here])
    BY <1>3, <2>2 DEF Carried
  <2>. QED BY <1>4, <2>1, <2>2
<1>6. \A f \in Fields : InWindow(id, f)' => InWindow(id, f)
  BY <1>1, <1>2 DEF InWindow, Shape
<1>7. Carried'
  BY <1>1, <1>6 DEF Carried, Changed
<1>. QED BY <1>5, <1>7

LEMMA OtherClientSurvives ==
  ASSUME PresetInv, SurvivesInv, NEW p \in Ids, NEW f \in Fields,
         OtherClient(p, f)
  PROVE  SurvivesInv'
<1> USE DEF PresetInv, SurvivesInv
<1>1. /\ UNCHANGED <<basic, id, doing, step, preset, unread>>
      /\ device' = [device EXCEPT ![p][f] = Other(f)]
      /\ held' = [held EXCEPT ![p][f] = @ \union {Other(f)}]
      /\ late' = IF InWindow(p, f) THEN late \union {<<p, f>>}
                                   ELSE late \ {<<p, f>>}
  BY DEF OtherClient
<1>2. ASSUME NEW q \in Ids, NEW g \in Fields, q # p \/ g # f
      PROVE  /\ device'[q][g] = device[q][g]
             /\ Changed(q, g)' <=> Changed(q, g)
  <2>1. device'[q][g] = device[q][g] /\ held'[q][g] = held[q][g]
    BY <1>1, <1>2 DEF Shape
  <2>2. <<q, g>> \in late' <=> <<q, g>> \in late
    BY <1>1, <1>2
  <2>. QED BY <1>1, <2>1, <2>2 DEF Changed
<1>3. device'[p][f] = Other(f)
  BY <1>1 DEF Shape
<1>4. OthersSurvive'
  BY <1>2, <1>3 DEF OthersSurvive, Changed
<1>5. \A g \in Fields : InWindow(id, g)' <=> InWindow(id, g)
  <2>1. List' = List
    BY <1>1 DEF List
  <2>. QED BY <1>1, <2>1 DEF InWindow
\* A change in the window does not count.
<1>6. ASSUME NEW g \in Fields \ Overridden, InWindow(id, g), Changed(id, g)'
      PROVE  EncodeParam(g, preset[g]) = Other(g)
  <2>1. id # p \/ g # f
    BY <1>1, <1>6 DEF Changed
  <2>2. PICK q \in Ids : q = id
    BY DEF Shape
  <2>3. Changed(q, g)'
    BY <1>1, <1>6, <2>2 DEF Changed
  <2>4. Changed(q, g)
    BY <1>2, <2>1, <2>2, <2>3
  <2>. QED BY <1>6, <2>2, <2>4 DEF Carried
<1>7. Carried'
  BY <1>1, <1>5, <1>6 DEF Carried
<1>. QED BY <1>4, <1>7

LEMMA StepSurvives ==
  PresetInv /\ SurvivesInv /\ [PresetNext]_presetVars => SurvivesInv'
<1> SUFFICES ASSUME PresetInv, SurvivesInv, [PresetNext]_presetVars
             PROVE  SurvivesInv'
  OBVIOUS
<1>1. CASE get_preset_param \/ GetFails
  BY <1>1, ReadSurvives
<1>2. CASE Edit
  BY <1>2, EditSurvives
<1>3. CASE set_preset_param
  BY <1>3, WriteSurvives DEF set_preset_param
<1>4. CASE SetFails
  BY <1>4, WriteSurvives DEF SetFails
<1>5. CASE NextPreset
  <2>1. /\ doing' \in {"get", "done"} /\ step' = 1
        /\ UNCHANGED <<basic, preset, device, held, unread, late>>
    BY <1>5 DEF NextPreset
  <2>2. List' = List /\ Len(List) \in Nat
    BY <2>1, ListOfFields DEF List
  <2>3. Carried'
    BY <2>1, <2>2 DEF Carried, InWindow
  <2>. QED BY <2>1, <2>3 DEF SurvivesInv, OthersSurvive
<1>6. ASSUME NEW p \in Ids, NEW f \in Fields, OtherClient(p, f)
      PROVE  SurvivesInv'
  BY <1>6, OtherClientSurvives
<1>7. CASE UNCHANGED presetVars
  <2>1. List' = List
    BY <1>7 DEF presetVars, List
  <2> QED BY <1>7, <2>1 DEF presetVars, SurvivesInv, OthersSurvive, Carried,
                           InWindow, Changed
<1>. QED BY <1>1, <1>2, <1>3, <1>4, <1>5, <1>6, <1>7
         DEF PresetNext, UpdateNext

\* Whatever fails and for any lists of settings, a change that another client
\* makes to a setting that is not wanted stays, unless it comes between the read
\* and the write of this very setting (update_preset).
THEOREM ChangesOfOthersSurvive == PresetSpec => []OthersSurvive
<1>1. PresetInit => PresetInv /\ SurvivesInv
  BY Initially, InitSurvives
<1>2. PresetInv /\ SurvivesInv /\ [PresetNext]_presetVars =>
        PresetInv' /\ SurvivesInv'
  BY StepKeeps, StepSurvives
<1>3. SurvivesInv => OthersSurvive
  BY DEF SurvivesInv
<1>. QED BY <1>1, <1>2, <1>3, PTL DEF PresetSpec

-----------------------------------------------------------------------------
\* The setting has been written in this update.
Written(p, f) ==
  \/ p < id \/ doing = "done"
  \/ /\ p = id /\ doing = "set"
     /\ \E i \in 1 .. Len(List) : i < step /\ List[i] = f

Given(f) == f \in Overridden \cap Elements(List)
Target(p, f) == IF Given(f) THEN Wanted[f] ELSE Old(p, f)

\* As long as nothing fails and nobody interferes, the device has what is wanted
\* where the update has come by, and the variable on the stack what goes there.
Undisturbed == failures = 0 /\ others = 0
Exact ==
  /\ \A p \in Ids, f \in Fields :
       device[p][f] = IF Written(p, f) THEN Target(p, f) ELSE Old(p, f)
  /\ doing = "get" =>
       \A i \in 1 .. Len(List) : i < step =>
         preset[List[i]] = DecodeParam(List[i], Old(id, List[i]))
  /\ doing = "set" =>
       \A i \in 1 .. Len(List) :
         EncodeParam(List[i], preset[List[i]]) = Target(id, List[i])

ExactInv ==
  /\ failures \in Nat /\ others \in Nat
  /\ Undisturbed => Exact

\* A preset has its old values until it is written.
LEMMA OldStored ==
  ASSUME NEW p \in Ids, NEW f
  PROVE  Stored(f, Old(p, f))
BY DEF Old, Stored, Ids

\* The list does not change, and a setting of the list is given when wanted.
LEMMA ListStays ==
  ASSUME basic' = basic
  PROVE  /\ List' = List
         /\ \A f : Given(f)' = Given(f)
         /\ \A p, f : Target(p, f)' = Target(p, f)
BY DEF List, Given, Target

LEMMA GivenIs ==
  ASSUME NEW i \in 1 .. Len(List)
  PROVE  Given(List[i]) <=> List[i] \in Overridden
BY DEF Given, Elements

\* At the start nothing is written.
LEMMA InitExact == PresetInit => ExactInv
<1> SUFFICES ASSUME PresetInit PROVE ExactInv
  OBVIOUS
<1>1. \A p \in Ids : \A f : ~Written(p, f)
  BY DEF PresetInit, Written, Ids
<1>2. \A p \in Ids, f \in Fields : device[p][f] = Old(p, f)
  BY DEF PresetInit
<1>3. \A i \in 1 .. Len(List) : ~(i < step)
  BY ListOfFields DEF PresetInit
<1> QED BY <1>1, <1>2, <1>3 DEF PresetInit, ExactInv, Exact

\* A setting that is read is the old one.
LEMMA GetExact ==
  ASSUME PresetInv, ExactInv, get_preset_param
  PROVE  ExactInv'
<1>1. /\ doing = "get" /\ doing' = "get" /\ step' = step + 1
      /\ basic' = basic /\ id' = id /\ step \in 1 .. Len(List)
      /\ preset' = [preset EXCEPT ![Here] = DecodeParam(Here, device[id][Here])]
      /\ device' = device /\ failures' = failures /\ others' = others
  BY ListOfFields
     DEF get_preset_param, Forward, Within, PresetInv, Shape
<1>2. Here \in Fields /\ Here = List[step] /\ List' = List /\ id \in Ids
      /\ preset \in [Fields -> Int]
  BY <1>1, ListOfFields, ListStays DEF Here, PresetInv, Shape
<1> SUFFICES ASSUME Undisturbed PROVE Exact'
  BY <1>1 DEF ExactInv, Undisturbed
<1>3. Exact
  BY DEF ExactInv
<1>4. \A p, f : Written(p, f)' <=> Written(p, f)
  BY <1>1 DEF Written
<1>5. \A p \in Ids, f \in Fields :
        device'[p][f] = IF Written(p, f)' THEN Target(p, f)' ELSE Old(p, f)
  BY <1>1, <1>3, <1>4, ListStays DEF Exact
<1>6. device[id][Here] = Old(id, Here)
  <2>1. ~Written(id, Here)
    BY <1>1, <1>2 DEF Written, Ids
  <2> QED BY <2>1, <1>2, <1>3 DEF Exact
<1>7. ASSUME NEW i \in 1 .. Len(List), i < step + 1
      PROVE  preset'[List[i]] = DecodeParam(List[i], Old(id, List[i]))
  <2>1. List[i] \in Fields
    BY ListOfFields
  <2>2. CASE List[i] = Here
    BY <2>1, <2>2, <1>1, <1>2, <1>6
  <2>3. CASE List[i] # Here
    <3>1. i < step
      BY <2>3, <1>1, <1>2, <1>7
    <3>2. preset'[List[i]] = preset[List[i]]
      BY <2>1, <2>3, <1>1, <1>2
    <3> QED BY <3>1, <3>2, <1>1, <1>3 DEF Exact
  <2> QED BY <2>2, <2>3
<1> QED BY <1>1, <1>2, <1>5, <1>7 DEF Exact

\* The program changes what it wants, and the rest goes back as it was.
LEMMA EditExact ==
  ASSUME PresetInv, ExactInv, Edit
  PROVE  ExactInv'
<1>1. /\ doing = "get" /\ doing' = "set" /\ step' = 1 /\ step > Len(List)
      /\ basic' = basic /\ id' = id /\ device' = device
      /\ failures' = failures /\ others' = others
      /\ preset' = [f \in Fields |-> IF f \in Overridden THEN Wanted[f]
                                      ELSE preset[f]]
  BY ListOfFields DEF Edit, Within, PresetInv, Shape
<1>2. List' = List /\ id \in Ids /\ Len(List) \in Nat /\ step \in Nat
  BY <1>1, ListOfFields, ListStays DEF PresetInv, Shape
<1> SUFFICES ASSUME Undisturbed PROVE Exact'
  BY <1>1 DEF ExactInv, Undisturbed
<1>3. Exact
  BY DEF ExactInv
<1>4. \A p \in Ids, f \in Fields : Written(p, f)' <=> Written(p, f)
  BY <1>1, <1>2 DEF Written
<1>5. \A p \in Ids, f \in Fields :
        device'[p][f] = IF Written(p, f)' THEN Target(p, f)' ELSE Old(p, f)
  BY <1>1, <1>3, <1>4, ListStays DEF Exact
<1>6. ASSUME NEW i \in 1 .. Len(List)
      PROVE  EncodeParam(List[i], preset'[List[i]]) = Target(id, List[i])
  <2>1. List[i] \in Fields
    BY ListOfFields
  <2>2. CASE List[i] \in Overridden
    BY <2>1, <2>2, <1>1, WantedFits, GivenIs DEF Target
  <2>3. CASE List[i] \notin Overridden
    <3>1. preset'[List[i]] = DecodeParam(List[i], Old(id, List[i]))
      BY <2>1, <2>3, <1>1, <1>2, <1>3 DEF Exact
    <3> QED BY <2>3, <3>1, <1>2, OldStored, EncodeDecode, GivenIs DEF Target
  <2> QED BY <2>2, <2>3
<1> QED BY <1>1, <1>2, <1>5, <1>6, ListStays DEF Exact

\* A setting that is written is the one that is wanted.
LEMMA SetExact ==
  ASSUME PresetInv, ExactInv, set_preset_param
  PROVE  ExactInv'
<1>1. /\ doing = "set" /\ doing' = "set" /\ step' = step + 1
      /\ basic' = basic /\ id' = id /\ step \in 1 .. Len(List)
      /\ preset' = preset /\ failures' = failures /\ others' = others
      /\ device' = [device EXCEPT ![id][Here] = EncodeParam(Here, preset[Here])]
  BY ListOfFields
     DEF set_preset_param, Forward, Within, PresetInv, Shape
<1>2. Here \in Fields /\ Here = List[step] /\ List' = List /\ id \in Ids
      /\ Len(List) \in Nat /\ device \in [Ids -> [Fields -> Int]]
  BY <1>1, ListOfFields, ListStays DEF Here, PresetInv, Shape
<1> SUFFICES ASSUME Undisturbed PROVE Exact'
  BY <1>1 DEF ExactInv, Undisturbed
<1>3. Exact
  BY DEF ExactInv
<1>4. ASSUME NEW p \in Ids, NEW f \in Fields, p # id \/ f # Here
      PROVE  device'[p][f] = IF Written(p, f)' THEN Target(p, f)' ELSE Old(p, f)
  <2>1. device'[p][f] = device[p][f]
    BY <1>1, <1>2, <1>4
  <2>2. Written(p, f)' <=> Written(p, f)
    <3>1. \A i \in 1 .. Len(List) : List[i] = f /\ p = id =>
            (i < step + 1 <=> i < step)
      BY <1>1, <1>2, <1>4
    <3> QED BY <3>1, <1>1, <1>2 DEF Written
  <2> QED BY <2>1, <2>2, <1>1, <1>3, ListStays DEF Exact
<1>5. ASSUME NEW p \in Ids, NEW f \in Fields, p = id, f = Here
      PROVE  device'[p][f] = IF Written(p, f)' THEN Target(p, f)' ELSE Old(p, f)
  <2>1. device'[p][f] = Target(p, f)
    BY <1>1, <1>2, <1>3, <1>5 DEF Exact
  <2>2. step \in 1 .. Len(List') /\ step < step' /\ List'[step] = f
    BY <1>1, <1>2, <1>5
  <2>3. Written(p, f)'
    BY <2>2, <1>1, <1>5 DEF Written
  <2> QED BY <2>1, <2>3, <1>1, ListStays
<1>6. \A p \in Ids, f \in Fields :
        device'[p][f] = IF Written(p, f)' THEN Target(p, f)' ELSE Old(p, f)
  BY <1>4, <1>5
<1> QED BY <1>1, <1>2, <1>3, <1>6, ListStays DEF Exact

\* The end of a list: all of the preset is written.
LEMMA NextExact ==
  ASSUME PresetInv, ExactInv, NextPreset
  PROVE  ExactInv'
<1>1. /\ doing = "set" /\ step > Len(List) /\ step' = 1
      /\ doing' = IF id < Presets THEN "get" ELSE "done"
      /\ id' = IF id < Presets THEN id + 1 ELSE id
      /\ basic' = basic /\ preset' = preset /\ device' = device
      /\ failures' = failures /\ others' = others
  BY ListOfFields DEF NextPreset, Within, PresetInv, Shape
<1>2. List' = List /\ id \in Ids /\ Len(List) \in Nat /\ Presets \in Nat
      /\ step \in Nat
  BY <1>1, ListOfFields, ListStays, PresetAssumption DEF PresetInv, Shape
<1> SUFFICES ASSUME Undisturbed PROVE Exact'
  BY <1>1 DEF ExactInv, Undisturbed
<1>3. Exact
  BY DEF ExactInv
<1>4. ASSUME NEW p \in Ids, NEW f \in Fields
      PROVE  device'[p][f] = IF Written(p, f)' THEN Target(p, f)' ELSE Old(p, f)
  <2>1. device'[p][f] = IF Written(p, f) THEN Target(p, f)' ELSE Old(p, f)
    BY <1>1, <1>3, ListStays DEF Exact
  <2>2. CASE p < id
    BY <2>1, <2>2, <1>1, <1>2 DEF Written, Ids
  <2>3. CASE p = id
    <3>1. Written(p, f)'
      BY <2>3, <1>1, <1>2 DEF Written, Ids
    <3>2. Given(f) => Written(p, f)
      BY <2>3, <1>1, <1>2 DEF Given, Elements, Written
    <3>3. Target(p, f)' = Target(p, f)
      BY <1>1, ListStays
    <3> QED BY <2>1, <3>1, <3>2, <3>3 DEF Target
  <2>4. CASE p > id
    <3>1. ~Written(p, f) /\ ~Written(p, f)'
      BY <2>4, <1>1, <1>2 DEF Written, Ids
    <3> QED BY <2>1, <3>1
  <2> QED BY <2>2, <2>3, <2>4, <1>2 DEF Ids
<1>5. \A i \in 1 .. Len(List) : ~(i < step')
  BY <1>1, <1>2
<1>6. doing' # "set"
  BY <1>1
<1> QED BY <1>1, <1>2, <1>4, <1>5, <1>6 DEF Exact

\* What fails or comes from others ends the claim.
LEMMA StepExact ==
  ASSUME PresetInv, ExactInv, [PresetNext]_presetVars
  PROVE  ExactInv'
<1>1. CASE GetFails \/ SetFails
  BY <1>1 DEF GetFails, SetFails, ExactInv, Undisturbed
<1>2. ASSUME NEW p \in Ids, NEW f \in Fields, OtherClient(p, f)
      PROVE  ExactInv'
  <2>1. others' = others + 1
    BY <1>2 DEF OtherClient
  <2>2. failures' = failures \/ failures' \in Nat
    BY <1>2 DEF OtherClient
  <2> QED BY <2>1, <2>2 DEF ExactInv, Undisturbed
<1>3. CASE UNCHANGED presetVars
  <2>1. List' = List
    BY <1>3 DEF presetVars, List
  <2> QED BY <1>3, <2>1
          DEF presetVars, ExactInv, Undisturbed, Exact, Written, Target, Given
<1> QED BY <1>1, <1>2, <1>3, GetExact, EditExact, SetExact, NextExact
        DEF PresetNext, UpdateNext

\* When nothing fails and nobody interferes, an update leaves every preset with
\* what is wanted and all the rest as it was, for any lists of settings and any
\* number of presets (update_preset, get_preset, set_preset).
THEOREM UpdateIsAsWanted == PresetSpec => []AsWanted
<1>1. PresetInit => PresetInv /\ ExactInv
  BY Initially, InitExact
<1>2. PresetInv /\ ExactInv /\ [PresetNext]_presetVars =>
        PresetInv' /\ ExactInv'
  BY StepKeeps, StepExact
<1>3. ExactInv => AsWanted
  BY DEF ExactInv, Undisturbed, Exact, Written, Target, Given, AsWanted
<1> QED BY <1>1, <1>2, <1>3, PTL DEF PresetSpec
=============================================================================
