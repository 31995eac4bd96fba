----------------------------- MODULE RcpSettings -----------------------------
(***************************************************************************)
(* The functions that read or write one setting of the device with one     *)
(* command each (coder.c, audio.c, alarm.c, the end of rcpcommand.c).      *)
(*                                                                         *)
(* They differ in a few things only, which the catalogue below lists: the  *)
(* setting, the numeric descriptor, whether the request asks to READ or to *)
(* WRITE, the width of what it carries and what is made of the answer.     *)
(* Settings are independent of each other, so a behaviour is about one of  *)
(* them, with two users: the program and another client of the device.     *)
(***************************************************************************)
EXTENDS Integers, FiniteSets

CONSTANTS Lines,      \* the lines (or coders) that callers name
          Values,     \* the values that callers write
          MaxCalls    \* bound: the calls of one behaviour

ASSUME SettingsAssumption ==
  /\ Lines \subseteq Nat /\ Values \subseteq Int /\ MaxCalls \in Nat

-----------------------------------------------------------------------------
\* What a function sends: "none", an "octet" or a "dword".  What it makes of
\* the payload of the answer: the first octet, a char ("octet"); the double
\* word ("dword"); ntohl of the first octet ("first"); nothing ("ok"); or it
\* compares it with the value that it has sent ("same").
Get(name, conf, as) ==
  [name |-> name, conf |-> conf, mode |-> "READ", sends |-> "none", as |-> as]
Set(name, conf, mode, sends, as) ==
  [name |-> name, conf |-> conf, mode |-> mode, sends |-> sends, as |-> as]

AudioState ==
  { Get("get_audio_stat", "AUDIO_ON_OFF", "octet"),
    Set("set_audio_stat", "AUDIO_ON_OFF", "WRITE", "octet", "ok") }

AudioInput ==
  { Get("get_audio_input_level", "AUDIO_INPUT_LEVEL", "first"),
    Set("set_audio_input_level", "AUDIO_INPUT_LEVEL", "WRITE", "dword",
        "first"),
    Get("get_audio_input", "AUDIO_INPUT", "first"),
    Set("set_audio_input", "AUDIO_INPUT", "WRITE", "dword", "first"),
    Get("get_max_audio_input_level", "AUDIO_INPUT_MAX", "first") }

\* Two of the functions that set something send a request to READ.
MicAndPeek ==
  { Get("get_mic_level", "AUDIO_MIC_LEVEL", "first"),
    Set("set_mic_level", "AUDIO_MIC_LEVEL", "READ", "dword", "first"),
    Get("get_max_mic_level", "AUDIO_MIC_MAX", "first"),
    Get("get_audio_options", "AUDIO_OPTIONS", "first"),
    Get("get_audio_input_peek", "AUDIO_INPUT_PEEK", "first"),
    Set("set_audio_input_peek", "AUDIO_INPUT_PEEK", "READ", "dword",
        "first") }

VideoAnalysis ==
  { Get("get_viproc_id", "VIPROC_ID", "dword"),
    Get("get_vca_status", "ENABLE_VCA", "octet"),
    Set("set_vca_status", "ENABLE_VCA", "WRITE", "octet", "ok"),
    Get("get_viproc_mode", "VIPROC_MODE", "octet"),
    Set("set_viproc_mode", "VIPROC_MODE", "WRITE", "octet", "ok"),
    Get("get_viproc_alarm_mask", "VIPROC_ALARM_MASK", "dword"),
    Set("set_viproc_alarm_mask", "VIPROC_ALARM_MASK", "WRITE", "dword",
        "ok") }

\* The preset of a coder is written with a request to READ.  The two modes of
\* the H.264 encoder go over together and stand for one value.
Coder ==
  { Get("get_coder_preset", "MPEG4_CURRENT_PARAMS", "dword"),
    Set("set_coder_preset", "MPEG4_CURRENT_PARAMS", "READ", "dword", "ok"),
    Get("get_coder_video_operation_mode", "CODER_VIDEO_OPERATION_MODE",
        "dword"),
    Set("set_coder_video_operation_mode", "CODER_VIDEO_OPERATION_MODE",
        "WRITE", "dword", "same"),
    Get("get_h264_encoder_video_operation_mode",
        "VIDEO_H264_ENC_BASE_OPERATION_MODE", "dword"),
    Set("set_h264_encoder_video_operation_mode",
        "VIDEO_H264_ENC_BASE_OPERATION_MODE", "WRITE", "dword", "ok") }

Video ==
  { Get("get_video_input_format", "VIDEO_INPUT_FORMAT", "dword"),
    Get("get_video_input_format_ex", "VIDEO_INPUT_FORMAT_EX", "octet"),
    Get("get_video_output_format", "VIDEO_OUT_STANDARD", "octet"),
    Set("set_video_output_format", "VIDEO_OUT_STANDARD", "WRITE", "octet",
        "ok"),
    Get("get_video_input_frequency", "VIN_BASE_FRAMERATE", "dword") }

Functions ==
  AudioState \union AudioInput \union MicAndPeek \union VideoAnalysis
    \union Coder \union Video

Confs == {f.conf : f \in Functions}
Width(conf) == IF \E f \in Functions : f.conf = conf /\ f.as = "octet"
               THEN "octet" ELSE "dword"

\* The numeric descriptor: get_coder_preset asks for the coder after the one
\* it is given; the audio is switched on and off for the whole device, which
\* has one H.264 encoder.
Descriptor(f, line) ==
  CASE f.name = "get_coder_preset" -> line + 1
    [] f.conf \in {"AUDIO_ON_OFF", "VIDEO_H264_ENC_BASE_OPERATION_MODE"} -> 0
    [] OTHER                       -> line

DeviceDescriptors == {Descriptor(f, l) : f \in Functions, l \in Lines}

-----------------------------------------------------------------------------
\* What is on the wire: an octet is a number from 0 to 255; a double word is
\* an int, which htonl and ntohl give back.
Encode(sends, v) == IF sends = "octet" THEN v % 256 ELSE v

\* A payload is an array of char, which has a sign.
Char(x) == IF x > 127 THEN x - 256 ELSE x

\* ntohl(*payload): the highest octet of the double word, a char, becomes an
\* int and its octets are turned round.
FirstOctet(x) ==
  LET c == x \div 16777216
  IN IF c >= 0 THEN c * 16777216 ELSE c * 16777216 + 16777215

\* Mutant: the sign is not looked at.
DecodeUnsigned(as, x) == IF as = "dword" THEN x % 65536 ELSE x

Decode(as, x) ==
  CASE as = "octet" -> Char(x)
    [] as = "first" -> FirstOctet(x)
    [] as = "dword" -> x

Failed == -1

\* What the function returns, or stores for its caller, when the answer is x.
Result(f, v, x) ==
  CASE f.as = "ok"   -> 0
    [] f.as = "same" -> (IF x = v THEN v ELSE Failed)
    [] OTHER         -> Decode(f.as, x)

-----------------------------------------------------------------------------
VARIABLES conf,      \* the setting this behaviour is about
          setting,   \* what the device has for each descriptor
          last,      \* the last call and what came of it
          relied,    \* what the caller may rely on: <<value>> or <<>>, by line
          calls      \* how many calls there have been

settingVars == <<conf, setting, last, relied, calls>>

Nothing == <<>>
Unknown == [l \in Lines |-> Nothing]
NoCall == [name |-> "none", line |-> 0, value |-> 0, got |-> FALSE]

SettingsInit ==
  /\ conf \in Confs
  /\ setting = [d \in DeviceDescriptors |-> 0]
  /\ last = NoCall
  /\ relied = Unknown
  /\ calls = 0

Inputs(f) ==
  CASE f.sends = "none"  -> {0}
    [] f.sends = "octet" -> Values \cap 0 .. 127
    [] f.sends = "dword" -> Values

\* What the device may keep of a request: a request to READ changes nothing,
\* and the device may prefer another value to the one it is sent.
Adjusted == 1
Kept(f, d, v) ==
  IF f.mode = "READ" THEN {setting[d]} ELSE {Encode(f.sends, v), Adjusted}

Setter(f) == f.sends # "none"

\* The command is answered.  The caller relies on a value that it has set if
\* the function has reported success, and the device took the value or the
\* function has looked.
Answered(f, l, v) ==
  LET d == Descriptor(f, l) IN
  \E x \in Kept(f, d, v) :
    LET r == Result(f, v, x) IN
    /\ setting' = [setting EXCEPT ![d] = x]
    /\ last' = [name |-> f.name, line |-> l, value |-> r, got |-> ~Setter(f)]
    /\ relied' =
         IF ~Setter(f) THEN relied
         ELSE [k \in Lines |->
                 IF Descriptor(f, k) # d THEN relied[k]
                 ELSE IF r # Failed /\ (f.as = "same" \/ x = Encode(f.sends, v))
                 THEN <<v>> ELSE Nothing]

\* rcp_command returns NULL: the request was not sent, was refused, or was
\* obeyed and the answer came too late.
NotAnswered(f, l, v) ==
  LET d == Descriptor(f, l) IN
  /\ \E x \in Kept(f, d, v) \union {setting[d]} :
       setting' = [setting EXCEPT ![d] = x]
  /\ last' = [name |-> f.name, line |-> l, value |-> Failed, got |-> FALSE]
  /\ relied' = IF Setter(f)
               THEN [k \in Lines |-> IF Descriptor(f, k) = d THEN Nothing
                                     ELSE relied[k]]
               ELSE relied

Call(f, l) ==
  /\ f.conf = conf
  /\ calls < MaxCalls /\ calls' = calls + 1
  /\ \E v \in Inputs(f) : Answered(f, l, v) \/ NotAnswered(f, l, v)
  /\ UNCHANGED conf

\* Another client of the device writes the setting.
OtherWrites(d) ==
  /\ calls < MaxCalls /\ calls' = calls + 1
  /\ \E v \in Values :
       setting' = [setting EXCEPT ![d] = Encode(Width(conf), v)]
  /\ relied' = Unknown
  /\ UNCHANGED <<conf, last>>

SettingsNext ==
  \/ \E f \in Functions, l \in Lines : Call(f, l)
  \/ \E d \in DeviceDescriptors : OtherWrites(d)

SettingsSpec == SettingsInit /\ [][SettingsNext]_settingVars

-----------------------------------------------------------------------------
\* The settings whose functions write what they read and read what they write.
\* The others are read by their highest octet only (the audio levels) or are
\* never written (the microphone, the peek level, the preset of a coder).
Sound == {"AUDIO_ON_OFF", "ENABLE_VCA", "VIPROC_MODE", "VIPROC_ALARM_MASK",
          "CODER_VIDEO_OPERATION_MODE", "VIDEO_OUT_STANDARD",
          "VIDEO_H264_ENC_BASE_OPERATION_MODE"}

\* What a caller has set, and nobody else has changed since, is what it reads
\* back, whatever it has set for other lines in between and whichever of its
\* commands have failed (the pairs of functions of coder.c, audio.c, alarm.c).
ReadBack ==
  conf \in Sound /\ last.got /\ relied[last.line] # Nothing =>
    <<last.value>> = relied[last.line]
=============================================================================
