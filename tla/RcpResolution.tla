---------------------------- MODULE RcpResolution ----------------------------
(***************************************************************************)
(* get_resolution of utils.c: the size of the pictures of a stream, put    *)
(* together from up to six settings that are read one after another.  It   *)
(* returns 0 whatever becomes of the commands, and leaves the size of its  *)
(* caller as it is when it finds none.                                     *)
(***************************************************************************)
EXTENDS Integers, Sequences

CONSTANTS Resolutions,   \* the preset resolutions to look at
          Modes,         \* the operation modes to look at
          Frequencies    \* the frequencies to look at

PresetSizes ==
  [p720 |-> <<1280, 720>>, VGA |-> <<640, 480>>, QVGA |-> <<320, 240>>,
   WD144 |-> <<256, 144>>, WD288 |-> <<512, 288>>, WD432 |-> <<768, 432>>]
NtscSizes ==
  [CIF4 |-> <<704, 480>>, CIF2 |-> <<704, 240>>, CIF |-> <<352, 240>>,
   QCIF |-> <<176, 120>>]
PalSizes ==
  [CIF4 |-> <<704, 576>>, CIF2 |-> <<704, 288>>, CIF |-> <<352, 288>>,
   QCIF |-> <<176, 144>>]

NoSize == <<>>

\* Two resolutions of a preset, D1_12 and D1_23, have no size in the code.
get_resolution_from_preset(r, format) ==
  CASE r \in DOMAIN PresetSizes -> PresetSizes[r]
    [] r \in DOMAIN NtscSizes   -> IF format = "NTSC" THEN NtscSizes[r]
                                   ELSE PalSizes[r]
    [] OTHER                    -> NoSize

\* Most operation modes name their size, and the table of the code repeats it
\* (a few rows stand for all of them); the SD modes leave it to the preset.
ModeSizes ==
  [MP_HD_720p |-> <<1280, 720>>, MP_FIXED_1080P |-> <<1920, 1080>>,
   MP_HD_2592x1944 |-> <<2592, 1944>>, MP_HD_3840x2160 |-> <<3840, 2160>>]

get_resolution_from_h264_operation_mode(m) ==
  IF m \in DOMAIN ModeSizes THEN ModeSizes[m] ELSE NoSize

StandardOf(f) ==
  CASE f \in {30000, 60000} -> "NTSC" [] f \in {25000, 50000} -> "PAL"
    [] OTHER -> "NONE"

-----------------------------------------------------------------------------
VARIABLES pc,          \* the command that is next
          stream,      \* the parameter
          camera,      \* the settings of the device
          known,       \* the local variables
          missed,      \* history: the commands that have failed
          size         \* what the caller has got

resolutionVars == <<pc, stream, camera, known, missed, size>>

Streams   == 1 .. 2
PresetIds == 1 .. 2

Cameras ==
  [current : PresetIds,            \* of the coder that the stream stands for
   coding : {"H263", "H264"},      \* of the coder with the stream's number
   resolution : [PresetIds -> Resolutions],
   frequency : Frequencies,
   format : {"NTSC", "PAL"},
   base : [Streams -> Modes]]

\* The resolution in the preset on the stack is not set at first: it may be any
\* number, also that of a resolution.
Start(r) ==
  [current |-> -1, coding |-> "none", resolution |-> r,
   format |-> "NONE", base |-> [s \in Streams |-> "none"]]

ResolutionInit ==
  /\ pc = "start" /\ stream = 1
  /\ camera = <<>>
  /\ known = <<>> /\ missed = {} /\ size = NoSize

Begin ==
  /\ pc = "start" /\ pc' = "current"
  /\ stream' \in Streams /\ camera' \in Cameras
  /\ \E r \in Resolutions : known' = Start(r)
  /\ UNCHANGED <<missed, size>>

\* The command named c gives the local variable v the value x, or fails.
Read(c, next, v, x) ==
  /\ pc = c /\ pc' = next
  /\ \/ known' = [known EXCEPT ![v] = x] /\ UNCHANGED missed
     \/ missed' = missed \union {c} /\ UNCHANGED known
  /\ UNCHANGED <<stream, camera, size>>

get_coder_preset ==
  Read("current", "coding", "current", camera.current)

get_coder_video_operation_mode ==
  Read("coding", "resolution", "coding", camera.coding)

\* get_preset, of which the resolution is used.  Preset -1 does not exist.
get_preset ==
  /\ pc = "resolution"
  /\ IF known.current \in PresetIds
     THEN Read("resolution", "frequency", "resolution",
               camera.resolution[known.current])
     ELSE /\ pc' = "frequency"
          /\ missed' = missed \union {"resolution"}
          /\ UNCHANGED <<stream, camera, known, size>>

get_video_input_frequency ==
  Read("frequency", "format", "format", StandardOf(camera.frequency))

\* The format is asked for only when the frequency does not tell it.
get_video_input_format ==
  /\ pc = "format"
  /\ IF known.format = "NONE"
     THEN Read("format", "base", "format", camera.format)
     ELSE pc' = "base" /\ UNCHANGED <<stream, camera, known, missed, size>>

\* The operation mode of the encoder is asked for when the coder is an H.264
\* coder.
get_h264_encoder_video_operation_mode ==
  /\ pc = "base"
  /\ IF known.coding = "H264"
     THEN Read("base", "choose", "base", camera.base)
     ELSE pc' = "choose" /\ UNCHANGED <<stream, camera, known, missed, size>>

\* Mutant: the array of modes is indexed from one.
OwnSizeOfNext == get_resolution_from_h264_operation_mode(known.base[2])

OwnSize == get_resolution_from_h264_operation_mode(known.base[stream])

Choose ==
  /\ pc = "choose" /\ pc' = "done"
  /\ size' = IF OwnSize # NoSize THEN OwnSize
             ELSE get_resolution_from_preset(known.resolution, known.format)
  /\ UNCHANGED <<stream, camera, known, missed>>

ResolutionNext ==
  \/ Begin \/ get_coder_preset \/ get_coder_video_operation_mode
  \/ get_preset \/ get_video_input_frequency \/ get_video_input_format
  \/ get_h264_encoder_video_operation_mode \/ Choose

ResolutionSpec == ResolutionInit /\ [][ResolutionNext]_resolutionVars

-----------------------------------------------------------------------------
\* The encoder of the stream has a size of its own.
HasOwnSize ==
  camera.coding = "H264" /\ camera.base[stream] \in DOMAIN ModeSizes

Standard ==
  IF StandardOf(camera.frequency) # "NONE" THEN StandardOf(camera.frequency)
  ELSE camera.format

\* The commands that the size rests on: an encoder with a size of its own needs
\* neither the preset nor the standard.
Needed ==
  IF HasOwnSize THEN {"coding", "base"}
  ELSE {"current", "resolution", "frequency", "format"}

\* The size is that of the encoder of this stream or, when the encoder has none,
\* that of the preset its coder uses, in the standard of this camera; a failure
\* of any other command does not reach the caller, although what it would have
\* read stays as it was on the stack (get_resolution).
SizeOfStream ==
  pc = "done" /\ missed \cap Needed = {} =>
    size = IF HasOwnSize THEN ModeSizes[camera.base[stream]]
           ELSE get_resolution_from_preset(
                  camera.resolution[camera.current], Standard)
=============================================================================
