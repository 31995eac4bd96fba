---------------------------- MODULE MCRcpMessages ----------------------------
(***************************************************************************)
(* The modules about what messages carry, for TLC: a behaviour is one of a *)
(* packet on the wire (RcpWire), of single calls (RcpSettings), of an      *)
(* update of presets (RcpPreset), of get_resolution (RcpResolution), of a  *)
(* camera that is moved (RcpPtz), of searches for devices (RcpDetect) and  *)
(* their addresses (RcpAddress), of answers with a structure (RcpReplies)  *)
(* or of a picture (RcpSnapshot).                                          *)
(***************************************************************************)
EXTENDS RcpWire, RcpSettings, RcpPreset, RcpResolution, RcpPtz, RcpDetect,
        RcpAddress, RcpReplies, RcpSnapshot

\* Settings of each type, some that are wanted and some that are left alone.
SomeBasic    == <<"NAME", "BANDWIDTH", "FIELD_MODE">>
SomeExtended == <<"AVC_CABAC", "AVC_DEBLOCKING_ALPHA", "AVC_QUANT_ADJ_OBJECTS">>

\* Each direction, lens and kind of command, numbers of one octet and of two.
SomeMoves ==
  [opcode : {5}, what : {move_stop} \union Diagonals(5, 11) \union Zooms(7)
                          \union Lens]
    \union [opcode : {7}, what : [function_code : {4, 5}, number : {3, 1000}]]

\* Netmasks with a first octet that get_device gets right and wrong.
SomeNetMasks == {<<255, 255, 255, 0>>, <<240, 0, 0, 0>>}

VARIABLE part
vars == <<part, wireVars, settingVars, presetVars, resolutionVars, ptzVars,
          detectVars, addressVars, repliesVars, snapshotVars>>

\* The parts that do not run stay in one of their initial states.
Init ==
  /\ part \in {"wire", "settings", "preset", "resolution", "ptz", "detect",
              "address", "replies", "snapshot"}
  /\ WireInit /\ SettingsInit /\ PresetInit /\ ResolutionInit
  /\ PtzInit /\ DetectInit /\ AddressInit /\ RepliesInit /\ SnapshotInit
  /\ part # "settings" => conf = "AUDIO_ON_OFF"
  /\ part # "preset" => basic
  /\ part # "address" => \A d \in Units : has[d].netmask[1] = 255

Wire ==
  /\ part = "wire" /\ WireNext
  /\ UNCHANGED <<part, settingVars, presetVars, resolutionVars, ptzVars,
                 detectVars, addressVars, repliesVars, snapshotVars>>
Settings ==
  /\ part = "settings" /\ SettingsNext
  /\ UNCHANGED <<part, wireVars, presetVars, resolutionVars, ptzVars,
                 detectVars, addressVars, repliesVars, snapshotVars>>
Preset ==
  /\ part = "preset" /\ PresetNext
  /\ UNCHANGED <<part, wireVars, settingVars, resolutionVars, ptzVars,
                 detectVars, addressVars, repliesVars, snapshotVars>>
Resolution ==
  /\ part = "resolution" /\ ResolutionNext
  /\ UNCHANGED <<part, wireVars, settingVars, presetVars, ptzVars,
                 detectVars, addressVars, repliesVars, snapshotVars>>
Ptz ==
  /\ part = "ptz" /\ PtzNext
  /\ UNCHANGED <<part, wireVars, settingVars, presetVars, resolutionVars,
                 detectVars, addressVars, repliesVars, snapshotVars>>
Detect ==
  /\ part = "detect" /\ DetectNext
  /\ UNCHANGED <<part, wireVars, settingVars, presetVars, resolutionVars,
                 ptzVars, addressVars, repliesVars, snapshotVars>>
UnitAddress ==
  /\ part = "address" /\ AddressNext
  /\ UNCHANGED <<part, wireVars, settingVars, presetVars, resolutionVars,
                 ptzVars, detectVars, repliesVars, snapshotVars>>
Replies ==
  /\ part = "replies" /\ RepliesNext
  /\ UNCHANGED <<part, wireVars, settingVars, presetVars, resolutionVars,
                 ptzVars, detectVars, addressVars, snapshotVars>>
Snapshot ==
  /\ part = "snapshot" /\ SnapshotNext
  /\ UNCHANGED <<part, wireVars, settingVars, presetVars, resolutionVars,
                 ptzVars, detectVars, addressVars, repliesVars>>

Next ==
  \/ Wire \/ Settings \/ Preset \/ Resolution \/ Ptz \/ Detect \/ UnitAddress
  \/ Replies \/ Snapshot

Spec == Init /\ [][Next]_vars
=============================================================================
