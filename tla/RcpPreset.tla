------------------------------ MODULE RcpPreset ------------------------------
(***************************************************************************)
(* The presets of an encoder: some twenty settings under one number.       *)
(* get_preset and set_preset take one command for each of them and return  *)
(* 0 whatever becomes of it.  update_preset of bulk_config.c reads a       *)
(* preset into a variable on its stack, changes what it wants and writes   *)
(* everything back, for one preset after another; test_coder.c does the    *)
(* same with the basic settings alone.                                     *)
(*                                                                         *)
(* A command may fail, and another client of the device may change the     *)
(* presets meanwhile.                                                      *)
(***************************************************************************)
EXTENDS Integers, Sequences, FiniteSets

CONSTANTS Basic, Extended,   \* the settings, in the order of the code
          Presets,           \* presets 1 .. Presets are updated
          MaxFailures,       \* bound: commands that fail
          MaxOthers          \* bound: changes by another client

-----------------------------------------------------------------------------
\* The settings of get_preset and set_preset, and their types.
BasicParams ==
  <<"NAME", "BANDWIDTH", "BANDWIDTH_SOFT_LIMIT", "BANDWIDTH_HARD_LIMIT",
    "FRAME_SKIP_RATIO", "INTRA_FRAME_DISTANCE", "VIDEO_QUALITY",
    "RESOLUTION", "FIELD_MODE">>

ExtendedParams ==
  <<"I_FRAME_QUANT", "P_FRAME_QUANT", "AVC_I_FRAME_QUANT",
    "AVC_P_FRAME_QUANT", "AVC_P_FRAME_QUANT_MIN", "AVC_DELTA_IPQUANT",
    "AVC_DEBLOCKING_ENABLE", "AVC_DEBLOCKING_ALPHA", "AVC_DEBLOCKING_BETA",
    "AVC_CHROMA_QUANT_OFF", "AVC_CODING_MODE", "AVC_GOP_STRUCTURE",
    "AVC_CABAC", "AVERAGING_PERIOD", "AVC_QUANT_ADJ_BACKGROUND",
    "AVC_QUANT_ADJ_OBJECTS">>

Elements(s) == {s[i] : i \in 1 .. Len(s)}

ASSUME PresetAssumption ==
  /\ Basic \in Seq(Elements(BasicParams))
  /\ Extended \in Seq(Elements(ExtendedParams))
  /\ Presets \in Nat \ {0} /\ MaxFailures \in Nat /\ MaxOthers \in Nat

Octets == {"FIELD_MODE", "AVC_CODING_MODE", "AVC_GOP_STRUCTURE", "AVC_CABAC",
           "AVC_DEBLOCKING_ENABLE"}
get_param_type(f) ==
  IF f = "NAME" THEN "string" ELSE IF f \in Octets THEN "octet" ELSE "int"

\* Mutant: a negative number is sent in one octet and read without its sign.
EncodeParamShort(f, v) == v % 256

\* An int goes over as it is, a flag or an octet loses what does not fit.
EncodeParam(f, v) == IF get_param_type(f) = "octet" THEN v % 256 ELSE v
DecodeParam(f, x) ==
  IF get_param_type(f) = "octet" /\ x > 127 THEN x - 256 ELSE x

\* What update_preset wants; it leaves the other settings alone.
Wanted ==
  [BANDWIDTH |-> 800, BANDWIDTH_SOFT_LIMIT |-> 1200,
   BANDWIDTH_HARD_LIMIT |-> 0, FRAME_SKIP_RATIO |-> 2, RESOLUTION |-> 10,
   AVERAGING_PERIOD |-> 0, AVC_GOP_STRUCTURE |-> 0,
   INTRA_FRAME_DISTANCE |-> 0, AVC_P_FRAME_QUANT_MIN |-> 0,
   AVC_DELTA_IPQUANT |-> 5, AVC_QUANT_ADJ_BACKGROUND |-> 13,
   AVC_QUANT_ADJ_OBJECTS |-> -12]

Fields == Elements(Basic) \union Elements(Extended)
Overridden == Fields \cap DOMAIN Wanted
Ids == 1 .. Presets

-----------------------------------------------------------------------------
VARIABLES basic,    \* the third parameter of get_preset and set_preset
          id,       \* the preset that is being updated
          doing,    \* "get", "set", "done"
          step,     \* the next setting to get or to set
          preset,   \* the variable on the stack
          device,   \* the presets of the device
          held,     \* history: the values each setting had by right
          unread,   \* history: the settings whose read has failed
          failures, others,   \* counters
          late      \* history: changes of another client which may be undone

presetVars == <<basic, id, doing, step, preset, device, held, unread, failures,
                others, late>>

\* Values that differ from each other and from those that are wanted.
Old(p, f) == IF get_param_type(f) = "octet" THEN p % 2 ELSE p - 40
Other(f)  == IF get_param_type(f) = "octet" THEN 3 ELSE -20
Junk(f)   == IF get_param_type(f) = "octet" THEN 77 ELSE -77

List == IF basic THEN Basic ELSE Basic \o Extended

PresetInit ==
  /\ basic \in BOOLEAN
  /\ id = 1 /\ doing = "get" /\ step = 1
  /\ preset = [f \in Fields |-> Junk(f)]
  /\ device = [p \in Ids |-> [f \in Fields |-> Old(p, f)]]
  /\ held = [p \in Ids |-> [f \in Fields |-> {Old(p, f)}]]
  /\ unread = {} /\ late = {}
  /\ failures = 0 /\ others = 0

Here == List[step]
\* Mutant: the last setting is left out.
WithinShort == step < Len(List)
Within == step <= Len(List)
Forward == step' = step + 1 /\ UNCHANGED <<basic, id, doing>>

get_preset_param ==
  /\ doing = "get" /\ Within
  /\ preset' = [preset EXCEPT ![Here] = DecodeParam(Here, device[id][Here])]
  /\ Forward
  /\ UNCHANGED <<device, held, unread, failures, others, late>>

\* The variable keeps what it has: the preset before this one, or what was on
\* the stack.
GetFails ==
  /\ doing = "get" /\ Within
  /\ failures < MaxFailures /\ failures' = failures + 1
  /\ unread' = unread \union {<<id, Here>>}
  /\ Forward
  /\ UNCHANGED <<preset, device, held, others, late>>

\* get_preset is over, the program changes its variable and calls set_preset.
Edit ==
  /\ doing = "get" /\ ~Within
  /\ doing' = "set" /\ step' = 1
  /\ preset' = [f \in Fields |-> IF f \in Overridden THEN Wanted[f]
                                 ELSE preset[f]]
  /\ held' = [held EXCEPT ![id] =
                [f \in Fields |-> IF f \in Overridden
                                  THEN @[f] \union {Wanted[f]} ELSE @[f]]]
  /\ UNCHANGED <<basic, id, device, unread, failures, others, late>>

set_preset_param ==
  /\ doing = "set" /\ Within
  /\ device' = [device EXCEPT ![id][Here] = EncodeParam(Here, preset[Here])]
  /\ Forward
  /\ UNCHANGED <<preset, held, unread, failures, others, late>>

\* The command is not obeyed, or it is obeyed and the answer is late.
SetFails ==
  /\ doing = "set" /\ Within
  /\ failures < MaxFailures /\ failures' = failures + 1
  /\ device' \in {device,
                  [device EXCEPT ![id][Here] = EncodeParam(Here, preset[Here])]}
  /\ Forward
  /\ UNCHANGED <<preset, held, unread, others, late>>

\* Mutant: the preset is read once, before the loop.
NextPresetUnread ==
  /\ doing = "set" /\ ~Within
  /\ doing' = IF id < Presets THEN "set" ELSE "done"
  /\ id' = IF id < Presets THEN id + 1 ELSE id
  /\ step' = 1
  /\ UNCHANGED <<basic, preset, device, held, unread, failures, others, late>>

\* The loop of update_preset: the variable is declared in it and not set.
NextPreset ==
  /\ doing = "set" /\ ~Within
  /\ doing' = IF id < Presets THEN "get" ELSE "done"
  /\ id' = IF id < Presets THEN id + 1 ELSE id
  /\ step' = 1
  /\ UNCHANGED <<basic, preset, device, held, unread, failures, others, late>>

\* The setting has been read and not yet been written back.
InWindow(p, f) ==
  /\ p = id
  /\ \E i \in 1 .. Len(List) :
       /\ List[i] = f
       /\ \/ doing = "get" /\ i < step
          \/ doing = "set" /\ i >= step

OtherClient(p, f) ==
  /\ others < MaxOthers /\ others' = others + 1
  /\ device' = [device EXCEPT ![p][f] = Other(f)]
  /\ held' = [held EXCEPT ![p][f] = @ \union {Other(f)}]
  /\ late' = IF InWindow(p, f) THEN late \union {<<p, f>>}
                               ELSE late \ {<<p, f>>}
  /\ UNCHANGED <<basic, id, doing, step, preset, unread, failures>>

UpdateNext == get_preset_param \/ GetFails \/ Edit \/ set_preset_param
                \/ SetFails \/ NextPreset
PresetNext == UpdateNext \/ \E p \in Ids, f \in Fields : OtherClient(p, f)

PresetSpec == PresetInit /\ [][PresetNext]_presetVars

-----------------------------------------------------------------------------
\* However commands fail, the update gives a setting no value but one that it
\* had or that it was meant to have, unless the setting could not be read: then
\* the value of the preset before this one, or whatever was on the stack, goes
\* to the device (get_preset and set_preset ignore failures).
InventsNothing ==
  \A p \in Ids, f \in Fields :
    <<p, f>> \notin unread \/ f \in Overridden => device[p][f] \in held[p][f]

\* A change by another client is only undone when it comes between the read and
\* the write of the same setting: a whole preset is not written back because
\* one setting of it was wanted (update_preset reads each preset just before).
OthersSurvive ==
  \A p \in Ids, f \in Fields \ Overridden :
    /\ <<p, f>> \notin late \union unread
    /\ Other(f) \in held[p][f]
    => device[p][f] = Other(f)

\* When nothing fails and nobody interferes, every preset has what is wanted,
\* and all the rest as it was, the extended settings too when only the basic
\* ones are asked for (get_preset, set_preset).
AsWanted ==
  doing = "done" /\ failures = 0 /\ others = 0 =>
    \A p \in Ids, f \in Fields :
      device[p][f] = IF f \in Overridden \cap Elements(List)
                     THEN Wanted[f] ELSE Old(p, f)
=============================================================================
