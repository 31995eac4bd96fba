----------------------------- MODULE RcpReplies -----------------------------
(***************************************************************************)
(* Answers with a structure: the list of capabilities (caps.c) and the     *)
(* tables of coders, operation modes and profiles (coder.c, preset.c).     *)
(*                                                                         *)
(* An answer is a sequence of words, each of which tells where it belongs, *)
(* so that one which is read in the wrong place shows.  A reader that goes *)
(* on behind the end of the answer finds what an earlier answer has left   *)
(* in the slot.                                                            *)
(***************************************************************************)
EXTENDS Integers, Sequences, SequencesExt

CONSTANTS SectionCounts,   \* how many elements a section may have
          MaxSections,     \* bound: sections of a device
          Rows,            \* how many coders or tuples of modes there may be
          Leftovers        \* what may be in the slot behind an answer

ASSUME RepliesAssumption ==
  /\ SectionCounts \subseteq Nat /\ Rows \subseteq Nat
  /\ MaxSections \in Nat /\ Leftovers \subseteq Nat

-----------------------------------------------------------------------------
\* CAP_SECTION_TYPE_VIDEO, _AUDIO, _SERIAL, _IO and _CAMDATA are 1 .. 5; how
\* many fields an element has after its own type.
Widths == <<4, 2, 1, 1, 1>>
Known == 1 .. 5
\* Mutant: the field of the last type is not read.
FieldCountShort(type) == IF type \in Known \ {5} THEN Widths[type] ELSE 0
\* Nothing is read for a type that the code does not know.
FieldCount(type) == IF type \in Known THEN Widths[type] ELSE 0
\* A new type of a later device; its elements have a field.
NewType == 6
FieldsOf(type) == IF type = NewType THEN 1 ELSE Widths[type]

\* The element j of the section i: its type and its fields.
Element(i, j, type) == [f \in 1 .. FieldsOf(type) + 1 |-> 1000*i + 100*j + f]
Section(i, type, n) ==
  [type |-> type, elements |-> [j \in 1 .. n |-> Element(i, j, type)]]

\* The size of a section is in octets.
SectionWords(s) ==
  <<s.type, 6 + 2 * Len(s.elements) * (FieldsOf(s.type) + 1),
    Len(s.elements)>> \o FlattenSeq(s.elements)

VARIABLES question,   \* "none", or what has been asked for
          offer,      \* what the device has
          words,      \* its answer
          behind,     \* what is behind the answer
          at_word,    \* the reader's place in it
          to_come,    \* sections still to be read
          result      \* what the caller gets

repliesVars == <<question, offer, words, behind, at_word, to_come, result>>

RepliesInit ==
  /\ question = "none" /\ offer = <<>> /\ words = <<>> /\ behind = 0
  /\ at_word = 1 /\ to_come = 0 /\ result = <<>>

\* Reserved, version, number of sections.
AskCapabilities ==
  /\ question = "none" /\ question' = "capabilities"
  /\ behind' \in Leftovers
  /\ \E m \in 1 .. MaxSections :
     \E types \in [1 .. m -> Known \union {NewType}],
        counts \in [1 .. m -> SectionCounts] :
       /\ offer' = [i \in 1 .. m |-> Section(i, types[i], counts[i])]
       /\ words' = <<0, 1, m>> \o FlattenSeq([i \in 1 .. m |->
                                                SectionWords(offer'[i])])
       /\ to_come' = m
  /\ at_word' = 4 /\ UNCHANGED result

WordAt(p) == IF p <= Len(words) THEN words[p] ELSE behind
Next_words(p, n) == [k \in 1 .. n |-> WordAt(p + k - 1)]

\* One turn of the loop over the sections; section_size is not used.
ReadSection ==
  /\ question = "capabilities" /\ to_come > 0 /\ to_come' = to_come - 1
  /\ LET type  == WordAt(at_word)
         n     == WordAt(at_word + 2)
         width == FieldCount(type) + 1
     IN  /\ result' = Append(result,
              [type |-> type,
               elements |-> [j \in 1 .. n |->
                 Next_words(at_word + 3 + (j - 1) * width, width)]])
         /\ at_word' = at_word + 3 + n * width
  /\ UNCHANGED <<question, offer, words, behind>>

-----------------------------------------------------------------------------
\* Tables: row i of the device.
Row(i, width) == [k \in 1 .. width |-> 100 * i + k]
Table(n, width) == [i \in 1 .. n |-> Row(i, width)]
Ask(what, n, width, head) ==
  /\ question = "none" /\ question' = what
  /\ offer' = Table(n, width)
  /\ words' = head \o FlattenSeq(offer')
  /\ behind' \in Leftovers
  /\ UNCHANGED <<at_word, to_come, result>>

\* CODER_SIZE_IN_PAYLOAD, of which number, caps, current_cap, param_caps and
\* current_param are used.
CoderWords == 8
AskCoders(n) == Ask("coders", n, CoderWords, <<>>)
get_coder_list ==
  /\ question = "coders" /\ question' = "done"
  /\ result' = [i \in 1 .. Len(words) \div CoderWords |->
                  Next_words((i - 1) * CoderWords + 1, 5)]
  /\ UNCHANGED <<offer, words, behind, at_word, to_come>>

\* The number of streams, then tuples with a mode for each of them.
AskModes(n, streams) == Ask("modes", n, streams, <<streams>>)
get_supported_video_operation_modes ==
  /\ question = "modes" /\ question' = "done"
  /\ LET streams == WordAt(1)
         tuples  == (Len(words) - 1) \div streams
     IN  result' = [i \in 1 .. tuples |->
                      Next_words((i - 1) * streams + 2, streams)]
  /\ UNCHANGED <<offer, words, behind, at_word, to_come>>

\* The profiles of the streams of a line; one function counts the streams from
\* one, the other from nought.
AskProfiles(n) == Ask("profiles", n, 1, <<>>)
get_current_stream_profile(stream) == WordAt(stream)
get_stream_profile(stream_number)  == WordAt(stream_number + 1)
ReadProfiles ==
  /\ question = "profiles" /\ question' = "done"
  /\ \/ result' = [s \in 1 .. Len(words) |-> <<get_current_stream_profile(s)>>]
     \/ result' = [s \in 1 .. Len(words) |-> <<get_stream_profile(s - 1)>>]
  /\ UNCHANGED <<offer, words, behind, at_word, to_come>>

RepliesNext ==
  \/ AskCapabilities \/ ReadSection
  \/ \E n \in Rows :
       \/ AskCoders(n) \/ AskProfiles(n)
       \/ \E streams \in {1, 2} : AskModes(n, streams)
  \/ get_coder_list \/ get_supported_video_operation_modes \/ ReadProfiles

-----------------------------------------------------------------------------
SectionsAsSent ==
  \A i \in 1 .. Len(result) :
    (\A k \in 1 .. i - 1 : offer[k].type \in Known) =>
      /\ result[i].type = offer[i].type
      /\ Len(result[i].elements) = Len(offer[i].elements)
      /\ offer[i].type \in Known => result[i].elements = offer[i].elements

RowsAsSent ==
  /\ Len(result) = Len(offer)
  /\ \A i \in 1 .. Len(offer) :
       result[i] = SubSeq(offer[i], 1, Len(result[i]))

\* Whatever an earlier answer has left behind the end of this one: the sections
\* of the capabilities are read element by element as they were sent, up to the
\* first of a type that the code does not know, of which the type and the number
\* of elements are right (section_size is not used, so what comes after it is
\* not to be relied on); and a table has as many rows as the device has sent, in
\* each of them the numbers of that row (get_capability_list, get_coder_list,
\* get_supported_video_operation_modes, get_current_stream_profile).
AnswersAsSent ==
  /\ question = "capabilities" => SectionsAsSent
  /\ question = "done" => RowsAsSent
=============================================================================
