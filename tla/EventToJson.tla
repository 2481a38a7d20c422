----------------------------- MODULE EventToJson -----------------------------
(***************************************************************************)
(* event_to_json of src/util.cpp.  The tags and the attributes are first   *)
(* concatenated into two stack buffers of buff_size bytes with strncat,    *)
(* then snprintf renders the JSON into a buffer of json_buff_size bytes,   *)
(* and "" is returned when it did not fit.                                 *)
(*                                                                         *)
(* Only lengths decide what happens to the buffers, so every string is     *)
(* its length: a tag, an attribute key and value, and the rendered host,   *)
(* service, description, state, metric and time together (FieldsLen).     *)
(* A buffer is its strlen and whether a strncat wrote a byte past its end. *)
(***************************************************************************)
EXTENDS Naturals, Sequences, SequencesExt

CONSTANTS
  BuffSize,      \* buff_size
  JsonBuffSize,  \* json_buff_size
  FormatLen,     \* characters of json_base other than its conversions
  TagLens,       \* lengths a tag may have
  AttrLens,      \* lengths an attribute key or value may have
  FieldLens,     \* lengths the six other rendered fields may add up to
  MaxTags,       \* bound: tags on the event
  MaxAttrs       \* bound: attributes on the event

ASSUME /\ {BuffSize, JsonBuffSize, FormatLen} \subseteq Nat \ {0}
       /\ TagLens \cup AttrLens \cup FieldLens \subseteq Nat

VARIABLES
  tags,       \* e.tags(), as lengths
  attrs,      \* e.attributes(), as <<key length, value length>>
  fields,     \* length of the other rendered fields
  i,          \* the loop counter
  phase,      \* "tags", "attrs", then "done"
  tagsBuf,    \* tags[buff_size]: [len |-> strlen, past |-> written past the end]
  attrsBuf,   \* attrs[buff_size], likewise
  result      \* the returned string's length; 0 for ""

vars == <<tags, attrs, fields, i, phase, tagsBuf, attrsBuf, result>>

Buffers == [len : 0 .. BuffSize, past : BOOLEAN]

TypeOK ==
  /\ tags \in BoundedSeq(TagLens, MaxTags)
  /\ attrs \in BoundedSeq(AttrLens \X AttrLens, MaxAttrs)
  /\ fields \in FieldLens
  /\ i \in 1 .. MaxTags + MaxAttrs + 1
  /\ phase \in {"tags", "attrs", "done"}
  /\ tagsBuf \in Buffers /\ attrsBuf \in Buffers
  /\ result \in Nat

Init ==
  /\ tags \in BoundedSeq(TagLens, MaxTags)
  /\ attrs \in BoundedSeq(AttrLens \X AttrLens, MaxAttrs)
  /\ fields \in FieldLens
  /\ i = 1
  /\ phase = "tags"
  /\ tagsBuf = [len |-> 0, past |-> FALSE]
  /\ attrsBuf = [len |-> 0, past |-> FALSE]
  /\ result = 0

-----------------------------------------------------------------------------
(* strncat(dst, src, buff_size - strlen(dst)) with strlen(src) = k: it     *)
(* copies at most n = buff_size - strlen(dst) bytes and then writes a NUL  *)
(* after them, at index strlen(dst) + copied, which is past the end when   *)
(* all n were copied.  The strlen of a buffer whose NUL landed past its    *)
(* end is taken as buff_size (the stray NUL is the next byte); the NUL     *)
(* itself is already the fault.                                            *)
strncat(buf, k) ==
  LET n    == BuffSize - buf.len
      copy == IF k < n THEN k ELSE n
  IN [len |-> buf.len + copy, past |-> buf.past \/ buf.len + copy >= BuffSize]

(* The strncat calls of one iteration, as the lengths of their sources.   *)
TagPieces(j)  == (IF j = 1 THEN <<>> ELSE <<2>>) \o <<1, tags[j], 1>>
AttrPieces(j) == <<2, 1, attrs[j][1], 3, 1, attrs[j][2], 1>>

(* One iteration of the loop over e.tags(): ", " unless first, the quote, *)
(* the tag, the quote.                                                     *)
tags_loop ==
  /\ phase = "tags" /\ i <= Len(tags)
  /\ tagsBuf' = FoldLeft(strncat, tagsBuf, TagPieces(i))
  /\ i' = i + 1
  /\ UNCHANGED <<tags, attrs, fields, phase, attrsBuf, result>>

tags_end ==
  /\ phase = "tags" /\ i > Len(tags)
  /\ phase' = "attrs" /\ i' = 1
  /\ UNCHANGED <<tags, attrs, fields, tagsBuf, attrsBuf, result>>

(* One iteration of the loop over e.attributes(): , "key": "value"        *)
attrs_loop ==
  /\ phase = "attrs" /\ i <= Len(attrs)
  /\ attrsBuf' = FoldLeft(strncat, attrsBuf, AttrPieces(i))
  /\ i' = i + 1
  /\ UNCHANGED <<tags, attrs, fields, phase, tagsBuf, result>>

(* snprintf returns the length the whole JSON would have; r >=           *)
(* json_buff_size returns "", else the buffer.                            *)
render ==
  LET r == FormatLen + fields + tagsBuf.len + attrsBuf.len
  IN /\ phase = "attrs" /\ i > Len(attrs)
     /\ result' = IF r >= JsonBuffSize THEN 0 ELSE r
     /\ phase' = "done"
     /\ UNCHANGED <<tags, attrs, fields, i, tagsBuf, attrsBuf>>

Next == tags_loop \/ tags_end \/ attrs_loop \/ render

Spec == Init /\ [][Next]_vars

-----------------------------------------------------------------------------
(* No strncat of event_to_json writes its terminating NUL past the end of  *)
(* the tags or attrs stack buffer, whatever the tags and attributes.  The  *)
(* bound buff_size - strlen(dst) leaves no room for the NUL, so this is    *)
(* also the case where a tag or attribute is silently cut short.          *)
NoOverflow == ~tagsBuf.past /\ ~attrsBuf.past
=============================================================================
