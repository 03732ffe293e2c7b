----------------------------- MODULE ValueCodec -----------------------------
(***************************************************************************)
(* Values on their way into the runtime and out of it:                     *)
(* internal/protocol/value.go, and what the Dart SDK makes of a value that *)
(* it received (cel_value.dart) and sends (wire/encoder.dart).             *)
(*                                                                         *)
(* A value is a tree of kinds: the parts of a list are its items, those of *)
(* a map are given by its keys, which are scalars; a scalar has the text   *)
(* that encodeValue writes it as.  JSON is a tree of objects, arrays and   *)
(* leaves; a leaf is a scalar whose kind is null, bool or string, or a     *)
(* number, which is "integer" or "fraction" by the way it is spelt.        *)
(* "malformed" is whatever decodeJSON refuses for its syntax, a repeated   *)
(* key included.  maxCollectionItems is left out.                          *)
(***************************************************************************)
EXTENDS Trees

CONSTANTS
  MaxValueDepth,   \* Limits.MaxValueDepth, for variables
  MaxEncodeDepth,  \* maxValueDepth of value.go, for results
  MaxSdkDepth,     \* _maxValueDepth of encoder.dart
  Reading,         \* for each kind with a textual form: the texts it is parsed from,
                   \* and the text that encodeValue writes for each
  SdkText          \* for each of these kinds: the texts that CelValue.fromJson parses,
                   \* and the text that the CelValue's toJson writes for each

\* The kinds that are written as they are, and the name under which values
\* without a kind in the protocol go here.
OtherKinds == {"null", "bool", "string", "list", "map"}
Unnamed == "a kind without a name"

\* Every profile has room in the SDK for the variables it admits, the JSON
\* decoder reads whatever is within the limits of value.go, and both sides keep
\* integers, the keys of maps among them.  Nothing is assumed of other kinds: a
\* DateTime holds no nanoseconds, and a timestamp may be written in a year that
\* the runtime does not parse.
ASSUME CodecAssumption ==
  /\ {MaxValueDepth, MaxEncodeDepth, MaxSdkDepth} \subseteq Nat
  /\ MaxValueDepth <= MaxSdkDepth /\ MaxValueDepth <= MaxNesting
  /\ MaxEncodeDepth <= MaxNesting
  /\ {"int", "uint", "double"} \subseteq DOMAIN Reading
  /\ DOMAIN Reading \cap (OtherKinds \cup {Unnamed, "refused", "integer", "fraction"}) = {}
  /\ \A kind \in {"int", "uint"} : \A text \in Range(Reading[kind]) :
       /\ text \in DOMAIN Reading[kind] /\ Reading[kind][text] = text
       /\ text \in DOMAIN SdkText[kind] /\ SdkText[kind][text] = text

OK(r) == [ok |-> TRUE, body |-> r]
Fail(code) == [ok |-> FALSE, body |-> code]

Value(k, x) == [kind |-> k, text |-> x, parts |-> <<>>]
ListValue(s) == [kind |-> "list", text |-> "", parts |-> s]
MapValue(f) == [kind |-> "map", text |-> "", parts |-> f]
Null == Value("null", "")
KeyKinds == {"bool", "int", "uint", "string"}

\* A decoder or encoder returned an error.
Refused == Value("refused", "")

Object(f) == [json |-> "object", has |-> Null, parts |-> f]
Array(s) == [json |-> "array", has |-> Null, parts |-> s]
Leaf(v) == [json |-> "leaf", has |-> v, parts |-> <<>>]
Text(x) == Leaf(Value("string", x))
True == Leaf(Value("bool", "true"))
Malformed == [json |-> "malformed", has |-> Null, parts |-> <<>>]
Marker == "$cel_bridge"

WellFormed(j) == \A c \in Nodes(j) : c.json # "malformed"

(***************************************************************************)
(* In.  The decoders of collections are given what their parts decode to:  *)
(* decoded is a function on the JSON below them.                           *)
(***************************************************************************)
\* A tagged scalar of which only the text is kept: the mutant of DecodeScalar.
DecodeScalarAsText(kind, raw) == IF kind = "null" THEN Null ELSE raw.has

DecodeScalar(kind, raw) ==
  LET parses == raw.json = "leaf" /\ raw.has.kind = "string" /\ raw.has.text \in DOMAIN Reading[kind]
  IN CASE kind = "null" -> Null
       [] kind \in {"bool", "string"} ->
            IF raw.json = "leaf" /\ raw.has.kind = kind THEN raw.has ELSE Refused
       [] OTHER -> IF parses THEN Value(kind, Reading[kind][raw.has.text]) ELSE Refused

\* An integer is an int when it fits and a uint when only that fits.
DecodeLeaf(v) ==
  LET kinds == IF v.kind = "fraction" THEN {"double"} ELSE {"int", "uint"}
      fits == {kind \in kinds : v.text \in DOMAIN Reading[kind]}
      kind == IF "int" \in fits THEN "int" ELSE CHOOSE k \in fits : TRUE
  IN IF v.kind \notin {"integer", "fraction"} THEN v
     ELSE IF fits = {} THEN Refused
     ELSE Value(kind, Reading[kind][v.text])

DecodeItems(s, decoded) ==
  LET items == [i \in DOMAIN s |-> decoded[s[i]]]
  IN IF Refused \in Range(items) THEN Refused ELSE ListValue(items)

\* Of entries whose keys and values decode to these.
DecodeEntries(keys, values) ==
  LET at(k) == CHOOSE i \in DOMAIN keys : keys[i] = k
  IN IF \/ Refused \in Range(values)
        \/ \E k \in Range(keys) : k.kind \notin KeyKinds
        \/ ~IsInjective(keys)
     THEN Refused
     ELSE MapValue([k \in Range(keys) |-> values[at(k)]])

Has(f, name, json) == name \in DOMAIN f /\ f[name].json = json

IsEntry(e) == e.json = "object" /\ {"key", "value"} \subseteq DOMAIN e.parts

DecodeTagged(f, decoded) ==
  LET kind == f["kind"].has.text
      entries == f["entries"].parts
      those(part) == [i \in DOMAIN entries |-> decoded[entries[i].parts[part]]]
      raw == IF "value" \in DOMAIN f THEN f["value"] ELSE Leaf(Null)
  IN IF f[Marker] # True \/ ~Has(f, "kind", "leaf") \/ f["kind"].has.kind # "string" THEN Refused
     ELSE IF kind = "list" THEN
       IF Has(f, "items", "array") THEN DecodeItems(f["items"].parts, decoded) ELSE Refused
     ELSE IF kind = "map" THEN
       IF Has(f, "entries", "array") /\ \A e \in Range(entries) : IsEntry(e)
       THEN DecodeEntries(those("key"), those("value")) ELSE Refused
     ELSE IF kind \in DOMAIN Reading \cup {"null", "bool", "string"} THEN DecodeScalar(kind, raw)
     ELSE Refused

\* An object is a map with string keys.
DecodeObject(f, decoded) ==
  IF \E n \in DOMAIN f : decoded[f[n]] = Refused THEN Refused
  ELSE MapValue([k \in {Value("string", n) : n \in DOMAIN f} |-> decoded[f[k.text]]])

\* The depth check of decodeInput is not here: every level it counts is one
\* that decodeJSON has counted before.
DecodeInput(j) ==
  LET decoded[c \in Nodes(j)] ==
        CASE c.json = "leaf" -> DecodeLeaf(c.has)
          [] c.json = "array" -> DecodeItems(c.parts, decoded)
          [] c.json = "object" /\ Marker \in DOMAIN c.parts -> DecodeTagged(c.parts, decoded)
          [] OTHER -> DecodeObject(c.parts, decoded)
  IN decoded[j]

\* A request's variables as a function from names.  The type assertion at the
\* end panics when the object as a whole is a tagged value.
DecodeVariables(j) ==
  IF Deeper(j, MaxValueDepth) \/ ~WellFormed(j) \/ j.json # "object" \/ DecodeInput(j) = Refused
  THEN Fail("invalid_request")
  ELSE IF Marker \in DOMAIN j.parts THEN Fail("internal_error")
  ELSE OK([n \in DOMAIN j.parts |-> DecodeInput(j.parts[n])])

(***************************************************************************)
(* Out: encodeValue, and what the SDK sends when given a result back.      *)
(***************************************************************************)
EncodableKinds == DOMAIN Reading \cup OtherKinds

EncodeValue(v) ==
  IF v.kind \notin EncodableKinds \/ Deeper(v, MaxEncodeDepth) THEN Refused ELSE v

\* CelValue.fromJson parses every text in the value: it throws otherwise.
Receivable(v) == \A c \in Nodes(v) : c.kind \in DOMAIN Reading => c.text \in DOMAIN SdkText[c.kind]

\* Whatever its kind, a CelValue goes out tagged.
Tagged(f) == Object([n \in DOMAIN f \cup {Marker} |-> IF n = Marker THEN True ELSE f[n]])

SentText(v) == IF v.kind = "string" THEN v.text ELSE SdkText[v.kind][v.text]

TagScalar(v) ==
  CASE v.kind = "null" -> Tagged([kind |-> Text("null")])
    [] v.kind = "bool" -> Tagged([kind |-> Text("bool"), value |-> Leaf(v)])
    [] OTHER -> Tagged([kind |-> Text(v.kind), value |-> Text(SentText(v))])

Tag(v) ==
  LET tag[c \in Nodes(v)] ==
        LET keys == SetToSeq(DOMAIN c.parts)
            entry(k) == Object([key |-> TagScalar(k), value |-> tag[c.parts[k]]])
        IN CASE c.kind = "list" ->
                  Tagged([kind |-> Text("list"), items |-> Array([i \in DOMAIN c.parts |-> tag[c.parts[i]]])])
             [] c.kind = "map" ->
                  Tagged([kind |-> Text("map"), entries |-> Array([i \in DOMAIN keys |-> entry(keys[i])])])
             [] OTHER -> TagScalar(c)
  IN tag[v]
=============================================================================
