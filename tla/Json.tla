-------------------------------- MODULE Json --------------------------------
(***************************************************************************)
(* ProtobufIO: a message written as JSON and read back, and JSON of        *)
(* another origin read.  A message gives each field the sequence of its    *)
(* values, of one at most unless it is repeated; a value is a number, a    *)
(* text, or a message of a type that has none.  The protobuf and rapidjson *)
(* libraries are external.                                                 *)
(***************************************************************************)
EXTENDS Uri

CONSTANTS Max32, Max64, \* the largest int32 and int64
          Nested,       \* the fields of the message type of MESSAGE fields
          Instances,    \* message types, and messages of each
          Documents     \* JSON of another origin, by some name of theirs

VARIABLES
    schema,     \* the fields of the message type: [name, label, type]
    message,    \* the message written
    jpc,        \* start, json, parsed
    root,       \* the document: a JSON value, or malformed
    own,        \* it was written by SerializeToJson, its strings intact
    outcome,    \* what ParseFromJson does: true, false, assert, throw
    got         \* the message it filled

jsonVars == <<schema, message, jpc, root, own, outcome, got>>

Unsigned == {"UINT32", "UINT64"}
Wide == {"INT64", "UINT64"}
Integral == {"INT32", "UINT32"} \cup Wide
Largest(type) == IF type \in Wide THEN Max64 ELSE Max32
NumbersOf(type) ==
    IF type \in Unsigned THEN 0 .. 2 * Largest(type) + 1 ELSE -Largest(type) - 1 .. Largest(type)
EnumNames == <<"one", "two">>

\* The values of a type; numbers stand for those of floating point.
Scalars(type) ==
    CASE type \in Integral -> NumbersOf(type)
      [] type = "ENUM" -> DOMAIN EnumNames
      [] type = "DOUBLE" -> Int
      [] type = "BOOL" -> BOOLEAN
      [] type \in {"STRING", "BYTES"} -> Seq(STRING)

\* The fields of a message type, of which neither names nor places repeat.
Types == Integral \cup {"ENUM", "DOUBLE", "BOOL", "STRING", "BYTES"}
Field(types) == [no : Nat, name : STRING, label : {"optional", "required", "repeated"}, type : types]
IsType(fields, types) ==
    /\ fields \subseteq Field(types)
    /\ \A f, g \in fields : f.name = g.name \/ f.no = g.no => f = g

\* A message that is nested, and one that is not; a field has one value at most
\* unless it is repeated.
IsSeq(s) == Len(s) \in Nat /\ s = [i \in 1 .. Len(s) |-> s[i]]
SetsFields(fields, m) ==
    /\ m = [n \in {f.name : f \in fields} |-> m[n]]
    /\ \A f \in fields : IsSeq(m[f.name]) /\ (f.label # "repeated" => Len(m[f.name]) <= 1)
IsNested(m) ==
    /\ SetsFields(Nested, m)
    /\ \A f \in Nested : \A i \in DOMAIN m[f.name] : m[f.name][i] \in Scalars(f.type)
IsMessage(fields, m) ==
    /\ SetsFields(fields, m)
    /\ \A f \in fields : \A i \in DOMAIN m[f.name] :
          IF f.type = "MESSAGE" THEN IsNested(m[f.name][i]) ELSE m[f.name][i] \in Scalars(f.type)

\* The arrays of a JSON object, and of those in it, are sequences.
HasArrays(doc) == \A n \in DOMAIN doc : doc[n].k = "array" => IsSeq(doc[n].v)
IsDocument(doc) ==
    /\ HasArrays(doc)
    /\ \A n \in DOMAIN doc :
          /\ doc[n].k = "object" => HasArrays(doc[n].v)
          /\ doc[n].k = "array" => \A i \in DOMAIN doc[n].v : doc[n].v[i].k = "object" => HasArrays(doc[n].v[i].v)

\* Messages are nested once.
ASSUME JsonAssumption ==
    /\ Max32 \in Nat /\ Max64 \in Nat /\ 2 <= Max32 /\ Max32 <= Max64
    /\ IsType(Nested, Types)
    /\ \A s \in DOMAIN Instances : IsType(s, Types \cup {"MESSAGE"}) /\ \A m \in Instances[s] : IsMessage(s, m)
    /\ \A d \in DOMAIN Documents : Documents[d].k = "object" => IsDocument(Documents[d].v)

----------------------------------------------------------------------------
(* SerializeToJsonValue *)

\* One value of a field.  The text of a string that is not repeated is not
\* copied into the document, and is gone when the document is written: it is
\* intact, or anything.
SerializeScalar(field, v, intact) ==
    CASE field.type \in Integral -> [k |-> "int", v |-> v]
      [] field.type = "ENUM" -> [k |-> "int", v |-> v]
      [] field.type = "DOUBLE" -> [k |-> "double", v |-> v]
      [] field.type = "BOOL" -> [k |-> "bool", v |-> v]
      [] field.type = "STRING" ->
            [k |-> "string", v |-> IF field.label # "repeated" /\ ~intact THEN <<"?">> ELSE v]
      [] field.type = "BYTES" ->
            [k |-> "string", v |-> IF field.label # "repeated" /\ ~intact THEN <<"?">> ELSE UriEscape(v, "ALL")]

\* The object with the items of each field.  ListFields gives the fields that
\* are set; a required one that is not set is not missed.
Object(fields, items) ==
    [n \in {f.name : f \in {g \in fields : items[g] # <<>>}} |->
        LET f == CHOOSE g \in fields : g.name = n
        IN  IF f.label = "repeated" THEN [k |-> "array", v |-> items[f]] ELSE items[f][1]]

\* SerializeToJsonValue of a message that is nested, and of one that is not.
SerializeNested(m, intact) ==
    Object(Nested, [f \in Nested |->
        [i \in DOMAIN m[f.name] |-> SerializeScalar(f, m[f.name][i], intact)]])
SerializeItem(field, v, intact) ==
    IF field.type = "MESSAGE" THEN [k |-> "object", v |-> SerializeNested(v, intact)]
    ELSE SerializeScalar(field, v, intact)
SerializeToJsonValue(fields, m, intact) ==
    Object(fields, [f \in fields |-> [i \in DOMAIN m[f.name] |-> SerializeItem(f, m[f.name][i], intact)]])

----------------------------------------------------------------------------
(* ParseFromJsonValue *)

\* What becomes of an item: it has a value, or it fails and leaves no value.
Value(v) == [st |-> "true", v |-> v, kept |-> TRUE]
Fails(st) == [st |-> st, v |-> 0, kept |-> FALSE]

\* IsInt, IsUint, IsInt64, IsUint64, IsDouble and IsBool of rapidjson.
Is(type, j) ==
    \/ type \in Integral /\ j.k = "int" /\ j.v \in NumbersOf(type)
    \/ type = "DOUBLE" /\ j.k = "double"
    \/ type = "BOOL" /\ j.k = "bool"

\* GetInt, GetUint, GetDouble and GetBool of a single value, whose type is not
\* tested: GetDouble converts integers.
Gets(type, j) == Is(type, j) \/ (type = "DOUBLE" /\ j.k = "int")

\* GetString is a C string: it ends at the first NUL.
CString(s) ==
    LET nul == {k \in DOMAIN s : s[k] = "NUL"}
    IN  IF nul = {} THEN s ELSE SubSeq(s, 1, (CHOOSE k \in nul : \A j \in nul : k <= j) - 1)

\* Numbers of 32 bits, floating point and booleans: the type of an item of an
\* array is tested, that of a single value is only asserted by rapidjson.
ParseNarrow(field, j) ==
    IF field.label = "repeated"
    THEN IF Is(field.type, j) THEN Value(j.v) ELSE Fails("false")
    ELSE IF Gets(field.type, j) THEN Value(j.v) ELSE Fails("assert")

\* Numbers of 64 bits may be strings, for boost::lexical_cast.
ParseWide(field, j) ==
    IF Is(field.type, j) THEN Value(j.v)
    ELSE IF j.k # "string" THEN Fails("false")
    ELSE IF CString(j.v) = <<"2">> THEN Value(2) ELSE Fails("throw")

\* Enums: the items of an array by number, a single value by name.
ParseEnum(field, j) ==
    IF field.label = "repeated"
    THEN IF Is("INT32", j) /\ j.v \in DOMAIN EnumNames THEN Value(j.v) ELSE Fails("false")
    ELSE IF j.k = "string" /\ \E e \in DOMAIN EnumNames : CString(j.v) = <<EnumNames[e]>>
         THEN Value(CHOOSE e \in DOMAIN EnumNames : CString(j.v) = <<EnumNames[e]>>)
         ELSE Fails("false")

ParseString(field, j) ==
    IF j.k # "string" THEN Fails("false")
    ELSE IF field.type = "STRING" THEN Value(CString(j.v))
    ELSE LET u == UriUnescape(CString(j.v), "ALL") IN IF u.ok THEN Value(u.text) ELSE Fails("throw")

ParseScalar(field, j) ==
    CASE field.type \in {"INT32", "UINT32", "DOUBLE", "BOOL"} -> ParseNarrow(field, j)
      [] field.type \in Wide -> ParseWide(field, j)
      [] field.type = "ENUM" -> ParseEnum(field, j)
      [] field.type \in {"STRING", "BYTES"} -> ParseString(field, j)

\* The items of a field in a document.
Items(field, doc) ==
    IF field.name \notin DOMAIN doc THEN <<>>
    ELSE IF field.label # "repeated" THEN <<doc[field.name]>>
    ELSE IF doc[field.name].k = "array" THEN doc[field.name].v ELSE <<>>

\* One field of the message, of whose items r is what becomes: its values up
\* to the first one that fails.
ParseField(field, doc, r) ==
    LET bad == {i \in DOMAIN r : r[i].st # "true"}
        first == CHOOSE i \in bad : \A l \in bad : i <= l
        n == IF bad = {} THEN Len(r) ELSE IF r[first].kept THEN first ELSE first - 1
    IN  IF field.name \notin DOMAIN doc
        THEN [st |-> IF field.label = "required" THEN "false" ELSE "true", vs |-> <<>>]
        ELSE IF field.label = "repeated" /\ doc[field.name].k # "array" THEN [st |-> "false", vs |-> <<>>]
        ELSE [st |-> IF bad = {} THEN "true" ELSE r[first].st, vs |-> [i \in 1 .. n |-> r[i].v]]

\* The fields in the order of their places, of which p is what becomes; those
\* after one that fails are left.
ParseFields(fields, p) ==
    LET bad == {f \in fields : p[f].st # "true"}
        first == CHOOSE f \in bad : \A g \in bad : f.no <= g.no
    IN  [st |-> IF bad = {} THEN "true" ELSE p[first].st,
         m |-> [n \in {f.name : f \in fields} |->
                  LET f == CHOOSE g \in fields : g.name = n
                  IN  IF bad = {} \/ f.no <= first.no THEN p[f].vs ELSE <<>>]]

\* ParseFromJsonValue of a message that is nested, and of one that is not.  Of
\* a nested one that fails the part read is kept.
ParseNested(doc) ==
    ParseFields(Nested, [f \in Nested |->
        ParseField(f, doc, [i \in DOMAIN Items(f, doc) |-> ParseScalar(f, Items(f, doc)[i])])])
ParseMessage(j) ==
    IF j.k # "object" THEN Fails("false")
    ELSE [st |-> ParseNested(j.v).st, v |-> ParseNested(j.v).m, kept |-> TRUE]
ParseItem(field, j) == IF field.type = "MESSAGE" THEN ParseMessage(j) ELSE ParseScalar(field, j)
ParseFromJsonValue(fields, doc) ==
    ParseFields(fields, [f \in fields |->
        ParseField(f, doc, [i \in DOMAIN Items(f, doc) |-> ParseItem(f, Items(f, doc)[i])])])

----------------------------------------------------------------------------
(* The two calls. *)

InitJson ==
    /\ schema \in DOMAIN Instances /\ message \in Instances[schema]
    /\ jpc = "start" /\ root = [k |-> "object", v |-> <<>>] /\ own = FALSE /\ outcome = "none" /\ got = <<>>

SerializeToJson(intact) ==
    /\ jpc = "start" /\ jpc' = "json"
    /\ root' = [k |-> "object", v |-> SerializeToJsonValue(schema, message, intact)]
    /\ own' = intact
    /\ UNCHANGED <<schema, message, outcome, got>>

ForeignJson(doc) ==
    /\ jpc = "start" /\ jpc' = "json"
    /\ root' = doc /\ own' = FALSE
    /\ UNCHANGED <<schema, message, outcome, got>>

\* What does not parse leaves the message alone.  HasMember asserts that the
\* root is an object; a type without fields asks for no member.
ParseFromJson ==
    /\ jpc = "json" /\ jpc' = "parsed"
    /\ \/ /\ root.k = "object"
          /\ outcome' = ParseFromJsonValue(schema, root.v).st
          /\ got' = ParseFromJsonValue(schema, root.v).m
       \/ root.k = "malformed" /\ outcome' = "false" /\ UNCHANGED got
       \/ /\ root.k \notin {"object", "malformed"}
          /\ outcome' = IF schema = {} THEN "true" ELSE "assert"
          /\ UNCHANGED got
    /\ UNCHANGED <<schema, message, root, own>>

NextJson ==
    \/ \E intact \in BOOLEAN : SerializeToJson(intact)
    \/ \E d \in DOMAIN Documents : ForeignJson(Documents[d])
    \/ ParseFromJson

JsonSpec == InitJson /\ [][NextJson]_jsonVars

----------------------------------------------------------------------------
\* The message m and the messages in it, each with its fields.
Parts(m) == {<<schema, m>>} \cup
            UNION {{<<Nested, m[f.name][i]>> : i \in DOMAIN m[f.name]} : f \in {g \in schema : g.type = "MESSAGE"}}

\* A required field that is not set; an enum field outside an array that is.
Lacking(fields, m) == \E f \in fields : f.label = "required" /\ m[f.name] = <<>>
SingleEnum(fields, m) == \E f \in fields : f.type = "ENUM" /\ f.label # "repeated" /\ m[f.name] # <<>>
CStrings(fields, m) ==
    \A f \in fields : f.type = "STRING" => \A i \in DOMAIN m[f.name] : CString(m[f.name][i]) = m[f.name][i]
NumbersFit(fields, m) ==
    \A f \in fields : f.type \in Integral => \A i \in DOMAIN m[f.name] : m[f.name][i] \in NumbersOf(f.type)

(***************************************************************************)
(* A message comes back from its JSON as it was, whatever the fields, the  *)
(* messages in it and the bytes, provided that its required fields are     *)
(* set, that the strings that are not copied were intact, that strings     *)
(* have no NUL and that it sets no enum field outside an array; with such  *)
(* a field, or without a required one, its own JSON is refused.  JSON of   *)
(* any origin that is accepted gives the required fields, and numbers in   *)
(* their range, also of the messages in it.                                *)
(***************************************************************************)
JsonRoundTrip ==
    jpc = "parsed" =>
      /\ own => IF \E p \in Parts(message) : Lacking(p[1], p[2]) \/ SingleEnum(p[1], p[2])
                THEN outcome = "false"
                ELSE /\ outcome = "true"
                     /\ (\A p \in Parts(message) : CStrings(p[1], p[2])) => got = message
      /\ outcome = "true" => \A p \in Parts(got) : ~Lacking(p[1], p[2]) /\ NumbersFit(p[1], p[2])
=============================================================================
