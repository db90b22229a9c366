----------------------------- MODULE FieldCodecs -----------------------------
(***************************************************************************)
(* One field of a document, of one of the types the mongo package encodes  *)
(* itself, on its way between the database, a service and its clients.     *)
(* Times are counted in half seconds from midnight of 1 January of year 0, *)
(* in UTC; text in a layout is the form and the time it reads back as.     *)
(***************************************************************************)
EXTENDS Integers

CONSTANTS
  DayTicks,     \* half seconds in a day
  ZeroTime,     \* time.Time's zero value: midnight of 1 January of year 1
  EndOfYears,   \* the first time after year 9999
  MinTime,      \* bounds: the times a client or another program writes
  MaxTime

ASSUME FieldCodecsAssumption ==
  /\ DayTicks \in Nat \ {0} /\ DayTicks % 2 = 0
  /\ ZeroTime \in Nat /\ ZeroTime % DayTicks = 0 /\ ZeroTime >= DayTicks
  /\ EndOfYears \in Nat /\ EndOfYears % DayTicks = 0 /\ EndOfYears > ZeroTime
  /\ MinTime \in Int /\ MaxTime \in Int

VARIABLES
  type,         \* of the field
  db,           \* the field in the database
  go,           \* the service's value
  wire,         \* the field in the JSON a client has
  own,          \* db was written by the service
  source,       \* history: the value it wrote
  echo          \* history: which of go and wire come from db and nothing else

vars == <<type, db, go, wire, own, source, echo>>

Times == MinTime..MaxTime
TimeTypes == {"DateTime", "DateOnly", "TimeOnly", "time.Time"}
Ids == {"", "hex", "HEX", "other"}       \* an id in lower and in upper case, and no id
Nothing == [form |-> "nothing"]
Error == [form |-> "error"]
Null == [form |-> "null"]
Text(form, t) == [form |-> form, at |-> t]
Time(t) == [form |-> "time", at |-> t]   \* a Go value
Id(s) == [form |-> "id", is |-> s]

-----------------------------------------------------------------------------
(* Times.                                                                  *)

Layout == [DateTime |-> "datetime", DateOnly |-> "date", TimeOnly |-> "clock"]
Legible(t) == 0 <= t /\ t < EndOfYears   \* the year has four digits

(* String: UTC, without fractions, in the type's layout; what a layout has *)
(* no place for reads back as midnight or as 1 January of year 0.          *)
ToSecond(t) == t - (t % 2)
Shown(ty, t) ==
  CASE ty = "DateOnly" -> t - (t % DayTicks)
    [] ty = "TimeOnly" -> ToSecond(t % DayTicks)
    [] OTHER -> ToSecond(t)
String(ty, t) == Text(IF ty = "time.Time" THEN "datetime" ELSE Layout[ty], Shown(ty, t))

(* parseFlexibleTime tries every layout: any legible text will do for any  *)
(* of the types, and an empty one is the zero time.  RFC 3339 brings its   *)
(* offset, which may take the year in UTC out of four digits.              *)
Layouts == {"datetime", "date", "clock"}

(* Fault variant: ParseInLocation with the server's zone, a second off.    *)
ParseFlexibleTimeLocal(text) ==
  CASE text.form = "empty" -> Time(ZeroTime)
    [] text.form = "rfc3339" -> Time(text.at)
    [] text.form \in Layouts /\ Legible(text.at) -> Time(text.at - 2)
    [] OTHER -> Error
ParseFlexibleTime(text) ==
  CASE text.form = "empty" -> Time(ZeroTime)
    [] text.form = "rfc3339" -> Time(text.at)
    [] text.form \in Layouts /\ Legible(text.at) -> Time(text.at)
    [] OTHER -> Error

DecodeTimeValue(b) ==
  CASE b.form = "null" -> Time(ZeroTime)
    [] b.form = "native" -> Time(b.at)
    [] OTHER -> ParseFlexibleTime(b)

(* The registry's codec for a plain time.Time.                             *)
EncodeTimeAsString(t) == String("time.Time", t)
DecodeTimeFromString(b) == DecodeTimeValue(b)

-----------------------------------------------------------------------------
(* Ids.                                                                    *)

ObjectIDFromHex(s) == IF s \in {"hex", "HEX"} THEN [form |-> "oid"] ELSE Error

(* Fault variant: a malformed id becomes the nil ObjectID.                 *)
MarshalIdNil(s) ==
  IF s = "" THEN Null ELSE [form |-> "oid"]
MarshalId(s) ==
  CASE s = "" -> Null
    [] ObjectIDFromHex(s) # Error -> ObjectIDFromHex(s)
    [] OTHER -> [form |-> "string", is |-> s]

UnmarshalId(b) ==
  CASE b.form = "null" -> Id("")
    [] b.form = "oid" -> Id("hex")
    [] b.form = "string" -> Id(b.is)
    [] OTHER -> Error

-----------------------------------------------------------------------------
(* The four ways between the three places.                                 *)

MarshalBSONValue(v) ==
  CASE type = "StringObjectID" -> MarshalId(v.is)
    [] type = "time.Time" -> EncodeTimeAsString(v.at)
    [] OTHER -> String(type, v.at)

UnmarshalBSONValue(b) ==
  CASE type = "StringObjectID" -> UnmarshalId(b)
    [] type = "time.Time" -> DecodeTimeFromString(b)
    [] OTHER -> DecodeTimeValue(b)

(* A plain time.Time goes to JSON as encoding/json has it, to the fraction *)
(* (for a year that is illegible in UTC, its offset may help; left out).   *)
MarshalJSON(v) ==
  CASE type = "StringObjectID" -> v
    [] type = "time.Time" -> IF Legible(v.at) THEN Text("rfc3339", v.at) ELSE Error
    [] OTHER -> String(type, v.at)

(* A null leaves a plain time.Time alone; the types take it for a text.    *)
UnmarshalJSON(text) ==
  CASE type = "StringObjectID" -> text
    [] type = "time.Time" -> IF text = Null THEN Time(ZeroTime)
                             ELSE IF text.form = "rfc3339" THEN Time(text.at) ELSE Error
    [] OTHER -> ParseFlexibleTime(text)

-----------------------------------------------------------------------------
(* JSON and BSON values of others' making.                                 *)
Texts ==
  IF type = "StringObjectID" THEN {Id(s) : s \in Ids}
  ELSE {Text("rfc3339", t) : t \in Times} \cup {String(ty, t) : ty \in TimeTypes, t \in Times}
       \cup {Null, [form |-> "empty"], [form |-> "garbled"]}

BSONValues ==
  IF type = "StringObjectID"
    THEN {[form |-> "string", is |-> s] : s \in Ids} \cup {Null, [form |-> "oid"], [form |-> "int"]}
    ELSE Texts \cup {[form |-> "native", at |-> t] : t \in Times} \cup {[form |-> "int"]}

Init ==
  /\ type \in TimeTypes \cup {"StringObjectID"}
  /\ db \in BSONValues
  /\ go = Nothing /\ wire = Nothing /\ source = Nothing
  /\ own = FALSE /\ echo = {}

TypeOK ==
  /\ type \in TimeTypes \cup {"StringObjectID"}
  /\ own \in BOOLEAN /\ echo \subseteq {"go", "wire"}
  /\ go.form \in {"nothing", IF type = "StringObjectID" THEN "id" ELSE "time"}

Kept(place, from) == IF from THEN echo \cup {place} ELSE echo \ {place}

(* A document that cannot be decoded leaves the service without a value.   *)
Load ==
  /\ LET v == UnmarshalBSONValue(db) IN go' = IF v = Error THEN Nothing ELSE v
  /\ echo' = Kept("go", go' # Nothing)
  /\ UNCHANGED <<type, db, wire, own, source>>

Store ==
  /\ go # Nothing
  /\ db' = MarshalBSONValue(go)
  /\ own' = TRUE /\ source' = go
  /\ echo' = IF "go" \in echo THEN echo ELSE {"go"}
  /\ UNCHANGED <<type, go, wire>>

Answer ==
  /\ go # Nothing /\ MarshalJSON(go) # Error
  /\ wire' = MarshalJSON(go)
  /\ echo' = Kept("wire", "go" \in echo)
  /\ UNCHANGED <<type, db, go, own, source>>

(* A client sends what it has, or something else.                          *)
Request ==
  /\ wire # Nothing
  /\ LET v == UnmarshalJSON(wire) IN go' = IF v = Error THEN Nothing ELSE v
  /\ echo' = Kept("go", "wire" \in echo)
  /\ UNCHANGED <<type, db, wire, own, source>>

ClientEdits ==
  /\ wire' \in Texts
  /\ echo' = echo \ {"wire"}
  /\ UNCHANGED <<type, db, go, own, source>>

Next == Load \/ Store \/ Answer \/ Request \/ ClientEdits

Spec == Init /\ [][Next]_vars

-----------------------------------------------------------------------------
(* Properties.                                                             *)

(* datetime.go:46 "the JSON wire format identical to the DB format": what  *)
(* the service has stored stays as it is, to the letter, however often it  *)
(* is loaded, shown to a client that sends it back, and stored again.      *)
EchoIsStable == [][own /\ Store /\ "go" \in echo => db' = db]_vars

SameId(a, b) == a = b \/ {a, b} = {"hex", "HEX"}

(* The service can load what it stored: a time whose year has four digits, *)
(* or its time of day alone, an id in any case; the id it loads finds the  *)
(* document again.  Zero times stay zero, except times of day.             *)
LoadsWhatItStored ==
  own => LET back == UnmarshalBSONValue(db) IN
    IF type = "StringObjectID"
      THEN back # Error /\ SameId(back.is, source.is) /\ MarshalId(back.is) = db
      ELSE /\ back # Error <=> type = "TimeOnly" \/ Legible(Shown(type, source.at))
           /\ back # Error => Shown(type, back.at) = Shown(type, source.at)
           /\ source.at = ZeroTime => back.at = ZeroTime \/ type = "TimeOnly"
=============================================================================
