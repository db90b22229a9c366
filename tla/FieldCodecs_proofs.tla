-------------------------- MODULE FieldCodecs_proofs --------------------------
(***************************************************************************)
(* What holds of the mongo package's codecs for every time and id, and any *)
(* number of trips between database, service and clients.                  *)
(***************************************************************************)
EXTENDS FieldCodecs, TLAPS

-----------------------------------------------------------------------------
(* Arithmetic of the layouts.                                              *)

LEMMA DayIsEven == DayTicks \in Nat \ {0} /\ \E h \in Nat : DayTicks = 2 * h
<1>1. DayTicks \in Nat \ {0} /\ DayTicks % 2 = 0
  BY FieldCodecsAssumption
<1>2. DayTicks = 2 * (DayTicks \div 2) /\ DayTicks \div 2 \in Nat
  BY <1>1
<1> QED BY <1>1, <1>2

LEMMA SecondIsWhole ==
  ASSUME NEW t \in Int
  PROVE  ToSecond(t) \in Int /\ ToSecond(ToSecond(t)) = ToSecond(t) /\ t - 1 <= ToSecond(t) /\ ToSecond(t) <= t
  BY DEF ToSecond

LEMMA ShownForms ==
  ASSUME NEW t
  PROVE  /\ Shown("DateOnly", t) = t - (t % DayTicks)
         /\ Shown("TimeOnly", t) = ToSecond(t % DayTicks)
         /\ Shown("DateTime", t) = ToSecond(t) /\ Shown("time.Time", t) = ToSecond(t)
  BY DEF Shown

(* What a layout keeps of a time, it keeps for good.                       *)
LEMMA ShownTwice ==
  ASSUME NEW ty \in TimeTypes, NEW t \in Int
  PROVE  Shown(ty, t) \in Int /\ Shown(ty, Shown(ty, t)) = Shown(ty, t)
<1>1. CASE ty \in {"DateTime", "time.Time"}
  BY <1>1, SecondIsWhole, ShownForms
<1>2. CASE ty = "DateOnly"
  <2>1. DayTicks \in Nat /\ DayTicks > 0
    BY DayIsEven
  <2>2. t = DayTicks * (t \div DayTicks) + (t % DayTicks) /\ t \div DayTicks \in Int /\ t % DayTicks \in Int
    BY <2>1
  <2>3. (DayTicks * (t \div DayTicks) + 0) % DayTicks = 0
    BY <2>1, <2>2
  <2>4. t - (t % DayTicks) = DayTicks * (t \div DayTicks) + 0 /\ t - (t % DayTicks) \in Int
    BY <2>1, <2>2
  <2>5. (t - (t % DayTicks)) % DayTicks = 0
    BY <2>3, <2>4
  <2> QED BY <1>2, <2>4, <2>5, ShownForms
<1>3. CASE ty = "TimeOnly"
  <2>1. DayTicks \in Nat /\ DayTicks > 0
    BY DayIsEven
  <2>2. t % DayTicks \in 0..(DayTicks - 1)
    BY <2>1
  <2> DEFINE u == ToSecond(t % DayTicks)
  <2>3. u \in Int /\ ToSecond(u) = u /\ 0 <= u /\ u <= DayTicks - 1
    BY <2>1, <2>2 DEF ToSecond
  <2> HIDE DEF u
  <2>4. u % DayTicks = u
    BY <2>1, <2>3
  <2>5. Shown("TimeOnly", t) = u
    BY ShownForms DEF u
  <2>6. Shown("TimeOnly", u) = u
    BY <2>3, <2>4, ShownForms
  <2> QED BY <1>3, <2>3, <2>5, <2>6
<1> QED BY <1>1, <1>2, <1>3 DEF TimeTypes

(* A time of day always has a year of four digits: the year 0.             *)
LEMMA ClockIsLegible == ASSUME NEW t \in Int PROVE Legible(Shown("TimeOnly", t))
<1>1. DayTicks \in Nat /\ DayTicks > 0 /\ DayTicks <= ZeroTime /\ ZeroTime < EndOfYears /\ ZeroTime \in Nat /\ EndOfYears \in Nat
  BY FieldCodecsAssumption
<1>2. t % DayTicks \in 0..(DayTicks - 1)
  BY <1>1
<1>3. Shown("TimeOnly", t) \in Int /\ 0 <= Shown("TimeOnly", t) /\ Shown("TimeOnly", t) < DayTicks
  BY <1>1, <1>2, ShownForms DEF ToSecond
<1> QED BY <1>1, <1>3 DEF Legible

(* The zero time is midnight, so a date or a time shows it as it is.       *)
LEMMA ZeroIsShown ==
  ASSUME NEW ty \in TimeTypes, ty # "TimeOnly"
  PROVE  ZeroTime \in Int /\ Shown(ty, ZeroTime) = ZeroTime /\ Legible(ZeroTime)
<1>1. ZeroTime \in Nat /\ ZeroTime % DayTicks = 0 /\ ZeroTime < EndOfYears /\ EndOfYears \in Nat
  BY FieldCodecsAssumption
<1>2. PICK h \in Nat : DayTicks = 2 * h
  BY DayIsEven
<1>3. ZeroTime = DayTicks * (ZeroTime \div DayTicks) /\ ZeroTime \div DayTicks \in Int
  BY <1>1, DayIsEven
<1> DEFINE k == h * (ZeroTime \div DayTicks)
<1>4. ZeroTime = 2 * k /\ k \in Int
  BY <1>2, <1>3
<1> HIDE DEF k
<1>5. ZeroTime % 2 = 0
  BY <1>4
<1> QED BY <1>1, <1>5, ShownForms DEF TimeTypes, ToSecond, Legible

-----------------------------------------------------------------------------
(* The codecs on what the three places can hold.                           *)
Instants == {Time(t) : t \in Int}
Values == IF type = "StringObjectID" THEN {Id(s) : s \in Ids} ELSE Instants
TimeTexts == {Text(form, t) : form \in Layouts \cup {"rfc3339"}, t \in Int}
             \cup {Null, [form |-> "empty"], [form |-> "garbled"]}
Wires == IF type = "StringObjectID" THEN {Id(s) : s \in Ids} ELSE TimeTexts
Stored == IF type = "StringObjectID"
            THEN {[form |-> "string", is |-> s] : s \in Ids} \cup {Null, [form |-> "oid"], [form |-> "int"]}
            ELSE TimeTexts \cup {[form |-> "native", at |-> t] : t \in Int} \cup {[form |-> "int"]}

(* A text in a layout is read back if its year has four digits.            *)
LEMMA StringIsRead ==
  ASSUME NEW ty \in TimeTypes, NEW t \in Int
  PROVE  /\ String(ty, t) \in TimeTexts
         /\ String(ty, t).form \in Layouts /\ String(ty, t).at = Shown(ty, t)
         /\ ParseFlexibleTime(String(ty, t)) = IF Legible(Shown(ty, t)) THEN Time(Shown(ty, t)) ELSE Error
<1>1. PICK form \in Layouts : String(ty, t) = Text(form, Shown(ty, t))
  BY DEF TimeTypes, Layouts, Layout, String
<1>2. Shown(ty, t) \in Int
  BY ShownTwice
<1>3. Text(form, Shown(ty, t)).form = form /\ Text(form, Shown(ty, t)).at = Shown(ty, t)
  BY DEF Text
<1>4. form # "empty" /\ form # "rfc3339"
  BY DEF Layouts
<1>5. ParseFlexibleTime(Text(form, Shown(ty, t))) = IF Legible(Shown(ty, t)) THEN Time(Shown(ty, t)) ELSE Error
  BY <1>3, <1>4 DEF ParseFlexibleTime
<1> QED BY <1>1, <1>2, <1>3, <1>5 DEF TimeTexts

LEMMA StringTwice ==
  ASSUME NEW ty \in TimeTypes, NEW t \in Int
  PROVE  String(ty, Shown(ty, t)) = String(ty, t)
  BY ShownTwice DEF String

LEMMA ParsedIsInstant ==
  ASSUME NEW text \in TimeTexts
  PROVE  ParseFlexibleTime(text) \in Instants \cup {Error}
<1>1. ZeroTime \in Int
  BY FieldCodecsAssumption
<1>2. CASE text \in {Null, [form |-> "empty"], [form |-> "garbled"]}
  <2>1. text.form \in {"null", "empty", "garbled"}
    BY <1>2 DEF Null
  <2> QED BY <1>1, <2>1 DEF ParseFlexibleTime, Instants, Layouts
<1>3. CASE \E form \in Layouts \cup {"rfc3339"}, t \in Int : text = Text(form, t)
  <2>1. text.at \in Int /\ text.form \in Layouts \cup {"rfc3339"}
    BY <1>3 DEF Text
  <2> QED BY <2>1 DEF ParseFlexibleTime, Instants, Layouts
<1> QED BY <1>2, <1>3 DEF TimeTexts

FieldTypes == TimeTypes \cup {"StringObjectID"}

LEMMA TimeFields == \A t : Time(t).at = t /\ Time(t).form = "time" /\ Time(t) # Error
<1> SUFFICES ASSUME NEW t PROVE Time(t).at = t /\ Time(t).form = "time" /\ Time(t) # Error
  OBVIOUS
<1>1. Time(t).at = t /\ Time(t).form = "time" /\ Error.form = "error"
  BY DEF Time, Error
<1> QED BY <1>1

LEMMA IdFields == \A s : Id(s).is = s /\ Id(s).form = "id" /\ Id(s) # Error
<1> SUFFICES ASSUME NEW s PROVE Id(s).is = s /\ Id(s).form = "id" /\ Id(s) # Error
  OBVIOUS
<1>1. Id(s).is = s /\ Id(s).form = "id" /\ Error.form = "error"
  BY DEF Id, Error
<1> QED BY <1>1

(* The four ways, for the ids and for the times.                           *)
LEMMA IdWays ==
  ASSUME type = "StringObjectID"
  PROVE  /\ \A v : MarshalBSONValue(v) = MarshalId(v.is)
         /\ \A b : UnmarshalBSONValue(b) = UnmarshalId(b)
         /\ \A v : MarshalJSON(v) = v /\ UnmarshalJSON(v) = v
  BY DEF MarshalBSONValue, UnmarshalBSONValue, MarshalJSON, UnmarshalJSON

LEMMA TimeWays ==
  ASSUME type \in TimeTypes
  PROVE  /\ \A v : MarshalBSONValue(v) = String(type, v.at)
         /\ \A b : UnmarshalBSONValue(b) = DecodeTimeValue(b)
         /\ type # "time.Time" => \A v : MarshalJSON(v) = String(type, v.at) /\ UnmarshalJSON(v) = ParseFlexibleTime(v)
  BY DEF MarshalBSONValue, UnmarshalBSONValue, MarshalJSON, UnmarshalJSON, EncodeTimeAsString,
     DecodeTimeFromString, TimeTypes

LEMMA IdTrip ==
  ASSUME NEW s \in Ids
  PROVE  /\ MarshalId(s) \in {[form |-> "string", is |-> x] : x \in Ids} \cup {Null, [form |-> "oid"]}
         /\ \E back \in Ids : /\ UnmarshalId(MarshalId(s)) = Id(back) /\ SameId(back, s)
                              /\ MarshalId(back) = MarshalId(s)
<1>1. CASE s = ""
  <2>1. ObjectIDFromHex(s) = Error /\ Null.form = "null"
    BY <1>1 DEF ObjectIDFromHex, Null
  <2>2. MarshalId(s) = Null
    BY <1>1, <2>1 DEF MarshalId
  <2> QED BY <1>1, <2>1, <2>2 DEF UnmarshalId, SameId
<1>2. CASE s \in {"hex", "HEX"}
  <2>1. ObjectIDFromHex(s) = [form |-> "oid"] /\ [form |-> "oid"].form = "oid" /\ Error.form = "error"
    BY <1>2 DEF ObjectIDFromHex, Error
  <2>2. MarshalId(s) = [form |-> "oid"] /\ MarshalId("hex") = [form |-> "oid"]
    BY <1>2, <2>1 DEF MarshalId, ObjectIDFromHex
  <2>3. UnmarshalId([form |-> "oid"]) = Id("hex")
    BY DEF UnmarshalId
  <2> QED BY <1>2, <2>2, <2>3 DEF SameId, Ids
<1>3. CASE s = "other"
  <2>1. MarshalId(s) = [form |-> "string", is |-> s]
    BY <1>3 DEF MarshalId, ObjectIDFromHex
  <2>2. UnmarshalId([form |-> "string", is |-> s]) = Id(s)
    BY DEF UnmarshalId
  <2> QED BY <2>1, <2>2 DEF SameId
<1> QED BY <1>1, <1>2, <1>3 DEF Ids

(* Whatever is read is a value or an error.                                *)
LEMMA ReadsValues ==
  ASSUME type \in FieldTypes
  PROVE  /\ \A b \in Stored : UnmarshalBSONValue(b) \in Values \cup {Error}
         /\ \A w \in Wires : UnmarshalJSON(w) \in Values \cup {Error}
<1>1. CASE type = "StringObjectID"
  <2>1. ASSUME NEW b \in Stored PROVE UnmarshalId(b) \in {Id(s) : s \in Ids} \cup {Error}
    <3>1. CASE \E s \in Ids : b = [form |-> "string", is |-> s]
      BY <3>1 DEF UnmarshalId
    <3>2. CASE b = Null
      <4>1. UnmarshalId(b) = Id("") /\ "" \in Ids
        BY <3>2 DEF UnmarshalId, Null, Ids
      <4> QED BY <4>1
    <3>3. CASE b = [form |-> "oid"]
      <4>1. UnmarshalId(b) = Id("hex") /\ "hex" \in Ids
        BY <3>3 DEF UnmarshalId, Ids
      <4> QED BY <4>1
    <3>4. CASE b = [form |-> "int"]
      BY <3>4 DEF UnmarshalId
    <3> QED BY <1>1, <2>1, <3>1, <3>2, <3>3, <3>4 DEF Stored
  <2> QED BY <1>1, <2>1, IdWays DEF Values, Wires
<1>2. CASE type \in TimeTypes
  <2>1. type # "StringObjectID" /\ ZeroTime \in Int
    BY <1>2, FieldCodecsAssumption DEF TimeTypes
  <2>2. ASSUME NEW b \in Stored PROVE DecodeTimeValue(b) \in Instants \cup {Error}
    <3>1. CASE b \in TimeTexts
      BY <2>1, <3>1, ParsedIsInstant DEF DecodeTimeValue, TimeTexts, Text, Null, Instants, Layouts
    <3>2. CASE \E t \in Int : b = [form |-> "native", at |-> t]
      BY <3>2 DEF DecodeTimeValue, Instants
    <3>3. CASE b = [form |-> "int"]
      BY <3>3 DEF DecodeTimeValue, ParseFlexibleTime, Layouts
    <3> QED BY <2>1, <2>2, <3>1, <3>2, <3>3 DEF Stored
  <2>3. ASSUME NEW w \in TimeTexts PROVE UnmarshalJSON(w) \in Instants \cup {Error}
    <3>1. CASE type # "time.Time"
      BY <1>2, <3>1, ParsedIsInstant, TimeWays
    <3>2. CASE type = "time.Time" /\ w = Null
      BY <2>1, <3>2 DEF UnmarshalJSON, Instants
    <3>3. CASE type = "time.Time" /\ w.form = "rfc3339" /\ w # Null
      <4>1. w.at \in Int
        BY <3>3 DEF TimeTexts, Text
      <4> QED BY <3>3, <4>1 DEF UnmarshalJSON, Instants
    <3>4. CASE type = "time.Time" /\ w.form # "rfc3339" /\ w # Null
      BY <3>4 DEF UnmarshalJSON
    <3> QED BY <3>1, <3>2, <3>3, <3>4
  <2> QED BY <1>2, <2>1, <2>2, <2>3, TimeWays DEF Values, Wires
<1> QED BY <1>1, <1>2 DEF FieldTypes

(* What is stored is legal in the database, and what is loaded from it is  *)
(* stored as it was.                                                       *)
LEMMA BSONTrip ==
  ASSUME type \in FieldTypes, NEW v \in Values
  PROVE  /\ MarshalBSONValue(v) \in Stored
         /\ LET back == UnmarshalBSONValue(MarshalBSONValue(v)) IN
              back # Error => MarshalBSONValue(back) = MarshalBSONValue(v)
<1>1. CASE type = "StringObjectID"
  <2>1. PICK s \in Ids : v = Id(s)
    BY <1>1 DEF Values
  <2> QED BY <1>1, <2>1, IdWays, IdFields, IdTrip DEF Stored
<1>2. CASE type \in TimeTypes
  <2>1. PICK t \in Int : v = Time(t) /\ v.at = t
    BY <1>2, TimeFields DEF TimeTypes, Values, Instants
  <2>2. MarshalBSONValue(v) = String(type, t)
    BY <1>2, <2>1, TimeWays
  <2>3. UnmarshalBSONValue(String(type, t)) = ParseFlexibleTime(String(type, t))
    BY <1>2, StringIsRead, TimeWays DEF DecodeTimeValue, Layouts
  <2>4. \/ UnmarshalBSONValue(String(type, t)) = Error
        \/ UnmarshalBSONValue(String(type, t)) = Time(Shown(type, t))
    BY <1>2, <2>3, StringIsRead
  <2>5. MarshalBSONValue(Time(Shown(type, t))) = String(type, t)
    BY <1>2, TimeWays, TimeFields, StringTwice
  <2> QED BY <1>2, <2>2, <2>4, <2>5, StringIsRead DEF Stored, TimeTypes
<1> QED BY <1>1, <1>2 DEF FieldTypes

(* The same by way of JSON: a client that sends back what it got.          *)
LEMMA JSONTrip ==
  ASSUME type \in FieldTypes, NEW v \in Values, MarshalJSON(v) # Error
  PROVE  /\ MarshalJSON(v) \in Wires
         /\ LET back == UnmarshalJSON(MarshalJSON(v)) IN
              back # Error => MarshalBSONValue(back) = MarshalBSONValue(v)
<1>1. CASE type = "StringObjectID"
  BY <1>1, IdWays DEF Values, Wires
<1>2. CASE type \in TimeTypes
  <2>1. PICK t \in Int : v = Time(t) /\ v.at = t
    BY <1>2, TimeFields DEF TimeTypes, Values, Instants
  <2>2. Wires = TimeTexts
    BY <1>2 DEF TimeTypes, Wires
  <2>3. CASE type = "time.Time"
    <3>1. MarshalJSON(v) = Text("rfc3339", t)
      BY <2>1, <2>3 DEF MarshalJSON
    <3>2. Text("rfc3339", t).form = "rfc3339" /\ Text("rfc3339", t).at = t /\ Null.form = "null"
      BY DEF Text, Null
    <3>3. UnmarshalJSON(MarshalJSON(v)) = v
      BY <2>1, <2>3, <3>1, <3>2 DEF UnmarshalJSON
    <3> QED BY <2>2, <3>1, <3>3 DEF TimeTexts
  <2>4. CASE type # "time.Time"
    <3>1. MarshalJSON(v) = String(type, t) /\ UnmarshalJSON(String(type, t)) = ParseFlexibleTime(String(type, t))
      BY <1>2, <2>1, <2>4, TimeWays
    <3>2. \/ UnmarshalJSON(MarshalJSON(v)) = Error
          \/ UnmarshalJSON(MarshalJSON(v)) = Time(Shown(type, t))
      BY <1>2, <3>1, StringIsRead
    <3>3. MarshalBSONValue(Time(Shown(type, t))) = String(type, t) /\ MarshalBSONValue(v) = String(type, t)
      BY <1>2, <2>1, TimeWays, TimeFields, StringTwice
    <3> QED BY <1>2, <2>2, <3>1, <3>2, <3>3, StringIsRead
  <2> QED BY <2>3, <2>4
<1> QED BY <1>1, <1>2 DEF FieldTypes

-----------------------------------------------------------------------------
(* The invariant.  K is what the field must be stored as by a service that *)
(* changes nothing: what it is, if a service stored it, and if not, what   *)
(* the first load and store make of it.  While a value comes from db alone *)
(* it is stored as K, and so is the text made of it, if it can be read.    *)
K == IF own THEN db ELSE MarshalBSONValue(UnmarshalBSONValue(db))

Typed ==
  /\ type \in FieldTypes /\ own \in BOOLEAN
  /\ db \in Stored
  /\ go \in Values \cup {Nothing}
  /\ wire \in Wires \cup {Nothing}

OwnIsStored == own => source \in Values /\ db = MarshalBSONValue(source)
GoIsStored == "go" \in echo /\ go # Nothing => MarshalBSONValue(go) = K
WireIsStored ==
  "wire" \in echo =>
    /\ wire # Nothing
    /\ UnmarshalJSON(wire) = Error \/ MarshalBSONValue(UnmarshalJSON(wire)) = K

EchoInv == Typed /\ OwnIsStored /\ GoIsStored /\ WireIsStored

(* No place holds the absence of a value for a value.                      *)
LEMMA NothingIsApart ==
  /\ Nothing \notin Values /\ Nothing \notin Wires /\ Error \notin Values /\ Nothing # Error
<1>1. Nothing.form = "nothing" /\ Error.form = "error"
  BY DEF Nothing, Error
<1>2. ASSUME NEW v \in Values PROVE v.form \in {"id", "time"}
  BY DEF Values, Instants, Id, Time
<1>3. ASSUME NEW w \in Wires PROVE w.form \in {"id", "rfc3339", "null", "empty", "garbled"} \cup Layouts
  BY DEF Wires, TimeTexts, Text, Null, Id
<1> QED BY <1>1, <1>2, <1>3 DEF Layouts

(* What a client or another program writes is of the kinds above.          *)
LEMMA OthersAreTyped == ASSUME type \in FieldTypes PROVE Texts \subseteq Wires /\ BSONValues \subseteq Stored
<1>1. CASE type = "StringObjectID"
  BY <1>1 DEF Texts, BSONValues, Wires, Stored
<1>2. CASE type # "StringObjectID"
  <2>1. Times \subseteq Int
    BY FieldCodecsAssumption DEF Times
  <2>2. ASSUME NEW ty \in TimeTypes, NEW t \in Times PROVE String(ty, t) \in TimeTexts
    BY <2>1, StringIsRead
  <2>3. ASSUME NEW t \in Times PROVE Text("rfc3339", t) \in TimeTexts
    BY <2>1 DEF TimeTexts
  <2>4. Null \in TimeTexts /\ [form |-> "empty"] \in TimeTexts /\ [form |-> "garbled"] \in TimeTexts
    BY DEF TimeTexts
  <2>5. Texts \subseteq TimeTexts
    BY <1>2, <2>2, <2>3, <2>4 DEF Texts
  <2>6. ASSUME NEW t \in Times PROVE [form |-> "native", at |-> t] \in Stored
    BY <1>2, <2>1 DEF Stored
  <2>7. [form |-> "int"] \in Stored /\ TimeTexts \subseteq Stored
    BY <1>2 DEF Stored
  <2> QED BY <1>2, <2>5, <2>6, <2>7 DEF BSONValues, Wires
<1> QED BY <1>1, <1>2

(* The codecs are those of the field's type, which never changes.          *)
LEMMA SameWays ==
  ASSUME type' = type
  PROVE  /\ \A v : MarshalBSONValue(v)' = MarshalBSONValue(v)
         /\ \A b : UnmarshalBSONValue(b)' = UnmarshalBSONValue(b)
         /\ \A w : UnmarshalJSON(w)' = UnmarshalJSON(w)
         /\ Values' = Values /\ Wires' = Wires /\ Stored' = Stored
  BY DEF MarshalBSONValue, UnmarshalBSONValue, UnmarshalJSON, Values, Wires, Stored

LEMMA InitEcho == Init => EchoInv
  BY OthersAreTyped DEF Init, EchoInv, Typed, FieldTypes, OwnIsStored, GoIsStored, WireIsStored

LEMMA StepEcho == EchoInv /\ [Next]_vars => EchoInv'
<1> SUFFICES ASSUME EchoInv, [Next]_vars PROVE EchoInv'
  OBVIOUS
<1>1. type' = type /\ type \in FieldTypes
  BY DEF EchoInv, Typed, Next, vars, Load, Store, Answer, Request, ClientEdits
<1>2. /\ \A v : MarshalBSONValue(v)' = MarshalBSONValue(v)
      /\ \A b : UnmarshalBSONValue(b)' = UnmarshalBSONValue(b)
      /\ \A w : UnmarshalJSON(w)' = UnmarshalJSON(w)
      /\ Values' = Values /\ Wires' = Wires /\ Stored' = Stored
  BY <1>1, SameWays
<1>3. ASSUME db' = db, own' = own PROVE K' = K
  BY <1>2, <1>3 DEF K
<1>4. CASE Load
  <2>1. UnmarshalBSONValue(db) \in Values \cup {Error}
    BY <1>1, ReadsValues DEF EchoInv, Typed
  <2>2. go' \in Values \cup {Nothing}
    BY <1>4, <2>1 DEF Load
  <2>3. Typed' /\ OwnIsStored'
    BY <1>1, <1>2, <1>4, <2>2 DEF EchoInv, Typed, OwnIsStored, Load
  <2>4. go' # Nothing => go' = UnmarshalBSONValue(db) /\ UnmarshalBSONValue(db) # Error
    BY <1>4 DEF Load
  <2>5. go' # Nothing => MarshalBSONValue(go') = K
    <3>1. CASE own
      <4>1. source \in Values /\ db = MarshalBSONValue(source)
        BY <3>1 DEF EchoInv, OwnIsStored
      <4> QED BY <1>1, <2>4, <3>1, <4>1, BSONTrip DEF K
    <3>2. CASE ~own
      BY <2>4, <3>2 DEF K
    <3> QED BY <3>1, <3>2
  <2>6. GoIsStored'
    BY <1>2, <1>3, <1>4, <2>5 DEF GoIsStored, Load
  <2>7. WireIsStored'
    BY <1>2, <1>3, <1>4 DEF EchoInv, WireIsStored, Load, Kept
  <2> QED BY <2>3, <2>6, <2>7 DEF EchoInv
<1>5. CASE Store
  <2>1. go \in Values /\ db' = MarshalBSONValue(go) /\ own' /\ source' = go
    BY <1>5 DEF EchoInv, Typed, Store
  <2>2. MarshalBSONValue(go) \in Stored
    BY <1>1, <2>1, BSONTrip
  <2>3. Typed' /\ OwnIsStored'
    BY <1>1, <1>2, <1>5, <2>1, <2>2 DEF EchoInv, Typed, OwnIsStored, Store
  <2>4. K' = MarshalBSONValue(go)
    BY <2>1 DEF K
  <2>5. GoIsStored'
    BY <1>2, <1>5, <2>4 DEF GoIsStored, Store
  <2>6. WireIsStored'
    <3>1. CASE "go" \in echo
      BY <1>2, <1>5, <2>4, <3>1 DEF EchoInv, GoIsStored, WireIsStored, Store
    <3>2. CASE "go" \notin echo
      BY <1>5, <3>2 DEF WireIsStored, Store
    <3> QED BY <3>1, <3>2
  <2> QED BY <2>3, <2>5, <2>6 DEF EchoInv
<1>6. CASE Answer
  <2>1. go \in Values /\ MarshalJSON(go) # Error /\ wire' = MarshalJSON(go)
    BY <1>6 DEF EchoInv, Typed, Answer
  <2>2. /\ wire' \in Wires
        /\ UnmarshalJSON(wire') = Error \/ MarshalBSONValue(UnmarshalJSON(wire')) = MarshalBSONValue(go)
    BY <1>1, <2>1, JSONTrip
  <2>3. wire' # Nothing
    BY <2>2, NothingIsApart
  <2>4. Typed' /\ OwnIsStored'
    BY <1>1, <1>2, <1>6, <2>2 DEF EchoInv, Typed, OwnIsStored, Answer
  <2>5. GoIsStored'
    BY <1>2, <1>3, <1>6 DEF EchoInv, GoIsStored, Answer, Kept
  <2>6. WireIsStored'
    <3>1. "wire" \in echo' => "go" \in echo
      BY <1>6 DEF Answer, Kept
    <3>2. "wire" \in echo' => MarshalBSONValue(go) = K
      BY <1>6, <3>1 DEF EchoInv, GoIsStored, Answer
    <3>3. K' = K
      BY <1>3, <1>6 DEF Answer
    <3> QED BY <1>2, <2>2, <2>3, <3>2, <3>3 DEF WireIsStored
  <2> QED BY <2>4, <2>5, <2>6 DEF EchoInv
<1>7. CASE Request
  <2>1. wire \in Wires /\ UnmarshalJSON(wire) \in Values \cup {Error}
    BY <1>1, <1>7, ReadsValues DEF EchoInv, Typed, Request
  <2>2. go' \in Values \cup {Nothing}
    BY <1>7, <2>1 DEF Request
  <2>3. Typed' /\ OwnIsStored'
    BY <1>1, <1>2, <1>7, <2>2 DEF EchoInv, Typed, OwnIsStored, Request
  <2>4. go' # Nothing => go' = UnmarshalJSON(wire) /\ UnmarshalJSON(wire) # Error
    BY <1>7 DEF Request
  <2>5. "go" \in echo' => "wire" \in echo
    BY <1>7 DEF Request, Kept
  <2>6. K' = K
    BY <1>3, <1>7 DEF Request
  <2>7. GoIsStored'
    BY <1>2, <2>4, <2>5, <2>6 DEF EchoInv, WireIsStored, GoIsStored
  <2>8. WireIsStored'
    BY <1>2, <1>7, <2>6 DEF EchoInv, WireIsStored, Request, Kept
  <2> QED BY <2>3, <2>7, <2>8 DEF EchoInv
<1>8. CASE ClientEdits
  <2>1. wire' \in Wires
    <3>1. Texts' = Texts
      BY <1>1 DEF Texts
    <3> QED BY <1>1, <1>8, <3>1, OthersAreTyped DEF ClientEdits
  <2>2. Typed' /\ OwnIsStored'
    BY <1>1, <1>2, <1>8, <2>1 DEF EchoInv, Typed, OwnIsStored, ClientEdits
  <2>3. GoIsStored' /\ WireIsStored'
    BY <1>2, <1>3, <1>8 DEF EchoInv, GoIsStored, WireIsStored, ClientEdits
  <2> QED BY <2>2, <2>3 DEF EchoInv
<1>9. CASE UNCHANGED vars
  BY <1>2, <1>3, <1>9 DEF vars, EchoInv, Typed, OwnIsStored, GoIsStored, WireIsStored
<1> QED BY <1>4, <1>5, <1>6, <1>7, <1>8, <1>9 DEF Next

LEMMA EchoHolds == Spec => []EchoInv
  BY InitEcho, StepEcho, PTL DEF Spec

-----------------------------------------------------------------------------
(* The service can load what it stored: a time whose year has four digits, *)
(* any time of day, an id in any case; what it loads is shown as it was.   *)
THEOREM StoredIsLoaded == Spec => []LoadsWhatItStored
<1>1. EchoInv => LoadsWhatItStored
  <2> SUFFICES ASSUME EchoInv, own PROVE LoadsWhatItStored
    BY DEF LoadsWhatItStored
  <2> DEFINE back == UnmarshalBSONValue(db)
  <2>1. type \in FieldTypes /\ source \in Values /\ db = MarshalBSONValue(source)
    BY DEF EchoInv, Typed, OwnIsStored
  <2>2. CASE type = "StringObjectID"
    <3>1. PICK s \in Ids : source = Id(s)
      BY <2>1, <2>2 DEF Values
    <3>2. db = MarshalId(s) /\ back = UnmarshalId(MarshalId(s)) /\ source.is = s
      BY <2>1, <2>2, <3>1, IdWays, IdFields
    <3>3. PICK r \in Ids : back = Id(r) /\ SameId(r, s) /\ MarshalId(r) = MarshalId(s)
      BY <3>2, IdTrip
    <3>4. back # Error /\ back.is = r
      BY <3>3, IdFields
    <3> QED BY <2>2, <3>2, <3>3, <3>4 DEF LoadsWhatItStored
  <2>3. CASE type \in TimeTypes
    <3>1. PICK t \in Int : source = Time(t) /\ source.at = t
      BY <2>1, <2>3, TimeFields DEF TimeTypes, Values, Instants
    <3>2. db = String(type, t)
      BY <2>1, <2>3, <3>1, TimeWays
    <3>3. back = ParseFlexibleTime(String(type, t))
      BY <2>3, <3>2, StringIsRead, TimeWays DEF DecodeTimeValue, Layouts
    <3>4. back = IF Legible(Shown(type, t)) THEN Time(Shown(type, t)) ELSE Error
      BY <2>3, <3>3, StringIsRead
    <3>5. back # Error <=> type = "TimeOnly" \/ Legible(Shown(type, t))
      BY <3>1, <3>4, ClockIsLegible, TimeFields
    <3>6. back # Error => Shown(type, back.at) = Shown(type, t)
      BY <2>3, <3>4, ShownTwice, TimeFields
    <3>7. t = ZeroTime => back.at = ZeroTime \/ type = "TimeOnly"
      BY <2>3, <3>4, ZeroIsShown, TimeFields
    <3>8. type # "StringObjectID"
      BY <2>3 DEF TimeTypes
    <3> QED BY <3>1, <3>5, <3>6, <3>7, <3>8 DEF LoadsWhatItStored
  <2> QED BY <2>1, <2>2, <2>3 DEF FieldTypes
<1> QED BY <1>1, EchoHolds, PTL

(* What the service stored stays as it is, however often it is loaded,     *)
(* shown to a client that sends it back, and stored again.                 *)
THEOREM EchoStays == Spec => EchoIsStable
<1>1. EchoInv /\ [Next]_vars => [own /\ Store /\ "go" \in echo => db' = db]_vars
  BY DEF EchoInv, GoIsStored, K, Store
<1> QED BY <1>1, EchoHolds, PTL DEF Spec, EchoIsStable
=============================================================================
