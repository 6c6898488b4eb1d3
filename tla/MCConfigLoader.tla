--------------------------- MODULE MCConfigLoader ---------------------------
EXTENDS ConfigLoader, TLC

Int_(n) == [k |-> "int", v |-> n]
Real(h) == [k |-> "real", v |-> h]
Bool(b) == [k |-> "bool", v |-> b]
Long(n) == [k |-> "long", v |-> n]
Text(s) == [k |-> "string", v |-> s]
Const(t, n) == [k |-> "const", v |-> <<t, n>>]
Array(s) == [k |-> "array", v |-> s]
Object(m) == [k |-> "object", v |-> m]

\* A member that is there only in some of the nodes.
Maybe(f, values) == {Nothing} \cup {f :> v : v \in values}
Nodes(m, ms) == {Object(m @@ x) : x \in ms}
With(A, B) == {a @@ b : a \in A, b \in B}

Ints(s) == Object([int32Values |-> Array(s)])
Info(b, c) == Object([hasMinSupportedValue |-> Bool(b), hasMaxSupportedValue |-> Bool(TRUE),
                      hasSupportedValuesList |-> Bool(c)])
File(ps) == [json |-> TRUE, valid |-> TRUE,
             root |-> Object([apiVersion |-> Int_(2), properties |-> Array(ps)])]

FanSpeed == "property" :> Const("VehicleProperty", "HVAC_FAN_SPEED")
Left == "areaId" :> Const("Constants", "SEAT_1_LEFT")
Right == "areaId" :> Int_(4)

\* Areas that say something themselves, under a property that does or does not.
AreaNodes ==
    Nodes(Left, With(Maybe("minInt32Value", {Int_(0), Int_(1), Text("x")}),
                With(Maybe("defaultValue", {Ints(<<Int_(1)>>), Object(Nothing)}),
                     Maybe("hasSupportedValueInfo", {Info(TRUE, TRUE), Object(Nothing)}))))
PropertyMembers ==
    With(Maybe("minInt32Value", {Int_(2)}),
    With(Maybe("maxInt32Value", {Int_(3)}),
    With(Maybe("defaultValue", {Ints(<<Int_(2)>>)}),
         Maybe("hasSupportedValueInfo", {Info(FALSE, FALSE), Info(TRUE, TRUE)}))))
AreaFiles == {File(<<Object(FanSpeed @@ p @@ ("supportedValues" :> Array(<<Real(3), Int_(3)>>))
                            @@ ("areas" :> Array(<<a, Object(Right)>>)))>>) :
                 p \in PropertyMembers, a \in AreaNodes}

\* Properties without areas, and errors.
Fuel(m) == Object(m @@ ("property" :> Const("VehicleProperty", "INFO_FUEL_CAPACITY")))
FuelMembers == ("property" :> Const("VehicleProperty", "INFO_FUEL_CAPACITY"))
               @@ ("maxFloatValue" :> Const("Constants", "SEAT_1_RIGHT"))
               @@ ("areas" :> Array(<<Object("areaId" :> Int_(0))>>))
PlainNodes ==
    {Fuel(Nothing), Fuel("defaultValue" :> Object([floatValues |-> Array(<<Int_(7)>>)])),
     Fuel("minFloatValue" :> Int_(1)), Fuel("access" :> Const("VehiclePropertyAccess", "READ_WRITE")),
     Fuel("access" :> Const("VehiclePropertyAccess", "SOME")), Fuel("areas" :> Int_(0)),
     Fuel("areas" :> Array(<<Int_(0)>>)), Fuel("areas" :> Array(<<Object(Nothing)>>)),
     Fuel("configString" :> Int_(1)), Fuel("defaultValue" :> Int_(1)),
     Object("property" :> Int_(VENDOR_MIXED)), Int_(3), Object(Nothing)}
    \cup Nodes(FuelMembers, With(Maybe("minFloatValue", {Int_(1), Real(1)}),
                                Maybe("hasSupportedValueInfo", {Info(FALSE, FALSE), Info(TRUE, TRUE)})))
Vendor(n) == Object([property |-> Int_(VENDOR_MIXED), access |-> Int_(3), changeMode |-> Int_(1),
                     configArray |-> Array([i \in 1 .. n |-> Int_(1)])])
Special == <<Object([property |-> Const("VehicleProperty", "AP_POWER_STATE_REQ"),
                     configArray |-> Array(<<Int_(0)>>)]),
             Object([property |-> Const("VehicleProperty", "OBD2_LIVE_FRAME"),
                     configArray |-> Array(<<Int_(0), Int_(0)>>)]),
             Object([property |-> Const("VehicleProperty", "HVAC_POWER_ON"),
                     configArray |-> Array(<<Int_(99)>>),
                     areas |-> Array(<<Object(Left)>>)])>>

\* The same properties in two directories, some of the files with an error.
Fan(n) == Object(FanSpeed @@ ("defaultValue" :> Ints(<<Int_(n)>>))
                 @@ ("minInt32Value" :> Int_(1)) @@ ("maxInt32Value" :> Int_(n))
                 @@ ("hasSupportedValueInfo" :> Info(TRUE, TRUE))
                 @@ ("supportedEnumValues" :> Array(<<Int_(n), Long(Int32Half + 1)>>))
                 @@ ("areas" :> Array(<<Object(Left), Object(Right)>>)))
OddFiles == {[File(<<Fan(7)>>) EXCEPT !.json = FALSE],
             [File(<<Fan(7)>>) EXCEPT !.valid = FALSE],
             [File(<<Fan(7)>>) EXCEPT !.root.v["apiVersion"] = Int_(3)],
             [File(<<Fan(7)>>) EXCEPT !.root.v["apiVersion"] = Text("2")],
             [File(<<Fan(7)>>) EXCEPT !.root.v["apiVersion"] = Real(3)],
             [File(<<Fan(7)>>) EXCEPT !.root = Int_(1)],
             [File(<<Fan(7)>>) EXCEPT !.root = Object(Nothing)],
             [File(<<Fan(7)>>) EXCEPT !.root = Object("properties" :> Array(<<Fan(7)>>))]}

Input(default, override, use, left) ==
    LET max == [op \in Commands |-> IF op \in DOMAIN left THEN left[op] ELSE 0]
    IN  [default |-> default, override |-> override, useOverride |-> use, left |-> max,
         max |-> max]

Tok(n) == Int_(n)
Names(s) == [k |-> "names", v |-> s]
Option(o) == [k |-> "option", v |-> o, capital |-> FALSE]
Capital(o) == [k |-> "option", v |-> o, capital |-> TRUE]
Cmd(prop, rest) == <<Names({"command"}), prop>> \o rest
Speed == Names({"HVAC_FAN_SPEED"})
AreaOpt == <<Option("-a"), Names({"ROW_1_LEFT"})>>

MCRanges == {Cmd(Speed, AreaOpt \o <<Tok(2), Tok(5)>>), Cmd(Speed, AreaOpt \o <<Tok(8), Tok(9)>>),
           Cmd(Speed, AreaOpt \o <<Tok(5), Tok(2)>>), Cmd(Speed, <<Tok(1), Tok(2)>>),
           Cmd(Speed, <<Option("-a"), Tok(4), Tok(5)>>)}
MCLists == {Cmd(Speed, AreaOpt \o <<Tok(2), Tok(3)>>), Cmd(Speed, AreaOpt),
          Cmd(Names({"HVAC_POWER_ON"}), <<Tok(2)>>)}

LineTokens == {Option("-i"), Capital("-i"), Option("-a"), Names({"ROW_1_LEFT", "ROW_1_RIGHT"}),
               Tok(1), Tok(4)}
SmallOptions == {Option(f) : f \in SET_PROP_OPTIONS}
OptionTokens == SmallOptions \cup {Capital(f) : f \in SET_PROP_OPTIONS}
ValueTokens == {Tok(4), Long(Int32Half), Real(3), [k |-> "hex", v |-> <<10, 1>>]}
MCLines == {Cmd(Speed, s) : s \in UNION {[1 .. n -> LineTokens] : n \in 1 .. 4}}
         \cup {Cmd(Names({"INFO_FUEL_CAPACITY"}), <<Option("-f"), Real(3)>>),
               Cmd(Tok(INFO_FUEL_CAPACITY), <<Option("-i64"), Tok(3), Option("-t"), Tok(5)>>),
               Cmd(Names({"NO_NAME"}), <<Option("-i"), Tok(3)>>),
               Cmd(Speed, <<Option("-s"), Names({"a"})>>),
               Cmd(Speed, <<Option("-b"), [k |-> "hex", v |-> <<1, 2>>]>>),
               Cmd(Speed, <<Option("-b"), [k |-> "hex", v |-> <<1, 2, 3>>]>>),
               Cmd(Speed, <<Option("-x"), Tok(3)>>)}
         \cup {Cmd(Speed, <<a, x, b, y>>) : a \in OptionTokens, x \in ValueTokens,
                                        b \in SmallOptions, y \in {Tok(4), Real(3)}}
         \cup {Cmd(Speed, <<a, x, y>>) : a \in OptionTokens, x, y \in ValueTokens}

MCValues == {[key |-> <<p, a>>, value |-> [RawPropValues EXCEPT !.int32Values = s]] :
              p \in {HVAC_FAN_SPEED, VENDOR_MIXED, 9}, a \in {0, 1},
              s \in {<<>>, <<1>>, <<9>>, <<1, 1, 1>>}}

MCInputs ==
    {Input({f}, None, FALSE, Nothing) : f \in AreaFiles}
    \cup {Input({File(<<x, Fan(3)>>), File(<<Fan(4)>>)}, {}, FALSE, Nothing) : x \in PlainNodes}
    \cup {Input({File(<<Fan(3), Fan(4)>>), x}, {File(<<Fan(5)>>), x}, use, Nothing) :
             x \in OddFiles, use \in BOOLEAN}
    \cup {Input(None, {File(<<Fan(3)>>)}, TRUE, Nothing),
          Input({File(<<Fan(3)>>)}, None, TRUE, Nothing),
          Input({File(Special)}, None, FALSE, Nothing),
          Input({File(<<Object("property" :> Const("VehicleProperty", "AP_POWER_STATE_REQ"))>>)},
                None, FALSE, Nothing)}
    \cup {Input({File(<<Fan(3)>>)}, None, FALSE, [minmax |-> 2, list |-> 1, listen |-> 1]),
          Input({File(<<Fan(3), Special[3]>>)}, None, FALSE,
                [minmax |-> 1, list |-> 1, listen |-> 1]),
          Input({File(<<Fan(3), Fuel(Nothing)>>)}, None, FALSE, [set |-> 1]),
          Input({File(<<Fan(3), Vendor(9)>>)}, None, FALSE, [value |-> 2]),
          Input({File(<<Vendor(3)>>)}, None, FALSE, [value |-> 1])}
=============================================================================
