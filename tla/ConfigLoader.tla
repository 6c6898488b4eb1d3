---------------------------- MODULE ConfigLoader ----------------------------
(***************************************************************************)
(* How FakeVehicleHardware comes to its configuration, and what may change *)
(* of it afterwards: JsonConfigLoader parses the files of the default and  *)
(* of the override directory; init registers the properties, stores their  *)
(* initial values and their supported values; the dump commands change the *)
(* supported values and set properties; the VHAL checks what clients set   *)
(* against the configuration.                                              *)
(*                                                                         *)
(* A JSON value is a record of its kind and its content.  A string that    *)
(* names a constant, "Type::NAME", is of kind "const".  "int" is a number  *)
(* that fits 32 bits, "long" one that fits only 64, "real" is not a whole  *)
(* number.  Floats are counted in halves.                                  *)
(***************************************************************************)
EXTENDS Integers, Sequences, FiniteSets, SequencesExt, FiniteSetsExt

CONSTANTS Inputs,       \* what the program finds: directories, and how many
                        \* commands of each kind it is given
          Ranges, Lists, Lines, \* arguments of dump commands
          Values,       \* what clients set, and where
          Threads,      \* threads that run dump commands
          s2rS2dConfig, \* POWER_STATE_REQ_CONFIG_PROPERTY
          Int32Half,    \* an int32 is less than this, and not less than its negation
          None

Commands == {"listen", "minmax", "list", "set", "value"}

ASSUME WidthKnown == Int32Half \in Nat \ {0}

\* A directory is None if it cannot be opened, or a set of files.
ASSUME InputsKnown ==
    \A in \in Inputs :
        /\ DOMAIN in = {"default", "override", "useOverride", "left", "max"}
        /\ in.left \in [Commands -> Nat] /\ in.left = in.max

VARIABLES
    input,           \* directories, and how many commands are still to come
    phase,           \* where the constructor is
    files, loaded,   \* files still to be read, and those read, in order
    configsByPropId, \* what loadConfigDeclarations collects
    configs,         \* properties registered in mServerSidePropStore
    store,           \* their values, by <<propId, areaId>>
    hvacPowerDependentProps,
    mMin, mMax, mSupported, \* m...Supported...ByPropIdAreaId
    tuned,           \* ghost: keys whose range a dump command has set
    dumper,          \* per thread: the key whose change it is about to report
    callback,        \* mOnSupportedValueChangeCallback is there
    notified, seen,  \* the listener: what it has to read, and what it has read
    parsed           \* the last command line of a --set, and what became of it

loading == <<phase, files, loaded, configsByPropId>>
hardware == <<configs, store, hvacPowerDependentProps>>
supported == <<mMin, mMax, mSupported, tuned>>
listening == <<dumper, callback, notified, seen>>
vars == <<input, loading, hardware, supported, listening, parsed>>

----------------------------------------------------------------------------
(* Properties.  The ID of a real property carries its type and area type.  *)

HVAC_FAN_SPEED == 1    \* INT32, by seat
INFO_FUEL_CAPACITY == 2 \* FLOAT, global
AP_POWER_STATE_REQ == 3 \* INT32_VEC, global
OBD2_LIVE_FRAME == 4   \* MIXED, global, a diagnostic property
VENDOR_MIXED == 5      \* MIXED, global, in no table
HVAC_POWER_ON == 6     \* BOOLEAN, by seat

getPropType(p) ==
    CASE p = HVAC_FAN_SPEED -> "INT32" [] p = INFO_FUEL_CAPACITY -> "FLOAT"
      [] p = AP_POWER_STATE_REQ -> "INT32_VEC" [] p = HVAC_POWER_ON -> "BOOLEAN"
      [] OTHER -> "MIXED"
isGlobalProp(p) == p \notin {HVAC_FAN_SPEED, HVAC_POWER_ON}
isDiagnosticProperty(p) == p = OBD2_LIVE_FRAME

\* By the IDs of the five properties that are not the vendor's.
DefaultAccessForVehicleProperty ==
    [p \in (1 .. 6) \ {VENDOR_MIXED} |-> IF p \in {HVAC_FAN_SPEED, HVAC_POWER_ON} THEN 3 ELSE 1]
ChangeModeForVehicleProperty ==
    [p \in (1 .. 6) \ {VENDOR_MIXED} |-> IF p = INFO_FUEL_CAPACITY THEN 0 ELSE 1]

CONSTANTS_BY_NAME == [SEAT_1_LEFT |-> 1, SEAT_1_RIGHT |-> 4, HVAC_ALL |-> 117]

mConstantParsersByType ==
    [VehicleProperty |-> [HVAC_FAN_SPEED |-> HVAC_FAN_SPEED,
                          INFO_FUEL_CAPACITY |-> INFO_FUEL_CAPACITY,
                          AP_POWER_STATE_REQ |-> AP_POWER_STATE_REQ,
                          OBD2_LIVE_FRAME |-> OBD2_LIVE_FRAME,
                          HVAC_POWER_ON |-> HVAC_POWER_ON],
     VehiclePropertyAccess |-> [READ |-> 1, WRITE |-> 2, READ_WRITE |-> 3],
     VehiclePropertyChangeMode |-> [STATIC |-> 0, ON_CHANGE |-> 1],
     Constants |-> CONSTANTS_BY_NAME]

----------------------------------------------------------------------------
(* JsonValueParser.  A result that is not ok leaves the variable as it was. *)

Good(v) == [ok |-> TRUE, v |-> v]
Bad(old) == [ok |-> FALSE, v |-> old]
All(results) == [ok |-> \A i \in DOMAIN results : results[i].ok,
                 v |-> [i \in DOMAIN results |-> results[i].v]]
Or(result, old) == IF result.ok THEN result ELSE Bad(old)

\* isBool, isInt, isInt64, isDouble, isString
Accepted == [bool |-> {"bool"}, int32 |-> {"int"}, int64 |-> {"int", "long"},
             float |-> {"int", "long", "real"}, string |-> {"string", "const"}]

convertValueToType(T, j, old) ==
    IF j.k \notin Accepted[T] THEN Bad(old)
    ELSE Good(IF T = "float" /\ j.k # "real" THEN 2 * j.v ELSE j.v)

parseConstantValue(T, c, old) ==
    IF c[1] \in DOMAIN mConstantParsersByType
       /\ c[2] \in DOMAIN mConstantParsersByType[c[1]]
    THEN LET n == mConstantParsersByType[c[1]][c[2]]
         IN  Good(CASE T = "bool" -> n # 0 [] T = "float" -> 2 * n [] OTHER -> n)
    ELSE Bad(old)

parseValue(T, j, old) ==
    IF T = "string" \/ j.k \notin Accepted["string"] THEN convertValueToType(T, j, old)
    ELSE IF j.k = "const" THEN parseConstantValue(T, j.v, old)
    ELSE Bad(old)

parseArray(T, j, old) ==
    IF j.k # "array" THEN Bad(old)
    ELSE Or(All([i \in DOMAIN j.v |-> parseValue(T, j.v[i], 0)]), old)

----------------------------------------------------------------------------
(* JsonConfigParser.                                                       *)

isObject(n) == n.k = "object"
isMember(n, f) == f \in DOMAIN n.v
ElementOf == [int32s |-> "int32", int64s |-> "int64", floats |-> "float"]

parseField(n, f, T, old) ==
    IF ~isObject(n) THEN Bad(old)
    ELSE IF T \in DOMAIN ElementOf THEN parseArray(ElementOf[T], n.v[f], old)
    ELSE parseValue(T, n.v[f], old)

\* tryParseJsonValueToVariable and tryParseJsonArrayToVariable: the first of
\* the nodes that has the field decides.
tryParse(nodes, f, T, optional, old) ==
    LET with == {i \in DOMAIN nodes : ~isObject(nodes[i]) \/ isMember(nodes[i], f)}
    IN  IF with = {} THEN [ok |-> optional, v |-> old]
        ELSE parseField(nodes[Min(with)], f, T, old)

parseAccessChangeMode(n, f, default) ==
    IF ~isObject(n) THEN Bad(0)
    ELSE IF isMember(n, f) THEN parseValue("int32", n.v[f], 0)
    ELSE IF default = None THEN Bad(0)
    ELSE Good(default)

RawPropValues == [int32Values |-> <<>>, floatValues |-> <<>>, int64Values |-> <<>>,
                  stringValue |-> None, byteValues |-> <<>>]
ValueTypes == [int32Values |-> "int32s", floatValues |-> "floats",
               int64Values |-> "int64s", stringValue |-> "string"]

\* None if there is no such field.
parsePropValues(n, f) ==
    IF ~isMember(n, f) THEN Good(None)
    ELSE All([g \in DOMAIN RawPropValues |->
                 IF g \in DOMAIN ValueTypes
                 THEN tryParse(<<n.v[f]>>, g, ValueTypes[g], TRUE, RawPropValues[g])
                 ELSE Good(RawPropValues[g])])

\* Fields of an area that it may inherit from its property.
AreaFields ==
    [minInt32Value |-> [type |-> "int32", old |-> 0],
     maxInt32Value |-> [type |-> "int32", old |-> 0],
     minInt64Value |-> [type |-> "int64", old |-> 0],
     maxInt64Value |-> [type |-> "int64", old |-> 0],
     minFloatValue |-> [type |-> "float", old |-> 0],
     maxFloatValue |-> [type |-> "float", old |-> 0],
     supportVariableUpdateRate |-> [type |-> "bool", old |-> TRUE],
     supportedEnumValues |-> [type |-> "int64s", old |-> <<>>],
     supportedValues |-> [type |-> "floats", old |-> <<>>]]
InfoFields == {"hasMinSupportedValue", "hasMaxSupportedValue", "hasSupportedValuesList"}

parseAreaFields(a, p) ==
    All([f \in DOMAIN AreaFields |->
            tryParse(<<a, p>>, f, AreaFields[f].type, TRUE, AreaFields[f].old)])

\* Mutant: a flag that the area's info lacks comes from that of the property.
parseSupportedValueInfoByFlag(a, p) ==
    LET with == SelectSeq(<<a, p>>, LAMBDA n : isMember(n, "hasSupportedValueInfo"))
        infos == [i \in DOMAIN with |-> with[i].v["hasSupportedValueInfo"]]
    IN  IF infos = <<>> THEN Good(None)
        ELSE All([f \in InfoFields |-> tryParse(infos, f, "bool", TRUE, FALSE)])

\* hasSupportedValueInfo comes whole from the area or whole from the property.
parseSupportedValueInfo(a, p) ==
    LET from(n) == All([f \in InfoFields |->
                           tryParse(<<n.v["hasSupportedValueInfo"]>>, f, "bool", TRUE, FALSE)])
    IN  IF isMember(a, "hasSupportedValueInfo") THEN from(a)
        ELSE IF isMember(p, "hasSupportedValueInfo") THEN from(p)
        ELSE Good(None)

\* One element of "areas".
parseArea(a, p, access, initialValue) ==
    LET id == tryParse(<<a>>, "areaId", "int32", FALSE, 0)
        acc == parseAccessChangeMode(a, "access", access)
        fields == parseAreaFields(a, p)
        info == parseSupportedValueInfo(a, p)
        own == parsePropValues(a, "defaultValue")
    IN  IF ~id.ok THEN Bad(None)
        ELSE [ok |-> acc.ok /\ info.ok /\ own.ok /\ fields.ok,
              v |-> [areaId |-> id.v, access |-> acc.v,
                     fields |-> fields.v,
                     hasSupportedValueInfo |-> info.v,
                     initial |-> IF own.v # None THEN own.v
                                 ELSE IF initialValue # RawPropValues THEN initialValue
                                 ELSE None]]

\* An element without an areaId is an error, and so none of the areas counts.
parseAreas(p, access, initialValue) ==
    IF ~isMember(p, "areas") THEN Good(<<>>)
    ELSE IF p.v["areas"].k # "array" THEN Bad(<<>>)
    ELSE All([i \in DOMAIN p.v["areas"].v |->
                 parseArea(p.v["areas"].v[i], p, access, initialValue)])

\* Without areas there is one, with nothing inherited.
globalArea(access) ==
    [areaId |-> 0, access |-> access,
     fields |-> [f \in DOMAIN AreaFields |-> AreaFields[f].old],
     hasSupportedValueInfo |-> None, initial |-> None]

areaConfigsOf(areas, access) == IF areas = <<>> THEN <<globalArea(access)>> ELSE areas

parseEachProperty(p) ==
    LET id == tryParse(<<p>>, "property", "int32", FALSE, 0)
        default(table) == IF id.v \in DOMAIN table THEN table[id.v] ELSE None
        access == parseAccessChangeMode(p, "access", default(DefaultAccessForVehicleProperty))
        mode == parseAccessChangeMode(p, "changeMode", default(ChangeModeForVehicleProperty))
        configString == tryParse(<<p>>, "configString", "string", TRUE, "")
        configArray == tryParse(<<p>>, "configArray", "int32s", TRUE, <<>>)
        value == parsePropValues(p, "defaultValue")
        minRate == tryParse(<<p>>, "minSampleRate", "float", TRUE, 0)
        maxRate == tryParse(<<p>>, "maxSampleRate", "float", TRUE, 0)
        initialValue == IF value.v = None THEN RawPropValues ELSE value.v
        areas == parseAreas(p, access.v, initialValue)
    IN  IF ~id.ok THEN Bad(None)
        ELSE [ok |-> /\ access.ok /\ mode.ok /\ configString.ok /\ configArray.ok
                     /\ value.ok /\ minRate.ok /\ maxRate.ok /\ areas.ok,
              v |-> [prop |-> id.v, access |-> access.v, changeMode |-> mode.v,
                     configString |-> configString.v, configArray |-> configArray.v,
                     minSampleRate |-> minRate.v, maxSampleRate |-> maxRate.v,
                     initialValue |-> initialValue,
                     areaConfigs |-> areaConfigsOf(areas.v, access.v)]]

\* Whether all the results are good, and the declarations of those that are; the
\* last one of a property wins.
collect(results) ==
    LET good == {i \in DOMAIN results : results[i].ok}
    IN  [all |-> good = DOMAIN results,
         v |-> [id \in {results[i].v.prop : i \in good} |->
                   results[Max({i \in good : results[i].v.prop = id})].v]]

declarations(file) ==
    collect([i \in DOMAIN file.root.v["properties"].v |->
                parseEachProperty(file.root.v["properties"].v[i])])

\* static_cast of a float, in halves, to an integer
truncate(h) == IF h >= 0 THEN h \div 2 ELSE -((-h) \div 2)

asInt(j) == CASE j.k = "real" -> truncate(j.v)
              [] j.k = "bool" -> IF j.v THEN 1 ELSE 0
              [] OTHER -> j.v

\* asInt has no number for a string, an array or an object, and none that fits
\* for a "long": it throws, and nothing catches it.
throws(file) ==
    /\ file.valid /\ isObject(file.root) /\ isMember(file.root, "apiVersion")
    /\ file.root.v["apiVersion"].k \notin {"int", "real", "bool"}

\* COMPATIBLE_API_VERSIONS; 1 if there is none
compatible(root) == isMember(root, "apiVersion") => asInt(root.v["apiVersion"]) \in {1, 2}

readable(file) ==
    /\ file.valid /\ isObject(file.root) /\ ~throws(file) /\ compatible(file.root)
    /\ isMember(file.root, "properties") /\ file.root.v["properties"].k = "array"

\* Mutant: an error costs only the property that has it.
parseJsonConfigInParts(file) ==
    IF readable(file) THEN Good(declarations(file).v) ELSE Bad(<<>>)

\* One error is an error of the file.
parseJsonConfig(file) ==
    LET found == declarations(file)
    IN  IF readable(file) /\ found.all THEN Good(found.v) ELSE Bad(<<>>)

AllFiles == UNION (({in.default : in \in Inputs} \cup {in.override : in \in Inputs}) \ {None})
IsArray(s) == Len(s) \in Nat /\ s = [i \in 1 .. Len(s) |-> s[i]]
LimitFields == {"minInt32Value", "maxInt32Value", "minInt64Value", "maxInt64Value",
                "minFloatValue", "maxFloatValue"}

\* What the JSON library delivers: the elements of an array are counted, and a
\* number is a number.
ASSUME FilesKnown ==
    \A f \in AllFiles : readable(f) =>
        LET nodes == f.root.v["properties"].v
        IN  /\ IsArray(nodes)
            /\ \A i \in DOMAIN nodes :
                  /\ isObject(nodes[i]) /\ isMember(nodes[i], "areas")
                  /\ nodes[i].v["areas"].k = "array"
                  => IsArray(nodes[i].v["areas"].v)
            /\ \A i \in DOMAIN nodes : parseEachProperty(nodes[i]).ok =>
                  LET areas == parseEachProperty(nodes[i]).v.areaConfigs
                  IN  \A j \in DOMAIN areas : \A l \in LimitFields : areas[j].fields[l] \in Int

\* A property lists an area once, and one that is global has the area 0 only: all
\* the files in default_config/ keep to it, and no code checks it.
OnceIn(p, areas) ==
    IF isGlobalProp(p) THEN DOMAIN areas = {1} /\ areas[1].areaId = 0
    ELSE \A i, j \in DOMAIN areas : areas[i].areaId = areas[j].areaId => i = j
ASSUME AreasOnce ==
    \A f \in AllFiles : parseJsonConfig(f).ok =>
        \A p \in DOMAIN parseJsonConfig(f).v : OnceIn(p, parseJsonConfig(f).v[p].areaConfigs)

----------------------------------------------------------------------------
(* The constructor: loadConfigDeclarations and init.                       *)

Nothing == [x \in {} |-> None]

\* Insertion into a map: what is new replaces what is there.
Over(new, map) == [x \in DOMAIN new \cup DOMAIN map |->
                      IF x \in DOMAIN new THEN new[x] ELSE map[x]]
Put(x, v, map) == [y \in DOMAIN map \cup {x} |-> IF y = x THEN v ELSE map[y]]

Init ==
    /\ input \in Inputs
    /\ phase = "default" /\ files = input.default /\ loaded = <<>>
    /\ configsByPropId = Nothing
    /\ configs = Nothing /\ store = Nothing /\ hvacPowerDependentProps = {}
    /\ mMin = Nothing /\ mMax = Nothing /\ mSupported = Nothing /\ tuned = {}
    /\ dumper = [t \in Threads |-> None] /\ callback = FALSE
    /\ notified = {} /\ seen = Nothing /\ parsed = None

\* readdir gives the files in any order.  Only *.json are read, and one with
\* an error is passed over, unless reading it throws.
loadPropConfig(f) ==
    LET r == parseJsonConfig(f)
    IN  /\ phase \in {"default", "override"}
        /\ files # None /\ f \in files
        /\ files' = files \ {f}
        /\ loaded' = Append(loaded, f)
        /\ configsByPropId' = IF f.json /\ r.ok THEN Over(r.v, configsByPropId)
                              ELSE configsByPropId
        /\ phase' = IF f.json /\ throws(f) THEN "exited" ELSE phase
        /\ UNCHANGED <<input, hardware, supported, listening, parsed>>

\* The end of loadPropConfigsFromDir.  A directory that cannot be opened is
\* the end of the program if it is the default one.
loadConfigDeclarations ==
    /\ phase \in {"default", "override"}
    /\ files \in {{}, None}
    /\ phase' = IF phase = "default" /\ files = None THEN "exited"
                ELSE IF phase = "default" /\ input.useOverride THEN "override"
                ELSE "init"
    /\ files' = IF phase' = "override" THEN input.override ELSE {}
    /\ UNCHANGED <<input, loaded, configsByPropId, hardware, supported, listening,
                   parsed>>

\* What is written for one property.  initialAreaValues has the areas with an
\* initial value; only when it is empty that of the property is used.
storePropInitialValue(d) ==
    LET areas == IF isGlobalProp(d.prop) THEN {0}
                 ELSE {d.areaConfigs[i].areaId : i \in DOMAIN d.areaConfigs}
        with(a) == {i \in DOMAIN d.areaConfigs :
                       d.areaConfigs[i].areaId = a /\ d.areaConfigs[i].initial # None}
        none == \A i \in DOMAIN d.areaConfigs : d.areaConfigs[i].initial = None
    IN  IF none /\ d.initialValue = RawPropValues THEN Nothing
        ELSE [k \in {d.prop} \X {a \in areas : none \/ with(a) # {}} |->
                 IF none THEN d.initialValue
                 ELSE d.areaConfigs[Max(with(k[2]))].initial]

\* The fields that hold the limits of a type; none for the other types.
Limits(p) ==
    CASE getPropType(p) = "INT32" -> <<"minInt32Value", "maxInt32Value">>
      [] getPropType(p) = "INT64" -> <<"minInt64Value", "maxInt64Value">>
      [] getPropType(p) = "FLOAT" -> <<"minFloatValue", "maxFloatValue">>
      [] OTHER -> <<>>

\* static_cast of an int64 to an int32
toInt32(n) == ((n + Int32Half) % (2 * Int32Half)) - Int32Half

\* The list of "supportedValues", or else that of "supportedEnumValues".
supportedValuesList(d, area) ==
    LET given == {i \in DOMAIN d.areaConfigs :
                     /\ d.areaConfigs[i].areaId = area.areaId
                     /\ d.areaConfigs[i].fields.supportedValues # <<>>}
        floats == d.areaConfigs[Max(given)].fields.supportedValues
        whole == getPropType(d.prop) \in {"INT32", "INT64"}
    IN  IF given # {}
        THEN IF whole THEN [i \in DOMAIN floats |-> truncate(floats[i])] ELSE floats
        ELSE CASE getPropType(d.prop) = "INT32" ->
                    [i \in DOMAIN area.fields.supportedEnumValues |->
                        toInt32(area.fields.supportedEnumValues[i])]
               [] getPropType(d.prop) = "INT64" -> area.fields.supportedEnumValues
               [] OTHER -> <<>>

\* setMin/MaxSupportedValueLocked, and the list, for the areas that say they
\* have one.  Other types than INT32, INT64 and FLOAT have none.
supportedOf(d, which) ==
    LET flag == CASE which = "min" -> "hasMinSupportedValue"
                  [] which = "max" -> "hasMaxSupportedValue"
                  [] which = "list" -> "hasSupportedValuesList"
        value(a) == CASE which = "min" -> a.fields[Limits(d.prop)[1]]
                      [] which = "max" -> a.fields[Limits(d.prop)[2]]
                      [] which = "list" -> supportedValuesList(d, a)
        has(a) == /\ Limits(d.prop) # <<>>
                  /\ a.hasSupportedValueInfo # None
                  /\ a.hasSupportedValueInfo[flag]
                  /\ which = "list" => value(a) # <<>>
        areas == {i \in DOMAIN d.areaConfigs : has(d.areaConfigs[i])}
        of(a) == Max({i \in areas : d.areaConfigs[i].areaId = a})
    IN  [k \in {<<d.prop, d.areaConfigs[i].areaId>> : i \in areas} |->
            value(d.areaConfigs[of(k[2])])]

\* Maps of different properties, in one map.
Merge(maps) == [k \in UNION {DOMAIN map : map \in maps} |->
                   (CHOOSE map \in maps : k \in DOMAIN map)[k]]

\* The first element of an array that has none is written.
initFaults ==
    /\ AP_POWER_STATE_REQ \in DOMAIN configsByPropId
    /\ configsByPropId[AP_POWER_STATE_REQ].configArray = <<>>

initAborts ==
    /\ phase = "init" /\ initFaults
    /\ phase' = "exited"
    /\ UNCHANGED <<input, files, loaded, configsByPropId, hardware, supported, listening,
                   parsed>>

\* registerProperty and what follows, for every declaration.  The change
\* callback of the store is set afterwards, so nothing is reported.  The
\* freeze frame, another diagnostic property, is in SpecialProperties.
init ==
    LET ids == DOMAIN configsByPropId
        d(p) == configsByPropId[p]
        plain == {p \in ids : ~isDiagnosticProperty(p)}
        frames == {p \in ids : p = OBD2_LIVE_FRAME}
    IN  /\ phase = "init" /\ ~initFaults
        /\ phase' = "running"
        /\ configs' = [p \in ids |->
               IF p = AP_POWER_STATE_REQ
               THEN [d(p) EXCEPT !.configArray[1] = s2rS2dConfig] ELSE d(p)]
        /\ store' = Merge({storePropInitialValue(d(p)) : p \in plain}
                          \cup {Put(<<p, 0>>, "frame", Nothing) : p \in frames})
        /\ hvacPowerDependentProps' =
               UNION {ToSet(d(p).configArray) : p \in ids \cap {HVAC_POWER_ON}}
        /\ mMin' = Merge({supportedOf(d(p), "min") : p \in plain})
        /\ mMax' = Merge({supportedOf(d(p), "max") : p \in plain})
        /\ mSupported' = Merge({supportedOf(d(p), "list") : p \in plain})
        /\ UNCHANGED <<input, files, loaded, configsByPropId, tuned, listening, parsed>>

----------------------------------------------------------------------------
(* Arguments of dump commands.  A token is of kind "int", "long" or "real", *)
(* "names" (a set of names joined by "|"), "hex" (its digits) or "option";  *)
(* an option may be written in capitals.                                    *)

AreaNames == [ROW_1_LEFT |-> 1, ROW_1_RIGHT |-> 4]   \* of VehicleAreaSeat

parsePropId(tok) ==
    IF tok.k = "names"
    THEN IF \E n \in DOMAIN mConstantParsersByType.VehicleProperty : tok.v = {n}
         THEN Good(mConstantParsersByType.VehicleProperty[CHOOSE n \in tok.v : TRUE])
         ELSE Bad(0)
    ELSE convertValueToType("int32", tok, 0)

\* A number, or names of areas of the property's area type.
parseAreaId(tok, p) ==
    IF tok.k # "names" THEN convertValueToType("int32", tok, 0)
    ELSE IF isGlobalProp(p) \/ ~(tok.v \subseteq DOMAIN AreaNames) THEN Bad(0)
    ELSE Good(SumSet({AreaNames[n] : n \in tok.v}))

IsOption(tok, v) == tok.k = "option" /\ tok.v = v

\* <<command, property>> or <<command, property, "-a", area>>, and what is left
parseDumpOptionPropIdAreaId(o) ==
    LET p == parsePropId(o[2])
        given == IsOption(o[3], "-a")
        a == IF ~given THEN Good(0)
             ELSE IF Len(o) < 4 THEN Bad(0) ELSE parseAreaId(o[4], p.v)
    IN  [ok |-> p.ok /\ p.v \in DOMAIN configs /\ a.ok, key |-> <<p.v, a.v>>,
         rest |-> SubSeq(o, IF given THEN 5 ELSE 3, Len(o))]

TypeOfValue(p) == CASE getPropType(p) = "INT32" -> "int32" [] getPropType(p) = "INT64" -> "int64"
                    [] getPropType(p) = "FLOAT" -> "float" [] OTHER -> "none"

parseOptionValues(T, toks) ==
    All([i \in DOMAIN toks |-> convertValueToType(T, toks[i], 0)])

\* Even size, "0x" in front, two digits a byte.
parseHexString(digits) ==
    IF Len(digits) % 2 # 0 \/ \E i \in DOMAIN digits : digits[i] \notin 0 .. 15
    THEN Bad(<<>>)
    ELSE Good([i \in 1 .. Len(digits) \div 2 |-> 16 * digits[2 * i - 1] + digits[2 * i]])

SET_PROP_OPTIONS == {"-i", "-i64", "-f", "-s", "-b", "-a", "-t"}

\* What an option and its values do to the value that is put together.
optionEffect(out, opt, vals) ==
    LET numbers(T) == parseOptionValues(T, vals)
        single == Len(vals) = 1
        If(ok, new) == IF ok THEN new ELSE [out EXCEPT !.ok = FALSE]
    IN  CASE IsOption(opt, "-i") -> If(vals # <<>> /\ numbers("int32").ok,
                                       [out EXCEPT !.int32Values = numbers("int32").v])
          [] IsOption(opt, "-i64") -> If(vals # <<>> /\ numbers("int64").ok,
                                         [out EXCEPT !.int64Values = numbers("int64").v])
          [] IsOption(opt, "-f") -> If(vals # <<>> /\ numbers("float").ok,
                                       [out EXCEPT !.floatValues = numbers("float").v])
          [] IsOption(opt, "-s") -> If(single, [out EXCEPT !.stringValue = vals[1]])
          [] IsOption(opt, "-b") ->
                If(single /\ vals[1].k = "hex" /\ parseHexString(vals[1].v).ok,
                   [out EXCEPT !.byteValues = parseHexString(vals[1].v).v])
          [] IsOption(opt, "-a") -> If(single, [out EXCEPT !.area = vals[1]])
          [] IsOption(opt, "-t") -> If(single /\ numbers("int64").ok,
                                       [out EXCEPT !.timestamp = numbers("int64").v[1]])
          [] OTHER -> If(FALSE, out)


\* An option may not be given twice, in the same spelling.
applyOption(out, opt, vals) ==
    IF ~out.ok THEN out
    ELSE IF opt \in out.used THEN [out EXCEPT !.ok = FALSE]
    ELSE optionEffect([out EXCEPT !.used = @ \cup {opt}], opt, vals)

NoValue == [ok |-> TRUE, used |-> {}, prop |-> 0, area |-> None, areaId |-> 0,
            timestamp |-> 0, int32Values |-> <<>>, int64Values |-> <<>>,
            floatValues |-> <<>>, stringValue |-> None, byteValues |-> <<>>]

\* getOptionValues: the values of an option go on until the next token that is
\* an option in small letters.
EndsValues(tok) == tok.k = "option" /\ tok.v \in SET_PROP_OPTIONS /\ ~tok.capital

\* One token after the property: an option or one of the values of an option.
readToken(st, tok) ==
    IF st.opt = None THEN [st EXCEPT !.opt = tok]
    ELSE IF EndsValues(tok)
    THEN [out |-> applyOption(st.out, st.opt, st.vals), opt |-> tok, vals |-> <<>>]
    ELSE [st EXCEPT !.vals = Append(@, tok)]

lastOption(st) == IF st.opt = None THEN st.out ELSE applyOption(st.out, st.opt, st.vals)

\* The area is resolved last.
resolveArea(out) ==
    LET a == parseAreaId(out.area, out.prop)
    IN  IF ~out.ok THEN Bad(None)
        ELSE IF out.area = None THEN Good(out)
        ELSE [ok |-> a.ok, v |-> [out EXCEPT !.areaId = a.v]]

\* <<command, property, option, value, ..., option, value, ...>>
parsePropOptions(o) ==
    LET p == parsePropId(o[2])
        start == [out |-> [NoValue EXCEPT !.ok = p.ok, !.prop = p.v], opt |-> None,
                  vals |-> <<>>]
    IN  resolveArea(lastOption(FoldLeft(readToken, start, SubSeq(o, 3, Len(o)))))

----------------------------------------------------------------------------
(* Dump commands, run by several threads, and the listener they report to. *)

Allowed(op) == phase = "running" /\ input.left[op] > 0
Command(op) ==
    /\ Allowed(op)
    /\ input' = [input EXCEPT !.left[op] = @ - 1]

parseAndSetMinMaxValue(key, lo, hi) ==
    /\ mMin' = Put(key, lo, mMin)
    /\ mMax' = Put(key, hi, mMax)
    /\ tuned' = tuned \cup {key}

dumpSetMinMaxValue(t, o) ==
    LET i == parseDumpOptionPropIdAreaId(o)
        T == TypeOfValue(i.key[1])
        r == parseOptionValues(T, SubSeq(i.rest, 1, 2))
    IN  /\ dumper[t] = None
        /\ Command("minmax")
        /\ IF Len(o) >= 4 /\ i.ok /\ T # "none" /\ Len(i.rest) >= 2 /\ r.ok
              /\ r.v[1] <= r.v[2]
           THEN /\ parseAndSetMinMaxValue(i.key, r.v[1], r.v[2])
                /\ dumper' = [dumper EXCEPT ![t] = i.key]
           ELSE UNCHANGED <<mMin, mMax, tuned, dumper>>
        /\ UNCHANGED <<loading, hardware, mSupported, callback, notified, seen, parsed>>

dumpSetSupportedValues(t, o) ==
    LET i == parseDumpOptionPropIdAreaId(o)
        T == TypeOfValue(i.key[1])
        r == parseOptionValues(T, i.rest)
    IN  /\ dumper[t] = None
        /\ Command("list")
        /\ IF Len(o) >= 3 /\ i.ok /\ T # "none" /\ i.rest # <<>> /\ r.ok
           THEN /\ mSupported' = Put(i.key, r.v, mSupported)
                /\ dumper' = [dumper EXCEPT ![t] = i.key]
           ELSE UNCHANGED <<mSupported, dumper>>
        /\ UNCHANGED <<loading, hardware, mMin, mMax, tuned, callback, notified, seen,
                       parsed>>

Readings == {"range", "list"}

\* Mutant: only the first thread reports.
triggerOnce(t) ==
    /\ dumper[t] # None
    /\ dumper' = [x \in Threads |-> None]
    /\ notified' = IF callback THEN notified \cup {dumper[t]} \X Readings ELSE notified
    /\ UNCHANGED <<input, loading, hardware, supported, callback, seen, parsed>>

\* Outside the lock.  The listener has to read what is supported again.
triggerSupportedValueChange(t) ==
    /\ dumper[t] # None
    /\ dumper' = [dumper EXCEPT ![t] = None]
    /\ notified' = IF callback THEN notified \cup {dumper[t]} \X Readings ELSE notified
    /\ UNCHANGED <<input, loading, hardware, supported, callback, seen, parsed>>

AreaKeys == UNION {{p} \X {configs[p].areaConfigs[i].areaId :
                              i \in DOMAIN configs[p].areaConfigs} : p \in DOMAIN configs}

\* Once registered the listener reads everything.
registerSupportedValueChangeCallback ==
    /\ Command("listen") /\ ~callback
    /\ callback' = TRUE
    /\ notified' = AreaKeys \X Readings
    /\ UNCHANGED <<loading, hardware, supported, dumper, seen, parsed>>

At(f, k) == IF k \in DOMAIN f THEN f[k] ELSE None

\* Neither of the two: INVALID_ARG.
getMinMaxSupportedValues(k) == <<At(mMin, k), At(mMax, k)>>
getSupportedValuesLists(k) == At(mSupported, k)
Reading(n) == IF n[2] = "range" THEN getMinMaxSupportedValues(n[1])
              ELSE getSupportedValuesLists(n[1])

read(n) ==
    /\ n \in notified
    /\ notified' = notified \ {n}
    /\ seen' = Put(n, Reading(n), seen)
    /\ UNCHANGED <<input, loading, hardware, supported, dumper, callback, parsed>>

----------------------------------------------------------------------------
(* Values that are set.                                                    *)

getAreaConfig(k) ==
    LET areas == configs[k[1]].areaConfigs
        own == {i \in DOMAIN areas : areas[i].areaId = k[2]}
    IN  IF isGlobalProp(k[1]) THEN areas[1]
        ELSE IF own = {} THEN None ELSE areas[Min(own)]

\* Where the store keeps a value.
recordId(k) == IF isGlobalProp(k[1]) THEN <<k[1], 0>> ELSE k

\* The outcomes of a check whether the value has as many parts as configArray
\* says.  It reads nine elements; what is behind a shorter array is undefined.
checkVendorMixedPropValue(v, config) ==
    LET c == config.configArray
        one(i) == IF c[i] = 1 THEN 1 ELSE 0
    IN  IF Len(c) < 9 THEN BOOLEAN
        ELSE {/\ Len(v.int32Values) = one(2) + one(3) + c[4]
              /\ Len(v.int64Values) = one(5) + c[6]
              /\ Len(v.floatValues) = one(7) + c[8]
              /\ c[9] # 0 => Len(v.byteValues) = c[9]}

checkPropValue(p, v) ==
    CASE getPropType(p) \in {"BOOLEAN", "INT32"} -> {Len(v.int32Values) = 1}
      [] getPropType(p) = "INT32_VEC" -> {Len(v.int32Values) >= 1}
      [] getPropType(p) = "FLOAT" -> {Len(v.floatValues) = 1}
      [] p = VENDOR_MIXED -> checkVendorMixedPropValue(v, configs[p])
      [] OTHER -> {TRUE}

\* Limits that are both 0 are no limits.
checkValueRange(k, v) ==
    LET p == k[1]
        area == getAreaConfig(k)
        within(vals, min, max) == \/ area.fields[min] = 0 /\ area.fields[max] = 0
                                  \/ \A i \in DOMAIN vals : /\ vals[i] >= area.fields[min]
                                                            /\ vals[i] <= area.fields[max]
    IN  CASE area = None -> TRUE
          [] getPropType(p) \in {"INT32", "INT32_VEC"} ->
                within(v.int32Values, "minInt32Value", "maxInt32Value")
          [] getPropType(p) = "FLOAT" ->
                within(v.floatValues, "minFloatValue", "maxFloatValue")
          [] OTHER -> TRUE

hasWriteAccess(k) ==
    configs[k[1]].access \in {2, 3} \/ (getAreaConfig(k) # None /\ getAreaConfig(k).access \in {2, 3})

\* Properties without special treatment; SpecialProperties has the others.
Ordinary(p) == p \notin {HVAC_POWER_ON, AP_POWER_STATE_REQ, OBD2_LIVE_FRAME}
                        \cup hvacPowerDependentProps

\* A client sets a value: the checks of DefaultVehicleHal, then the store.
setValue(k, v) ==
    /\ Command("value") /\ Ordinary(k[1])
    /\ IF k[1] \in DOMAIN configs /\ (isGlobalProp(k[1]) \/ getAreaConfig(k) # None)
       THEN \E fits \in checkPropValue(k[1], v) :
              store' = IF fits /\ checkValueRange(k, v) /\ hasWriteAccess(k)
                       THEN Put(recordId(k), v, store) ELSE store
       ELSE UNCHANGED store
    /\ UNCHANGED <<loading, configs, hvacPowerDependentProps, supported, listening, parsed>>

\* What is understood is written, with no check but those of the store.
writeParsed(r) ==
    LET k == <<r.v.prop, r.v.areaId>>
        value == [f \in DOMAIN RawPropValues |-> r.v[f]]
    IN  /\ r.ok => Ordinary(r.v.prop)
        /\ IF /\ r.ok /\ r.v.prop \in DOMAIN configs
              /\ isGlobalProp(r.v.prop) \/ getAreaConfig(k) # None
           THEN store' = Put(recordId(k), value, store)
           ELSE UNCHANGED store

\* --set
dumpSetProperties(o) ==
    LET r == parsePropOptions(o)
    IN  /\ Command("set")
        /\ Len(o) >= 3
        /\ parsed' = [options |-> o, result |-> r]
        /\ writeParsed(r)
        /\ UNCHANGED <<loading, configs, hvacPowerDependentProps, supported, listening>>

----------------------------------------------------------------------------
Next ==
    \/ files # None /\ \E f \in files : loadPropConfig(f)
    \/ loadConfigDeclarations
    \/ init
    \/ initAborts
    \/ \E t \in Threads :
          \/ Allowed("minmax") /\ \E o \in Ranges : dumpSetMinMaxValue(t, o)
          \/ Allowed("list") /\ \E o \in Lists : dumpSetSupportedValues(t, o)
          \/ triggerSupportedValueChange(t)
    \/ registerSupportedValueChangeCallback
    \/ \E n \in notified : read(n)
    \/ Allowed("set") /\ \E o \in Lines : dumpSetProperties(o)
    \/ Allowed("value") /\ \E x \in Values : setValue(x.key, x.value)

Spec == Init /\ [][Next]_vars

----------------------------------------------------------------------------

\* The constructor has returned, and no command was given yet.
Fresh == phase = "running" /\ input.left = input.max

Has(result, p) == result.ok /\ p \in DOMAIN result.v
Defines(f, p) == f.json /\ Has(parseJsonConfig(f), p)

\* The declaration of a property comes whole from the file that was read last
\* among those that declare it and are free of errors; the override directory
\* is read after the default one.  A file with one bad property, or of another
\* API version, contributes nothing.
LastGoodFileWins ==
    phase # "running" \/ Fresh => \A p \in DOMAIN configsByPropId :
        LET from == {i \in DOMAIN loaded :
                       /\ loaded[i].json /\ readable(loaded[i])
                       /\ declarations(loaded[i]).all
                       /\ p \in DOMAIN declarations(loaded[i]).v}
        IN  /\ from # {}
            /\ configsByPropId[p] = declarations(loaded[Max(from)]).v[p]
            /\ input.useOverride /\ phase = "running" /\ input.override # None
               /\ (\E i \in from : loaded[i] \in input.override)
               => loaded[Max(from)] \in input.override

\* The node of a property, as the file has it.
IdOf(n) == tryParse(<<n>>, "property", "int32", FALSE, 0).v
LastNode(nodes, p) == nodes[Max({j \in DOMAIN nodes : IdOf(nodes[j]) = p})]
NodeOf(p) ==
    LET last == Max({i \in DOMAIN loaded : Defines(loaded[i], p)})
    IN  LastNode(loaded[last].root.v["properties"].v, p)

\* The entries of its areas.
AreaNodesOf(node) == IF isMember(node, "areas") THEN node.v["areas"].v ELSE <<>>

\* A limit as a node gives it, in digits or by a name; None if it does not.
Member(n, f) ==
    LET c == n.v[f].v
        number(x) == IF f \in {"minFloatValue", "maxFloatValue"} THEN 2 * x ELSE x
    IN  IF ~isMember(n, f) THEN None
        ELSE CASE n.v[f].k = "const" -> number(mConstantParsersByType[c[1]][c[2]])
               [] n.v[f].k = "real" -> c
               [] OTHER -> number(c)

\* The limit of an area: its own, otherwise that of its property, otherwise 0.
LimitOf(a, p, f) ==
    IF Member(a, f) # None THEN Member(a, f)
    ELSE IF Member(p, f) # None THEN Member(p, f) ELSE 0

\* Every area has the limits its own entry gives, otherwise those of its
\* property: an entry that is there, 0 included, is never inherited over.
InheritsFrom(node, p) ==
    LET areas == AreaNodesOf(node)
    IN  \A i \in DOMAIN areas : \A f \in LimitFields :
          configs[p].areaConfigs[i].fields[f] = LimitOf(areas[i], node, f)
AreaInherits ==
    Fresh => \A p \in DOMAIN configs : \A node \in {NodeOf(p)} : InheritsFrom(node, p)

\* After init an area has a value exactly if its entry or its property gives a
\* default; that of its entry comes first, even an empty one.
DefaultOf(n) == IF isMember(n, "defaultValue") THEN parsePropValues(n, "defaultValue").v ELSE None
ValuesFollow(node, p) ==
    LET areas == AreaNodesOf(node)
        inherited == IF DefaultOf(node) = RawPropValues THEN None ELSE DefaultOf(node)
    IN  IF areas = <<>> THEN At(store, <<p, 0>>) = inherited
        ELSE \A i \in DOMAIN areas :
               At(store, <<p, configs[p].areaConfigs[i].areaId>>) =
                   IF DefaultOf(areas[i]) # None THEN DefaultOf(areas[i]) ELSE inherited
InitialValuesFollowConfig ==
    Fresh => \A p \in (DOMAIN configs) \ {OBD2_LIVE_FRAME} :
                \A node \in {NodeOf(p)} : ValuesFollow(node, p)

\* Declarations, limits and initial values are those of the files that count.
DeclarationsFollowFiles ==
    LastGoodFileWins /\ AreaInherits /\ InitialValuesFollowConfig

\* Whether a node says so, by a truth value or by a name.
Truth(n, f) ==
    LET c == n.v[f].v
    IN  IF ~isMember(n, f) THEN FALSE
        ELSE IF n.v[f].k = "const" THEN mConstantParsersByType[c[1]][c[2]] # 0
        ELSE c

\* A flag of an area: that of its own hasSupportedValueInfo, otherwise that of
\* its property's.  The two are not put together.
FlagOf(a, p, flag) ==
    LET info(n) == n.v["hasSupportedValueInfo"]
    IN  IF isMember(a, "hasSupportedValueInfo") THEN Truth(info(a), flag)
        ELSE isMember(p, "hasSupportedValueInfo") /\ Truth(info(p), flag)
EndOf(a, p, flag, f) == IF FlagOf(a, p, flag) THEN LimitOf(a, p, f) ELSE None

\* The range an area of p has by its entry and its property's node.
RangeOf(node, p, i) ==
    LET areas == AreaNodesOf(node)
        l == Limits(p)
    IN  IF areas = <<>> \/ l = <<>> THEN <<None, None>>
        ELSE <<EndOf(areas[i], node, "hasMinSupportedValue", l[1]),
               EndOf(areas[i], node, "hasMaxSupportedValue", l[2])>>

\* As long as no dump command has set its range, an area reports a minimum and
\* a maximum each exactly if the file has the flag for it, with the limit the
\* file gives for it; and nothing is reported but for areas.
ReportsFollow ==
    phase = "running" =>
        /\ (DOMAIN mMin \cup DOMAIN mMax) \ tuned \subseteq AreaKeys
        /\ \A p \in {q \in DOMAIN configs : ~isDiagnosticProperty(q)} :
              \A node \in {NodeOf(p)} : \A i \in DOMAIN configs[p].areaConfigs :
                 LET k == <<p, configs[p].areaConfigs[i].areaId>>
                 IN  k \notin tuned => getMinMaxSupportedValues(k) = RangeOf(node, p, i)

\* A range that commands have set has both ends, and they are of one command.
TunedIsOneRange ==
    \A k \in tuned : k \in DOMAIN mMin \cap DOMAIN mMax /\ mMin[k] <= mMax[k]

\* The range that is reported is that of the files or that of one command.
RangesFollowFiles == ReportsFollow /\ TunedIsOneRange

Value(p, n) == IF getPropType(p) = "FLOAT" THEN [RawPropValues EXCEPT !.floatValues = <<n>>]
               ELSE [RawPropValues EXCEPT !.int32Values = <<n>>]

\* A client may set what is reported as supported: every value that is not
\* outside the ends that are reported now passes the checks of DefaultVehicleHal.
\* The code does not keep this: it checks the limits of the files, both or none.
ReportedIsSettable ==
    \A k \in AreaKeys \cap (DOMAIN mMin \cup DOMAIN mMax) :
        LET ends == {At(mMin, k), At(mMax, k)} \ {None}
        IN  \A n \in UNION {{e - 1, e, e + 1} : e \in ends} :
               /\ k \in DOMAIN mMin => n >= mMin[k]
               /\ k \in DOMAIN mMax => n <= mMax[k]
               => /\ checkPropValue(k[1], Value(k[1], n)) = {TRUE}
                  /\ checkValueRange(k, Value(k[1], n))

\* The listener has read what is supported now, or is going to: a change is
\* never missed, whatever the order in which threads change and report.
ListenerCatchesUp ==
    \A n \in DOMAIN seen :
        \/ seen[n] = Reading(n)
        \/ n \in notified
        \/ \E t \in Threads : dumper[t] = n[1]

\* Where the options of a line are.
OptionPlaces(o) == IF Len(o) < 3 THEN {} ELSE {3} \cup {i \in 4 .. Len(o) : EndsValues(o[i])}

\* No option is given in two spellings.
OneSpelling(o) ==
    \A i, j \in OptionPlaces(o) :
        o[i].k = "option" /\ o[j].k = "option" /\ o[i].v = o[j].v => o[i] = o[j]


\* A line that is accepted has every option once, whatever its spelling.  The code
\* does not keep this: parsedOptions regards case, the lookups do not.
DuplicatesRefused ==
    parsed # None /\ parsed.result.ok =>
        \A i, j \in OptionPlaces(parsed.options) :
            parsed.options[i].v = parsed.options[j].v => i = j
=============================================================================
