------------------------ MODULE MCSpecialProperties ------------------------
EXTENDS SpecialProperties

Left == {"left"}
Right == {"right"}
Both == Left \cup Right

MCPowerAreas == {Left, Right}
MCTempAreas == {Left, Right}
MCDualAreas == {Both}
MCFrames == {1, 2}
\* The distraction warning belongs to two features, as in the default map.
MCAssists == [CRUISE_CONTROL_ENABLED |->
                  {"CRUISE_CONTROL_TYPE", "CRUISE_CONTROL_STATE"},
              DRIVER_DISTRACTION_SYSTEM_ENABLED |-> {"DISTRACTION_WARNING"},
              DISTRACTION_WARNING_ENABLED |-> {"DISTRACTION_WARNING"},
              LANE_CENTERING_ASSIST_ENABLED |-> {"LANE_CENTERING_ASSIST_STATE"}]

Req(op, prop, area, value) == [op |-> op, prop |-> prop, area |-> area, value |-> value]
User(area, id, type) == [area |-> area, id |-> id, type |-> type]

Hvac == {Req("set", "HVAC_POWER_ON", Left, v) : v \in {0, 1}}
   \cup {Req("set", "HVAC_DUAL_ON", Both, 1),
         Req("set", "HVAC_TEMPERATURE_SET", Left, 1),
         Req("set", "HVAC_TEMPERATURE_SET", Right, 2)}
HvacDump == {Req("set", "HVAC_POWER_ON", Left, 0),
             Req("set", "HVAC_DUAL_ON", Both, 0),
             Req("get", "HVAC_TEMPERATURE_SET", Left, NoValue),
             Req("dumpSet", "HVAC_TEMPERATURE_SET", Left, 1),
             Req("inject", "HVAC_TEMPERATURE_SET", Left, 2)}
HvacBad == {Req("set", p, Left, Malformed) : p \in {"HVAC_POWER_ON", "HVAC_TEMPERATURE_SET"}}
      \cup {Req("set", "HVAC_DUAL_ON", Both, Malformed)}
Assist == {Req("set", e, Global, v) :
               e \in {"CRUISE_CONTROL_ENABLED", "DISTRACTION_WARNING_ENABLED"},
               v \in {0, 1}}
     \cup {Req("set", "CRUISE_CONTROL_COMMAND", Global, "TARGET_TIME_GAP"),
           Req("set", "CRUISE_CONTROL_TYPE", Global, STANDARD)}
Shared == {Req("set", e, Global, v) :
               e \in {"DRIVER_DISTRACTION_SYSTEM_ENABLED", "DISTRACTION_WARNING_ENABLED"},
               v \in {0, 1}}
Cruise == {Req("set", "CRUISE_CONTROL_TYPE", Global, STANDARD),
           Req("set", "LANE_CENTERING_ASSIST_COMMAND", Global, 1),
           Req("get", "CRUISE_CONTROL_TARGET_SPEED", Global, NoValue),
           Req("set", "ADAPTIVE_CRUISE_CONTROL_TARGET_TIME_GAP", Global, 1),
           Req("get", "ADAPTIVE_CRUISE_CONTROL_TARGET_TIME_GAP", Global, NoValue)}
Power == {Req("set", "AP_POWER_STATE_REPORT", Global, v) :
              v \in {"WAIT_FOR_VHAL", "SHUTDOWN_START", "ON"}}
    \cup {Req("set", "SHUTDOWN_REQUEST", Global, v) : v \in {1, Malformed}}
    \cup {Req("get", "AP_POWER_BOOTUP_REASON", Global, NoValue)}
Users == {Req("set", "CREATE_USER", Global, User(0, i, "UNKNOWN")) : i \in {1, 2}}
    \cup {Req("dumpSet", "CREATE_USER", Global, User(2, 5, "UNKNOWN"))}
UserKinds == {Req("set", "SWITCH_USER", Global, User(0, 1, "ANDROID_SWITCH")),
              Req("set", "SWITCH_USER", Global, User(0, 1, "ANDROID_POST_SWITCH")),
              Req("set", "SWITCH_USER", Global, User(0, 1, Malformed)),
              Req("dumpSet", "SWITCH_USER", Global, User(3, 5, "VEHICLE_RESPONSE")),
              Req("dumpSet", "SWITCH_USER", Global, User(4, 6, "VEHICLE_REQUEST")),
              Req("dumpSet", "INITIAL_USER_INFO", Global, User(3, 5, "UNKNOWN")),
              Req("set", "INITIAL_USER_INFO", Global, User(0, 2, "UNKNOWN")),
              Req("set", "REMOVE_USER", Global, User(0, 2, "UNKNOWN"))}
Associations == {Req(op, "USER_IDENTIFICATION_ASSOCIATION", Global, User(0, 1, "UNKNOWN")) :
                     op \in {"set", "get"}}
    \cup {Req("dumpSet", "USER_IDENTIFICATION_ASSOCIATION", Global, User(1, 5, "UNKNOWN"))}
Obd2 == {Req("set", "OBD2_FREEZE_FRAME_CLEAR", Global, v) : v \in {<<>>, <<2, 1>>, <<3>>}}
   \cup {Req("get", "OBD2_FREEZE_FRAME", Global, v) : v \in {1, Malformed}}
   \cup {Req("get", "OBD2_FREEZE_FRAME_INFO", Global, NoValue)}
Ordinary == {Req("set", "PLAIN", Global, v) : v \in {1, 2}}
   \cup {Req("get", "PLAIN", Global, NoValue), Req("inject", "PLAIN", Global, 3)}
Saved == {Req("set", "PLAIN", Global, 1), Req("get", "VENDOR_ERROR", Global, NoValue),
          Req("save", "PLAIN", Global, NoValue), Req("restore", "PLAIN", Global, NoValue),
          Req("dumpGet", "PLAIN", Global, NoValue), Req("set", "VENDOR_TEST", Global, 1)}

MCScenarios == {Hvac, HvacDump, HvacBad, Assist, Shared, Cruise, Power, Users, UserKinds,
                Associations, Obd2, Ordinary, Saved}
============================================================================
