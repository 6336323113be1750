--------------------------- MODULE Infrastructures ---------------------------
(***************************************************************************)
(* The points of the devices of the sceptre app                            *)
(* (apps/sceptre/configs/infrastructures.py): which fields a type of       *)
(* device has in an infrastructure, and the addresses their registers get. *)
(* The fields of a type are four sequences, one for each kind.             *)
(***************************************************************************)
EXTENDS Naturals, Sequences, SequencesExt

Kinds == <<"analog-read", "analog-read-write", "binary-read", "binary-read-write">>

(* Names with the suffix of each of the three phases.                      *)
Phases(names) == FlattenSeq([k \in DOMAIN names |->
                   <<names[k] \o "_p1", names[k] \o "_p2", names[k] \o "_p3">>])

Vectors(at) == Phases(<<"voltage_mag" \o at, "voltage_ang" \o at, "current_mag" \o at, "current_ang" \o at>>)

Powers(at) == Phases(<<"real_power" \o at, "reactive_power" \o at>>)

Active == <<"active">>

Read(fields) == <<fields, << >>, << >>, << >>>>

Switched(fields) == <<fields, << >>, Active, Active>>

(* An inverter of power-transmission is missing: create_device passes its  *)
(* infrastructure twice, a TypeError, as for a type it does not know.      *)
PowerTransmission ==
  [generator |-> Switched(<<"voltage", "mw", "mvar">>),
   bus       |-> <<<<"voltage", "angle", "gen_mw", "gen_mvar", "load_mw", "load_mvar", "shunt_mvar">>,
                   << >>, <<"active", "slack">>, Active>>,
   load      |-> Switched(<<"mw", "mvar">>),
   branch    |-> Switched(<<"charging", "current", "source_mw", "target_mw", "phase_angle">>),
   shunt     |-> Switched(<<"actual_mvar">>)]

TapSettings == <<"tap_setting_wdg1", "tap_setting_wdg2">>

PowerDistribution ==
  [generator   |-> <<Vectors("") \o <<"active_power_output">> \o Powers("") \o <<"power_factor">>,
                     <<"active_power_output", "power_factor">>, Active, Active>>,
   bus         |-> Read(Phases(<<"voltage_mag", "voltage_ang">>)),
   load        |-> Switched(Vectors("") \o Powers("")),
   shunt       |-> Switched(Vectors("") \o Powers("")),
   branch      |-> Switched(Vectors("_src") \o Powers("_src")),
   transformer |-> <<Vectors("_wdg1") \o Vectors("_wdg2") \o Powers("") \o TapSettings,
                     TapSettings, Active, Active>>,
   inverter    |-> <<Vectors("") \o <<"active_power_output">> \o Powers(""),
                     <<"1", "101", "123", "126">>, Active, Active>>]

Controls == <<"fill_control", "empty_control">>

BatchProcess ==
  [storagetank    |-> <<<<"level_setpoint", "flow_in", "flow_out", "tank_level", "tank_volume",
                          "temperature", "volume_to_drain">>,
                        <<"flow_in", "level_setpoint">>, Controls \o <<"emergency_shutoff">>, Controls>>,
   heatingtank    |-> <<<<"heating_rate", "level_setpoint", "flow_in", "flow_out", "temperature_setpoint",
                          "tank_level", "tank_volume", "temperature">>,
                        <<"heating_rate", "level_setpoint", "temperature_setpoint">>,
                        Controls \o <<"heater_control", "emergency_shutoff">>,
                        Controls \o <<"heater_control">>>>,
   mixingtank     |-> <<<<"requested_fill_rate", "mixing_rate", "requested_empty_rate", "level_setpoint",
                          "flow_in", "flow_out", "mix_percent_setpoint", "tank_level", "tank_volume",
                          "mix_percent", "temperature">>,
                        <<"mixing_rate", "level_setpoint", "mix_percent_setpoint">>,
                        Controls \o <<"mixing_control", "emergency_shutoff">>,
                        Controls \o <<"mixing_control">>>>,
   pump           |-> <<<<"flow", "temperature">>, <<"flow">>, <<"active", "control">>, <<"active", "control">>>>,
   generator      |-> Read(<<"fuel">>),
   fillingstation |-> Read(<<"request", "volume_wasted", "backlog">>),
   valve          |-> <<<< >>, << >>, <<"open">>, <<"open">>>>]

Hvac ==
  [room       |-> Read(<<"temperature">>),
   thermostat |-> <<<<"setpoint", "margin">>, <<"change_setpoint", "change_margin">>, << >>, << >>>>,
   fan        |-> <<<<"speed">>, <<"change_speed">>, << >>, << >>>>,
   heater     |-> <<<< >>, << >>, <<"on">>, <<"turn_on">>>>,
   cooler     |-> <<<< >>, << >>, <<"on">>, <<"turn_on">>>>]

Fuel ==
  [storagetank    |-> <<<<"level_setpoint", "flow_in", "tank_volume", "volume_to_drain">>,
                        <<"flow_in", "level_setpoint">>, <<"fill_control">>, <<"fill_control">>>>,
   pump           |-> <<<<"flow", "voltage_in">>, <<"flow", "voltage_in">>,
                        <<"active", "control">>, <<"active", "control">>>>,
   generator      |-> Read(<<"fuel">>),
   fillingstation |-> Read(<<"request", "volume_wasted", "backlog">>),
   valve          |-> <<<< >>, << >>, <<"open">>, <<"open">>>>]

Waterway ==
  [water |-> Read(<<"height">>),
   gate  |-> <<<<"open">>, <<"open">>, << >>, << >>>>,
   valve |-> <<<<"open">>, <<"open">>, << >>, << >>>>] @@
  ("boat-sensor" :> Read(<<"active", "direction">>)) @@
  ("boat" :> Read(<<"location", "direction">>))

Battery ==
  [bmsscrtu  |-> <<<<"istack", "vstack", "socstack">>, << >>, << >>, <<"disconnect">>>>,
   bmsse     |-> Read(<<"istack", "vstack", "socstack">>),
   battstack |-> Read(<<"istack", "vstack">>),
   cps       |-> Read(<<"pinj", "qinj", "vbess", "ibess">>)]

(* Infrastructures whose types are the kinds themselves.                   *)
OfKind(k, fields) == Kinds[k] :> [j \in 1..4 |-> IF j = k THEN fields ELSE << >>]

Opalrt == OfKind(1, <<"value">>) @@ OfKind(2, <<"value">>) @@ OfKind(3, <<"value">>) @@ OfKind(4, <<"value">>)

Rtds == OfKind(1, <<"real", "angle">>) @@ OfKind(2, <<"value">>) @@ OfKind(4, <<"closed">>)

Generic == OfKind(1, <<"value">>) @@ OfKind(2, <<"value">>) @@ OfKind(3, <<"status">>) @@ OfKind(4, <<"status">>)

(* get_fdconfig_class: an infrastructure that is not here is an AppError.  *)
Types ==
  ("power-transmission" :> PowerTransmission) @@ ("power-distribution" :> PowerDistribution) @@
  ("batch-process" :> BatchProcess) @@ ("hvac" :> Hvac) @@ ("fuel" :> Fuel) @@ ("rtds" :> Rtds) @@
  ("opalrt" :> Opalrt) @@ ("waterway" :> Waterway) @@ ("battery" :> Battery) @@ ("generic" :> Generic)

(* Every type has its four lists.                                          *)
ASSUME FieldsAreLists ==
  \A infra \in DOMAIN Types : \A type \in DOMAIN Types[infra] : \A k \in 1..4 :
    Types[infra][type][k] \in Seq(STRING)

-----------------------------------------------------------------------------
(* Registers are numbered in the order they are made, from counters of the *)
(* class: one for all registers of a protocol, but over Modbus one for     *)
(* each type of register.                                                  *)
ModbusTypes == <<"input-register", "holding-register", "discrete-input", "coil">>

PointTypes == <<"analog-input", "analog-output", "binary-input", "binary-output">>

RegType(proto, k) == IF proto = "modbus" THEN ModbusTypes[k] ELSE PointTypes[k]

InputTypes == {"analog-input", "binary-input", "input-register", "discrete-input"}

Counter(proto, regtype) == IF proto = "modbus" THEN regtype ELSE proto

FirstAddresses ==
  [c \in {"dnp3", "dnp3-serial", "bacnet", "iec60870-5-104"} \cup ToSet(ModbusTypes) |->
    CASE c = "iec60870-5-104" -> 1
      [] c = "discrete-input" -> 10000
      [] c = "input-register" -> 30000
      [] c = "holding-register" -> 40000
      [] OTHER -> 0]

(* The fields of a device over a protocol, kind by kind.  A SunSpec device *)
(* that is no inverter has none.                                           *)
DeviceFields(infra, device, proto) ==
  LET of(k) == LET fields == Types[infra][device.type][k]
               IN  [j \in DOMAIN fields |->
                     [dev |-> device.name, field |-> fields[j], kind |-> Kinds[k], proto |-> proto,
                      regtype |-> RegType(proto, k)]]
  IN  IF proto = "sunspec" THEN << >> ELSE of(1) \o of(2) \o of(3) \o of(4)

(* What Register.__init__ does: the register takes its address from its    *)
(* counter and moves it on.                                                *)
RegisterAt(f, addr) ==
  [dev |-> f.dev, field |-> f.field, kind |-> f.kind, proto |-> f.proto, regtype |-> f.regtype, addr |-> addr]

MakeRegister(acc, f) ==
  LET c == Counter(f.proto, f.regtype)
  IN  [regs |-> Append(acc.regs, RegisterAt(f, acc.addresses[c])),
       addresses |-> [acc.addresses EXCEPT ![c] = @ + 1]]

(* The registers of all fields; addresses are the counters before and, in  *)
(* the result, after.                                                      *)
Numbered(fields, addresses) == FoldLeft(MakeRegister, [regs |-> << >>, addresses |-> addresses], fields)

Binary(reg) == reg.kind \in {"binary-read", "binary-read-write"}

Tag(reg) == <<reg.dev, reg.field>>
=============================================================================
