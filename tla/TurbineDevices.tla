--------------------------- MODULE TurbineDevices ---------------------------
(***************************************************************************)
(* The ot-sim devices of one wind turbine, as the wind_turbine plugin of   *)
(* the scale app and the standalone wind-turbine app both configure them:  *)
(* a main controller that is the Modbus client of a signal converter (the  *)
(* anemometer), a yaw controller and the blades, and serves what it knows  *)
(* over DNP3.  A configuration is a record of the device's type, the       *)
(* sections of its XML and whether it is a HELICS federate.  Columns are   *)
(* the tags of the weather data, in order.                                 *)
(***************************************************************************)
EXTENDS OtRegisters

Register(type, tag) == [type |-> type, tag |-> tag]

AnemometerRegisters(columns) ==
  [k \in DOMAIN columns |-> Register("analog-read", columns[k])]

YawRegisters == <<Register("analog-read", "yaw.current"), Register("analog-read-write", "yaw.setpoint")>>

BladeRegisters == <<Register("binary-read-write", "feathered")>>

OutstationRegisters(columns) ==
  <<Register("binary-read-write", "turbine.emergency-stop"), Register("analog-read-write", "yaw.dir-error"),
    Register("analog-read", "yaw.current"), Register("analog-read", "yaw.setpoint"),
    Register("analog-read", "turbine.mw-output"), Register("binary-read", "feathered")>>
  \o AnemometerRegisters(columns)

Server(at, regs) == <<Section("server", "modbus", at, regs)>>

Client(at, regs) == Section("client", "modbus", at, regs)

(* Where the main controller listens, and where it finds its devices.      *)
MainSections(at, anemo, yaw, blades, columns) ==
  <<Client(anemo, AnemometerRegisters(columns)), Client(yaw, YawRegisters)>>
  \o [k \in DOMAIN blades |-> Client(blades[k], BladeRegisters)]
  \o <<Section("server", "dnp3", at, OutstationRegisters(columns))>>

MainController(at, anemo, yaw, blades, columns, federate) ==
  [type |-> "main-controller", federate |-> federate, sections |-> MainSections(at, anemo, yaw, blades, columns)]

Device(type, sections) == [type |-> type, federate |-> FALSE, sections |-> sections]

(* The plugin leaves an anemometer without data to replay as it is.        *)
Anemometer(at, columns, replay) ==
  Device("signal-converter", IF replay THEN Server(at, AnemometerRegisters(columns)) ELSE << >>)

YawController(at) == Device("yaw-controller", Server(at, YawRegisters))

BladeController(at) == Device("blade", Server(at, BladeRegisters))
=============================================================================
