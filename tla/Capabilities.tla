---------------------------- MODULE Capabilities ----------------------------
(***************************************************************************)
(* What a device can do and the values that go with it: the checks of      *)
(* DeviceModel (services/devicecontrol/src/models/device_model.ts).        *)
(*                                                                         *)
(* A capability is a record with the fields the device declared; labelled  *)
(* stands for its label and metric, which must both be there.  A value is  *)
(* a record with one field, named after its type in JavaScript.            *)
(***************************************************************************)
EXTENDS Integers, Sequences

CapabilityTypes == {"BINARY", "RANGE", "GAUGE", "ENUM", "COLOR"}

Number(n) == [number |-> n]
Text(s) == [string |-> s]
Switch(b) == [boolean |-> b]

IsNumber(x) == DOMAIN x = {"number"}
IsText(x) == DOMAIN x = {"string"}
IsSwitch(x) == DOMAIN x = {"boolean"}

\* The strings of the models that are hexadecimal colours.
HexColours == {"#000000", "#fff"}

Declares(c, field) == field \in DOMAIN c

\* One round of verifyCapabilities.
VerifyCapability(c) ==
  /\ c.labelled
  /\ c.type \in CapabilityTypes
  /\ c.type = "RANGE" =>
       /\ Declares(c, "min") /\ Declares(c, "max") /\ c.min < c.max
       /\ Declares(c, "step") => c.step > 0
  /\ c.type = "ENUM" => Declares(c, "enumValues")

\* createCurrentStateMap throws on an ENUM without a first value, which
\* verifyCapabilities has let pass.
Startable(c) ==
  c.type = "ENUM" => c.enumValues # <<>> /\ c.enumValues[1] # ""

\* What create demands of the capabilities of a new device.
Acceptable(caps) ==
  \A k \in DOMAIN caps : VerifyCapability(caps[k]) /\ Startable(caps[k])

\* Plausible fault: a RANGE starts at 0 whatever its bounds.
StartAtZero(c) ==
  CASE c.type = "BINARY" -> Switch(FALSE)
    [] c.type \in {"RANGE", "GAUGE"} -> Number(0)
    [] c.type = "ENUM"   -> Text(c.enumValues[1])
    [] c.type = "COLOR"  -> Text("#000000")

InitialValue(c) ==
  CASE c.type = "BINARY" -> Switch(FALSE)
    [] c.type = "RANGE"  -> Number(c.min)
    [] c.type = "GAUGE"  -> Number(0)
    [] c.type = "ENUM"   -> Text(c.enumValues[1])
    [] c.type = "COLOR"  -> Text("#000000")

CreateCurrentState(caps) == [k \in DOMAIN caps |-> InitialValue(caps[k])]

\* verifyCapabilityValue, asked about capabilities that were verified.
VerifyCapabilityValue(c, x) ==
  CASE c.type = "BINARY" -> IsSwitch(x)
    [] c.type = "RANGE"  -> IsNumber(x) /\ c.min <= x.number /\ x.number <= c.max
    [] c.type = "GAUGE"  -> IsNumber(x)
    [] c.type = "ENUM"   -> IsText(x) /\ \E i \in DOMAIN c.enumValues : c.enumValues[i] = x.string
    [] c.type = "COLOR"  -> IsText(x) /\ x.string \in HexColours

=============================================================================
