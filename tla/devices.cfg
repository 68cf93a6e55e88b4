SPECIFICATION Spec
CONSTANTS
  PinValues = {0, 1}
  AnalogValues = {0, 2}
  Old = 7
  MaxRows = 1
INVARIANTS
  TypeOK
  StoresHitTheirRegister
  CallsDeliver
  
