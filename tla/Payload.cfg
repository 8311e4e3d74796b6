SPECIFICATION Spec
CONSTANTS Inputs <- SomeInputs
          MaxInt = 18
          MaxRows = 2
          MilliLimit = 12
          Milli = 2
INVARIANTS OrderFaithful DepthFaithful
CHECK_DEADLOCK FALSE
