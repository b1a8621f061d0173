CONSTANTS
  Keys <- TwoKeys
  MaxCalls = 1
  MaxArgs = 1
  MaxMalformed = 1
  MaxEvents = 4
  MaxStreams = 2
SPECIFICATION Spec
INVARIANTS TypeOK AccountedAtStop OneTerminalEvent ReservationHonest ResourcesReturned StopReasonTruthful
