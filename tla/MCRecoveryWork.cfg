SPECIFICATION WorkSpec
CONSTANTS
  c1 = c1
  c2 = c2
  t1 = t1
  Sessions = {c1, c2, t1}
  Interface <- MCInterface
  MaxTicket = 3
  InitialCounters <- MCInitialCounters
SYMMETRY Symmetry
INVARIANTS
  TornOnlyByWriter
  SessionsStayApart
PROPERTIES
  
  TicketsMonotonic
CHECK_DEADLOCK FALSE
