\* An epic with one ticket, two turns of tool calls and two faults.
SPECIFICATION TicketFairSpec
CONSTANTS
  Epic = epic
  Tickets = {ticket}
  MaxTurns = 2
  MaxFaults = 2
INVARIANTS
  TicketTypeOK
  ReplyNamesRows
PROPERTIES
  NoUnreportedRows
  AcceptIsWorkedOff
CHECK_DEADLOCK FALSE
