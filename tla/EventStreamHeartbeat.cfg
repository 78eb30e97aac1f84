SPECIFICATION Spec
CONSTANTS
  MaxEvents = 2
  MaxBuffered = 3
PROPERTY TerminalDelivered
