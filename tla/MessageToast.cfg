\* Two cards, one dialog, two messages published.
CONSTANTS
  Holders = {h1, h2}
  Nobody = Nobody
  MaxNotes = 2
  MaxOthers = 0
SPECIFICATION MessagesSpec
PROPERTIES
  SaidRestored
CHECK_DEADLOCK FALSE
