\* A rename from the templates page leaves the other lists with the old name.
CONSTANTS
  Titles = {y1, y2}
  FirstTitle = y1
  MaxRenames = 2
SPECIFICATION MenuSpec
INVARIANT NamesShown
CHECK_DEADLOCK FALSE
