CONSTANTS
  Threads = {t1, t2}
  Tabs = {p}
  PerPage = 2
  MaxNodes = 2
  MaxMessages = 4
  MaxDecisions = 3
  MaxRows = 5
  MaxEvents = 1
  MaxActivity = 4
SPECIFICATION PagesSpec
SYMMETRY Symmetry
INVARIANTS ShownOnce LacksAreExplained HiddenStaysOff WalkMissesNothing AuditTellsVisibility
  WalkIsAccounted OldestTransfersExact
