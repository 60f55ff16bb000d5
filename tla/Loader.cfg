CONSTANTS
  Letters = {"l", "s"}
  MaxInput = 5
SPECIFICATION Spec
INVARIANTS CommandIsFirstWord AbortsAfterErrorOnly
PROPERTIES AllIsTaken
CHECK_DEADLOCK FALSE
