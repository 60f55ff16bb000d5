CONSTANTS
  Typed = {"x"}
  Shown = {"y"}
  Width = 4
  MaxLen = 3
  MaxOut = 1
  MaxLines = 2
  MaxEntered = 1
SPECIFICATION Spec
INVARIANTS PromptTypeOK CursorInLine ScreenShowsLine TerminalIsRestored
PROPERTIES HistoryIsKept TextBehindCursorIsKept
CHECK_DEADLOCK FALSE
