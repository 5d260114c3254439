SPECIFICATION ConsoleSpec
CONSTANTS
  Cols = 3
  Rows = 2
  Pitch = 4
  Chars = {"a", "b", "nl", "tab", "del", "esc", "blank", "?", "*", "#", "$", ">", ":", "m", "o"}
  Letters = {"a", "b"}
  Prompt <- MCPrompt
  Message <- MCMessage
  Outputs <- MCOutputs
  LineMax = 4
  FieldMax = 2
  MaxSteps = 2
INVARIANTS ScreenIsCurrent LineShown
