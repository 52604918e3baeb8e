SPECIFICATION Spec
CONSTANTS
  term_width = 5
  term_height = 2
  SHELL_INPUT_BUF_SIZE = 4
  SHELL_HISTORY_MAX = 2
  Glyphs = {"a", "b", "$", " "}
  Letters = {"a", "b"}
  Outputs <- MCOutputs
  MaxLines = 3
INVARIANTS
  CursorAtInsertion
