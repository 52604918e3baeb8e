SPECIFICATION KeyboardSpec
CONSTANTS
  Keys <- MCKeys
  Fingers = 3
  Backlog = 2
INVARIANTS
  ModifiersTrack
  NoneForgotten
PROPERTIES
  PublishedAsTyped
