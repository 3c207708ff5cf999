SPECIFICATION Spec
CONSTANTS
  One = 4
  Far = 2048
  Scenes <- MCScenes
  Longest = 5
  Junk = {0, 6}
INVARIANTS Inv Saturates
PROPERTIES InsideWindow SinglePainted OneFace ListsEnd
