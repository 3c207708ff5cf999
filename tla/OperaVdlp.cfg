SPECIFICATION Spec
CONSTANTS
  Vdl <- MCVdl
  Heads = {0, 8, 24}
  Renderers <- MCRenderers
  Scanlines = 6
  StartLine = 1
  FirstVisible = 2
  EndVisible = 5
  Pixels <- MCPixels
INVARIANTS Inv BitmapRow FormatsAgree
