SPECIFICATION Spec
CONSTANTS
  Bases <- MCBases
  RenderSettings <- AllSettings
  EPSILON = 2
INVARIANTS
  PictureFillsTheFrame
  PictureShowsTheCatalogue
  RenderingIsDefined
CHECK_DEADLOCK FALSE
