SPECIFICATION Spec
CONSTANTS
  red = red
  blue = blue
  tint1 = tint1
  rims1 = rims1
  wheel1 = wheel1
  mask1 = mask1
  textA = textA
  textB = textB
  mesh1 = mesh1
  a1 = a1
  Colours = {red, blue}
  Paintjobs = {0, 1, 2}
  Found = {0, 1}
  Recognised = {0, 1}
  Tints = {tint1}
  OpaqueTints = {}
  WheelColours = {rims1}
  Wheels = {wheel1}
  ModelWheel = wheel1
  Extras = {mask1}
  Texts = {textA, textB}
  Meshes = {mesh1}
  None = None
  Original = Original
  Addresses = {a1}
  SameFrame = FALSE
  Flicker = FALSE
  MaxTasks = 1
  MaxSettings = 3
  SanAndreas = SanAndreas
  NoTint = NoTint
  White = White
  Marker = Marker
  Disabled = Disabled
INVARIANTS  PlateInOrder
PROPERTIES CheckSettles
