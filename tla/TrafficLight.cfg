SPECIFICATION Spec
CONSTANTS
  EAST = EAST
  WEST = WEST
  TH_EAST1 = TH_EAST1
  TH_EAST2 = TH_EAST2
  TH_EAST3 = TH_EAST3
  TH_WEST1 = TH_WEST1
  Threads = {TH_EAST1, TH_EAST2, TH_EAST3, TH_WEST1}
  Faces = {EAST, WEST}
  th_dirn <- Directions
  None = None
INVARIANTS WaitersCounted AtMostOneMissesGreen
PROPERTIES NextGreenWakes
