CONSTANTS
  MaxWaypoints = 2
  MinPoints = 2
  MaxPoints = 2
  MaxPolygons = 2
  MaxUploads = 2
SPECIFICATION Spec
INVARIANTS ReadyIsWhole PolygonsAreWhole DrivenRouteStands
