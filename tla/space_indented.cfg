CONSTANTS
  MaxLines = 3
  Sources <- Files
SPECIFICATION Spec
INVARIANT SpacesAreTabs
CHECK_DEADLOCK FALSE
