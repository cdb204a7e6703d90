\* Two threads pushing (csvWeatherThread and csvStatusThread share csvQueue's
\* subscriber) and two popping.
CONSTANTS
  Pushers   = {p1, p2}
  Poppers   = {c1, c2}
  Elements  = {a, b}
  MaxLength = 3
  None      = None
SPECIFICATION Spec
INVARIANTS TypeOK NoStrandedElement
PROPERTY ImplementsChannel
