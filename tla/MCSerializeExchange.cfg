\* Room for three of four kinds.
CONSTANTS
  Kinds        = {temperature, humidity, pressure, altitude}
  Values       = {v1, v2}
  ElementCount = 3
  NoKind       = NoKind
  Missing      = Missing
SPECIFICATION ExchangeSpec
INVARIANT ReceivedAsSent
PROPERTY ImplementsElementMap
