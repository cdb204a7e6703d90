\* Windows of up to four values: equal, negative and distant ones; directions all
\* around the compass and close to north.
CONSTANTS
  Values    <- SomeValues
  Directions = {0, 10, 90, 180, 200, 300, 350}
  MaxCount   = 4
  Scale      = 12
SPECIFICATION FieldSpec
INVARIANTS MeanOfWindow SquaresOfWindow ExtremesOfWindow SteadyWind
