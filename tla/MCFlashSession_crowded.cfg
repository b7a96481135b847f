SPECIFICATION Spec
CONSTANTS
  Flashes = {f1, f2}
  Nothing = none
INVARIANT OneWriter
\* or INVARIANT ParkedHasAButton, or PROPERTY PresencePollKeepsOff
