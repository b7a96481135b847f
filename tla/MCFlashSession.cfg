SPECIFICATION Spec
CONSTANTS
  Flashes = {f1, f2}
  Nothing = none
INVARIANTS TypeOK OneWriterAtATime DoneMeansWritten BusyWhileWritten ParkedIsReachable
PROPERTY NothingStaysBusy
CONSTRAINT Uncrowded
