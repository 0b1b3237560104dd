SPECIFICATION Spec
CONSTANTS
  Threads = {t1, t2}
  MaxThrows = 1
INVARIANTS
  TypeOK
  SetUpSucceeds
  SetUpWorks
  SoleCreator
PROPERTIES
  CallsReturn
  ImplementsSharedIO
