\* RBUFLEN and THRESHOLD are 18 and 16 in the file; the run keeps their
\* difference.  Every character the other side has may be stored, so the program
\* ends waiting in ser_getc.
CONSTANTS
  XBUFLEN = 1
  RBUFLEN = 4
  THRESHOLD = 2
  PcFifo = 2
  Byte = 16
  MaxOut = 2
  MaxIn = 7
  MaxRts = 2
SPECIFICATION ReadingSpec
INVARIANTS
  StoppedInTime
PROPERTIES
  NoOverrunWithoutRace
  FifoKept
  LineRestarts
