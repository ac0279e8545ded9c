SPECIFICATION WebFairSpec
CONSTANTS
  Download = {d1, d2}
  Client = {d1, d2}
  FileSize = 5
  BufSize = 2
  NoChunk = NoChunk
  Null = Null
  Host <- Hosts
  Lower <- LowerCase
  PortText = {443, 8443, 65536}
  MaxRedirects = 3
CHECK_DEADLOCK FALSE
INVARIANTS TypeOK AtMostOneChunk WaiterIsServed NoLostWakeup PagesStayCanonical RedirectEnds
PROPERTIES StreamsTheFile RegisteredDownloadEnds RoomUrlJoins LinkDeliversFile
