CONSTANTS
  MaxLog = 2
  Sends = {k1, k2}
  Sids = {i1, i2}
  None = None
  Auths = {"user", "s2s"}
  MaxEntry = 5
SPECIFICATION FairSpec
INVARIANTS ResponseIsOfLastSend OpenedIsKept LogIsShown BusyIsSending
PROPERTIES SendEnds
