SPECIFICATION FairSpec
CONSTANTS
  Client = {c1, c2}
  Usb = Usb
  NULL = NULL
  Ops = {"get", "bulk"}
  DetachedReq = "queued"
  Prompt = TRUE
  PcTimeouts = TRUE
  MaxPull = 2
INVARIANTS Framed Paired
PROPERTIES Connects CallEnds
