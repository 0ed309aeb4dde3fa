CONSTANTS
  None = None
  Local = Local
  Process = {p, q}
  Address = {a}
  Name = {x}
  DefaultKind = "SSL"
  SupportDowngrade = TRUE
  MaxSockets = 3
  MaxMessages = 2
  MaxLinks = 2
  MaxAccepts = 2
SPECIFICATION FairSpec
INVARIANTS MapsAgree OneSender LinksAgree
PROPERTY LossIsKnown
CHECK_DEADLOCK FALSE
