CONSTANTS
  s1 = s1  s2 = s2
  None = None
  Subs = {s1, s2}
  MaxListeners = 1
  MaxMail = 1
  MaxValidity = 2
  MaxFaults = 1
  CanBackfill = TRUE
  CanCrash = FALSE
  Interval = FALSE
SPECIFICATION FairSpec
CHECK_DEADLOCK FALSE
PROPERTIES
  MailArrives
  GoroutinesEnd
