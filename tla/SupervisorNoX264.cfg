\* The delays of app_server.c in units of five seconds: 5 s is 1 and 60 s is 12;
\* four doublings pass the cap.
SPECIFICATION FairSpec
CONSTANTS
  Preference = "auto"
  HaveX264 = FALSE
  RetryDelay = 1
  RetryMax = 12
  FailCap = 5
PROPERTY Recovers
