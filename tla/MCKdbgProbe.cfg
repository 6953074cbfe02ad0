\* Five CPUs hitting the probe (every subset of them in the handler at
\* once), three insmods, with the fairness of the handler returns and of
\* rmmod.
CONSTANTS
  CPUs = {c1, c2, c3, c4, c5}
  MaxLoads = 3
SPECIFICATION FairSpec
\* After the last rmmod nothing more happens.
CHECK_DEADLOCK FALSE
INVARIANTS
  ArmedIffLive
  HandlerCodeLoaded
PROPERTY
  ExitCompletes
