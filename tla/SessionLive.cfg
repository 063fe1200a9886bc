SPECIFICATION FairSpec
CONSTANTS
  Requests = {r1}
  MaxPipe = 2
  Installs = {"ready", "failed", "installing"}
  MaxDeaths = 1
  MaxHostFails = 1
  MaxRestarts = 1
  Scenes <- LiveScenes
  Stops = {"close", "shutdown", "crash"}
CHECK_DEADLOCK FALSE
PROPERTY SessionsSettle
