SPECIFICATION Spec
CONSTANTS
  Requests = {r1}
  MaxPipe = 2
  Installs = {"ready"}
  MaxDeaths = 2
  MaxHostFails = 1
  MaxRestarts = 1
  Scenes <- SafeScenes
  Stops = {"close", "shutdown", "crash"}
CHECK_DEADLOCK FALSE
PROPERTY SessionsAgree
