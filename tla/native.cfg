SPECIFICATION Spec
CONSTANTS
  Words = {"word"}
  Dashed = {"-Xmx"}
  Commands <- MCCommands
  Configs <- MCConfigs
  Bootstraps <- MCBootstraps
  UserArgs <- MCUserArgs
INVARIANTS TypeOK NoForkLoop
CHECK_DEADLOCK FALSE
