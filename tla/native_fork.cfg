SPECIFICATION Spec
CONSTANTS
  Words = {"word"}
  Dashed = {"-Xmx"}
  Commands <- MCCommands
  Configs <- MCConfigs
  Bootstraps <- MCBootstraps
  UserArgs <- MCUserArgs
INVARIANT ForkAccepted
CHECK_DEADLOCK FALSE
