SPECIFICATION MCSpec
\* Every project may be removed and every edit made: nothing has to follow.
CHECK_DEADLOCK FALSE
CONSTANTS
  Roles = {"plan", "review"}
  Fields = {"enabled", "skills", "runtime"}
  RolePatches <- MCRolePatches
  LoopFields = {"parallel"}
  Numbers = {0, 1}
  MaxParallel = 2
  Scribbles <- MCScribbles
  Width = 8
  Word = Word
  None = None
  Paths = {"ws", "ws/a"}
  Under <- MCUnder
  Global = "global"
  Shipped <- MCShipped
  Seen <- MCSeen
  Starts <- MCStarts
  Themes = {"system", "dark"}
  Faults = {"add", "commit"}
  Order <- MCOrder
  Forms <- MCForms
  Required = {"git"}
  Replaced = {"iterm2"}
  Machines <- MCMachines
  MaxChanges = 1
  MaxStrays = 1
  MaxLooks = 2
  MaxRestarts = 1
INVARIANTS RegistryIsSound TheUsersWordHolds TellsOfTheMachine
PROPERTIES ShapeHolds UsersFilesKept NewestReachesTheScreen
