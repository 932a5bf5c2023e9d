SPECIFICATION QemuSpec
CONSTANTS
  MaxCommands = 1
  MaxFaults = 0
  MaxRestarts = 1
INVARIANTS
  AliveIsSeen
CHECK_DEADLOCK FALSE
