SPECIFICATION Spec
CONSTANTS
    NumNodes = 3
    Proxies = {1}
    Revisions <- MCRevisions
    Strategy <- MCStrategy
    Manual <- MCManual
    Slots <- MCSlots
    MaxCommands = 1
    MaxFaults = 1
    None = None
PROPERTY UpToDateIsConverged
