SPECIFICATION FairSpec
CONSTANTS
    NumNodes = 3
    Proxies = {1, 2}
    Revisions <- MCRevisions
    Strategy <- MCStrategy
    Manual <- MCManual
    Slots <- MCSlots
    MaxCommands = 2
    MaxFaults = 2
    None = None
INVARIANTS TypeOK OneUnscopedContainer
PROPERTIES SwitchIsServed LiveContainersStay RolloutConverges
