CONSTANTS
    Models = {1, 2, 3}
    ShownAs <- Twin
    Strategies = {"balanced", "speed"}
    Weights = {2}
    Sizes = {9, 18}
    Windows = {10}
    Default = 20
    MaxSwitches = 1
    MaxChanges = 2
    KeepFactor = 1
    KeepSlack = 1
SPECIFICATION AutoSpec
INVARIANTS
    NoStarvation
    OutgrownIsAvoided
