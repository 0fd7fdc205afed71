CONSTANTS
    ServerIds <- MCServerIds
    SettableLevels <- MCSettableLevels
    MaxUsers = 2
    BaseFillUserCount = 2
    None = None
    Crash = Crash
SPECIFICATION Spec
INVARIANTS
    TypeOK
    UniqueServerIds
    AllocChoiceUnique
PROPERTIES
    ImplementsAbstractBalancer
