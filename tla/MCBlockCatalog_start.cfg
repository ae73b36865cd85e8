\* Three blocks, whatever their reflection reports.
SPECIFICATION Spec
CONSTANTS
    plugin = plugin  shared = shared  unlisted = unlisted
    s1 = s1  s2 = s2
    Plugin = {plugin}  Shared = {shared}  Unlisted = {unlisted}
    Block = {1, 2, 3}
    NoType = NoType
    Scheduler = {s1, s2}  Alias = {s1}
CONSTANT Provides <- MCProvides
CONSTANT Length <- MCLength
CONSTANT Descriptor <- MCDescriptor
CHECK_DEADLOCK FALSE
INVARIANTS
    ListingIgnoresOrder
    CatalogHoldsSoundReports
    ServesAfterASoundStart
    RuntimeFailsForPassedOver
PROPERTY
    StartupEnds
