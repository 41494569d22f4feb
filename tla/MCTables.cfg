SPECIFICATION Spec
PROPERTIES
    BlocksShowTheirEntries
    MovesAsPromised
    GetsAreRight
    RecordsComeBack
    MessagesArrive
    EnvIsSound
CHECK_DEADLOCK FALSE
