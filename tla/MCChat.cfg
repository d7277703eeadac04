SPECIFICATION ChatSpec
CONSTANTS
    Rooms = {"a", "b"}
    MaxReaders = 2
    Messages = {1, 2, 3}
    RoomOf <- MCRoomOf
    KindOf <- MCKindOf
INVARIANTS
    LeaveFindsToken
    NoneForgotten
    StreamInOrder
    DownOnlyByOversize
PROPERTIES
    MessagesReach
CHECK_DEADLOCK FALSE
