CONSTANTS
    MaxEvents = 3
    MaxBytes = 4
    DeltaKeys = {"text_delta"}
    SnapshotKeys = {"message_update"}
    Sizes = {1, 2, 5}
    MaxPushes = 5
SPECIFICATION StreamSpec
CHECK_DEADLOCK FALSE
INVARIANTS
    FactsInOrder
PROPERTIES
    ConsumerStops
