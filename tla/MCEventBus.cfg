\* Two events more than a channel holds.
SPECIFICATION FairSpec
CONSTANTS
    Subscribers = 3
    Capacity = 2
    MaxEvents = 4
PROPERTIES
    DeliversInOrder
    EventsAreHandled
CHECK_DEADLOCK FALSE
