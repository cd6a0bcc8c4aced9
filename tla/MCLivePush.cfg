SPECIFICATION FairSpec
CONSTANTS
    s1 = s1
    price = price
    protocol = protocol
    first = first
    second = second
    Streams = {s1}
    Sockets = {c1}
    Hub = hub
    Channels = {price, protocol}
    Publishers = {first, second}
    Topic <- MCTopic
    HubChannels <- MCHubChannels
    StreamChannels <- MCStreamChannels
    BoxCap = 2
    SendCap = 1
    MaxMessages <- MCMaxMessages
    None = None
CHECK_DEADLOCK FALSE
INVARIANTS NeverPanics ConnectionsCounted InOrderOnce
PROPERTIES LeftIsUnlisted DroppedIsStopped
