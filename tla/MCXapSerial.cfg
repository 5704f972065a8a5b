SPECIFICATION FairSpec
CONSTANTS
    Names = {"tty", "link", "usb"}
    Devices = {"d", "e"}
    DeviceOf <- MCDeviceOf
    Fds = {1, 2}
    Chunks <- MCChunks
    SLEN = 2
    LIMIT = 2
    RETRIES = 3
    LINE = 4
    Other = Other
    None = None
INVARIANTS
    WalkOnList
    PortsOwnFiles
    BufferHoldsLine
PROPERTY
    BackToSelect
