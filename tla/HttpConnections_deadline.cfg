SPECIFICATION HttpSpec
CONSTANTS
    NConns = 2
    Requests = {"version"}
    MaxRequests = 1
    Timeout = 1
    Room = 1
INVARIANTS Deadlined
