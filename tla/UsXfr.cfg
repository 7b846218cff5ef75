\* Two servers, so that one can find the name taken or come after the other;
\* two clients on a queue of one, so that one may have to wait in connect;
\* buffers smaller than the input and a read that can span two writes.
CONSTANTS
    Servers = {v, w}
    Clients = {a, b}
    Inputs = {0, 1, 3}
    MaxInput = 3
    BACKLOG = 0
    BUF_SIZE = 2
    Capacity = 3
    None = None
SPECIFICATION FairSpec
INVARIANTS TypeOK NoByteLost
PROPERTIES Served OneAtATime
\* The server waits in accept for ever.
CHECK_DEADLOCK FALSE
