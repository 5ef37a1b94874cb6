\* The publisher and a connection thread write to one socket.
SPECIFICATION Spec
CONSTANTS
    Connections = {c1, c2}
    PagesOf <- MCPagesOf
    Pong = Pong
    MaxRevisions = 2
    Settings <- Roomy
INVARIANTS StreamIsReadable
