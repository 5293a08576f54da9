SPECIFICATION Spec
CONSTANTS
    MaxFds = 3
    MaxConns = 5
\* The process may terminate, and threads wait for their clients.
CHECK_DEADLOCK FALSE
INVARIANTS TypeOK OneThreadPerDescriptor DescriptorsAccounted HandlesBalanced
PROPERTIES ConnectionReleased
