SPECIFICATION Spec
CONSTANTS
    Paths <- MCPaths
INVARIANTS TypeOK AtMostOneRow NeverMisattributed
