SPECIFICATION Spec
CONSTANTS
    n1 = n1
    n2 = n2
    n3 = n3
    Nodes <- MCNodes
    NULL = NULL
    Released <- MCNodes

PROPERTY ReleaseOnlyCuts
