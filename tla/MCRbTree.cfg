CONSTANTS
    a = a b = b c = c d = d e = e f = f
    Nodes <- MCNodes
    sentinel = sentinel
    NULL = NULL
    KeyOf <- MCKeyOf
    Timer = TRUE
    Word = 16
SPECIFICATION TreeSpec
INVARIANTS RedBlackTree
PROPERTIES ImplementsSortedList
