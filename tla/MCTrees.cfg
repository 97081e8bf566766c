CONSTANTS
    Key = {1, 2, 3, 4, 5, 6, 7, 8}
    Value = {"a", "b"}
SPECIFICATION Spec
CONSTRAINT OneMarked
VIEW Pointers
INVARIANTS SearchTree AlwaysRedBlack
PROPERTY ImplementsMap
