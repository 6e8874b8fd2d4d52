\* Four items: a failing last one with three successful ones to unwind.
SPECIFICATION Spec
CONSTANT N = 4
INVARIANTS
    RevertsReachEveryItem
    RevertsRunBackwards
    AggregateTellsAll
PROPERTIES
    Terminates
    ImplementsTransaction
