SPECIFICATION Spec
CONSTANTS
    DATA_DEPTH = 2
    Data <- Numbers
    Zero = 0
    Follows <- Modulo
    Lines = {26, 29}
    FifoLine = 26
    Values = {{26}, {29}}
INVARIANTS NumbersInOrder NoPhantomNumber
PROPERTIES FifoIsQueue NumbersLeave
