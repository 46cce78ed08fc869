\* A DELETE whose commit lands and whose answer is lost.
CONSTANTS
    k1 = k1
    k2 = k2
    AnyKey = AnyKey
    None = None
    Op <- MCOneOp
    Jobs <- MCOneDelete
    Initial <- MCInitial
    Modes = {"dv"}
    Levels = {FALSE}
    Retries = 1
    Faults = {"applied"}
SPECIFICATION Spec
INVARIANT VectorsExist
