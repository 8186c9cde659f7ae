CONSTANTS
    a = a
    b = b
    c = c
    Module = {a, b, c}
    Name <- MCName
    Kernel <- MCKernel
    Images <- MCImages
    Orders <- MCOrders
SPECIFICATION Spec
INVARIANTS
    InitOrder
    SymbolsAgree
    PanicJustified
PROPERTY LoadEnds
