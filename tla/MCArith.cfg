\* Every call of bl_divmod64 and bl_log2 on a 7-bit word.
CONSTANTS
    W = 7
    Dividends <- MCDividends
    Divisors <- MCDivisors
    Log2Args <- MCLog2Args
SPECIFICATION Spec
INVARIANTS
    TypeOK
    PartialDivision
    
    Log2Exact
CHECK_DEADLOCK FALSE
