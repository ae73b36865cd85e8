\* Ints from -6 to 5, and three ports at most. A block's way ends when it is shown or
\* skipped, so deadlock is not checked.
SPECIFICATION Spec
CONSTANTS
    Qualified = {"gr::Add"}
    Punctuated = {"basic/Add<T>", "Op<std", "plus>"}
    Binary = {"0xff"}
    None = None
    IntMax = 5
    PortLimit = 3
CONSTANT Block <- MCBlock
CHECK_DEADLOCK FALSE
INVARIANTS
    ShownAsReflected
    DefaultsNeverWrap
    PortsCanBeDrawn
    SizedByItsOwnParameter
