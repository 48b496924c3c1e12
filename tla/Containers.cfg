SPECIFICATION MCSpec
CONSTANTS
    Item = {a, b}
    Blank = Blank
    MaxSize = 4
    Heights <- HeightSet
    Object <- TheObjects
    KeyOf <- TheKeys
    Growth = 2
    NoObject = NoObject
    MaxSplice = 2
    Key <- Keys
    Value <- Values
    NoValue = NoValue
    Primes <- TwoPrimes
    NewSizes <- Sizes
INVARIANTS
    DrawnSafely
PROPERTIES
    VectorSound
    TableSound
