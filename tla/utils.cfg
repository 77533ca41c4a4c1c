SPECIFICATION UtilsSpec
CONSTANTS
    c1 = c1  c2 = c2  c3 = c3  c4 = c4
    NULL = NULL
    Elems = {e1, e2, e3}
    Contents <- MCContents
    Key <- MCKey
    MaxSize = 5
    Loggers = {"run", "caller"}
    MaxEntries = 2
    MaxLines = 2
    MaxMessages = 4
    MaxLives = 2
INVARIANTS UtilsTypeOK WellLinked LogHoldsLast
    DataIntact PongsEcho OutgoingUnmasks
    PropertiesExact ValidatesUtf8 Base64RoundTrip
PROPERTY ImplementsADT
CHECK_DEADLOCK FALSE
