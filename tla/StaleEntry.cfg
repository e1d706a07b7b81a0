SPECIFICATION Spec
CONSTANTS
    INPUT_BUFFER_SIZE = 5
    Byte <- MCByte
    Length <- MCLength
    Variable = {2}
    Message <- MCMessage
    Hello <- MCHello
    GoodHello <- MCGoodHello
    MaxMessages = 2
    Trouble = {"abandon"}
INVARIANT
    HelloJudged
