SPECIFICATION FairSpec
CONSTANTS
    Key <- MCKey
    TableSize = 2
    MaxLoop = 1
    hashKey <- MCHash
    MaxIids = 2
    MaxEvents = 2
    MaxItems = 2
    BufferSize = 11
    Client = {c1, c2}
    Payload <- FewPayload
    Patch <- FewPatch
    IidList = {}
    Invocation = {}
    Query = {Whatever}
    StreamFilter = {}
    ExampleItems <- MCExample
    ModuleSid = 1
    PasswordSid = 11
    FirstPassword = "initial"
    MaxList = 2
    NoBody = NoBody
    NoDatastore = NoDatastore
    Garbled = Garbled
    NoPassword = NoPassword
    PasswordSet <- MCPasswordSet
    KeyDelta = 1
INVARIANTS
    NoLostNotification
PROPERTIES
    ObserversCatchUp
