SPECIFICATION Spec
CONSTANTS
    Key <- MCKey
    TableSize = 2
    MaxLoop = 1
    hashKey <- MCHash
    MaxIids = 2
    MaxEvents = 2
    MaxItems = 1
    BufferSize = 15
    Client = {}
    Payload <- MCPayload
    Patch <- MCPatch
    IidList <- MCIidList
    Invocation <- MCInvocation
    Query <- MCQuery
    StreamFilter <- MCStreamFilter
    ExampleItems <- MCExample
    ModuleSid = 1
    PasswordSid = 11
    FirstPassword = "initial"
    MaxList = 2
    NoBody = NoBody
    NoDatastore = NoDatastore
    Garbled = Garbled
    NoPassword = NoPassword
    PasswordSet <- MCPasswordSet
    KeyDelta = 1
PROPERTIES
    NullDeletesKeyedInstance
