SPECIFICATION Spec
CONSTANTS
    l1 = l1  l2 = l2  t1 = t1  t2 = t2  d1 = d1  s1 = s1
    Logins = {l1, l2}
    CredsTools = {t1}
    Names <- NamesHere
    Words = {"p", "q"}
    FirstHashes <- FirstHere
    LoginCfgs <- AllLogins
    Lower <- ToLower
    HelperKnows <- HelperHere
    Entities <- EntitiesHere
    Signers <- SignersHere
    PamKnows <- PamHere
    DovecotKnows <- DovecotHere
    Shadow <- ShadowHere
    Entries <- EntriesHere
    DirWords <- DirHere
    Dlvs = {d1}
    RcptTos = {"a", "alias", "b"}
    DeliveryMap <- Map3
    Accts = {"A", "B"}
    Filters = 2
    Folders = {"F"}
    Originals <- Acyclic
    AcctChanges = 2
    Keys = {"A"}
    StoreTools = {s1}
    Changes = 2
    Cap = 1
    Crashes = 1
    TornWrites = FALSE
    RelayCfgs <- AllRelays
    RelayRcpts = {"x", "y"}
    Sendable <- Converted
    BodyOpens = TRUE
INVARIANTS
    VouchedFor
    ReadsAsReader
    MessagesSettled
PROPERTIES
    LoginsEnd
    UpdatesArrive
CHECK_DEADLOCK FALSE
