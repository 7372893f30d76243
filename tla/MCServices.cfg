SPECIFICATION Spec
CONSTANTS
\* Accounts
    Names = {p, q, clear}
    GameCenter = {p, q}
    HashedName = hashed
    ClearName = clear
    AuthRequests = {r1, r2}
    MaxIdentities = 3
    MaxUsers = 2
\* CounterLocks
    Alphabet <- MCAlphabet
    CountedPlayers = {x, y}
    Writers = {v, w}
    NoWriter = NoWriter
\* FlexMatchBans
    BanMatches = {1, 2, 3}
    BanTimes <- MCTimes
    BanExpiry = 5
    Durations = {1, 3, 7}
    MaxClock = 11
\* Clients
    Users = {u}
    MaxClients = 3
    NoClient = NoClient
\* Counters
    CounterNames = {"c"}
    Periods = {"total", "second"}
    Width <- MCWidth
    Values = {0, 1, 2}
    MaxList = 2
    MaxUpdates = 3
    MaxTime = 2
    UniformLists = TRUE
\* Friendships
    Friends = {x, y}
    NoFriend = NoFriend
    MaxInvites = 2
    MaxFriendRows = 2
\* Messages
    Fetches = {f, g}
    MaxMessages = 2
    MaxPending = 1
    Rows = {}
    Unset = Unset
\* MatchQueue
    QueuePlayers = {"q1", "q2", "q3"}
    QueueMatches = {"m", "n"}
    Tokens = {"challenge"}
    NoToken = "none"
    Refs = {"v1"}
    NoRef = "any"
    QueueRequests <- MCRequests
    RefOf <- MCRefs
    MaxPlayers = 2
    MaxRows = 3
    MaxErrors = 1
\* MatchPlayers
    RosterPlayers = {x, y}
    RosterMatches = {m, n}
    Capacity = 1
    NoMatch = NoMatch
\* PlayerPlacements
    Starters = {g1, g2}
    MaxStarts = 2
    Failures = {"failed"}
    NoStart = NoStart
\* Presence
    Followers = {fan}
    Setters = {s1, s2}
    Maps = {"", "cave"}
    Modes = {"", "duel"}
\* Sandbox
    Visitors = {x, y}
    MaxSessions = 3
    NoPlacement = NoPlacement
\* GameServers
    Machines = {a}
    Servers = {s, t}
    ServerMatches = {m, n}
    MatchKeys = {k}
    NoUniqueKey = NoUniqueKey
    NoServer = NoServer
    Nobody = Nobody
\* PlayerState
    MaxJournal = 4
    MaxBatch = 2
    Namespaces = {m, n}
    PlayerTickets = {t1}
    Serialized = TRUE
    Null = Null
    NoState = NoState
    NoLookup = NoLookup
\* Summaries
    Fields = {"kills", "deaths"}
    FieldValues = {1, 2}
    Wanted <- MCWanted
    SummaryRequests = {u1, u2}
    MaxSummaryRows = 2
    NoPut = NoPut
INVARIANTS TypesOK FairQueue NothingIsSkipped UsurpedIsReplaced StatesRestOnTheJournal
           KeysAreUnique RosterIsShown PairsAreSingle UpdatesAllApply CountersDoNotDeadlock OneServerPerLocation
           BansAreServed AccountsAreSingle PlacementsAreTold FriendsAreTold PutsMend
PROPERTY FriendsWereInvited
\* Each part stops at a bound.
CHECK_DEADLOCK FALSE
