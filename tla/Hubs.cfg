SPECIFICATION HubsSpec
CONSTANTS
    h1 = h1  h2 = h2  c1 = c1  c2 = c2  c3 = c3  u1 = u1  u2 = u2  u3 = u3
    l1 = l1  l2 = l2  l3 = l3
    Hubs = {h1, h2}
    Channels = {c1, c2, c3}
    Users = {u1, u2, u3}
    Links = {l1, l2, l3}
    Names = {"home", "home2", "den", "lounge", "music", "general", "Felix", "Max", "text", ""}
    NoSnapshot = NoSnapshot
    NoLink = NoLink
    MaxHubsPerOwner = 2
    MaxChannelsPerHub = 2
    Commands <- MCCommands
    Configs <- MCConfigs
CHECK_DEADLOCK FALSE
INVARIANTS OwnerKeepsHub  CachesNeverInvent ClientsFollowMembership OneLongLink
PROPERTY WritesAuthorised
