SPECIFICATION FairSpec
CONSTANTS
    p1 = p1
    p2 = p2
    ping = ping
    echo = echo
    None = None
    Plugins <- TwoPlugins
    Methods <- TwoMethods
    HostMethods <- HostServes
    PluginMethods <- PluginServes
    Texts <- SomeTexts
    MaxCalls = 4
INVARIANTS
    TypeOK
    AsRaised
PROPERTIES
    CallsNest
    AppGetsBack
