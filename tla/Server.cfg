CONSTANTS
    ollama = ollama
    openai = openai
    anthropic = anthropic
    h1 = h1
    h2 = h2
    cool = cool
    warm = warm
    Ollama = ollama
    Providers = {ollama, openai, anthropic}
    Supported = {ollama, openai}
    Hosts = {h1, h2}
    Temperatures = {cool, warm}
    Wanted <- MCWanted
    Environments <- MCEnvironments
    NotSet = NotSet
    Nothing = Nothing
    Torn = Torn
    MaxStarts = 3
    MaxEdits = 2
    MaxUpdates = 2
    MaxFaults = 1
    r1 = r1
    r2 = r2
    n1 = n1
    n2 = n2
    Request = {r1, r2}
    Name = {n1, n2}
    Bootstrap = Bootstrap
    NoOne = NoOne
SYMMETRY Symmetry
SPECIFICATION Spec
CHECK_DEADLOCK FALSE
INVARIANTS
    TypeOK
    SettingsAgree
    OneOwner
    AtMostOneAdmin
    OrphansAdopted
PROPERTIES
    PutIsDurable
