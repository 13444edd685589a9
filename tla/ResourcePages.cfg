SPECIFICATION MCSpec
CONSTANTS
    c1 = c1
    c2 = c2
    a1 = a1
    p1 = p1
    z1 = z1
    z2 = z2
    Creds = {c1, c2}
    DNSAccounts = {a1}
    ACMEAccounts = {p1}
    NoId = NoId
    Zones = {z1, z2}
    Managed <- MCManaged
    page = page
    others = others
    Page = page
    Others = others
    Callers = {page, others}
    MaxCalls = 3
INVARIANTS
    TypeOK
    ZonesBelong
PROPERTIES
    DisabledStays
    SavedZonesAreManaged
