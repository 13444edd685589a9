SPECIFICATION Spec
CONSTANTS
    c1 = c1
    c2 = c2
    r1 = r1
    r2 = r2
    lb1 = lb1
    lb2 = lb2
    https = https
    Credentials = {c1, c2}
    Cloud <- MCCloud
    None = None
    MaxFetches = 3
INVARIANTS
    TypeOK
    InlineTargetExists
