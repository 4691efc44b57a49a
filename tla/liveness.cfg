SPECIFICATION FairSpec
CONSTANTS
    Procs = {srv}
    Pids = {i1, i2}
    PidReuse = FALSE
    Requests = {r1, r2}
    Tokens = {t1, t2}
    Packages = {ngx}
    Conffiles = {ngx}
    Components = {web}
    PackagesOf <- TinyPackagesOf
    RivalsOf <- WebRivalsOf
    Application = wp
    Stack = {ngx}
    InitialHost <- BareHost
    PlanKinds = {"install"}
    Modes = {"start"}
    Faults = {"validate", "orphan"}
    MaxExits = 1
    web = web
    db = db
    ngx = ngx
    tls = tls
    NoPreview = NoPreview
    NoReq = NoReq
    NoLock = NoLock
    NoPid = NoPid
PROPERTIES
    JobsSettle
    LockReturns
CHECK_DEADLOCK FALSE
