SPECIFICATION Spec
SYMMETRY Symmetry
CONSTANTS
    Procs = {srv}
    Pids = {i1, i2}
    PidReuse = FALSE
    Requests = {r1, r2}
    Tokens = {t1, t2}
    Packages = {ngx, tls}
    Conffiles = {ngx}
    Components = {web}
    PackagesOf <- WebPackagesOf
    RivalsOf <- WebRivalsOf
    Application = wp
    Stack = {ngx}
    InitialHost <- BareHost
    PlanKinds = {"install", "adopt", "update", "remove"}
    Modes = {"execute", "start", "rollback"}
    Faults = {"apply", "validate", "rollback"}
    MaxExits = 1
    web = web
    db = db
    ngx = ngx
    tls = tls
    NoPreview = NoPreview
    NoReq = NoReq
    NoLock = NoLock
    NoPid = NoPid
INVARIANTS
    TypeOK
    InterruptedHasNoWorker
    NoOrphanLock
    ActiveHasWorker
    HoldsLock
PROPERTIES
    RollbackRemoves
    ImplementsTransactions
CHECK_DEADLOCK FALSE
