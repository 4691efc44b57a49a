SPECIFICATION Spec
SYMMETRY Symmetry
CONSTANTS
    Procs = {srv}
    Pids = {i1}
    PidReuse = FALSE
    Requests = {r1, r2}
    Tokens = {t1, t2}
    Packages = {ngx, tls}
    Conffiles = {ngx, tls}
    Components = {web, db}
    PackagesOf <- SharedPackagesOf
    RivalsOf <- SharedRivalsOf
    Application = wp
    Stack = {ngx, tls}
    InitialHost <- PartHost
    PlanKinds = {"install", "adopt", "remove", "application"}
    Modes = {"execute", "deploy"}
    Faults = {"apply", "validate", "provision", "abandon"}
    MaxExits = 0
    web = web
    db = db
    ngx = ngx
    tls = tls
    NoPreview = NoPreview
    NoReq = NoReq
    NoLock = NoLock
    NoPid = NoPid
INVARIANTS
    FreshHost
    AppsMatchJobs
PROPERTIES
    SuccessIsReal
    CancelRestores
CHECK_DEADLOCK FALSE
