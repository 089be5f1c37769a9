\* Two requests in flight, two of everything that can be told apart; three
\* tenants, three addresses, two documents, three reviews of either, and two
\* configurations over two days.
\* One kind of record in a behaviour, and one question at a time.
SPECIFICATION MCSpec
CONSTANTS
    Owner = {o1, o2}
    User = {u1, u2}
    Tenant_id = {t1, t2}
    TenantType = {seller}
    Handler = {h1, h2}
    BaseSlug <- ShopSlugs
    MaxTenants = 3
    MaxReviews = 3
    MaxAddresses = 3
    MaxDocuments = 2
    MaxVerdicts = 3
    MaxConfigs = 2
    LastDay = 2
SYMMETRY Symmetry
CONSTRAINT OneAsks
CHECK_DEADLOCK FALSE
INVARIANTS
    RecordsTypeOK
    OneTenantPerOwner
    SlugsInOrder
    AuditTellsStatus
    OneDefaultAddress
    KycTellsStatus
    CommissionResolved
