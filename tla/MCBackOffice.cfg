SPECIFICATION Spec
CONSTANTS
    Call = {c1, c2, c3}
    MaxOffices = 1
    None = None
    Member = {ann}
    Points = {1, 2}
    Stock = 2
    Quantity = {1, 2}
    Damaged <- MCDamaged
    Tenant = {demo, other}
    MaxDay = 2
    Demo = demo
    Slug = {grand, new}
    DemoSlug = grand
    Plan = {"basic", "premium"}
    FirstPlan = {"basic"}
    Active <- MCActive
    Gateway = {"none", "stripe"}
    Role = {desk, maid}
SYMMETRY Symmetric
INVARIANTS TypeOK LedgersAgree OverdraftIsRaced DoneDaysAudited TenantRowsAgree
