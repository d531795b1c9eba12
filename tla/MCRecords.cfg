CONSTANTS a1 = a1 a2 = a2 b1 = b1 b2 = b2 c1 = c1 c2 = c2 d1 = d1 d2 = d2
CONSTANTS A = {a1, a2} B = {b1, b2} C = {c1, c2} D = {d1, d2}
CONSTANTS p1 = p1 p2 = p2 p3 = p3 p4 = p4 n1 = n1 n2 = n2 n3 = n3 n4 = n4 None = None
CONSTANTS Keys = {k1} Owners = {u, h} Hidden = {h} Callers = {q1} Editors = {q2} EditLimit = 2 SecretLimit = 2 Never = Never
CONSTANTS Order <- TwoInOrder Sensitive = {p1, p4} Named = {p1, p2} Override = {p2} Life = p1 Token = p4
CONSTANTS Good = {n1, n2} Bad = n3 Default = n1 PutLimit = 2 TicketLimit = 4 PerSession = 2 Global = 3 ConfigLimit = 2
CONSTANTS Subjects = {p1, p2} People = {p3, p4} Native = {p3} NameOf <- TheirNames NativeName <- OneName
CONSTANTS Readers = {p1} Born = {TRUE} WriteLimit = 3
CONSTANTS Paths = {n1, n2, n3} FileSet = {p1, p2} Canon <- TwoToOne Linked = {n3} Dirs = {p3, p4} DirOf <- InnerOuter
CONSTANTS Up <- Nested Root = n4 StepLimit = 5
CONSTANTS GGUFs = {p1, p2} Sets = {{p1, p2}} Primary <- FirstOfTwo ModelRows = {n1} Scanners = {n2} ChangeLimit = 3
CONSTANTS PwLimit = 2 MaxActive = 1 MaxBacklog = 0 Origins = {p1, p2, p3} Hosts = {n1, n2} HostOf <- TwoAtOne
CONSTANTS ImpRequests = {b1, b2} ImpPlain = {} ImpSlugs <- AsksOne ImpStarters = {b1, b2} ImpEdits = 2
CONSTANTS Masks = FALSE CatEdits = 1 CatAsks = 2 CatSecrets = 2 CatAccounts = 2
CONSTANTS MaxItems = 2 MaxHosts = 1 Threshold = 2 LockTime = 2 DelayAfter = 3 HostTTL = 1 Day = 2 Horizon = 4
SPECIFICATION RecordsSpec
SYMMETRY Symmetry
INVARIANTS TypesOK KeysFresh AccountsSafe TicketsSafe SignOnSafe SettingsRight ImportsRight InstancesRight CatalogSafe
PROPERTIES StepsKeep
CHECK_DEADLOCK FALSE
