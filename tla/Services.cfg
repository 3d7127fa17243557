SPECIFICATION Spec
CONSTANTS
 a1 = a1
 a2 = a2
 c1 = c1
 c2 = c2
 p1 = p1
 p2 = p2
 x = x
 y = y
 here = here
 there = there
 Nowhere = Nowhere
 Allocators = {a1, a2}
 Clients = {c1, c2}
 Providers = {p1, p2}
 Pieces = {x, y}
 Allowance = 4
 Size <- MCSize
 Ddo = {p2}
 Reported <- MCReported
 Location <- MCLocation
 Rate <- MCRate
 DaysPerWeek = 1
 LastDay = 2
 MaxEvents = 4
 Declared <- MCDeclared
 Expected <- MCExpected
 RequiredReplicas = 2
 GlifAutoVerifiedAllocator = a2
 LowReplica = 2
 HighReplica = 1
 ActivityPeriod = 1
 Environments <- MCEnvironments
 DataType <- MCDataType
 FirstAudit <- MCFirstAudit
 MonthDays = 2
 Decayed <- MCDecayed
 Precision = 1000
 PublicClients = {c1}
 FewClients = 1
 MaxBiggestShare = 60
 Thresholds = {50, 100}
 ActiveDays = 2
 TwoWeeks = 1
 HighRetrievability = 70
 CompliantScore = 70
 NonCompliantScore = 45
 RegisteredIn <- MCRegisteredIn
 LeftOut = {a2}
 Audits <- MCAudits
 d1 = d1
 d2 = d2
 Deals = {d1, d2}
 DealClient <- MCDealClient
 Bytes <- MCBytes
 Revenue <- MCRevenue
 Requirements <- MCRequirements
 Tests <- MCTests
 Gross = 7
 Net = 4
 Recent = 1
 MaxMeasured = 1
 MaxWindow = 1
 MaxReadings = 2
INVARIANTS
 ActiveDealsAgree
 HistoriesAddUp
 ComplianceOfEveryDeal
 ChecksAgree
 ScoresMatchRanges
 WeeklyViewsAddUp
 AllocationsAddUp
 DashboardAgrees
PROPERTIES
 PastStays
CHECK_DEADLOCK FALSE
