SPECIFICATION Spec
CONSTANTS
    None = None
    MonthDays = 2
    KmBuckets = {0, 5}
    MinTenants = 2
    MinVehicles = 3
    NormalPlate <- Plates
    NormalVin <- Vins
    ReminderLists <- SomeReminderLists
    DashboardLimits = {1, 2}
    Moments = {0, 1, 2, 3, 4, 5, 6, 7, 8, 9, 10, 11, 12}
    Histories <- SomeHistories
    ActiveTypes = {{}, {"oil_change"}}
    ItemLists <- SomeItemLists
    Midnights <- Nights
    TimeZones <- Zones
    PriceLists <- SomePriceLists
    InvoiceLists <- SomeInvoiceLists
    CostLists <- SomeCostLists
    Year = 10
    MarketLists <- SomeMarketLists
    Tenants = {"t1", "t2", "t3"}
    CsvTables <- SomeTables
    Secrets <- SomeSecrets
    Clocks <- SomeClocks
    Skews <- SomeSkews
    Fleets <- SomeFleets
    ImportFiles <- SomeImportFiles
    VehicleLimits = {1, 3}
    CandidateLists <- SomeCandidateLists
    MappingLists <- SortedMappingLists
    DefaultChain <- SomeChain
    PositiveTexts = {"80"}
    Curated <- SomeCurated
    Environments <- SomeEnvironments
    ModelAnswers <- SomeModelAnswers
    FeedAnswers <- SomeFeedAnswers
    RecallFleets <- SomeRecallFleets
    Thrown <- SomeThrown
    Limits <- SomeLimits
    Databases <- SomeDatabases
    MonthLength = 4
INVARIANTS UrgentFirst SuggestionFollowsHistory ReportsAddUp OutliersAreFew
           TrendFollowsCost CellsAreBacked WrittenIsRead ImportAddsNoTwin 
           CallsArrive ServicesStandIn FailuresAreTold UsageTellsTheLimit
CHECK_DEADLOCK FALSE
