\* One generation at a time against new subscriptions, deletions and tariff changes.
SPECIFICATION Spec
CONSTANTS
    s1 = s1
    s2 = s2
    water = water
    net = net
    waterTariff = waterTariff
    netTariff = netTariff
    netTariff2 = netTariff2
    None = None
    Sessions = {s1}
    Subs = {water, net}
    Tariffs = {waterTariff, netTariff, netTariff2}
    Services <- MCServices
    InitMetered = {"water"}
    SubService <- MCSubService
    TariffService <- MCTariffService
    Dates <- MCDates
    MonthStarts <- MCMonthStarts
    Readings = {}
    Prices = {160}
    Quantities = {}
    Notes = {}
    InitSubs <- NetComesLater
    InitTariffs <- MCInitTariffs
    MaxPeriods = 2
    Ops <- CatalogueOps
INVARIANTS TypeOK RowsHaveParents
PROPERTIES GenerationComplete
\* A server that no request can reach any more (all period ids are used) is at rest.
CHECK_DEADLOCK FALSE
