\* Two requests at once, readings and prices among them.
SPECIFICATION FairSpec
CONSTANTS
    s1 = s1
    s2 = s2
    water = water
    net = net
    waterTariff = waterTariff
    netTariff = netTariff
    netTariff2 = netTariff2
    None = None
    Sessions = {s1, s2}
    Subs = {water}
    Tariffs = {waterTariff}
    Services = {"water"}
    InitMetered = {"water"}
    SubService <- MCSubService
    TariffService <- MCTariffService
    Dates = {1, 2}
    MonthStarts = {2}
    Readings = {3}
    Prices = {160, 260}
    Quantities = {2}
    Notes = {"n"}
    InitSubs <- AllConnected
    InitTariffs <- MCInitTariffs
    MaxPeriods = 2
    Ops <- SessionOps
INVARIANTS MonthBilledOnce RowsAddUp
PROPERTIES RequestsComplete ClosedPeriodsSettle
\* A server that no request can reach any more (all period ids are used) is at rest.
CHECK_DEADLOCK FALSE
