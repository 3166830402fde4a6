\* An edit in flight when its period is closed.
SPECIFICATION Spec
CONSTANTS
    s1 = s1
    s2 = s2
    water = water
    net = net
    waterTariff = waterTariff
    netTariff = netTariff
    netTariff2 = netTariff2
    None = None
    Sessions = {s1, s2}
    Subs = {water}
    Tariffs = {waterTariff}
    Services <- MCServices
    InitMetered = {"water"}
    SubService <- MCSubService
    TariffService <- MCTariffService
    Dates = {1, 2}
    MonthStarts = {2}
    Readings = {}
    Prices = {160}
    Quantities = {}
    Notes = {"n"}
    InitSubs <- AllConnected
    InitTariffs <- MCInitTariffs
    MaxPeriods = 1
    Ops <- CloseOps

PROPERTIES ClosedMeansLocked
\* A server that no request can reach any more (all period ids are used) is at rest.
CHECK_DEADLOCK FALSE
