\* Notes and readings, with months opened in any order and a meter that comes and goes.
SPECIFICATION Spec
CONSTANTS
    s1 = s1
    s2 = s2
    water = water
    net = net
    waterTariff = waterTariff
    netTariff = netTariff
    netTariff2 = netTariff2
    None = None
    Sessions = {s1}
    Subs = {water}
    Tariffs = {waterTariff}
    Services = {"water"}
    InitMetered = {"water"}
    SubService <- MCSubService
    TariffService <- MCTariffService
    Dates = {1, 2, 3}
    MonthStarts = {1, 2, 3}
    Readings = {3, 5}
    Prices = {160}
    Quantities = {}
    Notes = {n, blank}
    InitSubs <- AllConnected
    InitTariffs <- MCInitTariffs
    MaxPeriods = 3
    Ops <- MonthOps
SYMMETRY NoteSymmetry
INVARIANTS RowsAddUp
PROPERTIES NoteCarriedForward ReadingCarriedForward
