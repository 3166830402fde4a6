\* Creations, edits and deletions of tariffs interleave.
SPECIFICATION Spec
CONSTANTS
    s1 = s1
    s2 = s2
    t0 = t0
    t1 = t1
    t2 = t2
    None = None
    Sessions = {s1, s2}
    Tariffs = {t0, t1, t2}
    Services = {"water"}
    TariffService <- MCTariffService
    Prices = {160}
    LastDay = 4
    InitTariffs <- MCInitTariffs
INVARIANTS TypeOK OneActive
PROPERTIES ImplementsBook NewPriceFollowsOn PriceNeverLapses
SYMMETRY SessionSymmetry
\* On the last day, with every id used, nothing is left to do.
CHECK_DEADLOCK FALSE
