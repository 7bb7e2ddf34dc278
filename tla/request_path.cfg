CONSTANTS
    alice = alice  bob = bob  wide = wide  house = house  uuid = uuid
    reader = reader  writer = writer
    Values = {alice, bob, wide, house, uuid}
    Visible = {alice, bob, house, uuid}
    Uuid = uuid
    Roles = {reader, writer}
    Origins <- SmallOrigins
    Interceptors <- SmallInterceptors
    Layers = {None, house}
    MaxHops = 3
    None = None
    t1 = t1  t2 = t2
    Tokens = {t1, t2}
    Life = 2
    Leeway = 1
    MaxTokenFaults = 1
    Scripts <- SmallScripts
    Rate = 2
    Burst = 2
    Second = 3
    MaxWire = 1
SYMMETRY TokenSymmetry
SPECIFICATION RequestSpec
CHECK_DEADLOCK FALSE
INVARIANTS RevokedStays ActsForHolder FieldsKept SameUser StandingKept ErrorsKeepMeaning
 FinalErrorsRunOnce OutageSurvived RateHeld
