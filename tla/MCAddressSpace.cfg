SPECIFICATION Spec
CONSTANTS
    root = root  type = type  child = child  a = a  n1 = n1  n2 = n2
    sub = sub  def = def  prop = prop  agg = agg  comp = comp
    client = client  admin = admin  null = null
    Ids <- MCIds
    Assigned = {n1, n2}
    NullId = null
    HasSubtype = sub
    HasTypeDefinition = def
    HasProperty = prop
    Aggregates = agg
    Admin = admin
    Sessions = {client}
    MaxPoints = 1
    Base <- MCBase
    Abstract = {agg}
    Ns0 = {root, type, child, sub, def, prop, agg, comp}
    BrowseLimit = 1
    MaxWork = 6
    MaxRefs <- MCMaxRefs
    New <- MCNew
    Links <- MCLinks
    Asked <- MCAsked
    Limits = {0, 1}
    Removable = {a, child}
    Shortages = {{}, {2, 6}, {3, 5}}
INVARIANTS ReferencesAgree PagesAreExact PointsAreCounted
PROPERTIES InstancesAreComplete
CHECK_DEADLOCK FALSE
