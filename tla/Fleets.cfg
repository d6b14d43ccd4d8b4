SPECIFICATION Spec
CHECK_DEADLOCK FALSE
CONSTANTS
    None = None
    o1 = o1
    o2 = o2
    o3 = o3
    na = na
    nb = nb
    nc = nc
    Ops = {o1, o2, o3}
    Instances = {na, nb, nc}
    Clients = {k1, k2, k3, k4}
INVARIANTS OneClientPerNode CallsSound IdsInOrder
PROPERTIES OpsEnd
