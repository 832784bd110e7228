SPECIFICATION Spec
CONSTANTS
    t1 = t1
    t2 = t2
    i1 = i1
    i2 = i2
    i3 = i3
    q1 = q1
    Table = {t1, t2}
    Id = {i1, i2, i3}
    BeanKey <- MCBeanKey
    Sql = {q1}
    SqlTable <- MCSqlTable
    Value = {v1, v2}
    None = None
    MaxElementSize = 2
    Expired = 0
    CacheGcMaxRemoved = 1
VIEW MCViewWithoutCall
SYMMETRY MCSymmetry
INVARIANTS Indexed Reachable SizeBounded
PROPERTIES ImplementsCacher IdsGoWithBean
