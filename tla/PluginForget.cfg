SPECIFICATION Spec
CONSTANTS
    m1 = m1
    m2 = m2
    s1 = s1
    s2 = s2
    s3 = s3
    f1 = f1
    Module = {m1, m2}
    Iface = {s1, s2, s3, f1}
    Foreign = {f1}
    NoLua = NoLua
PROPERTIES
    ForgetsDeadLua
CHECK_DEADLOCK FALSE
