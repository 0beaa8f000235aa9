SPECIFICATION VariantsSpec
CONSTANTS
    Null = Null
    d1 = d1
    d2 = d2
    prod = prod
    staging = staging
    main = main
    s1 = s1
    n1 = n1
    n2 = n2
    p1 = p1
    p2 = p2
    e1 = e1
    e2 = e2
    production = production
    preview = preview
    h1 = h1
    h2 = h2
    u1 = u1
    u2 = u2
    t1 = t1
    t2 = t2
    i1 = i1
    r1 = r1
    r2 = r2
    a1 = a1
    a2 = a2
PROPERTIES
    VariantsConsistent
CHECK_DEADLOCK FALSE
