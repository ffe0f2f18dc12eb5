SPECIFICATION Spec
CONSTANTS
    s1 = s1
    s2 = s2
    c1 = c1
    c2 = c2
    Subs = {s1, s2}
    Customers = {c1, c2}
    NoCustomer = NoCustomer
    Workers = {w1}
    MaxChanges = 3
    MaxFaults = 0
SYMMETRY Symmetry
INVARIANT SubscribersSeeNoAds
