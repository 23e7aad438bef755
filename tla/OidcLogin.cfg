\* Two attempts, in two browsers and a Go client, with two callbacks at a time.
CONSTANTS
    Browsers = {b1, b2}
    Hosts = {h1}
    Users = {u1, u2}
    States = {s1, s2}
    Calls = {k1, k2}
    None = None
SPECIFICATION Spec
SYMMETRY Symmetry
INVARIANTS LoginLandsWhereItStarted StateUsedOnce
PROPERTY OnlyOwnCallbackConsumes
