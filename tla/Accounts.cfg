CONSTANTS
    Usernames = {admin, bob}
    Admin = admin
    Tokens = {t1, t2}
    Handlers = {h1}
    SetupKeys = {k1}
    Devices = {d1}
    MaxUser = 3
SYMMETRY AccountSymmetry
SPECIFICATION Spec
 
PROPERTY OrphansStayOrphaned
