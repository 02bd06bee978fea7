SPECIFICATION Spec
CONSTANTS
    b1 = b1  b2 = b2  j1 = j1  j2 = j2  t1 = t1  t2 = t2
    Clients = {b1, b2}
    LastArticle = 2
    Jobs = {j1, j2}
    Tasks = {t1, t2}
    None = None
    MaxOutside = 1
PROPERTIES FailedPageRecorded
CHECK_DEADLOCK FALSE
