SPECIFICATION PageSpec
CONSTANTS
    b1 = b1  b2 = b2
    t1 = t1  t2 = t2  t3 = t3
    None = None
    Client = {b1, b2}
    Browser = {b1, b2}
    Text = {t1, t2, t3}
    IsRequirement = TRUE
    MaxVersion = 3
PROPERTIES NoSilentOverwrite
