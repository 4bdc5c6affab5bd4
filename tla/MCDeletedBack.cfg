CONSTANTS
  Products = {p}
  Reporters = {u1, u2}
  Threads = {t1, t2}
  Editors = {t1, t2}
  Unlocked = Unlocked
  Threshold = 2
SPECIFICATION Spec
PROPERTY DeletedForEver
