CONSTANTS
  Users = {a, b}
  Admins = {a}
  Tabs = {1}
  Threads = {t1, t2}
  Writers = {t1, t2}
  Passwords = {"p", "q"}
  MaxVersion = 4
SPECIFICATION Spec
PROPERTY PastCredentialsStayDead
