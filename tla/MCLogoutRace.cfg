CONSTANTS
  Users = {a}
  Admins = {}
  Tabs = {1}
  Threads = {t1, t2}
  Writers = {t1}
  Passwords = {"p", "q"}
  MaxVersion = 2
SPECIFICATION Spec
INVARIANT LoggedOutIsOffline
