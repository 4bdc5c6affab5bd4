CONSTANTS
  Users = {a, b}
  Admins = {a, b}
  Tabs = {1}
  Threads = {t1, t2}
  Writers = {t1, t2}
  Passwords = {"p", "q"}
  MaxVersion = 3
SPECIFICATION Spec
INVARIANT SomeAdminActive
