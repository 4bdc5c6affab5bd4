CONSTANTS
  Users = {a, b}
  Admins = {a, b}
  Tabs = {1}
  Threads = {t1, t2}
  Writers = {t1}
  Passwords = {"p", "q"}
  MaxVersion = 3
  Requests = {r1, r2, r3}
  Names = {n}
  Written = {"users", "products", "reports", "decided"}
  Nobody = Nobody
  MaxStops = 2
SPECIFICATION AllSpec
INVARIANTS SomeAdminActive NoSessionOutlivesPassword NoForgottenSocket
  OneWholeAccount AnswerIsTrue StampTellsSchema
PROPERTIES PastCredentialsStayDead FailureHasCause RowsSurvive
