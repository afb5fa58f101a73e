CONSTANTS
  a = a  b = b
  run1 = run1
  route1 = route1  route2 = route2
  s1 = s1  s2 = s2  s3 = s3
  db = db  mem1 = mem1  mem2 = mem2
  Auths = {a, b}
  Runs = {run1}
  RunOf <- MCRunOf
  Routes = {route1, route2}
  Callers = {s1, s2, s3}
  PolicyRoute <- MCPolicyRoute
  Enabled = {s1, s2}
  Logs = {db}
  LogOf <- MCDurableLogOf
  Volatile = {}
SPECIFICATION OneSpec
INVARIANTS
  OneDispatchPerRun
  EveryResultIsHonest
PROPERTIES
  OrphansStayOrphaned
