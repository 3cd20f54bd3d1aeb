SPECIFICATION Spec
CONSTANTS
  p1 = p1  p2 = p2
  t1 = t1  t2 = t2  t3 = t3
  c1 = c1  u1 = u1
  NoUser = NoUser
  Replicas = {p1, p2}
  Tasks = {t1, t2}
  Contexts = {c1}
  Users = {u1}
  ContextOf <- MCContextOf
  UserOf <- MCUserOf
  PutTasks = {t2}
  Writers = {w1, w2}
  Readers = {q1}
  Starting = {p2}
  Registered <- OneUp
  MaxClock = 1
  FaultKinds = {"error", "timeout", "crash"}
  MaxFaults = 1
SYMMETRY Symmetric
INVARIANT ReadsAreComplete
CHECK_DEADLOCK FALSE
