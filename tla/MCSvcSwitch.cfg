SPECIFICATION Spec
CONSTANTS
  u1 = u1
  u2 = u2
  UserTasks = {u1, u2}
  KernTasks = {idle}
  Boot = Boot
  Sites = {s1, s2}
  NoSite = NoSite
  Junk = Junk
  Slots = 4
  LastField = 6
  Asked <- MCAsked
INVARIANTS PrivilegeFollowsCode StacksBalanced MpuFollowsTask
PROPERTIES ImplementsSystemCalls
