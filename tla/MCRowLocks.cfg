SPECIFICATION Spec
CONSTANTS
  ask1 = ask1
  ask2 = ask2
  retry1 = retry1
  retry2 = retry2
  retry3 = retry3
  finish1 = finish1
  delete = delete
  leave = leave
  refresh = refresh
  sweep = sweep
  key1 = key1
  key2 = key2
  Nobody = Nobody
  Askers = {ask1, ask2}
  Retriers = {retry1, retry2, retry3}
  Finishers = {finish1}
  Deleters = {delete}
  Leavers = {leave}
  Refreshers = {refresh}
  Sweepers = {sweep}
  CommandOf <- MCCommandOf
  Casts <- MCCasts
INVARIANTS
  DeadlocksAreKnown
  CommittedRowsAgree
CHECK_DEADLOCK FALSE
