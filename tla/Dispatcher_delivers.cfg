\* Two environments and two hooks, one writer that changes one or both; a queue of one.
SPECIFICATION LiveSpec
CONSTANTS
  a = a  b = b  w1 = w1
  Envs = {a, b}
  Writers = {w1}
  MaxHookId = 2
  QueueSize = 1
  MaxChanges = 2
  MaxHooks = 2
INVARIANTS TypeOK NoLostWakeup
PROPERTIES EveryChangeDelivered
CHECK_DEADLOCK FALSE
