\* Two CPUs and two threads, so that threads move between CPUs and wait for each
\* other's locks.
CONSTANTS
  Cpu = {c0, c1}
  Cpu0 = c0
  Thread = {t1, t2}
  None = None
SPECIFICATION Spec
INVARIANTS NoPanic SwitchSafe
