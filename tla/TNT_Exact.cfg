\* Taint against the origin of the values, three command lines.
SPECIFICATION Spec
CONSTANTS
  t1 = t1
  Threads = {t1}
  Regs = {"ax", "dx", "flags", "ip"}
  Addrs = {0, 1, 2}
  KeySize = 2
  Insns <- Program
  Knobs <- CommandLines
  MaxBytes = 2
INVARIANTS TypeOK TagsTell ControlClean NoFalseAlarm
