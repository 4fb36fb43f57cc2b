\* One request at a time.
CONSTANTS
  Sessions = {s1}
  Passwords = {w1}
  Links = {k1}
  NoOne = NoOne
SPECIFICATION Spec
INVARIANT ResetOnce
