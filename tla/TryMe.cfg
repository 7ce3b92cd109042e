SPECIFICATION DrawerSpec
CONSTANTS
  Command = {call, block}
  Subscription = {}
  Foreign = {}
  Sending = {s1, s2}
INVARIANT ResultBelongs
