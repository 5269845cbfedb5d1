\* Two senders of any kind and two programs at the terminal.
SPECIFICATION Spec
CONSTANTS
  Senders = {s1, s2}
  Terminals = {t1, t2}
  Nobody = Nobody
INVARIANTS IInv Alone
PROPERTIES StaysDetached DeafForever SetUpEnds
