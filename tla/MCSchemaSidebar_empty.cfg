CONSTANTS
  w1 = w1
  w2 = w2
  c1 = c1
  c2 = c2
  c3 = c3
  Wke = {w1, w2}
  ConnsOf <- MCConnsOf
  Groups = {g1}
  EmptyConns = {c3}
  MaxCalls = 2
SPECIFICATION Spec
PROPERTIES LoadingEventuallyCleared
