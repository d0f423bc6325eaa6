SPECIFICATION Spec
CONSTANTS
  Managers = {m1, m2}
  Hostnames = {h1, h2, h3}
  Tunnels = {t1, t2}
  NoRecord = norecord
  Other = other
  NoHost = nohost
INVARIANT DoneStaysDone
SYMMETRY MCSymmetry
