-------------------------- MODULE ProxyConfigProofs --------------------------
(***************************************************************************)
(* That the table is what its backends declare, for any backends, routes,  *)
(* servers and sites, and any order in which they come, change and go.     *)
(*                                                                         *)
(* What is right about a location depends on the location alone, its       *)
(* server, its path and the environments last read (LocOK); a host is      *)
(* right if its locations are and its container_set is theirs.  So each of *)
(* the operations on a host (add_host's merge, the uncovering of a static  *)
(* root, remove_container) has a lemma, the operations on the table follow *)
(* host by host, and each action is one or two of them.  That nothing is   *)
(* lost (Present) is the other half: a host's locations after an operation *)
(* are those before it, but for what the operation is to remove.           *)
(***************************************************************************)
EXTENDS Upstreams, TLAPS

Declared(b, v, s, p) == {r \in RoutesOf(b, v) : r.server = s /\ r.path = p}

IsLocation(l) ==
  l = [backends |-> l.backends, ws |-> l.ws, http |-> l.http, limits |-> l.limits, limit |-> l.limit]
IsHost(h) == h = [secured |-> h.secured, redirect |-> h.redirect, locs |-> h.locs, ids |-> h.ids]

\* The limits of a location are those that its backends declare.
LimitsOK(l, s, p, e) ==
  /\ l.limit = Merged(l.limits)
  /\ \A b : b \in DOMAIN l.limits <=>
       b \in l.backends \cap Backends /\ \E r \in Declared(b, e[b], s, p) : r.limit # 0
  /\ \A b \in DOMAIN l.limits : \A r \in Declared(b, e[b], s, p) : l.limits[b] = r.limit

LocOK(l, s, p, e) ==
  /\ IsLocation(l)
  /\ l.backends # {} /\ l.backends \subseteq Ids
  /\ \A id \in l.backends : IsStatic(id) => p = Root /\ l.backends = {s}
  /\ \A b \in l.backends \cap Backends :
       /\ Declared(b, e[b], s, p) # {}
       /\ \A r \in Declared(b, e[b], s, p) : r.ws => l.ws
  /\ LimitsOK(l, s, p, e)

HostOK(h, s, e) ==
  /\ IsHost(h)
  /\ DOMAIN h.locs \subseteq Paths
  /\ h.ids = UNION {h.locs[p].backends : p \in DOMAIN h.locs}
  /\ \A p \in DOMAIN h.locs : LocOK(h.locs[p], s, p, e)

TableOK(c, e) ==
  /\ DOMAIN c \subseteq Servers
  /\ \A s \in DOMAIN c : HostOK(c[s], s, e)

\* b is served at s and p.
Serves(c, b, s, p) == s \in DOMAIN c /\ p \in DOMAIN c[s].locs /\ b \in c[s].locs[p].backends

\* All that the backends of i declare is there.
Present(c, i, e) ==
  \A b \in i \cap Backends : \A r \in RoutesOf(b, e[b]) : Serves(c, b, r.server, r.path)

AllIds(c) == UNION {c[s].ids : s \in DOMAIN c}

TypeOK ==
  /\ env \in [Backends -> Versions]
  /\ todo \subseteq Backends /\ scan \in BOOLEAN

Inv ==
  /\ TypeOK
  /\ TableOK(cfg, env)
  /\ index = AllIds(cfg)
  /\ Present(cfg, index, env)
  /\ todo \cap index = {} /\ (~scan => todo = {})

-----------------------------------------------------------------------------
\* What a location promises depends on the environments of its own backends.
LEMMA LocOKRead ==
  ASSUME NEW l, NEW s, NEW p, NEW e, NEW d, LocOK(l, s, p, e),
         \A b \in l.backends \cap Backends : d[b] = e[b]
  PROVE  LocOK(l, s, p, d)
BY DEF LocOK, LimitsOK

LEMMA TableOKRead ==
  ASSUME NEW c, NEW e, NEW d, NEW b, TableOK(c, e), b \notin AllIds(c),
         \A a \in Backends \ {b} : d[a] = e[a]
  PROVE  TableOK(c, d)
<1>1. ASSUME NEW s \in DOMAIN c, NEW p \in DOMAIN c[s].locs PROVE LocOK(c[s].locs[p], s, p, d)
  <2>1. LocOK(c[s].locs[p], s, p, e) /\ c[s].locs[p].backends \subseteq c[s].ids
    BY <1>1 DEF TableOK, HostOK
  <2>2. b \notin c[s].locs[p].backends
    BY <2>1 DEF AllIds
  <2>3. \A a \in c[s].locs[p].backends \cap Backends : d[a] = e[a]
    BY <2>2
  <2> QED
    BY <2>1, <2>3, LocOKRead
<1> QED
  BY <1>1 DEF TableOK, HostOK

\* The host a backend's environment declares on one server.
LEMMA OwnHostOK ==
  ASSUME NEW b \in Backends, NEW v \in Versions, NEW s \in Servers, NEW e, e[b] = v
  PROVE  /\ HostOK(OwnHost(b, v, s), s, e)
         /\ DOMAIN OwnHost(b, v, s).locs = {r.path : r \in {q \in RoutesOf(b, v) : q.server = s}}
         /\ \A p \in DOMAIN OwnHost(b, v, s).locs : OwnHost(b, v, s).locs[p].backends = {b}
<1> DEFINE routes == {r \in RoutesOf(b, v) : r.server = s}
           h == OwnHost(b, v, s)
           To(p) == CHOOSE r \in routes : r.path = p
<1>1. /\ h.locs = [p \in {r.path : r \in routes} |-> LocationOf(To(p))]
      /\ IsHost(h) /\ h.ids = UNION {h.locs[p].backends : p \in DOMAIN h.locs}
  BY DEF OwnHost, Host, IsHost
<1>2. ASSUME NEW p \in {r.path : r \in routes}
      PROVE  p \in Paths /\ LocOK(h.locs[p], s, p, e) /\ h.locs[p].backends = {b}
  <2> DEFINE r == To(p)
  <2>1. r \in routes /\ r.path = p
    BY <1>2
  <2>2. r \in Routes /\ r.backend = b /\ r.version = v /\ r.server = s
    BY <2>1 DEF RoutesOf
  <2>3. r \in [backend : Backends, version : Versions, server : Servers,
               path : Paths, ws : BOOLEAN, http : BOOLEAN, secured : BOOLEAN,
               limit : Nat, port : Nat]
    BY <2>2, RoutesAssumption
  <2>4. Declared(b, e[b], s, p) = {r}
    BY <2>1, <2>2, RoutesAssumption DEF Declared, RoutesOf
  <2> DEFINE l == h.locs[p]
  <2>5. l = LocationOf(r)
    BY <1>1, <1>2
  <2>6. l.backends = {b} /\ l.ws = r.ws /\ IsLocation(l) /\ l.limit = Merged(l.limits)
    BY <2>2, <2>5 DEF LocationOf, Location, IsLocation
  <2>7. l.limits = IF r.limit = 0 THEN NoLimits ELSE [a \in {b} |-> r.limit]
    BY <2>2, <2>5 DEF LocationOf, Location
  <2> HIDE DEF r, l
  <2>8. LimitsOK(l, s, p, e)
    <3>1. CASE r.limit = 0
      <4>1. DOMAIN l.limits = {}
        BY <2>7, <3>1 DEF NoLimits
      <4> QED
        BY <2>4, <2>6, <3>1, <4>1 DEF LimitsOK
    <3>2. CASE r.limit # 0
      <4>1. DOMAIN l.limits = {b} /\ l.limits[b] = r.limit
        BY <2>7, <3>2
      <4> QED
        BY <2>4, <2>6, <3>2, <4>1 DEF LimitsOK
    <3> QED
      BY <3>1, <3>2
  <2>9. b \notin Servers
    BY NamesAssumption
  <2>10. LocOK(l, s, p, e)
    BY <2>4, <2>6, <2>8, <2>9 DEF LocOK, Ids, IsStatic
  <2> QED
    BY <2>3, <2>1, <2>6, <2>10 DEF l
<1> HIDE DEF h
<1>3. DOMAIN h.locs = {r.path : r \in routes}
  BY <1>1
<1> QED
  BY <1>1, <1>2, <1>3 DEF HostOK, h

\* Two backends' locations on one path.
LEMMA MergeLocationOK ==
  ASSUME NEW l, NEW n, NEW s, NEW p, NEW e, LocOK(l, s, p, e), LocOK(n, s, p, e),
         l.backends \cap n.backends = {}, \A id \in l.backends \cup n.backends : ~IsStatic(id)
  PROVE  LocOK(MergeLocation(l, n), s, p, e)
<1> DEFINE m == MergeLocation(l, n)
<1>1. /\ m.backends = l.backends \cup n.backends /\ m.ws = (l.ws \/ n.ws)
      /\ m.limits = Updated(l.limits, n.limits) /\ m.limit = Merged(m.limits) /\ IsLocation(m)
  BY DEF MergeLocation, Location, IsLocation
<1> HIDE DEF m
<1>2. /\ DOMAIN m.limits = DOMAIN l.limits \cup DOMAIN n.limits
      /\ \A b \in DOMAIN n.limits : m.limits[b] = n.limits[b]
      /\ \A b \in DOMAIN l.limits \ DOMAIN n.limits : m.limits[b] = l.limits[b]
  BY <1>1 DEF Updated
<1>3. LimitsOK(m, s, p, e)
  BY <1>1, <1>2 DEF LimitsOK, LocOK
<1> QED
  BY <1>1, <1>3 DEF LocOK, m

LEMMA MergeHostOK ==
  ASSUME NEW h, NEW g, NEW s, NEW e, HostOK(h, s, e), HostOK(g, s, e),
         \A p \in DOMAIN h.locs \cap DOMAIN g.locs : LocOK(MergeLocation(h.locs[p], g.locs[p]), s, p, e)
  PROVE  /\ HostOK(MergeHost(h, g), s, e)
         /\ MergeHost(h, g).ids = h.ids \cup g.ids
         /\ DOMAIN MergeHost(h, g).locs = DOMAIN h.locs \cup DOMAIN g.locs
         /\ \A p \in DOMAIN h.locs : h.locs[p].backends \subseteq MergeHost(h, g).locs[p].backends
         /\ \A p \in DOMAIN g.locs : g.locs[p].backends \subseteq MergeHost(h, g).locs[p].backends
<1> DEFINE m == MergeHost(h, g)
           locs == [p \in DOMAIN h.locs \cup DOMAIN g.locs |->
                      IF p \notin DOMAIN g.locs THEN h.locs[p]
                      ELSE IF p \notin DOMAIN h.locs THEN g.locs[p]
                      ELSE MergeLocation(h.locs[p], g.locs[p])]
           sec == h.secured \/ g.secured
<1>1. m = [secured |-> sec, redirect |-> h.redirect, locs |-> locs, ids |-> h.ids \cup g.ids]
  <2>1. m = [h EXCEPT !.secured = sec, !.ids = h.ids \cup g.ids, !.locs = locs]
    BY DEF MergeHost
  <2> HIDE DEF m, sec, locs
  <2> QED
    BY <2>1 DEF HostOK, IsHost
<1> HIDE DEF sec
<1>2. m.locs = locs /\ m.ids = h.ids \cup g.ids /\ IsHost(m)
  BY <1>1 DEF IsHost
<1>3. DOMAIN locs = DOMAIN h.locs \cup DOMAIN g.locs
  OBVIOUS
<1>4. \A p \in DOMAIN h.locs \cap DOMAIN g.locs :
        locs[p].backends = h.locs[p].backends \cup g.locs[p].backends
  BY DEF MergeLocation, Location
<1>5. /\ \A p \in DOMAIN h.locs \ DOMAIN g.locs : locs[p] = h.locs[p]
      /\ \A p \in DOMAIN g.locs \ DOMAIN h.locs : locs[p] = g.locs[p]
      /\ \A p \in DOMAIN h.locs \cap DOMAIN g.locs : locs[p] = MergeLocation(h.locs[p], g.locs[p])
  OBVIOUS
<1> HIDE DEF m, locs
<1>6. \A p \in DOMAIN locs : LocOK(locs[p], s, p, e)
  BY <1>3, <1>5 DEF HostOK
<1>7. h.ids \cup g.ids = UNION {locs[p].backends : p \in DOMAIN locs}
  <2>1. h.ids = UNION {h.locs[p].backends : p \in DOMAIN h.locs}
    BY DEF HostOK
  <2>2. g.ids = UNION {g.locs[p].backends : p \in DOMAIN g.locs}
    BY DEF HostOK
  <2>3. ASSUME NEW id \in h.ids PROVE \E p \in DOMAIN locs : id \in locs[p].backends
    BY <2>1, <1>3, <1>4, <1>5
  <2>4. ASSUME NEW id \in g.ids PROVE \E p \in DOMAIN locs : id \in locs[p].backends
    BY <2>2, <1>3, <1>4, <1>5
  <2>5. ASSUME NEW p \in DOMAIN locs, NEW id \in locs[p].backends PROVE id \in h.ids \cup g.ids
    BY <2>1, <2>2, <1>3, <1>4, <1>5
  <2> QED
    BY <2>3, <2>4, <2>5
<1>8. HostOK(m, s, e)
  BY <1>2, <1>3, <1>6, <1>7 DEF HostOK
<1>9. /\ \A p \in DOMAIN h.locs : h.locs[p].backends \subseteq locs[p].backends
      /\ \A p \in DOMAIN g.locs : g.locs[p].backends \subseteq locs[p].backends
  BY <1>4, <1>5
<1> QED
  BY <1>2, <1>3, <1>8, <1>9 DEF m

\* remove_container, one location.
LEMMA RemovedLocOK ==
  ASSUME NEW l, NEW s, NEW p, NEW e, NEW b, LocOK(l, s, p, e), l.backends \ {b} # {}
  PROVE  LocOK([WithoutLimit(l, b) EXCEPT !.backends = l.backends \ {b}], s, p, e)
<1> DEFINE limits == Restrict(l.limits, DOMAIN l.limits \ {b})
           m == [WithoutLimit(l, b) EXCEPT !.backends = l.backends \ {b}]
<1>1. m = [backends |-> l.backends \ {b}, ws |-> l.ws, http |-> l.http, limits |-> limits,
           limit |-> Merged(limits)]
  <2> DEFINE w == WithoutLimit(l, b)
             merged == Merged(limits)
  <2>1. w = [l EXCEPT !.limits = limits, !.limit = merged]
    BY DEF WithoutLimit
  <2> HIDE DEF limits, merged, w
  <2>2. w = [backends |-> l.backends, ws |-> l.ws, http |-> l.http, limits |-> limits, limit |-> merged]
    BY <2>1 DEF LocOK, IsLocation
  <2>3. [w EXCEPT !.backends = l.backends \ {b}]
        = [backends |-> l.backends \ {b}, ws |-> l.ws, http |-> l.http, limits |-> limits, limit |-> merged]
    BY <2>2
  <2> QED
    BY <2>3 DEF w, merged
<1>2. /\ m.backends = l.backends \ {b} /\ m.ws = l.ws /\ m.limits = limits
      /\ m.limit = Merged(m.limits) /\ IsLocation(m)
  BY <1>1 DEF IsLocation
<1>3. DOMAIN limits = DOMAIN l.limits \ {b} /\ \A a \in DOMAIN limits : limits[a] = l.limits[a]
  BY DEF Restrict
<1> HIDE DEF m, limits
<1>4. LimitsOK(m, s, p, e)
  BY <1>2, <1>3 DEF LimitsOK, LocOK
<1> QED
  BY <1>2, <1>4 DEF LocOK, m

LEMMA RemovedFromOK ==
  ASSUME NEW h, NEW s, NEW e, NEW b, HostOK(h, s, e)
  PROVE  /\ HostOK(RemovedFrom(h, b), s, e)
         /\ RemovedFrom(h, b).ids = h.ids \ {b}
         /\ \A p \in DOMAIN h.locs : \A a \in h.locs[p].backends \ {b} :
              p \in DOMAIN RemovedFrom(h, b).locs /\ a \in RemovedFrom(h, b).locs[p].backends
<1>1. CASE b \notin h.ids
  <2>1. RemovedFrom(h, b) = h /\ h.ids \ {b} = h.ids
    BY <1>1 DEF RemovedFrom
  <2> QED
    BY <2>1
<1>2. CASE b \in h.ids
  <2> DEFINE m == RemovedFrom(h, b)
             stay == {p \in DOMAIN h.locs : h.locs[p].backends \ {b} # {}}
             locs == [p \in stay |->
                        [WithoutLimit(h.locs[p], b) EXCEPT !.backends = h.locs[p].backends \ {b}]]
  <2>1. m = [secured |-> h.secured, redirect |-> h.redirect, locs |-> locs, ids |-> h.ids \ {b}]
    <3>1. m = [h EXCEPT !.ids = h.ids \ {b}, !.locs = locs]
      BY <1>2 DEF RemovedFrom
    <3> HIDE DEF m, locs
    <3> QED
      BY <3>1 DEF HostOK, IsHost
  <2>2. m.locs = locs /\ m.ids = h.ids \ {b} /\ IsHost(m)
    BY <2>1 DEF IsHost
  <2>3. \A p \in stay : LocOK(locs[p], s, p, e)
    <3> SUFFICES ASSUME NEW p \in stay PROVE LocOK(locs[p], s, p, e)
      OBVIOUS
    <3>1. LocOK(h.locs[p], s, p, e) /\ h.locs[p].backends \ {b} # {}
      BY DEF HostOK
    <3> QED
      BY <3>1, RemovedLocOK
  <2>4. \A p \in stay : locs[p].backends = h.locs[p].backends \ {b}
    <3> SUFFICES ASSUME NEW p \in stay PROVE locs[p].backends = h.locs[p].backends \ {b}
      OBVIOUS
    <3>1. IsLocation(h.locs[p])
      BY DEF HostOK, LocOK
    <3>2. "backends" \in DOMAIN WithoutLimit(h.locs[p], b)
      BY <3>1 DEF WithoutLimit, IsLocation
    <3> QED
      BY <3>2
  <2>5. DOMAIN locs = stay
    OBVIOUS
  <2> HIDE DEF m, locs
  <2>6. h.ids \ {b} = UNION {locs[p].backends : p \in DOMAIN locs}
    BY <2>4, <2>5 DEF HostOK
  <2>7. stay \subseteq Paths
    BY DEF HostOK
  <2>8. HostOK(m, s, e)
    <3> HIDE DEF stay
    <3> QED
      BY <2>2, <2>3, <2>5, <2>6, <2>7 DEF HostOK
  <2> QED
    BY <2>2, <2>4, <2>5, <2>8 DEF m
<1> QED
  BY <1>1, <1>2

LEMMA RemovedOK ==
  ASSUME NEW c, NEW e, NEW b, TableOK(c, e)
  PROVE  /\ TableOK(Removed(c, b), e)
         /\ AllIds(Removed(c, b)) = AllIds(c) \ {b}
         /\ \A a, s, p : a # b /\ Serves(c, a, s, p) => Serves(Removed(c, b), a, s, p)
<1> DEFINE d == Removed(c, b)
<1>1. DOMAIN d = DOMAIN c /\ \A s \in DOMAIN c : d[s] = RemovedFrom(c[s], b)
  BY DEF Removed
<1>2. ASSUME NEW s \in DOMAIN c
      PROVE  /\ HostOK(d[s], s, e)
             /\ d[s].ids = c[s].ids \ {b}
             /\ \A p \in DOMAIN c[s].locs : \A a \in c[s].locs[p].backends \ {b} :
                  p \in DOMAIN d[s].locs /\ a \in d[s].locs[p].backends
  <2>1. HostOK(c[s], s, e)
    BY DEF TableOK
  <2> QED
    BY <1>1, <2>1, RemovedFromOK
<1> HIDE DEF d
<1>3. TableOK(d, e)
  BY <1>1, <1>2 DEF TableOK
<1>4. AllIds(d) = AllIds(c) \ {b}
  BY <1>1, <1>2 DEF AllIds
<1>5. \A a, s, p : a # b /\ Serves(c, a, s, p) => Serves(d, a, s, p)
  BY <1>1, <1>2 DEF Serves
<1> QED
  BY <1>3, <1>4, <1>5 DEF d

\* A static root gives way: what is left of host h when u is.
Uncovered(u, h, b, v, s, e, st) ==
  /\ HostOK(u, s, e)
  /\ u.ids = h.ids \ st
  /\ DOMAIN u.locs \subseteq DOMAIN h.locs
  /\ \A p \in DOMAIN u.locs : u.locs[p] = h.locs[p]
  /\ \A p \in DOMAIN h.locs : \A a \in h.locs[p].backends \cap Backends : p \in DOMAIN u.locs
  /\ Root \in DOMAIN u.locs /\ (\E r \in RoutesOf(b, v) : r.server = s /\ r.path = Root)
       => \A id \in u.locs[Root].backends : ~IsStatic(id)

LEMMA UncoverOK ==
  ASSUME NEW c, NEW e, NEW b, NEW v, NEW s \in DOMAIN c, TableOK(c, e)
  PROVE  Uncovered(Uncover(c[s], Overridden(c, b, v, s)), c[s], b, v, s, e, Overridden(c, b, v, s))
<1> USE DEF Uncovered
<1> DEFINE h == c[s]
           st == Overridden(c, b, v, s)
           u == Uncover(h, st)
<1>1. HostOK(h, s, e)
  BY DEF TableOK
<1>2. CASE st = {}
  <2>1. u = h
    BY <1>2 DEF Uncover
  <2>2. Root \in DOMAIN h.locs /\ (\E r \in RoutesOf(b, v) : r.server = s /\ r.path = Root)
          => \A id \in h.locs[Root].backends : ~IsStatic(id)
    BY <1>2 DEF Overridden, StaticRoot
  <2> QED
    BY <1>1, <1>2, <2>1, <2>2
<1>3. CASE st # {}
  <2>1. Root \in DOMAIN h.locs /\ st = {id \in h.locs[Root].backends : IsStatic(id)}
    BY <1>3 DEF Overridden, StaticRoot
  <2>2. h.locs[Root].backends = {s} /\ st = {s}
    BY <1>1, <1>3, <2>1 DEF HostOK, LocOK
  <2>3. s \in Servers /\ s \notin Backends
    BY NamesAssumption DEF TableOK
  <2> DEFINE locs == [p \in DOMAIN h.locs \ {Root} |-> h.locs[p]]
  <2>4. u = [secured |-> h.secured, redirect |-> h.redirect, locs |-> locs, ids |-> h.ids \ st]
    <3>1. u = [h EXCEPT !.ids = h.ids \ st, !.locs = locs]
      BY <1>3 DEF Uncover
    <3> HIDE DEF u, h, locs, st
    <3> QED
      BY <1>1, <3>1 DEF HostOK, IsHost
  <2>5. u.locs = locs /\ u.ids = h.ids \ st /\ IsHost(u)
    BY <2>4 DEF IsHost
  <2>6. DOMAIN locs = DOMAIN h.locs \ {Root} /\ \A p \in DOMAIN locs : locs[p] = h.locs[p]
    OBVIOUS
  <2> HIDE DEF u, h, locs, st
  <2>7. \A p \in DOMAIN locs : s \notin locs[p].backends
    BY <1>1, <2>3, <2>6 DEF HostOK, LocOK, IsStatic
  <2>8. h.ids \ st = UNION {locs[p].backends : p \in DOMAIN locs}
    BY <1>1, <2>1, <2>2, <2>6, <2>7 DEF HostOK
  <2>9. HostOK(u, s, e)
    BY <1>1, <2>5, <2>6, <2>8 DEF HostOK
  <2>10. \A p \in DOMAIN h.locs : \A a \in h.locs[p].backends \cap Backends : p \in DOMAIN locs
    BY <2>2, <2>3, <2>6
  <2> QED
    BY <2>5, <2>6, <2>9, <2>10 DEF u, h, st
<1> QED
  BY <1>2, <1>3

\* add_host of b's host on one server of the table.
LEMMA RegisteredHostOK ==
  ASSUME NEW c, NEW e, NEW b \in Backends, NEW v \in Versions, NEW s \in OwnServers(b, v),
         TableOK(c, e), e[b] = v, b \notin AllIds(c)
  PROVE  LET H == Registered(c, b, v)[s] IN
         /\ s \in Servers /\ HostOK(H, s, e)
         /\ H.ids = ((IF s \in DOMAIN c THEN c[s].ids ELSE {}) \ Overridden(c, b, v, s))
                    \cup {r.backend : r \in {q \in RoutesOf(b, v) : q.server = s}}
         /\ s \in DOMAIN c => \A p \in DOMAIN c[s].locs : \A a \in c[s].locs[p].backends \cap Backends :
              p \in DOMAIN H.locs /\ a \in H.locs[p].backends
         /\ \A r \in RoutesOf(b, v) : r.server = s =>
              r.path \in DOMAIN H.locs /\ b \in H.locs[r.path].backends
<1> DEFINE g == OwnHost(b, v, s)
           H == Registered(c, b, v)[s]
           mine == {r.backend : r \in {q \in RoutesOf(b, v) : q.server = s}}
<1>1. s \in Servers
  <2>1. \A r \in RoutesOf(b, v) : r.server \in Servers
    BY RoutesAssumption DEF RoutesOf
  <2>2. \A r \in RedirectsOf(b, v) : r.source \in Servers /\ r.target \in Servers
    BY RedirectsAssumption DEF RedirectsOf
  <2> QED
    BY <2>1, <2>2 DEF OwnServers
<1>2. /\ HostOK(g, s, e)
      /\ DOMAIN g.locs = {r.path : r \in {q \in RoutesOf(b, v) : q.server = s}}
      /\ \A p \in DOMAIN g.locs : g.locs[p].backends = {b}
  BY <1>1, OwnHostOK
<1>3. g.ids = mine
  <2>1. g.ids = UNION {g.locs[p].backends : p \in DOMAIN g.locs}
    BY <1>2 DEF HostOK
  <2>2. \A r \in RoutesOf(b, v) : r.backend = b
    BY DEF RoutesOf
  <2> HIDE DEF g
  <2> QED
    BY <1>2, <2>1, <2>2
<1>4. CASE s \notin DOMAIN c
  <2>1. H = g
    BY <1>4 DEF Registered
  <2>2. Overridden(c, b, v, s) = {}
    BY <1>4 DEF Overridden, StaticRoot
  <2> HIDE DEF g, H
  <2> QED
    BY <1>1, <1>2, <1>3, <1>4, <2>1, <2>2 DEF H
<1>5. CASE s \in DOMAIN c
  <2> DEFINE st == Overridden(c, b, v, s)
             u == Uncover(c[s], st)
  <2>1. H = MergeHost(u, g)
    BY <1>5 DEF Registered
  <2>2. /\ HostOK(u, s, e)
        /\ u.ids = c[s].ids \ st
        /\ DOMAIN u.locs \subseteq DOMAIN c[s].locs
        /\ \A p \in DOMAIN u.locs : u.locs[p] = c[s].locs[p]
        /\ \A p \in DOMAIN c[s].locs : \A a \in c[s].locs[p].backends \cap Backends : p \in DOMAIN u.locs
        /\ Root \in DOMAIN u.locs /\ (\E r \in RoutesOf(b, v) : r.server = s /\ r.path = Root)
             => \A id \in u.locs[Root].backends : ~IsStatic(id)
    <3>1. Uncovered(u, c[s], b, v, s, e, st)
      BY <1>5, UncoverOK, Zenon
    <3> HIDE DEF u, st
    <3> QED
      BY <3>1 DEF Uncovered
  <2>3. b \notin u.ids
    BY <1>5, <2>2 DEF AllIds
  <2> HIDE DEF g, H, st, u
  <2>4. ASSUME NEW p \in DOMAIN u.locs \cap DOMAIN g.locs
        PROVE  LocOK(MergeLocation(u.locs[p], g.locs[p]), s, p, e)
    <3>1. LocOK(u.locs[p], s, p, e) /\ LocOK(g.locs[p], s, p, e)
      BY <1>2, <2>2 DEF HostOK
    <3>2. g.locs[p].backends = {b} /\ ~IsStatic(b)
      BY <1>2, NamesAssumption DEF IsStatic
    <3>3. b \notin u.locs[p].backends
      BY <2>2, <2>3 DEF HostOK
    <3>4. \A id \in u.locs[p].backends : ~IsStatic(id)
      <4>1. CASE p # Root
        BY <3>1, <4>1 DEF LocOK
      <4>2. CASE p = Root
        BY <1>2, <2>2, <4>2
      <4> QED
        BY <4>1, <4>2
    <3>5. u.locs[p].backends \cap g.locs[p].backends = {}
      BY <3>2, <3>3
    <3>6. \A id \in u.locs[p].backends \cup g.locs[p].backends : ~IsStatic(id)
      BY <3>2, <3>4
    <3> QED
      BY <3>1, <3>5, <3>6, MergeLocationOK
  <2>5. /\ HostOK(H, s, e)
        /\ H.ids = u.ids \cup g.ids
        /\ DOMAIN H.locs = DOMAIN u.locs \cup DOMAIN g.locs
        /\ \A p \in DOMAIN u.locs : u.locs[p].backends \subseteq H.locs[p].backends
        /\ \A p \in DOMAIN g.locs : g.locs[p].backends \subseteq H.locs[p].backends
    BY <1>2, <2>1, <2>2, <2>4, MergeHostOK
  <2>6. \A p \in DOMAIN c[s].locs : \A a \in c[s].locs[p].backends \cap Backends :
          p \in DOMAIN H.locs /\ a \in H.locs[p].backends
    BY <2>2, <2>5
  <2>7. \A r \in RoutesOf(b, v) : r.server = s =>
          r.path \in DOMAIN H.locs /\ b \in H.locs[r.path].backends
    BY <1>2, <2>5
  <2>8. H.ids = (c[s].ids \ st) \cup mine
    BY <1>3, <2>2, <2>5
  <2> QED
    BY <1>1, <1>5, <2>5, <2>6, <2>7, <2>8 DEF H, st
<1> QED
  BY <1>4, <1>5

LEMMA RegisteredOK ==
  ASSUME NEW c, NEW e, NEW b \in Backends, NEW v \in Versions,
         TableOK(c, e), e[b] = v, b \notin AllIds(c)
  PROVE  /\ TableOK(Registered(c, b, v), e)
         /\ AllIds(Registered(c, b, v)) = IndexRegistered(AllIds(c), c, b, v)
         /\ \A a \in Backends : \A s, p : Serves(c, a, s, p) => Serves(Registered(c, b, v), a, s, p)
         /\ \A r \in RoutesOf(b, v) : Serves(Registered(c, b, v), b, r.server, r.path)
<1> DEFINE d == Registered(c, b, v)
           own == OwnServers(b, v)
           st(s) == Overridden(c, b, v, s)
           mine(s) == {r.backend : r \in {q \in RoutesOf(b, v) : q.server = s}}
<1>1. DOMAIN d = DOMAIN c \cup own /\ \A s \in DOMAIN c \ own : d[s] = c[s]
  BY DEF Registered
<1>2. ASSUME NEW s \in own
      PROVE  /\ s \in Servers /\ HostOK(d[s], s, e)
             /\ d[s].ids = ((IF s \in DOMAIN c THEN c[s].ids ELSE {}) \ st(s)) \cup mine(s)
             /\ s \in DOMAIN c => \A p \in DOMAIN c[s].locs : \A a \in c[s].locs[p].backends \cap Backends :
                  p \in DOMAIN d[s].locs /\ a \in d[s].locs[p].backends
             /\ \A r \in RoutesOf(b, v) : r.server = s =>
                  r.path \in DOMAIN d[s].locs /\ b \in d[s].locs[r.path].backends
  BY RegisteredHostOK
<1>3. \A r \in RoutesOf(b, v) : r.server \in own /\ r.backend = b /\ r.server \in Servers
  BY RoutesAssumption DEF OwnServers, RoutesOf
<1>4. ASSUME NEW s \in Servers PROVE st(s) \subseteq {s} /\ (st(s) # {} => s \in own /\ s \in DOMAIN c)
  <2>1. SUFFICES ASSUME NEW id \in st(s) PROVE id = s /\ s \in own /\ s \in DOMAIN c
    OBVIOUS
  <2>2. /\ s \in DOMAIN c /\ Root \in DOMAIN c[s].locs /\ id \in c[s].locs[Root].backends
        /\ IsStatic(id) /\ \E r \in RoutesOf(b, v) : r.server = s
    BY <2>1 DEF Overridden, StaticRoot
  <2>3. LocOK(c[s].locs[Root], s, Root, e)
    BY <2>2 DEF TableOK, HostOK
  <2> QED
    BY <1>3, <2>2, <2>3 DEF LocOK
<1>5. ASSUME NEW s \in DOMAIN c, NEW t \in Servers, t \in c[s].ids PROVE t = s
  <2>1. HostOK(c[s], s, e)
    BY DEF TableOK
  <2>2. PICK p \in DOMAIN c[s].locs : t \in c[s].locs[p].backends
    BY <1>5, <2>1 DEF HostOK
  <2> QED
    BY <2>1, <2>2 DEF HostOK, LocOK, IsStatic
<1> HIDE DEF d, st
<1>6. TableOK(d, e)
  BY <1>1, <1>2 DEF TableOK
<1>7. AllIds(d) = IndexRegistered(AllIds(c), c, b, v)
  <2> DEFINE all == IndexRegistered(AllIds(c), c, b, v)
  <2>1. all = (AllIds(c) \ UNION {st(s) : s \in Servers}) \cup {r.backend : r \in RoutesOf(b, v)}
    BY DEF IndexRegistered, st
  <2>2. ASSUME NEW s \in DOMAIN d, NEW id \in d[s].ids PROVE id \in all
    <3>1. CASE s \notin own
      <4>1. s \in DOMAIN c /\ id \in c[s].ids /\ s \in Servers
        BY <1>1, <2>2, <3>1 DEF TableOK
      <4>2. \A t \in Servers : id \notin st(t)
        BY <1>4, <1>5, <3>1, <4>1
      <4> QED
        BY <2>1, <4>1, <4>2 DEF AllIds
    <3>2. CASE s \in own /\ id \in mine(s)
      BY <2>1, <3>2
    <3>3. CASE s \in own /\ id \notin mine(s)
      <4>1. s \in DOMAIN c /\ id \in c[s].ids /\ s \in Servers /\ id \notin st(s)
        BY <1>2, <3>3
      <4>2. \A t \in Servers : id \notin st(t)
        BY <1>4, <1>5, <4>1
      <4> QED
        BY <2>1, <4>1, <4>2 DEF AllIds
    <3> QED
      BY <3>1, <3>2, <3>3
  <2>3. ASSUME NEW id \in all PROVE \E s \in DOMAIN d : id \in d[s].ids
    <3>1. CASE \E r \in RoutesOf(b, v) : id = r.backend
      <4>1. PICK r \in RoutesOf(b, v) : id = r.backend
        BY <3>1
      <4>2. r.server \in own /\ id \in mine(r.server)
        BY <1>3, <4>1
      <4> QED
        BY <1>1, <1>2, <4>2
    <3>2. CASE ~\E r \in RoutesOf(b, v) : id = r.backend
      <4>1. id \in AllIds(c) /\ \A s \in Servers : id \notin st(s)
        BY <2>1, <2>3, <3>2
      <4>2. PICK s \in DOMAIN c : id \in c[s].ids
        BY <4>1 DEF AllIds
      <4>3. s \in Servers
        BY DEF TableOK
      <4> QED
        BY <1>1, <1>2, <4>1, <4>2, <4>3
    <3> QED
      BY <3>1, <3>2
  <2> QED
    BY <2>2, <2>3 DEF AllIds
<1>8. \A a \in Backends : \A s, p : Serves(c, a, s, p) => Serves(d, a, s, p)
  BY <1>1, <1>2 DEF Serves
<1>9. \A r \in RoutesOf(b, v) : Serves(d, b, r.server, r.path)
  BY <1>1, <1>2, <1>3 DEF Serves
<1> QED
  BY <1>6, <1>7, <1>8, <1>9 DEF d

\* _register_static_sites.
LEMMA StaticHostOK ==
  ASSUME NEW s \in Sites, NEW e
  PROVE  /\ HostOK(StaticHost(s), s, e) /\ StaticHost(s).ids = {s}
         /\ DOMAIN StaticHost(s).locs = {Root}
<1> DEFINE l == Location({s}, FALSE, TRUE, NoLimits)
           h == StaticHost(s)
<1>1. /\ l.backends = {s} /\ l.limits = NoLimits /\ l.limit = Merged(l.limits) /\ IsLocation(l)
  BY DEF Location, IsLocation
<1>2. s \in Servers /\ s \notin Backends /\ Root \in Paths
  BY NamesAssumption
<1>3. DOMAIN NoLimits = {}
  BY DEF NoLimits
<1> HIDE DEF l
<1>4. LocOK(l, s, Root, e)
  BY <1>1, <1>2, <1>3 DEF LocOK, LimitsOK, Ids
<1> DEFINE locs == [p \in {Root} |-> l]
<1>5. h.locs = locs /\ h.ids = UNION {locs[p].backends : p \in DOMAIN locs} /\ IsHost(h)
  BY DEF StaticHost, Host, IsHost, l
<1>6. DOMAIN locs = {Root} /\ locs[Root] = l
  OBVIOUS
<1>7. UNION {locs[p].backends : p \in DOMAIN locs} = {s}
  BY <1>1, <1>6
<1> HIDE DEF h, locs
<1> QED
  BY <1>2, <1>4, <1>5, <1>6, <1>7 DEF HostOK, h

LEMMA WithStaticsOK ==
  ASSUME NEW c, NEW e, TableOK(c, e)
  PROVE  /\ TableOK(WithStatics(c), e)
         /\ AllIds(WithStatics(c)) = AllIds(c) \cup FreeSites(c)
         /\ \A a, s, p : Serves(c, a, s, p) => Serves(WithStatics(c), a, s, p)
<1> DEFINE d == WithStatics(c)
           free == FreeSites(c)
<1>1. /\ DOMAIN d = DOMAIN c \cup Sites /\ free \subseteq Sites /\ Sites \subseteq Servers
      /\ \A s \in DOMAIN d \ free : s \in DOMAIN c /\ d[s] = c[s]
  BY NamesAssumption DEF WithStatics, FreeSites
<1>2. ASSUME NEW s \in free
      PROVE  /\ HostOK(d[s], s, e)
             /\ d[s].ids = (IF s \in DOMAIN c THEN c[s].ids ELSE {}) \cup {s}
             /\ s \in DOMAIN c => \A p \in DOMAIN c[s].locs :
                  p \in DOMAIN d[s].locs /\ c[s].locs[p].backends \subseteq d[s].locs[p].backends
  <2> DEFINE g == StaticHost(s)
  <2>1. HostOK(g, s, e) /\ g.ids = {s} /\ DOMAIN g.locs = {Root}
    BY <1>1, StaticHostOK
  <2>2. CASE s \notin DOMAIN c
    <3>1. d[s] = g
      BY <1>1, <2>2 DEF WithStatics
    <3> QED
      BY <2>1, <2>2, <3>1
  <2>3. CASE s \in DOMAIN c
    <3> DEFINE h == c[s]
               m == MergeHost(h, g)
    <3>1. d[s] = m
      BY <1>1, <2>3 DEF WithStatics
    <3>2. HostOK(h, s, e) /\ Root \notin DOMAIN h.locs
      BY <2>3 DEF TableOK, FreeSites
    <3> HIDE DEF d, g, h
    <3>3. DOMAIN h.locs \cap DOMAIN g.locs = {}
      BY <2>1, <3>2
    <3>4. /\ HostOK(m, s, e) /\ m.ids = h.ids \cup g.ids
          /\ DOMAIN m.locs = DOMAIN h.locs \cup DOMAIN g.locs
          /\ \A p \in DOMAIN h.locs : h.locs[p].backends \subseteq m.locs[p].backends
      BY <2>1, <3>2, <3>3, MergeHostOK
    <3> HIDE DEF m
    <3> QED
      BY <2>1, <2>3, <3>1, <3>4 DEF h
  <2> QED
    BY <2>2, <2>3
<1> HIDE DEF d, free
<1>3. TableOK(d, e)
  BY <1>1, <1>2 DEF TableOK
<1>4. AllIds(d) = AllIds(c) \cup free
  <2>1. ASSUME NEW s \in DOMAIN d, NEW id \in d[s].ids PROVE id \in AllIds(c) \cup free
    BY <1>1, <1>2, <2>1 DEF AllIds
  <2>2. ASSUME NEW s \in DOMAIN c, NEW id \in c[s].ids PROVE id \in AllIds(d)
    BY <1>1, <1>2, <2>2 DEF AllIds
  <2>3. free \subseteq AllIds(d)
    BY <1>1, <1>2 DEF AllIds
  <2>4. AllIds(c) \subseteq AllIds(d)
    BY <2>2 DEF AllIds
  <2>5. AllIds(d) \subseteq AllIds(c) \cup free
    BY <2>1 DEF AllIds
  <2> QED
    BY <2>3, <2>4, <2>5
<1>5. \A a, s, p : Serves(c, a, s, p) => Serves(d, a, s, p)
  BY <1>1, <1>2 DEF Serves
<1> QED
  BY <1>3, <1>4, <1>5 DEF d, free
-----------------------------------------------------------------------------
\* register_backend with the environment just read: d, t and i become e, c and
\* its backends.
Adds(d, t, i, e, c, b, v) ==
  /\ d = [e EXCEPT ![b] = v]
  /\ t = Registered(c, b, v)
  /\ i = IndexRegistered(AllIds(c), c, b, v)

LEMMA AddOK ==
  ASSUME NEW c, NEW e, NEW b \in Backends, NEW v \in Versions, NEW d, NEW t, NEW i,
         e \in [Backends -> Versions],
         TableOK(c, e), Present(c, AllIds(c), e), b \notin AllIds(c), Adds(d, t, i, e, c, b, v)
  PROVE  /\ TableOK(t, d) /\ AllIds(t) = i /\ Present(t, i, d)
         /\ i \cap Backends \subseteq AllIds(c) \cup {b}
<1>1. d \in [Backends -> Versions] /\ d[b] = v /\ \A a \in Backends \ {b} : d[a] = e[a]
  BY DEF Adds
<1>2. TableOK(c, d)
  BY <1>1, TableOKRead
<1>3. /\ TableOK(t, d) /\ AllIds(t) = i
      /\ \A a \in Backends : \A s, p : Serves(c, a, s, p) => Serves(t, a, s, p)
      /\ \A r \in RoutesOf(b, v) : Serves(t, b, r.server, r.path)
  <2> DEFINE u == Registered(c, b, v)
  <2>1. /\ TableOK(u, d) /\ AllIds(u) = IndexRegistered(AllIds(c), c, b, v)
        /\ \A a \in Backends : \A s, p : Serves(c, a, s, p) => Serves(u, a, s, p)
        /\ \A r \in RoutesOf(b, v) : Serves(u, b, r.server, r.path)
    BY <1>1, <1>2, RegisteredOK
  <2>2. t = u /\ i = IndexRegistered(AllIds(c), c, b, v)
    BY DEF Adds
  <2> HIDE DEF u
  <2> QED
    BY <2>1, <2>2
<1>4. i \cap Backends \subseteq AllIds(c) \cup {b}
  BY DEF Adds, IndexRegistered, RoutesOf
<1>5. Present(t, i, d)
  <2> SUFFICES ASSUME NEW a \in i \cap Backends, NEW r \in RoutesOf(a, d[a])
               PROVE  Serves(t, a, r.server, r.path)
    BY DEF Present
  <2>1. CASE a = b
    BY <1>1, <1>3, <2>1
  <2>2. CASE a # b
    <3>1. a \in AllIds(c) \cap Backends /\ d[a] = e[a]
      BY <1>1, <1>4, <2>2
    <3>2. Serves(c, a, r.server, r.path)
      BY <3>1 DEF Present
    <3> QED
      BY <1>3, <3>2
  <2> QED
    BY <2>1, <2>2
<1> QED
  BY <1>3, <1>4, <1>5

\* remove_container of all hosts.
LEMMA DropOK ==
  ASSUME NEW c, NEW e, NEW b, TableOK(c, e), Present(c, AllIds(c), e)
  PROVE  /\ TableOK(Removed(c, b), e)
         /\ AllIds(Removed(c, b)) = AllIds(c) \ {b}
         /\ Present(Removed(c, b), AllIds(Removed(c, b)), e)
  BY RemovedOK DEF Present

LEMMA StaticsOK ==
  ASSUME NEW c, NEW e, TableOK(c, e), Present(c, AllIds(c), e)
  PROVE  /\ TableOK(WithStatics(c), e)
         /\ AllIds(WithStatics(c)) = AllIds(c) \cup FreeSites(c)
         /\ Present(WithStatics(c), AllIds(WithStatics(c)), e)
         /\ FreeSites(c) \cap Backends = {}
<1>1. FreeSites(c) \cap Backends = {}
  BY NamesAssumption DEF FreeSites
<1> QED
  BY <1>1, WithStaticsOK DEF Present

LEMMA EmptyOK == ASSUME NEW c, NEW e, DOMAIN c = {}
                 PROVE  TableOK(c, e) /\ AllIds(c) = {} /\ Present(c, {}, e)
  BY DEF TableOK, AllIds, Present

LEMMA InitInv == Init => Inv
<1> SUFFICES ASSUME Init PROVE Inv
  OBVIOUS
<1>1. DOMAIN cfg = {} /\ index = {} /\ TypeOK /\ scan
  BY DEF Init, TypeOK
<1> QED
  BY <1>1, EmptyOK DEF Inv

\* A backend that table c does not have is read and registered.
Adding(c, b, v) ==
  /\ TableOK(c, env) /\ Present(c, AllIds(c), env)
  /\ AllIds(c) \subseteq index /\ b \notin AllIds(c)
  /\ Read(b, v)
  /\ cfg' = Registered(c, b, v) /\ index' = IndexRegistered(AllIds(c), c, b, v)
  /\ todo' \subseteq todo /\ b \notin todo' /\ UNCHANGED scan

LEMMA NextInv == ASSUME Inv, [Next]_vars PROVE Inv'
<1>1. /\ TypeOK /\ TableOK(cfg, env) /\ index = AllIds(cfg) /\ Present(cfg, AllIds(cfg), env)
      /\ todo \cap index = {} /\ env \in [Backends -> Versions] /\ (~scan => todo = {})
  BY DEF Inv, TypeOK
<1>2. ASSUME NEW c, NEW b \in Backends, NEW v \in Versions, Adding(c, b, v) PROVE Inv'
  <2>1. env' = [env EXCEPT ![b] = v]
    BY <1>2 DEF Adding, Read
  <2>2. /\ TableOK(cfg', env') /\ index' = AllIds(cfg') /\ Present(cfg', index', env')
        /\ index' \cap Backends \subseteq AllIds(c) \cup {b}
    <3>1. TableOK(c, env) /\ Present(c, AllIds(c), env) /\ b \notin AllIds(c)
      BY <1>2 DEF Adding
    <3>2. cfg' = Registered(c, b, v) /\ index' = IndexRegistered(AllIds(c), c, b, v)
      BY <1>2 DEF Adding
    <3>3. Adds(env', cfg', index', env, c, b, v)
      BY <2>1, <3>2 DEF Adds
    <3> QED
      BY <1>1, <3>1, <3>3, AddOK
  <2>3. todo' \cap index' = {} /\ (~scan' => todo' = {})
    BY <1>1, <1>2, <2>2 DEF Adding, TypeOK
  <2>4. TypeOK'
    BY <1>1, <1>2, <2>1 DEF Adding, TypeOK
  <2> QED
    BY <2>2, <2>3, <2>4 DEF Inv
<1>3. ASSUME NEW b \in Backends, NEW v \in Versions, Register(b, v) PROVE Inv'
  <2>1. /\ ~scan /\ b \notin index /\ Read(b, v) /\ cfg' = Registered(cfg, b, v)
        /\ index' = IndexRegistered(AllIds(cfg), cfg, b, v) /\ todo' = todo /\ scan' = scan
    BY <1>1, <1>3 DEF Register
  <2>2. todo = {}
    BY <2>1 DEF Inv
  <2>3. Adding(cfg, b, v)
    BY <1>1, <2>1, <2>2 DEF Adding
  <2> QED
    BY <1>2, <2>3
<1>4. ASSUME NEW b \in Backends, NEW v \in Versions, Replace(b, v) PROVE Inv'
  <2> DEFINE c == Removed(cfg, b)
  <2>1. TableOK(c, env) /\ AllIds(c) = index \ {b} /\ Present(c, AllIds(c), env)
    BY <1>1, DropOK
  <2>2. /\ ~scan /\ Read(b, v) /\ cfg' = Registered(c, b, v)
        /\ index' = IndexRegistered(AllIds(c), c, b, v) /\ todo' = todo /\ scan' = scan
    BY <2>1, <1>4 DEF Replace
  <2>3. todo = {}
    BY <2>2 DEF Inv
  <2> HIDE DEF c
  <2> QED
    BY <1>2, <2>1, <2>2, <2>3 DEF Adding
<1>5. ASSUME NEW b \in Backends, NEW v \in Versions, RescanBackend(b, v) PROVE Inv'
  <2>1. /\ b \in todo /\ Read(b, v) /\ cfg' = Registered(cfg, b, v)
        /\ index' = IndexRegistered(AllIds(cfg), cfg, b, v) /\ todo' = todo \ {b} /\ scan' = scan
    BY <1>1, <1>5 DEF RescanBackend
  <2>2. b \notin AllIds(cfg) /\ AllIds(cfg) \subseteq index /\ todo' \subseteq todo /\ b \notin todo'
    BY <1>1, <2>1
  <2>3. Adding(cfg, b, v)
    BY <1>1, <2>1, <2>2 DEF Adding
  <2> QED
    BY <1>2, <2>3
<1>6. ASSUME NEW b \in Backends, Unreachable(b) PROVE Inv'
  <2> DEFINE c == Removed(cfg, b)
  <2>1. TableOK(c, env) /\ AllIds(c) = index \ {b} /\ Present(c, AllIds(c), env)
    BY <1>1, DropOK
  <2>2. cfg' = c /\ index' = index \ {b} /\ UNCHANGED <<env, todo, scan>>
    BY <1>6 DEF Unreachable
  <2> HIDE DEF c
  <2> QED
    BY <1>1, <2>1, <2>2 DEF Inv, TypeOK
<1>7. ASSUME NEW b \in Backends, Remove(b) PROVE Inv'
  <2> DEFINE c == Removed(cfg, b)
  <2>1. TableOK(c, env) /\ AllIds(c) = index \ {b} /\ Present(c, AllIds(c), env)
    BY <1>1, DropOK
  <2>2. /\ cfg' = WithStatics(c) /\ index' = (index \ {b}) \cup FreeSites(c)
        /\ UNCHANGED <<env, todo, scan>>
    BY <1>7 DEF Remove
  <2> HIDE DEF c
  <2>3. TableOK(cfg', env) /\ AllIds(cfg') = index' /\ Present(cfg', index', env)
    BY <2>1, <2>2, StaticsOK
  <2>4. todo \cap index' = {}
    BY <1>1, <2>1, <2>2, StaticsOK DEF TypeOK
  <2> QED
    BY <1>1, <2>2, <2>3, <2>4 DEF Inv, TypeOK
<1>8. ASSUME NEW found \in SUBSET Backends, Rescan(found) PROVE Inv'
  <2>1. /\ DOMAIN cfg' = {} /\ index' = {} /\ todo' = found /\ env' = env /\ scan' = TRUE
    BY <1>8 DEF Rescan
  <2>2. TableOK(cfg', env) /\ AllIds(cfg') = {} /\ Present(cfg', {}, env)
    BY <2>1, EmptyOK
  <2> QED
    BY <1>1, <2>1, <2>2 DEF Inv, TypeOK
<1>9. CASE RescanStatics
  <2>1. /\ todo = {} /\ scan' = FALSE /\ cfg' = WithStatics(cfg)
        /\ index' = index \cup FreeSites(cfg) /\ UNCHANGED <<env, todo>>
    BY <1>9 DEF RescanStatics
  <2>2. TableOK(cfg', env) /\ AllIds(cfg') = index' /\ Present(cfg', index', env)
    BY <1>1, <2>1, StaticsOK
  <2> QED
    BY <1>1, <2>1, <2>2 DEF Inv, TypeOK
<1>10. CASE UNCHANGED vars
  BY <1>10 DEF vars, Inv, TypeOK
<1> QED
  BY <1>3, <1>4, <1>5, <1>6, <1>7, <1>8, <1>9, <1>10 DEF Next

LEMMA SpecInv == Spec => []Inv
<1> QED
  BY InitInv, NextInv, PTL DEF Spec
-----------------------------------------------------------------------------
\* The three records of who serves what agree.
THEOREM RecordsAgree == Spec => []IndexAgrees
<1>1. Inv => IndexAgrees
  BY DEF Inv, IndexAgrees, AllIds, TableOK, HostOK, LocOK
<1> QED
  BY <1>1, SpecInv, PTL

\* A static root and a container's route never share a location.
THEOREM StaticsYield == Spec => []StaticYields
<1>1. Inv => StaticYields
  BY DEF Inv, StaticYields, TableOK, HostOK, LocOK
<1> QED
  BY <1>1, SpecInv, PTL

\* The routes of the table are those of the registered backends' environments.
THEOREM RoutesAreDeclared == Spec => []RoutesFollowBackends
<1>1. Inv => RoutesFollowBackends
  <2> SUFFICES ASSUME Inv, NEW b \in Backends, NEW s \in Servers, NEW p \in Paths
               PROVE  Serves(cfg, b, s, p)
                        <=> (b \in index /\ \E r \in RoutesOf(b, env[b]) : r.server = s /\ r.path = p)
    BY DEF RoutesFollowBackends, Serves
  <2>1. ASSUME Serves(cfg, b, s, p)
        PROVE  b \in index /\ \E r \in RoutesOf(b, env[b]) : r.server = s /\ r.path = p
    <3>1. HostOK(cfg[s], s, env) /\ LocOK(cfg[s].locs[p], s, p, env)
      BY <2>1 DEF Serves, Inv, TableOK, HostOK
    <3>2. b \in cfg[s].ids
      BY <2>1, <3>1 DEF Serves, HostOK
    <3>3. b \in index
      BY <2>1, <3>2 DEF Serves, Inv, AllIds
    <3>4. Declared(b, env[b], s, p) # {}
      BY <2>1, <3>1 DEF Serves, LocOK
    <3> QED
      BY <3>3, <3>4 DEF Declared
  <2>2. ASSUME b \in index, NEW r \in RoutesOf(b, env[b]), r.server = s, r.path = p
        PROVE  Serves(cfg, b, s, p)
    BY <2>2 DEF Inv, Present
  <2> QED
    BY <2>1, <2>2
<1> QED
  BY <1>1, SpecInv, PTL

\* A location's limit is the largest that the backends at it declare now.
THEOREM LimitsAreDeclared == Spec => []LimitsFollowBackends
<1>1. ASSUME Inv, NEW s \in DOMAIN cfg, NEW p \in DOMAIN cfg[s].locs
      PROVE  cfg[s].locs[p].limit =
               Max({0} \cup {r.limit : r \in {q \in Routes :
                      /\ q.backend \in cfg[s].locs[p].backends /\ q.version = env[q.backend]
                      /\ q.server = s /\ q.path = p}})
  <2> DEFINE l == cfg[s].locs[p]
             at == {q \in Routes : /\ q.backend \in l.backends /\ q.version = env[q.backend]
                                   /\ q.server = s /\ q.path = p}
             declared == {r.limit : r \in at}
  <2>1. LimitsOK(l, s, p, env)
    BY <1>1 DEF Inv, TableOK, HostOK, LocOK
  <2> HIDE DEF l
  <2>2. \A q \in at : q.backend \in Backends /\ q \in Declared(q.backend, env[q.backend], s, p)
    BY RoutesAssumption DEF Declared, RoutesOf
  <2>3. ASSUME NEW q \in at PROVE q.limit \in {0} \cup Range(l.limits)
    <3>1. CASE q.limit = 0
      BY <3>1
    <3>2. CASE q.limit # 0
      <4>1. q.backend \in DOMAIN l.limits /\ l.limits[q.backend] = q.limit
        BY <2>1, <2>2, <3>2 DEF LimitsOK
      <4> QED
        BY <4>1 DEF Range
    <3> QED
      BY <3>1, <3>2
  <2>4. ASSUME NEW x \in Range(l.limits) PROVE x \in declared
    <3>1. PICK b \in DOMAIN l.limits : x = l.limits[b]
      BY DEF Range
    <3>2. b \in l.backends \cap Backends /\ \E r \in Declared(b, env[b], s, p) : r.limit # 0
      BY <2>1 DEF LimitsOK
    <3>3. PICK r \in Declared(b, env[b], s, p) : TRUE
      BY <3>2
    <3>4. r.limit = x /\ r \in at
      BY <2>1, <3>1, <3>2 DEF LimitsOK, Declared, RoutesOf
    <3> QED
      BY <3>4
  <2>5. {0} \cup Range(l.limits) = {0} \cup declared
    BY <2>3, <2>4
  <2>6. l.limit = Max({0} \cup Range(l.limits))
    BY <2>1 DEF LimitsOK, Merged
  <2> QED
    BY <2>5, <2>6 DEF l
<1>2. Inv => LimitsFollowBackends
  BY <1>1 DEF LimitsFollowBackends
<1> QED
  BY <1>2, SpecInv, PTL

\* A websocket backend keeps its upgrade.
THEOREM UpgradesStay == Spec => []UpgradesKept
<1>1. Inv => UpgradesKept
  <2> SUFFICES ASSUME Inv, NEW s \in DOMAIN cfg, NEW p \in DOMAIN cfg[s].locs,
                      NEW b \in cfg[s].locs[p].backends,
                      NEW r \in RoutesOf(b, env[b]), r.server = s, r.path = p, r.ws
               PROVE  cfg[s].locs[p].ws
    BY DEF UpgradesKept
  <2>1. LocOK(cfg[s].locs[p], s, p, env)
    BY DEF Inv, TableOK, HostOK
  <2>2. b \in Backends /\ r \in Declared(b, env[b], s, p)
    BY RoutesAssumption DEF Declared, RoutesOf
  <2> QED
    BY <2>1, <2>2 DEF LocOK
<1> QED
  BY <1>1, SpecInv, PTL
-----------------------------------------------------------------------------
\* The servers of an upstream, one for each backend of the location; only a
\* service has local tasks, and a task has none.
LEMMA ServersOfPlace ==
  ASSUME NEW place, NEW preferLocal \in BOOLEAN
  PROVE  /\ {s.backend : s \in ServersAt(place, preferLocal)} = At(place)
         /\ \A s \in ServersAt(place, preferLocal) :
              /\ s.backend \in At(place)
              /\ s.port = AlignedPort(s.backend, place, preferLocal)
              /\ s.backup = IsBackup(s.backend, place, preferLocal)
         /\ \A b \in At(place) : \E s \in ServersAt(place, preferLocal) :
              s.backend = b /\ s.backup = IsBackup(b, place, preferLocal)
<1> DEFINE server(b) == [backend |-> b, port |-> AlignedPort(b, place, preferLocal),
                         backup |-> IsBackup(b, place, preferLocal)]
<1>1. ServersAt(place, preferLocal) = {server(b) : b \in At(place)}
  BY DEF ServersAt
<1>2. \A b : /\ server(b).backend = b
             /\ server(b).port = AlignedPort(b, place, preferLocal)
             /\ server(b).backup = IsBackup(b, place, preferLocal)
  OBVIOUS
<1> HIDE DEF server
<1>3. \A s \in ServersAt(place, preferLocal) :
        /\ s.backend \in At(place)
        /\ s.port = AlignedPort(s.backend, place, preferLocal)
        /\ s.backup = IsBackup(s.backend, place, preferLocal)
  BY <1>1, <1>2
<1>4. \A b \in At(place) : server(b) \in ServersAt(place, preferLocal)
  BY <1>1
<1>5. {s.backend : s \in ServersAt(place, preferLocal)} = At(place)
  BY <1>2, <1>3, <1>4
<1> QED
  BY <1>2, <1>3, <1>4, <1>5

LEMMA OnlyServicesHaveTasks ==
  ASSUME NEW place, NEW b
  PROVE  /\ b \notin Services => LocalTasks(b, place) = {}
         /\ \A t \in LocalTasks(b, place) : t \in At(place) /\ t \notin Services /\ <<t, b>> \in Tasks
<1> QED
  BY TasksAssumption DEF LocalTasks

\* Whatever the order in which the locations come, the upstream a location
\* shares balances over its backends at their ports, nginx accepts it, and local
\* tasks come before the virtual IP of their service.
THEOREM UpstreamsServe == Spec => []UpstreamServes
<1>1. UpstreamServes
  <2> SUFFICES ASSUME NEW place \in Balanced, NEW preferLocal \in BOOLEAN,
                      NEW u \in Upstreams(place, preferLocal)
               PROVE  /\ {s.backend : s \in u.servers} = At(place)
                      /\ \A s \in u.servers :
                           /\ s.backend \notin Services => s.port = Port(s.backend, place)
                           /\ s.backup => /\ ~u.sticky
                                          /\ \E t \in u.servers : ~t.backup /\ <<t.backend, s.backend>> \in Tasks
                           /\ preferLocal /\ ~s.backup => LocalTasks(s.backend, place) = {}
    BY DEF UpstreamServes
  <2>1. PICK first \in Balanced :
          /\ ServersAt(first, preferLocal) = ServersAt(place, preferLocal)
          /\ u = [servers |-> ServersAt(first, preferLocal),
                  sticky |-> /\ ~\E b \in At(first) : IsBackup(b, first, preferLocal)
                             /\ At(first) \cap Sticky # {}]
    BY DEF Upstreams, Key
  <2>2. /\ u.servers = ServersAt(place, preferLocal)
        /\ u.sticky => ~\E b \in At(first) : IsBackup(b, first, preferLocal)
    BY <2>1
  <2>3. {s.backend : s \in u.servers} = At(place)
    BY <2>2, ServersOfPlace
  <2>4. ASSUME NEW s \in u.servers
        PROVE  /\ s.backend \notin Services => s.port = Port(s.backend, place)
               /\ s.backup => /\ ~u.sticky
                              /\ \E t \in u.servers : ~t.backup /\ <<t.backend, s.backend>> \in Tasks
               /\ preferLocal /\ ~s.backup => LocalTasks(s.backend, place) = {}
    <3>1. /\ s.backend \in At(place)
          /\ s.port = AlignedPort(s.backend, place, preferLocal)
          /\ s.backup = IsBackup(s.backend, place, preferLocal)
      BY <2>2, ServersOfPlace
    <3>2. s.backend \notin Services => s.port = Port(s.backend, place)
      BY <3>1, OnlyServicesHaveTasks DEF AlignedPort, IsBackup
    <3>3. s.backup => ~u.sticky
      <4>1. s \in ServersAt(first, preferLocal)
        BY <2>1, <2>2
      <4>2. s.backend \in At(first) /\ s.backup = IsBackup(s.backend, first, preferLocal)
        BY <4>1, ServersOfPlace
      <4> QED
        BY <2>2, <4>2
    <3>4. ASSUME s.backup PROVE \E t \in u.servers : ~t.backup /\ <<t.backend, s.backend>> \in Tasks
      <4>1. PICK t \in LocalTasks(s.backend, place) : TRUE
        BY <3>1, <3>4 DEF IsBackup
      <4>2. t \in At(place) /\ t \notin Services /\ <<t, s.backend>> \in Tasks
        BY OnlyServicesHaveTasks
      <4>3. ~IsBackup(t, place, preferLocal)
        BY <4>2, OnlyServicesHaveTasks DEF IsBackup
      <4>4. PICK r \in u.servers : r.backend = t /\ r.backup = IsBackup(t, place, preferLocal)
        BY <2>2, <4>2, ServersOfPlace
      <4> QED
        BY <4>2, <4>3, <4>4
    <3>5. preferLocal /\ ~s.backup => LocalTasks(s.backend, place) = {}
      BY <3>1 DEF IsBackup
    <3> QED
      BY <3>2, <3>3, <3>4, <3>5
  <2> QED
    BY <2>3, <2>4
<1> QED
  BY <1>1, PTL
=============================================================================
