----------------------------- MODULE ProxyConfig -----------------------------
(***************************************************************************)
(* nginx_proxy/ProxyConfigData.py, Host.py, Location.py and the callers in *)
(* WebServer: the data nginx's config is rendered from.  It is changed     *)
(* incrementally, backend by backend, for as long as the proxy lives; a    *)
(* rescan is what builds it from nothing.  Candidates are taken to pass    *)
(* nginx's test here (WebServer models the refusals).                      *)
(*                                                                         *)
(* A backend's environment declares routes and full redirects.  A server   *)
(* is a (hostname, port) pair; a static site's id is its server, because   *)
(* _register_static_host takes one static root a server.  The environment  *)
(* of a container is fixed, the one of a service changes with an update.   *)
(* Of the directives a route may inject, client_max_body_size stands for   *)
(* those that are merged: its limit, 0 where the route injects none.  The  *)
(* port of a route is that of its backend; Upstreams looks at it.          *)
(***************************************************************************)
EXTENDS Naturals, FiniteSets, FiniteSetsExt, Functions

CONSTANTS
  Backends,    \* containers and services
  Services,    \* the services among them
  Versions,    \* the versions of an environment
  Servers, Paths, Root,
  Sites,       \* the servers with a static site (or a default page)
  Routes,      \* the routes declared, an environment's version each
  Redirects,   \* the full redirects declared
  Nowhere      \* full_redirect = None

ASSUME NamesAssumption ==
  /\ Backends \cap Servers = {} /\ Services \subseteq Backends
  /\ Root \in Paths /\ Sites \subseteq Servers /\ Nowhere \notin Servers
ASSUME RoutesAssumption ==
  /\ Routes \subseteq [backend : Backends, version : Versions, server : Servers,
                       path : Paths, ws : BOOLEAN, http : BOOLEAN, secured : BOOLEAN,
                       limit : Nat, port : Nat]
  /\ \A q, r \in Routes :
       q.backend = r.backend /\ q.version = r.version /\ q.server = r.server /\ q.path = r.path
         => q = r
ASSUME RedirectsAssumption ==
  Redirects \subseteq [backend : Backends, version : Versions, source : Servers, target : Servers]

VARIABLES
  cfg,    \* config_map: a host for some of the servers
  index,  \* ProxyConfigData.backends
  env,    \* the version of its environment a backend was last read with
  todo,   \* the backends a rescan has found and not registered yet
  scan    \* a rescan is under way

vars == <<cfg, index, env, todo, scan>>

Ids == Backends \cup Servers
IsStatic(id) == id \in Servers

-----------------------------------------------------------------------------
\* Location._sync_injected_from_backend_map: of the limits the backends inject
\* (injected_by_backend), the largest is rendered; 0 is no directive.
NoLimits == [b \in {} |-> 0]
Merged(limits) == Max({0} \cup Range(limits))

\* dict.update.
Updated(old, new) ==
  [b \in DOMAIN old \cup DOMAIN new |-> IF b \in DOMAIN new THEN new[b] ELSE old[b]]

\* Seeded fault: a removal forgets to merge again.
WithoutLimitStale(loc, b) ==
  [loc EXCEPT !.limits = Restrict(@, DOMAIN @ \ {b})]

\* Location.remove_backend_extras.
WithoutLimit(loc, b) ==
  LET left == Restrict(loc.limits, DOMAIN loc.limits \ {b}) IN
  [loc EXCEPT !.limits = left, !.limit = Merged(left)]

\* A Location and a Host, and what they are built from.
Location(backends, ws, http, limits) ==
  [backends |-> backends, ws |-> ws, http |-> http, limits |-> limits, limit |-> Merged(limits)]
Host(secured, redirect, locs) ==
  [secured |-> secured, redirect |-> redirect, locs |-> locs,
   ids |-> UNION {locs[p].backends : p \in DOMAIN locs}]

\* Seeded fault: a websocket backend that joins a location does not change it.
MergeForgetsUpgrade(old, new) ==
  Location(old.backends \cup new.backends, old.ws, old.http, Updated(old.limits, new.limits))

\* Host.add_container on a path the host has, and Location.update_extras: the
\* flags only grow, and "http" only with a websocket backend.
MergeLocation(old, new) ==
  Location(old.backends \cup new.backends, old.ws \/ new.ws, old.http \/ (new.ws /\ new.http),
           Updated(old.limits, new.limits))

\* add_host for a server there is already: its redirect stays what it was.
MergeHost(old, new) ==
  [old EXCEPT
    !.secured = @ \/ new.secured,
    !.ids = @ \cup new.ids,
    !.locs = [p \in DOMAIN old.locs \cup DOMAIN new.locs |->
                IF p \notin DOMAIN new.locs THEN old.locs[p]
                ELSE IF p \notin DOMAIN old.locs THEN new.locs[p]
                ELSE MergeLocation(old.locs[p], new.locs[p])]]

\* The location a route makes when it is the first on its path.
LocationOf(r) ==
  Location({r.backend}, r.ws, r.http,
           IF r.limit = 0 THEN NoLimits ELSE [b \in {r.backend} |-> r.limit])

\* process_virtual_hosts and process_redirection: the hosts b's environment
\* declares.  The target of a redirect gets an empty host of its own.
RoutesOf(b, v) == {r \in Routes : r.backend = b /\ r.version = v}
RedirectsOf(b, v) ==
  {r \in Redirects : r.backend = b /\ r.version = v /\ RoutesOf(b, v) # {}}
OwnServers(b, v) == {r.server : r \in RoutesOf(b, v)}
                    \cup UNION {{r.source, r.target} : r \in RedirectsOf(b, v)}

OwnHost(b, v, s) ==
  LET routes == {r \in RoutesOf(b, v) : r.server = s}
      redirects == {r \in RedirectsOf(b, v) : r.source = s}
      RouteTo(p) == CHOOSE r \in routes : r.path = p
  IN Host(\E r \in routes : r.secured,
          IF redirects = {} THEN Nowhere ELSE (CHOOSE r \in redirects : TRUE).target,
          [p \in {r.path : r \in routes} |-> LocationOf(RouteTo(p))])

\* _remove_static_root_if_overridden: the static ids that give way to b's root
\* route on server s, and the host that is left.
StaticRoot(c, s) ==
  IF s \in DOMAIN c /\ Root \in DOMAIN c[s].locs
  THEN {id \in c[s].locs[Root].backends : IsStatic(id)} ELSE {}

Overridden(c, b, v, s) ==
  IF \E r \in RoutesOf(b, v) : r.server = s /\ r.path = Root THEN StaticRoot(c, s) ELSE {}

Uncover(host, static) ==
  IF static = {} THEN host
  ELSE [host EXCEPT !.ids = @ \ static,
                    !.locs = [p \in DOMAIN host.locs \ {Root} |-> host.locs[p]]]

\* Seeded fault: a container's root route joins the static one.
RegisteredBeside(c, b, v) ==
  [s \in DOMAIN c \cup OwnServers(b, v) |->
     IF s \notin OwnServers(b, v) THEN c[s]
     ELSE IF s \notin DOMAIN c THEN OwnHost(b, v, s)
     ELSE MergeHost(c[s], OwnHost(b, v, s))]

\* register_backend(b): add_host for each of its hosts.
Registered(c, b, v) ==
  [s \in DOMAIN c \cup OwnServers(b, v) |->
     IF s \notin OwnServers(b, v) THEN c[s]
     ELSE IF s \notin DOMAIN c THEN OwnHost(b, v, s)
     ELSE MergeHost(Uncover(c[s], Overridden(c, b, v, s)), OwnHost(b, v, s))]

\* The "backends" of ProxyConfigData after it.
IndexRegistered(i, c, b, v) ==
  (i \ UNION {Overridden(c, b, v, s) : s \in Servers}) \cup {r.backend : r \in RoutesOf(b, v)}

\* Seeded fault: the location b leaves empty stays.
RemovedKeepsEmpty(host, b) ==
  [host EXCEPT !.ids = @ \ {b},
               !.locs = [p \in DOMAIN host.locs |->
                           [WithoutLimit(host.locs[p], b) EXCEPT !.backends = @ \ {b}]]]

\* Host.remove_container(b): the host stays, its empty locations go.
RemovedFrom(host, b) ==
  IF b \notin host.ids THEN host
  ELSE LET left(p) == host.locs[p].backends \ {b} IN
       [host EXCEPT !.ids = @ \ {b},
                    !.locs = [p \in {q \in DOMAIN host.locs : left(q) # {}} |->
                                [WithoutLimit(host.locs[p], b) EXCEPT !.backends = left(p)]]]

Removed(c, b) == [s \in DOMAIN c |-> RemovedFrom(c[s], b)]

\* _register_static_host for every static site: it takes a free root.
FreeSites(c) == {s \in Sites : s \notin DOMAIN c \/ Root \notin DOMAIN c[s].locs}
StaticHost(s) == Host(TRUE, Nowhere, [p \in {Root} |-> Location({s}, FALSE, TRUE, NoLimits)])

WithStatics(c) ==
  [s \in DOMAIN c \cup Sites |->
     IF s \notin FreeSites(c) THEN c[s]
     ELSE IF s \in DOMAIN c THEN MergeHost(c[s], StaticHost(s))
     ELSE StaticHost(s)]

-----------------------------------------------------------------------------
Init ==
  /\ cfg = [s \in {} |-> StaticHost(s)] /\ index = {}
  /\ env \in [Backends -> Versions]
  /\ todo \in SUBSET Backends /\ scan = TRUE

\* The environment b is read with: a service may have been updated.
Read(b, v) == (v = env[b] \/ b \in Services) /\ env' = [env EXCEPT ![b] = v]

\* update_backend(b) of a backend that is not registered.
Register(b, v) ==
  /\ ~scan /\ b \notin index
  /\ Read(b, v)
  /\ cfg' = Registered(cfg, b, v)
  /\ index' = IndexRegistered(index, cfg, b, v)
  /\ UNCHANGED <<todo, scan>>

\* Seeded fault: the new environment is read over the old one.
ReplaceAdds(b, v) ==
  /\ ~scan /\ b \in index
  /\ Read(b, v)
  /\ cfg' = Registered(cfg, b, v)
  /\ index' = IndexRegistered(index \ {b}, cfg, b, v)
  /\ UNCHANGED <<todo, scan>>

\* update_backend(b, replace_existing=True) of one that is.
Replace(b, v) ==
  /\ ~scan /\ b \in index
  /\ Read(b, v)
  /\ cfg' = Registered(Removed(cfg, b), b, v)
  /\ index' = IndexRegistered(index \ {b}, Removed(cfg, b), b, v)
  /\ UNCHANGED <<todo, scan>>

\* The same of one that no known network reaches any more (disconnect, or a
\* service without an address): it is removed and no static site comes back.
Unreachable(b) ==
  /\ ~scan /\ b \in index
  /\ cfg' = Removed(cfg, b) /\ index' = index \ {b}
  /\ UNCHANGED <<env, todo, scan>>

\* remove_backend(b), which ends with _register_static_sites.
Remove(b) ==
  /\ ~scan /\ b \in index
  /\ cfg' = WithStatics(Removed(cfg, b))
  /\ index' = (index \ {b}) \cup FreeSites(Removed(cfg, b))
  /\ UNCHANGED <<env, todo, scan>>

\* rescan_all_container: from an empty ProxyConfigData, the backends Docker
\* lists in its order, then the static sites.
Rescan(found) ==
  /\ ~scan /\ scan' = TRUE
  /\ todo' = found
  /\ cfg' = [s \in {} |-> StaticHost(s)] /\ index' = {}
  /\ UNCHANGED env

RescanBackend(b, v) ==
  /\ scan /\ b \in todo
  /\ Read(b, v)
  /\ todo' = todo \ {b}
  /\ cfg' = Registered(cfg, b, v)
  /\ index' = IndexRegistered(index, cfg, b, v)
  /\ UNCHANGED scan

RescanStatics ==
  /\ scan /\ todo = {} /\ scan' = FALSE
  /\ cfg' = WithStatics(cfg)
  /\ index' = index \cup FreeSites(cfg)
  /\ UNCHANGED <<env, todo>>

Next ==
  \/ \E b \in Backends, v \in Versions : Register(b, v) \/ Replace(b, v) \/ RescanBackend(b, v)
  \/ \E b \in Backends : Unreachable(b) \/ Remove(b)
  \/ \E found \in SUBSET Backends : Rescan(found)
  \/ RescanStatics

Spec == Init /\ [][Next]_vars

-----------------------------------------------------------------------------
\* The three records of who serves what agree: ProxyConfigData.backends, which
\* decides whether an event concerns a registered backend; each host's
\* container_set, without which remove_container skips the host; and the
\* locations' own lists, from which nginx's upstreams are rendered.  No list is
\* empty: _render_config takes the first backend of each, and would raise.
IndexAgrees ==
  /\ index = UNION {cfg[s].ids : s \in DOMAIN cfg}
  /\ \A s \in DOMAIN cfg :
       /\ cfg[s].ids = UNION {cfg[s].locs[p].backends : p \in DOMAIN cfg[s].locs}
       /\ \A p \in DOMAIN cfg[s].locs : cfg[s].locs[p].backends # {}

\* A container's route takes the root from a static site: the two never share
\* a location, which the template renders either as files or as a proxy.
StaticYields ==
  \A s \in DOMAIN cfg : \A p \in DOMAIN cfg[s].locs :
    LET at == cfg[s].locs[p].backends IN
    (\E id \in at : IsStatic(id)) => (p = Root /\ at = {s})

\* However it came to be, the table routes to a registered backend exactly what
\* the environment it was last read with declares: neither a route of an
\* earlier environment is left, nor is one lost to a neighbour's removal.
RoutesFollowBackends ==
  \A b \in Backends, s \in Servers, p \in Paths :
    (s \in DOMAIN cfg /\ p \in DOMAIN cfg[s].locs /\ b \in cfg[s].locs[p].backends)
      <=> (b \in index /\ \E r \in RoutesOf(b, env[b]) : r.server = s /\ r.path = p)

\* A location is rendered with the largest limit that the backends at it declare
\* now: a limit of a backend that left, or of an earlier environment, is gone.
LimitsFollowBackends ==
  \A s \in DOMAIN cfg : \A p \in DOMAIN cfg[s].locs :
    cfg[s].locs[p].limit =
      Max({0} \cup {r.limit : r \in {q \in Routes :
             /\ q.backend \in cfg[s].locs[p].backends /\ q.version = env[q.backend]
             /\ q.server = s /\ q.path = p}})

\* A websocket backend is served with the headers of an upgrade, whatever was at
\* its location before it came and whatever leaves it.
UpgradesKept ==
  \A s \in DOMAIN cfg : \A p \in DOMAIN cfg[s].locs : \A b \in cfg[s].locs[p].backends :
    (\E r \in RoutesOf(b, env[b]) : r.server = s /\ r.path = p /\ r.ws) => cfg[s].locs[p].ws

\* A server redirects only where a registered backend declares it.
RedirectDeclared ==
  \A s \in DOMAIN cfg : cfg[s].redirect # Nowhere =>
    \E b \in index \cap Backends : \E r \in RedirectsOf(b, env[b]) :
      r.source = s /\ r.target = cfg[s].redirect
=============================================================================
