------------------------------ MODULE Upstreams ------------------------------
(***************************************************************************)
(* nginx_proxy/post_processors/upstream_processor.py, on the table of      *)
(* ProxyConfig: a location with several backends is served by an upstream, *)
(* which all locations with the same servers share.  In prefer-local mode  *)
(* the virtual IP of a service is only a backup for its own local tasks.   *)
(***************************************************************************)
EXTENDS ProxyConfig

CONSTANTS
  Tasks,      \* <<container, service>>: the label com.docker.swarm.service.id
  Sticky      \* the backends with NGINX_STICKY_SESSION=true; the others have none

ASSUME TasksAssumption == Tasks \subseteq (Backends \ Services) \X Services
ASSUME StickyAssumption == Sticky \subseteq Backends

At(place) == cfg[place[1]].locs[place[2]].backends

\* The locations that get an upstream.
Balanced ==
  {place \in Servers \X Paths :
     /\ place[1] \in DOMAIN cfg /\ place[2] \in DOMAIN cfg[place[1]].locs
     /\ Cardinality(At(place)) > 1}

\* The port of b at a place, as its environment has it.
Port(b, place) ==
  (CHOOSE r \in RoutesOf(b, env[b]) : r.server = place[1] /\ r.path = place[2]).port

LocalTasks(b, place) == {t \in At(place) : <<t, b>> \in Tasks}
IsBackup(b, place, preferLocal) == preferLocal /\ LocalTasks(b, place) # {}

\* _align_service_backup_ports: a service that only defaulted to port 80 takes
\* the port of its local tasks, if they have one in common.
AlignedPort(b, place, preferLocal) ==
  LET ports == {Port(t, place) : t \in LocalTasks(b, place)} IN
  IF IsBackup(b, place, preferLocal) /\ Port(b, place) = 80 /\ Cardinality(ports) = 1
  THEN CHOOSE p \in ports : TRUE ELSE Port(b, place)

ServersAt(place, preferLocal) ==
  {[backend |-> b, port |-> AlignedPort(b, place, preferLocal),
    backup |-> IsBackup(b, place, preferLocal)] : b \in At(place)}

\* Seeded fault: an upstream is looked up by its addresses.
KeyOfAddresses(place, preferLocal) == At(place)

\* backend_key.
Key(place, preferLocal) == ServersAt(place, preferLocal)

\* The upstreams a location may be given: whichever location with its key comes
\* first brings the servers, and the stickiness.
Upstreams(place, preferLocal) ==
  {[servers |-> ServersAt(first, preferLocal),
    sticky |-> /\ ~\E b \in At(first) : IsBackup(b, first, preferLocal)
               /\ At(first) \cap Sticky # {}] :
     first \in {p \in Balanced : Key(p, preferLocal) = Key(place, preferLocal)}}

\* Whichever upstream a location shares, it balances over exactly the backends
\* of the location, at their ports; nginx accepts it (a server that is no backup,
\* no balancing method beside a backup); and the local tasks of a service come
\* before its virtual IP, which is used normally where it has none.
UpstreamServes ==
  \A place \in Balanced, preferLocal \in BOOLEAN :
    \A u \in Upstreams(place, preferLocal) :
      /\ {s.backend : s \in u.servers} = At(place)
      /\ \A s \in u.servers :
           /\ s.backend \notin Services => s.port = Port(s.backend, place)
           /\ s.backup => /\ ~u.sticky
                          /\ \E t \in u.servers : ~t.backup /\ <<t.backend, s.backend>> \in Tasks
           /\ preferLocal /\ ~s.backup => LocalTasks(s.backend, place) = {}
=============================================================================
