------------------------------ MODULE Rendering ------------------------------
(***************************************************************************)
(* WebServer._render_config from the table of hosts to the server blocks   *)
(* of the template: the redirect post-processor, the SSL post-processor    *)
(* and _ensure_https_redirects.  They work on a copy, in the order in      *)
(* which config_map happens to hold the hosts, and each host that is       *)
(* processed changes what the later ones find.                             *)
(*                                                                         *)
(* A host has one path here: the backends stand for all its locations.  A  *)
(* redirect's target is in the table: the pre-processor puts it there.     *)
(***************************************************************************)
EXTENDS Naturals, Sequences, FiniteSets, SequencesExt

CONSTANTS
  Hosts,       \* the keys of the table: [name, port]
  Nowhere      \* full_redirect = None

ASSUME HostsAssumption ==
  /\ IsFiniteSet(Hosts) /\ Hosts # {}
  /\ \A h \in Hosts : DOMAIN h = {"name", "port"} /\ h.port \in Nat
  /\ Nowhere \notin Hosts

\* The orders of config_map: by name, then by port.
Orders ==
  {o \in SetToSeqs(Hosts) :
     \A i, j, k \in DOMAIN o : i < j /\ j < k /\ o[i].name = o[k].name => o[j].name = o[i].name}

VARIABLES
  declared, declaredTls,  \* the redirects and the TLS of the table that is rendered
  order,     \* host_list()
  pos,       \* the host the redirect processor is at
  seen,      \* redirected_hosts
  redirect, isRedirect, secured, backends,   \* the copies of the hosts
  port,      \* host.port, which the SSL processor may change
  added,     \* the redirect hosts of _ensure_https_redirects
  stage      \* "redirect", "ssl", "https" or "done"

hostVars == <<redirect, isRedirect, secured, backends>>
renderVars == <<declared, declaredTls, order, pos, seen, hostVars, port, added, stage>>

\* Every host serves a backend of its own (what happens to a host does not depend
\* on whether it has any).  Any host may use TLS: https+http://h does on port 80,
\* and https://h:8443 on that; one on 443 that only a redirect names does not.
RenderInit ==
  /\ order \in Orders /\ pos = 1 /\ seen = {}
  /\ declared \in [Hosts -> Hosts \cup {Nowhere}]
  /\ redirect = declared /\ isRedirect = [h \in Hosts |-> FALSE]
  /\ backends = [h \in Hosts |-> {h}]
  /\ declaredTls \in SUBSET Hosts
  /\ secured = [h \in Hosts |-> h \in declaredTls]
  /\ port = [h \in Hosts |-> h.port]
  /\ added = {} /\ stage = "redirect"

-----------------------------------------------------------------------------
\* process_redirection, one host after the other.
Current == order[pos]
Target == redirect[Current]

\* Seeded fault: a target that was only redirected to counts as processed.
TargetSkipped == Target.name \in seen \cup {redirect[h].name : h \in {g \in Hosts : isRedirect[g]}}

\* Seeded fault: it is not asked whether the target has been processed.
TargetUnasked == FALSE

TargetProcessed == Target.name \in seen

\* Seeded fault: a target that has locations of its own gets no others.
MergeWhenEmpty(source, target) ==
  IF backends[target] = {} THEN backends[source] ELSE backends[target]

\* Host.update_with_host.
Merge(source, target) == backends[target] \cup backends[source]

\* Seeded fault: the target's TLS is what counts.
TargetTls(source, target) == secured[target]

SharedTls(source, target) == secured[source] \/ secured[target]

Advance ==
  /\ pos' = pos + 1
  /\ stage' = IF pos = Len(order) THEN "ssl" ELSE stage
  /\ UNCHANGED <<declared, declaredTls, order, port, added>>

NoRedirect ==
  /\ stage = "redirect" /\ Target = Nowhere
  /\ Advance
  /\ UNCHANGED <<seen, hostVars>>

\* A redirect onto another port of the same name is dropped.
SameName ==
  /\ stage = "redirect" /\ Target # Nowhere /\ Target.name = Current.name
  /\ Advance
  /\ seen' = seen \cup {Current.name}
  /\ redirect' = [redirect EXCEPT ![Current] = Nowhere]
  /\ UNCHANGED <<isRedirect, secured, backends>>

\* "continue": the target redirects itself, and has been processed.
TargetSeen ==
  /\ stage = "redirect" /\ Target # Nowhere
  /\ Target.name # Current.name /\ TargetProcessed
  /\ Advance
  /\ seen' = seen \cup {Current.name}
  /\ UNCHANGED hostVars

\* The target takes over the locations, and TLS is shared.
Follow ==
  /\ stage = "redirect" /\ Target # Nowhere
  /\ Target.name # Current.name /\ ~TargetProcessed
  /\ Advance
  /\ seen' = seen \cup {Current.name}
  /\ isRedirect' = [isRedirect EXCEPT ![Current] = TRUE]
  /\ backends' = [backends EXCEPT ![Target] = Merge(Current, Target), ![Current] = {}]
  /\ LET tls == SharedTls(Current, Target) IN
       secured' = [secured EXCEPT ![Target] = tls, ![Current] = tls]
  /\ UNCHANGED redirect

\* Seeded fault: a secured host stays on port 80.
PreparedNot(h) == port[h]

\* _prepare_host_for_ssl.
Prepared(h) == IF port[h] \in {80, 443} THEN 443 ELSE port[h]

\* process_ssl_certificates.
PrepareSsl ==
  /\ stage = "ssl" /\ stage' = "https"
  /\ port' = [h \in Hosts |-> IF secured[h] THEN Prepared(h) ELSE port[h]]
  /\ UNCHANGED <<declared, declaredTls, order, pos, seen, hostVars, added>>

\* _ensure_https_redirects: a secured name without a host on port 80 gets one
\* that redirects.
EnsureHttpsRedirects ==
  /\ stage = "https" /\ stage' = "done"
  /\ LET onHttp == {h.name : h \in {g \in Hosts : port[g] = 80}}
         missing == {h \in Hosts : ~isRedirect[h] /\ secured[h] /\ port[h] # 80
                                    /\ h.name \notin onHttp} IN
       added' = {h.name : h \in missing}
  /\ UNCHANGED <<declared, declaredTls, order, pos, seen, hostVars, port>>

Finished == stage = "done" /\ UNCHANGED renderVars

RenderNext ==
  \/ NoRedirect \/ SameName \/ TargetSeen \/ Follow
  \/ PrepareSsl \/ EnsureHttpsRedirects
  \/ Finished

RenderSpec == RenderInit /\ [][RenderNext]_renderVars

-----------------------------------------------------------------------------
\* The hosts a client that asks for h comes through, the least set that its
\* redirects do not leave, and where it ends.
Contained(S) == \A k \in S : isRedirect[k] => redirect[k] \in S
Visits(h) == {g \in Hosts : \A S \in SUBSET Hosts : h \in S /\ Contained(S) => g \in S}
Ends(h) == {g \in Visits(h) : ~isRedirect[g]}

Done == stage = "done"

\* However backends declare redirects, in a chain or onto each other, no client
\* is redirected in a circle.
NoRedirectLoop == Done => \A h \in Hosts : Ends(h) # {}

\* A redirect takes a host's locations to its target and loses none of them: a
\* backend is served by the server its clients are redirected to.
NoBackendLost ==
  Done => \A h \in Hosts : \E e \in Ends(h) : h \in backends[e]

\* TLS goes with the redirect: where the clients of a server that uses TLS in the
\* table, on whatever port, are sent, the server uses TLS as well, whatever is
\* processed before and after it.
TlsKept == Done => \A h \in declaredTls : \A e \in Ends(h) : secured[e]

\* The blocks of the template: a redirect always listens on port 80.
Blocks ==
  {[host |-> h, name |-> h.name, port |-> IF isRedirect[h] THEN 80 ELSE port[h]] : h \in Hosts}
  \cup {[host |-> Nowhere, name |-> n, port |-> 80] : n \in added}

\* A server that uses TLS, in the table (https+http puts it on port 80) or by a
\* redirect, does not listen on the plain port, and some block of its name answers
\* there.
PlainPortAnswers ==
  Done => \A h \in Hosts :
    secured[h] /\ ~isRedirect[h] =>
      port[h] # 80 /\ \E b \in Blocks : b.name = h.name /\ b.port = 80

\* A redirect to a name that does not redirect itself is in force in every order
\* of the table, however many redirects share the target.  (Of two redirects in
\* a row the first is dropped when its target comes first.)
RedirectInForce ==
  Done => \A h \in Hosts :
    /\ declared[h] # Nowhere /\ declared[h].name # h.name
    /\ \A g \in Hosts : g.name = declared[h].name => declared[g] = Nowhere
    => isRedirect[h] /\ Ends(h) = {declared[h]}
=============================================================================
