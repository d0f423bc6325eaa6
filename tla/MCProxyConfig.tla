---------------------------- MODULE MCProxyConfig ----------------------------
(* A web service that may be updated, two containers that run local tasks of  *)
(* it and one that does not, two servers (one with a static site), two paths. *)
EXTENDS Upstreams

CONSTANTS web, api, chat, task, v1, v2, site, alias, root, sub

Route(b, v, s, p, ws, http, secured, limit, port) ==
  [backend |-> b, version |-> v, server |-> s, path |-> p, ws |-> ws, http |-> http,
   secured |-> secured, limit |-> limit, port |-> port]

MCRoutes ==
  {Route(web, v1, site, root, FALSE, TRUE, TRUE, 0, 80), Route(web, v1, alias, sub, FALSE, TRUE, FALSE, 2, 80),
   Route(web, v2, site, sub, FALSE, TRUE, TRUE, 1, 80), Route(web, v2, alias, sub, FALSE, TRUE, FALSE, 0, 80),
   Route(chat, v1, site, sub, TRUE, FALSE, TRUE, 2, 8080), Route(chat, v1, alias, sub, TRUE, TRUE, TRUE, 1, 9090),
   Route(api, v1, alias, root, FALSE, TRUE, FALSE, 0, 80), Route(api, v1, site, sub, FALSE, TRUE, FALSE, 0, 80),
   Route(task, v1, site, sub, FALSE, TRUE, FALSE, 3, 8080), Route(task, v1, alias, sub, FALSE, TRUE, FALSE, 0, 8080)}

MCRedirects == {[backend |-> chat, version |-> v1, source |-> alias, target |-> site]}

MCTasks == {<<chat, web>>, <<task, web>>}
=============================================================================
