SPECIFICATION Spec
CONSTANTS
  web = web
  api = api
  chat = chat
  task = task
  v1 = v1
  v2 = v2
  site = site
  alias = alias
  root = root
  sub = sub
  Backends = {web, api, chat, task}
  Services = {web}
  Versions = {v1, v2}
  Servers = {site, alias}
  Paths = {root, sub}
  Root = root
  Sites = {site}
  Nowhere = Nowhere
  Routes <- MCRoutes
  Redirects <- MCRedirects
  Tasks <- MCTasks
  Sticky = {web, api}
INVARIANT RedirectDeclared
