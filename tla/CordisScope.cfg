SPECIFICATION FairSpec
CONSTANTS
  root = root
  plugin = plugin
  ka = ka
  kb = kb
  thing = thing
  u1 = u1
  u2 = u2
  Scopes = {root, plugin}
  Root = root
  Parent <- Tree
  Keys = {ka, kb}
  Provides <- ChainProvides
  Needs <- ChainNeeds
  Things = {thing}
  Owns <- PluginOwns
  Users = {u1}
  From <- FromPlugin
  Closers = {c1, c2}
  MaxCalls = 2
  Nobody = Nobody
INVARIANTS
  OneInstance
  CompleteMeansDisposed
  CloseOrder
PROPERTIES
  NotClosedTwice
  UsersAnswered
CHECK_DEADLOCK FALSE
