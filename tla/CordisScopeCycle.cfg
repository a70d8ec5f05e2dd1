SPECIFICATION FairSpec
CONSTANTS
  root = root
  plugin = plugin
  ka = ka
  kb = kb
  thing = thing
  u1 = u1
  u2 = u2
  Scopes = {root, plugin}
  Root = root
  Parent <- Tree
  Keys = {ka, kb}
  Provides <- PluginProvides
  Needs <- MutualNeeds
  Things = {thing}
  Owns <- NothingOwned
  Users = {u1, u2}
  From <- FromPlugin
  Closers = {c1}
  MaxCalls = 1
  Nobody = Nobody
PROPERTY UsersAnswered
CHECK_DEADLOCK FALSE
