SPECIFICATION Spec
CONSTANTS
  app = app
  tool = tool
  liba = liba
  libb = libb
  libb2 = libb2
  url = url
  main = main
  v1 = v1
  c1 = c1
  c2 = c2
  Projects = {app}
  Libraries = {tool, liba, libb, libb2}
  Urls = {url}
  CacheDir <- MCCacheDir
  Names <- MCNames
  Branches = {main}
  Tags = {v1}
  DefaultBranch = main
  Commits = {c1, c2}
  GitManifest <- MCGitManifest
  Worlds <- MCWorlds
  Remotes <- MCRemotes
  Additions <- MCAdditions
  None = None
  Partial = Partial
  MaxAdds = 1
  MaxPushes = 1
  MaxKills = 0
INVARIANT
  LockDescribesWorkingCopy
CHECK_DEADLOCK FALSE
