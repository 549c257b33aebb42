CONSTANTS
    Handlers = {h1, h2}
    Package <- ThreeVersions
    Binary = "bin"
    FirstTrees <- SiteTrees
    FirstManifest <- SiteManifest
    KeepBackups = 2
    MaxRuns = 2
    MaxKills = 1
SPECIFICATION UpdFairSpec
INVARIANTS UpdatesInv PageInv
PROPERTIES SiteFilesKept RunEnds
CHECK_DEADLOCK FALSE
