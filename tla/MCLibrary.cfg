CONSTANTS
    MediaThreads = {m1, m2}
    Managers = {adm}
    Contributors = {ana}
    DirNames = {default, trip}
    DefaultDir = default
    Stems <- PlainStems
    MaxDirs = 2
    MaxUploads = 2
    MaxMediaRequests = 4
    Admins = {a1, a2}
    ThemeKeys = {light, dark}
    ConfigTheme = light
    FontNames = {1}
    FontFileNames = {"f1", "f2"}
    MaxLooks = 3
SPECIFICATION MCSpec
SYMMETRY MCSym
  
PROPERTIES MediaConfined
CHECK_DEADLOCK FALSE
