SPECIFICATION Spec
CONSTANTS
    KeySeq <- MCKeySeq
    OwnDir <- MCOwnDir
    Top = "CMAKE_PROJECT_TOP_LEVEL_INCLUDES"
    TopIncludes = "CMAKE_PROJECT_TOP_LEVEL_INCLUDES"
    BuildTypeKey = "CMAKE_BUILD_TYPE"
    Values = {"1", "2", "mine"}
    BuildTypes = {"Debug", "Release", "debug"}
    KnownTypes = {"Debug", "Release"}
    NoLink = NoLink
    UserFile = UserFile
    Envs = {"env1", "env2"}
    Dirs = {"build/debug", "build/release", "out"}
    NoOverride = NoOverride
    Absent = Absent
    Places = {"src", "app"}
    Requests <- FooRequests
    Trees <- OneTree
    Mishaps = {"fail_saves"}
INVARIANT
    BuildMatchesRequest
