SPECIFICATION Spec
CONSTANTS
  NameSeq <- MCNames
  RepoSeq <- MCRepos
  RootSeq <- MCRoots
  Priority <- MCPriority
  OrphanPriority <- MCOrphan
  PrimaryArch = "x86_64"
  NoArch = "noarch"
  Local = file
  Here = here
  None = none
  MaxResolveSteps = 12
  Upstreams <- SatelliteUpstreams
  Files = {}
  Below <- MCBelow
  Stand = {anchor}
  Arguments <- MCArguments
  Process = {p1}
  MaxRemoved = 0
  anchor = anchor
  initramfs = initramfs
  p1 = p1
  none = none
  here = here
  file = file
PROPERTY RunsWhereShown
