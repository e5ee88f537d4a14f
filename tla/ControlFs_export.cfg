SPECIFICATION Spec
CONSTANTS
  Ids <- ThreeIds
  flag = flag
  fixed = fixed
  yes = yes
  no = no
  junk = junk
  Files = {file}
  Props = {flag, fixed}
  Runtime = {flag}
  ControlDir = control
  Values = {yes, no, junk}
  Default <- Defaults
  Accepts <- Accepted
  Handles = {h1, h2}
  NoPath = NoPath
  Unset = Unset
  NoProp = NoProp
  NoNode = NoNode
PROPERTIES RenameMoves
