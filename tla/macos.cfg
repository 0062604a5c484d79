\* A caller and a poller; one camera and one other device, which come and go.
SPECIFICATION Spec

CONSTANTS
  Threads = {caller, poller}
  Ids = {meet, other}
  Cameras = {meet}
  None = none

INVARIANTS
  TypeOK
  ReferencesBalanced
  ListsWhatIsThere
