CONSTANTS
  Text <- MCText
  None = None
  Direct = Direct
  AutoTable = 200
  LastTable = 202
  Resolvers <- MCResolvers
  Public = Public
  Own = Own
  MaxChanges = 3
  Daemon = Daemon
  Cli = Cli
  InitialFiles <- MCInitialFiles
  Edits <- MCEdits
  Drafts <- MCDrafts
  Targets <- MCTargets
  Lists <- MCLists
SPECIFICATION Spec
INVARIANTS
  ClientsTypeOK
  InSync
  MigrationLoads
PROPERTIES
  StaysLoadable
  TablesStay
