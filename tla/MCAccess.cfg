\* One server process and a command line on the same database.
CONSTANTS
  Operator = op
  Users = {op, alice}
  Projects = {default, shop}
  Default = default
  Tokens = {t1, t2}
  Servers = {server}
  Clis = {cli}
  NoUser = NoUser
  NoToken = NoToken
  Instance = Instance
  NoRole = NoRole
VIEW View
SYMMETRY Perms
SPECIFICATION MCSpec
INVARIANTS CreatedProjectHasAdmin ActiveTokenHasOwner
PROPERTIES AuthorityAtCommit ArchivedIsReadOnly AdminsNeverVanish TokenStaysInProject
CHECK_DEADLOCK FALSE
