CONSTANTS
  Names = {a, b}
  MaxHandle = 3
  MaxDepth = 2
  MaxListings = 2
  Requests = {"list", "resolve", "remove", "rename", "move", "mkdir_all", "hlist", "hdelete", "upload", "hmkdir", "hrename"}
  Faults = {"list", "info", "delete", "rename", "move", "create", "abort"}
  Phone0 <- SmallPhone
  Last0 = 2
  None = None
  a = a
  b = b
SPECIFICATION Spec
INVARIANTS TypeOK ListingsSound ParentsRight CacheBounded
PROPERTIES DeletedUnlisted RemoveStaysInside
