\* BusyBox and a user who edits its configuration between builds only.
SPECIFICATION Spec
CONSTANTS
  Parts = {"busybox", "parted"}
  Asked = {"busybox"}
  Heads = {v1, v2}
  Edits = {patch}
  Patch = patch
  Configs = {x, y}
  Head1 = v1
  Config1 = x
  None = None
  Torn = Torn
  Half = Half
  Patient = TRUE
  MaxEdits = 2
  MaxStops = 1
PROPERTIES OldConfigIsRemoved
