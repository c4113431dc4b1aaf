\* BusyBox and three parts of the other kinds, two versions of each.
SPECIFICATION Spec
CONSTANTS
  Parts = {"busybox", "parted", "rust", "tools"}
  Asked = {"all", "fast", "iso"}
  Heads = {v1, v2}
  Edits = {patch}
  Patch = patch
  Configs = {x, y}
  Head1 = v1
  Config1 = x
  None = None
  Torn = Torn
  Half = Half
  Patient = FALSE
  MaxEdits = 2
  MaxStops = 1
INVARIANTS TypeOK
PROPERTIES SkippedIsCurrent ShippedIsCurrent
