SPECIFICATION Spec
CONSTANTS
  Capacity = 3
  Items = 6
  Variants = {"standard", "relaxed", "seq_cst", "fenced"}
INVARIANT FencesSuffice
