\* Three programs at the same time, of any kind.
SPECIFICATION Spec
CONSTANTS
  Runs = {r1, r2, r3}
  Names = {"lo", "veth0", "veth1", "vethA"}
  NewNames = {"vethA", "veth0", "veth1"}
SYMMETRY RunSymmetry
INVARIANTS
  TypeOK
  OneHookPerLink
PROPERTIES
  OnlyNamedLinkChanges
  ChangedLinksAreDown
  LoaderStatusIsTrue
CHECK_DEADLOCK FALSE
