\* xdp-count on two CPUs, two packets.
SPECIFICATION Spec
CONSTANTS
  Cpus = {c1, c2}
  Programs = {"xdp-count"}
  Lengths = {54}
  MaxPackets = 2
INVARIANT CountsAllPackets
CHECK_DEADLOCK FALSE
