\* Two CPUs, three packets; 13, 33 and 53 bytes are one short of the headers.
SPECIFICATION Spec
CONSTANTS
  Cpus = {c1, c2}
  Programs = {"xdp-count", "xdp-bytes", "xdp-udp4count", "xdp-tcp6count"}
  Lengths = {13, 33, 53, 54}
  MaxPackets = 3
INVARIANTS
  TypeOK
  LooksInsidePacket
  NeverOvercounts
  ExactWithoutOverlap
\* All packets received.
CHECK_DEADLOCK FALSE
