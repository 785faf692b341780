\* network.queuePacket empties the queue from the window thread while the
\* network thread pops it.
SPECIFICATION Spec
CONSTANTS
  n1 = n1  n2 = n2  n3 = n3
  main = main  net = net
  NULL = NULL
  Producers = {main}
  Consumers = {main, net}
  Nodes <- MCNodes
  Values = {1, 2}
  MaxPush = 3
SYMMETRY NodeSymmetry
INVARIANT PoppedIsPrefix
