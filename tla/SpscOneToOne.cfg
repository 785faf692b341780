\* One producer, one consumer: what spsc.zig is written for.  Three nodes,
\* so that nodes are freed and reused while values are queued.
SPECIFICATION FairSpec
CONSTANTS
  main = main  net = net
  n1 = n1  n2 = n2  n3 = n3
  NULL = NULL
  Producers = {main}
  Consumers = {net}
  Nodes = {n1, n2, n3}
  Values = {1, 2}
  MaxPush = 4
INVARIANTS PoppedIsPrefix NoOverwrite IInv
PROPERTIES ImplementsFifo EventuallyPopped
