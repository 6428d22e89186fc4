SPECIFICATION Spec
CONSTANTS
  w1 = w1
  w2 = w2
  w3 = w3
  ann = ann
  bob = bob
  Workers = {w1, w2, w3}
  Clients = {ann, bob}
  Home <- MCHome
  Sends <- MCSends
INVARIANTS DeliveredOnce ClientOrderKept PeersAgreeOnOrder NothingLostWithoutFault
\* All messages may have been sent, or all workers stopped.
CHECK_DEADLOCK FALSE
SYMMETRY Peers
