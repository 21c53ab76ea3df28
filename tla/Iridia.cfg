SPECIFICATION FairSpec
CONSTANTS
  Line <- Lines
  Client = {c1, c2, c3}
  Thread = {t1, t2}
  Fault = {fault}
  Claimed = {4}
  NoLine = NoLine
  Allow = {}
INVARIANTS WalkFindsClients 
PROPERTIES KeepsIrqPromise DeliveryEnds
CHECK_DEADLOCK FALSE
