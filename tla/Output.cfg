SPECIFICATION SceneSpec
CONSTANTS
  Conns = {c1, c2}
  Callers = {t1, t2}
  Caller = t1
  Worker = worker
  Nobody = nobody
  FrameSizes = {1, 3}
  MaxPendingBytes = 4
  MaxPendingFrames = 2
  BatchBytes = 2
  MaxAccepted = 3
  Readers = {c1}
INVARIANTS
  OneOperation
  OutputInv
PROPERTIES
  ChannelSpec
  AcceptedIsSent
  StoppedRetires
