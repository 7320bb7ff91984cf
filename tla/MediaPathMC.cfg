SPECIFICATION MCSpec
CONSTANTS
  SnSpace = 2
  Ueids = {1}
  SeqSpace = 2
  TsSpace = 8
  SamplesPreFrames = 2
  Frames = {1, 3}
  MaxSends = 4
  MaxRecvs = 4
INVARIANTS
  TypeOK
  MediaClock
  IpSumVerifies
  AllOrNone
