SPECIFICATION Spec
CONSTANTS
  Frames = {f1, f2}
  TooLong = {}
  NoFrame = NoFrame
  RingSize = 2
  QueueSize = 2
  CounterModulus = 2
INVARIANTS NoStrandedFrame
