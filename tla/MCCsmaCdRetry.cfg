\* NUM_STATIONS = 3 and frame_count = 2, as in main.
SPECIFICATION CsmaSpec
CONSTANTS
  CsmaStation = {s1, s2, s3}
  FrameCount = 2
INVARIANT
  CollidedFramesRetried
