SPECIFICATION Spec
CONSTANTS
  Tasks = {t1, t2, t3}
  None = None
  MaxBlocks = 3
  MaxPosted = 3
PROPERTY
  ReconnectSparesStream
