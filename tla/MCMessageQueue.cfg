CONSTANTS
  DEFAULT_QUEUE_SIZE = 2
  MQ_OVERLOAD = 2
  Junk = Junk
  MaxPush = 12
SPECIFICATION Spec
PROPERTIES DoublingsReported FifoSpec
