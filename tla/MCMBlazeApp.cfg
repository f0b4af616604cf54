CONSTANTS
  LWIP_DHCP = TRUE
  DHCP_TIMEOUT = 2
  DHCP_COARSE_PERIOD = 2
  ETH_LINK_DETECT_INTERVAL = 4
  NumRows = 2
  NumCols = 9
  BytesPerWord = 4
  MaxPacket = 9
  SEND_ELEMENT_LIMIT = 2
  SendQueue = 2
  SendBuffer = 5
SPECIFICATION MCSpec
INVARIANTS StartedWithWhole SolutionInOrder
PROPERTIES SolutionArrives ReachesLoop TimersServed
