CONSTANTS
 Wrap = 4
 Life = 2
 Async = {"connect", "send", "receive"}
 MaxPosts = 3
 FramesPerSocket = 2
 MaxPort = 3
 MaxFrame = 5
 serial_header_length = 2
 SerialBase = 3
 Sizes = {1, 3, 8, 9}
 Messages = 2
 Clients = {c1, c2}
 Nobody = nobody
 MaxSessions = 3
 MaxLine = 2
 Buffer = 2
 MaxSent = 6
 BufferSize = 3
 Capacity = 2
 EchoSession = {1, 2, 3}
 EchoBuffer = 2
 MaxEcho = 3
 HandlerSizes = {1, 2, 3}
 BlockSize = 2
 UdpClient = {"c1", "c2"}
 DatagramSize = {0, 1, 3}
 max_length = 2
 MaxDatagrams = 3
 PairBuffer = 2
 FilterSize = 3
 MaxLength = 6
 Child = {k1, k2, k3}
 NoChild = none
 header_length = 4
 max_body_length = 6
 Width = 6
 Ports = {0, 1, 15, 16, 255, 256, 4095, 4096, 65535}
 Numbers = {1, 16, 4096, 65536, 16777216, 268435456, 2147483647}
 Base = 3
 MaxBody = 2

SPECIFICATION Spec

INVARIANTS
 PingInv
 OwnedWhileUsed
 DeliveredAsSent
 EncodingsInverse

PROPERTIES
 StepsAsPromised
 NoProgramStuck

CHECK_DEADLOCK FALSE
