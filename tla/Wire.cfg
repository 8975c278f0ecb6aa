\* Every place a connection can be cut at, in handshakes that fit and that do
\* not, and in two messages of each kind.
SPECIFICATION WireSpec
CONSTANTS
  Protocol <- MCProtocol
  InfoHash <- MCInfoHash
  PeerId <- MCPeerId
  Scripts <- TestScripts
  Requests <- TwoRequests
INVARIANTS
  WireTypeOK
  HandledAreSent
  VerifiedIsTheSameTorrent
  PeerUnderstands
PROPERTY EverythingIsHandled
CHECK_DEADLOCK FALSE
