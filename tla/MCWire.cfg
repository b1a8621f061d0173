\* Two senders share one connection and retry twice; a body of five bytes
\* with line, data and total limits it can reach; a backend with up to three
\* calls of two pieces; four gateway events before the end of a stream.
CONSTANTS
  Senders = {s1, s2}
  MaxRetries = 2
  MaxConnections = 1
  WireLength = 5
  MaxLine = 3
  MaxData = 1
  MaxTotal = 4
  MaxMade = 3
  MaxPieces = 2
  MaxGiven = 4
SPECIFICATION WireSpec
INVARIANTS WireTypeOK SentOnce PoolRespected ChunkingIrrelevant CallsFaithful OneHonestTerminal Assemblable
PROPERTY CallsEnd
