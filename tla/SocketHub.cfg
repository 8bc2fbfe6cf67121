SPECIFICATION FairSpec
CONSTANTS
  Clients = {c1}
  Talkers = {c1}
  Cap = 1
  MaxMsgs = 3
INVARIANT TypeOK
PROPERTIES InOrder SenderNeverStuck CloseCompletes TtlHonoured PongedPeerCloses
