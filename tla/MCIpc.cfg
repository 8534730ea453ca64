SPECIFICATION Spec
CONSTANTS
  AEGIS_MAX_ENDPOINTS = 2
  server = server
  client = client
  Task = {server, client}
  Creator = server
  Sender <- MCSender
  Receiver <- MCReceiver
  MAX_MSGS = 3
INVARIANTS
  TypeOK
  ExactlyOnce
  ReceivesWhole
  CopyExclusive
PROPERTIES
  IsMailbox
