SPECIFICATION Spec
SYMMETRY ConnSymmetry
CONSTANTS
  Conns = {c1, c2, c3}
  NULL = NULL
  Words <- MCWords
  SlashWords <- MCSlashWords
  Lines <- TextOrCommand
  MaxLines = 1
  Residues <- NoResidue
  MAX_CLIENTS = 7
  SLACK = 0
  serversock = 3
  FD_LIMIT = 7
  BACKLOG = 2
  READ_MAX = 6
  MSG_MAX = 6
  RCVBUF = 2
  SNDBUF = 2
  Segmented = FALSE
  Pipelined = FALSE
  Aborts = FALSE
INVARIANTS TypeOK NeverBlocks RoomAgreement
PROPERTIES ImplementsRoomSafety
