SPECIFICATION FairSystem
CONSTANTS
  Conns = {c1, c2}
  NULL = NULL
  Words <- MCWords
  SlashWords <- MCSlashWords
  Lines <- TextOnly
  MaxLines = 1
  BATCH = 1
  Residues <- NoResidue
  MAX_CLIENTS = 6
  SLACK = 0
  serversock = 3
  FD_LIMIT = 6
  BACKLOG = 2
  READ_MAX = 6
  MSG_MAX = 6
  RCVBUF = 4
  SNDBUF = 1
  Segmented = FALSE
  Pipelined = FALSE
  Aborts = TRUE
PROPERTIES Served GoneRemoved ImplementsRoom
