SPECIFICATION TurnSpec
CONSTANTS
  Conns = {c1, c2}
  NULL = NULL
  Words <- MCWords
  SlashWords <- MCSlashWords
  Lines <- AllLines
  MaxLines = 2
  Residues <- SomeResidue
  MAX_CLIENTS = 6
  SLACK = 0
  serversock = 3
  FD_LIMIT = 6
  BACKLOG = 2
  READ_MAX = 6
  MSG_MAX = 6
  RCVBUF = 4
  SNDBUF = 2
  Segmented = FALSE
  Pipelined = FALSE
  Aborts = FALSE
SYMMETRY ConnSymmetry
INVARIANTS LineFidelity NameHonoured ReadInTurn
