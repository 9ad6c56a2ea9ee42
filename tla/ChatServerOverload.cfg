SPECIFICATION Spec
CONSTANTS
  Conns = {c1, c2, c3}
  NULL = NULL
  Words <- MCWords
  SlashWords <- MCSlashWords
  Lines <- TextOnly
  MaxLines = 1
  Residues <- NoResidue
  MAX_CLIENTS = 5
  SLACK = 1
  serversock = 3
  FD_LIMIT = 6
  BACKLOG = 2
  READ_MAX = 6
  MSG_MAX = 6
  RCVBUF = 4
  SNDBUF = 2
  Segmented = FALSE
  Pipelined = FALSE
  Aborts = TRUE
SYMMETRY ConnSymmetry
INVARIANTS TableInv ExitsOnlyWhenFull IInv
