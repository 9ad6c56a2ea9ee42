SPECIFICATION SystemSpec
CONSTANTS
  Conns = {c1, c2}
  NULL = NULL
  Words <- MCWords
  SlashWords <- MCSlashWords
  Lines <- TextOnly
  MaxLines = 2
  BATCH = 1
  Residues <- NoResidue
  MAX_CLIENTS = 6
  SLACK = 0
  serversock = 3
  FD_LIMIT = 6
  BACKLOG = 2
  READ_MAX = 3
  MSG_MAX = 4
  RCVBUF = 3
  SNDBUF = 3
  Segmented = TRUE
  Pipelined = TRUE
  Aborts = FALSE
SYMMETRY ConnSymmetry
INVARIANTS StreamFidelity NeverBothWaiting
PROPERTIES RelayedBeforeFreed
