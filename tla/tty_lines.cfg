SPECIFICATION FairSpec
CONSTANTS
  Proc = {p1, p2}
  None = None
  Key = {"char", "nl", "eof", "stop", "start", "intr"}
  TTYHOG = 2
  CANBSIZ = 2
  TTHIWAT = 1
  TTLOWAT = 0
INVARIANTS DelctCounts
PROPERTIES NoFalseEof WritesEnd
