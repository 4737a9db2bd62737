INIT sshInit
NEXT sshNext
CONSTANTS
  SshConfigs <- MCSshConfigs
  SegMax = 2
  BigPackets = {"KexInit", "ECDHReply"}
INVARIANT SshNoStall
CHECK_DEADLOCK FALSE
