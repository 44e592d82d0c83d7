SPECIFICATION FairSpec
CONSTANTS
  tcpip = tcpip
  emac = emac
  server = server
  idle = idle
  mbox = mbox
  recvmbox = recvmbox
  isrsem = isrsem
  descs = descs
  mem = mem
  txlock = txlock
  isr = isr
  none = none
  Task <- MCTask
  Idle = idle
  BasePriority <- MCPriority
  portMAX_DELAY = 3
  Mailboxes = {mbox, recvmbox}
  Semaphores = {isrsem, descs}
  Mutexes = {mem, txlock}
  Length <- MCLength
  FromISR = {isrsem}
  Programs <- MCPrograms
  Isr = isr
  None = none
  MaxPended = 1
INVARIANTS KernelInv NoLostWakeup HighestRuns DeadlinesKept NoInversion
PROPERTIES ImplementsBuffers CallsReturn
