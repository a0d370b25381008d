\* Processes of bench_psi and psi_demo in the server-aided protocol.  Processes hang when
\* connections are missing, and so deadlock is not checked.
CONSTANTS
  srv = srv
  alice = alice
  bob = bob
  carol = carol
  Process = {srv, alice, bob, carol}
  NoProcess = NoProcess
  NoSocket = NoSocket
  MaxSockets = 2
  RETRY_CONNECT = 2
  Setups <- MCSetups
  Mask <- MCMask
  Junk <- MCJunk
SPECIFICATION FairSpec
INVARIANTS TypeOK ReadAsWritten SlotsInOrder ResultExact
PROPERTIES Terminates
CHECK_DEADLOCK FALSE
