SPECIFICATION FairServerSpec
CONSTANTS
  Msgs = {m1, m2}
  Subs = {a}
  Leavers = {a}
  MaxPush = 2
  MaxCalls = 3
  NoList = NoList
INVARIANTS ServerTypeOK Accounted NoDuplicate ReaderRegistered FirstCallOrdered
PROPERTIES KeepsMail EventuallySettled PendingFlushed

