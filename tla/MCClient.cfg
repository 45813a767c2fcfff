SPECIFICATION RemoteSpec
CONSTANTS
  c1 = c1
  c2 = c2
  Callers = {c1, c2}
  Sender = c1
  Times <- MCTimes
  Calls = 2
  Words <- MCWords
  CharKeys = {"a", "b", "c", "m", "version"}
  Codepages = {"utf16", "utf8", "1251"}
  Requests <- MCRequests
  PageRequests <- MCPageRequests
  Outcomes = {"OK", "ENOENT", "throws"}
  OutputTypes = {TRUE, FALSE}
INVARIANTS
  OneGlobalClient
  NotifiedFirst
  ServedAsSent
  ReportIsTheServices
PROPERTIES
  ImplementsPromise
  WaitersReturn
CHECK_DEADLOCK FALSE
