SPECIFICATION FairSpec
CONSTANTS
  FileLen = 2
  Full = 2
  RETRY = 2
  Budget = 1
  MaxAnts = 2
  Servers <- MCServers
  Urls = {"a", "b", "f"}
  Main = "a"
  FtpUrls = {"f"}
  Replies <- MCReplies
  Stack <- MCStack
  Ranges = {"a", "b"}
  Proxies <- MCProxies
INVARIANTS InfoTrue BytesInPlace ResumeWritten ConnectTrue
PROPERTIES SessionEnds
