CONSTANTS
  app = app
  APP = APP
  star = star
  s1 = s1
  s2 = s2
  agentA = agentA
  agentB = agentB
  NoHandler = NoHandler
  NoMessage = NoMessage
  Star = star
  Exe <- OneSpelling
  AgentOf <- TwoAgents
  Sessions = {s1, s2}
  AllTokenAgents = {agentA}
  Handlers = {h1, h2, h3}
  Messages = {m1, m2}
  MaxEvents = 1
  Failures = {"none", "insert"}
SPECIFICATION Spec
INVARIANTS
    ServerStaysHealthy
    AttachmentsAgree
    PendingRequestsAreTracked
PROPERTIES
    EventAnswersWaiters
    IdleServerStops
