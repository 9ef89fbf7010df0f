CONSTANTS
  app = app
  APP = APP
  star = star
  s1 = s1
  s2 = s2
  agentA = agentA
  agentB = agentB
  NoHandler = NoHandler
  NoMessage = NoMessage
  Star = star
  Exe <- TwoSpellings
  AgentOf <- OneAgent
  Sessions = {s1, s2}
  AllTokenAgents = {}
  Handlers = {h1, h2}
  Messages = {m1, m2}
  MaxEvents = 1
  Failures = {"none", "driver", "agent", "handler", "insert"}
SPECIFICATION Spec
INVARIANTS NeverPanics MessagesAreHeld
