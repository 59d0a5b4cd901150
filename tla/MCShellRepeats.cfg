CONSTANTS
  Producers = {p1}
  Consumers = {c1}
  Clients = {shell}
  MaxThreads = 12
  MaxTyped = 2
SPECIFICATION ShellSpec
PROPERTIES NobodyUnasked
