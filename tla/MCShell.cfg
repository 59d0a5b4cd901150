CONSTANTS
  Producers = {p1}
  Consumers = {c1}
  Clients = {shell}
  MaxThreads = 12
  MaxTyped = 4
SPECIFICATION ShellSpec
INVARIANTS CrewsAsTyped DiesHalfway ItemsGoLast
PROPERTIES QuitEndsShell
