SPECIFICATION Spec
CONSTANTS
  Pids = {1, 2}
  QueueMax = 2
  PipeMax = 1
  Worlds <- Some
  
PROPERTIES ExitCompletes 
