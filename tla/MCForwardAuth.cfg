SPECIFICATION Spec
CONSTANTS
  NumContainers = 2
  Request <- MCRequest
  FirstLabel <- MCFirstLabel
  PathOf <- MCPathOf
  StaticSetup <- MCStaticSetup
  DockerSetup <- MCDockerSetup
INVARIANTS MistakesNeverOpen DefaultOnlyForUnlisted ListsMerge NeverUnprotected FirstMatchWins
