SPECIFICATION FairSpec
CONSTANTS
  s1 = s1
  s2 = s2
  n1 = n1
  n10 = n10
  h1 = h1
  x = x
  Nobody = Nobody
  None = None
  Stray = x
  Servers = {s1, s2}
  Names <- MCNames
  At <- MCAt
  IP <- MCIP
  Within <- MCWithin
  Setups <- MCSetups
  Inputs <- MCInputs
  MaxHosts = 3
  MemoryFails = {s1}
INVARIANTS
  TypeOK 

   
