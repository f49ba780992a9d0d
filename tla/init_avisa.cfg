SPECIFICATION Spec
CONSTANTS
  PlanoConPid = FALSE
  Dato = Dato
  Indef = Indef
  Carpinchos = {c1, c2}
  K1 = K1
  K2 = K2
  Nulo = Nulo
  Nadie = Nadie
  Stdin = Stdin
  Epoca = 1000
  MaxReloj = 1001
  Tamanios = {24}
  MaxAlloc = 1
  PidKernel = 101
  TamKernel = 42
  TamMemoria = 512
  ONLINE = 4
INVARIANT InitAvisaFallo
CHECK_DEADLOCK FALSE
