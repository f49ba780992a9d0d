SPECIFICATION Spec
CONSTANTS
  PlanoConPid = FALSE
  Dato = Dato
  Indef = Indef
  Carpinchos = {c1, c2}
  K1 = K1
  K2 = K2
  Nulo = Nulo
  Nadie = Nadie
  Stdin = Stdin
  Epoca = 1000
  MaxReloj = 1001
  Tamanios = {24, 600}
  MaxAlloc = 2
  PidKernel = 101
  TamKernel = 42
  TamMemoria = 512
  ONLINE = 4
INVARIANTS SinFuga IndiceEnRango UnaSolaAtencion
PROPERTIES SoloTerminaPorCorte
SYMMETRY Simetria
CHECK_DEADLOCK FALSE
