SPECIFICATION Spec
CONSTANTS
  TamPagina = 32
  Medio = 1073741823
  Pids = {1, 101}
  CantPaginas = 2
  CantEntradasTlb = 0
  Marcos = {0, 605}
  MaxProcesos = 3
INVARIANTS TypeOK HallarCuelga ContadoresIniciales RegistrosDistintos
PROPERTIES MenosUnoSiempreCuenta
CHECK_DEADLOCK FALSE
