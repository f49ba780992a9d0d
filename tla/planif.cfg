SPECIFICATION SpecJusta
CONSTANTS
  Clientes = {t1, t2}
  Nulo = Nulo
  Indef = Indef
  MaxPalabras = 2
  MaxPcbs = 2
INVARIANTS TypeOK AdmisionPorCorte LecturaPropia CaidaPideDos UnHiloEnOrden
PROPERTIES DesconexionTermina NewSeVacia
CHECK_DEADLOCK FALSE
