SPECIFICATION Spec
CONSTANTS
  Clientes = {t1, t2}
  Nulo = Nulo
  Indef = Indef
  MaxPalabras = 2
  MaxPcbs = 2
PROPERTY ErrorSoloSiFalla
CHECK_DEADLOCK FALSE
