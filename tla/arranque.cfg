SPECIFICATION SpecJusta
CONSTANTS
  PlanoConPid = FALSE
  Dato = Dato
  Indef = Indef
  Memorias = {m1, m2, m3}
  Nulo = Nulo
  CantPaginas = 32
  MaxVidas = 3
INVARIANTS TypeOK ArranqueCompleto UnaMemoriaPorSwap SwapNoAbandona
PROPERTIES ArranqueTermina SwapSeDespide
CHECK_DEADLOCK FALSE
