SPECIFICATION SpecJusta
CONSTANT MaxProcesos = 2
INVARIANTS TypeOK ServidorUsaVivo UnaLiberacion  SwapSaleSoloFija MetricasCoherentes
PROPERTIES SigintTermina FinTrasHilo
CHECK_DEADLOCK FALSE
