------------------------------ MODULE Asignador ------------------------------
(***************************************************************************)
(* What Memoria's allocation amounts to, seen from outside: each session   *)
(* is answered at most once, a pid is registered by its first answer, and  *)
(* there is a single real address, which goes to at most one session.      *)
(***************************************************************************)
EXTENDS Integers

CONSTANTS
    Sesiones, Pids, Nulo,
    Direccion,     \* the address of the first allocation
    SinLugar,      \* the answer when the request does not fit
    Indef          \* a value nobody computed

VARIABLES registrados, concesion

Con(dir) == {s \in Sesiones : concesion[s] # Nulo /\ concesion[s].dir = dir}

Init == registrados = {} /\ concesion = [s \in Sesiones |-> Nulo]

Responde(s, dir) ==
    /\ concesion[s] = Nulo
    /\ concesion'[s] \in [pid : Pids, dir : {dir}]
    /\ concesion' = [concesion EXCEPT ![s] = concesion'[s]]

(* The first new pid that fits gets the address; the following ones get    *)
(* whatever the search of the freed list leaves behind.                    *)
Primera(s) == Con(Direccion) = {} /\ Responde(s, Direccion)
Siguiente(s) == Con(Direccion) # {} /\ Responde(s, Indef)
Rechaza(s) == Responde(s, SinLugar)

Nuevo(s) ==
    /\ Primera(s) \/ Siguiente(s) \/ Rechaza(s)
    /\ concesion'[s].pid \notin registrados
    /\ registrados' = registrados \cup {concesion'[s].pid}

Conocido(s) ==
    /\ Responde(s, Indef)
    /\ concesion'[s].pid \in registrados
    /\ UNCHANGED registrados

Next == \E s \in Sesiones : Nuevo(s) \/ Conocido(s)

Spec == Init /\ [][Next]_<<registrados, concesion>>
=============================================================================
