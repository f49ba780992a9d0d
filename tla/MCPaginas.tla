------------------------------ MODULE MCPaginas ------------------------------
(* Small instance of Paginas for TLC.                                      *)
EXTENDS Paginas
==============================================================================
