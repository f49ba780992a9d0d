# Verification of tpViejo

TLA+ models, model-checking runs and machine-checked proofs for the
distributed memory system of this repository: applications ("carpinchos") that
allocate memory through a library (matelib) from a server (Memoria), a Kernel
that plans them, and a Swap server behind Memoria.

Paths below are relative to the repository's root (`src/` in `PROJECT.json`).

## 1. Inventory

| Component | Code | State it keeps | Operations |
|---|---|---|---|
| Packet protocol | `Shared/src/serializacion.c`, `Shared/include/utils.h`, `main.h` | none | build, write and read a packet: code, size, payload, and in the *carpincho* format pid and `memoria_a_alocar` |
| Connections | `Shared/src/Server.c`, the sockets | bytes in flight, who has closed, the backlog of `listen()` | connect, accept, send, recv, close |
| matelib | `matelib/matelib.c`, `conectarMatelib` of `serializacion.c` | `mate_instance`: `mid`, `socket` | `mate_init`, `mate_memalloc`, `mate_close`; `mate_memfree/read/write` are local stubs |
| Kernel as a client | `Kernel/kernel.c` | local variables | `conectarMemoria`, twice |
| Memoria's server | `Memoria/conexionesMemoria.c`, `funciones_Kernel.c` | `k`, `cliente_memoria[]`, the global `conexion` | accept loop, greeting, `ejecutarKernel` |
| Memoria's allocation | `funciones_Kernel.c` (`mem_alloc`, `primer_alloc`), `memoria.c` (`first_fit`), `estructurasMemoria.c` | `lista_procesos`, `lista_de_heaps`, `cant_bytes_libres` | first fit, registration of a process, relay to Swap |
| Memoria's TLB and page tables | `estructurasMemoria.c`, `inicializar.c` | `lista_tlb`, `tabla_paginas`, hit and miss counters | look-ups (no caller in this version) |
| Memoria's start and end | `memoria.c`, `inicializar.c`, `finalizar.c` | the global structures, hit and miss totals | initialise, talk to Swap, release, SIGINT |
| Swap | `Swap/*.c` | `running`, frame tables, files | one client: page operations, end |
| Kernel planning | `Kernel/src/procesar_carpinchos.c` | `COLA_NEW`, `COLA_READY`, PCBs | a detached thread per client admits carpinchos |

How they interact: every application and the Kernel are TCP clients of Memoria,
and Memoria is a TCP client of Swap at start-up. There is no shared memory
between processes. Within Memoria one thread serves clients one after the
other; the handler of SIGINT runs on top of whichever thread it finds, beside the other, and a second
signal may start it on that one too. Within the Kernel's planner there is one thread per
client over shared queues.

What is hard here:

* one server thread with blocking reads over many clients that start, stop and
  die when they like;
* two packet formats on the same connections, with no resynchronisation;
* descriptor 0: `ejecutarKernel` closes the *global* `conexion`, which nobody
  assigns, so each session closes whatever descriptor 0 is, and `accept()` may
  hand descriptor 0 out again;
* memory read before it is written or after it is freed: `direccion` in
  `mem_alloc`, the nodes of `lista_de_heaps`, a truncated packet;
* identities taken from a clock of one-second resolution;
* a signal handler that releases the whole program: in Memoria and Swap, at any point
  of either thread, and on both at once when CTRL+C is pressed twice;
* look-ups that free the record they find, and leave it in the list;
* failures reported as success.

## 2. The modules

| Module | Models | State |
|---|---|---|
| `Paquetes` | the two packet formats of `serializacion.c`: `TramaCarpincho` is what `enviar_mensaje_carpincho` puts on the wire, `Lee`/`LeeCortado` what `recibir_mensaje_carpincho` takes off it | none |
| `Canales` | the TCP connections of Memoria: words in both directions, both ends, the backlog | `aSrv aCli cli srv cola` |
| `Matelib` | `mate_init`, `conectarMatelib`, `mate_memalloc`, `mate_close`, the application of `test/test_carpincho.c`, its death | `est mid retorno ptr pedidos reloj` |
| `KernelMemoria` | `Kernel/kernel.c`: `main`, `conectarMemoria`, twice | `kpc kcon`: where it is and on which connection |
| `Memoria` | the server thread: `conexionesMemoria`, `ejecutarKernel`, `mem_alloc`, `primer_alloc`, `first_fit`, the stray `close(conexion)` | `pc actual k fd0 procesos heaps concesion ...` |
| `Sistema` | composes the five above; fairness and the properties of the whole | |
| `Asignador` | abstract specification of what Memoria answers | `registrados concesion` |
| `Planificador` | the Kernel's accepting loop and its threads, `procesar_conexion`, `generar_estructuras`, `planificar_nuevo_cpncho_FIFO`, with the senders of `protocolo.c` | see the module |
| `Swap` | the Swap server and its connections: the greeting with `inicializar_asignacion`, the loop over requests, `terminarSwap` | `sPc sActual vida` and the connections |
| `Arranque` | composes `Swap` with the start of Memoria: `main` and `conectarSwap` | `est paginas leido` |
| `Finales` | the life of the global structures of Memoria, Swap and the Kernel: what `main` creates, the threads it starts and joins, what `terminar_programa`, `terminarSwap` and `cerrar_programa` release, and SIGINT on either thread or both | `vida principal servidor manejador senal recorrido danio nulas fin ...` |
| `Direcciones` | the arithmetic of logical addresses in `estructurasMemoria.c`, at its width | none |
| `Paginas` | `lista_procesos`, the page tables, the TLB and the look-ups over them: `inicializar_proceso`, `prueba`, `esta_cargada_marco` and what it calls | `procesos consulta respuestas danio fin` |
| `MCSistema` | symmetry for TLC | |
| `MCPlanificador`, `MCArranque`, `MCFinales`, `MCPaginas` | the instances TLC checks | |
| `*_proofs` | theorems, see section 6 | |

`Sistema` EXTENDS `Matelib`, `KernelMemoria` and `Memoria`, which all EXTEND
`Canales`, which EXTENDS `Paquetes`. Each process has its own variables and
steps; a step of one leaves the others' variables alone, and they meet only in
`Canales`. `Asignador` is instantiated by `Sistema` with `procesos` as the
registered pids; `CumpleAsignador` says that the system implements it.
`Arranque` is what happens before `Sistema`: a run of Memoria that reaches
`"sirve"` there is in the initial state of `Sistema`. What Swap said matters there
only as the length of the page tables `mem_alloc` builds (`funciones_Kernel.c:179`),
whose contents `Sistema` abstracts: with an undefined number that may run Memoria
out of memory, one of the ends `Cae` stands for.
`Planificador` stands alone: the Kernel's `main` never starts its accepting loop
(`Kernel/main.c:35` is commented out), so nothing connects it to Memoria in this
version. It models the compiled functions under that loop.
`Finales` looks at the processes of `Sistema` and `Arranque` from another side: not what the
threads say to their peers, but which global structures they touch and whether
those exist. It models one process at a time, of any of the three programs; of `lista_procesos` only the
length matters there. (Its Kernel is the `main` of
`Kernel/main.c`; the executable the Makefile builds takes its `main` from `kernel.c`, which creates a
logger and nothing else and is `KernelMemoria`.)
`Paginas` EXTENDS `Direcciones`. It begins where `mem_alloc` registers a process, the `procesos` of
`Memoria`, and models the interface over those records that nothing calls yet.

Grain. One action is what one thread does between two points where another
process or thread can be noticed: one blocking read (complete or cut short by
the end of the peer), with the computation and the answers up to the next one.
In `Memoria` that makes a session `Acepta`, `LeeSaludo` or `SaludoDesconocido`,
`LeePedidoAlocar` or `LeePedidoOtro`, `EsperaSwap` when the request does not
fit, and `VuelveAAceptar`. In `Planificador` every `recv()` has two parts, the
call (which picks the connection behind the descriptor) and the return, because
another thread may close or reuse the descriptor in between; and every call on a
queue has two ends, because calls may overlap.

Data. A packet is a sequence of words: the numbers that the code looks at, `Dato` for
payload nobody looks at, and `Indef` for a value read before it was written.
Numbers the code could confuse (a pid and a size, an address and a size) are given
different values, so that mixing them up shows.

Definitions called `Mut...` are not the code. Each is the definition that
follows it with a plausible mistake in it; `PROJECT.json` lists which property
notices which.

### Modelling decisions

* **The plain format.** `Shared/src/utils.c`, with `crear_paquete`, `enviar_mensaje` and
  `recibir_mensaje`, is not in the repository. Its writer is taken to send code,
  size and payload. Its reader may or may not take the trailing `pid` and
  `memoria_a_alocar` that the common `t_buffer` has: the constant `PlanoConPid`
  chooses, and the runs cover both.
* **Corrupted heap.** The code frees some memory twice or uses it after freeing
  it (packets, heap descriptors, `free(copia)` of an `mmap`). What follows is modelled
  as: the process ends at any moment (`Cae`, `Muere`), or goes on with `Indef` where
  the freed value is used. With some C libraries the first of these outcomes always
  happens; the model contains both.
* **Uninitialised values.** `direccion` of a pid that `mem_alloc` already knows,
  `dir` of `first_fit` after its list was freed, the fields of a truncated packet: `Indef`. `Indef` equals no number:
  that a stale stack slot happens to hold 25, the one real address, is left out, and `UnaDireccion` and `PunteroOtorgado` do not speak of it.
* **Descriptor 0.** `ejecutarKernel` closes the global `conexion`, which nobody
  assigns. `fd0` is what descriptor 0 is: the terminal at first, closed by
  the first session; from then on `accept()` hands it out for each session.
* **Plain payload.** `conectarSwap` and Swap read numbers out of plain packets with
  `atoi`, so the missing `crear_paquete` is taken to copy the text it is given and
  `recibir_mensaje` to keep it. (The *carpincho* writer copies the bytes of the
  pointer and its reader frees them: there the payload is opaque.) If the missing
  writer did the same, Swap would not recognise the assignment, would answer
  nothing, and the start would hang: that is the mutant of `ArranqueTermina`.
* **Without Swap** `crear_conexion` fails and nobody looks: Memoria dies of SIGPIPE
  or starts with an undefined number of pages (`SinSwap`).
* **A page write** ends Swap: `elegir_archivo` looks at six files of an array
  that has three (`simple.config`).
* **Swap.** Memoria serves clients after its conversation with Swap
  (`memoria.c:33-38`). `Sistema` starts after it. The path of a request that does not
  fit sends `CARPINCHO_NEW` on descriptor 0 and waits for an answer there: that
  is the client itself, and the model has it so.
* **SIGPIPE** and SIGINT end a process: `Cae` and `Muere` cover both. Words sent to a
  peer that has closed are dropped.
* **A failed `mate_init`** leaves its socket open, and the model too.
* One instance per application process: `Muere` closes one connection.
* `mate_memfree`, `mate_memread`, `mate_memwrite` change nothing outside the
  library (`matelib.c` never sends in them).
* **Queues.** The commons queues have no lock. A call that overlaps another on
  the same queue may take effect, be lost, or crash the process.
* **Released structures** (`Finales`). Using a global that does not exist yet is a NULL pointer and
  ends the process (`nulas`). Using or freeing one that was released damages the heap (`danio`): from
  then on `Aborta` may end the process at any moment, or it goes on. A handler that walks `lista_procesos` after
  the other released it may find its end anywhere, and what it adds to the totals is anything (`Basura`). The frees that
  are wrong whatever happens (`marco` once per frame, `dump` that nobody set, `archivos` twice, the `ip` that belongs to
  the `t_config`) are part of the steps that make them. The damage of packets freed twice
  is `Cae` of `Memoria` and not repeated here.
* **SIGINT** (`Finales`) is delivered to any thread that has not ended and does not block it. The handler runs on
  top of that thread, which stops, while the other one goes on. `signal()` (`memoria.c:172`, `swap.c:350`) blocks the
  signal only in the thread that runs the handler, so a second CTRL+C goes to the other thread and a second
  handler runs beside the first: `manejador`, `senal` and `recorrido` are one per thread (`Hebras`), and a third signal finds nobody.
  The reads and writes of the totals in `imprimirMiss` and `imprimirHit` are steps of their own (`HLee`, `HSuma`), so two handlers may
  lose each other's additions.
* **Locks of the C library** (`Finales`). `alloc` says that a thread was interrupted while it held the lock of `malloc` or of
  stdout; it never gives it back, and a handler on either thread may need it and wait for ever (`Trabado`). The lock of stdout is recursive in glibc, so a
  handler that interrupts its own thread's `printf` goes on there: the model allows that too, since it forbids no step,
  but does not require it.
* **Freed records** (`Paginas`) stay in `lista_procesos`. What a look-up reads in one is anything: it
  may match any pid, its page table may have any page, with `presentBit` set or not. The look-up then answers the frame it
  reads there, any of `Marcos` (`PaginaPresente`).
* **2^31.** TLC's integers end there, so `Direcciones` takes half the width as the constant `Medio`; the
  theorems hold for every value of it above 34.
* **Planificador's descriptors** are numbered from 1; `accept()` hands out the lowest
  free one, as POSIX says.

## 3. The runs

| Run | Question | States | Result |
|---|---|---|---|
| `sistema_plano` | what one server thread does to its connections, its index and its sessions with the plain reader | 252 k | holds |
| `sistema_conpid` | what `mem_alloc` answers over several sessions, and to whom | 541 k | holds |
| `vivo_plano` | does every call of an application return? | 265 k | holds |
| `vivo_conpid` | does the server always come back to `accept()`? | 414 k | holds |
| `planif` | admission and the queues without a lock; do threads end and does `COLA_NEW` empty? | 146 k | holds |
| `arranque` | Memoria and Swap started, killed and restarted in any order: what does Memoria know of Swap, does its start end, and does Swap? | 202 k | holds |
| `finales` | the three programs end, by themselves or by one SIGINT or two: what do they use too late, free twice, or not find? | 344 k | holds |
| `paginas` | registrations and look-ups in any order: what is freed, counted, or NULL? | 198 k | holds |
| `init_avisa` | does `mate_init` tell of a failure, as `matelib/README.md:46-49` shows? | | violated |
| `mid_unico` | are identifications unique, as `matelib/README.md:88-90` asks? | | violated |
| `planif_abierta` | does the loop of `procesar_conexion` run "mientras la conexion este abierta"? | | violated |
| `planif_error` | is "error al recibir el mate init" printed for an error? | | violated |

What the passing runs show:

* `SinFuga`, `CierreNoAjeno`: the close of a variable nobody assigns happens to
  close the session being served, from the second session on, and leaks only the
  first. It never cuts anybody else off.
* `IndiceEnRango`: `cliente_memoria[k]` is in range while no more than `ONLINE` (100,
  `Memoria/include/memoria.h:14`) sessions connect in the life of the server. There is no such
  guarantee afterwards: `k` counts sessions, it never goes down.
* `UnaSolaAtencion`: if the plain reader does not take trailing words, the server
  loses the alignment of every session after the first at its greeting, so `mem_alloc`
  runs for one session at most.
* `SoloTerminaPorCorte`: the server thread ends by itself only when a client leaves during
  its greeting. (It does end then, and Memoria with it.)
* `UnaDireccion`, `RegistroUnico`: one real address is ever handed out; of two sessions with the
  same pid one at most gets a computed answer. `CumpleAsignador` puts these together.
* `PidPropio`, `PunteroOtorgado`: `mem_alloc` works for the identity the client sent,
  whatever the alignment, and an application that believes it has address 25 was granted it.
* `SaludoTermina`, `PrimerAllocTermina`, `ServidorVuelve`: nobody waits for ever in a first
  conversation with Memoria.
* `AdmisionPorCorte`: the Kernel admits a carpincho only after some client broke off its
  `MATE_INIT` between the code and the status: the test `if(a)` has it backwards.
* `LecturaPropia`: as long as none did, a thread reads only its own client. After that
  a thread may read another's, because it keeps a closed descriptor.
* `CaidaPideDos`, `UnHiloEnOrden`: the test-then-pop of `planificar_nuevo_cpncho_FIFO` and the
  missing locks are harmless while one thread admits: nothing is lost, duplicated
  or reordered.
* `DesconexionTermina`, `NewSeVacia`: the thread of a client that disconnects ends, and no carpincho
  stays in `COLA_NEW`, with the exceptions their statements name.

* `ArranqueCompleto`: `conectarSwap` looks at no code and mixes both formats, but unless Swap was
  absent or ended early Memoria starts with Swap's number of pages and the page it asked for.
* `UnaMemoriaPorSwap`: a Memoria that restarts needs a Swap that restarts.
* `SwapNoAbandona`, `ArranqueTermina`, `SwapSeDespide`: Swap does not leave a Memoria that waits, Memoria
  never waits for ever, not even queued behind another run, and Swap ends in the end.

* `ServidorUsaVivo`: the join keeps `main` from releasing what its thread uses; only a SIGINT that takes `main` out of that
  join breaks it, once its handler releases (beside the running server). A handler on the server itself never does.
* `UnaLiberacion`, `NuloTemprano`: the ends release each structure once, and find each one, unless
  SIGINT comes during the release or the creation. A second CTRL+C is the other exception to the first: two handlers
  release everything twice, whatever the two threads were doing. Swap's table is the exception to the second that `SwapSaleSoloFija`
  states: without the fixed assignment Swap never reaches its normal end.
* `MetricasCoherentes`: after one signal the two totals `metricas` prints may be of different sets of carpinchos, because
  the other thread goes on registering, but the first set is a prefix of the second and nobody known when the signal came is left out.
  After two signals both handlers add to the same totals: they are at most twice what is registered, and may be anything if one handler released the list
  under the other.
* `SigintTermina`, `FinTrasHilo`: CTRL+C ends the program, however often it is pressed, unless it caught a thread inside the allocator or
  `printf`, where a handler may wait for a lock nobody gives back; with two signals either thread's lock is enough. A program whose last
  thread ended ends.
* `HallarCuelga`: `esta_cargada_marco` is usable for unknown processes only. Finding one frees it,
  or meets the NULL of a page it does not have, so the interface cannot be called as it is. The branch for a present page is reached
  only in the table of a freed record, where the answer may be any number, the 605 of "no such process" included.
* `ContadoresIniciales`: no hit or miss that is counted is ever reported: the counter lives in the record that the
  counting function frees.
* `RegistrosDistintos`, `MenosUnoSiempreCuenta`: pids stay unique up to the -1 of a repeated one; -1 is also
  what every entry of the TLB has, even of a TLB configured with none, because `inicializar_tlb` makes one more.

Every property of a passing run is violated by at least one mutant.

### Findings

* `mate_init` returns 0 whatever happened (`matelib.c:62`).
* Two instances started in the same second get one identification (`matelib.c:53`).
* `procesar_conexion` loops on a local that never changes, also after the connection is closed
  (`procesar_carpinchos.c:19-21`).
* A correct `MATE_INIT` is reported as an error and not admitted, because its status `NEW` is 0
  (`procesar_carpinchos.c:35-39`).

## 4. Bounds

| Bound | Value | Why it is enough |
|---|---|---|
| `Carpinchos` | 2, plus the two sessions of the Kernel | a first session, a later one, and two at once in the backlog, in every order; two instances with equal or distinct pids |
| `MaxReloj` | 2 different seconds | `mate_init` in the same second and in different ones |
| `Tamanios` | 24 and 600, with `TamMemoria` 512 | a request that fits and one that does not |
| `MaxAlloc` | 2 (safety), 1 (liveness) | a second `mate_memalloc` on a connection nobody reads any more; it may wait for ever, so liveness speaks of the first |
| `ONLINE` | 4 | exactly the sessions there are: the bound is tight |
| `Clientes` (Planificador) | 2 | a stale thread and the client whose descriptor it got; two threads in the queues |
| `MaxPalabras` | 2 per client | a code and its status, or a code and its interruption, or a code that is only logged before a `MATE_INIT` |
| `Memorias` (Arranque) | 3 | a run that is served, one in the backlog and one that finds a new Swap |
| `MaxVidas` | 3 | runs of Swap: one for each run of Memoria |
| `CantPaginas` | 32 | 128 / 4 of `Swap/simple.config`; only equality matters |
| `MaxPcbs` | 2 | a thread that admits twice, and two threads with one carpincho each in NEW at once; also bounds how often a race may lose a pop |
| `PlanoConPid` (Arranque) | FALSE | the plain answer of Swap is read without trailing words |
| `MaxProcesos` (Finales) | 2 | carpinchos before the signal and between the two walks of `metricas`, or one that both handlers count; the proofs hold for any number |
| `Pids`, `MaxProcesos` (Paginas) | 1 and 101, 3 records | a pid that `prueba` uses too and one it does not; `mem_alloc` before or after `prueba`, with the same pid or another |
| `Marcos` (Paginas) | 0 and 605 | what a freed entry's frame reads as: a frame, and a number that looks like PROCESO_NO_MEMO |
| `CantPaginas` (Paginas) | 2 | a page before, inside and after the table |
| `CantEntradasTlb` | 0 | all entries are alike; with 0 the extra one is the only one |
| `TamPagina`, `Medio` | 32, 2^30 - 1 | only evaluated by the assumptions |

Deadlock is not checked: the server may rest in `accept()` with nobody left, a
client may wait for a second answer that never comes, a program that has ended takes
no step, and the bounds stop things. Symmetry (`Simetria`) is used in the two safety runs of `Sistema` only.

## 5. Fairness

* `Sistema`: weak fairness of the server thread, of the Kernel's `main` and of a library
  call in progress: sequential code that is scheduled. Also of an application
  between two calls (`UsaOCierra`): `test/test_carpincho.c` goes from call to call
  and closes at the end, without waiting for anybody. This leaves out a client that stays connected and silent: it
  would hold up everybody (`conexionesMemoria.c:90`), and the liveness properties do not speak of it. Not fair: the clock, the start
  of an application, any death.
* `Arranque`: weak fairness of Swap's thread and `main`, and of a Memoria that is starting. Not fair:
  starting or killing either.
* `Planificador`: weak fairness of the accepting loop and of every thread. Clients
  are not fair at all.
* `Finales`: weak fairness of `main`, and of each handler as long as no interrupted thread holds a lock (`~Trabado`): sequential code, runnable until it waits.
  The server thread is not fair, since it waits for peers that may never speak, and nobody has to press CTRL+C.

Weak fairness is enough: an enabled step of a thread stays enabled until it takes it,
because nobody else takes its words or its turn in `accept()`.

## 6. Proofs

Assumptions are only the named ones of the modules (`SesionesDistintas`, `CarpinchosFinito`,
`IndefNoEsNumero`, `NuloNoEsPalabra`, ...): `Dato` and `Indef` are no numbers, `Nulo` is no word, the sessions
are different, the set of instances is finite, the sizes are naturals. TLC evaluates them in
every run. Nothing bounds the number of instances, the clock, the sizes or ONLINE. Two theorems
have a hypothesis of their own, `SeAtiendeUnaVez` and `PunteroSeOtorga`; see `Mensajes_proofs`.

Every safety invariant and action property of the passing runs is proved. How:

* `Paquetes_proofs`: a *carpincho* packet with a payload is read back field by field
  and leaves just what follows it (`TramaCarpinchoLlega`); an empty one is always an ERROR
  (`TramaVaciaEsError`); a plain reader leaves its pid and size in the connection (`PlanoDejaCola`).
  `LeeTrama`, `LeeTramaPlana` and `NadaQueLeer`, what each reader makes of a packet, of a packet of the
  other format and of nothing, are the lemmas the other proofs read connections with.
* `Sistema_proofs`: `TiposCorrectos`, `SinFugas`, `CierresPropios`, `IndiceAcotado`. `TypeInv` adds to `TypeOK`
  what typing needs, such as that a server thread that is serving has a session. `ConexInv` strengthens
  `SinFuga`, which is not inductive: it does not say what descriptor 0 *is*. `DescriptorCero` does (the
  terminal before the first session ends, then the session being served, nobody
  between sessions), `ColaEnEspera` says that the backlog holds each waiting session once,
  so that `accept()` cannot return an old one. `ClaseDePaso` sorts the steps of `Next`
  by what they do to the server's ends, so that the proofs about connections need one case per kind of change.
  `CuentaInv` equates `k` with the number of sessions accepted.
* `Asignacion_proofs`: `DireccionUnica`, `RegistrosUnicos`, `ImplementaAsignador`. `AsigInv` needs
  `HeapsFieles` (the state of `lista_de_heaps` tells whether the address was handed out)
  and `PidsRegistrados` (every pid that was answered is in `lista_procesos`, and one that waits
  for "Swap" is not yet). The refinement is an initial lemma and a step lemma: a
  step of the system either answers one session, which is a step of `Asignador`,
  or leaves `procesos` and `concesion` alone.
* `Mensajes_proofs`: `CadaSesionEnSuPunto`, `PidDelCliente`, `NoSeConfundeAlSaludar`, `SeAtiendeUnaVez`, `PunteroSeOtorga`.
  These are about what arrives, so the invariant has to say what is on the way. `InvMensajes` does it
  session by session: the place of the client (`Lado`, which gives the Kernel's two connections and the
  instances the same steps) and the place of the server thread fix what both directions of the connection
  hold (`PorAtender`, `EnPedido`, `EnSwap`, `EnConfirmar`). `Buzon` is the weaker statement about the
  client's inbox that stays true once the server thread has gone on, `Extremo` ties the two ends together. A client's step is one of eight
  (`Mueve`), proved once for every point; a step of Memoria changes the point of the session it serves and
  leaves the others (`SesionAjena`). Packets are opaque there: the lemmas `Llega...` say what the reader
  at each point gets, also when the words of the greeting were left in front of the request.
  * `SeAtiendeUnaVez` assumes `~PlanoConPid`, the reading of the missing `recibir_mensaje` that it is about.
    With the other reading every session is aligned and the property is false.
  * `PunteroSeOtorga` assumes that a request of exactly 25 bytes, if any application makes one, fits in the memory. A
    request that does not fit may be sent back to its own client with its size in the place of the address, and the
    size 25 cannot be told from the address 25.
* `Arranque_proofs`: `UnSwapPorMemoria`, `TiposDelArranque`, `SeArrancaCompleto`, `SwapEsperaElFinal`. `SaludosPasados` strengthens
  `UnaMemoriaPorSwap`: answers are numbered by the runs of Swap, and the current run has given none before it leaves
  `"saludo"`. `InvArranque` is the counterpart of `InvMensajes` for Swap: which packets the one connection
  being served holds at each point of the exchange (`Servida`, `Intercambio`), what a run of Memoria has read so far (`Valores`),
  and that only a run whose Swap left early is still waiting on a connection that is closed.
* `Planificador_proofs`: `TiposDelKernel`, `SoloElCorteAdmite`, `CadaUnoLoSuyo`, `CaerPideDosHilos`, `UnHiloNoPierde`. Two invariants.
  `InvSinCortes`, for the first two properties after the types: while nobody broke a MATE_INIT off, what each client has sent
  is a sequence of codes, each MATE_INIT with its status, at the point its thread expects; so no thread reads a
  status as a code, no descriptor is closed twice, and each one still belongs to the client of its thread. `InvPlan`, for the queues: whoever is planning has
  created; so while one thread creates, no calls overlap and the queues and what is in hand are the series of
  the carpinchos created.
* `Finales_proofs`: `TiposDeLosFinales`, `ElServidorUsaVivo`, `SeLiberaUnaVez`, `SoloFaltaLaTabla`, `SwapSaleConTabla`, `MetricasDeDosMomentos`.
  `InvFases` says where `main` and the server can be together, `InvManejador` where each handler is in the end and in its walk, `InvSenal` and `InvFin` which threads
  the signals stopped, `InvVida` ties the life of each structure to how far `main` has come in creating it and the ends in
  releasing it, `InvTabla` does that for Swap's table, which the server creates. `AjenoQuieto` says that a step of one handler leaves the other's
  state alone. For `metricas` there are two invariants. `InvSolo` gives the totals exactly while one handler runs: so many times what its walk has passed, between
  the processes known at the signal and those registered now. With two handlers no exact count holds, since one may
  write back a total it read before the other's additions; `InvDoble` bounds the totals, and the ones read and not yet written back, by the
  sum of the two walks (`Suma`).
* `Paginas_proofs`, on addresses: `DireccionPorTramos` removes the wrap of `prev - 9`; from it `DireccionesDistintas` (25 is
  the only address that can be given twice), and `DireccionReconstruida` for the division that truncates
  towards zero. `RechazoEnPaginaCero`: a refusal, -3, looks like an address of page 0.
* `Paginas_proofs`, on the records: every property of `Paginas`, for any number of pages, TLB entries and records. `ListaPaso` sorts the steps by what they
  do to `lista_procesos` (grow by fresh records, free one, or leave it); `CreceCuelga` and `SueltaCuelga` say what that
  means for the freed records and their counters, `PresenteSuelta` what the answer out of a freed record does, `CreceDistintos` for the pids. The invariants are inductive with `TypeOK`.

Only model-checked: all liveness (`SaludoTermina`, `PrimerAllocTermina`, `ServidorVuelve`, `ArranqueTermina`,
`SwapSeDespide`, `DesconexionTermina`, `NewSeVacia`, `SigintTermina`, `FinTrasHilo`). It needs fairness and ENABLED, which
the prover does not reason about. The four runs that expect a violation are counterexamples, found by TLC.

## 7. Not modelled

* `cargar_pagina_en_tlb` has no body, `calcular_marco` returns a constant; nobody calls either. The contents of `lista_marcos`, which nothing reads.
* `lista_de_heaps` at the end: nobody releases it.
* The contents of `memoria_principal` and of Swap's files.
* `funciones_Swap.c`: nobody calls it, and it would send on the global `conexion`, which nobody connects.
* `alocar_memoria`, `conexionesMatelib`, `Shared/src/sockets.c`,
  `matelib/src/mate_init.c`: nobody calls them.
* `planificar_ejecucion_SJF`: unfinished (it reads the head of an empty list) and uncalled.
* The values of the configuration, logging, printing.

## 8. Plan

Done: the core (`Paquetes`, `Canales`, `Matelib`, `KernelMemoria`, `Memoria`, `Sistema`, `Asignador`), `Swap` and `Arranque`,
`Planificador`, `Finales`, `Paginas` and `Direcciones`, with every safety property proved. Next, in this order:

1. Abstract specifications of the start (`Arranque`: one conversation, complete or broken) and of the admission
   of one creator (`Planificador`: a FIFO), and that the modules implement them, from `InvArranque` and `InvPlan`.
2. The hazards that no property covers yet, each with its note in `PROJECT.json`, when the code that reaches them gets a caller.
