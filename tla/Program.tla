------------------------------ MODULE Program ------------------------------
(***************************************************************************)
(* A program from its first instruction: crt0.c checks that the image fits *)
(* into the RAM it was given, and then everybody allocates from the arena  *)
(* behind it (module Heap): the program's own mappings, mallocng, and      *)
(* dlopen() of port/dlfcn_shim.c, which holds a descriptor, a copy of the  *)
(* file and the module's memory while it works, and must give back each of *)
(* them on each way out.                                                   *)
(*                                                                         *)
(* A module is large enough for malloc() to map its file and its memory;   *)
(* the handle is small, and malloc() finds room for it somewhere or not.   *)
(* What is wrong with a file -- its header, its segments, a symbol nobody  *)
(* defines -- is a choice.  dlopen() runs in one thread, while others map  *)
(* and unmap.                                                              *)
(***************************************************************************)
EXTENDS Heap

CONSTANT MaxModules    \* bound: modules loaded at a time

ASSUME ModulesAssumption == MaxModules \in Nat

VARIABLES
  phase,      \* "boot", "main", or "exit": crt0.c has given up
  others,     \* the mappings that are not dlopen()'s
  pc,         \* where dlopen() is
  fd,         \* whether its descriptor is open
  filebuf,    \* filebuf and block, or 0
  block,
  modules     \* the blocks of the open handles

loaderVars == <<pc, fd, filebuf, block, modules>>
progVars == <<vars, phase, others, loaderVars>>

ProgramInit ==
  /\ Fresh
  /\ phase = "boot" /\ others = {}
  /\ pc = "idle" /\ fd = FALSE /\ filebuf = 0 /\ block = 0 /\ modules = {}

-----------------------------------------------------------------------------
(* crt0.c *)

\* Mutant of Fits: what the host answers is not looked at
FitsAnyway == TRUE

\* the image and its .bss end inside the window
Fits == BssStop <= heapEnd'

\* image_fits_in_ram(), before zero_bss() writes to all of it: if it does not,
\* the host is asked for what is missing, once.
Boot ==
  /\ phase = "boot"
  /\ IF BssStop <= heapEnd THEN UNCHANGED heapEnd ELSE HeapGrow
  /\ phase' = IF Fits THEN "main" ELSE "exit"
  /\ UNCHANGED <<heapCur, free, live, meta, ctxBrk, ctxPc, others, loaderVars>>

-----------------------------------------------------------------------------
(* the program and mallocng *)

ProgramMap(len) ==
  /\ phase = "main"
  /\ Map(len)
  /\ others' = others \cup (DOMAIN live' \ DOMAIN live)
  /\ UNCHANGED <<phase, loaderVars>>

ProgramUnmap ==
  /\ phase = "main"
  /\ \E a \in others :
       \/ Unmap(a, a, live[a])
       \/ live[a] > Page /\ (Unmap(a, a, Page) \/ Unmap(a, a + live[a] - Page, Page))
  /\ others' = (others \cap DOMAIN live') \cup (DOMAIN live' \ DOMAIN live)
  /\ UNCHANGED <<phase, loaderVars>>

Mallocng ==
  /\ phase = "main"
  /\ \/ \E len \in MapLen : MapFails(len)
     \/ MetaQuery \/ MetaFirst \/ MetaGuard \/ MetaGrow
  /\ UNCHANGED <<phase, others, loaderVars>>

-----------------------------------------------------------------------------
(* dlopen() and dlclose() *)

Loader(at) == phase = "main" /\ pc = at
Keep == UNCHANGED <<phase, others>>

\* malloc() and free() of what dlopen() maps
Malloc(len, p) ==
  /\ p \in DOMAIN free \cup {RoundUp(heapCur)}
  /\ SysMmap(RoundUp(len), p)
  /\ live' = With(live, p, RoundUp(len))
  /\ UNCHANGED <<meta, ctxBrk, ctxPc>>

MallocFails(len) == MapFails(len)

Free(a) ==
  /\ SysMunmap(a, live[a])
  /\ live' = Without(live, a)
  /\ UNCHANGED <<meta, ctxBrk, ctxPc>>

\* dlopen() returns a handle, or 0
DlReturns == pc' = "idle" /\ fd' = FALSE /\ filebuf' = 0 /\ block' = 0

\* open() and fstat(); when fstat() fails the descriptor is closed at once.
DlOpen ==
  /\ Loader("idle") /\ Cardinality(modules) < MaxModules
  /\ pc' = "file" /\ fd' = TRUE
  /\ Keep /\ UNCHANGED <<vars, filebuf, block, modules>>

\* room for a copy of the file
DlFile(len) ==
  /\ Loader("file")
  /\ \/ \E p \in DOMAIN free \cup {RoundUp(heapCur)} :
          Malloc(len, p) /\ filebuf' = p /\ pc' = "read" /\ UNCHANGED <<fd, block>>
     \/ MallocFails(len) /\ DlReturns
  /\ Keep /\ UNCHANGED modules

\* Mutant of DlRead: a file that ends early is not given back
DlReadKeeps ==
  /\ Loader("read")
  /\ \/ UNCHANGED vars /\ DlReturns
     \/ UNCHANGED vars /\ pc' = "check" /\ fd' = FALSE /\ UNCHANGED <<filebuf, block>>
  /\ Keep /\ UNCHANGED modules

\* read() until it is all there; the descriptor is closed either way.
DlRead ==
  /\ Loader("read")
  /\ \/ Free(filebuf) /\ DlReturns
     \/ UNCHANGED vars /\ pc' = "check" /\ fd' = FALSE /\ UNCHANGED <<filebuf, block>>
  /\ Keep /\ UNCHANGED modules

\* ELF header and program headers, and room for the segments
DlCheck(len) ==
  /\ Loader("check")
  /\ \/ Free(filebuf) /\ DlReturns
     \/ MallocFails(len) /\ pc' = "nomem" /\ UNCHANGED <<fd, filebuf, block>>
     \/ \E p \in DOMAIN free \cup {RoundUp(heapCur)} :
          Malloc(len, p) /\ block' = p /\ pc' = "link" /\ UNCHANGED <<fd, filebuf>>
  /\ Keep /\ UNCHANGED modules

DlNoMemory == Loader("nomem") /\ Free(filebuf) /\ DlReturns /\ Keep /\ UNCHANGED modules

\* The dynamic section and the relocations; then the constructors run.
DlLink ==
  /\ Loader("link")
  /\ \/ Free(block) /\ block' = 0 /\ pc' = "nomem" /\ UNCHANGED <<fd, filebuf>>
     \/ Free(filebuf) /\ filebuf' = 0 /\ pc' = "handle" /\ UNCHANGED <<fd, block>>
  /\ Keep /\ UNCHANGED modules

\* The handle; without one the module goes although its constructors have run.
DlHandle ==
  /\ Loader("handle")
  /\ \/ Free(block) /\ UNCHANGED modules
     \/ modules' = modules \cup {block} /\ UNCHANGED vars
  /\ DlReturns /\ Keep

DlClose ==
  /\ Loader("idle")
  /\ \E b \in modules : Free(b) /\ modules' = modules \ {b}
  /\ Keep /\ UNCHANGED <<pc, fd, filebuf, block>>

-----------------------------------------------------------------------------
(* The specification *)

Dlopen ==
  \/ DlOpen \/ DlRead \/ DlNoMemory \/ DlLink \/ DlHandle
  \/ \E len \in MapLen : DlFile(len) \/ DlCheck(len)

ProgramNext ==
  \/ Boot \/ Mallocng \/ ProgramUnmap \/ \E len \in MapLen : ProgramMap(len)
  \/ Dlopen \/ DlClose

ProgramSpec == ProgramInit /\ [][ProgramNext]_progVars

-----------------------------------------------------------------------------
(* Properties *)

\* A program that was started stays inside its RAM, from the image it zeroes
\* to the last thing it allocates, however little RAM it was given.
InWindow == phase = "main" => InArena

\* Whichever of its steps fails, dlopen() gives back all it has taken: what is
\* mapped is the program's, or a loaded module, or held by the dlopen() that is
\* still going on -- and nothing twice.
Held == {filebuf, block} \ {0}
LoaderGivesBack ==
  /\ DOMAIN live = others \cup modules \cup Held
  /\ others \cap (modules \cup Held) = {} /\ modules \cap Held = {}
  /\ filebuf # 0 => filebuf # block
  /\ fd => pc \in {"file", "read"}

=============================================================================
