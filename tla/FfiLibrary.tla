----------------------------- MODULE FfiLibrary -----------------------------
(***************************************************************************)
(* utils/python/libhw/_ffi.py: finding libhw.so, loading it once for the   *)
(* process, giving every entry point its signature, and reading the C      *)
(* structs.  The threads of a Python program share the module's _lib; the  *)
(* interpreter may switch between any two of their steps.                  *)
(*                                                                         *)
(* A library object (ctypes.CDLL) is made by every load; the signatures    *)
(* belong to the object.                                                   *)
(***************************************************************************)
EXTENDS Integers, Sequences

Places == <<"override", "tree", "bundled", "system">>

CONSTANTS
    Threads,
    Symbols,     \* the entry points in the order _bind goes through them
    Disks,       \* bound: what is on the disk, place -> file
    None,
    MaxListed    \* 64 in the code: entries databases() looks at

ASSUME FfiAssumption ==
    /\ MaxListed \in Nat /\ Len(Symbols) \in Nat
    /\ None \notin Nat /\ \A i \in 1 .. 4 : None # Places[i]
    /\ \A d \in Disks, i \in 1 .. 4 :
          /\ d[Places[i]].loads => d[Places[i]].file \/ ~d[Places[i]].absolute
          \* hw_state_databases[]: the named entries, then the one without a name
          /\ \E n \in 0 .. MaxListed :
                /\ d[Places[i]].table \in [1 .. (n + 1) -> {d[Places[i]].table[k] : k \in 1 .. (n + 1)}]
                /\ \A k \in 1 .. (n + 1) : d[Places[i]].table[k] = None <=> k = n + 1

VARIABLES
    disk,     \* place -> [set, file, absolute, loads, exports, structs, table]
    objects,  \* the library objects: [of, bound, failed], of a place
    _lib,     \* the module's global: an index of objects, or None
    pc,       \* thread -> where it is in lib()
    at,       \* thread -> the entry point that its _bind is at
    held,     \* thread -> the object it binds, or has been given
    raised    \* thread -> what its last lib() raised, or ""

vars == <<disk, objects, _lib, pc, at, held, raised>>

-----------------------------------------------------------------------------
(* Finding and loading.  The override is tried as it is written, the build *)
(* tree and the bundled copy if they are there, and what the linker knows  *)
(* by its name alone.                                                      *)

(* The positions of Places that are tried, in their order.                 *)
_candidate_paths(d) ==
    {i \in 1 .. Len(Places) :
        IF Places[i] \in {"override", "system"} THEN d[Places[i]].set ELSE d[Places[i]].file}

CanLoad(f) == (f.file \/ ~f.absolute) /\ f.loads

FirstOf(S) == CHOOSE i \in S : \A j \in S : i <= j

(* Mutant: only the first path is tried.                                   *)
LoadFirstOnly(d) ==
    LET paths == _candidate_paths(d)
    IN  IF paths = {} \/ ~CanLoad(d[Places[FirstOf(paths)]]) THEN None
        ELSE Places[FirstOf(paths)]

load_library(d) ==
    LET usable == {i \in _candidate_paths(d) : CanLoad(d[Places[i]])}
    IN  IF usable = {} THEN None ELSE Places[FirstOf(usable)]

-----------------------------------------------------------------------------
(* lib().                                                                  *)

(* if _lib is None.                                                        *)
Enter(t) ==
    /\ pc[t] = "idle"
    /\ raised' = [raised EXCEPT ![t] = ""]
    /\ IF _lib = None
       THEN pc' = [pc EXCEPT ![t] = "load"] /\ UNCHANGED held
       ELSE pc' = [pc EXCEPT ![t] = "call"] /\ held' = [held EXCEPT ![t] = _lib]
    /\ UNCHANGED <<disk, objects, _lib, at>>

(* _lib = load_library().                                                  *)
Load(t) ==
    /\ pc[t] = "load" /\ load_library(disk) # None
    /\ objects' = Append(objects, [of |-> load_library(disk), bound |-> 0, failed |-> FALSE])
    /\ _lib' = Len(objects')
    /\ pc' = [pc EXCEPT ![t] = "bind"]
    /\ UNCHANGED <<disk, at, held, raised>>

NotFound(t) ==
    /\ pc[t] = "load" /\ load_library(disk) = None
    /\ raised' = [raised EXCEPT ![t] = "HwLibraryNotFound"]
    /\ pc' = [pc EXCEPT ![t] = "idle"]
    /\ UNCHANGED <<disk, objects, _lib, at, held>>

(* _bind(_lib): the global is read again for the call, ...                 *)
StartBind(t) ==
    /\ pc[t] = "bind"
    /\ held' = [held EXCEPT ![t] = _lib]
    /\ pc' = [pc EXCEPT ![t] = "binding"] /\ at' = [at EXCEPT ![t] = 1]
    /\ UNCHANGED <<disk, objects, _lib, raised>>

(* Mutant: the last entry point is forgotten.                              *)
ToBindButLast == 1 .. (Len(Symbols) - 1)

ToBind == 1 .. Len(Symbols)

(* ... entry point by entry point, ...                                     *)
BindOne(t) ==
    /\ pc[t] = "binding"
    /\ at[t] \in ToBind /\ Symbols[at[t]] \in disk[objects[held[t]].of].exports
    /\ objects' = [objects EXCEPT ![held[t]].bound = IF at[t] > @ THEN at[t] ELSE @]
    /\ at' = [at EXCEPT ![t] = @ + 1]
    /\ UNCHANGED <<disk, _lib, pc, held, raised>>

(* ... up to one that the library does not have: AttributeError.           *)
BindFails(t) ==
    /\ pc[t] = "binding"
    /\ at[t] \in ToBind /\ Symbols[at[t]] \notin disk[objects[held[t]].of].exports
    /\ objects' = [objects EXCEPT ![held[t]].failed = TRUE]
    /\ raised' = [raised EXCEPT ![t] = "AttributeError"]
    /\ pc' = [pc EXCEPT ![t] = "idle"]
    /\ UNCHANGED <<disk, _lib, at, held>>

(* return _lib: read once more.                                            *)
Return(t) ==
    /\ pc[t] = "binding" /\ at[t] \notin ToBind
    /\ held' = [held EXCEPT ![t] = _lib]
    /\ pc' = [pc EXCEPT ![t] = "call"]
    /\ UNCHANGED <<disk, objects, _lib, at, raised>>

(* The caller makes its C call, and is done with the library.              *)
Call(t) ==
    /\ pc[t] = "call"
    /\ pc' = [pc EXCEPT ![t] = "idle"]
    /\ UNCHANGED <<disk, objects, _lib, at, held, raised>>

Init ==
    /\ disk \in Disks
    /\ objects = << >> /\ _lib = None
    /\ pc = [t \in Threads |-> "idle"]
    /\ at = [t \in Threads |-> 1]
    /\ held = [t \in Threads |-> None]
    /\ raised = [t \in Threads |-> ""]

Next ==
    \E t \in Threads :
        \/ Enter(t) \/ Load(t) \/ NotFound(t) \/ StartBind(t)
        \/ BindOne(t) \/ BindFails(t) \/ Return(t) \/ Call(t)

Spec == Init /\ [][Next]_vars

-----------------------------------------------------------------------------
(* The structs as _ffi.py declares them, each field by its C type.         *)

HwFlashInfo == <<"unsigned", "unsigned", "unsigned", "unsigned">>
HwFlashPatchStats == <<"unsigned", "unsigned", "unsigned", "unsigned">>

(* Mutant: snapshot was added to the header only.                          *)
HwStateDescShort ==
    <<"pointer", "int", "int", "pointer", "int", "uint16", "uint8", "uint8",
      "pointer", "pointer">>

HwStateDesc ==
    <<"pointer", "int", "int", "pointer", "int", "uint16", "uint8", "uint8", "uint8",
      "pointer", "pointer">>
HwStateAlias == <<"pointer", "pointer", "uint16", "uint16">>
HwStateOperation == <<"pointer", "pointer", "pointer">>
HwStateComponent == <<"pointer", "uint32">>
HwStateDbgReg == <<"pointer", "uint8", "uint8", "uint8">>
HwCpuFeatures ==
    <<"uint32", "uint16", "uint8", "uint8", "pointer", "uint8", "pointer", "pointer",
      "uint8", "uint8", "uint8", "uint8", "uint8">>
HwStateResult == <<"int", "pointer", "int", "uint32", "uint8">>
HwStateDb ==
    <<"pointer", "pointer", "pointer", "size_t", "pointer", "size_t", "pointer", "size_t",
      "pointer", "size_t", "pointer", "size_t">>

Declared ==
    <<HwFlashInfo, HwFlashPatchStats, HwStateDesc, HwStateAlias, HwStateOperation,
      HwStateComponent, HwStateDbgReg, HwCpuFeatures, HwStateResult, HwStateDb>>

(* The structs of include/hw.h and include/hw_state.h.                     *)

hw_state_desc_t ==
    <<"pointer", "enum", "enum", "pointer", "enum", "uint16", "uint8", "uint8", "uint8",
      "pointer", "pointer">>
hw_cpu_features_t ==
    <<"uint32", "uint16", "uint8", "uint8", "pointer", "uint8", "pointer", "pointer",
      "uint8", "uint8", "uint8", "uint8", "uint8">>
hw_state_db_t ==
    <<"pointer", "pointer", "pointer", "size_t", "pointer", "size_t", "pointer", "size_t",
      "pointer", "size_t", "pointer", "size_t">>

Headers ==
    << <<"unsigned", "unsigned", "unsigned", "unsigned">>,      \* hw_flash_info_t
       <<"unsigned", "unsigned", "unsigned", "unsigned">>,      \* hw_flash_patch_stats_t
       hw_state_desc_t,
       <<"pointer", "pointer", "uint16", "uint16">>,            \* hw_state_alias_t
       <<"pointer", "pointer", "pointer">>,                     \* hw_state_operation_t
       <<"pointer", "uint32">>,                                 \* hw_state_component_t
       <<"pointer", "uint8", "uint8", "uint8">>,                \* hw_state_dbgreg_t
       hw_cpu_features_t,
       <<"enum", "pointer", "enum", "uint32", "uint8">>,        \* hw_state_result_t
       hw_state_db_t >>

(* Where the fields are, and how large the struct is: every field at the   *)
(* next multiple of its size, the struct a multiple of the largest.        *)
SizeOf(type, w) ==
    CASE type \in {"pointer", "size_t"} -> w
      [] type \in {"unsigned", "int", "enum", "uint32"} -> 4
      [] type = "uint16" -> 2
      [] type = "uint8" -> 1

Align(n, a) == ((n + a - 1) \div a) * a

Sizes(fields, w) == [i \in 1 .. Len(fields) |-> SizeOf(fields[i], w)]

EndOf(sizes) ==
    LET end[i \in 0 .. Len(sizes)] ==
            IF i = 0 THEN 0 ELSE Align(end[i - 1], sizes[i]) + sizes[i]
    IN  end

Layout(sizes) ==
    LET end == EndOf(sizes)
        all == {sizes[i] : i \in 1 .. Len(sizes)}
        widest == CHOOSE s \in all : \A z \in all : z <= s
    IN  [fields |-> [i \in 1 .. Len(sizes) |-> <<end[i] - sizes[i], sizes[i]>>],
         size |-> Align(end[Len(sizes)], widest)]

(* databases(): up to the entry without a name.                            *)
databases(table) ==
    LET named == {n \in 0 .. MaxListed : \A i \in 1 .. n : i <= Len(table) /\ table[i] # None}
    IN  SubSeq(table, 1, CHOOSE n \in named : \A m \in named : m <= n)

-----------------------------------------------------------------------------
(* Every way to an object without all its signatures goes through the      *)
(* published one: it is bound, a bind of it raised, or one is to come.     *)
Published ==
    _lib # None =>
        \/ objects[_lib].bound = Len(Symbols)
        \/ objects[_lib].failed
        \/ \E u \in Threads : pc[u] = "bind" \/ (pc[u] = "binding" /\ held[u] = _lib)

(* A bind under way has done the entry points before the one it is at.     *)
BoundSoFar ==
    \A t \in Threads : pc[t] = "binding" =>
        /\ at[t] \in 1 .. (Len(Symbols) + 1)
        /\ objects[held[t]].bound >= at[t] - 1

(* What is published, bound or used has been loaded.                       *)
Held ==
    /\ _lib # None => _lib \in 1 .. Len(objects)
    /\ \A t \in Threads :
          /\ pc[t] \in {"bind", "binding", "call"} => _lib # None
          /\ pc[t] \in {"binding", "call"} => held[t] \in 1 .. Len(objects)

Objects == [of : {load_library(disk)}, bound : 0 .. Len(Symbols), failed : BOOLEAN]
Handles == Nat \cup {None}

TypeOK ==
    /\ objects \in Seq(Objects)
    /\ _lib \in Handles
    /\ pc \in [Threads -> {"idle", "load", "bind", "binding", "call"}]
    /\ at \in [Threads -> Nat]
    /\ held \in [Threads -> Handles]
    /\ raised \in [Threads -> {"", "HwLibraryNotFound", "AttributeError"}]

IInv == TypeOK /\ Held /\ BoundSoFar /\ Published

(* "Give every entry point an explicit signature" (_ffi.py:198) and "bound *)
(* on first use" (_ffi.py:275): the object that a caller holds has all its *)
(* signatures, unless one of three things happened: another thread is      *)
(* still binding it or about to (it was published before it was bound), a  *)
(* bind of it raised (it stays published), or another thread's load took   *)
(* its place before it was bound.                                          *)
UnboundHasACause ==
    \A t \in Threads : pc[t] = "call" =>
        \/ objects[held[t]].bound = Len(Symbols)
        \/ objects[held[t]].failed
        \/ _lib # held[t]
        \/ \E u \in Threads \ {t} :
              pc[u] = "bind" \/ (pc[u] = "binding" /\ held[u] = held[t])

(* The library is the first of the places, in their order, that can be     *)
(* loaded: one that is missing or broken does not hide the next, and only  *)
(* when none can be loaded is it not found (_ffi.py:60).                   *)
LoadsWhatCan ==
    LET there(p) == IF p \in {"override", "system"} THEN disk[p].set ELSE disk[p].file
        usable == {i \in 1 .. Len(Places) : there(Places[i]) /\ disk[Places[i]].loads}
    IN  /\ \A o \in 1 .. Len(objects) :
              \E i \in usable : objects[o].of = Places[i] /\ \A j \in usable : i <= j
        /\ \A t \in Threads : raised[t] = "HwLibraryNotFound" => usable = {}

(* "These declarations mirror include/hw.h and include/hw_state.h exactly" *)
(* (_ffi.py:4): what is read through a library is what its build put       *)
(* there, field for field and also in arrays, with pointers of four and of *)
(* eight bytes, and the list of databases is the library's.  Of a library  *)
(* built from other headers, which the search may well prefer, this does   *)
(* not hold, and nothing in lib() would tell.                              *)
ReadsWhatIsThere ==
    \A t \in Threads : pc[t] = "call" =>
        LET file == disk[objects[held[t]].of]
        IN  file.structs = Headers =>
                /\ \A s \in 1 .. Len(Declared), w \in {4, 8} :
                      Layout(Sizes(Declared[s], w)) = Layout(Sizes(file.structs[s], w))
                /\ \A i \in 1 .. Len(file.table) :
                      IF file.table[i] = None THEN i > Len(databases(file.table))
                      ELSE databases(file.table)[i] = file.table[i]
=============================================================================
