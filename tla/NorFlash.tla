------------------------------ MODULE NorFlash ------------------------------
(***************************************************************************)
(* The NOR flash behind a libhw backend, seen as a function from absolute  *)
(* target addresses to bytes.  A byte is the set of its bits that are 1:   *)
(* erasing a byte gives Bits (0xFF), and programming can only clear bits,  *)
(* so it intersects (the "dst[i] &= buf[i]" of backends/mock/hw_mock.c).   *)
(* The geometry (where each erase block starts and ends) is a parameter;   *)
(* SectorMaps shows that each backend's lookup is such a geometry.         *)
(***************************************************************************)
EXTENDS Integers

CONSTANTS
    Base,         \* hw_flash_info_t.base: first address of the flash
    Size,         \* hw_flash_info_t.size: its length in bytes
    Bits,         \* the bits of a byte
    SectorStart,  \* SectorStart[a]: first address of a's erase block
    SectorEnd     \* SectorEnd[a]: the address after a's erase block

Addr == Base .. (Base + Size - 1)
Byte == SUBSET Bits

ASSUME FlashAssumption ==
    /\ Base \in Nat
    /\ Size \in Nat \ {0}

(* The erase blocks partition the flash into intervals.                    *)
ASSUME GeometryAssumption ==
    /\ SectorStart \in [Addr -> Nat]
    /\ SectorEnd \in [Addr -> Nat]
    /\ \A a \in Addr :
          /\ Base <= SectorStart[a]
          /\ SectorStart[a] <= a
          /\ a < SectorEnd[a]
          /\ SectorEnd[a] <= Base + Size
    /\ \A a \in Addr : \A b \in SectorStart[a] .. (SectorEnd[a] - 1) :
          /\ SectorStart[b] = SectorStart[a]
          /\ SectorEnd[b] = SectorEnd[a]

(* [a, a + n) of the C code.                                               *)
Span(a, n) == a .. (a + n - 1)

Sector(a) == SectorStart[a] .. (SectorEnd[a] - 1)

(* Every erase block that overlaps the addresses S, whole.                 *)
WidenToSectors(S) == UNION {Sector(a) : a \in S}

EraseBytes(f, S) == [a \in Addr |-> IF a \in S THEN Bits ELSE f[a]]

ProgramBytes(f, S, d) == [a \in Addr |-> IF a \in S THEN f[a] \cap d[a] ELSE f[a]]

(* flash_range_ok of the core and mock_flash_range_ok of the mock.         *)
RangeOk(a, n) ==
    /\ n # 0 /\ n <= Size
    /\ a >= Base
    /\ a - Base <= Size - n
=============================================================================
