----------------------------- MODULE SectorMaps -----------------------------
(***************************************************************************)
(* How each backend finds the erase block of an address: the core's        *)
(* uniform fallback (core/hw.c), the F2/F4 and F7 bank tables of the       *)
(* ST-Link backend, and OpenOCD's "flash info 0" listing.  NorFlash takes  *)
(* the outcome as a parameter and assumes that it partitions the flash;    *)
(* this module checks that on the real tables.  Sizes and addresses are in *)
(* KB; base addresses are multiples of 1 KB on these parts.                *)
(*                                                                         *)
(* The state walks over the flash block by block, the way the loops of     *)
(* hw_flash_update and hw_flash_patch do.                                  *)
(***************************************************************************)
EXTENDS Integers, Sequences

CONSTANTS
    Parts,   \* [family, base, size, pgsz]: sl->flash_type, flash_base, ...
    Probes   \* offsets at which the client may begin

ASSUME PartAssumption ==
    /\ Parts \subseteq [family : {"F2_F4", "F7", "uniform"}, base : Nat, size : Nat, pgsz : Nat]
    /\ Probes \subseteq Nat
    \* whole blocks; the tables are those of parts of up to two banks
    /\ \A p \in Parts :
          IF p.family = "uniform" THEN p.pgsz > 0 /\ p.size % p.pgsz = 0
          ELSE p.size <= 2048 /\ p.size % (IF p.family = "F7" THEN 256 ELSE 128) = 0

VARIABLES
    part,     \* the target
    backend,  \* who is asked
    pos       \* the address looked up

walk == <<part, backend, pos>>

NoBlock == [base |-> 0, size |-> 0]
Inside(p, a) == p.base <= a /\ a - p.base < p.size

-----------------------------------------------------------------------------
f2_f4_map == <<16, 16, 16, 16, 64, 128, 128, 128, 128, 128, 128, 128>>
f7_map == <<32, 32, 32, 32, 128, 256, 256, 256>>

MapOf(p) == IF p.family = "F7" THEN f7_map ELSE f2_f4_map

bank_size == 1024

(* cursor when the loop reaches entry i of a table.                        *)
Cursor(map) ==
    LET c[i \in 1 .. (Len(map) + 1)] == IF i = 1 THEN 0 ELSE c[i - 1] + map[i - 1]
    IN  c

stlink_flash_sector_map(p, a) ==
    LET offset == a - p.base
        bank_base == (offset \div bank_size) * bank_size
        in_bank == offset - bank_base
        map == MapOf(p)
        cursor == Cursor(map)
        hits == {i \in 1 .. Len(map) : in_bank < cursor[i] + map[i]}
    IN  IF hits = {} THEN NoBlock
        ELSE LET i == CHOOSE i \in hits : \A j \in hits : i <= j
             IN  [base |-> p.base + bank_base + cursor[i], size |-> map[i]]

(* Mutant: the page number is not turned back into an offset from base.    *)
UniformBlockUnbased(p, a) ==
    [base |-> (a \div p.pgsz) * p.pgsz, size |-> p.pgsz]

UniformBlock(p, a) ==
    [base |-> p.base + ((a - p.base) \div p.pgsz) * p.pgsz, size |-> p.pgsz]

stlink_impl_flash_sector(p, a) ==
    IF ~Inside(p, a) THEN NoBlock
    ELSE IF p.family \in {"F2_F4", "F7"} THEN stlink_flash_sector_map(p, a)
    ELSE UniformBlock(p, a)

(* hw_flash_sector for a backend without a flash_sector op.                *)
hw_flash_sector(p, a) == IF Inside(p, a) THEN UniformBlock(p, a) ELSE NoBlock

-----------------------------------------------------------------------------
(* OpenOCD lists the blocks as (offset, size) lines.                       *)

(* Line k of the listing of a part, and how many lines there are.          *)
Lines(p) ==
    1 .. (IF p.family = "uniform" THEN p.size \div p.pgsz ELSE 2 * Len(MapOf(p)))

Line(p, k) ==
    IF p.family = "uniform" THEN <<(k - 1) * p.pgsz, p.pgsz>>
    ELSE LET n == Len(MapOf(p))
             i == ((k - 1) % n) + 1
         IN  <<((k - 1) \div n) * bank_size + Cursor(MapOf(p))[i], MapOf(p)[i]>>

Matches(l, want) == l[2] # 0 /\ want >= l[1] /\ want - l[1] < l[2]

(* The first line that matches.                                            *)
openocd_impl_flash_sector(p, a) ==
    LET hits == {k \in Lines(p) : Matches(Line(p, k), a - p.base)}
    IN  IF ~Inside(p, a) \/ hits = {} THEN NoBlock
        ELSE LET l == Line(p, CHOOSE k \in hits : \A j \in hits : k <= j)
             IN  [base |-> p.base + l[1], size |-> l[2]]

-----------------------------------------------------------------------------
Lookup(who, p, a) ==
    CASE who = "stlink" -> stlink_impl_flash_sector(p, a)
      [] who = "openocd" -> openocd_impl_flash_sector(p, a)
      [] OTHER -> hw_flash_sector(p, a)

Block == Lookup(backend, part, pos)

InitWalk ==
    /\ part \in Parts
    /\ backend \in {"stlink", "openocd"} \cup (IF part.family = "uniform" THEN {"mock"} ELSE {})
    /\ pos \in {part.base + o : o \in Probes}

(* One iteration of the loop of a composite call: pos = sb + ss.           *)
NextBlock ==
    /\ \E b \in {Block} \ {NoBlock} : pos' = b.base + b.size
    /\ UNCHANGED <<part, backend>>

WalkSpec == InitWalk /\ [][NextBlock]_walk

(* What GeometryAssumption of NorFlash asks of a lookup: every address of  *)
(* the flash has a block, which contains it, lies in the flash, and is the *)
(* block of both its own ends; outside the flash there is none.            *)
LookupIsAPartition ==
    LET b == Block
    IN  IF Inside(part, pos)
        THEN /\ b # NoBlock
             /\ b.base <= pos /\ pos < b.base + b.size
             /\ part.base <= b.base /\ b.base + b.size <= part.base + part.size
             /\ Lookup(backend, part, b.base) = b
             /\ Lookup(backend, part, b.base + b.size - 1) = b
        ELSE b = NoBlock
=============================================================================
