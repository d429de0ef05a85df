---------------------------- MODULE MCBackendEdges ----------------------------
(* Instances of what the flash operations rest on in the backends: reading *)
(* a range (FlashRead), for every alignment, at both ends of the address   *)
(* space and for lengths up to past two chunks; walking over the erase     *)
(* blocks (SectorMaps) of real parts: F405 (1 MB), F407 at 512 KB, F427 at *)
(* 2 MB, F7 at 1 and 2 MB, and uniform ones, one of them at a base that is *)
(* no multiple of its page; and the mock (MockBackend) with twelve         *)
(* addresses in pages of two, flash in the middle in two blocks of two,    *)
(* room for two RAM pages of four: words that cross pages, that cross from *)
(* RAM into flash and around the end of the address space.  A behaviour is *)
(* of one of the three; the others stay where they are parked.             *)
EXTENDS FlashRead, SectorMaps, MockBackend

UniformStart == [a \in 4 .. 7 |-> 4 + ((a - 4) \div 2) * 2]
UniformEnd == [a \in 4 .. 7 |-> UniformStart[a] + 2]

LowAndHigh == (0 .. 7) \cup (56 .. 63)
UpTo20 == 1 .. 20

Part(family, base, size, pgsz) ==
    [family |-> family, base |-> base, size |-> size, pgsz |-> pgsz]

StmParts ==
    { Part("F2_F4", 131072, 1024, 16), Part("F2_F4", 131072, 512, 16),
      Part("F2_F4", 131072, 2048, 16), Part("F7", 131072, 1024, 32),
      Part("F7", 131072, 2048, 32), Part("uniform", 131072, 32, 1),
      Part("uniform", 131072, 64, 2), Part("uniform", 3, 64, 4) }

(* Both ends of every 16 KB unit, and one beyond the largest part.         *)
Ends == {16 * k : k \in 0 .. 128} \cup {16 * k + 15 : k \in 0 .. 127}

(* Beyond the flash, where the walk has ended; a read that has returned;   *)
(* a mock nobody calls.                                                    *)
ParkedWalk == /\ part = Part("uniform", 3, 64, 4) /\ backend = "mock"
              /\ pos = part.base + part.size
ParkedRead == /\ ops = {"read8"} /\ addr = 0 /\ len = 1
              /\ done = 0 /\ out = << >> /\ pc = "returned" /\ rc = -1 /\ trips = << >>


EdgesInit ==
    \/ Init /\ ParkedWalk /\ InitMock
    \/ ParkedRead /\ InitWalk /\ InitMock
    \/ ParkedRead /\ ParkedWalk /\ InitMock

EdgesNext ==
    \/ Next /\ UNCHANGED <<walk, mock>>
    \/ NextBlock /\ UNCHANGED <<vars, mock>>
    \/ ParkedRead /\ ParkedWalk /\ NextMock /\ UNCHANGED <<vars, walk>>

EdgesSpec == EdgesInit /\ [][EdgesNext]_<<vars, walk, mock>>
===============================================================================
