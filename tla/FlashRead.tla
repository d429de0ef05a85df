------------------------------ MODULE FlashRead ------------------------------
(***************************************************************************)
(* Reading an arbitrary byte range through a target interface that wants   *)
(* aligned words: the fallback of hw_flash_read (core/hw.c), and the       *)
(* window loops of the OpenOCD ("mdw") and ST-Link (stlink_read_mem32)     *)
(* backends.  The byte at address x is represented by x itself, so that    *)
(* out shows which byte landed where.                                      *)
(***************************************************************************)
EXTENDS Integers, Sequences

CONSTANTS
    Space,    \* 2^32 in the code: addresses wrap here
    Chunk,    \* OPENOCD_READ_WORDS * 4 and STLINK_FLASH_READ_CHUNK: 1024
    Addrs,    \* bound: addresses the client passes
    Lens      \* bound: lengths the client passes

ASSUME ReadAssumption ==
    /\ Space \in Nat \ {0} /\ Space % 4 = 0
    /\ Chunk \in Nat \ {0} /\ Chunk % 4 = 0
    /\ Addrs \subseteq 0 .. (Space - 1)
    /\ Lens \subseteq Nat \ {0}

VARIABLES
    ops,    \* what the backend has: {"read32", "read8"} or {"window"}
    addr, len,
    done,   \* bytes delivered: i in the fallback
    out,    \* the caller's buffer up to done
    pc,     \* "loop" or "returned"
    rc,
    trips   \* history: accesses made, as <<address, bytes>>

vars == <<ops, addr, len, done, out, pc, rc, trips>>

Min2(x, y) == IF x < y THEN x ELSE y
At(i) == (addr + i) % Space
Bytes(a, n) == [i \in 1 .. n |-> (a + i - 1) % Space]

Init ==
    /\ ops \in {{"window"}, {"read32", "read8"}, {"read8"}, {"read32"}}
    /\ addr \in Addrs /\ len \in Lens
    /\ done = 0 /\ out = << >> /\ pc = "loop" /\ rc = -1 /\ trips = << >>

(* One access of n bytes at a that delivers those from skip on.            *)
Access(a, n, skip, copy) ==
    /\ out' = out \o SubSeq(Bytes(a, n), skip + 1, skip + copy)
    /\ done' = done + copy
    /\ trips' = Append(trips, <<a, n>>)
    /\ UNCHANGED <<ops, addr, len, pc, rc>>

-----------------------------------------------------------------------------
(* The fallback: words on the aligned body, bytes at the ragged ends.      *)

WordFits == At(done) % 4 = 0 /\ len - done >= 4 /\ "read32" \in ops

read32 == WordFits /\ Access(At(done), 4, 0, 4)

read8 == ~WordFits /\ "read8" \in ops /\ Access(At(done), 1, 0, 1)

NoOp ==
    /\ ~WordFits /\ "read8" \notin ops
    /\ pc' = "returned"
    /\ UNCHANGED <<ops, addr, len, done, out, rc, trips>>

-----------------------------------------------------------------------------
(* The windows: the enclosing aligned words, at most Chunk bytes of them.  *)

WindowSize(skip) == ((Min2((len - done) + skip, Chunk) + 3) \div 4) * 4

(* Mutant: the whole window is copied.                                     *)
CopySizeAll(size, skip) == size - skip

CopySize(size, skip) == Min2(size - skip, len - done)

ReadWindow ==
    /\ "window" \in ops
    /\ LET skip == At(done) % 4
           size == WindowSize(skip)
       IN  Access(At(done) - skip, size, skip, CopySize(size, skip))

Loop ==
    /\ pc = "loop" /\ done < len
    /\ \/ "window" \notin ops /\ (read32 \/ read8 \/ NoOp)
       \/ ReadWindow

(* An access fails: the call gives up.                                     *)
Fails ==
    /\ pc = "loop" /\ done < len
    /\ pc' = "returned"
    /\ UNCHANGED <<ops, addr, len, done, out, rc, trips>>

Finish ==
    /\ pc = "loop" /\ done >= len
    /\ pc' = "returned" /\ rc' = 0
    /\ UNCHANGED <<ops, addr, len, done, out, trips>>

Next == Loop \/ Fails \/ Finish

ReadSpec == Init /\ [][Next]_vars

-----------------------------------------------------------------------------
(* The buffer is filled in order with the bytes asked for and with nothing *)
(* else, never past its end; success means that it is full.                *)
RightBytes ==
    /\ done <= len /\ Len(out) = done
    /\ \A i \in 1 .. Len(out) : out[i] = At(i - 1)
    /\ rc = 0 => done = len

(* Every access is one the target allows: a byte, or whole words at a word *)
(* boundary, at most Chunk bytes, and it stays within the aligned words    *)
(* that enclose the range.                                                 *)
AccessesAllowed ==
    LET first == addr - (addr % 4)
        words == (((len + (addr % 4)) + 3) \div 4) * 4
    IN  \A i \in 1 .. Len(trips) :
            /\ trips[i][2] = 1 \/ (trips[i][1] % 4 = 0 /\ trips[i][2] % 4 = 0)
            /\ trips[i][2] \in 1 .. (IF "window" \in ops THEN Chunk ELSE 4)
            /\ ((trips[i][1] - first) % Space) + trips[i][2] <= words

(* A read delivers the bytes asked for, by accesses that the target allows.*)
ReadIsExact == RightBytes /\ AccessesAllowed
==============================================================================
