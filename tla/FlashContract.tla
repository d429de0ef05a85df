---------------------------- MODULE FlashContract ----------------------------
(***************************************************************************)
(* What include/hw.h promises of hw_flash_update and hw_flash_patch,       *)
(* without saying how: while a call runs, only the erase blocks that the   *)
(* image overlaps change, and of the bytes outside the image at most those *)
(* of one block are in jeopardy; success means that exactly the image      *)
(* changed; failure promises nothing more.                                 *)
(***************************************************************************)
EXTENDS NorFlash

VARIABLES
    device,  \* the flash
    before,  \* the flash when the call was made
    new,     \* the bytes to store, a function on addresses
    busy,    \* a call is running
    result   \* what the last call returned

cvars == <<device, before, new, busy, result>>

Nothing == << >>

Stored(f, d) == [a \in Addr |-> IF a \in DOMAIN d THEN d[a] ELSE f[a]]

(* How far a running or failed call may have changed the device.           *)
Confined(f) ==
    /\ \A a \in Addr :
          f[a] # before[a] => a \in WidenToSectors(DOMAIN new \cap Addr)
    /\ \E b \in Addr : \A a \in Addr \ DOMAIN new :
          f[a] # before[a] => a \in Sector(b)

CInit ==
    /\ device \in [Addr -> Byte]
    /\ before = device
    /\ new = Nothing
    /\ busy = FALSE
    /\ result = 0

(* Calls that promise nothing about the device: plain erases and writes.   *)
Other ==
    /\ ~busy
    /\ device' \in [Addr -> Byte]
    /\ before' = device
    /\ new' = Nothing
    /\ result' \in {0, -1}
    /\ UNCHANGED busy

(* A composite call starts, or is refused, or has nothing to do.           *)
Start ==
    /\ ~busy
    /\ before' = device
    /\ UNCHANGED device
    /\ \/ busy' = TRUE /\ DOMAIN new' \subseteq Addr /\ result' = -1
       \/ busy' = FALSE /\ result' = -1
       \/ busy' = FALSE /\ DOMAIN new' = {} /\ result' = 0

Work ==
    /\ busy
    /\ device' \in [Addr -> Byte]
    /\ Confined(device')
    /\ UNCHANGED <<before, new, busy, result>>

Succeed ==
    /\ busy
    /\ device' = Stored(before, new)
    /\ busy' = FALSE
    /\ result' = 0
    /\ UNCHANGED <<before, new>>

Fail ==
    /\ busy
    /\ device' \in [Addr -> Byte]
    /\ Confined(device')
    /\ busy' = FALSE
    /\ result' = -1
    /\ UNCHANGED <<before, new>>

CNext == Other \/ Start \/ Work \/ Succeed \/ Fail

CSpec == CInit /\ [][CNext]_cvars
=============================================================================
