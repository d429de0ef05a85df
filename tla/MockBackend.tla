----------------------------- MODULE MockBackend -----------------------------
(***************************************************************************)
(* backends/mock/hw_mock.c, the simulated target the tests run on: RAM in  *)
(* a table of at most MaxPages pages that are created on the first write,  *)
(* a window of NOR flash in uniform blocks, core registers and a halted    *)
(* flag.  Every operation is one C function and runs to its end.           *)
(***************************************************************************)
EXTENDS NorFlash, Sequences, FiniteSets

CONSTANTS
    MemEnd,     \* 2^32 in the code: addresses wrap here
    PageSize,  \* PAGE_SIZE: bytes in a RAM page
    MaxPages,  \* MAX_MEM_PAGES: 256 in the code
    FlashPage, \* MOCK_FLASH_PAGE
    Align,     \* MOCK_FLASH_ALIGN
    Width,     \* bytes in a word: 4 in the code
    MaxCalls   \* bound: how many calls the client makes

ASSUME MockAssumption ==
    /\ MemEnd \in Nat /\ Base + Size <= MemEnd
    /\ PageSize \in Nat \ {0} /\ MemEnd % PageSize = 0
    /\ MaxPages \in Nat
    /\ FlashPage \in Nat \ {0} /\ Size % FlashPage = 0
    /\ Align \in Nat \ {0} /\ MaxCalls \in Nat
    /\ Width \in Nat \ {0} /\ Width <= MemEnd
    /\ \A a \in Addr :
          /\ SectorStart[a] = Base + ((a - Base) \div FlashPage) * FlashPage
          /\ SectorEnd[a] = SectorStart[a] + FlashPage

VARIABLES
    pages,   \* the page table: page address -> bytes by offset
    flash,
    regs, halted,
    op, arg, status,  \* the last call: [at, bytes] and its result
    calls

mock == <<pages, flash, regs, halted, op, arg, status, calls>>

Lower(x, y) == IF x < y THEN x ELSE y
Zero == {}
Places == 0 .. (MemEnd - 1)
NoArg == [at |-> 0, bytes |-> << >>]

mock_in_flash(a) == a >= Base /\ a - Base < Size

PageAddr(a) == a - (a % PageSize)
Full(pg) == Cardinality(DOMAIN pg) >= MaxPages

BlankPage == [o \in 0 .. (PageSize - 1) |-> Zero]

(* Mutant: the table is not searched and a page always made anew.          *)
PageForAnew(pg, a) ==
    [p \in DOMAIN pg \cup {PageAddr(a)} |-> IF p = PageAddr(a) THEN BlankPage ELSE pg[p]]

(* get_or_create_page with create set; the table itself when it is full.   *)
PageFor(pg, a) ==
    IF PageAddr(a) \in DOMAIN pg \/ Full(pg) THEN pg
    ELSE [p \in DOMAIN pg \cup {PageAddr(a)} |-> IF p \in DOMAIN pg THEN pg[p] ELSE BlankPage]

Byte8(pg, fl, a) ==
    IF mock_in_flash(a) THEN fl[a]
    ELSE IF PageAddr(a) \in DOMAIN pg THEN pg[PageAddr(a)][a % PageSize]
    ELSE Zero

(* mock_impl_write8 as a function of the state [pages, flash, status].         *)
Write8(s, a, v) ==
    IF s.status # 0 THEN s
    ELSE IF mock_in_flash(a) THEN [s EXCEPT !.flash[a] = @ \cap v]
    ELSE LET pg == PageFor(s.pages, a)
         IN  IF PageAddr(a) \in DOMAIN pg
             THEN [s EXCEPT !.pages = [pg EXCEPT ![PageAddr(a)][a % PageSize] = v]]
             ELSE [s EXCEPT !.status = -1]

(* The bytes one after the other, until one fails.                         *)
WriteBytes(a, bytes) ==
    LET st[i \in 0 .. Len(bytes)] ==
            IF i = 0 THEN [pages |-> pages, flash |-> flash, status |-> 0]
            ELSE Write8(st[i - 1], (a + i - 1) % MemEnd, bytes[i])
    IN  st[Len(bytes)]

Call(name, x) ==
    /\ calls < MaxCalls /\ calls' = calls + 1
    /\ op' = name /\ arg' = x

-----------------------------------------------------------------------------
(* write8 is the case of one byte, write32 that of Width bytes.            *)
mock_impl_write(a, bytes) ==
    /\ Call("write", [at |-> a, bytes |-> bytes])
    /\ LET s == WriteBytes(a, bytes)
       IN  pages' = s.pages /\ flash' = s.flash /\ status' = s.status
    /\ UNCHANGED <<regs, halted>>

mock_impl_write_reg(v) ==
    /\ Call("write_reg", NoArg)
    /\ regs' = v /\ status' = 0
    /\ UNCHANGED <<pages, flash, halted>>

mock_impl_board_run ==
    Call("run", NoArg) /\ halted' = FALSE /\ status' = 0 /\ UNCHANGED <<pages, flash, regs>>

(* board_halt and board_step.                                              *)
mock_impl_board_halt ==
    Call("halt", NoArg) /\ halted' = TRUE /\ status' = 0 /\ UNCHANGED <<pages, flash, regs>>

(* A reset clears the registers and keeps memory.                          *)
mock_impl_board_reset ==
    /\ Call("reset", NoArg)
    /\ regs' = Zero /\ halted' = TRUE /\ status' = 0
    /\ UNCHANGED <<pages, flash>>

mock_impl_flash_write(a, bytes) ==
    LET n == Len(bytes)
        ok == RangeOk(a, n) /\ a % Align = 0 /\ n % Align = 0
    IN  /\ Call("flash_write", [at |-> a, bytes |-> bytes])
        /\ status' = IF ok THEN 0 ELSE -1
        /\ flash' = IF ok THEN ProgramBytes(flash, Span(a, n), [x \in Span(a, n) |-> bytes[x - a + 1]])
                    ELSE flash
        /\ UNCHANGED <<pages, regs, halted>>

(* [first, last): the range widened to whole blocks.                       *)
EraseFirst(a, n) == ((a - Base) \div FlashPage) * FlashPage
EraseLast(a, n) ==
    Lower(((((a - Base) + n - 1) \div FlashPage) + 1) * FlashPage, Size)

mock_impl_flash_erase(a, n) ==
    LET S == {x \in Addr : x - Base >= EraseFirst(a, n) /\ x - Base < EraseLast(a, n)}
    IN  /\ Call("erase", [at |-> a, bytes |-> [i \in 1 .. n |-> Bits]])
        /\ status' = IF RangeOk(a, n) THEN 0 ELSE -1
        /\ flash' = IF RangeOk(a, n) THEN EraseBytes(flash, S) ELSE flash
        /\ UNCHANGED <<pages, regs, halted>>

mock_impl_flash_mass_erase ==
    /\ Call("mass_erase", NoArg)
    /\ flash' = EraseBytes(flash, Addr) /\ status' = 0
    /\ UNCHANGED <<pages, regs, halted>>

-----------------------------------------------------------------------------
(* mock_impl_connect.                                                      *)
InitMock ==
    /\ pages = << >>
    /\ flash = [a \in Addr |-> Bits]
    /\ regs = Zero /\ halted = TRUE
    /\ op = "connect" /\ arg = NoArg /\ status = 0 /\ calls = 0

NextMock ==
    \/ \E a \in Places :
          \/ \E v \in Byte : mock_impl_write(a, <<v>>)
          \/ \E b \in [1 .. Width -> Byte] : mock_impl_write(a, b)
          \/ \E n \in 1 .. (2 * Align) : \E b \in [1 .. n -> Byte] : mock_impl_flash_write(a, b)
          \/ \E n \in 1 .. (2 * Align) : mock_impl_flash_erase(a, n)
    \/ \E v \in Byte : mock_impl_write_reg(v)
    \/ mock_impl_board_run \/ mock_impl_board_halt \/ mock_impl_board_reset
    \/ mock_impl_flash_mass_erase

MockSpec == InitMock /\ [][NextMock]_mock

-----------------------------------------------------------------------------
Read(a) == Byte8(pages, flash, a)
Touched == {(arg.at + i - 1) % MemEnd : i \in 1 .. Len(arg.bytes)}
ByteFor(a) == arg.bytes[((a - arg.at) % MemEnd) + 1]

(* An erase that succeeds has erased the blocks its range touches, the     *)
(* last one included, and no other byte.                                   *)
EraseIsExact ==
    op' = "erase" /\ status' = 0 =>
        flash' = EraseBytes(flash, WidenToSectors(Span(arg'.at, Len(arg'.bytes))))

(* A memory write changes no byte but the ones it names, and a byte it     *)
(* names to what was written or, in flash, to the bits both have: no page  *)
(* shadows another, and creating a page loses nothing.  (Not of a byte     *)
(* that was never written: its page does not exist and it reads as 0.)  A  *)
(* write that reports success has stored every byte; one that fails did so *)
(* because the table is full.                                              *)
WriteIsExact ==
    op' = "write" =>
        /\ \A a \in Places :
              LET new == Byte8(pages', flash', a)
              IN  new # Read(a) =>
                      /\ a \in Touched'
                      /\ new = IF mock_in_flash(a) THEN Read(a) \cap ByteFor(a)' ELSE ByteFor(a)'
        /\ status' = 0 => \A a \in Touched' : ~mock_in_flash(a) => Read(a)' = ByteFor(a)'
        /\ status' = -1 => Full(pages') /\ \E a \in Touched' : PageAddr(a) \notin DOMAIN pages'

(* Every memory write and every erase of the mock does exactly what it was *)
(* asked to, or says that it did not.                                      *)
WritesAreExact == [][WriteIsExact /\ EraseIsExact]_mock
==============================================================================
