--------------------------- MODULE FlashCommands ----------------------------
(***************************************************************************)
(* The functions of the flash driver of ex03 (flashc.c) that are made of    *)
(* commands: general-purpose fuses, lock regions, erasing of pages, the     *)
(* protected size of the boot loader.  A call is the sequence of commands    *)
(* it issues one after the other; each may fail, and the driver gathers the *)
(* errors in flashc_error_status.                                           *)
(***************************************************************************)
EXTENDS Integers, SequencesExt

CONSTANTS
  FuseBytes, ByteBits,  \* the fuses; 8 bytes of 8 bits on the chip
  Pages, Regions,       \* flashc_get_page_count(), AVR32_FLASHC_REGIONS
  MaxWidth,             \* bound on the width of a field
  PageSize, BootBits    \* AVR32_FLASHC_PAGE_SIZE, ..._FGPFRLO_BOOTPROT_SIZE

Fuses   == 0..(FuseBytes * ByteBits - 1)
Values  == [Fuses -> BOOLEAN]            \* TRUE is the erased state of a fuse
User    == Pages                         \* the User page, after those of the array

VARIABLES
  call,          \* what was asked: op, first fuse or page, width, value, check
  before,        \* the fuses at the call
  todo,          \* the commands that are left
  fuse, lock, erased, \* the fuses, the locked regions, the erased pages
  pagen, qprr,   \* FCMD.pagen and FSR.QPRR
  flashc_error_status, error_status,
  failed,        \* a command of this call has failed
  result,
  step
vars == <<call, before, todo, fuse, lock, erased, pagen, qprr, flashc_error_status, error_status,
          failed, result, step>>

AllErased == [b \in Fuses |-> TRUE]
None      == [op |-> "none", at |-> 0, width |-> 0, value |-> AllErased, check |-> FALSE]

Init ==
  /\ call = None /\ todo = <<>>
  /\ fuse = AllErased /\ before = AllErased
  /\ lock = {} /\ erased = {}
  /\ pagen = 0 /\ qprr = FALSE
  /\ flashc_error_status = FALSE /\ error_status = FALSE
  /\ failed = FALSE /\ result = TRUE
  /\ step = "idle"

-----------------------------------------------------------------------------
(* The commands. *)
Cmd(c, n)         == [cmd |-> c, arg |-> n, value |-> <<>>]
Same              == -1                            \* page_number < 0: the page of before
Nothing           == <<Cmd("none", Same)>>         \* a fuse is written with 1
EraseBit(b)       == <<Cmd("EGPB", b)>>
WriteBit(b, v)    == IF v THEN Nothing ELSE <<Cmd("WGPB", b)>>
SetBit(b, v)      == IF v THEN EraseBit(b) ELSE WriteBit(b, FALSE)
WriteByte(i, v)   == <<[cmd |-> "PGPFB", arg |-> i, value |-> v]>>
EraseAll          == <<Cmd("EAGPF", Same)>>
EachBit(p, w, f)  == FlattenSeq([k \in 1..w |-> f[p + k - 1]])
ByteOf(v, i)      == [j \in 0..(ByteBits - 1) |-> v[i * ByteBits + j]]
OtherBytes(v, k)  == FlattenSeq([i \in 1..FuseBytes |->
                       IF i - 1 = k THEN <<>> ELSE WriteByte(i - 1, ByteOf(v, i - 1))])
EraseByte(f, k)   == EraseAll \o OtherBytes(f, k)
WriteAll(v)       == OtherBytes(v, -1)
RegionOf(p)       == p \div (Pages \div Regions)
FirstPage(r)      == r * (Pages \div Regions)
LockRegion(r, l)  == <<Cmd(IF l THEN "LP" ELSE "UP", FirstPage(r))>>
ErasePage(p, c)   == <<Cmd("EP", p)>> \o (IF c THEN <<Cmd("QPR", Same)>> ELSE <<>>)
Downwards(n, f)   == FlattenSeq([k \in 1..n |-> f[n - k]])

(* flashc_set_bootloader_protected_size(): the exponent of the next power of *)
(* two of pages, two at least, kept inverted in the fuses.                   *)
Smallest(n)     == CHOOSE e \in 0..n : 2^e >= n /\ \A f \in 0..(e - 1) : 2^f < n
Highest         == 2^BootBits - 1
PagesFor(bytes) == LET least == IF bytes < 2 * PageSize THEN 2 * PageSize ELSE bytes
                       most  == IF least > PageSize * 2^Highest THEN PageSize * 2^Highest ELSE least
                   IN  (most + PageSize - 1) \div PageSize
Bootprot(bytes) == Highest - (IF bytes = 0 THEN 0 ELSE Smallest(PagesFor(bytes)))
EPFL            == FuseBytes * ByteBits - 1  \* the fuse that locks the external privileged fetch
Bit(n, k)       == (n \div 2^k) % 2 = 1
Number(v)       == FoldFunctionOnSet(+, 0, [b \in Fuses |-> IF v[b] THEN 2^b ELSE 0], 0..(BootBits - 1))
ProtectedSize(v) == LET bootprot == Highest - Number(v)
                    IN  IF bootprot = 0 THEN 0 ELSE PageSize * 2^bootprot

(* The commands of a call, in their order. *)
Commands(c, f) ==
  LET at == c.at  v == c.value  own == ByteOf(v, c.at) IN
  CASE c.op = "erase_gp_fuse_bitfield" -> EachBit(at, c.width, [b \in Fuses |-> EraseBit(b)])
    [] c.op = "erase_gp_fuse_byte"     -> EraseByte(f, at)
    [] c.op = "erase_all_gp_fuses"     -> EraseAll
    [] c.op = "write_gp_fuse_bitfield" -> EachBit(at, c.width, [b \in Fuses |-> WriteBit(b, v[b])])
    [] c.op = "write_gp_fuse_byte"     -> WriteByte(at, own)
    [] c.op = "write_all_gp_fuses"     -> WriteAll(v)
    [] c.op = "set_gp_fuse_bitfield"   -> EachBit(at, c.width, [b \in Fuses |-> SetBit(b, v[b])])
    [] c.op = "set_gp_fuse_byte"       ->
         IF \A j \in DOMAIN own : own[j] THEN EraseByte(f, at)
         ELSE IF \A j \in DOMAIN own : ~own[j] THEN WriteByte(at, own)
         ELSE EraseByte(f, at) \o WriteByte(at, own)
    [] c.op = "set_all_gp_fuses"       ->
         IF v = AllErased THEN EraseAll
         ELSE IF \A b \in Fuses : ~v[b] THEN WriteAll(v)
         ELSE EraseAll \o WriteAll(v)
    [] c.op = "set_bootloader_protected_size" ->
         EachBit(0, BootBits, [b \in Fuses |-> SetBit(b, Bit(Bootprot(at), b))])
    [] c.op = "lock_external_privileged_fetch" -> SetBit(EPFL, ~c.check)
    [] c.op = "lock_page_region"       -> LockRegion(RegionOf(at), c.check)
    [] c.op = "lock_all_regions"       -> Downwards(Regions, [r \in 0..(Regions - 1) |-> LockRegion(r, c.check)])
    [] c.op = "erase_page"             -> ErasePage(at, c.check)
    [] c.op = "erase_all_pages"        -> Downwards(Pages, [p \in 0..(Pages - 1) |-> ErasePage(p, c.check)])
    [] c.op = "erase_user_page"        ->
         <<Cmd("EUP", Same)>> \o (IF c.check THEN <<Cmd("QPRUP", Same)>> ELSE <<>>)

FuseErasing == {"erase_gp_fuse_bitfield", "erase_gp_fuse_byte", "erase_all_gp_fuses"}
ByteOps  == {"erase_gp_fuse_byte", "write_gp_fuse_byte", "set_gp_fuse_byte"}
AllOps   == {"erase_all_gp_fuses", "write_all_gp_fuses", "set_all_gp_fuses"}
FieldOps == {"erase_gp_fuse_bitfield", "write_gp_fuse_bitfield", "set_gp_fuse_bitfield"}
PageOps  == {"lock_page_region", "lock_all_regions", "erase_page", "erase_all_pages", "erase_user_page"}

(* What an operation is about. *)
Field(c) ==
  CASE c.op \in ByteOps  -> {c.at * ByteBits + j : j \in 0..(ByteBits - 1)}
    [] c.op \in FieldOps -> c.at..(c.at + c.width - 1)
    [] c.op \in AllOps   -> Fuses
    [] c.op \in PageOps  -> {}
    [] c.op = "lock_external_privileged_fetch" -> {EPFL}
    [] OTHER             -> 0..(BootBits - 1)

Protections == {"set_bootloader_protected_size", "lock_external_privileged_fetch"}
Operations  == ByteOps \cup AllOps \cup FieldOps \cup PageOps \cup Protections
ValuesFor(op) == IF op \in FuseErasing \cup PageOps \cup Protections THEN {AllErased} ELSE Values
Places(op) ==
  CASE op \in ByteOps  -> 0..(FuseBytes - 1)
    [] op \in FieldOps -> Fuses
    [] op \in {"erase_page", "lock_page_region"} -> 0..(Pages - 1)
    [] op = "set_bootloader_protected_size" -> 0..(PageSize * 2^Highest + 1)
    [] OTHER           -> {0}

Calls ==
  {c \in UNION {[op : {o}, at : Places(o), value : ValuesFor(o),
                 check : IF o \in FuseErasing \cup PageOps \cup {"lock_external_privileged_fetch"} THEN BOOLEAN ELSE {FALSE},
                 width : IF o \in FieldOps THEN 0..MaxWidth ELSE {0}] : o \in Operations} :
     c.op \in FieldOps => c.at + c.width <= FuseBytes * ByteBits}

(* A call, on a flash that earlier ones have left in any state. *)
Call(c) ==
  /\ step = "idle"
  /\ \E f \in IF c.op \in PageOps THEN {AllErased} ELSE Values,
        l \in IF c.op \in PageOps THEN SUBSET (0..(Regions - 1)) ELSE {{}} :
        fuse' = f /\ before' = f /\ lock' = l
  /\ \E stale \in BOOLEAN : flashc_error_status' = stale
  /\ call' = c /\ todo' = Commands(c, before')
  /\ step' = "run"
  /\ UNCHANGED <<erased, pagen, qprr, error_status, failed, result>>

(* flashc_issue_command() and its effect, unless the command fails, as it    *)
(* must for a page of a locked region.                                       *)
Effect(c, p) ==
  /\ fuse' = CASE c.cmd = "EGPB"  -> [fuse EXCEPT ![c.arg] = TRUE]
               [] c.cmd = "WGPB"  -> [fuse EXCEPT ![c.arg] = FALSE]
               [] c.cmd = "EAGPF" -> AllErased
               [] c.cmd = "PGPFB" -> [b \in Fuses |-> fuse[b] /\
                                        (b \div ByteBits = c.arg => c.value[b % ByteBits])]
               [] OTHER           -> fuse
  /\ lock' = CASE c.cmd = "LP" -> lock \cup {RegionOf(p)}
               [] c.cmd = "UP" -> lock \ {RegionOf(p)}
               [] OTHER        -> lock
  /\ erased' = CASE c.cmd = "EP"  -> erased \cup {p}
                 [] c.cmd = "EUP" -> erased \cup {User}
                 [] OTHER         -> erased

Reads(c)    == c.cmd \in {"QPR", "QPRUP"}
QuickRead(c, p) == IF c.cmd = "QPRUP" THEN User \in erased ELSE p \in erased

IssueCommand ==
  LET c == Head(todo)
      p == IF c.arg = Same THEN pagen ELSE c.arg
  IN
  /\ step = "run" /\ todo # <<>> /\ c.cmd # "none"
  /\ \E fails \in IF c.cmd = "EP" /\ RegionOf(p) \in lock THEN {TRUE} ELSE BOOLEAN :
       /\ IF fails THEN UNCHANGED <<fuse, lock, erased>> ELSE Effect(c, p)
       /\ flashc_error_status' = fails /\ error_status' = (error_status \/ fails)
       /\ failed' = (failed \/ fails)
  /\ qprr' = IF Reads(c) THEN QuickRead(c, p) ELSE qprr
  /\ result' = (result /\ (Reads(c) => qprr'))
  /\ pagen' = p
  /\ todo' = Tail(todo)
  /\ UNCHANGED <<call, before, step>>

(* Writing 1 to a fuse issues no command, but the last status is gathered. *)
IssueNothing ==
  /\ step = "run" /\ todo # <<>> /\ Head(todo).cmd = "none"
  /\ error_status' = (error_status \/ flashc_error_status)
  /\ todo' = Tail(todo)
  /\ UNCHANGED <<call, before, fuse, lock, erased, pagen, qprr, flashc_error_status, failed,
                 result, step>>

LastStatus == flashc_error_status  \* MUTANT: the errors of the commands before the last one are forgotten

(* flashc_erase_user_page() alone returns the status of its last command. *)
Gathered == IF call.op = "erase_user_page" THEN flashc_error_status ELSE error_status

Return ==
  /\ step = "run" /\ todo = <<>>
  /\ flashc_error_status' = Gathered
  /\ result' = (result /\ (call.check /\ call.op \in FuseErasing => \A b \in Field(call) : fuse[b]))
  /\ step' = "returned"
  /\ UNCHANGED <<call, before, todo, fuse, lock, erased, pagen, qprr, error_status, failed>>

Next == (\E c \in Calls : Call(c)) \/ IssueCommand \/ IssueNothing \/ Return

Spec == Init /\ [][Next]_vars

-----------------------------------------------------------------------------
Asked(b) ==
  CASE call.op \in FuseErasing -> TRUE
    [] call.op \in {"write_gp_fuse_bitfield", "write_gp_fuse_byte", "write_all_gp_fuses"} ->
         before[b] /\ call.value[b]
    [] OTHER -> call.value[b]

flashc_is_external_privileged_fetch_locked == ~fuse[EPFL]
flashc_is_region_locked(r) == r \in lock

(* If no command fails the fuses and locks asked for are as asked; whatever  *)
(* fails, and at any moment, the other fuses are as before, except that a   *)
(* byte is erased by erasing all, and the others are then written back.     *)
FusesAsAsked ==
  /\ \A b \in Fuses \ Field(call) : fuse[b] # before[b] =>
       call.op \in {"erase_gp_fuse_byte", "set_gp_fuse_byte"} /\ fuse[b] /\ (step = "run" \/ failed)
  /\ step = "returned" /\ ~failed =>
       CASE call.op = "set_bootloader_protected_size" ->
              ProtectedSize(fuse) >= call.at \/ ProtectedSize(fuse) = PageSize * 2^Highest
         [] call.op = "lock_external_privileged_fetch" ->
              flashc_is_external_privileged_fetch_locked = call.check
         [] call.op = "lock_page_region" -> flashc_is_region_locked(RegionOf(call.at)) = call.check
         [] call.op = "lock_all_regions" ->
              \A r \in 0..(Regions - 1) : flashc_is_region_locked(r) = call.check
         [] OTHER -> \A b \in Field(call) : fuse[b] = Asked(b)

(* A command that failed is reported, also when others followed it, by every *)
(* function but flashc_erase_user_page() with its check; and a check that     *)
(* says erased is right.                                                     *)
FailuresReported ==
  step = "returned" =>
    /\ failed => flashc_error_status \/ (call.op = "erase_user_page" /\ call.check)
    /\ call.check /\ result =>
         CASE call.op = "erase_page"      -> call.at \in erased
           [] call.op = "erase_all_pages" -> 0..(Pages - 1) \subseteq erased
           [] call.op = "erase_user_page" -> User \in erased
           [] call.op \in FuseErasing     -> \A b \in Field(call) : fuse[b]
           [] OTHER                       -> TRUE

=============================================================================
