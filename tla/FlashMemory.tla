---------------------------- MODULE FlashMemory -----------------------------
(***************************************************************************)
(* flashc_memset64() and flashc_memcpy() of the flash driver of ex03       *)
(* (asf/avr32/drivers/flashc/flashc.c): a page at a time, the page buffer   *)
(* is cleared and filled, in double words, with the new bytes and with what *)
(* the page holds beside them; then the page may be erased and is written.  *)
(*                                                                         *)
(* A byte of flash or of a buffer is the set of the values programmed into  *)
(* it since it was last erased: programming only clears bits, so what is    *)
(* read is their conjunction.  A value is <<"old", a>>, which address a     *)
(* held before the call, or <<"new", k>>, byte k of the source.             *)
(***************************************************************************)
EXTENDS Integers

CONSTANTS
  DwordSize,   \* bytes in a double word
  PageSize,    \* AVR32_FLASHC_PAGE_SIZE, and the size of the User page
  AVR32_FLASH, \* first address of the flash array
  ArrayPages,  \* flashc_get_page_count(); a page is a lock region of its own
  UserPage,    \* AVR32_FLASHC_USER_PAGE
  MaxBytes     \* bound on nbytes

VARIABLES
  call,        \* the parameters: op, dst, nbytes, erase
  locked,      \* the pages whose region is locked
  cell,        \* the contents of the flash
  buffer,      \* the page buffer
  pagen,       \* FCMD.pagen: the page last addressed
  flashc_error_status,
  error_status,
  dest, dest_end, source,
  page_source_end, incomplete_flash_page_end,
  flash_dword, flash_dword_pending,
  step

flash  == <<cell, pagen>>
args   == <<call, locked>>
page   == <<page_source_end, incomplete_flash_page_end>>
dword  == <<flash_dword, flash_dword_pending>>
errors == <<flashc_error_status, error_status>>
vars   == <<args, flash, buffer, errors, dest, dest_end, source, page, dword, step>>

array_end == AVR32_FLASH + ArrayPages * PageSize
user_end  == UserPage + PageSize
Bytes     == (AVR32_FLASH..(array_end - 1)) \cup (UserPage..(user_end - 1))
InDword   == 0..(DwordSize - 1)
InPage    == 0..(PageSize - 1)

Align_down(a, n) == a - (a % n)
Page(a)          == Align_down(a, PageSize)
Old(a)           == <<"old", a>>
New(k)           == {<<"new", k>>}

Init ==
  /\ call = [op |-> "none", dst |-> 0, nbytes |-> 0, erase |-> FALSE]
  /\ locked = {}
  /\ cell = [a \in Bytes |-> {Old(a)}]
  /\ buffer = [o \in InPage |-> {}] /\ pagen = AVR32_FLASH
  /\ flashc_error_status = {} /\ error_status = {}
  /\ dest = 0 /\ dest_end = 0 /\ source = 0
  /\ page_source_end = 0 /\ incomplete_flash_page_end = FALSE
  /\ flash_dword = [i \in InDword |-> {}] /\ flash_dword_pending = FALSE
  /\ step = "idle"

IsCopy == call.op = "memcpy"

(* Both reformat their arguments: an end outside the flash moves to the next *)
(* page, or to the end of the previous one, and the source moves with it.    *)
ClippedStart(a) ==
  IF a < AVR32_FLASH THEN AVR32_FLASH
  ELSE IF array_end <= a /\ a < UserPage THEN UserPage ELSE a

ClippedEnd(a) ==
  IF a > user_end THEN user_end
  ELSE IF UserPage >= a /\ a > array_end THEN array_end ELSE a

Begin(op, d, n, e) ==
  /\ step = "idle"
  /\ call' = [op |-> op, dst |-> d, nbytes |-> n, erase |-> e]
  /\ \E l \in SUBSET {Page(a) : a \in AVR32_FLASH..(array_end - 1)} : locked' = l
  /\ dest' = ClippedStart(d) /\ source' = ClippedStart(d) - d
  /\ dest_end' = ClippedEnd(d + n)
  /\ error_status' = {} /\ flash_dword_pending' = FALSE
  /\ step' = "loop"
  /\ UNCHANGED <<flash, buffer, flashc_error_status, page, flash_dword>>

flashc_memset64(d, n, e) == Begin("memset", d, n, e)
flashc_memcpy(d, n, e)   == Begin("memcpy", d, n, e)

(* The double word a memset repeats is turned so that it starts at dst.      *)
SourceByte(a, k) == IF IsCopy THEN New(k) ELSE New((a - call.dst) % DwordSize)

(* Bytes, by their addresses, go to the page buffer, which addresses the page. *)
WriteBuffer(buf, byte) ==
  [o \in InPage |-> buf[o] \cup UNION {byte[a] : a \in {b \in DOMAIN byte : b % PageSize = o}}]

Addressed(from, to, n) == IF from < to THEN Page(to - 1) ELSE n

(* Top of the loop. *)
Incomplete(d) == Page(d) >= Page(dest_end)

ClearPageBuffer ==
  /\ step = "loop" /\ dest < dest_end
  /\ buffer' = [o \in InPage |-> {}]
  /\ flashc_error_status' = {}
  /\ page_source_end' = LET full == Align_down(dest_end, DwordSize)
                        IN  IF full < Page(dest) + PageSize THEN full ELSE Page(dest) + PageSize
  /\ incomplete_flash_page_end' = Incomplete(dest)
  /\ flash_dword' = IF IsCopy THEN flash_dword ELSE [i \in InDword |-> SourceByte(i, 0)]
  /\ step' = "head"
  /\ UNCHANGED <<args, flash, error_status, dest, dest_end, source, flash_dword_pending>>

(* The page before dest stays; a double word that is partly before it is     *)
(* mixed, and kept for the tail when it is also the last one.                *)
FillHead ==
  LET start == Align_down(dest, DwordSize)
      mixed == dest % DwordSize # 0
      value == [i \in InDword |-> IF i < dest % DwordSize THEN cell[start + i]
                                  ELSE SourceByte(start + i, source + start + i - dest)]
      full  == mixed /\ start < Align_down(dest_end, DwordSize)
      kept  == WriteBuffer(buffer, [a \in Page(dest)..(start - 1) |-> cell[a]])
  IN
  /\ step = "head"
  /\ buffer' = IF full THEN WriteBuffer(kept, [a \in start..(start + DwordSize - 1) |-> value[a - start]])
               ELSE kept
  /\ pagen' = Addressed(Page(dest), IF full THEN start + DwordSize ELSE start, pagen)
  /\ dest' = IF full THEN start + DwordSize ELSE start
  /\ source' = IF mixed THEN source + start + DwordSize - dest ELSE source
  /\ flash_dword' = IF mixed /\ (IsCopy \/ ~full) THEN value ELSE flash_dword
  /\ flash_dword_pending' = (flash_dword_pending \/ (mixed /\ ~full))
  /\ step' = "body"
  /\ UNCHANGED <<args, cell, errors, dest_end, page>>

(* Whole double words from the source. *)
FillBody ==
  /\ step = "body"
  /\ buffer' = WriteBuffer(buffer, [a \in dest..(page_source_end - 1) |-> SourceByte(a, source + a - dest)])
  /\ pagen' = Addressed(dest, page_source_end, pagen)
  /\ dest' = page_source_end /\ source' = source + page_source_end - dest
  /\ step' = IF incomplete_flash_page_end THEN "tail" ELSE "erase"
  /\ UNCHANGED <<args, cell, errors, dest_end, page, dword>>

(* The last double word is mixed with what follows it, and the rest of the   *)
(* page stays.                                                               *)
LastOfSource(i) == SourceByte(dest + i, source + i)  \* MUTANT: the double word kept from the head is forgotten
Last(i) == IF IsCopy /\ ~flash_dword_pending THEN SourceByte(dest + i, source + i) ELSE flash_dword[i]

FillTail ==
  LET over  == dest_end % DwordSize
      value == [i \in InDword |-> IF i < over THEN Last(i) ELSE cell[dest + i]]
      next  == IF over # 0 THEN dest + DwordSize ELSE dest
      end   == Page(dest_end) + PageSize
      mixed == WriteBuffer(buffer, [a \in dest..(next - 1) |-> value[a - dest]])
  IN
  /\ step = "tail"
  /\ buffer' = WriteBuffer(mixed, [a \in next..(end - 1) |-> cell[a]])
  /\ pagen' = Addressed(dest, end, pagen)
  /\ dest' = next
  /\ flash_dword' = IF over # 0 THEN value ELSE flash_dword
  /\ step' = "erase"
  /\ UNCHANGED <<args, cell, errors, dest_end, source, page, flash_dword_pending>>

(* A command to erase or to write, of the page last addressed or of the User *)
(* page; on a locked page it does nothing and reports it.                    *)
InArray == dest <= UserPage
Target  == IF InArray THEN pagen ELSE UserPage
Status  == IF Target \in locked THEN {"LOCKE"} ELSE {}

issue_command(byte) ==
  /\ cell' = [a \in Bytes |-> IF Page(a) = Target /\ Target \notin locked THEN byte[a] ELSE cell[a]]
  /\ flashc_error_status' = Status
  /\ error_status' = error_status \cup Status

ErasePage ==
  /\ step = "erase"
  /\ IF call.erase THEN issue_command([a \in Bytes |-> {}]) ELSE UNCHANGED <<cell, errors>>
  /\ step' = "write"
  /\ UNCHANGED <<args, buffer, pagen, dest, dest_end, source, page, dword>>

WritePage ==
  /\ step = "write"
  /\ issue_command([a \in Bytes |-> cell[a] \cup buffer[a % PageSize]])
  /\ dest' = IF InArray /\ dest >= array_end THEN UserPage ELSE dest
  /\ source' = source + dest' - dest
  /\ step' = "loop"
  /\ UNCHANGED <<args, buffer, pagen, dest_end, page, dword>>

Return ==
  /\ step = "loop" /\ dest >= dest_end
  /\ flashc_error_status' = error_status
  /\ step' = "returned"
  /\ UNCHANGED <<args, flash, buffer, error_status, dest, dest_end, source, page, dword>>

Next ==
  \/ \E d \in (AVR32_FLASH - DwordSize)..(user_end + 1), n \in 0..MaxBytes, e \in BOOLEAN :
        flashc_memset64(d, n, e) \/ flashc_memcpy(d, n, e)
  \/ ClearPageBuffer \/ FillHead \/ FillBody \/ FillTail
  \/ ErasePage \/ WritePage \/ Return

Spec == Init /\ [][Next]_vars

-----------------------------------------------------------------------------
Destination == Bytes \cap call.dst..(call.dst + call.nbytes - 1)
Given(a)    == IF IsCopy THEN New(a - call.dst) ELSE New((a - call.dst) % DwordSize)

(* After the call the destination holds the source, combined with what it    *)
(* held unless erasing was asked for, also across the gap between the array  *)
(* and the User page; locked pages have not changed, and an error is         *)
(* reported if and only if one of them was in the way.  No other byte has    *)
(* changed; and when the program is stopped in the middle of the call, such  *)
(* a byte is lost only if its page has been erased and not yet been written. *)
OnlyTheRangeChanges ==
  /\ step = "returned" =>
       /\ \A a \in Destination :
            cell[a] = IF Page(a) \in locked THEN {Old(a)}
                      ELSE IF call.erase THEN Given(a) ELSE Given(a) \cup {Old(a)}
       /\ flashc_error_status # {} <=> \E a \in Destination : Page(a) \in locked
  /\ \A a \in Bytes \ Destination :
       cell[a] = {Old(a)} \/ (cell[a] = {} /\ step = "write" /\ Page(a) = Target /\ call.erase)

=============================================================================
