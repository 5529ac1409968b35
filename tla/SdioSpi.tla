------------------------------- MODULE SdioSpi -------------------------------
(***************************************************************************)
(* Access to the chip's memory over SDIO: sdio_spi.c of the porting        *)
(* assistant on the SDIO shim, morsemicro_sdio.c.  The chip shows 64 KiB   *)
(* of its memory at a time, behind a window that three registers select,   *)
(* each written by a CMD52; CMD53 moves the data, whole blocks first and   *)
(* the rest byte by byte.  The controller may fail any request.            *)
(***************************************************************************)
EXTENDS Naturals

CONSTANTS
  Addresses,  (* where calls start: words                                  *)
  Lengths,    (* bytes they ask for                                        *)
  WindowSize  (* 0x10000                                                   *)

ASSUME WindowAssumption ==
  /\ WindowSize \in Nat \ {0} /\ WindowSize % 512 = 0
  /\ \A a \in Addresses : a \in Nat /\ a % 4 = 0
  /\ Lengths \subseteq Nat
  /\ \A a \in Addresses, n \in Lengths \union {4} :   (* 32-bit addresses *)
       (a + n) \div WindowSize < 65536

VARIABLES
  call,       (* the function called, or "none"                            *)
  line,       (* what it does next                                         *)
  start, size,(* address and len of the call                               *)
  address,    (* where the next access goes                                *)
  todo,       (* len: what is left                                         *)
  pass,       (* where one pass of the loop starts                         *)
  chunk,      (* and what is left of it                                    *)
  window,     (* per function: the two bytes of the base, and the access   *)
  moved,      (* history: bytes moved, without a gap, from start           *)
  access,     (* history: the last CMD53, as the chip saw it               *)
  code        (* what the call returned                                    *)

sdioVars == <<call, line, start, size, address, todo, pass, chunk, window,
              moved, access, code>>

NoAccess == [first |-> 0, bytes |-> 0, wanted |-> 0]

SdioInit ==
  /\ call = "none" /\ line = "idle"
  /\ start = 0 /\ size = 0 /\ address = 0 /\ todo = 0 /\ pass = 0 /\ chunk = 0
  /\ window = [f \in {"F1", "F2"} |-> [low |-> 0, high |-> 0, access |-> 0]]
  /\ moved = 0 /\ access = NoAccess /\ code = "none"

(* The calls, and the SDIO function each goes through.                     *)
Single == {"read_le32", "write_le32"}
Multi == {"read_multi_byte", "write_multi_byte"}
FunctionOf(c) == IF c = "read_le32" THEN "F1" ELSE "F2"
BlockSize(f) == IF f = "F1" THEN 8 ELSE 512

(* The errors of the shim: of a command, and of one with data.             *)
MapCmdError == {"CMD_TIMEOUT", "OTHER_ERROR"}
MapDataError == {"DATA_TIMEOUT", "OTHER_ERROR"}

ReturnCode(c) ==
  /\ line' = "idle" /\ code' = c
  /\ UNCHANGED <<call, start, size, address, todo, pass, chunk>>

(***************************************************************************)
(* sdio_startup: the card is initialised and five registers are written;   *)
(* the first failure is returned.  They are counted by todo.               *)
(***************************************************************************)
Startup ==
  /\ line = "idle" /\ line' = "startup" /\ call' = "startup" /\ todo' = 6
  /\ start' = 0 /\ size' = 0 /\ address' = 0 /\ pass' = 0 /\ chunk' = 0
  /\ moved' = 0 /\ access' = NoAccess /\ code' = "none"
  /\ UNCHANGED window

(* The last three set up the window of function 1, at 0x10050000.          *)
StartupStep ==
  /\ line = "startup" /\ UNCHANGED <<moved, access>>
  /\ \/ /\ todo > 0 /\ todo' = todo - 1
        /\ window' = [window EXCEPT
             !["F1"].low = IF todo = 3 THEN 5 ELSE @,
             !["F1"].high = IF todo = 2 THEN 16 ELSE @,
             !["F1"].access = IF todo = 1 THEN 2 ELSE @]
        /\ UNCHANGED <<call, line, start, size, address, pass, chunk, code>>
     \/ todo > 0 /\ (\E e \in MapCmdError : ReturnCode(e)) /\ UNCHANGED window
     \/ todo = 0 /\ ReturnCode("ok") /\ UNCHANGED window

(***************************************************************************)
(* The calls that move data.  The multi-byte ones want a length that is a  *)
(* multiple of 4 and not 0, and say so before they touch the bus.          *)
(***************************************************************************)
Call(c, a, n) ==
  /\ line = "idle" /\ call' = c
  /\ start' = a /\ size' = n /\ address' = a /\ todo' = n /\ pass' = a /\ chunk' = 0
  /\ moved' = 0 /\ access' = NoAccess
  /\ IF c \in Multi /\ (n = 0 \/ n % 4 # 0)
       THEN line' = "idle" /\ code' = "INVALID_ARGUMENT"
       ELSE line' = "base" /\ code' = "none"
  /\ UNCHANGED window

(* morse_address_base_set                                                  *)
Base(f) == (window[f].high * 256 + window[f].low) * WindowSize

BaseStep(from, to, written) ==
  /\ line = from
  /\ \/ /\ line' = to /\ window' = written
        /\ UNCHANGED <<call, start, size, address, todo, pass, chunk, moved, access, code>>
     \/ /\ \E e \in MapCmdError : ReturnCode(e)
        /\ UNCHANGED <<window, moved, access>>

AddressBaseSet ==
  LET f == FunctionOf(call)
      base == address \div WindowSize
  IN \/ BaseStep("base", "base1", [window EXCEPT ![f].low = base % 256])
     \/ BaseStep("base1", "base2", [window EXCEPT ![f].high = (base \div 256) % 256])
     \/ BaseStep("base2", "chunk", [window EXCEPT ![f].access = 2])

(* One pass: at most 128 blocks, and never over the end of the window.     *)
(* Mutant: the cut is left out.                                            *)
ChunkOfUncut == IF todo < 512 * 128 THEN todo ELSE 512 * 128

ChunkOf ==
  LET most == IF todo < 512 * 128 THEN todo ELSE 512 * 128
      boundary == (address \div WindowSize + 1) * WindowSize
  IN IF call \in Multi /\ address + most > boundary THEN boundary - address ELSE most

Chunk ==
  /\ line = "chunk" /\ line' = "block" /\ pass' = address /\ chunk' = ChunkOf
  /\ UNCHANGED <<call, start, size, address, todo, window, moved, access, code>>

(***************************************************************************)
(* morse_cmd53_read and _write, and the shim's morsemicro_sdio_cmd53_raw:  *)
(* a block size of 0 stands for one block of all the bytes.                *)
(***************************************************************************)
Cmd53Raw(block_size, transfer_length) ==
  IF block_size # 0 THEN block_size * transfer_length ELSE transfer_length

(* The chip sees the lower 16 bits of the address behind the window.       *)
Seen(wanted, bytes) ==
  [first |-> Base(FunctionOf(call)) + (wanted % WindowSize),
   bytes |-> bytes, wanted |-> wanted]

Advance(n) == address' = address + n /\ todo' = todo - n

(* The bytes wanted: the whole blocks, then what is left of the chunk.     *)
BlockPart == chunk - (chunk % BlockSize(FunctionOf(call)))

(* The read of several bytes does not look at the result of its accesses.  *)
Fails(ignored) ==
  \/ /\ ~ignored /\ (\E e \in MapDataError : ReturnCode(e)) /\ UNCHANGED moved
  \/ /\ ignored /\ Advance(chunk) /\ line' = "next" /\ chunk' = 0
     /\ UNCHANGED <<call, start, size, pass, moved, code>>

Cmd53(from, to, wanted, bytes) ==
  /\ line = from /\ wanted > 0 /\ access' = Seen(address, bytes)
  /\ \/ /\ line' = to /\ Advance(wanted) /\ chunk' = chunk - wanted
        /\ moved' = IF start + moved = address THEN moved + bytes ELSE moved
        /\ UNCHANGED <<call, start, size, pass, code>>
     \/ Fails(call = "read_multi_byte")
  /\ UNCHANGED window

Cmd53Block ==
  \/ Cmd53("block", "byte", BlockPart, Cmd53Raw(512, BlockPart \div BlockSize(FunctionOf(call))))
  \/ /\ line = "block" /\ BlockPart = 0 /\ line' = "byte"
     /\ UNCHANGED <<call, start, size, address, todo, pass, chunk, window, moved, access, code>>

Cmd53Byte ==
  \/ Cmd53("byte", "next", chunk, Cmd53Raw(0, chunk))
  \/ /\ line = "byte" /\ chunk = 0 /\ line' = "next"
     /\ UNCHANGED <<call, start, size, address, todo, pass, chunk, window, moved, access, code>>

(* When its first two words are the same it reads them once more.          *)
ReRead ==
  /\ line = "next" /\ call = "read_multi_byte" /\ address - pass >= 8
  /\ line' = "again" /\ access' = Seen(pass, Cmd53Raw(0, 8))
  /\ UNCHANGED <<call, start, size, address, todo, pass, chunk, window, moved, code>>

LoopEnds ==
  /\ line \in {"next", "again"} /\ UNCHANGED <<window, moved, access>>
  /\ \/ /\ todo > 0 /\ line' = "base"
        /\ UNCHANGED <<call, start, size, address, todo, pass, chunk, code>>
     \/ todo = 0 /\ ReturnCode("ok")

SdioNext ==
  \/ Startup \/ StartupStep
  \/ \E a \in Addresses :
       \/ \E c \in Multi, n \in Lengths : Call(c, a, n)
       \/ \E c \in Single : Call(c, a, 4)
  \/ AddressBaseSet \/ Chunk \/ Cmd53Block \/ Cmd53Byte \/ ReRead \/ LoopEnds

SdioSpec == SdioInit /\ [][SdioNext]_sdioVars

(***************************************************************************)
(* The chip is accessed where the caller meant, within one window and      *)
(* within the range asked for, also after calls that failed half-way       *)
(* through the window's registers; and a call that returned 0, other than  *)
(* sdio_spi_read_multi_byte, has moved every byte.                         *)
(***************************************************************************)
TransfersRight ==
  /\ access # NoAccess =>
       /\ access.first = access.wanted
       /\ access.first \div WindowSize = (access.first + access.bytes - 1) \div WindowSize
       /\ start <= access.first /\ access.first + access.bytes <= start + size
  /\ code = "ok" /\ call # "read_multi_byte" => moved = size
=============================================================================
