----------------------------- MODULE BlobReader -----------------------------
(***************************************************************************)
(* The firmware and BCF images: the readers that hand out parts of them    *)
(* (mmhal_wlan_binaries.c), and the walk over an image with which the      *)
(* porting assistant validates it (test_wlan_fw_bcf.c).  An image is a     *)
(* list of type-length-value fields, cut off at any byte.                  *)
(***************************************************************************)
EXTENDS Naturals, Sequences

CONSTANTS
  Fields,     (* records [type, len, magic]: magic when the value starts   *)
              (* with the magic number expected                            *)
  MaxFields,  (* in an image                                               *)
  MAX_TLVS,
  Wrap,       (* size_t is unsigned: 2^32, or a smaller power of 2 that no *)
              (* image reaches                                             *)
  Asked       (* offsets and lengths that the library asks for             *)

ASSUME BlobAssumption ==
  /\ MaxFields \in Nat /\ MAX_TLVS \in Nat /\ Wrap \in Nat \ {0}
  /\ Fields \subseteq [type : {"magic", "eof", "other"}, len : Nat, magic : BOOLEAN]
  /\ Asked \subseteq Nat

VARIABLES
  image,      (* the fields                                                *)
  length,     (* bcf_len, firmware_len                                     *)
  offset,     (* the walk's                                                *)
  num_tlvs,   (* fields it has passed                                      *)
  remaining,  (* remaining_len of a value                                  *)
  verdict,    (* of the walk: "none", "passed" or "failed"                 *)
  robuf       (* what a reader gave last: [at, len]; NULL is at = Wrap     *)

blobVars == <<image, length, offset, num_tlvs, remaining, verdict, robuf>>

HeaderSize == 4

(* Where the field after the first n of an image starts.                   *)
StartAfter(fields, n) ==
  LET start[i \in 0..Len(fields)] ==
        IF i = 0 THEN 0 ELSE start[i - 1] + HeaderSize + fields[i].len
  IN start[n]

(* size_t can tell the bytes of every image apart.                         *)
ASSUME SizeAssumption ==
  \A fields \in UNION {[1..n -> Fields] : n \in 0..MaxFields} :
    StartAfter(fields, Len(fields)) < Wrap

BlobInit ==
  /\ image \in UNION {[1..n -> Fields] : n \in 0..MaxFields}
  /\ length \in 0..StartAfter(image, Len(image))
  /\ offset = 0 /\ num_tlvs = 0 /\ remaining = 0
  /\ verdict = "none" /\ robuf = [at |-> Wrap, len |-> 0]

(***************************************************************************)
(* mmhal_wlan_read_fw_file and _bcf_file                                   *)
(***************************************************************************)
(* Mutant: no test of the offset.                                          *)
ReadFileUnchecked(from, requested_len) ==
  LET read_len == (length + Wrap - from) % Wrap
  IN [at |-> from, len |-> IF read_len < requested_len THEN read_len ELSE requested_len]

ReadFile(from, requested_len) ==
  LET read_len == (length + Wrap - from) % Wrap
  IN IF from > length THEN [at |-> Wrap, len |-> 0]
     ELSE [at |-> from, len |-> IF read_len < requested_len THEN read_len ELSE requested_len]

(* The library's reads                                                     *)
LibraryReads ==
  /\ verdict # "none"
  /\ \E from \in Asked, n \in Asked : robuf' = ReadFile(from, n)
  /\ UNCHANGED <<image, length, offset, num_tlvs, remaining, verdict>>

(***************************************************************************)
(* execute_fw_bcf_test, one read at a time.  Left out are its tests for    *)
(* what these readers never give: NULL with a length, more than was asked. *)
(***************************************************************************)
Verdict(v) == verdict' = v /\ UNCHANGED <<offset, num_tlvs, remaining>>

(* The field at the walk's offset.                                         *)
Here == image[num_tlvs + 1]

(* What is left of a value; a value of no length is passed at once.        *)
Passes(n, left) ==
  /\ offset' = offset + n /\ remaining' = left
  /\ num_tlvs' = IF left = 0 THEN num_tlvs + 1 ELSE num_tlvs
  /\ UNCHANGED verdict

ReadHeader ==
  /\ verdict = "none" /\ remaining = 0
  /\ IF num_tlvs = MAX_TLVS THEN Verdict("failed") /\ UNCHANGED robuf
     ELSE /\ robuf' = ReadFile(offset, HeaderSize)
          /\ \/ robuf'.len < HeaderSize /\ Verdict("failed")
             \/ /\ robuf'.len = HeaderSize
                /\ \/ num_tlvs = 0 /\ Here.type # "magic" /\ Verdict("failed")
                   \/ num_tlvs > 0 /\ Here.type = "eof" /\ Verdict("passed")
                   \/ /\ IF num_tlvs = 0 THEN Here.type = "magic" ELSE Here.type # "eof"
                      /\ Passes(HeaderSize, Here.len)
  /\ UNCHANGED <<image, length>>

(* The first value, as far as it is read, starts with the magic number.    *)
ReadValue ==
  /\ verdict = "none" /\ remaining > 0
  /\ robuf' = ReadFile(offset, remaining)
  /\ IF robuf'.len = 0 \/ (num_tlvs = 0 /\ (robuf'.len < 4 \/ ~Here.magic))
       THEN Verdict("failed")
       ELSE Passes(robuf'.len, remaining - robuf'.len)
  /\ UNCHANGED <<image, length>>

BlobNext == ReadHeader \/ ReadValue \/ LibraryReads

BlobSpec == BlobInit /\ [][BlobNext]_blobVars

(***************************************************************************)
(* The image is whole: it starts with the magic number (or with an empty   *)
(* field of that type, which the walk lets pass), and its end marker is    *)
(* there, among the first MAX_TLVS fields, after values that are all       *)
(* there.                                                                  *)
(***************************************************************************)
Whole ==
  \E n \in 2..Len(image) :
    /\ n <= MAX_TLVS /\ image[n].type = "eof"
    /\ \A i \in 1..(n - 1) : image[i].type # "eof"
    /\ image[1].type = "magic"
    /\ image[1].len = 0 \/ (image[1].len >= 4 /\ image[1].magic)
    /\ StartAfter(image, n - 1) + HeaderSize <= length

(* Wherever an image is cut off, the walk passes it if and only if it is   *)
(* whole; and no reader, whatever it is asked, hands out a byte that is    *)
(* not of the image.                                                       *)
ImagesJudgedRight ==
  /\ verdict # "none" => (verdict = "passed" <=> Whole)
  /\ robuf.len > 0 => robuf.at + robuf.len <= length
=============================================================================
