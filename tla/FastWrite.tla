------------------------------ MODULE FastWrite ------------------------------
(***************************************************************************)
(* The fast write path of the flash driver (wm_internal_fls.c), which      *)
(* firmware update streams an image through.  Data is collected in a       *)
(* one-sector cache, gsflscache, for sector gsSector; the cache is written *)
(* out when its sector is full, when the next write is for another sector, *)
(* and by tls_fls_fast_write_destroy.  Only the last piece of an image     *)
(* reaches the destroy: a session that is given up leaves its cache, and   *)
(* gsSector, to the next one.                                              *)
(*                                                                         *)
(* A byte is represented by the session it was written in and its address, *)
(* an address by sector and offset.                                        *)
(***************************************************************************)
EXTENDS Integers

CONSTANTS
  SecSize,      \* INSIDE_FLS_SECTOR_SIZE: 4096 in the code
  Density,      \* number of sectors of the flash
  First, Skip,  \* sector and offset of upgrade_img_addr, where an image starts
  MaxWrite,     \* bound: longest single write
  MaxSess       \* bound: sessions

ASSUME FastAssumption ==
  /\ SecSize \in Nat \ {0} /\ Density \in Nat /\ MaxWrite \in Nat /\ MaxSess \in Nat
  /\ First \in 1 .. Density - 1 /\ Skip \in 0 .. SecSize - 1

VARIABLES
  flash,      \* contents of the flash
  cache,      \* gsflscache
  ready,      \* gsflscache is allocated
  gsSector,
  psec, poff, \* where the next byte of the image goes (program_base + offset)
  left,       \* bytes the current tls_fls_fast_write has still to copy
  sess,       \* session number
  sealed      \* tls_fls_fast_write_destroy was called in this session

vars == <<flash, cache, ready, gsSector, psec, poff, left, sess, sealed>>

Sectors == 0 .. Density - 1
Offsets == 0 .. SecSize - 1
Byte == [s : Nat, sec : Nat, off : Offsets]
Old(sec, off) == [s |-> 0, sec |-> sec, off |-> off]
Data(sec, off) == [s |-> sess, sec |-> sec, off |-> off]

\* What is in freshly allocated memory, or in a sector whose writing was cut short.
Garbage == [o \in Offsets |-> Old(Density, o)]

TypeOK ==
  /\ flash \in [Sectors -> [Offsets -> Byte]]
  /\ cache \in [Offsets -> Byte]
  /\ ready \in BOOLEAN /\ sealed \in BOOLEAN
  /\ gsSector \in Nat /\ psec \in Nat /\ poff \in Offsets
  /\ left \in Nat /\ sess \in Nat

Init ==
  /\ flash = [c \in Sectors |-> [o \in Offsets |-> Old(c, o)]]
  /\ cache = Garbage
  /\ ready = FALSE /\ gsSector = 0
  /\ psec = First /\ poff = Skip /\ left = 0 /\ sess = 0 /\ sealed = TRUE

\* (fault) the sector is programmed with what the cache held before
FlushedStale(fl, buf) == IF gsSector < Density THEN [fl EXCEPT ![gsSector] = cache] ELSE fl

\* tls_fls_flush_sector: sector gsSector is erased and programmed from the cache,
\* whatever part of it was filled.
Flushed(fl, buf) == IF gsSector < Density THEN [fl EXCEPT ![gsSector] = buf] ELSE fl

\* A new image begins.  A cache left by a session that was given up is kept; a new
\* one holds what the heap held, its last contents or anything else.
tls_fls_fast_write_init ==
  /\ left = 0 /\ sess < MaxSess
  /\ sess' = sess + 1 /\ sealed' = FALSE /\ ready' = TRUE
  /\ cache' \in IF ready THEN {cache} ELSE {cache, Garbage}
  /\ psec' = First /\ poff' = Skip
  /\ UNCHANGED <<flash, gsSector, left>>

\* (fault) the sector that gsSector names at first, 0, is taken for a cached one
StaleAny == psec # gsSector

\* Whether the cache holds another sector; 0 stands for none.
Stale == psec # gsSector /\ gsSector # 0

\* tls_fls_fast_write up to its loop: len bytes go to the next position, and the
\* cache is written out first if it holds another sector.
tls_fls_fast_write(len) ==
  /\ ready /\ ~sealed /\ left = 0 /\ psec < Density
  /\ flash' = IF Stale THEN Flushed(flash, cache) ELSE flash
  /\ gsSector' = psec
  /\ left' = len
  /\ UNCHANGED <<cache, ready, psec, poff, sess, sealed>>

\* maxlen: what the sector still takes.
Room == SecSize - poff
Piece == IF left > Room THEN Room ELSE left

\* (fault) a sector filled to its last byte is not written out
FullMissed == poff + Piece > SecSize

Full == poff + Piece >= SecSize

\* One turn of the loop.
Copy ==
  /\ left > 0
  /\ cache' = [o \in Offsets |-> IF o >= poff /\ o < poff + Piece THEN Data(psec, o)
                                 ELSE cache[o]]
  /\ IF Full THEN flash' = Flushed(flash, cache') /\ gsSector' = gsSector + 1
             ELSE UNCHANGED <<flash, gsSector>>
  /\ IF poff + Piece = SecSize THEN psec' = psec + 1 /\ poff' = 0
                               ELSE psec' = psec /\ poff' = poff + Piece
  /\ left' = left - Piece
  /\ UNCHANGED <<ready, sess, sealed>>

\* (fault) the cache is freed without being written out
DestroyDrops ==
  /\ ready /\ left = 0 /\ ~sealed
  /\ ready' = FALSE /\ sealed' = TRUE
  /\ UNCHANGED <<flash, cache, gsSector, psec, poff, left, sess>>

\* wm_fwup.c calls it once the last byte of the image has been copied.
tls_fls_fast_write_destroy ==
  /\ ready /\ left = 0 /\ ~sealed /\ <<psec, poff>> # <<First, Skip>>
  /\ flash' = Flushed(flash, cache)
  /\ ready' = FALSE /\ sealed' = TRUE
  /\ UNCHANGED <<cache, gsSector, psec, poff, left, sess>>

\* The system is reset or loses power, perhaps while a sector is being written.
Restart ==
  /\ flash' \in {flash} \cup
       {[flash EXCEPT ![c] = Garbage] : c \in {c \in Sectors : ready /\ c = gsSector /\ c > 0}}
  /\ cache' = Garbage /\ ready' = FALSE /\ gsSector' = 0
  /\ psec' = First /\ poff' = Skip /\ left' = 0 /\ sealed' = TRUE
  /\ UNCHANGED sess

Next ==
  \/ tls_fls_fast_write_init
  \/ \E len \in 1 .. MaxWrite : tls_fls_fast_write(len)
  \/ Copy
  \/ tls_fls_fast_write_destroy
  \/ Restart

Spec == Init /\ [][Next]_vars

-----------------------------------------------------------------------------
(* Properties *)

\* The bytes of the image copied so far.
Written(sec, off) ==
  /\ First < sec \/ (sec = First /\ off >= Skip)
  /\ sec < psec \/ (sec = psec /\ off < poff)

\* Once the destroy has returned, every byte of the image that was handed to
\* tls_fls_fast_write in this session is in the flash at its own address,
\* however the writes were cut and whatever an earlier session left in the cache.
ImageInFlash ==
  sealed => \A sec \in Sectors, off \in Offsets :
              Written(sec, off) => flash[sec][off] = Data(sec, off)

\* Until then a byte is in the flash, or in the cache if it belongs to the sector
\* that is being filled: nothing is ever in neither place.
NothingLost ==
  \A sec \in Sectors, off \in Offsets :
    Written(sec, off) =>
      IF sec < psec THEN flash[sec][off] = Data(sec, off)
      ELSE ~sealed => cache[off] = Data(sec, off)

\* The inductive invariant of the proofs: besides the above, the cache is for the
\* sector of the next byte as soon as it holds a byte of the image, and the image
\* has not started before its first address.
IInv ==
  /\ TypeOK /\ NothingLost /\ ImageInFlash
  /\ sealed => left = 0
  /\ <<psec, poff>> # <<First, Skip>> \/ left > 0 => gsSector = psec
  /\ First < psec \/ (First = psec /\ Skip <= poff)

\* Sectors before the image are never touched, by whatever an earlier session left
\* in gsSector, and the destroy writes one sector only: the one of the next byte.
\* (That sector lies behind the image if the image ends at the end of a sector.)
OtherSectorsKept ==
  [][\A sec \in Sectors : flash'[sec] # flash[sec] =>
       First <= sec /\ (tls_fls_fast_write_destroy => sec = psec)]_vars
=============================================================================
