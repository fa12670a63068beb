--------------------------- MODULE FastWriteProofs ---------------------------
(***************************************************************************)
(* Proofs for FastWrite: for every sector size, flash size and image       *)
(* address, and however an image is cut into writes.                       *)
(***************************************************************************)
EXTENDS FastWrite, TLAPS

LEMMA GarbageType == Garbage \in [Offsets -> Byte]
BY FastAssumption DEF Garbage, Old, Byte, Offsets

\* Before the first write of a session no byte of the image counts as written.
LEMMA NothingWritten ==
  ASSUME TypeOK, psec = First, poff = Skip, NEW sec \in Sectors, NEW off \in Offsets
  PROVE  ~Written(sec, off)
BY FastAssumption DEF Written, TypeOK, Offsets, Sectors

LEMMA FlushedType ==
  ASSUME NEW fl \in [Sectors -> [Offsets -> Byte]], NEW buf \in [Offsets -> Byte],
         gsSector \in Nat
  PROVE  Flushed(fl, buf) \in [Sectors -> [Offsets -> Byte]]
BY FastAssumption DEF Flushed, Sectors

\* What the flush of the sector gsSector does to each sector.
LEMMA FlushedSectors ==
  ASSUME NEW fl \in [Sectors -> [Offsets -> Byte]], NEW buf, NEW sec \in Sectors,
         gsSector \in Nat
  PROVE  Flushed(fl, buf)[sec] = IF sec = gsSector THEN buf ELSE fl[sec]
BY FastAssumption DEF Flushed, Sectors

\* The piece copied in one turn of the loop is not empty and ends in the sector.
LEMMA PieceFits ==
  ASSUME TypeOK, left > 0
  PROVE  /\ Piece \in Nat /\ Piece > 0 /\ Piece <= left
         /\ poff + Piece <= SecSize
         /\ Full <=> poff + Piece = SecSize
BY FastAssumption DEF TypeOK, Piece, Room, Full, Offsets

\* Init establishes the inductive invariant.
LEMMA InitIInv == Init => IInv
<1> SUFFICES ASSUME Init PROVE IInv
  OBVIOUS
<1>1. TypeOK
  <2>1. flash \in [Sectors -> [Offsets -> Byte]]
    BY FastAssumption DEF Init, Old, Byte, Sectors, Offsets
  <2>2. ready \in BOOLEAN /\ sealed \in BOOLEAN
    BY DEF Init
  <2>3. gsSector \in Nat /\ psec \in Nat /\ poff \in Offsets /\ left \in Nat /\ sess \in Nat
    BY FastAssumption DEF Init, Offsets
  <2>4. QED BY <2>1, <2>2, <2>3, GarbageType DEF Init, TypeOK
<1>2. QED
  BY <1>1, NothingWritten, FastAssumption DEF Init, IInv, NothingLost, ImageInFlash

\* A new session keeps it, whatever the cache holds.
LEMMA InitStep == ASSUME IInv, tls_fls_fast_write_init PROVE IInv'
<1>1. TypeOK'
  <2>1. cache' \in [Offsets -> Byte]
    BY GarbageType DEF IInv, TypeOK, tls_fls_fast_write_init
  <2>2. ready' \in BOOLEAN /\ sealed' \in BOOLEAN
    BY DEF tls_fls_fast_write_init
  <2>3. /\ gsSector' \in Nat /\ psec' \in Nat /\ poff' \in Offsets
        /\ left' \in Nat /\ sess' \in Nat
    BY FastAssumption DEF IInv, TypeOK, tls_fls_fast_write_init, Offsets
  <2>4. QED BY <2>1, <2>2, <2>3 DEF IInv, TypeOK, tls_fls_fast_write_init
<1>2. ASSUME NEW sec \in Sectors, NEW off \in Offsets PROVE ~Written(sec, off)'
  BY FastAssumption DEF Written, tls_fls_fast_write_init, Sectors, Offsets
<1>3. QED
  BY <1>1, <1>2, FastAssumption
  DEF IInv, NothingLost, ImageInFlash, tls_fls_fast_write_init

\* So does the start of a write: the cache is written out only when it holds no
\* byte of this image.
LEMMA WriteStep ==
  ASSUME IInv, NEW len \in 1 .. MaxWrite, tls_fls_fast_write(len) PROVE IInv'
<1> USE DEF tls_fls_fast_write, Stale
<1>1. TypeOK'
  BY FlushedType DEF IInv, TypeOK
<1>2. ASSUME NEW sec \in Sectors, NEW off \in Offsets
      PROVE  Written(sec, off)' <=> Written(sec, off)
  BY DEF Written
<1>3. NothingLost'
  <2>1. CASE psec # gsSector
    BY <2>1, <1>2, NothingWritten DEF IInv, NothingLost
  <2>2. CASE psec = gsSector
    BY <2>2, <1>2 DEF IInv, NothingLost, Data
  <2>3. QED BY <2>1, <2>2
<1>4. QED
  BY <1>1, <1>3 DEF IInv, ImageInFlash, TypeOK

\* So does a turn of the loop.
LEMMA CopyStep == ASSUME IInv, Copy PROVE IInv'
<1>1. /\ TypeOK /\ left > 0 /\ gsSector = psec /\ ~sealed
      /\ First < psec \/ (First = psec /\ Skip <= poff)
  BY DEF IInv, Copy
<1>2. /\ Piece \in Nat /\ Piece > 0 /\ Piece <= left /\ poff + Piece <= SecSize
      /\ Full <=> poff + Piece = SecSize
  BY <1>1, PieceFits
<1>3. cache' \in [Offsets -> Byte]
  BY <1>1, <1>2 DEF Copy, TypeOK, Data, Byte, Offsets
<1>4. \A off \in Offsets : cache'[off] = IF off >= poff /\ off < poff + Piece
                                           THEN Data(psec, off) ELSE cache[off]
  BY DEF Copy
<1>5. /\ ~sealed' /\ ready' = ready /\ sess' = sess /\ left' = left - Piece
      /\ \A sec, off : Data(sec, off)' = Data(sec, off)
  BY <1>1 DEF Copy, Data
<1>6. ready' \in BOOLEAN /\ sealed' \in BOOLEAN
  BY <1>1 DEF Copy, TypeOK
<1>7. CASE poff + Piece = SecSize
  <2>1. /\ flash' = Flushed(flash, cache') /\ gsSector' = psec + 1
        /\ psec' = psec + 1 /\ poff' = 0
    BY <1>1, <1>2, <1>7 DEF Copy
  <2>2. TypeOK'
    <3>1. flash' \in [Sectors -> [Offsets -> Byte]]
      BY <1>1, <1>3, <2>1, FlushedType DEF TypeOK
    <3>2. /\ gsSector' \in Nat /\ psec' \in Nat /\ poff' \in Offsets
          /\ left' \in Nat /\ sess' \in Nat
      BY <1>1, <1>2, <1>5, <2>1, FastAssumption DEF TypeOK, Offsets
    <3>3. QED BY <1>3, <1>6, <3>1, <3>2 DEF TypeOK
  <2>3. ASSUME NEW sec \in Sectors, NEW off \in Offsets, Written(sec, off)'
        PROVE  sec < psec' /\ flash'[sec][off] = Data(sec, off)'
    <3>1. sec <= psec
      BY <2>1, <2>3, <1>1 DEF Written, Sectors, Offsets, TypeOK
    <3>2. CASE sec < psec
      <4>1. Written(sec, off) /\ sec # gsSector
        BY <3>2, <2>3, <1>1 DEF Written, Sectors, TypeOK
      <4>2. flash[sec][off] = Data(sec, off)
        BY <4>1, <3>2 DEF IInv, NothingLost
      <4>3. flash'[sec] = flash[sec]
        BY <4>1, <2>1, <1>1, FlushedSectors DEF TypeOK
      <4>4. QED BY <4>2, <4>3, <3>2, <2>1, <1>5, <1>1 DEF TypeOK, Sectors
    <3>3. CASE sec = psec
      <4>1. flash'[sec] = cache'
        BY <3>3, <2>1, <1>1, FlushedSectors DEF TypeOK
      <4>2. CASE off >= poff
        <5>1. off < poff + Piece
          BY <1>7, FastAssumption DEF Offsets
        <5>2. cache'[off] = Data(psec, off)
          BY <4>2, <5>1, <1>4
        <5>3. QED BY <5>2, <4>1, <3>3, <2>1, <1>5, <1>1 DEF TypeOK
      <4>3. CASE off < poff
        <5>1. Written(sec, off)
          BY <4>3, <3>3, <2>3 DEF Written
        <5>2. cache[off] = Data(sec, off)
          BY <5>1, <3>3, <1>1 DEF IInv, NothingLost, TypeOK
        <5>3. cache'[off] = cache[off]
          BY <4>3, <1>4, <1>1 DEF Offsets, TypeOK
        <5>4. QED BY <5>2, <5>3, <4>1, <3>3, <2>1, <1>5, <1>1 DEF TypeOK
      <4>4. QED BY <4>2, <4>3, <1>1 DEF Offsets, TypeOK
    <3>4. QED BY <3>1, <3>2, <3>3, <1>1 DEF Sectors, TypeOK
  <2>4. NothingLost' /\ ImageInFlash'
    BY <2>3, <1>5 DEF NothingLost, ImageInFlash
  <2>5. QED
    <3>1. First < psec'
      BY <2>1, <1>1, FastAssumption DEF TypeOK
    <3>2. QED BY <2>1, <2>2, <2>4, <3>1, <1>5 DEF IInv
<1>8. CASE poff + Piece # SecSize
  <2>1. /\ flash' = flash /\ gsSector' = psec
        /\ psec' = psec /\ poff' = poff + Piece /\ left' = 0
    BY <1>1, <1>2, <1>8, FastAssumption DEF Copy, Piece, Room, TypeOK, Offsets
  <2>2. TypeOK'
    <3>1. /\ gsSector' \in Nat /\ psec' \in Nat /\ poff' \in Offsets
          /\ left' \in Nat /\ sess' \in Nat
      BY <1>1, <1>2, <1>5, <1>8, <2>1, FastAssumption DEF TypeOK, Offsets
    <3>2. flash' \in [Sectors -> [Offsets -> Byte]]
      BY <1>1, <2>1 DEF TypeOK
    <3>3. QED BY <1>3, <1>6, <3>1, <3>2 DEF TypeOK
  <2>3. ASSUME NEW sec \in Sectors, NEW off \in Offsets, Written(sec, off)'
        PROVE  IF sec < psec' THEN flash'[sec][off] = Data(sec, off)'
                              ELSE cache'[off] = Data(sec, off)'
    <3>1. CASE sec < psec
      <4>1. Written(sec, off)
        BY <3>1, <2>3, <2>1 DEF Written
      <4>2. QED BY <4>1, <3>1, <2>1, <1>5 DEF IInv, NothingLost
    <3>2. CASE ~(sec < psec)
      <4>1. sec = psec /\ off < poff + Piece
        BY <3>2, <2>3, <2>1 DEF Written
      <4>2. CASE off >= poff
        BY <4>1, <4>2, <3>2, <2>1, <1>4, <1>5
      <4>3. CASE ~(off >= poff)
        <5>1. Written(sec, off)
          BY <4>1, <4>3, <2>3, <1>1 DEF Written, Offsets, TypeOK
        <5>2. QED
          BY <5>1, <4>1, <4>3, <3>2, <2>1, <1>1, <1>4, <1>5 DEF IInv, NothingLost
      <4>4. QED BY <4>2, <4>3
    <3>3. QED BY <3>1, <3>2
  <2>4. NothingLost' /\ ImageInFlash'
    BY <2>3, <1>5 DEF NothingLost, ImageInFlash
  <2>5. First < psec' \/ (First = psec' /\ Skip <= poff')
    BY <2>1, <1>1, <1>2, FastAssumption DEF TypeOK, Offsets
  <2>6. QED
    BY <2>1, <2>2, <2>4, <2>5, <1>5 DEF IInv
<1>9. QED BY <1>7, <1>8

\* The destroy completes the image: what the cache holds is of the sector it writes.
LEMMA DestroyStep == ASSUME IInv, tls_fls_fast_write_destroy PROVE IInv'
<1> USE DEF tls_fls_fast_write_destroy
<1>1. TypeOK /\ gsSector = psec
  BY DEF IInv
<1>2. TypeOK'
  BY FlushedType DEF IInv, TypeOK
<1>3. ASSUME NEW sec \in Sectors, NEW off \in Offsets, Written(sec, off)'
      PROVE  flash'[sec][off] = Data(sec, off)'
  <2>1. Written(sec, off) /\ Data(sec, off)' = Data(sec, off)
    BY <1>3 DEF Written, Data
  <2>2. flash'[sec] = IF sec = psec THEN cache ELSE flash[sec]
    BY <1>1, FlushedSectors DEF TypeOK
  <2>3. sec < psec \/ sec = psec
    BY <2>1 DEF Written
  <2>4. CASE sec = psec
    BY <2>1, <2>2, <2>4, <1>1 DEF IInv, NothingLost, TypeOK
  <2>5. CASE sec < psec
    BY <2>1, <2>2, <2>5, <1>1 DEF IInv, NothingLost, TypeOK, Sectors
  <2>6. QED BY <2>3, <2>4, <2>5
<1>4. NothingLost' /\ ImageInFlash'
  BY <1>3 DEF NothingLost, ImageInFlash
<1>5. QED
  BY <1>2, <1>4 DEF IInv

\* A restart forgets the image, whatever it leaves in the flash.
LEMMA RestartStep == ASSUME IInv, Restart PROVE IInv'
<1>1. TypeOK'
  <2>1. flash' \in [Sectors -> [Offsets -> Byte]]
    <3>1. CASE flash' = flash
      BY <3>1 DEF IInv, TypeOK
    <3>2. CASE flash' # flash
      <4>1. PICK c \in Sectors : flash' = [flash EXCEPT ![c] = Garbage]
        BY <3>2 DEF Restart
      <4>2. QED BY <4>1, GarbageType DEF IInv, TypeOK
    <3>3. QED BY <3>1, <3>2
  <2>2. ready' \in BOOLEAN /\ sealed' \in BOOLEAN
    BY DEF Restart
  <2>3. /\ gsSector' \in Nat /\ psec' \in Nat /\ poff' \in Offsets
        /\ left' \in Nat /\ sess' \in Nat
    BY FastAssumption DEF IInv, TypeOK, Restart, Offsets
  <2>4. cache' \in [Offsets -> Byte]
    BY GarbageType DEF Restart
  <2>5. QED
    BY <2>1, <2>2, <2>3, <2>4 DEF TypeOK
<1>2. ASSUME NEW sec \in Sectors, NEW off \in Offsets PROVE ~Written(sec, off)'
  BY FastAssumption DEF Written, Restart, Sectors, Offsets
<1>3. QED
  BY <1>1, <1>2, FastAssumption DEF IInv, NothingLost, ImageInFlash, Restart

\* Every step of the fast write path keeps the inductive invariant.
THEOREM Inductive == Spec => []IInv
<1>1. IInv /\ [Next]_vars => IInv'
  <2> SUFFICES ASSUME IInv, [Next]_vars PROVE IInv'
    OBVIOUS
  <2>1. CASE tls_fls_fast_write_init
    BY <2>1, InitStep
  <2>2. ASSUME NEW len \in 1 .. MaxWrite, tls_fls_fast_write(len) PROVE IInv'
    BY <2>2, WriteStep
  <2>3. CASE Copy
    BY <2>3, CopyStep
  <2>4. CASE tls_fls_fast_write_destroy
    BY <2>4, DestroyStep
  <2>5. CASE Restart
    BY <2>5, RestartStep
  <2>6. CASE UNCHANGED vars
    BY <2>6 DEF vars, IInv, TypeOK, NothingLost, ImageInFlash, Written, Data
  <2>7. QED
    BY <2>1, <2>2, <2>3, <2>4, <2>5, <2>6 DEF Next
<1>2. QED
  BY InitIInv, <1>1, PTL DEF Spec

\* tls_fls_fast_write and its destroy never lose a byte: until the destroy each one
\* is in the flash or in the cache of the sector being filled.
THEOREM NeverLost == Spec => []NothingLost
<1>1. IInv => NothingLost
  BY DEF IInv
<1>2. QED
  BY <1>1, Inductive, PTL

\* When the destroy has returned the whole image is in the flash, which is what the
\* checksum verification of wm_fwup.c reads next.
THEOREM ImageComplete == Spec => []ImageInFlash
<1>1. IInv => ImageInFlash
  BY DEF IInv
<1>2. QED
  BY <1>1, Inductive, PTL

\* gsSector is 0, or a sector that some session has reached: never one before the
\* image.
NamesImage == gsSector = 0 \/ First <= gsSector

LEMMA NamesImageStep ==
  ASSUME IInv, NamesImage, [Next]_vars PROVE NamesImage'
<1> USE DEF NamesImage
<1>1. CASE tls_fls_fast_write_init
  BY <1>1 DEF tls_fls_fast_write_init
<1>2. ASSUME NEW len \in 1 .. MaxWrite, tls_fls_fast_write(len) PROVE NamesImage'
  BY <1>2, FastAssumption DEF tls_fls_fast_write, IInv, TypeOK
<1>3. CASE Copy
  BY <1>3, FastAssumption DEF Copy, IInv, TypeOK
<1>4. CASE tls_fls_fast_write_destroy
  BY <1>4 DEF tls_fls_fast_write_destroy
<1>5. CASE Restart
  BY <1>5 DEF Restart
<1>6. CASE UNCHANGED vars
  BY <1>6 DEF vars
<1>7. QED
  BY <1>1, <1>2, <1>3, <1>4, <1>5, <1>6 DEF Next

\* A sector that a step changes is the one gsSector names.
LEMMA OnlyNamed ==
  ASSUME IInv, [Next]_vars, NEW sec \in Sectors, flash'[sec] # flash[sec]
  PROVE  sec = gsSector /\ (gsSector = 0 => tls_fls_fast_write_destroy \/ Copy)
<1>1. CASE tls_fls_fast_write_init
  BY <1>1 DEF tls_fls_fast_write_init
<1>2. ASSUME NEW len \in 1 .. MaxWrite, tls_fls_fast_write(len)
      PROVE  sec = gsSector /\ gsSector # 0
  <2>1. CASE Stale
    <3>1. flash' = Flushed(flash, cache)
      BY <1>2, <2>1 DEF tls_fls_fast_write
    <3>2. QED
      BY <2>1, <3>1 DEF Flushed, Stale, IInv, TypeOK, Sectors
  <2>2. CASE ~Stale
    BY <1>2, <2>2 DEF tls_fls_fast_write
  <2>3. QED BY <2>1, <2>2
<1>3. CASE Copy
  <2>1. flash' = Flushed(flash, cache') \/ flash' = flash
    BY <1>3 DEF Copy
  <2>2. QED
    BY <1>3, <2>1 DEF Flushed, IInv, TypeOK, Sectors
<1>4. CASE tls_fls_fast_write_destroy
  <2>1. flash' = Flushed(flash, cache)
    BY <1>4 DEF tls_fls_fast_write_destroy
  <2>2. QED
    BY <1>4, <2>1 DEF Flushed, IInv, TypeOK, Sectors
<1>5. CASE Restart
  <2>1. PICK c \in Sectors : c = gsSector /\ c > 0 /\ flash' = [flash EXCEPT ![c] = Garbage]
    BY <1>5 DEF Restart
  <2>2. QED
    BY <2>1 DEF IInv, TypeOK, Sectors
<1>6. CASE UNCHANGED vars
  BY <1>6 DEF vars
<1>7. QED
  BY <1>1, <1>2, <1>3, <1>4, <1>5, <1>6 DEF Next

LEMMA OtherSectorsStep ==
  ASSUME IInv, NamesImage, [Next]_vars, NEW sec \in Sectors, flash'[sec] # flash[sec]
  PROVE  First <= sec /\ (tls_fls_fast_write_destroy => sec = psec)
<1>1. ASSUME tls_fls_fast_write_destroy \/ Copy PROVE gsSector = psec
  BY <1>1 DEF IInv, tls_fls_fast_write_destroy, Copy
<1>2. First <= psec
  BY FastAssumption DEF IInv, TypeOK
<1>3. sec = gsSector /\ (gsSector = 0 => tls_fls_fast_write_destroy \/ Copy)
  BY OnlyNamed
<1>4. First <= sec
  BY <1>1, <1>2, <1>3 DEF NamesImage
<1>5. QED
  BY <1>1, <1>3, <1>4

\* No step of the fast write path touches a sector before the image, and the destroy
\* writes no other sector than the one of the next byte.
THEOREM OthersUntouched == Spec => OtherSectorsKept
<1>1. Init => NamesImage
  BY DEF Init, NamesImage
<1>2. Spec => []NamesImage
  BY <1>1, Inductive, NamesImageStep, PTL DEF Spec
<1>3. IInv /\ NamesImage /\ [Next]_vars =>
        [\A sec \in Sectors : flash'[sec] # flash[sec] =>
           First <= sec /\ (tls_fls_fast_write_destroy => sec = psec)]_vars
  BY OtherSectorsStep
<1>4. QED
  BY <1>2, <1>3, Inductive, PTL DEF Spec, OtherSectorsKept
=============================================================================
