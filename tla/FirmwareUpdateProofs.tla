------------------------- MODULE FirmwareUpdateProofs -------------------------
(***************************************************************************)
(* Proofs about FirmwareUpdate, for every geometry of the flash, every set *)
(* of images and every damage to a line.                                   *)
(***************************************************************************)
EXTENDS FirmwareUpdate, TLAPS

\* The page a cell lies in starts in the region (place_byte's page_offset).
LEMMA PageOfType ==
    ASSUME NEW c \in Cells
    PROVE  PageOf(c) \in Cells
  <1>1. PageCells \in Nat /\ PageCells > 0 /\ Capacity \in Nat
    BY GeometryAssumption
  <1>2. c \in Nat /\ c < Capacity
    BY <1>1 DEF Cells
  <1>3. c % PageCells \in 0..c
    BY <1>1, <1>2
  <1> QED  BY <1>1, <1>2, <1>3 DEF PageOf, Cells

\* Cutting an operation short leaves data in every cell.
LEMMA HalfDoneType ==
    ASSUME NEW region \in [Cells -> Data], NEW cells, NEW target \in [Cells -> Data],
           NEW r \in HalfDone(region, cells, target)
    PROVE  r \in [Cells -> Data]
  <1>1. PICK left \in [cells -> {"old", "new", "junk"}] :
            r = [c \in Cells |-> IF c \in cells
                                 THEN CASE left[c] = "old" -> region[c]
                                        [] left[c] = "new" -> target[c]
                                        [] OTHER -> "junk"
                                 ELSE region[c]]
    BY DEF HalfDone
  <1>2. "junk" \in Data
    BY DEF Data
  <1> QED  BY <1>1, <1>2

LEMMA ErasedType ==
    ASSUME NEW region \in [Cells -> Data], NEW first
    PROVE  Erased(region, first) \in [Cells -> Data]
  BY DEF Erased, Data

\* The page handed to write_page, programmed over what staging holds.
LEMMA FlushedType ==
    ASSUME TypeOK
    PROVE  FlushedStaging \in [Cells -> Data]
  <1>1. \A old, new \in Data : Programmed(old, new) \in Data
    BY DEF Programmed, Data
  <1>2. ASSUME NEW c \in Page(rx.offset)
        PROVE  c - rx.offset \in 0..PageCells-1
    BY <1>2, GeometryAssumption DEF TypeOK, Transfer, Page, Cells
  <1>3. ASSUME NEW c \in Cells, c \in Page(rx.offset)
        PROVE  Programmed(staging[c], rx.page[c - rx.offset]) \in Data
    BY <1>1, <1>2, <1>3 DEF TypeOK, Transfer
  <1> QED  BY <1>3 DEF FlushedStaging, TypeOK

LEMMA PlaceIntoType ==
    ASSUME TypeOK, cursor \in Cells, until \in Int, value \in Data,
           NEW page \in [0..PageCells-1 -> Data], PlaceInto(page)
    PROVE  /\ rx' \in Transfer
           /\ rx'.complete = rx.complete /\ rx'.error = rx.error
           /\ \/ pc' = "idle" /\ cursor' = 0 /\ until' = 0 /\ value' = "none"
              \/ pc' = pc /\ cursor' \in Int /\ until' = until /\ value' = value
  <1>1. PageOf(cursor) \in Cells
    BY PageOfType
  <1>2. cursor + 1 \in 0..Capacity /\ cursor \in Int
    BY GeometryAssumption DEF Cells
  <1>3. [page EXCEPT ![cursor % PageCells] = value] \in [0..PageCells-1 -> Data]
    OBVIOUS
  <1>4. rx' = [rx EXCEPT !.page = [page EXCEPT ![cursor % PageCells] = value],
                         !.offset = PageOf(cursor), !.dirty = TRUE,
                         !.size = IF cursor >= @ THEN cursor + 1 ELSE @]
    BY DEF PlaceInto
  <1>5. rx \in Transfer
    BY DEF TypeOK
  <1>6. (IF cursor >= rx.size THEN cursor + 1 ELSE rx.size) \in 0..Capacity
    BY <1>2, <1>5 DEF Transfer
  <1>7. /\ rx' \in Transfer
        /\ rx'.complete = rx.complete /\ rx'.error = rx.error
    BY <1>1, <1>3, <1>4, <1>5, <1>6 DEF Transfer
  <1>8. \/ pc' = "idle" /\ cursor' = 0 /\ until' = 0 /\ value' = "none"
        \/ pc' = pc /\ cursor' \in Int /\ until' = until /\ value' = value
    BY <1>2 DEF PlaceInto, Return
  <1> QED  BY <1>7, <1>8
-----------------------------------------------------------------------------
(***************************************************************************)
(* The inductive invariant.  What fwapply would install and what a reboot  *)
(* would recover are staged whole because staging is only written while a  *)
(* transfer is on, and a transfer is only on once nothing is verified, the *)
(* manifest is gone and the old transfer is forgotten.                     *)
(***************************************************************************)
Bookkeeping ==
    /\ receiving => manifest.header # "written" /\ ~ verified /\ ~ rx.complete
    /\ pc = "placing" => receiving /\ value \in Data
    /\ unsent # {} => sending \in Images
    /\ pc \in {"clear", "erase"} => ~ verified
    /\ pc = "erase" => manifest.header # "written"
    /\ pc \in {"record_erase", "record", "apply"} => verified
    /\ pc = "off" => ~ verified /\ ~ receiving
    /\ manifest.header = "written" /\ rx.complete => manifest.size = rx.size

CopyInProgress ==
    /\ pc = "idle" => cursor = 0
    /\ pc = "apply" =>
         /\ installed = vouched /\ cursor \in Nat
         /\ \A c \in Cells : c < cursor => application[c] = staging[c]

IInv == /\ TypeOK /\ Bookkeeping /\ CopyInProgress
        /\ VerifiedIsVouched /\ ManifestAgreesWithStaging /\ ApplicationIsWhole

USE DEF Transfer

LEMMA BlankPageType == BlankPage \in [0..PageCells-1 -> Data]
  BY DEF BlankPage, Data

LEMMA NoTransferType == NoTransfer \in Transfer
  BY BlankPageType, GeometryAssumption DEF NoTransfer, Cells

LEMMA ManifestTypes ==
    /\ ErasedManifest \in Manifest /\ ErasedManifest.header = "erased"
    /\ TornManifest \in Manifest /\ TornManifest.header = "torn"
    /\ TypeOK => NewManifest \in Manifest
  <1>1. ErasedManifest \in Manifest /\ ErasedManifest.header = "erased"
    BY GeometryAssumption DEF ErasedManifest, Manifest
  <1>2. TornManifest \in Manifest /\ TornManifest.header = "torn"
    BY <1>1 DEF TornManifest, Manifest
  <1> QED  BY <1>1, <1>2 DEF NewManifest, TypeOK, Manifest

\* Recording an error in the transfer.
LEMMA ErrorType ==
    ASSUME TypeOK, NEW error \in {"ok", "hex", "range", "write"}, TransferFails(error)
    PROVE  /\ rx' \in Transfer /\ rx'.complete = rx.complete /\ rx'.size = rx.size
           /\ receiving' = FALSE /\ unsent' = {}
  <1>1. rx \in Transfer /\ rx' = [rx EXCEPT !.error = error]
    BY DEF TypeOK, TransferFails
  <1>2. rx' \in Transfer /\ rx'.complete = rx.complete /\ rx'.size = rx.size
    BY <1>1
  <1> QED  BY <1>2 DEF TransferFails

\* A handler that returns, and a reset.
LEMMA ReturnType ==
    ASSUME Return
    PROVE  /\ pc' \in {"off", "idle", "clear", "erase", "placing", "record_erase",
                        "record", "apply"}
           /\ cursor' \in Int /\ until' \in Int /\ value' \in Data \cup {"none"}
  BY DEF Return

LEMMA RamLostType ==
    ASSUME TypeOK, RamLost
    PROVE  /\ pc' \in {"off", "idle", "clear", "erase", "placing", "record_erase",
                        "record", "apply"}
           /\ cursor' \in Int /\ until' \in Int /\ value' \in Data \cup {"none"}
           /\ rx' \in Transfer /\ ~ receiving' /\ receiving' \in BOOLEAN
           /\ verified' \in BOOLEAN /\ clean' \in BOOLEAN
           /\ sending' \in Images \cup {"none"} /\ unsent' \subseteq Cells \X Cells
           /\ vouched' \in Images \cup {"none"} /\ installed' \in Images
  <1>1. /\ pc' \in {"off", "idle", "clear", "erase", "placing", "record_erase",
                     "record", "apply"}
        /\ cursor' \in Int /\ until' \in Int
    BY DEF RamLost
  <1>2. value' \in Data \cup {"none"}
    BY DEF RamLost
  <1>3. rx' \in Transfer /\ ~ receiving' /\ receiving' \in BOOLEAN
    BY NoTransferType DEF RamLost
  <1>4. sending' \in Images \cup {"none"} /\ unsent' \subseteq Cells \X Cells
    BY DEF RamLost
  <1>5. verified' \in BOOLEAN /\ clean' \in BOOLEAN
    BY DEF RamLost
  <1>6. vouched' \in Images \cup {"none"} /\ installed' \in Images
    BY DEF RamLost, TypeOK
  <1> QED  BY <1>1, <1>2, <1>3, <1>4, <1>5, <1>6

\* Every action keeps the types.
LEMMA NextTypeOK ==
    ASSUME TypeOK, Bookkeeping, VerifiedIsVouched, Next
    PROVE  TypeOK'
  <1> USE NoTransferType, BlankPageType, ManifestTypes
  <1>1. ASSUME Boot PROVE TypeOK'
    <2>1. manifest.size \in 0..Capacity
      BY DEF TypeOK, Manifest
    <2>2. [NoTransfer EXCEPT !.size = manifest.size, !.complete = TRUE] \in Transfer
      BY <2>1
    <2>3. rx' \in Transfer
      BY <1>1, <2>2 DEF Boot
    <2>4. verified' \in BOOLEAN
      BY <1>1 DEF Boot, ManifestMatches
    <2>5. /\ Return /\ installed' \in Images /\ interrupted' = FALSE /\ receiving' = FALSE
          /\ UNCHANGED <<staging, manifest, application, sending, unsent, vouched, clean>>
      BY <1>1 DEF Boot, flash, sender
    <2> QED  BY <2>3, <2>4, <2>5, ReturnType DEF TypeOK
  <1>2. ASSUME NEW size \in BeginSizes, BeginTransfer(size) PROVE TypeOK'
    <2>1. size \in Int
      BY ImagesAssumption
    <2> QED  BY <1>2, <2>1 DEF BeginTransfer, TypeOK, flash, sender, history
  <1>3. ASSUME ClearManifest PROVE TypeOK'
    BY <1>3, GeometryAssumption DEF ClearManifest, Return, TypeOK, service, sender, history
  <1>4. ASSUME EraseSector PROVE TypeOK'
    <2>1. cursor + SectorCells \in Int
      BY GeometryAssumption DEF TypeOK
    <2>2. Erased(staging, cursor) \in [Cells -> Data]
      BY ErasedType DEF TypeOK
    <2> QED  BY <1>4, <2>1, <2>2 DEF EraseSector, TypeOK, service, sender
  <1>5. ASSUME TransferReady PROVE TypeOK'
    BY <1>5 DEF TransferReady, Return, TypeOK, flash, NoTransfer
  <1>6. ASSUME ManifestFails PROVE TypeOK'
    BY <1>6 DEF ManifestFails, Return, TypeOK, service, sender, history
  <1>7. ASSUME EraseRefused PROVE TypeOK'
    BY <1>7 DEF EraseRefused, Return, TypeOK, flash, service, sender, history
  <1>8. ASSUME NEW img \in Images, StartFile(img) PROVE TypeOK'
    BY <1>8, ImagesAssumption DEF StartFile, TypeOK, flash, service, locals
  <1>9. ASSUME NEW r \in unsent, LineLost(r) PROVE TypeOK'
    <2>1. unsent \ {r} \subseteq Cells \X Cells
      BY DEF TypeOK
    <2> QED  BY <1>9, <2>1 DEF LineLost, TypeOK, flash, service, locals
  <1>10. ASSUME NEW r \in unsent, LineRefused(r) PROVE TypeOK'
    BY <1>10, ErrorType DEF LineRefused, TypeOK, flash, locals
  <1>11. ASSUME NEW r \in unsent, LineArrives(r) PROVE TypeOK'
    <2>1. r[1] \in Int /\ r[2] \in Int
      BY GeometryAssumption DEF TypeOK, Cells
    <2> QED  BY <1>11, <2>1 DEF LineArrives, StartPlacing, TypeOK, Bookkeeping, Data, flash,
                 service, history
  <1>12. ASSUME NEW r \in unsent, NEW place \in Misplaced, LineArrivesElsewhere(r, place)
         PROVE  TypeOK'
    <2>1. place[1] \in Int /\ place[2] \in Int
      BY ImagesAssumption
    <2> QED  BY <1>12, <2>1 DEF LineArrivesElsewhere, StartPlacing, TypeOK, Data, flash, service
  <1>13. ASSUME PlaceRefused PROVE TypeOK'
    <2>1. /\ Return /\ TransferFails("range")
          /\ UNCHANGED <<staging, manifest, application, verified, sending, vouched, installed,
                         interrupted, clean>>
      BY <1>13 DEF PlaceRefused, flash, history
    <2> QED  BY <2>1, ReturnType, ErrorType DEF TypeOK
  <1>14. ASSUME PlaceInPage PROVE TypeOK'
    <2>1. (IF rx.dirty THEN rx.page ELSE BlankPage) \in [0..PageCells-1 -> Data]
      BY DEF TypeOK
    <2>2. cursor \in Cells /\ until \in Int /\ value \in Data
      BY <1>14 DEF PlaceInPage, TypeOK, Bookkeeping
    <2>3. /\ rx' \in Transfer /\ rx'.error = rx.error
          /\ \/ pc' = "idle" /\ cursor' = 0 /\ until' = 0 /\ value' = "none"
             \/ pc' = pc /\ cursor' \in Int /\ until' = until /\ value' = value
      BY <1>14, <2>1, <2>2, PlaceIntoType DEF PlaceInPage
    <2> QED  BY <1>14, <2>3 DEF PlaceInPage, TypeOK, flash, sender, history
  <1>15. ASSUME PlaceAfterFlush PROVE TypeOK'
    <2>1. staging' \in [Cells -> Data]
      BY <1>15, FlushedType DEF PlaceAfterFlush, Flushes
    <2>2. cursor \in Cells /\ until \in Int /\ value \in Data
      BY <1>15 DEF PlaceAfterFlush, TypeOK, Bookkeeping
    <2>3. /\ rx' \in Transfer /\ rx'.error = rx.error
          /\ \/ pc' = "idle" /\ cursor' = 0 /\ until' = 0 /\ value' = "none"
             \/ pc' = pc /\ cursor' \in Int /\ until' = until /\ value' = value
      BY <1>15, <2>2, PlaceIntoType DEF PlaceAfterFlush
    <2> QED  BY <1>15, <2>1, <2>3 DEF PlaceAfterFlush, TypeOK, sender, history
  <1>16. ASSUME FlushFails PROVE TypeOK'
    <2>1. staging' \in [Cells -> Data]
      BY <1>16, FlushedType, HalfDoneType DEF FlushFails, TypeOK
    <2>2. clean' \in BOOLEAN
      BY <1>16 DEF FlushFails, TypeOK
    <2>3. /\ Return /\ TransferFails("write")
          /\ UNCHANGED <<manifest, application, verified, sending, vouched, installed, interrupted>>
      BY <1>16 DEF FlushFails
    <2> QED  BY <2>1, <2>2, <2>3, ReturnType, ErrorType DEF TypeOK
  <1>17. ASSUME EndOfFile PROVE TypeOK'
    <2>1. staging' \in [Cells -> Data]
      BY <1>17, FlushedType DEF EndOfFile, Flushes, TypeOK
    <2> QED  BY <1>17, <2>1 DEF EndOfFile, FileEnds, TypeOK, locals, sender, history
  <1>18. ASSUME NEW img \in Images, VerifyMatches(img) PROVE TypeOK'
    BY <1>18 DEF VerifyMatches, TypeOK, flash, sender
  <1>19. ASSUME NEW img \in Images, VerifyMismatch(img) PROVE TypeOK'
    BY <1>19 DEF VerifyMismatch, TypeOK, flash, locals, sender, history
  <1>20. ASSUME EraseManifest PROVE TypeOK'
    BY <1>20 DEF EraseManifest, TypeOK, service, sender, history
  <1>21. ASSUME RecordManifest PROVE TypeOK'
    BY <1>21 DEF RecordManifest, Return, TypeOK, service, sender, history
  <1>22. ASSUME ApplyBegin PROVE TypeOK'
    BY <1>22 DEF ApplyBegin, TypeOK, VerifiedIsVouched, flash, service, sender
  <1>23. ASSUME ApplySector PROVE TypeOK'
    <2>1. cursor + SectorCells \in Int
      BY GeometryAssumption DEF TypeOK
    <2>2. Copied \in [Cells -> Data]
      BY DEF Copied, TypeOK
    <2> QED  BY <1>23, <2>1, <2>2 DEF ApplySector, TypeOK, service, sender, history
  <1>24. ASSUME ApplyReset PROVE TypeOK'
    <2>1. UNCHANGED <<staging, application, manifest, interrupted>> /\ RamLost
      BY <1>24 DEF ApplyReset, flash
    <2> QED  BY <2>1, RamLostType DEF TypeOK
  <1>25. ASSUME PowerCut PROVE TypeOK'
    <2>1. staging' \in [Cells -> Data]
      BY <1>25, FlushedType, HalfDoneType, ErasedType DEF PowerCut, TypeOK, flash
    <2>2. application' \in [Cells -> Data]
      BY <1>25 DEF PowerCut, Copied, HalfCopied, TypeOK, flash, Data
    <2>3. manifest' \in Manifest
      BY <1>25 DEF PowerCut, TypeOK, flash
    <2>4. interrupted' \in BOOLEAN
      BY <1>25 DEF PowerCut, TypeOK
    <2>5. RamLost
      BY <1>25 DEF PowerCut
    <2> QED  BY <2>1, <2>2, <2>3, <2>4, <2>5, RamLostType DEF TypeOK
  <1> QED
    BY <1>1, <1>2, <1>3, <1>4, <1>5, <1>6, <1>7, <1>8, <1>9, <1>10, <1>11, <1>12, <1>13, <1>14,
       <1>15, <1>16, <1>17, <1>18, <1>19, <1>20, <1>21, <1>22, <1>23, <1>24, <1>25
       DEF Next, Begin, Line, Verify, Apply, PlaceFails, EndOfFileFails

\* Every action keeps the bookkeeping of the transfer and of the commands.
LEMMA NextBookkeeping ==
    ASSUME TypeOK, Bookkeeping, VerifiedIsVouched, Next
    PROVE  Bookkeeping'
  <1> USE ManifestTypes
  <1>1. ASSUME Boot PROVE Bookkeeping'
    BY <1>1 DEF Boot, Return, Bookkeeping, NoTransfer, flash, sender
  <1>2. ASSUME NEW size \in BeginSizes, BeginTransfer(size) PROVE Bookkeeping'
    BY <1>2 DEF BeginTransfer, Bookkeeping, flash, sender, history
  <1>3. ASSUME ClearManifest PROVE Bookkeeping'
    BY <1>3 DEF ClearManifest, Return, Bookkeeping, service, sender, history
  <1>4. ASSUME EraseSector PROVE Bookkeeping'
    BY <1>4 DEF EraseSector, Bookkeeping, service, sender
  <1>5. ASSUME TransferReady PROVE Bookkeeping'
    BY <1>5 DEF TransferReady, NoTransfer, Return, Bookkeeping, flash
  <1>6. ASSUME ManifestFails PROVE Bookkeeping'
    BY <1>6 DEF ManifestFails, NewManifest, Return, Bookkeeping, service, sender, history
  <1>7. ASSUME EraseRefused PROVE Bookkeeping'
    BY <1>7 DEF EraseRefused, Return, Bookkeeping, flash, service, sender, history
  <1>8. ASSUME NEW img \in Images, StartFile(img) PROVE Bookkeeping'
    BY <1>8 DEF StartFile, Bookkeeping, flash, service, locals
  <1>9. ASSUME NEW r \in unsent, LineLost(r) PROVE Bookkeeping'
    BY <1>9 DEF LineLost, Bookkeeping, flash, service, locals
  <1>10. ASSUME NEW r \in unsent, LineRefused(r) PROVE Bookkeeping'
    BY <1>10, ErrorType DEF LineRefused, Bookkeeping, flash, locals
  <1>11. ASSUME NEW r \in unsent, LineArrives(r) PROVE Bookkeeping'
    BY <1>11 DEF LineArrives, StartPlacing, Bookkeeping, Data, flash, service, history
  <1>12. ASSUME NEW r \in unsent, NEW place \in Misplaced, LineArrivesElsewhere(r, place)
         PROVE  Bookkeeping'
    BY <1>12 DEF LineArrivesElsewhere, StartPlacing, Bookkeeping, Data, flash, service
  <1>13. ASSUME PlaceRefused PROVE Bookkeeping'
    BY <1>13, ErrorType DEF PlaceRefused, Return, Bookkeeping, flash, history
  <1>14. ASSUME PlaceInPage \/ PlaceAfterFlush PROVE Bookkeeping'
    <2>1. (IF rx.dirty THEN rx.page ELSE BlankPage) \in [0..PageCells-1 -> Data]
      BY BlankPageType DEF TypeOK
    <2>2. cursor \in Cells /\ until \in Int /\ value \in Data /\ pc = "placing"
      BY <1>14 DEF PlaceInPage, PlaceAfterFlush, TypeOK, Bookkeeping
    <2>3. PICK page \in [0..PageCells-1 -> Data] : PlaceInto(page)
      BY <1>14, <2>1, BlankPageType DEF PlaceInPage, PlaceAfterFlush
    <2>4. /\ rx'.complete = rx.complete
          /\ pc' = "idle" \/ (pc' = pc /\ value' = value)
      BY <2>2, <2>3, PlaceIntoType
    <2>5. UNCHANGED <<manifest, receiving, verified, sending, unsent>>
      BY <1>14 DEF PlaceInPage, PlaceAfterFlush, flash, sender
    <2> QED  BY <2>2, <2>4, <2>5 DEF Bookkeeping
  <1>15. ASSUME FlushFails PROVE Bookkeeping'
    BY <1>15, ErrorType DEF FlushFails, Return, Bookkeeping
  <1>16. ASSUME EndOfFile PROVE Bookkeeping'
    BY <1>16 DEF EndOfFile, FileEnds, Bookkeeping, locals, sender, history
  <1>17. ASSUME NEW img \in Images, VerifyMatches(img) PROVE Bookkeeping'
    BY <1>17 DEF VerifyMatches, Bookkeeping, flash, sender
  <1>18. ASSUME NEW img \in Images, VerifyMismatch(img) PROVE Bookkeeping'
    BY <1>18 DEF VerifyMismatch, Bookkeeping, flash, locals, sender, history
  <1>19. ASSUME EraseManifest PROVE Bookkeeping'
    BY <1>19 DEF EraseManifest, Bookkeeping, service, sender, history
  <1>20. ASSUME RecordManifest PROVE Bookkeeping'
    BY <1>20 DEF RecordManifest, NewManifest, Return, Bookkeeping, service, sender, history
  <1>21. ASSUME ApplyBegin PROVE Bookkeeping'
    BY <1>21 DEF ApplyBegin, Bookkeeping, flash, service, sender
  <1>22. ASSUME ApplySector PROVE Bookkeeping'
    BY <1>22 DEF ApplySector, Bookkeeping, service, sender, history
  <1>23. ASSUME RamLost PROVE Bookkeeping'
    BY <1>23 DEF RamLost, NoTransfer, Bookkeeping
  <1> QED
    BY <1>1, <1>2, <1>3, <1>4, <1>5, <1>6, <1>7, <1>8, <1>9, <1>10, <1>11, <1>12, <1>13, <1>14,
       <1>15, <1>16, <1>17, <1>18, <1>19, <1>20, <1>21, <1>22, <1>23
       DEF Next, Begin, Line, Verify, Apply, PlaceFails, EndOfFileFails, ApplyReset, PowerCut

-----------------------------------------------------------------------------
\* Staging is only written by fwbegin and by a transfer, when it is neither
\* verified nor named by a manifest (the order of calls in cmd_begin).
LEMMA StagingWritten ==
    ASSUME TypeOK, Bookkeeping, Next
    PROVE  \/ staging' = staging
           \/ ~ verified' /\ manifest'.header # "written" /\ pc # "apply" /\ pc' # "apply"
  <1>1. CASE EraseSector
    BY <1>1 DEF EraseSector, Bookkeeping, service
  <1>2. CASE PlaceAfterFlush
    <2>1. (IF rx.dirty THEN rx.page ELSE BlankPage) \in [0..PageCells-1 -> Data]
      BY BlankPageType DEF TypeOK
    <2>2. cursor \in Cells /\ until \in Int /\ value \in Data /\ pc = "placing"
      BY <1>2 DEF PlaceAfterFlush, TypeOK, Bookkeeping
    <2>3. pc' # "apply"
      BY <1>2, <2>2, BlankPageType, PlaceIntoType DEF PlaceAfterFlush
    <2> QED  BY <1>2, <2>2, <2>3 DEF PlaceAfterFlush, Bookkeeping
  <1>3. CASE PlaceFails \/ EndOfFileFails
    BY <1>3 DEF PlaceFails, EndOfFileFails, FlushFails, FileEnds, Return, Bookkeeping
  <1>4. CASE EndOfFile
    BY <1>4 DEF EndOfFile, FileEnds, Bookkeeping, locals
  <1>5. CASE PowerCut
    <2>1. ~ verified' /\ pc' = "off"
      BY <1>5 DEF PowerCut, RamLost
    <2>2. \/ staging' = staging
          \/ pc = "erase" /\ manifest' = manifest
          \/ InFlush /\ manifest' = manifest
      BY <1>5 DEF PowerCut, flash
    <2> QED  BY <2>1, <2>2 DEF InFlush, FileEnds, Bookkeeping
  <1>6. CASE Boot \/ \E size \in BeginSizes : BeginTransfer(size)
    BY <1>6 DEF Boot, BeginTransfer, flash
  <1>7. CASE ClearManifest \/ TransferReady \/ ManifestFails \/ EraseRefused
    BY <1>7 DEF ClearManifest, TransferReady, ManifestFails, EraseRefused, flash
  <1>8. CASE \E img \in Images : StartFile(img) \/ VerifyMatches(img) \/ VerifyMismatch(img)
    BY <1>8 DEF StartFile, VerifyMatches, VerifyMismatch, flash
  <1>9. CASE \E r \in unsent : LineLost(r) \/ LineRefused(r) \/ LineArrives(r)
                               \/ \E place \in Misplaced : LineArrivesElsewhere(r, place)
    BY <1>9 DEF LineLost, LineRefused, LineArrives, LineArrivesElsewhere, flash
  <1>10. CASE PlaceRefused \/ PlaceInPage \/ EraseManifest \/ RecordManifest
    BY <1>10 DEF PlaceRefused, PlaceInPage, EraseManifest, RecordManifest, flash
  <1>11. CASE ApplyBegin \/ ApplySector \/ ApplyReset
    BY <1>11 DEF ApplyBegin, ApplySector, ApplyReset, flash
  <1> QED
    BY <1>1, <1>2, <1>3, <1>4, <1>5, <1>6, <1>7, <1>8, <1>9, <1>10, <1>11
       DEF Next, Begin, Line, Verify, Apply

\* A verification stands only while what was verified does.
LEMMA NextVerified ==
    ASSUME TypeOK, Bookkeeping, VerifiedIsVouched, ManifestAgreesWithStaging, Next
    PROVE  VerifiedIsVouched'
  <1>1. CASE ~ verified'
    BY <1>1 DEF VerifiedIsVouched
  <1> SUFFICES ASSUME verified', staging' = staging PROVE VerifiedIsVouched'
    BY <1>1, StagingWritten
  <1>2. CASE verified /\ rx'.size = rx.size /\ vouched' = vouched
    BY <1>2 DEF VerifiedIsVouched, Staged
  <1>3. CASE Boot
    <2>1. ManifestMatches /\ rx'.size = manifest.size /\ vouched' = vouched
      BY <1>3 DEF Boot, NoTransfer
    <2> QED  BY <2>1 DEF ManifestMatches, ManifestAgreesWithStaging, VerifiedIsVouched, Staged
  <1>4. ASSUME NEW img \in Images, VerifyMatches(img) PROVE VerifiedIsVouched'
    BY <1>4 DEF VerifyMatches, VerifiedIsVouched, Staged
  <1>5. CASE \E size \in BeginSizes : BeginTransfer(size)
    BY <1>5 DEF BeginTransfer
  <1>6. CASE \E img \in Images : VerifyMismatch(img)
    BY <1>6 DEF VerifyMismatch
  <1>7. CASE ApplyReset \/ PowerCut
    BY <1>7 DEF ApplyReset, PowerCut, RamLost
  <1>8. CASE ClearManifest \/ ManifestFails \/ EraseRefused \/ EraseManifest
             \/ RecordManifest \/ ApplyBegin \/ ApplySector
    BY <1>2, <1>8 DEF ClearManifest, ManifestFails, EraseRefused, EraseManifest,
                      RecordManifest, ApplyBegin, ApplySector, service, history
  <1>9. CASE EraseSector \/ TransferReady
    BY <1>9 DEF EraseSector, TransferReady, Bookkeeping, service
  <1>10. CASE \E img \in Images : StartFile(img)
    BY <1>2, <1>10 DEF StartFile, service
  <1>11. CASE \E r \in unsent : LineLost(r) \/ LineRefused(r) \/ LineArrives(r)
                                \/ \E place \in Misplaced : LineArrivesElsewhere(r, place)
    BY <1>2, <1>11 DEF LineLost, LineRefused, LineArrives, LineArrivesElsewhere, Bookkeeping,
                       service, history
  <1>12. CASE PlaceRefused \/ PlaceInPage \/ PlaceAfterFlush \/ PlaceFails
              \/ EndOfFile \/ EndOfFileFails
    BY <1>12 DEF PlaceRefused, PlaceInPage, PlaceAfterFlush, PlaceFails, FlushFails, EndOfFile,
                 EndOfFileFails, FileEnds, Bookkeeping
  <1> QED
    BY <1>3, <1>4, <1>5, <1>6, <1>7, <1>8, <1>9, <1>10, <1>11, <1>12
       DEF Next, Begin, Line, Verify, Apply

\* A manifest is written only of what is verified, and erased before staging is.
LEMMA NextManifest ==
    ASSUME TypeOK, Bookkeeping, VerifiedIsVouched, ManifestAgreesWithStaging, Next
    PROVE  ManifestAgreesWithStaging'
  <1>1. CASE manifest'.header # "written"
    BY <1>1 DEF ManifestAgreesWithStaging
  <1> SUFFICES ASSUME manifest'.header = "written", staging' = staging
               PROVE  ManifestAgreesWithStaging'
    BY <1>1, StagingWritten
  <1>2. CASE manifest' = manifest /\ vouched' = vouched
    BY <1>2 DEF ManifestAgreesWithStaging, Staged
  <1>3. CASE pc = "record" /\ manifest' = NewManifest /\ vouched' = vouched
    BY <1>3 DEF NewManifest, Bookkeeping, VerifiedIsVouched, ManifestAgreesWithStaging, Staged
  <1>4. ASSUME NEW img \in Images, VerifyMatches(img) PROVE ManifestAgreesWithStaging'
    <2>1. manifest.size = rx.size /\ manifest' = manifest /\ vouched' = img
      BY <1>4 DEF VerifyMatches, Bookkeeping, flash
    <2>2. Staged(rx.size) = Expected[img]
      BY <1>4 DEF VerifyMatches
    <2> QED  BY <2>1, <2>2 DEF ManifestAgreesWithStaging, Staged
  <1>5. CASE Boot \/ \E size \in BeginSizes : BeginTransfer(size)
    BY <1>2, <1>5 DEF Boot, BeginTransfer, flash, history
  <1>6. CASE ClearManifest \/ EraseManifest
    BY <1>6 DEF ClearManifest, EraseManifest, ErasedManifest
  <1>7. CASE ManifestFails \/ RecordManifest
    BY <1>2, <1>3, <1>7 DEF ManifestFails, RecordManifest, ErasedManifest, TornManifest, history
  <1>8. CASE PowerCut
    <2>1. vouched' = vouched
      BY <1>8 DEF PowerCut, RamLost
    <2>2. manifest' = manifest \/ (pc = "record" /\ manifest' = NewManifest)
      BY <1>8 DEF PowerCut, flash, ErasedManifest, TornManifest
    <2> QED  BY <1>2, <1>3, <2>1, <2>2
  <1>9. CASE EraseSector \/ TransferReady \/ EraseRefused
    BY <1>2, <1>9 DEF EraseSector, TransferReady, EraseRefused, flash, history
  <1>10. CASE \E img \in Images : StartFile(img) \/ VerifyMismatch(img)
    BY <1>2, <1>10 DEF StartFile, VerifyMismatch, flash, history
  <1>11. CASE \E r \in unsent : LineLost(r) \/ LineRefused(r) \/ LineArrives(r)
                                \/ \E place \in Misplaced : LineArrivesElsewhere(r, place)
    BY <1>2, <1>11 DEF LineLost, LineRefused, LineArrives, LineArrivesElsewhere, flash, history
  <1>12. CASE PlaceRefused \/ PlaceInPage \/ PlaceAfterFlush \/ PlaceFails
              \/ EndOfFile \/ EndOfFileFails
    BY <1>2, <1>12 DEF PlaceRefused, PlaceInPage, PlaceAfterFlush, PlaceFails, FlushFails,
                       EndOfFile, EndOfFileFails, flash, history
  <1>13. CASE ApplyBegin \/ ApplySector \/ ApplyReset
    BY <1>2, <1>13 DEF ApplyBegin, ApplySector, ApplyReset, RamLost, flash, history
  <1> QED
    BY <1>4, <1>5, <1>6, <1>7, <1>8, <1>9, <1>10, <1>11, <1>12, <1>13
       DEF Next, Begin, Line, Verify, Apply

\* A sector copied is a sector of what was verified, and staging keeps still
\* while it is copied (firmware_apply's loop).
LEMMA NextCopy ==
    ASSUME TypeOK, Bookkeeping, CopyInProgress, Next
    PROVE  CopyInProgress'
  <1>0. SectorCells \in Nat
    BY GeometryAssumption
  <1>1. CASE pc' \notin {"idle", "apply"} \/ Return
    BY <1>1 DEF CopyInProgress, Return
  <1>2. CASE ApplyBegin
    <2>1. /\ pc = "idle" /\ cursor' = cursor /\ pc' = "apply" /\ cursor = 0
          /\ installed' = vouched /\ vouched' = vouched
      BY <1>2 DEF ApplyBegin, CopyInProgress
    <2> QED  BY <2>1 DEF CopyInProgress, Cells
  <1>3. CASE ApplySector
    <2>1. /\ pc = "apply" /\ pc' = "apply" /\ cursor' = cursor + SectorCells
          /\ staging' = staging /\ installed' = installed /\ vouched' = vouched
          /\ application' = Copied
      BY <1>3 DEF ApplySector, history
    <2>2. /\ installed = vouched /\ cursor \in Nat
          /\ \A c \in Cells : c < cursor => application[c] = staging[c]
      BY <2>1 DEF CopyInProgress
    <2>3. ASSUME NEW c \in Cells, c < cursor + SectorCells
          PROVE  Copied[c] = staging[c]
      <3>1. CASE c < cursor
        BY <2>2, <3>1, GeometryAssumption DEF Copied, Sector, Cells
      <3>2. CASE c >= cursor
        BY <2>3, <3>2 DEF Copied, Sector
      <3> QED  BY <2>2, <3>1, <3>2, GeometryAssumption DEF Cells
    <2> QED  BY <1>0, <2>1, <2>2, <2>3 DEF CopyInProgress
  <1>4. CASE pc = "idle" /\ pc' = "idle" /\ cursor' = cursor
    BY <1>4 DEF CopyInProgress
  <1>5. CASE Boot \/ TransferReady \/ EraseRefused \/ ManifestFails \/ RecordManifest
             \/ PlaceRefused \/ PlaceFails \/ EndOfFileFails
    BY <1>1, <1>5 DEF Boot, TransferReady, EraseRefused, ManifestFails, RecordManifest,
                      PlaceRefused, PlaceFails, EndOfFileFails, FlushFails
  <1>6. CASE ClearManifest \/ EraseManifest \/ EraseSector \/ ApplyReset \/ PowerCut
    BY <1>1, <1>6 DEF ClearManifest, EraseManifest, EraseSector, ApplyReset, PowerCut, RamLost
  <1>7. CASE \/ \E size \in BeginSizes : BeginTransfer(size)
             \/ \E img \in Images : VerifyMatches(img)
             \/ \E r \in unsent : LineArrives(r) \/ \E place \in Misplaced :
                                                      LineArrivesElsewhere(r, place)
    BY <1>1, <1>7 DEF BeginTransfer, VerifyMatches, LineArrives, LineArrivesElsewhere,
                      StartPlacing
  <1>8. CASE \/ \E img \in Images : StartFile(img) \/ VerifyMismatch(img)
             \/ \E r \in unsent : LineLost(r) \/ LineRefused(r)
             \/ EndOfFile
    BY <1>4, <1>8 DEF StartFile, VerifyMismatch, LineLost, LineRefused, EndOfFile, FileEnds,
                      locals
  <1>9. CASE PlaceInPage \/ PlaceAfterFlush
    BY <1>1, <1>9 DEF PlaceInPage, PlaceAfterFlush, PlaceInto
  <1> QED
    BY <1>2, <1>3, <1>5, <1>6, <1>7, <1>8, <1>9 DEF Next, Begin, Line, Verify, Apply

\* The application region changes only while it is copied over, and the copy
\* ends with all of it done (firmware_apply).
LEMMA NextApplication ==
    ASSUME TypeOK, Bookkeeping, CopyInProgress, VerifiedIsVouched, ApplicationIsWhole, Next
    PROVE  ApplicationIsWhole'
  <1>1. CASE /\ pc # "apply"
             /\ UNCHANGED <<application, installed, interrupted>>
    BY <1>1 DEF ApplicationIsWhole, Holds
  <1>2. CASE Boot
    BY <1>2 DEF Boot, ApplicationIsWhole, Holds, flash
  <1>3. CASE ApplyBegin \/ ApplySector
    BY <1>3 DEF ApplyBegin, ApplySector, ApplicationIsWhole
  <1>4. CASE ApplyReset
    <2>1. /\ cursor \in Nat /\ installed = vouched /\ vouched \in Images
          /\ Staged(rx.size) = Expected[vouched]
          /\ \A c \in Cells : c < cursor => application[c] = staging[c]
      BY <1>4 DEF ApplyReset, CopyInProgress, Bookkeeping, VerifiedIsVouched
    <2>2. 0..rx.size-1 = 0..Extent[vouched]-1
      <3>1. DOMAIN Staged(rx.size) = 0..rx.size-1
        BY DEF Staged
      <3>2. DOMAIN Expected[vouched] = 0..Extent[vouched]-1
        BY <2>1 DEF Expected
      <3> QED  BY <2>1, <3>1, <3>2
    <2>3. ASSUME NEW c \in 0..rx.size-1
          PROVE  c \in Cells /\ c < cursor
      BY <1>4, <2>1, GeometryAssumption DEF ApplyReset, TypeOK, Cells
    <2>4. [c \in 0..Extent[vouched]-1 |-> application[c]] = Staged(rx.size)
      BY <2>1, <2>2, <2>3 DEF Staged
    <2>5. application' = application /\ installed' = vouched
      BY <1>4, <2>1 DEF ApplyReset, RamLost, flash
    <2> QED  BY <2>1, <2>4, <2>5 DEF ApplicationIsWhole, Holds
  <1>5. CASE PowerCut
    <2>1. CASE pc = "apply"
      BY <1>5, <2>1 DEF PowerCut, ApplicationIsWhole, TypeOK
    <2>2. CASE pc # "apply"
      BY <1>1, <1>5, <2>2 DEF PowerCut, RamLost, flash, TypeOK
    <2> QED  BY <2>1, <2>2
  <1>6. CASE \/ \E size \in BeginSizes : BeginTransfer(size)
             \/ ClearManifest \/ EraseSector \/ TransferReady \/ EraseRefused \/ ManifestFails
    BY <1>1, <1>6 DEF BeginTransfer, ClearManifest, EraseSector, TransferReady, EraseRefused,
                      ManifestFails, flash, history
  <1>7. CASE \/ \E img \in Images : StartFile(img) \/ VerifyMatches(img) \/ VerifyMismatch(img)
             \/ EraseManifest \/ RecordManifest
    BY <1>1, <1>7 DEF StartFile, VerifyMatches, VerifyMismatch, EraseManifest, RecordManifest,
                      flash, locals, history
  <1>8. CASE \E r \in unsent : LineLost(r) \/ LineRefused(r) \/ LineArrives(r)
                               \/ \E place \in Misplaced : LineArrivesElsewhere(r, place)
    BY <1>1, <1>8 DEF LineLost, LineRefused, LineArrives, LineArrivesElsewhere, flash, history
  <1>9. CASE PlaceRefused \/ PlaceInPage \/ PlaceAfterFlush \/ PlaceFails \/ EndOfFile
             \/ EndOfFileFails
    BY <1>1, <1>9 DEF PlaceRefused, PlaceInPage, PlaceAfterFlush, PlaceFails, FlushFails,
                      EndOfFile, EndOfFileFails, FileEnds, flash, history
  <1> QED
    BY <1>2, <1>3, <1>4, <1>5, <1>6, <1>7, <1>8, <1>9 DEF Next, Begin, Line, Verify, Apply

\* A blank staging region on a board that runs the image it was built with.
LEMMA InitIInv == Init => IInv
  <1> SUFFICES ASSUME Init PROVE IInv
    OBVIOUS
  <1>1. Factory \in Images /\ Extent[Factory] \in 1..Capacity /\ Capacity \in Nat \ {0}
    BY ImagesAssumption, ExtentAssumption, GeometryAssumption
  <1>2. DOMAIN Expected[Factory] = 0..Extent[Factory]-1
    BY <1>1 DEF Expected
  <1>3. 0..Extent[Factory]-1 \subseteq Cells
    BY <1>1 DEF Cells
  <1>4. \A c \in 0..Extent[Factory]-1 : Expected[Factory][c] \in Data
    BY <1>1 DEF Expected, Data
  <1>5. application = [c \in Cells |-> IF c \in 0..Extent[Factory]-1
                                       THEN Expected[Factory][c] ELSE "blank"]
    BY <1>2 DEF Init
  <1>6. application \in [Cells -> Data]
    BY <1>4, <1>5 DEF Data
  <1>7. Holds(Factory)
    <2>1. [c \in 0..Extent[Factory]-1 |-> application[c]]
            = [c \in 0..Extent[Factory]-1 |-> Expected[Factory][c]]
      BY <1>3, <1>5
    <2> QED  BY <1>1, <2>1 DEF Holds, Expected
  <1>8. rx = NoTransfer /\ NoTransfer \in Transfer
    <2>1. 0 \in Cells /\ 0 \in 0..Capacity
      BY <1>1 DEF Cells
    <2> QED  BY <2>1, BlankPageType DEF Init, NoTransfer
  <1>9. TypeOK
    <2>1. staging \in [Cells -> Data] /\ manifest \in Manifest
      BY ManifestTypes DEF Init, Data
    <2>2. rx \in Transfer
      BY <1>8
    <2>3. vouched \in Images \cup {"none"} /\ installed \in Images
      BY <1>1 DEF Init
    <2>4. /\ receiving = FALSE /\ verified = FALSE /\ interrupted = FALSE /\ clean = FALSE
          /\ pc = "off" /\ cursor = 0 /\ until = 0 /\ value = "none"
          /\ sending = "none" /\ unsent = {}
      BY DEF Init
    <2>5. value \in Data \cup {"none"} /\ sending \in Images \cup {"none"}
      BY <2>4
    <2>6. /\ receiving \in BOOLEAN /\ (receiving => rx.error = "ok") /\ verified \in BOOLEAN
          /\ interrupted \in BOOLEAN /\ clean \in BOOLEAN
      BY <2>4, Zenon
    <2>7. /\ pc \in {"off", "idle", "clear", "erase", "placing", "record_erase",
                     "record", "apply"}
          /\ cursor \in Int /\ until \in Int
      BY <2>4
    <2>8. unsent \subseteq Cells \X Cells
      BY <2>4
    <2> QED  BY <1>6, <2>1, <2>2, <2>3, <2>5, <2>6, <2>7, <2>8, Zenon DEF TypeOK
  <1>10. Bookkeeping /\ CopyInProgress /\ VerifiedIsVouched /\ ManifestAgreesWithStaging
    BY DEF Init, Bookkeeping, CopyInProgress, VerifiedIsVouched, ManifestAgreesWithStaging,
           ErasedManifest
  <1>11. ApplicationIsWhole
    BY <1>7 DEF Init, ApplicationIsWhole
  <1> QED  BY <1>9, <1>10, <1>11 DEF IInv

\* The invariant holds in every reachable state.
THEOREM Inductive == Spec => []IInv
  <1>1. IInv /\ Next => IInv'
    BY NextTypeOK, NextBookkeeping, NextVerified, NextManifest, NextCopy, NextApplication
       DEF IInv
  <1>2. IInv /\ UNCHANGED vars => IInv'
    <2> SUFFICES ASSUME IInv, UNCHANGED vars PROVE IInv'
      OBVIOUS
    <2>1. TypeOK' /\ Bookkeeping' /\ CopyInProgress'
      BY DEF IInv, TypeOK, Bookkeeping, CopyInProgress, vars, flash, service, locals, sender,
             history
    <2>2. VerifiedIsVouched' /\ ManifestAgreesWithStaging' /\ ApplicationIsWhole'
      BY DEF IInv, VerifiedIsVouched, ManifestAgreesWithStaging, ApplicationIsWhole, Holds,
             Staged, vars, flash, service, locals, sender, history
    <2> QED  BY <2>1, <2>2 DEF IInv
  <1> QED  BY <1>1, <1>2, InitIInv, PTL DEF Spec
-----------------------------------------------------------------------------
(***************************************************************************)
(* A transfer of one file onto erased staging.                             *)
(***************************************************************************)
\* What staging will hold once the page being filled is written.
Image == IF rx.dirty THEN FlushedStaging ELSE staging

\* The cells of the lines still to come, and of the line being placed.
StillUnsent == {c \in Cells : \E r \in unsent : r[1] <= c /\ c <= r[2]}
BeingPlaced == {c \in Cells : pc = "placing" /\ cursor <= c /\ c <= until}

\* Before the file starts staging is blank; from then on it holds what arrived
\* of the file, and nothing else.
TransferGoesOn ==
    /\ sending = "none" => ~ rx.dirty
    /\ \A c \in Cells :
          /\ Image[c] \in {sending, "blank"}
          /\ Image[c] # "blank" => c \in Covered[sending] /\ c < rx.size
    /\ sending # "none" => Covered[sending] \subseteq
                             {c \in Cells : Image[c] = sending} \cup StillUnsent \cup BeingPlaced
    /\ rx.size # 0 => rx.size - 1 \in Cells /\ Image[rx.size - 1] # "blank"
    /\ pc = "placing" => /\ value = sending /\ cursor <= until
                         /\ \A c \in Cells : cursor <= c /\ c <= until => c \in Covered[sending]

\* The sectors fwbegin has been over are blank.
ErasedSoFar ==
    /\ pc = "clear" => cursor = 0
    /\ pc = "erase" => cursor \in Nat /\ \A c \in Cells : c < cursor => staging[c] = "blank"

CleanInv == /\ clean => pc # "off"
            /\ unsent # {} => unsent \subseteq RecordsOf[sending]
            /\ ErasedSoFar
            /\ clean /\ receiving => TransferGoesOn
            /\ CleanTransferIsExact

\* A page laid over staging, which programming it leaves there.
Laid(region, page, offset) ==
    [c \in Cells |-> IF c \in Page(offset) THEN Programmed(region[c], page[c - offset])
                                          ELSE region[c]]

LEMMA FlushedIsLaid == FlushedStaging = Laid(staging, rx.page, rx.offset)
  BY DEF FlushedStaging, Laid

LEMMA Programming ==
    ASSUME NEW img \in Images, NEW old, NEW new
    PROVE  /\ Programmed(old, "blank") = old
           /\ old \in {img, "blank"} => Programmed(old, img) = img
           /\ Programmed(old, new) \in {img, "blank"} => old \in {img, "blank"}
  BY ImagesAssumption DEF Programmed

LEMMA PageIndex ==
    ASSUME NEW k \in Cells
    PROVE  /\ k % PageCells \in 0..PageCells-1 /\ PageOf(k) \in Cells
           /\ k \in Page(PageOf(k)) /\ k - PageOf(k) = k % PageCells
           /\ \A c \in Page(PageOf(k)) : /\ c - PageOf(k) \in 0..PageCells-1
                                         /\ c # k => c - PageOf(k) # k % PageCells
  <1>1. PageCells \in Nat /\ PageCells > 0 /\ k \in Nat
    BY GeometryAssumption DEF Cells
  <1>2. k % PageCells \in 0..PageCells-1
    BY <1>1
  <1>3. PageOf(k) \in Cells
    BY PageOfType
  <1>4. k \in Page(PageOf(k)) /\ k - PageOf(k) = k % PageCells
    BY <1>1, <1>2 DEF PageOf, Page
  <1>5. ASSUME NEW c \in Page(PageOf(k))
        PROVE  c - PageOf(k) \in 0..PageCells-1 /\ (c # k => c - PageOf(k) # k % PageCells)
    <2>1. c \in Int /\ PageOf(k) \in Int /\ PageOf(k) <= c /\ c < PageOf(k) + PageCells
      BY <1>3 DEF Page, Cells
    <2> QED  BY <1>1, <1>4, <2>1
  <1> QED  BY <1>2, <1>3, <1>4, <1>5

\* A byte placed into the page being filled, and into a page just begun, is one
\* more byte of what staging will hold.
OneMore(s, page, k, img) ==
    Laid(s, [page EXCEPT ![k % PageCells] = img], PageOf(k))
      = [Laid(s, page, PageOf(k)) EXCEPT ![k] = img]

LEMMA PlacedOnPage ==
    ASSUME NEW s \in [Cells -> Data], NEW page \in [0..PageCells-1 -> Data],
           NEW k \in Cells, NEW img \in Images,
           Laid(s, page, PageOf(k))[k] \in {img, "blank"}
    PROVE  OneMore(s, page, k, img)
  <1> DEFINE o == PageOf(k)
             i == k % PageCells
             new == [page EXCEPT ![i] = img]
  <1>1. /\ i \in 0..PageCells-1 /\ k \in Page(o) /\ k - o = i
        /\ \A c \in Page(o) : c - o \in 0..PageCells-1 /\ (c # k => c - o # i)
    BY PageIndex
  <1>2. new[i] = img /\ \A j \in 0..PageCells-1 : j # i => new[j] = page[j]
    BY <1>1
  <1> HIDE DEF o, i, new
  <1>3. ASSUME NEW c \in Cells
        PROVE  Laid(s, new, o)[c] = [Laid(s, page, o) EXCEPT ![k] = img][c]
    <2>1. CASE c = k
      <3>1. Laid(s, new, o)[k] = Programmed(s[k], img) /\ Laid(s, page, o)[k] \in {img, "blank"}
            /\ Laid(s, page, o)[k] = Programmed(s[k], page[i])
        BY <1>1, <1>2 DEF Laid, o
      <3>2. Programmed(s[k], img) = img
        BY <3>1, Programming
      <3> QED  BY <2>1, <3>1, <3>2 DEF Laid
    <2>2. CASE c # k
      <3>1. [Laid(s, page, o) EXCEPT ![k] = img][c] = Laid(s, page, o)[c]
        BY <2>2 DEF Laid
      <3>2. c \in Page(o) => new[c - o] = page[c - o]
        BY <1>1, <1>2, <2>2
      <3> QED  BY <3>1, <3>2 DEF Laid
    <2> QED  BY <2>1, <2>2
  <1>4. Laid(s, new, o) = [Laid(s, page, o) EXCEPT ![k] = img]
    BY <1>3 DEF Laid
  <1> QED  BY <1>4 DEF o, i, new, OneMore

LEMMA PlacedOnBlank ==
    ASSUME NEW s \in [Cells -> Data], NEW k \in Cells, NEW img \in Images,
           s[k] \in {img, "blank"}
    PROVE  Laid(s, [BlankPage EXCEPT ![k % PageCells] = img], PageOf(k)) = [s EXCEPT ![k] = img]
  <1>1. BlankPage \in [0..PageCells-1 -> Data]
    BY BlankPageType
  <1>2. Laid(s, BlankPage, PageOf(k)) = s
    <2>1. ASSUME NEW c \in Cells PROVE Laid(s, BlankPage, PageOf(k))[c] = s[c]
      <3>1. c \in Page(PageOf(k)) => BlankPage[c - PageOf(k)] = "blank"
        BY PageIndex DEF BlankPage
      <3>2. Programmed(s[c], "blank") = s[c]
        BY Programming
      <3>3. Laid(s, BlankPage, PageOf(k))[c] = IF c \in Page(PageOf(k))
                                               THEN Programmed(s[c], BlankPage[c - PageOf(k)])
                                               ELSE s[c]
        BY DEF Laid
      <3> QED  BY <3>1, <3>2, <3>3, Zenon
    <2> DEFINE t == Laid(s, BlankPage, PageOf(k))
    <2>2. t = [c \in Cells |-> t[c]]
      BY Zenon DEF Laid
    <2>3. \A c \in Cells : t[c] = s[c]
      BY <2>1
    <2> HIDE DEF t
    <2>4. t = s
      BY <2>2, <2>3
    <2> QED  BY <2>4 DEF t
  <1>3. Laid(s, BlankPage, PageOf(k))[k] \in {img, "blank"}
    BY <1>2, Zenon
  <1>4. OneMore(s, BlankPage, k, img)
    BY <1>1, <1>3, PlacedOnPage
  <1> QED  BY <1>2, <1>4, Zenon DEF OneMore

LEMMA ImageType == ASSUME TypeOK PROVE Image \in [Cells -> Data]
  BY FlushedType DEF Image, TypeOK

\* place_byte, whichever page the byte falls in.
LEMMA PlacedImage ==
    ASSUME TypeOK, pc = "placing", sending \in Images, value = sending, until \in Int,
           \A c \in Cells : Image[c] \in {sending, "blank"},
           PlaceInPage \/ PlaceAfterFlush
    PROVE  /\ cursor \in Cells
           /\ Image' = [Image EXCEPT ![cursor] = sending]
           /\ rx'.dirty /\ rx'.complete = rx.complete
           /\ rx'.size = IF cursor >= rx.size THEN cursor + 1 ELSE rx.size
  <1> DEFINE page == IF PlaceInPage /\ rx.dirty THEN rx.page ELSE BlankPage
  <1>1. cursor \in Cells /\ PlaceInto(page)
    BY DEF PlaceInPage, PlaceAfterFlush
  <1>2. page \in [0..PageCells-1 -> Data] /\ rx \in Transfer
    BY BlankPageType DEF TypeOK
  <1> HIDE DEF page
  <1> DEFINE new == [page EXCEPT ![cursor % PageCells] = sending]
  <1>3. /\ rx'.page = new /\ rx'.offset = PageOf(cursor) /\ rx'.dirty
        /\ rx'.complete = rx.complete
        /\ rx'.size = IF cursor >= rx.size THEN cursor + 1 ELSE rx.size
    BY <1>1, <1>2 DEF PlaceInto
  <1>4. Image' = Laid(staging', new, PageOf(cursor))
    <2>1. Image' = Laid(staging', rx'.page, rx'.offset)
      BY <1>3 DEF Image, FlushedStaging, Laid, Page
    <2> QED  BY <1>3, <2>1, Zenon
  <1> HIDE DEF new
  <1>5. CASE PlaceInPage /\ rx.dirty
    <2>1. staging' = staging /\ rx.offset = PageOf(cursor) /\ page = rx.page
      BY <1>5 DEF PlaceInPage, MovesPage, flash, page
    <2>2. Image = Laid(staging, page, PageOf(cursor))
      BY <1>5, <2>1, FlushedIsLaid DEF Image
    <2>3. OneMore(staging, page, cursor, sending)
      BY <1>1, <1>2, <2>2, PlacedOnPage DEF TypeOK
    <2>4. Image' = [Image EXCEPT ![cursor] = sending]
      BY <1>4, <2>1, <2>2, <2>3, Zenon DEF OneMore, new
    <2> QED  BY <1>1, <1>3, <2>4
  <1>6. CASE ~ (PlaceInPage /\ rx.dirty)
    <2>1. staging' = Image /\ page = BlankPage
      BY <1>6 DEF PlaceInPage, PlaceAfterFlush, MovesPage, Flushes, Image, flash, page
    <2>2. Image[cursor] \in {sending, "blank"}
      BY <1>1
    <2>3. Laid(Image, [BlankPage EXCEPT ![cursor % PageCells] = sending], PageOf(cursor))
            = [Image EXCEPT ![cursor] = sending]
      BY <1>1, <2>2, ImageType, PlacedOnBlank
    <2>4. Image' = [Image EXCEPT ![cursor] = sending]
      BY <1>4, <2>1, <2>3, Zenon DEF new
    <2> QED  BY <1>1, <1>3, <2>4
  <1> QED  BY <1>5, <1>6

LEMMA PlaceGoesOn ==
    ASSUME TypeOK, Bookkeeping, TransferGoesOn, PlaceInPage \/ PlaceAfterFlush
    PROVE  TransferGoesOn'
  <1>1. /\ pc = "placing" /\ value = sending /\ sending \in Images /\ until \in Int
        /\ cursor \in Int /\ sending' = sending /\ unsent' = unsent /\ sending # "none"
    <2>1. pc = "placing" /\ sending' = sending /\ unsent' = unsent
      BY DEF PlaceInPage, PlaceAfterFlush, sender
    <2>2. value = sending /\ value \in Data
      BY <2>1 DEF TransferGoesOn, Bookkeeping
    <2>3. sending \in Images /\ sending # "none"
      BY <2>2, ImagesAssumption DEF TypeOK, Data
    <2> QED  BY <2>1, <2>2, <2>3 DEF TypeOK
  <1>2. \A c \in Cells : /\ Image[c] \in {sending, "blank"}
                         /\ Image[c] # "blank" => c \in Covered[sending] /\ c < rx.size
    BY DEF TransferGoesOn
  <1>3. /\ cursor \in Cells
        /\ Image' = [Image EXCEPT ![cursor] = sending]
        /\ rx'.dirty
        /\ rx'.size = IF cursor >= rx.size THEN cursor + 1 ELSE rx.size
    BY <1>1, <1>2, PlacedImage
  <1>4. Image'[cursor] = sending /\ \A c \in Cells : c # cursor => Image'[c] = Image[c]
    BY <1>3, ImageType
  <1>5. cursor <= until /\ \A c \in Cells : cursor <= c /\ c <= until => c \in Covered[sending]
    BY <1>1 DEF TransferGoesOn
  <1>6. rx.size \in Nat /\ rx'.size \in Nat /\ cursor \in Nat /\ \A c \in Cells : c \in Nat
    BY <1>3, GeometryAssumption DEF TypeOK, Cells
  <1>7. \/ cursor = until /\ pc' # "placing"
        \/ cursor # until /\ pc' = "placing" /\ cursor' = cursor + 1 /\ until' = until
              /\ value' = value
    BY <1>1 DEF PlaceInPage, PlaceAfterFlush, PlaceInto, Return
  <1>8. ASSUME NEW c \in Cells
        PROVE  /\ Image'[c] \in {sending, "blank"}
               /\ Image'[c] # "blank" => c \in Covered[sending] /\ c < rx'.size
    <2>1. CASE c = cursor
      BY <1>3, <1>4, <1>5, <1>6, <2>1
    <2>2. CASE c # cursor
      BY <1>2, <1>3, <1>4, <1>6, <2>2
    <2> QED  BY <2>1, <2>2
  <1>9. ASSUME NEW c \in Covered[sending]
        PROVE  c \in Cells /\ (Image'[c] = sending \/ c \in StillUnsent \/ c \in BeingPlaced')
    <2>1. c \in Cells /\ (Image[c] = sending \/ c \in StillUnsent \/ c \in BeingPlaced)
      BY <1>1 DEF TransferGoesOn, Covered
    <2>2. CASE c \in BeingPlaced
      <3>1. c >= cursor /\ c <= until /\ c \in Nat
        BY <1>6, <2>1, <2>2 DEF BeingPlaced
      <3>2. CASE c = cursor
        BY <1>4, <2>1, <3>2
      <3>3. CASE c # cursor
        <4>1. cursor # until /\ cursor + 1 <= c
          BY <1>1, <1>6, <3>1, <3>3
        <4> QED  BY <1>7, <2>1, <3>1, <4>1 DEF BeingPlaced
      <3> QED  BY <3>2, <3>3
    <2>3. CASE Image[c] = sending
      BY <1>4, <2>1, <2>3
    <2> QED  BY <2>1, <2>2, <2>3
  <1>10. rx'.size # 0 => rx'.size - 1 \in Cells /\ Image'[rx'.size - 1] # "blank"
    <2>1. sending # "blank"
      BY <1>1, ImagesAssumption
    <2>2. CASE cursor >= rx.size
      <3>1. rx'.size - 1 = cursor
        BY <1>3, <1>6, <2>2
      <3> QED  BY <1>3, <1>4, <2>1, <3>1
    <2>3. CASE ~ (cursor >= rx.size)
      <3>1. rx'.size = rx.size /\ rx.size # 0
        BY <1>3, <1>6, <2>3
      <3>2. rx.size - 1 \in Cells /\ Image[rx.size - 1] # "blank"
        BY <3>1 DEF TransferGoesOn
      <3> QED  BY <1>4, <2>1, <3>1, <3>2
    <2> QED  BY <2>2, <2>3
  <1>11. pc' = "placing" => /\ value' = sending /\ cursor' <= until'
                            /\ \A c \in Cells : cursor' <= c /\ c <= until' => c \in Covered[sending]
    <2>1. cursor # until => cursor + 1 <= until
      BY <1>1, <1>5
    <2>2. \A c \in Cells : cursor + 1 <= c => cursor <= c
      BY <1>6
    <2> QED  BY <1>1, <1>5, <1>7, <2>1, <2>2
  <1>12. StillUnsent' = StillUnsent
    BY <1>1 DEF StillUnsent
  <1> HIDE DEF StillUnsent, BeingPlaced, Image
  <1>13. Covered[sending] \subseteq
            {c \in Cells : Image'[c] = sending} \cup StillUnsent \cup BeingPlaced'
    BY <1>9
  <1> QED  BY <1>1, <1>3, <1>8, <1>10, <1>11, <1>12, <1>13 DEF TransferGoesOn

\* A line taken off the wire is the line being placed.
LEMMA ArrivalGoesOn ==
    ASSUME TypeOK, Bookkeeping, TransferGoesOn, unsent \subseteq RecordsOf[sending],
           NEW r \in unsent, LineArrives(r)
    PROVE  TransferGoesOn'
  <1>1. /\ pc = "idle" /\ pc' = "placing" /\ cursor' = r[1] /\ until' = r[2]
        /\ value' = sending /\ unsent' = unsent \ {r} /\ sending' = sending
        /\ UNCHANGED <<rx, staging>>
    BY DEF LineArrives, StartPlacing, flash, service
  <1>2. sending \in Images /\ r \in RecordsOf[sending]
    BY DEF Bookkeeping
  <1>3. r[1] \in Cells /\ r[2] \in Cells /\ r[1] <= r[2]
    BY <1>2, ExtentAssumption, ImagesAssumption
  <1>4. \A c \in Cells : r[1] <= c /\ c <= r[2] => c \in Covered[sending] /\ c \in BeingPlaced'
    BY <1>1, <1>2 DEF Covered, BeingPlaced
  <1>5. StillUnsent \subseteq StillUnsent' \cup BeingPlaced'
    BY <1>1, <1>4 DEF StillUnsent
  <1>6. BeingPlaced = {}
    BY <1>1 DEF BeingPlaced
  <1>7. Image' = Image
    BY <1>1 DEF Image, FlushedStaging, Page
  <1> HIDE DEF StillUnsent, BeingPlaced, Image
  <1>8. Covered[sending] \subseteq
           {c \in Cells : Image[c] = sending} \cup StillUnsent' \cup BeingPlaced'
    BY <1>2, <1>5, <1>6, ImagesAssumption DEF TransferGoesOn
  <1> QED  BY <1>1, <1>3, <1>4, <1>7, <1>8 DEF TransferGoesOn

\* A file started while nothing has come is all still to come.
LEMMA FileGoesOn ==
    ASSUME TypeOK, TransferGoesOn, sending = "none", NEW img \in Images, StartFile(img)
    PROVE  TransferGoesOn'
  <1>1. /\ pc = "idle" /\ sending' = img /\ unsent' = RecordsOf[img]
        /\ UNCHANGED <<rx, staging, pc>>
    BY DEF StartFile, flash, service, locals
  <1>2. \A c \in Cells : Image[c] = "blank"
    BY ImageType, ImagesAssumption DEF TransferGoesOn, Data
  <1>3. rx.size = 0
    BY <1>2 DEF TransferGoesOn
  <1>4. Image' = Image
    BY <1>1 DEF Image, FlushedStaging, Page
  <1>5. Covered[img] \subseteq StillUnsent'
    BY <1>1 DEF Covered, StillUnsent
  <1>6. img # "none"
    BY ImagesAssumption
  <1> HIDE DEF StillUnsent, BeingPlaced, Image
  <1> QED  BY <1>1, <1>2, <1>3, <1>4, <1>5, <1>6 DEF TransferGoesOn

\* A transfer that starts on a region fwbegin went over from end to end.
LEMMA ReadyGoesOn ==
    ASSUME TypeOK, ErasedSoFar, TransferReady, cursor = Capacity
    PROVE  TransferGoesOn'
  <1>1. /\ pc = "erase" /\ pc' = "idle" /\ rx' = NoTransfer /\ sending' = "none"
        /\ staging' = staging
    BY DEF TransferReady, Return, flash
  <1>2. ~ rx'.dirty /\ rx'.size = 0
    BY <1>1 DEF NoTransfer
  <1>3. \A c \in Cells : c < Capacity
    BY GeometryAssumption DEF Cells
  <1>4. \A c \in Cells : staging[c] = "blank"
    BY <1>1, <1>3 DEF ErasedSoFar
  <1>5. Image' = staging
    BY <1>1, <1>2 DEF Image
  <1> HIDE DEF StillUnsent, BeingPlaced, Image
  <1> QED  BY <1>1, <1>2, <1>4, <1>5 DEF TransferGoesOn

\* The file's end: everything is there, and nothing else is.
LEMMA EndIsExact ==
    ASSUME TypeOK, Bookkeeping, TransferGoesOn, EndOfFile
    PROVE  Staged(rx.size)' = Expected[sending]
  <1>1. /\ pc = "idle" /\ sending \in Images /\ sending # "none" /\ unsent = {}
    BY ImagesAssumption DEF EndOfFile, FileEnds, TypeOK
  <1>2. staging' = Image
    BY DEF EndOfFile, Flushes, Image
  <1>3. StillUnsent = {} /\ BeingPlaced = {}
    BY <1>1 DEF StillUnsent, BeingPlaced
  <1>4. rx'.size = rx.size
    BY DEF EndOfFile, TypeOK
  <1> HIDE DEF StillUnsent, BeingPlaced, Image
  <1>5. \A c \in Cells : /\ Image[c] \in {sending, "blank"}
                         /\ Image[c] # "blank" => c \in Covered[sending] /\ c < rx.size
                         /\ c \in Covered[sending] => Image[c] = sending
    BY <1>1, <1>3 DEF TransferGoesOn
  <1>6. /\ Extent[sending] \in 1..Capacity /\ Extent[sending] - 1 \in Covered[sending]
        /\ \A c \in Covered[sending] : c < Extent[sending]
    BY <1>1, ExtentAssumption
  <1>7. Capacity \in Nat /\ rx.size \in Nat /\ rx.size <= Capacity
    BY GeometryAssumption DEF TypeOK
  <1>8. sending # "blank" /\ Covered[sending] \subseteq Cells
    BY <1>1, ImagesAssumption DEF Covered
  <1>9. Extent[sending] - 1 < rx.size
    BY <1>5, <1>6, <1>8
  <1>10. rx.size - 1 < Extent[sending]
    <2>1. rx.size # 0
      BY <1>6, <1>7, <1>9
    <2>2. rx.size - 1 \in Cells /\ Image[rx.size - 1] # "blank"
      BY <2>1 DEF TransferGoesOn
    <2> QED  BY <1>5, <1>6, <2>2
  <1>11. rx.size = Extent[sending]
    BY <1>6, <1>7, <1>9, <1>10
  <1>12. Expected[sending] = [c \in 0..Extent[sending]-1 |->
                                IF c \in Covered[sending] THEN sending ELSE "blank"]
    BY <1>1 DEF Expected
  <1>13. Staged(rx.size)' = [c \in 0..rx.size-1 |-> Image[c]]
    BY <1>2, <1>4 DEF Staged
  <1>14. ASSUME NEW c \in 0..rx.size-1
         PROVE  Image[c] = IF c \in Covered[sending] THEN sending ELSE "blank"
    <2>1. c \in Cells
      BY <1>7 DEF Cells
    <2> QED  BY <1>5, <2>1
  <1> QED  BY <1>11, <1>12, <1>13, <1>14

\* The commands and handlers that leave the transfer and staging alone.
Elsewhere ==
    \/ \E size \in BeginSizes : BeginTransfer(size)
    \/ ClearManifest \/ ManifestFails \/ EraseRefused
    \/ \E img \in Images : VerifyMatches(img) \/ VerifyMismatch(img)
    \/ EraseManifest \/ RecordManifest \/ ApplyBegin \/ ApplySector

LEMMA ElsewhereMeans ==
    ASSUME Elsewhere
    PROVE  /\ UNCHANGED <<staging, rx, receiving, sending, unsent, clean>>
           /\ pc # "placing" /\ pc' # "placing" /\ pc' # "off" /\ pc # "off"
  <1>1. CASE \E size \in BeginSizes : BeginTransfer(size)
    BY <1>1 DEF BeginTransfer, flash, sender, history
  <1>2. CASE ClearManifest \/ ManifestFails \/ EraseRefused
    BY <1>2 DEF ClearManifest, ManifestFails, EraseRefused, Return, flash, service, sender,
                history
  <1>3. CASE \E img \in Images : VerifyMatches(img) \/ VerifyMismatch(img)
    BY <1>3 DEF VerifyMatches, VerifyMismatch, flash, sender, history, locals
  <1>4. CASE EraseManifest \/ RecordManifest \/ ApplyBegin \/ ApplySector
    BY <1>4 DEF EraseManifest, RecordManifest, ApplyBegin, ApplySector, Return, flash, service,
                sender, history
  <1> QED  BY <1>1, <1>2, <1>3, <1>4 DEF Elsewhere

\* What ends a transfer, or spoils it.
Spoiled ==
    \/ EraseSector
    \/ \E r \in unsent : LineLost(r) \/ LineRefused(r)
                           \/ \E place \in Misplaced : LineArrivesElsewhere(r, place)
    \/ PlaceRefused \/ PlaceFails \/ EndOfFileFails
    \/ ApplyReset \/ PowerCut

LEMMA SpoiledMeans ==
    ASSUME TypeOK, Bookkeeping, Spoiled
    PROVE  /\ ~ clean' \/ (~ receiving' /\ ~ rx'.complete /\ pc' # "off")
           /\ unsent' \subseteq unsent /\ (unsent' # {} => sending' = sending)
  <1>1. CASE EraseSector
    BY <1>1 DEF EraseSector, sender
  <1>2. CASE \E r \in unsent : LineLost(r) \/ LineRefused(r)
                           \/ \E place \in Misplaced : LineArrivesElsewhere(r, place)
    BY <1>2 DEF LineLost, LineRefused, LineArrivesElsewhere, TransferFails
  <1>3. CASE PlaceRefused \/ PlaceFails \/ EndOfFileFails
    <2>1. receiving /\ ~ rx.complete
      BY <1>3 DEF PlaceRefused, PlaceFails, EndOfFileFails, FileEnds, Bookkeeping
    <2>2. PICK error \in {"ok", "hex", "range", "write"} : TransferFails(error)
      BY <1>3 DEF PlaceRefused, PlaceFails, EndOfFileFails, FlushFails
    <2>3. rx'.complete = rx.complete /\ receiving' = FALSE /\ unsent' = {}
      BY <2>2, ErrorType
    <2>4. pc' = "idle"
      BY <1>3 DEF PlaceRefused, PlaceFails, EndOfFileFails, FlushFails, Return
    <2> QED  BY <2>1, <2>3, <2>4
  <1>4. CASE ApplyReset \/ PowerCut
    BY <1>4 DEF ApplyReset, PowerCut, RamLost
  <1> QED  BY <1>1, <1>2, <1>3, <1>4 DEF Spoiled

Placed == PlaceInPage \/ PlaceAfterFlush

LEMMA PlacedMeans ==
    ASSUME TypeOK, Bookkeeping, Placed
    PROVE  /\ UNCHANGED <<receiving, sending, unsent, clean>>
           /\ ~ rx'.complete /\ pc' \in {"idle", "placing"}
  <1>1. pc = "placing" /\ UNCHANGED <<receiving, sending, unsent, clean>>
    BY DEF Placed, PlaceInPage, PlaceAfterFlush, sender, history
  <1>2. ~ rx.complete /\ rx \in Transfer
    BY <1>1 DEF Bookkeeping, TypeOK
  <1>3. rx'.complete = rx.complete
    BY <1>2 DEF Placed, PlaceInPage, PlaceAfterFlush, PlaceInto
  <1>4. pc' \in {"idle", "placing"}
    BY <1>1 DEF Placed, PlaceInPage, PlaceAfterFlush, PlaceInto, Return
  <1> QED  BY <1>1, <1>2, <1>3, <1>4

LEMMA NextCases ==
    Next => \/ Elsewhere \/ Spoiled \/ Placed \/ Boot \/ TransferReady \/ EndOfFile
            \/ \E img \in Images : StartFile(img)
            \/ \E r \in unsent : LineArrives(r)
  BY DEF Next, Begin, Line, Verify, Apply, Elsewhere, Spoiled, Placed

\* fwbegin erases sector after sector.
LEMMA NextErased ==
    ASSUME TypeOK, Bookkeeping, CopyInProgress, ErasedSoFar, Next
    PROVE  ErasedSoFar'
  <1>1. CASE \E size \in BeginSizes : BeginTransfer(size)
    BY <1>1 DEF BeginTransfer, CopyInProgress, ErasedSoFar
  <1>2. CASE ClearManifest
    <2>1. pc' # "clear" /\ (pc' = "erase" => cursor' = 0)
      BY <1>2 DEF ClearManifest, Return, ErasedSoFar
    <2> QED  BY <2>1 DEF ErasedSoFar, Cells
  <1>3. CASE EraseSector
    <2>1. /\ pc = "erase" /\ pc' = "erase" /\ cursor' = cursor + SectorCells
          /\ staging' = Erased(staging, cursor)
      BY <1>3 DEF EraseSector
    <2>2. cursor \in Nat /\ \A c \in Cells : c < cursor => staging[c] = "blank"
      BY <2>1 DEF ErasedSoFar
    <2>3. SectorCells \in Nat /\ \A c \in Cells : c \in Nat
      BY GeometryAssumption DEF Cells
    <2>4. ASSUME NEW c \in Cells, c < cursor + SectorCells
          PROVE  Erased(staging, cursor)[c] = "blank"
      <3>1. c < cursor \/ c \in Sector(cursor)
        BY <2>2, <2>3, <2>4 DEF Sector
      <3> QED  BY <2>2, <3>1 DEF Erased
    <2> QED  BY <2>1, <2>2, <2>3, <2>4 DEF ErasedSoFar
  <1>4. CASE pc' \notin {"clear", "erase"}
    BY <1>4 DEF ErasedSoFar
  <1>5. CASE Boot \/ TransferReady \/ EraseRefused \/ ManifestFails \/ RecordManifest
             \/ PlaceRefused \/ PlaceFails \/ EndOfFileFails \/ EraseManifest \/ ApplyReset
             \/ PowerCut \/ Placed
    BY <1>4, <1>5, PlacedMeans DEF Boot, TransferReady, EraseRefused, ManifestFails, RecordManifest,
           PlaceRefused, PlaceFails, EndOfFileFails, FlushFails, EraseManifest, ApplyReset,
           PowerCut, RamLost, Return
  <1>6. CASE \/ \E img \in Images : StartFile(img) \/ VerifyMatches(img) \/ VerifyMismatch(img)
             \/ EndOfFile \/ ApplyBegin \/ ApplySector
    BY <1>4, <1>6 DEF StartFile, VerifyMatches, VerifyMismatch, EndOfFile, FileEnds, ApplyBegin,
           ApplySector, locals
  <1>7. CASE \E r \in unsent : LineLost(r) \/ LineRefused(r) \/ LineArrives(r)
                                \/ \E place \in Misplaced : LineArrivesElsewhere(r, place)
    BY <1>4, <1>7 DEF LineLost, LineRefused, LineArrives, LineArrivesElsewhere, StartPlacing, locals
  <1> QED
    BY <1>1, <1>2, <1>3, <1>5, <1>6, <1>7 DEF Next, Begin, Line, Verify, Apply, Placed

\* Every action keeps what is known of a clean transfer.
LEMMA NextClean ==
    ASSUME IInv, CleanInv, Next
    PROVE  CleanInv'
  <1>1. TypeOK /\ Bookkeeping /\ CopyInProgress
    BY DEF IInv
  <1>2. /\ clean => pc # "off"
        /\ unsent # {} => unsent \subseteq RecordsOf[sending]
        /\ ErasedSoFar
        /\ clean /\ receiving => TransferGoesOn
        /\ CleanTransferIsExact
    BY DEF CleanInv
  <1>3. ErasedSoFar'
    BY <1>1, <1>2, NextErased
  <1>4. CASE Elsewhere
    <2>1. /\ UNCHANGED <<staging, rx, receiving, sending, unsent, clean>>
          /\ pc # "placing" /\ pc' # "placing" /\ pc' # "off" /\ pc # "off"
      BY <1>4, ElsewhereMeans
    <2>2. Image' = Image /\ StillUnsent' = StillUnsent /\ BeingPlaced = {} /\ BeingPlaced' = {}
      BY <2>1 DEF Image, FlushedStaging, Page, StillUnsent, BeingPlaced
    <2>3. TransferGoesOn => TransferGoesOn'
      <3> HIDE DEF Image, StillUnsent, BeingPlaced
      <3> QED  BY <2>1, <2>2 DEF TransferGoesOn
    <2>4. CleanTransferIsExact'
      BY <1>2, <2>1 DEF CleanTransferIsExact, Staged
    <2> QED  BY <1>2, <1>3, <2>1, <2>3, <2>4 DEF CleanInv
  <1>5. CASE Spoiled
    <2>1. /\ ~ clean' \/ (~ receiving' /\ ~ rx'.complete /\ pc' # "off")
          /\ unsent' \subseteq unsent /\ (unsent' # {} => sending' = sending)
      BY <1>1, <1>5, SpoiledMeans
    <2> QED  BY <1>2, <1>3, <2>1 DEF CleanInv, CleanTransferIsExact
  <1>6. CASE Placed
    <2>1. /\ UNCHANGED <<receiving, sending, unsent, clean>>
          /\ ~ rx'.complete /\ pc' \in {"idle", "placing"}
      BY <1>1, <1>6, PlacedMeans
    <2>2. TransferGoesOn => TransferGoesOn'
      BY <1>1, <1>6, PlaceGoesOn DEF Placed
    <2> QED  BY <1>2, <1>3, <2>1, <2>2 DEF CleanInv, CleanTransferIsExact
  <1>7. CASE Boot
    <2>1. pc = "off" /\ pc' = "idle" /\ clean' = clean /\ unsent' = unsent /\ sending' = sending
      BY <1>7 DEF Boot, Return, sender
    <2> QED  BY <1>2, <1>3, <2>1 DEF CleanInv, CleanTransferIsExact
  <1>8. CASE TransferReady
    <2>1. pc' = "idle" /\ unsent' = {} /\ ~ rx'.complete /\ (clean' => cursor = Capacity)
      BY <1>8 DEF TransferReady, Return, NoTransfer
    <2>2. clean' => TransferGoesOn'
      BY <1>1, <1>2, <1>8, <2>1, ReadyGoesOn
    <2> QED  BY <1>3, <2>1, <2>2 DEF CleanInv, CleanTransferIsExact
  <1>9. CASE EndOfFile
    <2>1. /\ pc = "idle" /\ pc' = pc /\ receiving /\ ~ receiving' /\ unsent = {} /\ unsent' = unsent
          /\ sending' = sending /\ clean' = clean /\ rx'.size = rx.size
      BY <1>1, <1>9 DEF EndOfFile, FileEnds, locals, sender, history, TypeOK
    <2>2. clean => Staged(rx.size)' = Expected[sending]
      BY <1>1, <1>2, <1>9, <2>1, EndIsExact
    <2>3. CleanTransferIsExact'
      BY <2>1, <2>2 DEF CleanTransferIsExact, Staged
    <2> QED  BY <1>2, <1>3, <2>1, <2>3 DEF CleanInv
  <1>10. ASSUME NEW img \in Images, StartFile(img) PROVE CleanInv'
    <2>1. /\ pc = "idle" /\ pc' = pc /\ receiving /\ rx' = rx /\ ~ rx.complete
          /\ sending' = img /\ unsent' = RecordsOf[img] /\ (clean' => clean /\ sending = "none")
      BY <1>1, <1>10 DEF StartFile, flash, service, locals, Bookkeeping
    <2>2. clean' => TransferGoesOn'
      BY <1>1, <1>2, <1>10, <2>1, FileGoesOn
    <2> QED  BY <1>3, <2>1, <2>2 DEF CleanInv, CleanTransferIsExact
  <1>11. ASSUME NEW r \in unsent, LineArrives(r) PROVE CleanInv'
    <2>1. /\ pc' = "placing" /\ receiving /\ rx' = rx /\ ~ rx.complete
          /\ sending' = sending /\ unsent' \subseteq unsent /\ clean' = clean
      BY <1>1, <1>11 DEF LineArrives, StartPlacing, flash, service, history, Bookkeeping
    <2>2. clean => TransferGoesOn'
      BY <1>1, <1>2, <1>11, <2>1, ArrivalGoesOn
    <2> QED  BY <1>2, <1>3, <2>1, <2>2 DEF CleanInv, CleanTransferIsExact
  <1> QED  BY <1>4, <1>5, <1>6, <1>7, <1>8, <1>9, <1>10, <1>11, NextCases

\* The two invariants together hold in every reachable state.
THEOREM CleanInductive == Spec => [](IInv /\ CleanInv)
  <1>1. Init => CleanInv
    BY DEF Init, CleanInv, ErasedSoFar, CleanTransferIsExact
  <1>2. IInv /\ CleanInv /\ [Next]_vars => CleanInv'
    <2>1. IInv /\ CleanInv /\ UNCHANGED vars => CleanInv'
      <3> SUFFICES ASSUME IInv, CleanInv, UNCHANGED vars PROVE CleanInv'
        OBVIOUS
      <3>1. UNCHANGED <<staging, rx, receiving, pc, cursor, until, value, sending, unsent, clean>>
        BY DEF vars, flash, service, locals, sender, history
      <3>2. Image' = Image /\ StillUnsent' = StillUnsent /\ BeingPlaced' = BeingPlaced
        BY <3>1 DEF Image, FlushedStaging, Page, StillUnsent, BeingPlaced
      <3>3. TransferGoesOn => TransferGoesOn'
        <4> HIDE DEF Image, StillUnsent, BeingPlaced
        <4> QED  BY <3>1, <3>2 DEF TransferGoesOn
      <3>4. ErasedSoFar' /\ CleanTransferIsExact'
        BY <3>1 DEF CleanInv, ErasedSoFar, CleanTransferIsExact, Staged
      <3> QED  BY <3>1, <3>3, <3>4 DEF CleanInv
    <2> QED  BY <2>1, NextClean
  <1> QED  BY <1>1, <1>2, Inductive, PTL DEF Spec
-----------------------------------------------------------------------------
\* The flash, the transfer and the handlers keep their types: in particular the
\* page being filled never lies outside staging (place_byte's bounds).
THEOREM TypeCorrect == Spec => []TypeOK
  BY Inductive, PTL DEF IInv

\* fwapply only ever installs what the sender's checksum vouched for
\* (cmd_apply, firmware_service_init).
THEOREM VerifiedSound == Spec => []VerifiedIsVouched
  BY Inductive, PTL DEF IInv

\* A manifest that a reboot believes names what staging holds, wherever power
\* was cut (cmd_begin and manifest_write).
THEOREM ManifestSound == Spec => []ManifestAgreesWithStaging
  BY Inductive, PTL DEF IInv

\* The application is whole unless its copying was cut short (firmware_apply).
THEOREM ApplicationSound == Spec => []ApplicationIsWhole
  BY Inductive, PTL DEF IInv

\* A file that arrives whole onto erased staging is staged cell for cell, in
\* whatever order its lines came and however they cross pages (place_byte and
\* flush_page).
THEOREM CleanTransferExact == Spec => []CleanTransferIsExact
  BY CleanInductive, PTL DEF CleanInv

\* After one bad record no step writes staging or completes the transfer, until
\* fwbegin (firmware_receive_line's error).
THEOREM FailureStays == Spec => FailedTransferStaysFailed
  <1>1. ASSUME IInv, Next, rx.error # "ok", pc # "erase", pc # "off"
        PROVE  staging' = staging /\ (rx'.complete => rx.complete)
    <2>1. ~ receiving /\ pc # "placing"
      BY <1>1 DEF IInv, TypeOK, Bookkeeping
    <2>2. CASE Elsewhere
      BY <2>2, ElsewhereMeans
    <2>3. CASE EraseSector \/ TransferReady \/ Boot
      BY <1>1, <2>3 DEF EraseSector, TransferReady, Boot
    <2>4. CASE PlaceRefused \/ PlaceFails \/ EndOfFileFails \/ EndOfFile \/ Placed
      BY <2>1, <2>4 DEF PlaceRefused, PlaceFails, EndOfFileFails, EndOfFile, FileEnds, Placed,
                        PlaceInPage, PlaceAfterFlush
    <2>5. CASE \/ \E r \in unsent : LineLost(r) \/ LineRefused(r) \/ LineArrives(r)
                                   \/ \E place \in Misplaced : LineArrivesElsewhere(r, place)
               \/ \E img \in Images : StartFile(img)
      BY <2>1, <2>5 DEF LineLost, LineRefused, LineArrives, LineArrivesElsewhere, StartFile,
                        flash, service
    <2>6. CASE ApplyReset \/ PowerCut
      <3>1. staging' = staging
        BY <1>1, <2>1, <2>6 DEF ApplyReset, PowerCut, InFlush, FileEnds, flash
      <3>2. ~ rx'.complete
        BY <2>6 DEF ApplyReset, PowerCut, RamLost, NoTransfer
      <3> QED  BY <3>1, <3>2
    <2> QED  BY <1>1, <2>2, <2>3, <2>4, <2>5, <2>6, NextCases DEF Spoiled
  <1>2. IInv /\ [Next]_vars
          => [rx.error # "ok" /\ pc # "erase" /\ pc # "off"
                => staging' = staging /\ (rx'.complete => rx.complete)]_vars
    BY <1>1
  <1> QED  BY <1>2, Inductive, PTL DEF Spec, FailedTransferStaysFailed
=============================================================================
