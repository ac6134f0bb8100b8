---------------------------- MODULE FirmwareUpdate ----------------------------
(***************************************************************************)
(* components/firmware_update: an image sent as Intel HEX lines into a     *)
(* staging region, checked against the sender's checksum, recorded in a    *)
(* manifest sector that survives a reboot, and copied over the running     *)
(* application.                                                            *)
(*                                                                         *)
(* Flash is an array of cells.  The byte an image has at a cell is named   *)
(* by the image, so two images differ wherever both have data; what a      *)
(* damaged record brings is "junk".  A checksum tells every two contents  *)
(* apart.                                                                  *)
(*                                                                         *)
(* A step is a call that makes no flash operation, or one flash operation. *)
(* Power may be cut in any state, leaving the operation in progress half   *)
(* done.  The sender is free: it starts files over and loses or damages    *)
(* lines as it may.                                                        *)
(*                                                                         *)
(* Some definitions are preceded by a faulty variant of theirs that no     *)
(* specification here uses: the slip a property below would catch.         *)
(***************************************************************************)
EXTENDS Integers

CONSTANTS Images,       \* the firmware images there are
          RecordsOf,    \* the data records of each one's HEX file: first and last cell
          Misplaced,    \* where a record damaged beyond its own checksum may land
          PageCells,    \* FIRMWARE_RECEIVE_PAGE_SIZE
          SectorCells,  \* the unit of erasing
          Capacity,     \* of the staging region, in cells
          BeginSizes,   \* the sizes given to fwbegin; none given is Capacity
          Factory       \* the image the board was first flashed with

Cells == 0..Capacity-1
Data == Images \cup {"blank", "junk"}

ASSUME GeometryAssumption ==
    /\ PageCells \in Nat \ {0} /\ SectorCells \in Nat \ {0} /\ Capacity \in Nat \ {0}
    /\ SectorCells % PageCells = 0 /\ Capacity % SectorCells = 0
ASSUME ImagesAssumption ==
    /\ Factory \in Images /\ {"blank", "junk", "none"} \cap Images = {}
    /\ \A img \in Images : RecordsOf[img] \subseteq Cells \X Cells
    /\ Misplaced \subseteq Int \X Int /\ BeginSizes \subseteq Nat \ {0}

VARIABLES staging, manifest, application,   \* flash
          rx, receiving, verified,          \* firmware_service_t and its firmware_receive_t
          pc, cursor, until, value,         \* the handler in progress
          sending, unsent,                  \* the sender
          vouched,      \* history: the image whose checksum fwverify last matched
          installed,    \* history: the image last being installed, and
          interrupted,  \* whether its install was cut short
          clean         \* history: the transfer was of one file onto erased staging, with
                        \* no line lost or damaged and no flash operation failing

flash == <<staging, manifest, application>>
service == <<rx, receiving, verified>>
locals == <<pc, cursor, until, value>>
sender == <<sending, unsent>>
history == <<vouched, installed, interrupted, clean>>
vars == <<flash, service, locals, sender, history>>

(***************************************************************************)
(* Images and flash.                                                       *)
(***************************************************************************)
Covered == [img \in Images |-> {c \in Cells : \E r \in RecordsOf[img] : r[1] <= c /\ c <= r[2]}]

Extent == [img \in Images |-> CHOOSE n \in 1..Capacity : /\ n - 1 \in Covered[img]
                                                       /\ \A c \in Covered[img] : c < n]

\* No image is empty, and no record of one.
ASSUME ExtentAssumption ==
    \A img \in Images : /\ Extent[img] \in 1..Capacity /\ Extent[img] - 1 \in Covered[img]
                        /\ \A c \in Covered[img] : c < Extent[img]
                        /\ \A r \in RecordsOf[img] : r[1] <= r[2]

\* What the sender takes the checksum of: the image with its gaps erased.
Expected ==
    [img \in Images |->
        [c \in 0..Extent[img]-1 |-> IF c \in Covered[img] THEN img ELSE "blank"]]

\* What flash_storage_crc32 takes the checksum of.
Staged(size) == [c \in 0..size-1 |-> staging[c]]

Sector(first) == {c \in Cells : first <= c /\ c < first + SectorCells}
Page(first) == {c \in Cells : first <= c /\ c < first + PageCells}
PageOf(c) == c - (c % PageCells)

Erased(region, first) == [c \in Cells |-> IF c \in Sector(first) THEN "blank" ELSE region[c]]

\* Programming clears bits and sets none.
Programmed(old, new) == CASE old = "blank" -> new
                          [] new \in {"blank", old} -> old
                          [] OTHER -> "junk"

\* A region whose operation on some cells was cut short: each of them is as
\* it was, as it would have become, or neither.
HalfDone(region, cells, target) ==
    { [c \in Cells |-> IF c \in cells
                       THEN CASE left[c] = "old" -> region[c]
                              [] left[c] = "new" -> target[c]
                              [] OTHER -> "junk"
                       ELSE region[c]] : left \in [cells -> {"old", "new", "junk"}] }

Manifest == [header : {"erased", "torn", "written"}, size : 0..Capacity,
             payload : Images \cup {"none"}]
ErasedManifest == [header |-> "erased", size |-> 0, payload |-> "none"]
TornManifest == [ErasedManifest EXCEPT !.header = "torn"]

\* What manifest_write records of the image just verified.
NewManifest == [header |-> "written", size |-> rx.size, payload |-> vouched]

\* manifest_matches_staging: the header is whole, and so is what it names.
ManifestMatches == /\ manifest.header = "written"
                   /\ Staged(manifest.size) = Expected[manifest.payload]

BlankPage == [c \in 0..PageCells-1 |-> "blank"]
Transfer == [page : [0..PageCells-1 -> Data], offset : Cells, dirty : BOOLEAN,
             size : 0..Capacity, complete : BOOLEAN,
             error : {"ok", "hex", "range", "write"}]
NoTransfer == [page |-> BlankPage, offset |-> 0, dirty |-> FALSE, size |-> 0,
               complete |-> FALSE, error |-> "ok"]
Return == pc' = "idle" /\ cursor' = 0 /\ until' = 0 /\ value' = "none"
-----------------------------------------------------------------------------
Init == /\ staging = [c \in Cells |-> "blank"]
        /\ manifest = ErasedManifest
        /\ application = [c \in Cells |-> IF c \in DOMAIN Expected[Factory]
                                          THEN Expected[Factory][c] ELSE "blank"]
        /\ rx = NoTransfer /\ receiving = FALSE /\ verified = FALSE
        /\ pc = "off" /\ cursor = 0 /\ until = 0 /\ value = "none"
        /\ sending = "none" /\ unsent = {}
        /\ vouched = "none" /\ installed = Factory /\ interrupted = FALSE
        /\ clean = FALSE

\* The application region holds the whole of an image.
Holds(img) == [c \in 0..Extent[img]-1 |-> application[c]] = Expected[img]

\* firmware_service_init.  A board whose application is not whole stays off;
\* one that boots after an install cut short runs the image it still holds.
Boot == /\ pc = "off" /\ installed' \in Images /\ Holds(installed')
        /\ ~ interrupted => installed' = installed
        /\ interrupted' = FALSE
        /\ rx' = IF ManifestMatches
                 THEN [NoTransfer EXCEPT !.size = manifest.size, !.complete = TRUE]
                 ELSE NoTransfer
        /\ verified' = ManifestMatches
        /\ receiving' = FALSE
        /\ Return
        /\ UNCHANGED <<flash, sender, vouched, clean>>

(***************************************************************************)
(* fwbegin [size]: the manifest is erased, then as much of staging as the  *)
(* size asks for, and only then the old transfer is forgotten.             *)
(***************************************************************************)
\* fwbegin that leaves the last verification standing.
BeginStillVerified(size) ==
    /\ pc = "idle"
    /\ pc' = "clear" /\ until' = size
    /\ UNCHANGED <<flash, service, cursor, value, sender, history>>

BeginTransfer(size) ==
    /\ pc = "idle"
    /\ verified' = FALSE
    /\ pc' = "clear" /\ until' = size
    /\ UNCHANGED <<flash, rx, receiving, cursor, value, sender, history>>

\* The manifest left for fwverify to overwrite.
ClearNothing ==
    /\ pc = "clear"
    /\ IF until > Capacity THEN Return
       ELSE pc' = "erase" /\ UNCHANGED <<cursor, until, value>>
    /\ UNCHANGED <<flash, service, sender, history>>

\* A size beyond the region is refused, but only after the manifest is gone.
ClearManifest ==
    /\ pc = "clear"
    /\ manifest' = ErasedManifest
    /\ IF until > Capacity THEN Return
       ELSE pc' = "erase" /\ UNCHANGED <<cursor, until, value>>
    /\ UNCHANGED <<staging, application, service, sender, history>>

EraseSector ==
    /\ pc = "erase" /\ cursor < until
    /\ staging' = Erased(staging, cursor)
    /\ cursor' = cursor + SectorCells /\ clean' = FALSE
    /\ UNCHANGED <<manifest, application, service, pc, until, value, sender, vouched,
                   installed, interrupted>>

\* firmware_receive_begin; the sender starts with a new file.
TransferReady ==
    /\ pc = "erase" /\ cursor >= until
    /\ rx' = NoTransfer /\ receiving' = TRUE
    /\ sending' = "none" /\ unsent' = {}
    /\ clean' = (cursor = Capacity)
    /\ Return
    /\ UNCHANGED <<flash, verified, vouched, installed, interrupted>>

\* flash_safe_execute refuses, or, programming the manifest, it does not read
\* back as written.
ManifestFails ==
    /\ \/ pc \in {"clear", "record_erase"} /\ UNCHANGED manifest
       \/ pc = "record" /\ manifest' \in {ErasedManifest, TornManifest, NewManifest}
    /\ Return
    /\ UNCHANGED <<staging, application, service, sender, history>>

EraseRefused ==
    /\ pc = "erase" /\ cursor = 0
    /\ Return
    /\ UNCHANGED <<flash, service, sender, history>>

(***************************************************************************)
(* The sender.                                                             *)
(***************************************************************************)
\* A file sent outside a transfer has its lines claimed and refused one by one,
\* so only one sent during a transfer matters.
StartFile(img) ==
    /\ pc = "idle" /\ receiving
    /\ sending' = img /\ unsent' = RecordsOf[img]
    /\ clean' = (clean /\ sending = "none")
    /\ UNCHANGED <<flash, service, locals, vouched, installed, interrupted>>

LineLost(r) ==
    /\ pc = "idle" /\ r \in unsent
    /\ unsent' = unsent \ {r} /\ clean' = FALSE
    /\ UNCHANGED <<flash, service, locals, sending, vouched, installed, interrupted>>

\* The error is kept and listening stops, so rx->error needs no test of its own
\* while receiving; the rest of the file is claimed and refused line by line.
TransferFails(error) ==
    rx' = [rx EXCEPT !.error = error] /\ receiving' = FALSE /\ unsent' = {}

\* A bad line skipped, and the next one taken.
LineSkipped(r) ==
    /\ pc = "idle" /\ r \in unsent /\ receiving
    /\ unsent' = unsent \ {r} /\ clean' = FALSE
    /\ rx' = [rx EXCEPT !.error = "hex"]
    /\ UNCHANGED <<flash, receiving, verified, locals, sending, vouched, installed, interrupted>>

\* hex_parser_feed refuses the line: one bad record poisons the transfer.
LineRefused(r) ==
    /\ pc = "idle" /\ r \in unsent /\ receiving
    /\ clean' = FALSE
    /\ TransferFails("hex")
    /\ UNCHANGED <<flash, verified, locals, sending, vouched, installed, interrupted>>

(***************************************************************************)
(* firmware_service_line_filter, firmware_receive_line and place_byte.     *)
(***************************************************************************)
StartPlacing(place, data) ==
    pc' = "placing" /\ cursor' = place[1] /\ until' = place[2] /\ value' = data

LineArrives(r) ==
    /\ pc = "idle" /\ r \in unsent /\ receiving
    /\ StartPlacing(r, sending)
    /\ unsent' = unsent \ {r}
    /\ UNCHANGED <<flash, service, sending, history>>

\* Damage its checksum does not show, or an address record lost before it.
LineArrivesElsewhere(r, place) ==
    /\ pc = "idle" /\ r \in unsent /\ receiving
    /\ StartPlacing(place, "junk")
    /\ unsent' = unsent \ {r} /\ clean' = FALSE
    /\ UNCHANGED <<flash, service, sending, vouched, installed, interrupted>>

PlaceRefused ==
    /\ pc = "placing" /\ cursor \notin Cells
    /\ TransferFails("range")
    /\ Return
    /\ UNCHANGED <<flash, verified, sending, history>>

PlaceInto(page) ==
    /\ rx' = [rx EXCEPT !.page = [page EXCEPT ![cursor % PageCells] = value],
                        !.offset = PageOf(cursor), !.dirty = TRUE,
                        !.size = IF cursor >= @ THEN cursor + 1 ELSE @]
    /\ IF cursor = until THEN Return
       ELSE cursor' = cursor + 1 /\ UNCHANGED <<pc, until, value>>

MovesPage == rx.dirty /\ PageOf(cursor) # rx.offset

PlaceInPage ==
    /\ pc = "placing" /\ cursor \in Cells /\ ~ MovesPage
    /\ PlaceInto(IF rx.dirty THEN rx.page ELSE BlankPage)
    /\ UNCHANGED <<flash, receiving, verified, sender, history>>

\* flush_page: what write_page leaves in staging, and whether it reads back.
FlushedStaging ==
    [c \in Cells |-> IF c \in Page(rx.offset)
                     THEN Programmed(staging[c], rx.page[c - rx.offset])
                     ELSE staging[c]]

Flushes == /\ \A c \in Page(rx.offset) : FlushedStaging[c] = rx.page[c - rx.offset]
           /\ staging' = FlushedStaging

FlushFails ==
    /\ \/ /\ \E c \in Page(rx.offset) : FlushedStaging[c] # rx.page[c - rx.offset]
          /\ staging' = FlushedStaging
          /\ UNCHANGED clean
       \/ /\ staging' \in HalfDone(staging, Page(rx.offset), FlushedStaging)
          /\ clean' = FALSE
    /\ TransferFails("write")
    /\ Return
    /\ UNCHANGED <<manifest, application, verified, sending, vouched, installed, interrupted>>

\* The bound of the region off by one.
PlacePastTheEnd ==
    /\ pc = "placing" /\ cursor \in 0..Capacity /\ MovesPage
    /\ Flushes
    /\ PlaceInto(BlankPage)
    /\ UNCHANGED <<manifest, application, receiving, verified, sender, history>>

\* The next page begun with what the last one held.
PlaceOverLastPage ==
    /\ pc = "placing" /\ cursor \in Cells /\ MovesPage
    /\ Flushes
    /\ PlaceInto(rx.page)
    /\ UNCHANGED <<manifest, application, receiving, verified, sender, history>>

PlaceAfterFlush ==
    /\ pc = "placing" /\ cursor \in Cells /\ MovesPage
    /\ Flushes
    /\ PlaceInto(BlankPage)
    /\ UNCHANGED <<manifest, application, receiving, verified, sender, history>>

PlaceFails ==
    /\ pc = "placing" /\ cursor \in Cells /\ MovesPage
    /\ FlushFails

\* The end-of-file record, after every data record has been sent.
FileEnds == pc = "idle" /\ receiving /\ sending # "none" /\ unsent = {}

EndOfFile ==
    /\ FileEnds
    /\ IF rx.dirty THEN Flushes ELSE UNCHANGED staging
    /\ rx' = [rx EXCEPT !.dirty = FALSE, !.complete = TRUE] /\ receiving' = FALSE
    /\ UNCHANGED <<manifest, application, verified, locals, sender, history>>

EndOfFileFails ==
    /\ FileEnds /\ rx.dirty
    /\ FlushFails

(***************************************************************************)
(* fwverify <crc32>: staging is read back, and a match recorded.           *)
(***************************************************************************)
VerifyMatches(img) ==
    /\ pc = "idle" /\ rx.complete
    /\ Staged(rx.size) = Expected[img]
    /\ verified' = TRUE /\ vouched' = img
    /\ pc' = "record_erase"
    /\ UNCHANGED <<flash, rx, receiving, cursor, until, value, sender, installed,
                   interrupted, clean>>

VerifyMismatch(img) ==
    /\ pc = "idle" /\ rx.complete
    /\ Staged(rx.size) # Expected[img]
    /\ verified' = FALSE
    /\ UNCHANGED <<flash, rx, receiving, locals, sender, history>>

EraseManifest ==
    /\ pc = "record_erase"
    /\ manifest' = ErasedManifest
    /\ pc' = "record"
    /\ UNCHANGED <<staging, application, service, cursor, until, value, sender, history>>

RecordManifest ==
    /\ pc = "record"
    /\ manifest' = NewManifest
    /\ Return
    /\ UNCHANGED <<staging, application, service, sender, history>>

(***************************************************************************)
(* fwapply: sector by sector over the application, then a reset.           *)
(***************************************************************************)
ApplyBegin ==
    /\ pc = "idle" /\ verified /\ rx.size \in 1..Capacity
    /\ pc' = "apply" /\ installed' = vouched /\ interrupted' = FALSE
    /\ UNCHANGED <<flash, service, cursor, until, value, sender, vouched, clean>>

Copied == [c \in Cells |-> IF c \in Sector(cursor) THEN staging[c] ELSE application[c]]

\* A sector erased or half programmed holds no part of any image: neither a
\* cell of the old one nor one of the new makes the region whole.
HalfCopied == [c \in Cells |-> IF c \in Sector(cursor) THEN "junk" ELSE application[c]]

ApplySector ==
    /\ pc = "apply" /\ cursor < rx.size
    /\ application' = Copied
    /\ cursor' = cursor + SectorCells
    /\ UNCHANGED <<staging, manifest, service, pc, until, value, sender, history>>

\* What a reset or a power cut takes with it; the sender gives up.
RamLost == /\ pc' = "off" /\ cursor' = 0 /\ until' = 0 /\ value' = "none"
           /\ rx' = NoTransfer /\ receiving' = FALSE /\ verified' = FALSE
           /\ sending' = "none" /\ unsent' = {} /\ clean' = FALSE
           /\ UNCHANGED <<vouched, installed>>

\* The sectors counted by rounding the size down.
ApplyResetEarly ==
    /\ pc = "apply" /\ cursor + SectorCells > rx.size
    /\ RamLost
    /\ UNCHANGED <<flash, interrupted>>

ApplyReset ==
    /\ pc = "apply" /\ cursor >= rx.size
    /\ RamLost
    /\ UNCHANGED <<flash, interrupted>>

(***************************************************************************)
(* A power cut, or a reset of any other cause.                             *)
(***************************************************************************)
InFlush == \/ pc = "placing" /\ cursor \in Cells /\ MovesPage
           \/ FileEnds /\ rx.dirty

PowerCut ==
    /\ pc # "off"
    /\ \/ UNCHANGED flash
       \/ /\ pc \in {"clear", "record_erase", "record"}
          /\ manifest' \in {ErasedManifest, TornManifest}
                           \cup (IF pc = "record" THEN {NewManifest} ELSE {})
          /\ UNCHANGED <<staging, application>>
       \/ /\ pc = "erase" /\ cursor < until
          /\ staging' \in HalfDone(staging, Sector(cursor), Erased(staging, cursor))
          /\ UNCHANGED <<manifest, application>>
       \/ /\ InFlush
          /\ staging' \in HalfDone(staging, Page(rx.offset), FlushedStaging)
          /\ UNCHANGED <<manifest, application>>
       \/ /\ pc = "apply" /\ cursor < rx.size
          /\ application' \in {Copied, HalfCopied}
          /\ UNCHANGED <<staging, manifest>>
    /\ interrupted' = (interrupted \/ pc = "apply")
    /\ RamLost

Begin == \/ \E size \in BeginSizes : BeginTransfer(size)
         \/ ClearManifest \/ EraseSector \/ TransferReady \/ EraseRefused

Line == \/ \E r \in unsent : LineLost(r) \/ LineRefused(r) \/ LineArrives(r)
        \/ \E r \in unsent, place \in Misplaced : LineArrivesElsewhere(r, place)
        \/ PlaceRefused \/ PlaceInPage \/ PlaceAfterFlush \/ PlaceFails
        \/ EndOfFile \/ EndOfFileFails

Verify == \/ \E img \in Images : VerifyMatches(img) \/ VerifyMismatch(img)
          \/ EraseManifest \/ RecordManifest

Apply == ApplyBegin \/ ApplySector \/ ApplyReset

Next == \/ Boot \/ Begin \/ Line \/ Verify \/ Apply \/ ManifestFails \/ PowerCut
        \/ \E img \in Images : StartFile(img)

Spec == Init /\ [][Next]_vars
-----------------------------------------------------------------------------
(***************************************************************************)
(* Properties.                                                             *)
(***************************************************************************)
\* Every part of the state has its type; the page being filled lies in staging.
TypeOK == /\ staging \in [Cells -> Data] /\ application \in [Cells -> Data]
          /\ manifest \in Manifest
          /\ rx \in Transfer
          /\ receiving \in BOOLEAN /\ (receiving => rx.error = "ok") /\ verified \in BOOLEAN
          /\ pc \in {"off", "idle", "clear", "erase", "placing", "record_erase",
                     "record", "apply"}
          /\ cursor \in Int /\ until \in Int /\ value \in Data \cup {"none"}
          /\ sending \in Images \cup {"none"} /\ unsent \subseteq Cells \X Cells
          /\ vouched \in Images \cup {"none"} /\ installed \in Images
          /\ interrupted \in BOOLEAN /\ clean \in BOOLEAN

\* Whatever fwapply would install is, cell for cell, an image whose checksum
\* the sender gave, in this session or before the reboot (cmd_apply's guard).
VerifiedIsVouched ==
    verified => vouched \in Images /\ Staged(rx.size) = Expected[vouched]

\* README.md: the manifest and staging can never be left disagreeing.  A
\* manifest that a reboot would believe names what staging holds, wherever
\* power was cut and whatever failed.
ManifestAgreesWithStaging ==
    manifest.header = "written" =>
        vouched \in Images /\ Staged(manifest.size) = Expected[vouched]

\* Unless its copying was cut short, the application region holds the whole of
\* the last image installed, and that one was vouched for.
ApplicationIsWhole == pc # "apply" /\ ~ interrupted => Holds(installed)

\* A file of which every line arrived, in whatever order, onto erased staging,
\* and which reached its end, is staged cell for cell with its gaps left
\* erased (place_byte's and flush_page's handling of pages).
CleanTransferIsExact ==
    clean /\ rx.complete => Staged(rx.size) = Expected[sending]

\* One bad record poisons the transfer: after it no cell of staging changes and
\* the transfer never completes, until fwbegin.
FailedTransferStaysFailed ==
    [][rx.error # "ok" /\ pc # "erase" /\ pc # "off"
          => staging' = staging /\ (rx'.complete => rx.complete)]_vars
=============================================================================
