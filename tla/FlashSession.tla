---------------------------- MODULE FlashSession ----------------------------
(***************************************************************************)
(* Writing firmware from the browser: the Api's flash (runFlash, the parked  *)
(* flash and its grant), the bootloader the browser announces, the Firmware  *)
(* page's store and its buttons, and the board's reboot into DFU.  Every      *)
(* click starts a handler that awaits the network, the USB bus or the user   *)
(* while the others run; between two awaits a handler is one step here.      *)
(* The write itself is DfuWrite; here it succeeds or fails.                  *)
(***************************************************************************)
EXTENDS FiniteSets, Naturals

CONSTANTS
  Flashes,          \* clicks on Flash that may be under way at once
  Nothing           \* no flash is parked

ASSUME FlashSessionAssumption ==
  /\ Nothing \notin Flashes
  /\ Flashes \cap {"grant", "enter", "page", "old", "torn", "mixed"} = {}

Handlers == Flashes \cup {"grant", "enter", "page"}

VARIABLES
  board,            \* app, resetting (to the bootloader), dfu, or off
  content,          \* what its flash holds: old, a click's image, torn, mixed
  serial,           \* whether the page has the serial connection
  granted,          \* whether this origin may see the bootloader
  handle,           \* whether dfuDevice is set
  busy,             \* flashBusy and usbBusy, which are always set together
  pending,          \* pendingFlash: the click whose image is parked
  held,             \* the image grantDfuAndResume took up
  pc,               \* where each handler is
  rebooted,         \* the flashes that began with enterDfu()
  page,             \* the store: [busy, dfuPresent, phase]
  modal,            \* whether the grant prompt is up
  crowded           \* history: a click was taken while an earlier one was
                    \* between its check of the busy flag and setting it

api  == <<handle, busy, pending, held>>
dev  == <<board, content, granted>>
view == <<page, modal>>
vars == <<board, content, serial, granted, handle, busy, pending, held, pc, rebooted,
          page, modal, crowded>>

Init ==
  /\ board \in {"app", "dfu", "off"}
  /\ content = "old"
  /\ serial = FALSE
  /\ granted \in BOOLEAN
  /\ handle = FALSE /\ busy = FALSE /\ pending = Nothing /\ held = Nothing
  /\ pc = [h \in Handlers |-> "idle"]
  /\ rebooted = {}
  /\ page = [busy |-> FALSE, dfuPresent |-> FALSE, phase |-> "idle"]
  /\ modal = FALSE
  /\ crowded = FALSE
-----------------------------------------------------------------------------
Goto(h, where) == pc' = [pc EXCEPT ![h] = where]

Writers == {h \in Handlers : pc[h] = "writing"}

(* Flashes that have yet to set the busy flag.                              *)
Preflight == {f \in Flashes \ rebooted : pc[f] \in {"fetching", "seeking", "choosing"}}

Reachable == board = "dfu" /\ granted

(* Slip: any news of the bus ends the page's busy state.                    *)
Frame_Free(p, present, isBusy) == [p EXCEPT !.dfuPresent = present, !.busy = FALSE]

(* A dfu frame reaches applyDfu.                                            *)
Frame(p, present, isBusy) == [p EXCEPT !.dfuPresent = present, !.busy = isBusy]

(* A flash frame reaches onFlashEvent.                                      *)
Event(p, phase) == [p EXCEPT !.phase = phase, !.busy = phase \notin {"done", "error"}]

Show(phase) == page' = Event(page, phase) /\ modal' = (phase = "needsdevice")

(* Slip: busy is left set.                                                  *)
FinishFlash_StaysBusy(phase) ==
  /\ handle' = FALSE
  /\ UNCHANGED busy
  /\ page' = Frame(Event(page, phase), FALSE, busy)
  /\ modal' = FALSE

(* The last frame of a flash and finishFlash().                             *)
FinishFlash(phase) ==
  /\ handle' = FALSE
  /\ busy' = FALSE
  /\ page' = Frame(Event(page, phase), FALSE, FALSE)
  /\ modal' = FALSE

(* runFlash's finally spares a parked flash, writeAndReport's does not.      *)
EndOfFlash(h, phase) ==
  IF h \in rebooted /\ pending # Nothing
  THEN Show(phase) /\ UNCHANGED <<handle, busy>>
  ELSE FinishFlash(phase)

(* Slip: the flash goes ahead without the flag.                             *)
BeginWrite_NotBusy(h) ==
  /\ UNCHANGED busy
  /\ Show("flashing")
  /\ Goto(h, "writing")
  /\ content' = IF Writers = {} THEN "torn" ELSE "mixed"

BeginWrite(h) ==
  /\ busy' = TRUE
  /\ Show("flashing")
  /\ Goto(h, "writing")
  /\ content' = IF Writers = {} THEN "torn" ELSE "mixed"
-----------------------------------------------------------------------------
CanFlash == ~page.busy /\ (page.dfuPresent \/ serial)

(* The Flash and Upload buttons: store.begin(), then the image is fetched    *)
(* and checked.                                                             *)
ClickFlash(f) ==
  /\ pc[f] = "idle" /\ CanFlash /\ ~modal
  /\ Goto(f, "fetching")
  /\ rebooted' = rebooted \ {f}
  /\ page' = [page EXCEPT !.busy = TRUE, !.phase = "waiting"]
  /\ crowded' = (crowded \/ Preflight # {})
  /\ UNCHANGED <<dev, serial, api, modal>>

(* A bad image, or a flash that finds another one running.                  *)
Refused(f) ==
  /\ pc[f] = "fetching"
  /\ Goto(f, "idle")
  /\ Show("error")
  /\ UNCHANGED <<dev, serial, api, rebooted, crowded>>

RunFlash(f) ==
  /\ pc[f] = "fetching"
  /\ ~busy
  /\ IF serial
     THEN /\ busy' = TRUE
          /\ rebooted' = rebooted \cup {f}
          /\ Show("waiting")
          /\ Goto(f, "rebooting")
     ELSE /\ Goto(f, "seeking")
          /\ UNCHANGED <<busy, rebooted, view>>
  /\ UNCHANGED <<dev, serial, handle, pending, held, crowded>>

(* DeviceModel.enterDfu: an answer, or the port dying under the request,     *)
(* which is the reboot that was asked for; or a failure.                     *)
Reboot == board' = IF board = "app" THEN "resetting" ELSE board

Rebooted(f) ==
  /\ pc[f] = "rebooting"
  /\ Reboot
  /\ serial' = FALSE
  /\ Show("waiting")
  /\ Goto(f, "arriving")
  /\ UNCHANGED <<content, granted, api, rebooted, crowded>>

RebootFailed(f) ==
  /\ pc[f] = "rebooting"
  /\ EndOfFlash(f, "error")
  /\ Goto(f, "idle")
  /\ UNCHANGED <<dev, serial, pending, held, rebooted, crowded>>

(* deviceForFlash, and the same polled by waitForDfuArrival.                 *)
Found(f) ==
  /\ pc[f] \in {"seeking", "arriving"}
  /\ Reachable
  /\ handle' = (handle \/ f \in rebooted)
  /\ BeginWrite(f)
  /\ UNCHANGED <<board, serial, granted, pending, held, rebooted, crowded>>

NotFound(f) ==
  /\ pc[f] \in {"seeking", "arriving"}
  /\ ~Reachable
  /\ Goto(f, "choosing")
  /\ IF f \in rebooted THEN Show("waiting") ELSE UNCHANGED view
  /\ UNCHANGED <<dev, serial, api, rebooted, crowded>>

(* promptForDfuDevice: a pick that is really there, none or a stale one, or  *)
(* a chooser the browser will not open for a click this old.                *)
Picked(f) ==
  /\ pc[f] = "choosing"
  /\ board = "dfu"
  /\ granted' = TRUE
  /\ handle' = (handle \/ f \in rebooted)
  /\ BeginWrite(f)
  /\ UNCHANGED <<board, serial, pending, held, rebooted, crowded>>

NonePicked(f) ==
  /\ pc[f] = "choosing"
  /\ IF f \in rebooted THEN EndOfFlash(f, "error")
     ELSE Show("error") /\ UNCHANGED <<handle, busy>>
  /\ Goto(f, "idle")
  /\ UNCHANGED <<dev, serial, pending, held, rebooted, crowded>>

ParkForGrant(f) ==
  /\ pc[f] = "choosing"
  /\ pending' = f
  /\ busy' = TRUE
  /\ Show("needsdevice")
  /\ Goto(f, "idle")
  /\ UNCHANGED <<dev, serial, handle, held, rebooted, crowded>>

(* Slip: the grant's handler is taken for the click it resumes.             *)
ImageOf_Handler(h) == h

ImageOf(h) == IF h = "grant" THEN held ELSE h

(* dfu.js's flash.  Two at once leave a mixture.  Done: the board has left   *)
(* for its new application.                                                *)
WriteDone(h) ==
  /\ pc[h] = "writing"
  /\ board = "dfu"
  /\ content' = IF Writers = {h} /\ content = "torn" THEN ImageOf(h) ELSE "mixed"
  /\ board' = "off"
  /\ EndOfFlash(h, "done")
  /\ Goto(h, "idle")
  /\ UNCHANGED <<serial, granted, pending, held, rebooted, crowded>>

WriteFailed(h) ==
  /\ pc[h] = "writing"
  /\ EndOfFlash(h, "error")
  /\ Goto(h, "idle")
  /\ UNCHANGED <<dev, serial, pending, held, rebooted, crowded>>
-----------------------------------------------------------------------------
(* The grant prompt, whose backdrop covers the page.                        *)
AbandonPendingFlash ==
  /\ pending' = Nothing
  /\ FinishFlash("error")

ClickGrant ==
  /\ modal /\ pc["grant"] = "idle"
  /\ modal' = FALSE
  /\ IF pending = Nothing THEN UNCHANGED <<pc, held>>
     ELSE Goto("grant", "granting") /\ held' = pending
  /\ UNCHANGED <<dev, serial, handle, busy, pending, rebooted, page, crowded>>

(* Slip: the prompt goes and the flash stays parked.                        *)
ClickCancel_KeepsParked ==
  /\ modal
  /\ modal' = FALSE
  /\ UNCHANGED <<dev, serial, api, pc, rebooted, page, crowded>>

ClickCancel ==
  /\ modal
  /\ IF pending = Nothing THEN modal' = FALSE /\ UNCHANGED <<handle, busy, pending, page>>
     ELSE AbandonPendingFlash
  /\ UNCHANGED <<dev, serial, held, pc, rebooted, crowded>>

GrantDfuAndResume ==
  /\ pc["grant"] = "granting"
  /\ board = "dfu"
  /\ granted' = TRUE
  /\ pending' = Nothing
  /\ handle' = TRUE
  /\ BeginWrite("grant")
  /\ UNCHANGED <<board, serial, held, rebooted, crowded>>

GrantDenied ==
  /\ pc["grant"] = "granting"
  /\ AbandonPendingFlash
  /\ Goto("grant", "idle")
  /\ UNCHANGED <<dev, serial, held, rebooted, crowded>>
-----------------------------------------------------------------------------
(* The Enter DFU button and ensureDfuDevice.                                *)
ClickEnterDfu ==
  /\ pc["enter"] = "idle"
  /\ serial /\ ~page.dfuPresent /\ ~page.busy /\ ~modal
  /\ Goto("enter", "asking")
  /\ UNCHANGED <<dev, serial, api, rebooted, view, crowded>>

EnterDfu ==
  /\ pc["enter"] = "asking"
  /\ \/ Reboot /\ serial' = FALSE /\ Goto("enter", "arriving")
     \/ UNCHANGED <<board, serial>> /\ Goto("enter", "idle")
  /\ UNCHANGED <<content, granted, api, rebooted, view, crowded>>

EnsureDfuDevice ==
  /\ pc["enter"] \in {"arriving", "choosing"}
  /\ board = "dfu"
  /\ pc["enter"] = "arriving" => granted
  /\ granted' = TRUE
  /\ handle' = TRUE
  /\ page' = Frame(page, TRUE, busy)
  /\ Goto("enter", "idle")
  /\ UNCHANGED <<board, content, serial, busy, pending, held, rebooted, modal, crowded>>

NoDfuDevice ==
  /\ \/ pc["enter"] = "arriving" /\ ~Reachable /\ Goto("enter", "choosing")
     \/ pc["enter"] = "choosing" /\ Goto("enter", "idle")
  /\ UNCHANGED <<dev, serial, api, rebooted, view, crowded>>

(* The Select DFU device button: requestDfuDevice.                          *)
SelectDfu ==
  /\ board = "dfu" /\ ~modal
  /\ granted' = TRUE
  /\ handle' = TRUE
  /\ page' = Frame(page, TRUE, busy)
  /\ UNCHANGED <<board, content, serial, busy, pending, held, pc, rebooted, modal, crowded>>

(* Entering the page: readDfu asks firstDfuDevice, which lists, and opens    *)
(* what is listed when it has no handle.                                    *)
EnterFirmwarePage ==
  /\ pc["page"] = "idle" /\ ~modal
  /\ IF busy THEN page' = Frame(page, handle, TRUE) /\ UNCHANGED pc
     ELSE Goto("page", "listing") /\ UNCHANGED page
  /\ UNCHANGED <<dev, serial, api, rebooted, modal, crowded>>

FirstDfuDevice ==
  /\ pc["page"] = "listing"
  /\ handle' = Reachable
  /\ page' = Frame(page, Reachable, busy)
  /\ Goto("page", "idle")
  /\ UNCHANGED <<dev, serial, busy, pending, held, rebooted, modal, crowded>>
-----------------------------------------------------------------------------
(* The board, its cable, and what the browser announces of them.            *)
Announce(present) == handle' = present /\ page' = Frame(page, present, busy)

Appears ==
  /\ board' = "dfu"
  /\ IF granted THEN Announce(TRUE) ELSE UNCHANGED <<handle, page>>
  /\ UNCHANGED <<content, serial, granted, busy, pending, held, pc, rebooted, modal, crowded>>

BootloaderAppears == board = "resetting" /\ Appears

PlugWithBoot0 == board = "off" /\ Appears

(* A half-written or mixed image does not boot.                             *)
BootApp ==
  /\ board = "off"
  /\ content \notin {"torn", "mixed"}
  /\ board' = "app"
  /\ UNCHANGED <<content, serial, granted, api, pc, rebooted, view, crowded>>

Unplug ==
  /\ board # "off"
  /\ board' = "off"
  /\ serial' = FALSE
  /\ IF handle THEN Announce(FALSE) ELSE UNCHANGED <<handle, page>>
  /\ UNCHANGED <<content, granted, busy, pending, held, pc, rebooted, modal, crowded>>

Connect ==
  /\ board = "app" /\ ~serial /\ ~modal
  /\ serial' = TRUE
  /\ UNCHANGED <<dev, api, pc, rebooted, view, crowded>>

Progress(f) ==
  \/ Refused(f) \/ RunFlash(f) \/ Rebooted(f) \/ RebootFailed(f)
  \/ Found(f) \/ NotFound(f) \/ Picked(f) \/ NonePicked(f) \/ ParkForGrant(f)

WriteEnds(h) == WriteDone(h) \/ WriteFailed(h)

AnswerPrompt == ClickGrant \/ ClickCancel

AnswerChooser == GrantDfuAndResume \/ GrantDenied

Next ==
  \/ \E f \in Flashes : ClickFlash(f) \/ Progress(f)
  \/ \E h \in Handlers : WriteEnds(h)
  \/ AnswerPrompt \/ AnswerChooser
  \/ ClickEnterDfu \/ EnterDfu \/ EnsureDfuDevice \/ NoDfuDevice
  \/ SelectDfu \/ EnterFirmwarePage \/ FirstDfuDevice
  \/ BootloaderAppears \/ PlugWithBoot0 \/ BootApp \/ Unplug \/ Connect

(* Fetches, timeouts and transfers end by themselves; a prompt that covers   *)
(* the page and a chooser are answered in the end.                          *)
Fairness ==
  /\ \A f \in Flashes : WF_vars(Progress(f))
  /\ \A h \in Handlers : WF_vars(WriteEnds(h))
  /\ WF_vars(AnswerPrompt) /\ WF_vars(AnswerChooser)

Spec == Init /\ [][Next]_vars /\ Fairness
-----------------------------------------------------------------------------
Pages == [busy : BOOLEAN, dfuPresent : BOOLEAN,
          phase : {"idle", "waiting", "needsdevice", "flashing", "done", "error"}]

Places == {"idle", "fetching", "rebooting", "seeking", "arriving", "choosing",
           "granting", "writing", "asking", "listing"}

TypeOK ==
  /\ board \in {"app", "resetting", "dfu", "off"}
  /\ content \in Flashes \cup {"old", "torn", "mixed"}
  /\ {pending, held} \subseteq Flashes \cup {Nothing}
  /\ pc \in [Handlers -> Places]
  /\ pc["grant"] \in {"idle", "granting", "writing"}
  /\ pc["grant"] # "idle" => held # Nothing
  /\ pc["enter"] \in {"idle", "asking", "arriving", "choosing"}
  /\ pc["page"] \in {"idle", "listing"}
  /\ rebooted \subseteq Flashes
  /\ {serial, granted, handle, busy, modal, crowded} \subseteq BOOLEAN
  /\ page \in Pages

(* api.js:241, "a firmware flash is already in progress": a bootloader never   *)
(* has two writers.                                                         *)
OneWriter == Cardinality(Writers) <= 1

(* "flash complete" on the page means the board holds a whole image.        *)
DoneIsWritten == page.phase = "done" => content \in Flashes

(* While a bootloader is being written, both flags say so, and the page      *)
(* offers no second flash.                                                  *)
BusyIsHonest == Writers # {} => busy /\ page.busy

(* A parked flash always has the button that ends it, or is being granted.   *)
ParkedHasAButton == pending # Nothing => busy /\ (modal \/ pc["grant"] = "granting")

(* The check of the flag and its setting are awaits apart (api.js:240-249,    *)
(* 317-319), and an announced or selected bootloader frees the button in     *)
(* between.  A click taken just then is the only way to break the promises:   *)
(* every other order of clicks, prompts, cables and presence keeps them.     *)
OneWriterAtATime == crowded \/ OneWriter

DoneMeansWritten == crowded \/ DoneIsWritten

BusyWhileWritten == crowded \/ BusyIsHonest

ParkedIsReachable == crowded \/ ParkedHasAButton

(* api.js:482-483: however a flash ends, the next one may start.            *)
NothingStaysBusy == (busy ~> ~busy \/ crowded) /\ (page.busy ~> ~page.busy \/ crowded)

(* api.js:69-70: "the presence poll never opens a device a write is about to  *)
(* take over".                                                             *)
PresencePollKeepsOff ==
  [][pc["page"] = "listing" /\ pc'["page"] = "idle" => handle \/ Writers = {}]_vars
=============================================================================
