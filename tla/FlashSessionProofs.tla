-------------------------- MODULE FlashSessionProofs --------------------------
(***************************************************************************)
(* One flash at a time, for any number of clicks, cables and presence polls: *)
(* what goes wrong with two of them goes wrong by a click that is taken       *)
(* before the one ahead of it has set the busy flag, and by nothing else.    *)
(***************************************************************************)
EXTENDS FlashSession, FiniteSetTheorems, TLAPS

(* A click's flash is under way: nothing is parked, and once it has set the  *)
(* busy flag the page and the Api agree that they are busy.                 *)
CourseHolds ==
  \A f \in Flashes : pc[f] # "idle" =>
    /\ pending = Nothing
    /\ pc["grant"] = "idle"
    /\ ~modal
    /\ f \in Preflight \/ (busy /\ page.busy)

OneCourse == \A f, g \in Flashes : pc[f] # "idle" /\ pc[g] # "idle" => f = g

(* A parked flash waits at the prompt, or at the chooser the prompt opened.  *)
ParkedHolds ==
  /\ pending # Nothing => busy /\ page.busy /\ (modal \/ pc["grant"] = "granting")
  /\ modal => pending # Nothing /\ pc["grant"] = "idle"
  /\ pc["grant"] = "granting" => pending # Nothing
  /\ pc["grant"] = "writing" => pending = Nothing /\ busy /\ page.busy

WriteTears == Writers # {} => content = "torn"

FlashInv ==
  TypeOK /\ CourseHolds /\ OneCourse /\ ParkedHolds /\ WriteTears /\ DoneIsWritten

-----------------------------------------------------------------------------
LEMMA InitFlashInv == Init => FlashInv
<1> SUFFICES ASSUME Init PROVE FlashInv
  OBVIOUS
<1>1. \A h \in Handlers : pc[h] = "idle"
  BY DEF Init
<1>2. "grant" \in Handlers /\ "enter" \in Handlers /\ "page" \in Handlers
  BY DEF Handlers
<1>3. Writers = {}
  BY <1>1 DEF Writers
<1>4. TypeOK
  BY <1>1, <1>2 DEF Init, TypeOK, Places, Pages
<1>5. CourseHolds /\ OneCourse
  BY <1>1 DEF CourseHolds, OneCourse, Handlers
<1>6. ParkedHolds /\ WriteTears /\ DoneIsWritten
  BY <1>1, <1>2, <1>3 DEF Init, ParkedHolds, WriteTears, DoneIsWritten
<1> QED BY <1>4, <1>5, <1>6 DEF FlashInv

(* What the helpers do to the page.                                         *)
LEMMA FrameOfPage ==
  ASSUME NEW p \in Pages, NEW present \in BOOLEAN, NEW isBusy \in BOOLEAN
  PROVE  /\ Frame(p, present, isBusy) \in Pages
         /\ Frame(p, present, isBusy).busy = isBusy
         /\ Frame(p, present, isBusy).phase = p.phase
BY DEF Frame, Pages

LEMMA EventOfPage ==
  ASSUME NEW p \in Pages,
         NEW phase \in {"idle", "waiting", "needsdevice", "flashing", "done", "error"}
  PROVE  /\ Event(p, phase) \in Pages
         /\ Event(p, phase).phase = phase
         /\ Event(p, phase).busy = (phase \notin {"done", "error"})
BY DEF Event, Pages

(* However a flash ends, its handle and flag are booleans and its page one.  *)
LEMMA EndOfFlashTypes ==
  ASSUME TypeOK, NEW h, NEW phase \in {"done", "error"}, EndOfFlash(h, phase)
  PROVE  {handle', busy', modal'} \subseteq BOOLEAN /\ page' \in Pages
<1>1. page \in Pages /\ Event(page, phase) \in Pages /\ {handle, busy} \subseteq BOOLEAN
  BY EventOfPage DEF TypeOK
<1>2. CASE Show(phase) /\ UNCHANGED <<handle, busy>>
  BY <1>1, <1>2 DEF Show
<1>3. CASE FinishFlash(phase)
  BY <1>1, <1>3, FrameOfPage DEF FinishFlash
<1> QED BY <1>2, <1>3 DEF EndOfFlash

(* Where a step sends a handler.                                            *)
LEMMA GotoMoves ==
  ASSUME TypeOK, NEW h \in Handlers, NEW where \in Places, Goto(h, where)
  PROVE  /\ pc' \in [Handlers -> Places]
         /\ pc'[h] = where
         /\ \A g \in Handlers \ {h} : pc'[g] = pc[g]
BY DEF Goto, TypeOK

LEMMA HandlersAre ==
  /\ Flashes \subseteq Handlers /\ {"grant", "enter", "page"} \subseteq Handlers
  /\ "grant" \notin Flashes /\ "enter" \notin Flashes /\ "page" \notin Flashes
  /\ \A h \in Handlers \ Flashes : h \in {"grant", "enter", "page"}
BY FlashSessionAssumption DEF Handlers

LEMMA NextTypeOK == TypeOK /\ [Next]_vars => TypeOK'
<1> SUFFICES ASSUME TypeOK, [Next]_vars PROVE TypeOK'
  OBVIOUS
<1> USE HandlersAre
<1>0. /\ page \in Pages /\ {serial, granted, handle, busy, modal, crowded} \subseteq BOOLEAN
      /\ "grant" \in Handlers /\ "enter" \in Handlers /\ "page" \in Handlers
  BY DEF TypeOK
<1>shown. \A phase \in {"idle", "waiting", "needsdevice", "flashing", "done", "error"} :
            Show(phase) => page' \in Pages /\ modal' \in BOOLEAN
  BY <1>0, EventOfPage DEF Show
<1>begun. ASSUME NEW h \in Handlers, BeginWrite(h)
          PROVE  /\ busy' \in BOOLEAN /\ page' \in Pages /\ modal' \in BOOLEAN
                 /\ Goto(h, "writing") /\ content' \in {"torn", "mixed"}
  BY <1>shown, <1>begun DEF BeginWrite
<1>1. ASSUME NEW f \in Flashes, ClickFlash(f) PROVE TypeOK'
  <2>1. Goto(f, "fetching") /\ f \in Handlers
    BY <1>1 DEF ClickFlash
  <2>2. page' \in Pages
    BY <1>0, <1>1 DEF ClickFlash, Pages
  <2> QED BY <1>1, <2>1, <2>2, GotoMoves DEF ClickFlash, TypeOK, dev, api, Places
<1>2. ASSUME NEW f \in Flashes, Refused(f) PROVE TypeOK'
  <2>1. Goto(f, "idle") /\ Show("error")
    BY <1>2 DEF Refused
  <2> QED BY <1>2, <1>shown, <2>1, GotoMoves DEF Refused, TypeOK, dev, api, Places
<1>3. ASSUME NEW f \in Flashes, RunFlash(f) PROVE TypeOK'
  <2>1. CASE serial
    <3>1. Goto(f, "rebooting") /\ Show("waiting") /\ busy' = TRUE
          /\ rebooted' = rebooted \cup {f}
      BY <1>3, <2>1 DEF RunFlash
    <3> QED BY <1>3, <1>shown, <3>1, GotoMoves DEF RunFlash, TypeOK, dev, Places
  <2>2. CASE ~serial
    <3>1. Goto(f, "seeking") /\ UNCHANGED <<busy, rebooted, view>>
      BY <1>3, <2>2 DEF RunFlash
    <3> QED BY <1>3, <3>1, GotoMoves DEF RunFlash, TypeOK, dev, view, Places
  <2> QED BY <2>1, <2>2
<1>4. ASSUME NEW f \in Flashes, Rebooted(f) PROVE TypeOK'
  <2>1. Goto(f, "arriving") /\ Show("waiting")
    BY <1>4 DEF Rebooted
  <2>2. page' \in Pages /\ modal' \in BOOLEAN
    BY <1>shown, <2>1
  <2>3. /\ board' \in {"app", "resetting", "dfu", "off"} /\ serial' = FALSE
        /\ UNCHANGED <<content, granted, api, rebooted, crowded>>
    BY <1>4 DEF Rebooted, Reboot, TypeOK
  <2>4. /\ pc' \in [Handlers -> Places] /\ pc'["grant"] = pc["grant"]
        /\ pc'["enter"] = pc["enter"] /\ pc'["page"] = pc["page"]
    BY <1>0, <2>1, GotoMoves DEF Places
  <2> QED BY <2>2, <2>3, <2>4 DEF TypeOK, api
<1>5. ASSUME NEW f \in Flashes, RebootFailed(f) PROVE TypeOK'
  <2>1. Goto(f, "idle") /\ EndOfFlash(f, "error")
    BY <1>5 DEF RebootFailed
  <2> QED BY <1>5, <1>shown, <1>begun, <2>1, GotoMoves, EndOfFlashTypes
          DEF RebootFailed, TypeOK, Places, dev
<1>6. ASSUME NEW f \in Flashes, Found(f) PROVE TypeOK'
  <2>1. BeginWrite(f)
    BY <1>6 DEF Found
  <2> QED BY <1>6, <1>shown, <1>begun, <2>1, GotoMoves, EndOfFlashTypes
          DEF Found, TypeOK, Places
<1>7. ASSUME NEW f \in Flashes, NotFound(f) PROVE TypeOK'
  <2>1. Goto(f, "choosing") /\ (Show("waiting") \/ UNCHANGED view)
    BY <1>7 DEF NotFound
  <2> QED BY <1>7, <1>shown, <1>begun, <2>1, GotoMoves, EndOfFlashTypes
          DEF NotFound, TypeOK, Places, dev, api, view
<1>8. ASSUME NEW f \in Flashes, Picked(f) PROVE TypeOK'
  <2>1. BeginWrite(f)
    BY <1>8 DEF Picked
  <2> QED BY <1>8, <1>shown, <1>begun, <2>1, GotoMoves, EndOfFlashTypes
          DEF Picked, TypeOK, Places
<1>9. ASSUME NEW f \in Flashes, NonePicked(f) PROVE TypeOK'
  <2>1. /\ Goto(f, "idle")
        /\ EndOfFlash(f, "error") \/ (Show("error") /\ UNCHANGED <<handle, busy>>)
    BY <1>9 DEF NonePicked
  <2>2. {handle', busy', modal'} \subseteq BOOLEAN /\ page' \in Pages
    BY <1>0, <1>shown, <2>1, EndOfFlashTypes
  <2> QED BY <1>9, <2>1, <2>2, GotoMoves DEF NonePicked, TypeOK, Places, dev
<1>10. ASSUME NEW f \in Flashes, ParkForGrant(f) PROVE TypeOK'
  <2>1. Goto(f, "idle") /\ Show("needsdevice")
    BY <1>10 DEF ParkForGrant
  <2> QED BY <1>10, <1>shown, <1>begun, <2>1, GotoMoves, EndOfFlashTypes
          DEF ParkForGrant, TypeOK, Places, dev
<1>11. ASSUME NEW h \in Handlers, WriteDone(h) PROVE TypeOK'
  <2>1. Goto(h, "idle") /\ EndOfFlash(h, "done") /\ pc[h] = "writing"
    BY <1>11 DEF WriteDone
  <2>2. {handle', busy', modal'} \subseteq BOOLEAN /\ page' \in Pages
    BY <2>1, EndOfFlashTypes
  <2>3. ImageOf(h) \in Flashes
    BY <2>1 DEF ImageOf, TypeOK
  <2> QED BY <1>11, <2>1, <2>2, <2>3, GotoMoves DEF WriteDone, TypeOK, Places
<1>12. ASSUME NEW h \in Handlers, WriteFailed(h) PROVE TypeOK'
  <2>1. Goto(h, "idle") /\ EndOfFlash(h, "error")
    BY <1>12 DEF WriteFailed
  <2>2. {handle', busy', modal'} \subseteq BOOLEAN /\ page' \in Pages
    BY <2>1, EndOfFlashTypes
  <2> QED BY <1>12, <2>1, <2>2, GotoMoves DEF WriteFailed, TypeOK, Places, dev
<1>abandoned. AbandonPendingFlash =>
                /\ pending' = Nothing /\ {handle', busy', modal'} \subseteq BOOLEAN
                /\ page' \in Pages
  <2>1. Event(page, "error") \in Pages
    BY <1>0, EventOfPage
  <2> HIDE DEF Event
  <2> QED BY <2>1 DEF AbandonPendingFlash, FinishFlash, Frame, Pages
<1>13. CASE ClickGrant
  <2>1. CASE pending = Nothing
    BY <1>13, <2>1 DEF ClickGrant, TypeOK, dev
  <2>2. CASE pending # Nothing
    <3>1. Goto("grant", "granting") /\ held' = pending
      BY <1>13, <2>2 DEF ClickGrant
    <3>2. /\ pc' \in [Handlers -> Places] /\ pc'["grant"] = "granting"
          /\ pc'["enter"] = pc["enter"] /\ pc'["page"] = pc["page"]
      BY <1>0, <3>1, GotoMoves DEF Places
    <3> QED BY <1>13, <2>2, <3>1, <3>2 DEF ClickGrant, TypeOK, dev
  <2> QED BY <2>1, <2>2
<1>14. CASE ClickCancel
  BY <1>0, <1>14, <1>abandoned, ZenonT(30) DEF ClickCancel, TypeOK, dev
<1>15. CASE GrantDfuAndResume
  <2>1. BeginWrite("grant") /\ pc["grant"] = "granting"
    BY <1>15 DEF GrantDfuAndResume
  <2> QED BY <1>15, <1>begun, <2>1, GotoMoves DEF GrantDfuAndResume, TypeOK, Places
<1>16. CASE GrantDenied
  <2>1. Goto("grant", "idle")
    BY <1>16 DEF GrantDenied
  <2> QED BY <1>16, <1>abandoned, <2>1, GotoMoves DEF GrantDenied, TypeOK, Places, dev
<1>17. CASE ClickEnterDfu
  <2>1. Goto("enter", "asking")
    BY <1>17 DEF ClickEnterDfu
  <2> QED BY <1>17, <2>1, GotoMoves DEF ClickEnterDfu, TypeOK, Places, dev, api, view
<1>18. CASE EnterDfu
  <2>1. \/ Goto("enter", "arriving") /\ serial' = FALSE /\ Reboot
        \/ Goto("enter", "idle") /\ UNCHANGED <<board, serial>>
    BY <1>18 DEF EnterDfu
  <2> QED BY <1>18, <2>1, GotoMoves, ZenonT(30) DEF EnterDfu, TypeOK, Places, api, view, Reboot
<1>19. CASE EnsureDfuDevice
  <2>1. Goto("enter", "idle") /\ page' = Frame(page, TRUE, busy)
    BY <1>19 DEF EnsureDfuDevice
  <2>2. page' \in Pages
    BY <1>0, <2>1 DEF Frame, Pages
  <2>3. /\ pc' \in [Handlers -> Places] /\ pc'["enter"] = "idle"
        /\ pc'["grant"] = pc["grant"] /\ pc'["page"] = pc["page"]
    BY <1>0, <2>1, GotoMoves DEF Places
  <2> QED BY <1>19, <2>2, <2>3 DEF EnsureDfuDevice, TypeOK
<1>20. CASE NoDfuDevice
  <2>1. Goto("enter", "choosing") \/ Goto("enter", "idle")
    BY <1>20 DEF NoDfuDevice
  <2> QED BY <1>20, <2>1, GotoMoves DEF NoDfuDevice, TypeOK, Places, dev, api, view
<1>21. CASE SelectDfu
  <2>1. page' \in Pages
    BY <1>0, <1>21 DEF SelectDfu, Frame, Pages
  <2> QED BY <1>21, <2>1 DEF SelectDfu, TypeOK
<1>22. CASE EnterFirmwarePage
  <2>1. page' \in Pages
    BY <1>0, <1>22 DEF EnterFirmwarePage, Frame, Pages
  <2>2. CASE busy
    BY <1>22, <2>1, <2>2 DEF EnterFirmwarePage, TypeOK, dev, api
  <2>3. CASE ~busy
    <3>1. Goto("page", "listing")
      BY <1>22, <2>3 DEF EnterFirmwarePage
    <3> QED BY <1>22, <2>1, <3>1, GotoMoves DEF EnterFirmwarePage, TypeOK, Places, dev, api
  <2> QED BY <2>2, <2>3
<1>23. CASE FirstDfuDevice
  <2>1. Goto("page", "idle") /\ handle' = Reachable /\ page' = Frame(page, Reachable, busy)
    BY <1>23 DEF FirstDfuDevice
  <2>2. Reachable \in BOOLEAN
    BY <1>0 DEF Reachable
  <2>3. page' \in Pages
    BY <1>0, <2>1, <2>2 DEF Frame, Pages
  <2> QED BY <1>23, <2>1, <2>2, <2>3, GotoMoves DEF FirstDfuDevice, TypeOK, Places, dev
<1>24. CASE BootloaderAppears \/ PlugWithBoot0
  <2>1. page' \in Pages /\ handle' \in BOOLEAN
    BY <1>0, <1>24 DEF BootloaderAppears, PlugWithBoot0, Appears, Announce, Frame, Pages
  <2> QED BY <1>24, <2>1 DEF BootloaderAppears, PlugWithBoot0, Appears, TypeOK
<1>25. CASE BootApp
  BY <1>25 DEF BootApp, TypeOK, api, view
<1>26. CASE Unplug
  <2>1. page' \in Pages /\ handle' \in BOOLEAN
    BY <1>0, <1>26 DEF Unplug, Announce, Frame, Pages
  <2> QED BY <1>26, <2>1 DEF Unplug, TypeOK
<1>27. CASE Connect
  BY <1>27 DEF Connect, TypeOK, dev, api, view
<1>28. CASE UNCHANGED vars
  BY <1>28 DEF vars, TypeOK
<1> QED
  BY <1>1, <1>2, <1>3, <1>4, <1>5, <1>6, <1>7, <1>8, <1>9, <1>10, <1>11, <1>12, <1>13, <1>14,
     <1>15, <1>16, <1>17, <1>18, <1>19, <1>20, <1>21, <1>22, <1>23, <1>24, <1>25, <1>26, <1>27,
     <1>28
  DEF Next, Progress, WriteEnds, AnswerPrompt, AnswerChooser
-----------------------------------------------------------------------------
(* A click whose flash is under way has the Api and the page to itself.      *)
LEMMA Alone ==
  ASSUME FlashInv, NEW f \in Flashes, pc[f] # "idle"
  PROVE  /\ \A g \in Flashes \ {f} : pc[g] = "idle"
         /\ pending = Nothing /\ pc["grant"] = "idle" /\ ~modal
         /\ \A h \in Handlers : pc[h] = "writing" => h = f
         /\ pc[f] # "writing" => Writers = {}
         /\ pc[f] = "writing" => content = "torn"
<1>1. /\ \A g \in Flashes \ {f} : pc[g] = "idle"
      /\ pending = Nothing /\ pc["grant"] = "idle" /\ ~modal
  BY DEF FlashInv, OneCourse, CourseHolds
<1>2. pc["enter"] # "writing" /\ pc["page"] # "writing"
  BY DEF FlashInv, TypeOK
<1>3. \A h \in Handlers : pc[h] = "writing" => h = f
  BY <1>1, <1>2, HandlersAre
<1>4. pc[f] # "writing" => Writers = {}
  BY <1>3 DEF Writers
<1>5. pc[f] = "writing" => content = "torn"
  BY HandlersAre DEF Writers, FlashInv, WriteTears
<1> QED BY <1>1, <1>3, <1>4, <1>5

(* A step that leaves its flash under way.                                  *)
LEMMA StillUnderWay ==
  ASSUME TypeOK', NEW f \in Flashes,
         \A g \in Flashes \ {f} : pc'[g] = "idle",
         pending' = Nothing, pc'["grant"] = "idle", ~modal',
         f \in Preflight' \/ (busy' /\ page'.busy), DoneIsWritten',
         pc'[f] = "writing" => content' = "torn"
  PROVE  FlashInv'
<1>1. pc'["enter"] # "writing" /\ pc'["page"] # "writing"
  BY DEF TypeOK
<1>2. \A h \in Handlers : pc'[h] = "writing" => h = f
  BY <1>1, HandlersAre
<1>3. WriteTears'
  BY <1>2 DEF WriteTears, Writers
<1>4. CourseHolds' /\ OneCourse' /\ ParkedHolds'
  BY DEF CourseHolds, OneCourse, ParkedHolds
<1> QED BY <1>3, <1>4 DEF FlashInv

(* A step after which no click's flash is under way.                        *)
LEMMA NoneUnderWay ==
  ASSUME TypeOK', \A g \in Flashes : pc'[g] = "idle", ParkedHolds',
         pc'["grant"] = "writing" => content' = "torn", DoneIsWritten'
  PROVE  FlashInv'
<1>1. pc'["enter"] # "writing" /\ pc'["page"] # "writing"
  BY DEF TypeOK
<1>2. \A h \in Handlers : pc'[h] = "writing" => h = "grant"
  BY <1>1, HandlersAre
<1>3. WriteTears'
  BY <1>2 DEF WriteTears, Writers
<1>4. CourseHolds' /\ OneCourse'
  BY DEF CourseHolds, OneCourse
<1> QED BY <1>3, <1>4 DEF FlashInv

(* A step of the bus or of another handler, which at most lets the page      *)
(* follow the Api's flag.                                                   *)
LEMMA QuietStep ==
  ASSUME FlashInv, TypeOK', UNCHANGED <<busy, pending, rebooted, modal, content>>,
         \A h \in Flashes \cup {"grant"} : pc'[h] = pc[h],
         page'.phase = page.phase,
         page'.busy \in {page.busy, busy}
  PROVE  FlashInv'
<1>1. Preflight' = Preflight
  BY DEF Preflight
<1>2. CourseHolds'
  BY <1>1 DEF FlashInv, CourseHolds
<1>3. OneCourse'
  BY DEF FlashInv, OneCourse
<1>4. ParkedHolds'
  BY DEF FlashInv, ParkedHolds
<1>5. pc'["enter"] # "writing" /\ pc'["page"] # "writing"
  BY DEF TypeOK
<1>6. Writers' \subseteq Writers
  BY <1>5, HandlersAre DEF Writers
<1>7. WriteTears'
  BY <1>6 DEF FlashInv, WriteTears
<1>8. DoneIsWritten'
  BY DEF FlashInv, DoneIsWritten
<1> QED BY <1>2, <1>3, <1>4, <1>7, <1>8 DEF FlashInv

(* The last frame of a flash, when no other is parked.                      *)
LEMMA Finishes ==
  ASSUME TypeOK, NEW phase \in {"done", "error"}, FinishFlash(phase)
  PROVE  busy' = FALSE /\ modal' = FALSE /\ page'.phase = phase
<1>1. Event(page, phase) \in Pages /\ Event(page, phase).phase = phase
  BY EventOfPage DEF TypeOK
<1> HIDE DEF Event
<1> QED BY <1>1 DEF FinishFlash, Frame, Pages

LEMMA Shows ==
  ASSUME TypeOK, Show("waiting") \/ Show("flashing")
  PROVE  ~modal' /\ page'.busy /\ page'.phase # "done"
BY DEF Show, Event, TypeOK, Pages
-----------------------------------------------------------------------------
LEMMA NextFlashInv ==
  ASSUME FlashInv, [Next]_vars, ~crowded'
  PROVE  FlashInv'
<1> USE HandlersAre
<1>0. TypeOK /\ TypeOK'
  BY NextTypeOK DEF FlashInv
<1>moved. ASSUME NEW f \in Flashes, NEW where \in Places, Goto(f, where)
          PROVE  /\ pc'[f] = where /\ pc'["grant"] = pc["grant"]
                 /\ \A g \in Flashes \ {f} : pc'[g] = pc[g]
  BY <1>0, <1>moved, GotoMoves
<1>1. ASSUME NEW f \in Flashes, ClickFlash(f) PROVE FlashInv'
  <2>1. Goto(f, "fetching") /\ ~page.busy /\ ~modal /\ Preflight = {}
    BY <1>1 DEF ClickFlash, CanFlash
  <2>2. /\ pending = Nothing /\ pc["grant"] = "idle"
        /\ \A g \in Flashes : pc[g] = "idle"
    BY <1>0, <2>1 DEF FlashInv, CourseHolds, ParkedHolds, TypeOK
  <2>3. /\ pc'[f] = "fetching" /\ pc'["grant"] = "idle"
        /\ \A g \in Flashes \ {f} : pc'[g] = "idle"
    BY <1>moved, <2>1, <2>2 DEF Places
  <2>4. page'.phase # "done" /\ pending' = Nothing /\ ~modal'
    BY <1>0, <1>1, <2>1, <2>2 DEF ClickFlash, api, TypeOK, Pages
  <2>5. f \in Preflight'
    BY <1>1, <2>3 DEF ClickFlash, Preflight
  <2> QED BY <1>0, <2>3, <2>4, <2>5, StillUnderWay DEF DoneIsWritten
<1>2. ASSUME NEW f \in Flashes, Refused(f) PROVE FlashInv'
  <2>1. Goto(f, "idle") /\ Show("error") /\ pc[f] # "idle"
    BY <1>2 DEF Refused
  <2>2. \A g \in Flashes : pc'[g] = "idle"
    BY <1>moved, <2>1, Alone DEF Places
  <2>3. pending' = Nothing /\ pc'["grant"] = "idle" /\ ~modal' /\ page'.phase = "error"
    BY <1>0, <1>2, <1>moved, <2>1, Alone DEF Refused, api, Show, Event, Places, TypeOK, Pages
  <2> QED BY <1>0, <2>2, <2>3, NoneUnderWay DEF ParkedHolds, DoneIsWritten
<1>3. ASSUME NEW f \in Flashes, RunFlash(f) PROVE FlashInv'
  <2>1. CASE serial
    <3>1. Goto(f, "rebooting") /\ Show("waiting") /\ busy' = TRUE /\ pc[f] # "idle"
      BY <1>3, <2>1 DEF RunFlash
    <3>2. /\ pc'[f] = "rebooting" /\ pc'["grant"] = "idle"
          /\ \A g \in Flashes \ {f} : pc'[g] = "idle"
      BY <1>moved, <3>1, Alone DEF Places
    <3>3. pending' = Nothing
      BY <1>3, <3>1, Alone DEF RunFlash
    <3>4. ~modal' /\ page'.busy /\ page'.phase # "done"
      BY <1>0, <3>1, Shows
    <3> QED BY <1>0, <3>1, <3>2, <3>3, <3>4, StillUnderWay DEF DoneIsWritten
  <2>2. CASE ~serial
    <3>1. Goto(f, "seeking") /\ UNCHANGED <<busy, rebooted, view, content>> /\ pc[f] = "fetching"
      BY <1>3, <2>2 DEF RunFlash, dev
    <3>2. /\ pc'[f] = "seeking" /\ pc'["grant"] = "idle"
          /\ \A g \in Flashes \ {f} : pc'[g] = "idle"
      BY <1>moved, <3>1, Alone DEF Places
    <3>3. pending' = Nothing /\ ~modal'
      BY <1>3, <3>1, Alone DEF RunFlash, view
    <3>4. f \in Preflight \/ (busy /\ page.busy)
      BY <3>1 DEF FlashInv, CourseHolds
    <3>5. f \in Preflight' \/ (busy' /\ page'.busy)
      BY <3>1, <3>2, <3>4 DEF Preflight, view
    <3>6. DoneIsWritten'
      BY <3>1 DEF FlashInv, DoneIsWritten, view
    <3> QED BY <1>0, <3>2, <3>3, <3>5, <3>6, StillUnderWay
  <2> QED BY <2>1, <2>2
<1>4. ASSUME NEW f \in Flashes, Rebooted(f) PROVE FlashInv'
  <2>1. Goto(f, "arriving") /\ Show("waiting") /\ pc[f] = "rebooting"
    BY <1>4 DEF Rebooted
  <2>2. /\ pc'[f] = "arriving" /\ pc'["grant"] = "idle"
        /\ \A g \in Flashes \ {f} : pc'[g] = "idle"
    BY <1>moved, <2>1, Alone DEF Places
  <2>3. f \notin Preflight
    BY <2>1 DEF Preflight
  <2>4. pending' = Nothing /\ busy'
    BY <1>4, <2>1, <2>3, Alone DEF Rebooted, api, FlashInv, CourseHolds
  <2>5. ~modal' /\ page'.busy /\ page'.phase # "done"
    BY <1>0, <2>1, Shows
  <2> QED BY <1>0, <2>2, <2>4, <2>5, StillUnderWay DEF DoneIsWritten
<1>ended. ASSUME NEW f \in Flashes, NEW phase \in {"done", "error"}, pc[f] # "idle",
                 Goto(f, "idle"), EndOfFlash(f, phase), UNCHANGED pending,
                 phase = "done" => content' \in Flashes
          PROVE  FlashInv'
  <2>1. FinishFlash(phase)
    BY <1>ended, Alone DEF EndOfFlash
  <2>2. ~modal' /\ page'.phase = phase
    BY <1>0, <2>1, Finishes
  <2>3. /\ pc'["grant"] = "idle" /\ pending' = Nothing
        /\ \A g \in Flashes : pc'[g] = "idle"
    BY <1>moved, <1>ended, Alone DEF Places
  <2> QED BY <1>0, <1>ended, <2>2, <2>3, NoneUnderWay DEF ParkedHolds, DoneIsWritten
<1>5. ASSUME NEW f \in Flashes, RebootFailed(f) PROVE FlashInv'
  BY <1>5, <1>ended DEF RebootFailed
<1>begun. ASSUME NEW f \in Flashes, pc[f] \notin {"idle", "writing"}, BeginWrite(f),
                 UNCHANGED pending
          PROVE  FlashInv'
  <2>1. Goto(f, "writing") /\ busy' = TRUE /\ Show("flashing")
    BY <1>begun DEF BeginWrite
  <2>2. /\ pc'[f] = "writing" /\ pc'["grant"] = "idle" /\ pending' = Nothing
        /\ \A g \in Flashes \ {f} : pc'[g] = "idle"
    BY <1>moved, <1>begun, <2>1, Alone DEF Places
  <2>3. content' = "torn"
    BY <1>begun, Alone DEF BeginWrite
  <2>4. ~modal' /\ page'.busy /\ page'.phase # "done"
    BY <1>0, <2>1, Shows
  <2> QED BY <1>0, <2>1, <2>2, <2>3, <2>4, StillUnderWay DEF DoneIsWritten
<1>6. ASSUME NEW f \in Flashes, Found(f) PROVE FlashInv'
  BY <1>6, <1>begun DEF Found
<1>7. ASSUME NEW f \in Flashes, NotFound(f) PROVE FlashInv'
  <2>1. /\ Goto(f, "choosing") /\ pc[f] \in {"seeking", "arriving"}
        /\ UNCHANGED <<busy, pending, rebooted, content>>
    BY <1>7 DEF NotFound, api, dev
  <2>2. /\ pc'[f] = "choosing" /\ pc'["grant"] = "idle" /\ pending' = Nothing
        /\ \A g \in Flashes \ {f} : pc'[g] = "idle"
    BY <1>moved, <2>1, Alone DEF Places
  <2>3. Show("waiting") \/ UNCHANGED view
    BY <1>7 DEF NotFound
  <2>4. f \in Preflight' \/ (busy' /\ page'.busy)
    BY <1>0, <2>1, <2>2, <2>3, Shows DEF FlashInv, CourseHolds, Preflight, view
  <2>5. ~modal'
    BY <1>0, <2>1, <2>3, Shows, Alone DEF view
  <2>6. DoneIsWritten'
    BY <1>0, <2>1, <2>3, Shows DEF view, FlashInv, DoneIsWritten
  <2> QED BY <1>0, <2>2, <2>4, <2>5, <2>6, StillUnderWay
<1>8. ASSUME NEW f \in Flashes, Picked(f) PROVE FlashInv'
  BY <1>8, <1>begun DEF Picked
<1>9. ASSUME NEW f \in Flashes, NonePicked(f) PROVE FlashInv'
  <2>1. CASE EndOfFlash(f, "error")
    BY <1>9, <1>ended, <2>1 DEF NonePicked
  <2>2. CASE Show("error")
    <3>1. Goto(f, "idle") /\ pc[f] # "idle" /\ UNCHANGED pending
      BY <1>9 DEF NonePicked
    <3>2. /\ pc'["grant"] = "idle" /\ pending' = Nothing
          /\ \A g \in Flashes : pc'[g] = "idle"
      BY <1>moved, <3>1, Alone DEF Places
    <3>3. ~modal' /\ page'.phase = "error"
      BY <1>0, <2>2 DEF Show, Event, TypeOK, Pages
    <3> QED BY <1>0, <3>2, <3>3, NoneUnderWay DEF ParkedHolds, DoneIsWritten
  <2> QED BY <1>9, <2>1, <2>2 DEF NonePicked
<1>10. ASSUME NEW f \in Flashes, ParkForGrant(f) PROVE FlashInv'
  <2>1. Goto(f, "idle") /\ pc[f] # "idle" /\ pending' = f /\ busy' = TRUE /\ Show("needsdevice")
    BY <1>10 DEF ParkForGrant
  <2>2. pc'["grant"] = "idle" /\ \A g \in Flashes : pc'[g] = "idle"
    BY <1>moved, <2>1, Alone DEF Places
  <2>3. modal' /\ page'.phase = "needsdevice" /\ page'.busy
    BY <1>0, <2>1 DEF Show, Event, TypeOK, Pages
  <2>4. pending' # Nothing
    BY <2>1, FlashSessionAssumption
  <2> QED BY <1>0, <2>1, <2>2, <2>3, <2>4, NoneUnderWay DEF ParkedHolds, DoneIsWritten
<1>grant. ASSUME pc["grant"] # "idle"
          PROVE  \A g \in Flashes : pc[g] = "idle"
  BY <1>grant, Alone
<1>parked. ASSUME pending # Nothing
           PROVE  /\ \A g \in Flashes : pc[g] = "idle"
                  /\ pc["grant"] # "writing" /\ Writers = {}
  <2>1. \A g \in Flashes : pc[g] = "idle"
    BY <1>parked, Alone
  <2>2. pc["grant"] # "writing"
    BY <1>parked DEF FlashInv, ParkedHolds
  <2> QED BY <1>0, <2>1, <2>2 DEF Writers, TypeOK
<1>grants. ASSUME NEW where \in Places, Goto("grant", where)
           PROVE  pc'["grant"] = where /\ \A g \in Flashes : pc'[g] = pc[g]
  BY <1>0, <1>grants, GotoMoves
<1>granted. ASSUME NEW phase \in {"done", "error"}, pc["grant"] = "writing",
                   Goto("grant", "idle"), EndOfFlash("grant", phase), UNCHANGED pending,
                   phase = "done" => content' \in Flashes
            PROVE  FlashInv'
  <2>1. FinishFlash(phase)
    BY <1>0, <1>granted DEF EndOfFlash, TypeOK
  <2>2. ~modal' /\ page'.phase = phase
    BY <1>0, <2>1, Finishes
  <2>3. pc'["grant"] = "idle" /\ pending' = Nothing /\ \A g \in Flashes : pc'[g] = "idle"
    BY <1>granted, <1>grants, <1>grant DEF Places, FlashInv, ParkedHolds
  <2> QED BY <1>0, <1>granted, <2>2, <2>3, NoneUnderWay DEF ParkedHolds, DoneIsWritten
<1>11. ASSUME NEW h \in Handlers, WriteDone(h) PROVE FlashInv'
  <2>1. /\ pc[h] = "writing" /\ Goto(h, "idle") /\ EndOfFlash(h, "done") /\ UNCHANGED pending
        /\ content' = IF Writers = {h} /\ content = "torn" THEN ImageOf(h) ELSE "mixed"
    BY <1>11 DEF WriteDone
  <2>2. h \in Flashes \/ h = "grant"
    BY <1>0, <2>1 DEF TypeOK
  <2>3. h \in Writers
    BY <2>1 DEF Writers
  <2>4. content = "torn"
    BY <2>3 DEF FlashInv, WriteTears
  <2>5. Writers = {h}
    <3>1. CASE h \in Flashes
      BY <2>1, <2>3, <3>1, Alone DEF Writers
    <3>2. CASE h = "grant"
      <4>1. \A g \in Handlers : pc[g] = "writing" => g = "grant"
        BY <1>0, <1>grant, <2>1, <3>2 DEF TypeOK
      <4> QED BY <2>3, <3>2, <4>1 DEF Writers
    <3> QED BY <2>2, <3>1, <3>2
  <2>6. ImageOf(h) \in Flashes
    BY <1>0, <2>1, <2>2 DEF ImageOf, TypeOK
  <2>7. content' \in Flashes
    BY <2>1, <2>4, <2>5, <2>6
  <2>8. CASE h \in Flashes
    BY <1>ended, <2>1, <2>7, <2>8
  <2>9. CASE h = "grant"
    BY <1>granted, <2>1, <2>7, <2>9
  <2> QED BY <2>2, <2>8, <2>9
<1>12. ASSUME NEW h \in Handlers, WriteFailed(h) PROVE FlashInv'
  <2>1. pc[h] = "writing" /\ Goto(h, "idle") /\ EndOfFlash(h, "error") /\ UNCHANGED pending
    BY <1>12 DEF WriteFailed
  <2>2. h \in Flashes \/ h = "grant"
    BY <1>0, <2>1 DEF TypeOK
  <2>3. CASE h \in Flashes
    BY <1>ended, <2>1, <2>3
  <2>4. CASE h = "grant"
    BY <1>granted, <2>1, <2>4
  <2> QED BY <2>2, <2>3, <2>4
<1>13. CASE ClickGrant
  <2>1. modal /\ pending # Nothing /\ pc["grant"] = "idle" /\ busy /\ page.busy
    BY <1>13 DEF ClickGrant, FlashInv, ParkedHolds
  <2>2. /\ Goto("grant", "granting") /\ modal' = FALSE
        /\ UNCHANGED <<busy, pending, page, content>>
    BY <1>13, <2>1 DEF ClickGrant, dev
  <2>3. pc'["grant"] = "granting" /\ \A g \in Flashes : pc'[g] = "idle"
    BY <1>grants, <1>parked, <2>1, <2>2 DEF Places
  <2>4. ParkedHolds' /\ DoneIsWritten'
    BY <2>1, <2>2, <2>3 DEF FlashInv, ParkedHolds, DoneIsWritten
  <2> QED BY <1>0, <2>3, <2>4, NoneUnderWay
<1>abandoned. ASSUME AbandonPendingFlash, pending # Nothing, pc'["grant"] = "idle",
                     \A g \in Flashes : pc'[g] = pc[g]
              PROVE  FlashInv'
  <2>1. pending' = Nothing /\ ~modal' /\ page'.phase = "error"
    BY <1>0, <1>abandoned, Finishes DEF AbandonPendingFlash
  <2>2. \A g \in Flashes : pc'[g] = "idle"
    BY <1>abandoned, <1>parked
  <2> QED BY <1>0, <1>abandoned, <2>1, <2>2, NoneUnderWay DEF ParkedHolds, DoneIsWritten
<1>14. CASE ClickCancel
  <2>1. modal /\ pending # Nothing /\ pc["grant"] = "idle" /\ pc' = pc
    BY <1>14 DEF ClickCancel, FlashInv, ParkedHolds
  <2> QED BY <1>14, <1>abandoned, <2>1 DEF ClickCancel
<1>15. CASE GrantDfuAndResume
  <2>1. /\ pc["grant"] = "granting" /\ pending' = Nothing /\ BeginWrite("grant")
        /\ pending # Nothing
    BY <1>15 DEF GrantDfuAndResume, FlashInv, ParkedHolds
  <2>2. Goto("grant", "writing") /\ busy' = TRUE /\ Show("flashing") /\ content' = "torn"
    BY <1>parked, <2>1 DEF BeginWrite
  <2>3. pc'["grant"] = "writing" /\ \A g \in Flashes : pc'[g] = "idle"
    BY <1>grants, <1>parked, <2>1, <2>2 DEF Places
  <2>4. ~modal' /\ page'.busy /\ page'.phase # "done"
    BY <1>0, <2>2, Shows
  <2> QED BY <1>0, <2>1, <2>2, <2>3, <2>4, NoneUnderWay DEF ParkedHolds, DoneIsWritten
<1>16. CASE GrantDenied
  <2>1. /\ pc["grant"] = "granting" /\ Goto("grant", "idle") /\ AbandonPendingFlash
        /\ pending # Nothing
    BY <1>16 DEF GrantDenied, FlashInv, ParkedHolds
  <2>2. pc'["grant"] = "idle" /\ \A g \in Flashes : pc'[g] = pc[g]
    BY <1>grants, <2>1 DEF Places
  <2> QED BY <1>abandoned, <2>1, <2>2
<1>elsewhere. ASSUME NEW h \in {"enter", "page"}, NEW where \in Places, Goto(h, where)
              PROVE  \A g \in Flashes \cup {"grant"} : pc'[g] = pc[g]
  BY <1>0, <1>elsewhere, GotoMoves
<1>framed. ASSUME NEW present \in BOOLEAN, page' = Frame(page, present, busy)
           PROVE  page'.phase = page.phase /\ page'.busy = busy
  BY <1>0, <1>framed DEF Frame, TypeOK, Pages
<1>17. CASE ClickEnterDfu
  <2>1. Goto("enter", "asking")
    BY <1>17 DEF ClickEnterDfu
  <2> QED BY <1>0, <1>17, <1>elsewhere, <2>1, QuietStep
          DEF ClickEnterDfu, dev, api, view, Places
<1>18. CASE EnterDfu
  <2>1. Goto("enter", "arriving") \/ Goto("enter", "idle")
    BY <1>18 DEF EnterDfu
  <2>2. \A g \in Flashes \cup {"grant"} : pc'[g] = pc[g]
    BY <1>elsewhere, <2>1 DEF Places
  <2> QED BY <1>0, <1>18, <2>2, QuietStep DEF EnterDfu, api, view
<1>19. CASE EnsureDfuDevice
  <2>1. Goto("enter", "idle") /\ page' = Frame(page, TRUE, busy)
    BY <1>19 DEF EnsureDfuDevice
  <2>2. \A g \in Flashes \cup {"grant"} : pc'[g] = pc[g]
    BY <1>elsewhere, <2>1 DEF Places
  <2>3. page'.phase = page.phase /\ page'.busy = busy
    BY <1>framed, <2>1
  <2> QED BY <1>0, <1>19, <2>1, <2>2, <2>3, QuietStep DEF EnsureDfuDevice
<1>20. CASE NoDfuDevice
  <2>1. Goto("enter", "choosing") \/ Goto("enter", "idle")
    BY <1>20 DEF NoDfuDevice
  <2>2. \A g \in Flashes \cup {"grant"} : pc'[g] = pc[g]
    BY <1>elsewhere, <2>1 DEF Places
  <2> QED BY <1>0, <1>20, <2>2, QuietStep DEF NoDfuDevice, dev, api, view
<1>21. CASE SelectDfu
  <2>1. page' = Frame(page, TRUE, busy) /\ pc' = pc
    BY <1>21 DEF SelectDfu
  <2>2. page'.phase = page.phase /\ page'.busy = busy
    BY <1>framed, <2>1
  <2> QED BY <1>0, <1>21, <2>1, <2>2, QuietStep DEF SelectDfu
<1>22. CASE EnterFirmwarePage
  <2>2. CASE busy
    <3>1. page'.phase = page.phase /\ page'.busy = busy /\ pc' = pc
      BY <1>0, <1>22, <2>2, ZenonT(30) DEF EnterFirmwarePage, Frame, TypeOK, Pages
    <3> QED BY <1>0, <1>22, <3>1, QuietStep DEF EnterFirmwarePage, dev, api
  <2>3. CASE ~busy
    <3>1. Goto("page", "listing") /\ page' = page
      BY <1>22, <2>3 DEF EnterFirmwarePage
    <3>2. \A g \in Flashes \cup {"grant"} : pc'[g] = pc[g]
      BY <1>elsewhere, <3>1 DEF Places
    <3> QED BY <1>0, <1>22, <3>1, <3>2, QuietStep DEF EnterFirmwarePage, dev, api
  <2> QED BY <2>2, <2>3
<1>23. CASE FirstDfuDevice
  <2>1. /\ Goto("page", "idle") /\ page' = Frame(page, Reachable, busy)
    BY <1>23 DEF FirstDfuDevice
  <2>2. \A g \in Flashes \cup {"grant"} : pc'[g] = pc[g]
    BY <1>elsewhere, <2>1 DEF Places
  <2>3. page'.phase = page.phase /\ page'.busy = busy
    BY <1>0, <2>1 DEF Frame, TypeOK, Pages
  <2> QED BY <1>0, <1>23, <2>1, <2>2, <2>3, QuietStep DEF FirstDfuDevice, dev
<1>announced. ASSUME NEW present \in BOOLEAN,
                     Announce(present) \/ UNCHANGED page
              PROVE  page'.phase = page.phase /\ page'.busy \in {page.busy, busy}
  BY <1>announced, <1>framed DEF Announce
<1>24. CASE BootloaderAppears \/ PlugWithBoot0
  <2>1. /\ Announce(TRUE) \/ UNCHANGED page
        /\ UNCHANGED <<busy, pending, rebooted, modal, content, pc>>
    BY <1>24 DEF BootloaderAppears, PlugWithBoot0, Appears
  <2> QED BY <1>0, <1>announced, <2>1, QuietStep
<1>25. CASE BootApp
  BY <1>0, <1>25, QuietStep DEF BootApp, api, view
<1>26. CASE Unplug
  <2>1. /\ Announce(FALSE) \/ UNCHANGED page
        /\ UNCHANGED <<busy, pending, rebooted, modal, content, pc>>
    BY <1>26 DEF Unplug
  <2> QED BY <1>0, <1>announced, <2>1, QuietStep
<1>27. CASE Connect
  BY <1>0, <1>27, QuietStep DEF Connect, dev, api, view
<1>28. CASE UNCHANGED vars
  BY <1>0, <1>28, QuietStep DEF vars
<1> QED
  BY <1>1, <1>2, <1>3, <1>4, <1>5, <1>6, <1>7, <1>8, <1>9, <1>10, <1>11, <1>12, <1>13, <1>14,
     <1>15, <1>16, <1>17, <1>18, <1>19, <1>20, <1>21, <1>22, <1>23, <1>24, <1>25, <1>26, <1>27,
     <1>28
  DEF Next, Progress, WriteEnds, AnswerPrompt, AnswerChooser
-----------------------------------------------------------------------------
LEMMA FlashSafe == FlashInv => OneWriter /\ BusyIsHonest /\ ParkedHasAButton
<1> SUFFICES ASSUME FlashInv PROVE OneWriter /\ BusyIsHonest /\ ParkedHasAButton
  OBVIOUS
<1>1. Writers = {} \/ \E h \in Handlers : Writers = {h} /\ pc[h] = "writing"
  <2>1. CASE \E f \in Flashes : pc[f] = "writing"
    BY <2>1, Alone, HandlersAre DEF Writers
  <2>2. CASE \A f \in Flashes : pc[f] # "writing"
    <3>1. \A h \in Handlers : pc[h] = "writing" => h = "grant"
      BY <2>2, HandlersAre DEF FlashInv, TypeOK
    <3> QED BY <3>1, HandlersAre DEF Writers
  <2> QED BY <2>1, <2>2
<1>2. OneWriter
  <2>1. CASE Writers = {}
    BY <2>1, FS_EmptySet DEF OneWriter
  <2>2. CASE Writers # {}
    <3>1. PICK h \in Handlers : Writers = {h}
      BY <1>1, <2>2
    <3>2. Cardinality({h}) = 1
      BY FS_Singleton
    <3> QED BY <3>1, <3>2 DEF OneWriter
  <2> QED BY <2>1, <2>2
<1>3. BusyIsHonest
  <2> SUFFICES ASSUME Writers # {} PROVE busy /\ page.busy
    BY DEF BusyIsHonest
  <2>1. PICK h \in Handlers : pc[h] = "writing"
    BY <1>1
  <2>2. h \in Flashes \/ h = "grant"
    BY <2>1, HandlersAre DEF FlashInv, TypeOK
  <2>3. CASE h \in Flashes
    BY <2>1, <2>3 DEF FlashInv, CourseHolds, Preflight
  <2>4. CASE h = "grant"
    BY <2>1, <2>4 DEF FlashInv, ParkedHolds
  <2> QED BY <2>2, <2>3, <2>4
<1>4. ParkedHasAButton
  BY DEF FlashInv, ParkedHolds, ParkedHasAButton
<1> QED BY <1>2, <1>3, <1>4

(* The history only grows.                                                  *)
LEMMA CrowdedStays == [Next]_vars /\ ~crowded' => ~crowded
<1> SUFFICES ASSUME [Next]_vars PROVE crowded' = crowded \/ \E f \in Flashes : ClickFlash(f)
  BY DEF ClickFlash
<1> QED BY DEF Next, Progress, WriteEnds, AnswerPrompt, AnswerChooser, vars, Refused, RunFlash,
              Rebooted, RebootFailed, Found, NotFound, Picked, NonePicked, ParkForGrant,
              WriteDone, WriteFailed, ClickGrant, ClickCancel, GrantDfuAndResume, GrantDenied,
              ClickEnterDfu, EnterDfu, EnsureDfuDevice, NoDfuDevice, SelectDfu,
              EnterFirmwarePage, FirstDfuDevice, BootloaderAppears, PlugWithBoot0, Appears,
              BootApp, Unplug, Connect

(* The variables keep their types.                                          *)
THEOREM FlashTypes == Spec => []TypeOK
<1>1. Init => TypeOK
  BY InitFlashInv DEF FlashInv
<1>2. TypeOK /\ [Next]_vars => TypeOK'
  BY NextTypeOK
<1> QED BY <1>1, <1>2, PTL DEF Spec

LEMMA FlashInvHolds == Spec => [](crowded \/ FlashInv)
<1>1. (crowded \/ FlashInv) /\ [Next]_vars => (crowded \/ FlashInv)'
  BY NextFlashInv, CrowdedStays
<1> QED BY <1>1, InitFlashInv, PTL DEF Spec

(* A bootloader never has two writers, however many clicks are under way     *)
(* (api.js:241), unless one was taken before the one ahead of it had set the  *)
(* flag: runFlash looks at the flag only once.                              *)
THEOREM OneWriterHolds == Spec => []OneWriterAtATime
<1>1. (crowded \/ FlashInv) => OneWriterAtATime
  BY FlashSafe DEF OneWriterAtATime
<1> QED BY <1>1, FlashInvHolds, PTL

(* "flash complete" is shown only of a board that holds one whole image,      *)
(* with the same one exception.                                             *)
THEOREM DoneIsWrittenHolds == Spec => []DoneMeansWritten
<1>1. (crowded \/ FlashInv) => DoneMeansWritten
  BY DEF FlashInv, DoneMeansWritten
<1> QED BY <1>1, FlashInvHolds, PTL

(* While the bootloader is written both flags say so, with the same one       *)
(* exception.                                                               *)
THEOREM BusyIsHonestHolds == Spec => []BusyWhileWritten
<1>1. (crowded \/ FlashInv) => BusyWhileWritten
  BY FlashSafe DEF BusyWhileWritten
<1> QED BY <1>1, FlashInvHolds, PTL

(* A parked flash is never left without the prompt or chooser that ends it,   *)
(* with the same one exception.                                             *)
THEOREM ParkedHasAButtonHolds == Spec => []ParkedIsReachable
<1>1. (crowded \/ FlashInv) => ParkedIsReachable
  BY FlashSafe DEF ParkedIsReachable
<1> QED BY <1>1, FlashInvHolds, PTL
=============================================================================
