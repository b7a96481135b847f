------------------------------- MODULE Session -------------------------------
(***************************************************************************)
(* The configurator and a board at the two ends of a serial port.  In the   *)
(* browser: SerialLink's request table and write queue, DeviceModel's       *)
(* cached values, and the handlers of the shell's buttons, each of which     *)
(* sends, awaits an answer and goes on while others run.  On the board: the *)
(* dispatcher, one request at a time, over settings in RAM and in flash     *)
(* (FlashStore, reduced to what SettingsStore promises).                    *)
(***************************************************************************)
EXTENDS Sequences, Naturals, FiniteSets

CONSTANTS
  Keys, Values,
  Factory,          \* the defaults
  Nothing,          \* what an empty store holds
  Tasks,            \* handlers that may be awaiting something at once
  Ops,              \* the buttons: set, save, termsave, defaults, revert
  MaxId,            \* ids run from 1 to MaxId
  MaxWire,          \* messages on the wires when a button is pressed
  Timeouts,         \* whether a request may time out
  MayUnplug,        \* whether the cable may be pulled
  MayDisconnect,    \* whether the user may press Disconnect
  OwnPower          \* whether the board may, and may not, run on without the cable

Settings == [Keys -> Values]

ASSUME SessionAssumption ==
  /\ Factory \in Settings /\ Nothing \notin Settings
  /\ Ops \subseteq {"set", "save", "termsave", "defaults", "revert"}
  /\ MaxId \in Nat \ {0} /\ MaxWire \in Nat /\ IsFiniteSet(Tasks)
  /\ MaxWire + Cardinality(Tasks) <= MaxId
  /\ {Timeouts, MayUnplug, MayDisconnect} \cup OwnPower \subseteq BOOLEAN

VARIABLES
  ram, stored,      \* the board's settings
  plugged,          \* whether the cable is in
  toDev, toHost,    \* the two directions of the serial stream
  link,             \* [state, broken, nextId]: broken is a rejected write queue
  pending,          \* request id -> the task awaiting it
  task,             \* [pc, op, arg, src] of each handler
  values,           \* DeviceModel's cache
  dirty,            \* the shell's "not saved" flag
  refused,          \* history: the last connect failed with the board there
  word              \* history: the id of the request that had the last word on a key

device == <<ram, stored, plugged>>
vars   ==
  <<ram, stored, plugged, toDev, toHost, link, pending, task, values, dirty, refused, word>>

(* word[key]: the id of the request by which the board last set or read the   *)
(* key; or that the page has had its answer; or that nobody waits for it.     *)
Told   == 0
Lapsed == MaxId + 1

Restored(image) == IF image = Nothing THEN Factory ELSE image

Idle == [pc |-> "idle"]

Init ==
  /\ stored \in Settings \cup {Nothing}
  /\ ram = Restored(stored)
  /\ plugged = TRUE
  /\ toDev = <<>> /\ toHost = <<>>
  /\ link = [state |-> "disconnected", broken |-> FALSE, nextId |-> 1]
  /\ pending = <<>>
  /\ task = [t \in Tasks |-> Idle]
  /\ values = Factory
  /\ dirty = FALSE
  /\ refused = FALSE
  /\ word = [k \in Keys |-> Told]
-----------------------------------------------------------------------------
(* The board: Dispatcher::handle.  It answers on an open port only.         *)
Answer(m, fields) ==
  toHost' = IF plugged /\ link.state = "connected" THEN Append(toHost, fields) ELSE toHost

(* An answer with the request it answers, of which the wire carries the id.  *)
Reply(m, src, vals) ==
  [id |-> m.id, task |-> m.task, op |-> m.op, arg |-> m.arg, src |-> src, vals |-> vals]

(* The requests that leave the page behind, unless it hears of them.         *)
Concerns(m, k) ==
  \/ m.op \in {"defaults", "revert", "getall"}
  \/ m.op = "set" /\ m.arg.key = k

Speaks(m) ==
  word' = [k \in Keys |-> IF ~Concerns(m, k) THEN word[k]
                          ELSE IF m.id \in DOMAIN pending THEN m.id ELSE Lapsed]

(* The request id is closed: its word on the keys is heard, or is not.        *)
Closes(id, how) == word' = [k \in Keys |-> IF word[k] = id THEN how ELSE word[k]]

HandleSet(m) ==
  /\ m.op = "set"
  /\ ram' = [ram EXCEPT ![m.arg.key] = m.arg.val]
  /\ UNCHANGED stored
  /\ Answer(m, Reply(m, "", <<>>))

HandleSave(m) ==
  /\ m.op = "save"
  /\ stored' = ram
  /\ UNCHANGED ram
  /\ Answer(m, Reply(m, "", <<>>))

HandleDefaults(m) ==
  /\ m.op = "defaults"
  /\ ram' = Factory
  /\ UNCHANGED stored
  /\ Answer(m, Reply(m, "", <<>>))

HandleRevert(m) ==
  /\ m.op = "revert"
  /\ ram' = Restored(stored)
  /\ UNCHANGED stored
  /\ Answer(m, Reply(m, IF stored = Nothing THEN "defaults" ELSE "flash", <<>>))

HandleGetAll(m) ==
  /\ m.op = "getall"
  /\ UNCHANGED <<ram, stored>>
  /\ Answer(m, Reply(m, "", ram))

Handle ==
  /\ toDev # <<>>
  /\ LET m == Head(toDev)
     IN  HandleSet(m) \/ HandleSave(m) \/ HandleDefaults(m) \/ HandleRevert(m) \/ HandleGetAll(m)
  /\ Speaks(Head(toDev))
  /\ toDev' = Tail(toDev)
  /\ UNCHANGED <<plugged, link, pending, task, values, dirty, refused>>
-----------------------------------------------------------------------------
(* SerialLink.  A lost connection rejects every waiter; a handler that is    *)
(* past its last answer goes on.                                           *)
FailWaiters(tasks) ==
  [t \in Tasks |-> IF tasks[t].pc \in {"asked", "reading"} THEN Idle ELSE tasks[t]]

DropLink ==
  /\ link' = [link EXCEPT !.state = "disconnected"]
  /\ pending' = <<>>
  /\ task' = FailWaiters(task)
  /\ dirty' = FALSE

(* Slip: the lowest id nobody awaits, instead of the next one.              *)
NextId_LowestFree(awaiting) ==
  CHOOSE i \in 1 .. MaxId : i \notin awaiting /\ \A j \in 1 .. i - 1 : j \in awaiting

NextId(awaiting) == link.nextId

(* _doRequest, by task t, which becomes next.  The write either joins the    *)
(* queue, or rejects, and with it every write queued after it.             *)
Request(t, op, next, awaiting) ==
  IF plugged /\ ~link.broken
  THEN LET id == NextId(DOMAIN awaiting)
       IN  /\ toDev' = Append(toDev, [id |-> id, task |-> t, op |-> op, arg |-> next.arg])
           /\ pending' = [i \in DOMAIN awaiting \cup {id} |->
                            IF i = id THEN t ELSE awaiting[i]]
           /\ link' = [link EXCEPT !.nextId = (id % MaxId) + 1]
           /\ task' = [task EXCEPT ![t] = next]
           /\ UNCHANGED dirty
  ELSE /\ link' = [link EXCEPT !.state = "disconnected", !.broken = TRUE]
       /\ pending' = <<>>
       /\ task' = [FailWaiters(task) EXCEPT ![t] = Idle]
       /\ dirty' = FALSE
       /\ UNCHANGED toDev

(* A button: the handler's first request.                                   *)
OpSent(op) == IF op = "termsave" THEN "save" ELSE op

Start(op, arg) ==
  /\ link.state = "connected"
  /\ Len(toDev) + Len(toHost) < MaxWire
  /\ \E t \in Tasks :
       /\ task[t] = Idle
       /\ Request(t, OpSent(op), [pc |-> "asked", op |-> op, arg |-> arg, src |-> ""], pending)
  /\ UNCHANGED <<device, toHost, values, refused, word>>

PressSet ==
  /\ "set" \in Ops
  /\ \E k \in Keys, v \in Values : Start("set", [key |-> k, val |-> v])

Press == \E op \in Ops \ {"set"} : Start(op, <<>>)

(* An answer reaches the read loop.  Nobody may be waiting for it any more. *)
Forget(id) == [i \in DOMAIN pending \ {id} |-> pending[i]]

Arrive ==
  /\ link.state = "connected"
  /\ toHost # <<>>
  /\ toHost' = Tail(toHost)
  /\ UNCHANGED <<device, refused>>

ArriveLate ==
  /\ Arrive
  /\ Head(toHost).id \notin DOMAIN pending
  /\ UNCHANGED <<toDev, link, pending, task, values, dirty, word>>

Awaited(pc, ops) ==
  /\ Arrive
  /\ Head(toHost).id \in DOMAIN pending
  /\ task[pending[Head(toHost).id]].pc = pc
  /\ task[pending[Head(toHost).id]].op \in ops

Resume(t, next) == task' = [task EXCEPT ![t] = next]

(* commit: DeviceModel.set caches the value, the handler flags it unsaved.   *)
SetDone ==
  /\ Awaited("asked", {"set"})
  /\ LET m == Head(toHost)
         t == pending[m.id]
     IN  /\ values' = [values EXCEPT ![task[t].arg.key] = task[t].arg.val]
         /\ pending' = Forget(m.id)
         /\ Resume(t, Idle)
         /\ Closes(m.id, Told)
  /\ dirty' = TRUE
  /\ UNCHANGED <<toDev, link>>

SaveDone ==
  /\ Awaited("asked", {"save"})
  /\ LET m == Head(toHost)
     IN  pending' = Forget(m.id) /\ Resume(pending[m.id], Idle)
  /\ dirty' = FALSE
  /\ UNCHANGED <<toDev, link, values, word>>

(* The terminal reloads the form before it touches the flag.                *)
TermSaveDone ==
  /\ Awaited("asked", {"termsave"})
  /\ LET m == Head(toHost)
         t == pending[m.id]
     IN  pending' = Forget(m.id) /\ Resume(t, [task[t] EXCEPT !.pc = "landing"])
  /\ UNCHANGED <<toDev, link, values, dirty, word>>

(* Slip: the cache is left for the next connect to refresh.                 *)
AfterReset_NoRead(t, src) ==
  /\ Resume(t, [task[t] EXCEPT !.pc = "landing", !.src = src])
  /\ pending' = Forget(Head(toHost).id)
  /\ UNCHANGED <<toDev, link, dirty>>

AfterReset(t, src) ==
  Request(t, "getall", [task[t] EXCEPT !.pc = "reading", !.src = src],
          Forget(Head(toHost).id))

(* defaults and revert read everything back before they return.             *)
ResetDone ==
  /\ Awaited("asked", {"defaults", "revert"})
  /\ AfterReset(pending[Head(toHost).id], Head(toHost).src)
  /\ Closes(Head(toHost).id, Told)
  /\ UNCHANGED values

ReadDone ==
  /\ Awaited("reading", {"defaults", "revert"})
  /\ LET m == Head(toHost)
         t == pending[m.id]
     IN  /\ values' = m.vals
         /\ pending' = Forget(m.id)
         /\ Resume(t, [task[t] EXCEPT !.pc = "landing"])
         /\ Closes(m.id, Told)
  /\ UNCHANGED <<toDev, link, dirty>>

(* After loadDevice(), the handler's last word on the flag.                 *)
DirtyAfter(t) ==
  \/ task[t].op = "defaults"
  \/ task[t].op = "revert" /\ task[t].src # "flash"

Land ==
  /\ \E t \in Tasks :
       /\ task[t].pc = "landing"
       /\ dirty' = DirtyAfter(t)
       /\ Resume(t, Idle)
  /\ UNCHANGED <<device, toDev, toHost, link, pending, values, refused, word>>

Timeout ==
  /\ Timeouts
  /\ \E id \in DOMAIN pending :
       /\ Resume(pending[id], Idle)
       /\ pending' = Forget(id)
       /\ Closes(id, Lapsed)
  /\ UNCHANGED <<device, toDev, toHost, link, values, dirty, refused>>
-----------------------------------------------------------------------------
(* The port.  Connecting opens it and reads everything; a rejected write     *)
(* queue outlives the port it was rejected on.                             *)
Connect ==
  /\ link.state = "disconnected"
  /\ plugged
  /\ toDev = <<>>
  /\ \A t \in Tasks : task[t] = Idle
  /\ refused' = link.broken
  /\ IF link.broken THEN UNCHANGED <<link, values, word>>
     ELSE /\ link' = [link EXCEPT !.state = "connected"]
          /\ values' = ram
          /\ word' = [k \in Keys |-> Told]
  /\ UNCHANGED <<device, toDev, toHost, pending, task, dirty>>

Disconnect ==
  /\ MayDisconnect
  /\ link.state = "connected"
  /\ DropLink
  /\ toHost' = <<>>
  /\ UNCHANGED <<device, toDev, values, refused, word>>

(* Without the cable a board with no battery is off: what it had not yet     *)
(* read is lost, a save under way is cut, and it will boot from flash.  A     *)
(* board with one goes on with what had reached it.                         *)
CutSave == IF toDev # <<>> /\ Head(toDev).op = "save" THEN {Nothing, ram} ELSE {}

Unplug ==
  /\ MayUnplug
  /\ plugged
  /\ plugged' = FALSE
  /\ toHost' = <<>>
  /\ \/ /\ TRUE \in OwnPower
        /\ UNCHANGED <<ram, stored>>
        /\ \E n \in 0 .. Len(toDev) : toDev' = SubSeq(toDev, 1, n)
     \/ /\ FALSE \in OwnPower
        /\ stored' \in {stored} \cup CutSave
        /\ ram' = Restored(stored')
        /\ toDev' = <<>>
  /\ UNCHANGED <<link, pending, task, values, dirty, refused, word>>

(* The read loop's reader rejects.                                          *)
NoticeLoss ==
  /\ ~plugged
  /\ link.state = "connected"
  /\ DropLink
  /\ UNCHANGED <<device, toDev, toHost, values, refused, word>>

Plug ==
  /\ ~plugged
  /\ link.state = "disconnected"
  /\ plugged' = TRUE
  /\ UNCHANGED <<ram, stored, toDev, toHost, link, pending, task, values, dirty, refused,
                 word>>

Next == \/ Handle \/ PressSet \/ Press \/ ArriveLate \/ SetDone \/ SaveDone \/ TermSaveDone
        \/ ResetDone \/ ReadDone \/ Land \/ Timeout
        \/ Connect \/ Disconnect \/ Unplug \/ NoticeLoss \/ Plug

Spec == Init /\ [][Next]_vars
-----------------------------------------------------------------------------
TypeOK ==
  /\ ram \in Settings
  /\ stored \in Settings \cup {Nothing}
  /\ values \in Settings
  /\ dirty \in BOOLEAN
  /\ link.nextId \in 1 .. MaxId
  /\ DOMAIN pending \subseteq 1 .. MaxId
  /\ \A t \in Tasks :
       task[t].pc \in {"asked", "reading"} <=> \E id \in DOMAIN pending : pending[id] = t

(* Nobody is waiting and nothing is under way.                              *)
Quiet ==
  /\ toDev = <<>> /\ toHost = <<>>
  /\ \A t \in Tasks : task[t] = Idle
  /\ plugged /\ link.state = "connected"

(* app.js: one flag tells whether there is something worth writing to flash; *)
(* when it is down, a reboot would bring back exactly what is live.         *)
DirtyHonest == Quiet /\ ~dirty => ram = Restored(stored)

(* The value every page and the next dump show for a key is the board's, in  *)
(* whatever order sets, reloads, saves, unplugging and closing went: unless   *)
(* the very request that had the board's last word on the key timed out.     *)
ValuesHonest == Quiet => \A k \in Keys : values[k] = ram[k] \/ word[k] = Lapsed

(* An answer resolves the request it answers and no other, however late.    *)
AnswersMatch ==
  link.state = "connected" /\ toHost # <<>> /\ Head(toHost).id \in DOMAIN pending =>
    LET m == Head(toHost)
        t == pending[m.id]
    IN  /\ m.task = t /\ m.arg = task[t].arg
        /\ m.op = IF task[t].pc = "reading" THEN "getall" ELSE OpSent(task[t].op)

(* app.js: a board connected once reconnects on one click.                  *)
ReconnectsOnOneClick == ~refused
=============================================================================
