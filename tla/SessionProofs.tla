---------------------------- MODULE SessionProofs ----------------------------
(***************************************************************************)
(* An answer resolves the request it answers, for any number of handlers,    *)
(* keys, values and messages on the wires, although ids come round again,    *)
(* requests time out, and the port is lost and opened again.                 *)
(*                                                                         *)
(* The stream is first in, first out, and every request takes the next id:   *)
(* so what is on the two wires carries the last ids that were given out, in  *)
(* order, and the next one is not among them.                              *)
(*                                                                         *)
(* Then what the pages show: for each key either the answer that carries the *)
(* board's last word on it is under way and says what the board holds, or    *)
(* the cache has it already, or nobody waits for it any more (CacheInv).     *)
(***************************************************************************)
EXTENDS Session, Lines, FiniteSetTheorems, TLAPS

SetArg    == [key : Keys, val : Values]
Arguments == SetArg \cup {<<>>}
Commands  == {"set", "save", "defaults", "revert", "getall"}
Sources   == {"", "defaults", "flash"}

(* What travels to the board and back.                                      *)
Requests ==
  {m \in [id : 1 .. MaxId, task : Tasks, op : Commands, arg : Arguments] :
     m.op = "set" => m.arg \in SetArg}

Answers ==
  {m \in [id : 1 .. MaxId, task : Tasks, op : Commands, arg : Arguments, src : Sources,
          vals : Settings \cup {<<>>}] :
     /\ m.op = "getall" => m.vals \in Settings
     /\ m.op = "set" => m.arg \in SetArg}

(* A handler between its press and its last word.                           *)
Handlers ==
  {h \in [pc : {"asked", "reading", "landing"},
          op : {"set", "save", "termsave", "defaults", "revert"},
          arg : Arguments, src : Sources] :
     h.op = "set" => h.arg \in SetArg}

Links == [state : {"connected", "disconnected"}, broken : BOOLEAN, nextId : 1 .. MaxId]

Shapes ==
  /\ ram \in Settings /\ stored \in Settings \cup {Nothing}
  /\ plugged \in BOOLEAN
  /\ toDev \in Seq(Requests) /\ toHost \in Seq(Answers)
  /\ link \in Links
  /\ DOMAIN pending \subseteq 1 .. MaxId /\ pending \in [DOMAIN pending -> Tasks]
  /\ task \in [Tasks -> Handlers \cup {Idle}]

(* Both wires as one queue: the answers, then the requests.                  *)
InFlight == toHost \o toDev

Live == plugged /\ link.state = "connected"

(* A port that may be opened finds both wires empty behind it.               *)
Drained ==
  /\ ~plugged => toHost = <<>>
  /\ link.state = "disconnected" /\ ~link.broken => toHost = <<>>
  /\ link.broken => link.state = "disconnected"

Waiting(h) == h.pc \in {"asked", "reading"}

(* Every id is awaited by one handler that is waiting, and each by one.      *)
Waits(p, h) ==
  /\ \A i \in DOMAIN p : Waiting(h[p[i]])
  /\ \A i, j \in DOMAIN p : p[i] = p[j] => i = j

(* The id that was given out j requests before n.                            *)
Back(n, j) == IF j < n THEN n - j ELSE n - j + MaxId

InOrder(w, n) ==
  /\ Len(w) <= MaxWire
  /\ \A k \in 1 .. Len(w) : w[k].id = Back(n, Len(w) - k + 1)

(* What is awaited is under way.                                            *)
UnderWay(w, p) == \A i \in DOMAIN p : \E k \in 1 .. Len(w) : w[k].id = i

Asked(h) == IF h.pc = "reading" THEN "getall" ELSE OpSent(h.op)

(* A message somebody awaits is his, and about what he asked.                *)
Meant(w, p, h) ==
  \A k \in 1 .. Len(w) :
    w[k].id \in DOMAIN p => /\ w[k].task = p[w[k].id] /\ w[k].op = Asked(h[p[w[k].id]])
                            /\ w[k].arg = h[p[w[k].id]].arg

Stream(w, n, p, h) == InOrder(w, n) /\ UnderWay(w, p) /\ Meant(w, p, h)

(* Besides the types: the wires of a port that is open.                      *)
SessionRest ==
  /\ Drained
  /\ Waits(pending, task)
  /\ Live => Stream(InFlight, link.nextId, pending, task)

SessionInv == Shapes /\ SessionRest
-----------------------------------------------------------------------------
(* The ids never outnumber what the wires and the handlers may hold.        *)
LEMMA EnoughIds == MaxId \in Nat /\ MaxWire \in Nat /\ MaxId > 0 /\ MaxWire <= MaxId
<1>1. Cardinality(Tasks) \in Nat BY FS_CardinalityType, SessionAssumption
<1> QED BY <1>1, SessionAssumption

(* _nextId: the id after the next one.                                      *)
LEMMA After ==
  ASSUME NEW n \in 1 .. MaxId
  PROVE  /\ (n % MaxId) + 1 \in 1 .. MaxId
         /\ n < MaxId => (n % MaxId) + 1 = n + 1
         /\ n = MaxId => (n % MaxId) + 1 = 1
<1>1. CASE n < MaxId
  <2>1. n % MaxId = n BY <1>1, EnoughIds
  <2> QED BY <2>1, <1>1, EnoughIds
<1>2. CASE n = MaxId
  <2>1. n % MaxId = 0 BY <1>2, EnoughIds
  <2> QED BY <2>1, <1>2, EnoughIds
<1> QED BY <1>1, <1>2, EnoughIds

(* Going back from the next id is going one less far from this one.          *)
LEMMA BackShifts ==
  ASSUME NEW n \in 1 .. MaxId, NEW j \in 1 .. MaxId
  PROVE  /\ Back((n % MaxId) + 1, 1) = n
         /\ j < MaxId => Back((n % MaxId) + 1, j + 1) = Back(n, j)
         /\ j < MaxId => Back(n, j) # n
BY After, EnoughIds DEF Back

(* Handler t's request m turns the waiters p into q and the handlers h into g. *)
Asks(n, p, h, t, m, q, g) ==
  /\ m.id = n /\ m.task = t /\ m.op = Asked(g[t]) /\ m.arg = g[t].arg
  /\ \A i \in DOMAIN p : p[i] \in Tasks /\ p[i] # t
  /\ DOMAIN q = DOMAIN p \cup {n} /\ q[n] = t
  /\ \A i \in DOMAIN p : i # n => q[i] = p[i]
  /\ \A u \in Tasks : u # t => g[u] = h[u]

(* A request joins the stream under an id that is on neither wire.           *)
LEMMA Ask ==
  ASSUME NEW S, NEW w \in Seq(S), NEW n \in 1 .. MaxId,
         NEW p, NEW h, NEW t \in Tasks, NEW m, NEW q, NEW g,
         Len(w) < MaxWire, Stream(w, n, p, h), Asks(n, p, h, t, m, q, g)
  PROVE  n \notin DOMAIN p /\ Stream(Append(w, m), (n % MaxId) + 1, q, g)
<1> USE DEF Asks
<1> DEFINE v == Append(w, m)
<1>1. Len(w) \in Nat /\ Len(w) < MaxId BY EnoughIds
<1>2. /\ Len(v) = Len(w) + 1
      /\ v[Len(w) + 1] = m
      /\ \A k \in 1 .. Len(w) : v[k] = w[k]
  OBVIOUS
<1>3. \A k \in 1 .. Len(w) : w[k].id = Back(n, Len(w) - k + 1) BY DEF Stream, InOrder
<1>4. \A k \in 1 .. Len(w) : w[k].id # n
  <2>1. TAKE k \in 1 .. Len(w)
  <2>2. Len(w) - k + 1 \in 1 .. MaxId /\ Len(w) - k + 1 < MaxId BY <1>1, EnoughIds
  <2> QED BY <2>2, <1>3, BackShifts
<1>5. n \notin DOMAIN p BY <1>4 DEF Stream, UnderWay
<1>6. InOrder(v, (n % MaxId) + 1)
  <2>1. Len(v) <= MaxWire BY <1>1, <1>2, EnoughIds
  <2>2. ASSUME NEW k \in 1 .. Len(v)
        PROVE  v[k].id = Back((n % MaxId) + 1, Len(v) - k + 1)
    <3>1. CASE k = Len(w) + 1
      <4>1. Len(v) - k + 1 = 1 BY <3>1, <1>1, <1>2
      <4>2. 1 \in 1 .. MaxId BY EnoughIds
      <4> QED BY <4>1, <4>2, <3>1, <1>2, BackShifts
    <3>2. CASE k \in 1 .. Len(w)
      <4>1. Len(w) - k + 1 \in 1 .. MaxId /\ Len(w) - k + 1 < MaxId BY <3>2, <1>1, EnoughIds
      <4>2. Len(v) - k + 1 = (Len(w) - k + 1) + 1 BY <3>2, <1>1, <1>2
      <4>3. v[k].id = Back(n, Len(w) - k + 1) BY <3>2, <1>2, <1>3
      <4> HIDE DEF v
      <4> QED BY <4>1, <4>2, <4>3, BackShifts
    <3> QED BY <3>1, <3>2, <1>1, <1>2
  <2> QED BY <2>1, <2>2 DEF InOrder
<1>7. UnderWay(v, q)
  <2>1. ASSUME NEW i \in DOMAIN q PROVE \E k \in 1 .. Len(v) : v[k].id = i
    <3>1. CASE i = n
      <4>1. Len(w) + 1 \in 1 .. Len(v) BY <1>1, <1>2
      <4> QED BY <4>1, <3>1, <1>2
    <3>2. CASE i # n
      <4>1. PICK k \in 1 .. Len(w) : w[k].id = i BY <3>2 DEF Stream, UnderWay
      <4>2. k \in 1 .. Len(v) BY <1>1, <1>2
      <4> QED BY <4>1, <4>2, <1>2
    <3> QED BY <3>1, <3>2
  <2> QED BY <2>1 DEF UnderWay
<1>8. Meant(v, q, g)
  <2>1. ASSUME NEW k \in 1 .. Len(v), v[k].id \in DOMAIN q
        PROVE  /\ v[k].task = q[v[k].id] /\ v[k].op = Asked(g[q[v[k].id]])
               /\ v[k].arg = g[q[v[k].id]].arg
    <3>1. CASE k = Len(w) + 1
      <4>1. v[k] = m /\ q[n] = t BY <3>1, <1>2
      <4> HIDE DEF v
      <4> QED BY <4>1
    <3>2. CASE k \in 1 .. Len(w)
      <4>1. v[k] = w[k] /\ w[k].id # n BY <3>2, <1>2, <1>4
      <4>2. w[k].id \in DOMAIN p BY <4>1, <2>1
      <4>3. /\ w[k].task = p[w[k].id] /\ w[k].op = Asked(h[p[w[k].id]])
            /\ w[k].arg = h[p[w[k].id]].arg
        BY <4>2, <3>2 DEF Stream, Meant
      <4>4. q[w[k].id] = p[w[k].id] BY <4>1, <4>2
      <4>5. p[w[k].id] \in Tasks /\ p[w[k].id] # t BY <4>2
      <4>6. g[p[w[k].id]] = h[p[w[k].id]] BY <4>5
      <4> HIDE DEF v
      <4> QED BY <4>1, <4>3, <4>4, <4>6
    <3> QED BY <3>1, <3>2, <1>1, <1>2
  <2> QED BY <2>1 DEF Meant
<1> QED BY <1>5, <1>6, <1>7, <1>8 DEF Stream

(* The waiter of id x no longer waits: p and h become q and g.               *)
Leaves(p, h, x, q, g) ==
  /\ x \in DOMAIN p
  /\ \A i \in DOMAIN p : p[i] \in Tasks
  /\ DOMAIN q = DOMAIN p \ {x}
  /\ \A i \in DOMAIN q : q[i] = p[i]
  /\ \A u \in Tasks : u # p[x] => g[u] = h[u]

(* A waiter that gives up, or has its answer, leaves the others as they are. *)
LEMMA GiveUp ==
  ASSUME NEW w, NEW p, NEW h, NEW x, NEW q, NEW g, Waits(p, h), Leaves(p, h, x, q, g)
  PROVE  /\ Waits(q, g)
         /\ \A i \in DOMAIN q : q[i] # p[x]
         /\ UnderWay(w, p) => UnderWay(w, q)
         /\ Meant(w, p, h) => Meant(w, q, g)
<1> USE DEF Leaves
<1>1. \A i \in DOMAIN q : q[i] = p[i] /\ p[i] \in Tasks /\ p[i] # p[x] BY DEF Waits
<1>2. \A i \in DOMAIN q : g[q[i]] = h[p[i]] BY <1>1
<1>3. Waits(q, g) BY <1>1, <1>2 DEF Waits
<1>4. UnderWay(w, p) => UnderWay(w, q) BY DEF UnderWay
<1>5. ASSUME Meant(w, p, h) PROVE Meant(w, q, g)
  <2>1. ASSUME NEW k \in 1 .. Len(w), w[k].id \in DOMAIN q
        PROVE  /\ w[k].task = q[w[k].id] /\ w[k].op = Asked(g[q[w[k].id]])
               /\ w[k].arg = g[q[w[k].id]].arg
    <3>1. /\ w[k].task = p[w[k].id] /\ w[k].op = Asked(h[p[w[k].id]])
          /\ w[k].arg = h[p[w[k].id]].arg
      BY <2>1, <1>5 DEF Meant
    <3> QED BY <2>1, <3>1, <1>1, <1>2
  <2> QED BY <2>1 DEF Meant
<1> QED BY <1>1, <1>3, <1>4, <1>5

(* The first message leaves the stream; nobody awaits it any more.           *)
LEMMA TakeFirst ==
  ASSUME NEW S, NEW w \in Seq(S), NEW n, NEW p, NEW h,
         w # <<>>, InOrder(w, n), UnderWay(w, p), Meant(w, p, h), w[1].id \notin DOMAIN p
  PROVE  Stream(Tail(w), n, p, h) /\ Len(Tail(w)) < MaxWire
<1> DEFINE v == Tail(w)
<1>1. /\ Len(w) \in Nat \ {0} /\ Len(v) = Len(w) - 1
      /\ \A k \in 1 .. Len(v) : v[k] = w[k + 1] /\ k + 1 \in 1 .. Len(w)
  OBVIOUS
<1>2. \A k \in 1 .. Len(w) : k # 1 => k - 1 \in 1 .. Len(v) /\ v[k - 1] = w[k]
  BY <1>1
<1> HIDE DEF v
<1>3. InOrder(v, n) /\ Len(v) < MaxWire
  <2>1. Len(v) < MaxWire BY <1>1, EnoughIds DEF InOrder
  <2>2. ASSUME NEW k \in 1 .. Len(v) PROVE v[k].id = Back(n, Len(v) - k + 1)
    <3>1. Len(v) - k + 1 = Len(w) - (k + 1) + 1 BY <1>1
    <3> QED BY <3>1, <1>1 DEF InOrder
  <2> QED BY <2>1, <2>2, <1>1, EnoughIds DEF InOrder
<1>4. UnderWay(v, p)
  <2>1. ASSUME NEW i \in DOMAIN p PROVE \E k \in 1 .. Len(v) : v[k].id = i
    <3>1. PICK k \in 1 .. Len(w) : w[k].id = i BY DEF UnderWay
    <3>2. k # 1 BY <3>1
    <3> QED BY <3>1, <3>2, <1>2
  <2> QED BY <2>1 DEF UnderWay
<1>5. Meant(v, p, h) BY <1>1 DEF Meant
<1> QED BY <1>3, <1>4, <1>5 DEF Stream, v
-----------------------------------------------------------------------------
(* What the constants and the idle handler are.                             *)
LEMMA Constants ==
  /\ Factory \in Settings
  /\ \A image \in Settings \cup {Nothing} : Restored(image) \in Settings
  /\ Idle.pc = "idle" /\ Idle \notin Handlers
BY SessionAssumption DEF Restored, Idle, Handlers

(* The board keeps the types, whichever request it handles.                 *)
LEMMA ShapesHandle == Shapes /\ Handle => Shapes'
<1> SUFFICES ASSUME Shapes, Handle PROVE Shapes'
  OBVIOUS
<1> DEFINE m == Head(toDev)
<1>1. m \in Requests /\ toDev' \in Seq(Requests) BY DEF Shapes, Handle
<1>2. UNCHANGED <<plugged, link, pending, task, values, dirty, refused>> BY DEF Handle
<1>3. HandleSet(m) \/ HandleSave(m) \/ HandleDefaults(m) \/ HandleRevert(m) \/ HandleGetAll(m)
  BY DEF Handle
<1>4. ASSUME NEW src \in Sources, NEW vals \in Settings \cup {<<>>},
             Answer(m, Reply(m, src, vals)), m.op = "getall" => vals \in Settings
      PROVE  toHost' \in Seq(Answers)
  <2>1. Reply(m, src, vals) \in Answers BY <1>1, <1>4 DEF Reply, Requests, Answers
  <2>2. toHost \in Seq(Answers) BY DEF Shapes
  <2> HIDE DEF m
  <2> QED BY <2>1, <2>2, <1>4 DEF Answer
<1>5. "" \in Sources /\ "defaults" \in Sources /\ "flash" \in Sources BY DEF Sources
<1>6. ram \in Settings /\ stored \in Settings \cup {Nothing} BY DEF Shapes
<1>7. /\ ram' \in Settings /\ stored' \in Settings \cup {Nothing}
      /\ toHost' \in Seq(Answers)
  <2>1. CASE HandleSet(m)
    <3>1. m.arg \in SetArg BY <2>1, <1>1 DEF HandleSet, Requests
    <3>2. ram' \in Settings BY <3>1, <2>1, <1>6 DEF HandleSet, SetArg, Settings
    <3> HIDE DEF m
    <3>3. toHost' \in Seq(Answers) BY <2>1, <1>4, <1>5 DEF HandleSet
    <3> QED BY <3>2, <3>3, <2>1, <1>6 DEF HandleSet
  <2> HIDE DEF m
  <2>2. CASE HandleSave(m) BY <2>2, <1>4, <1>5, <1>6 DEF HandleSave
  <2>3. CASE HandleDefaults(m) BY <2>3, <1>4, <1>5, <1>6, Constants DEF HandleDefaults
  <2>4. CASE HandleRevert(m) BY <2>4, <1>4, <1>5, <1>6, Constants DEF HandleRevert
  <2>5. CASE HandleGetAll(m) BY <2>5, <1>4, <1>5, <1>6 DEF HandleGetAll
  <2> QED BY <1>3, <2>1, <2>2, <2>3, <2>4, <2>5
<1> QED BY <1>1, <1>2, <1>7 DEF Shapes

(* What a lost link leaves behind.                                          *)
LEMMA Failed ==
  ASSUME Shapes
  PROVE  /\ FailWaiters(task) \in [Tasks -> Handlers \cup {Idle}]
         /\ \A t \in Tasks :
              [FailWaiters(task) EXCEPT ![t] = Idle] \in [Tasks -> Handlers \cup {Idle}]
BY DEF Shapes, FailWaiters

(* _doRequest keeps them, sent or rejected.                                 *)
LEMMA ShapesRequest ==
  ASSUME Shapes, NEW t \in Tasks, NEW op \in Commands, NEW next \in Handlers,
         NEW awaiting, DOMAIN awaiting \subseteq 1 .. MaxId,
         awaiting \in [DOMAIN awaiting -> Tasks],
         op = "set" => next.arg \in SetArg,
         Request(t, op, next, awaiting)
  PROVE  /\ toDev' \in Seq(Requests) /\ link' \in Links
         /\ DOMAIN pending' \subseteq 1 .. MaxId /\ pending' \in [DOMAIN pending' -> Tasks]
         /\ task' \in [Tasks -> Handlers \cup {Idle}]
<1>1. link.nextId \in 1 .. MaxId /\ link \in Links /\ toDev \in Seq(Requests)
      /\ task \in [Tasks -> Handlers \cup {Idle}]
  BY DEF Shapes, Links
<1>2. CASE plugged /\ ~link.broken
  <2> DEFINE m == [id |-> link.nextId, task |-> t, op |-> op, arg |-> next.arg]
             q == [i \in DOMAIN awaiting \cup {link.nextId} |->
                     IF i = link.nextId THEN t ELSE awaiting[i]]
  <2>1. /\ toDev' = Append(toDev, m) /\ pending' = q
        /\ link' = [link EXCEPT !.nextId = (link.nextId % MaxId) + 1]
        /\ task' = [task EXCEPT ![t] = next]
    BY <1>2 DEF Request, NextId
  <2>2. m \in Requests BY <1>1 DEF Requests, Handlers
  <2>3. link' \in Links BY <2>1, <1>1, After DEF Links
  <2>4. DOMAIN q \subseteq 1 .. MaxId /\ q \in [DOMAIN q -> Tasks] BY <1>1
  <2>5. task' \in [Tasks -> Handlers \cup {Idle}] BY <2>1, <1>1
  <2> HIDE DEF m, q
  <2> QED BY <2>1, <2>2, <2>3, <2>4, <2>5, <1>1
<1>3. CASE ~(plugged /\ ~link.broken)
  <2>1. /\ link' = [link EXCEPT !.state = "disconnected", !.broken = TRUE]
        /\ pending' = <<>> /\ toDev' = toDev
        /\ task' = [FailWaiters(task) EXCEPT ![t] = Idle]
    BY <1>3 DEF Request
  <2>2. link' \in Links BY <2>1, <1>1 DEF Links
  <2>3. DOMAIN <<>> \subseteq 1 .. MaxId /\ <<>> \in [DOMAIN <<>> -> Tasks] OBVIOUS
  <2> QED BY <2>1, <2>2, <2>3, <1>1, Failed
<1> QED BY <1>2, <1>3

(* A button keeps them.                                                     *)
LEMMA ShapesStart ==
  ASSUME Shapes, NEW op \in {"set", "save", "termsave", "defaults", "revert"},
         NEW arg \in Arguments, op = "set" => arg \in SetArg, Start(op, arg)
  PROVE  Shapes'
<1> DEFINE next == [pc |-> "asked", op |-> op, arg |-> arg, src |-> ""]
<1>1. PICK t \in Tasks : Request(t, OpSent(op), next, pending) BY DEF Start
<1>2. next \in Handlers BY DEF Handlers, Sources
<1>3. OpSent(op) \in Commands /\ (OpSent(op) = "set" => next.arg \in SetArg)
  BY DEF OpSent, Commands
<1>4. DOMAIN pending \subseteq 1 .. MaxId /\ pending \in [DOMAIN pending -> Tasks] BY DEF Shapes
<1> HIDE DEF next
<1>5. /\ toDev' \in Seq(Requests) /\ link' \in Links
      /\ DOMAIN pending' \subseteq 1 .. MaxId /\ pending' \in [DOMAIN pending' -> Tasks]
      /\ task' \in [Tasks -> Handlers \cup {Idle}]
  BY <1>1, <1>2, <1>3, <1>4, ShapesRequest
<1>6. UNCHANGED <<ram, stored, plugged, toHost>> BY DEF Start, device
<1> QED BY <1>5, <1>6 DEF Shapes

(* Forgetting an id leaves a table of waiters.                              *)
LEMMA Forgotten ==
  ASSUME Shapes, NEW id
  PROVE  DOMAIN Forget(id) \subseteq 1 .. MaxId /\ Forget(id) \in [DOMAIN Forget(id) -> Tasks]
BY DEF Shapes, Forget

(* An answer that its handler was waiting for, and what becomes of both.     *)
Finishes(next) ==
  /\ Arrive
  /\ Head(toHost).id \in DOMAIN pending
  /\ pending' = Forget(Head(toHost).id)
  /\ Resume(pending[Head(toHost).id], next)
  /\ UNCHANGED <<toDev, link>>

(* Every handler that ends, or goes on to its last word, finishes so.       *)
LEMMA FinishCases ==
  ASSUME Shapes, SetDone \/ SaveDone \/ TermSaveDone \/ ReadDone
  PROVE  \E next \in Handlers \cup {Idle} : ~Waiting(next) /\ Finishes(next)
<1> DEFINE t == pending[Head(toHost).id]
           landed == [task[t] EXCEPT !.pc = "landing"]
<1>1. CASE SetDone \/ SaveDone
  <2>1. Finishes(Idle) BY <1>1 DEF SetDone, SaveDone, Awaited, Finishes
  <2> QED BY <2>1, Constants, SMTT(30) DEF Waiting, Idle
<1>2. CASE TermSaveDone \/ ReadDone
  <2>1. Finishes(landed) BY <1>2, SMTT(30) DEF TermSaveDone, ReadDone, Awaited, Finishes
  <2>2. t \in Tasks /\ (task[t].pc = "asked" \/ task[t].pc = "reading")
    BY <1>2 DEF TermSaveDone, ReadDone, Awaited, Shapes
  <2>3. task[t] \in Handlers BY <2>2, Constants DEF Shapes
  <2>4. landed \in Handlers /\ landed.pc = "landing" BY <2>3 DEF Handlers
  <2>5. ~Waiting(landed) BY <2>4 DEF Waiting
  <2> QED BY <2>1, <2>4, <2>5
<1> QED BY <1>1, <1>2

(* An answer that ends the waiting keeps the types.                         *)
LEMMA ShapesFinish ==
  ASSUME Shapes, NEW next \in Handlers \cup {Idle}, Finishes(next) PROVE Shapes'
<1>1. toHost' \in Seq(Answers) BY DEF Shapes, Finishes, Arrive
<1>2. DOMAIN pending' \subseteq 1 .. MaxId /\ pending' \in [DOMAIN pending' -> Tasks]
  BY Forgotten DEF Finishes
<1>3. task' \in [Tasks -> Handlers \cup {Idle}] BY DEF Shapes, Finishes, Resume
<1>4. UNCHANGED <<ram, stored, plugged, toDev, link>> BY DEF Finishes, Arrive, device
<1> QED BY <1>1, <1>2, <1>3, <1>4 DEF Shapes

(* The handler of defaults or revert asks once more.                        *)
LEMMA ResetAsks ==
  ASSUME Shapes, ResetDone
  PROVE  LET id == Head(toHost).id
         IN  \E next \in Handlers :
               /\ next.pc = "reading"
               /\ Arrive /\ id \in DOMAIN pending /\ pending[id] \in Tasks
               /\ Request(pending[id], "getall", next, Forget(id))
<1> DEFINE id   == Head(toHost).id
           t    == pending[id]
           next == [task[t] EXCEPT !.pc = "reading", !.src = Head(toHost).src]
<1>1. Arrive /\ id \in DOMAIN pending /\ task[t].pc = "asked" /\ toHost # <<>>
  BY DEF ResetDone, Awaited, Arrive
<1>2. t \in Tasks BY <1>1 DEF Shapes
<1>3. task[t] \in Handlers BY <1>1, <1>2, Constants DEF Shapes
<1>4. Head(toHost) \in Answers BY <1>1 DEF Shapes
<1>5. next \in Handlers /\ next.pc = "reading" BY <1>3, <1>4 DEF Handlers, Answers
<1>6. Request(t, "getall", next, Forget(id)) BY DEF ResetDone, AfterReset
<1> QED BY <1>1, <1>2, <1>5, <1>6

(* So does the second request of defaults and revert.                       *)
LEMMA ShapesReset == Shapes /\ ResetDone => Shapes'
<1> SUFFICES ASSUME Shapes, ResetDone PROVE Shapes'
  OBVIOUS
<1> DEFINE id == Head(toHost).id
<1>1. PICK next \in Handlers :
        /\ Arrive /\ pending[id] \in Tasks
        /\ Request(pending[id], "getall", next, Forget(id))
  BY ResetAsks
<1>2. toHost' \in Seq(Answers) BY <1>1 DEF Shapes, Arrive
<1>3. "getall" \in Commands /\ "getall" # "set" BY DEF Commands
<1> HIDE DEF id
<1>4. /\ toDev' \in Seq(Requests) /\ link' \in Links
      /\ DOMAIN pending' \subseteq 1 .. MaxId /\ pending' \in [DOMAIN pending' -> Tasks]
      /\ task' \in [Tasks -> Handlers \cup {Idle}]
  BY <1>1, <1>3, Forgotten, ShapesRequest
<1>5. UNCHANGED <<ram, stored, plugged>> BY <1>1 DEF Arrive, device
<1> QED BY <1>2, <1>4, <1>5 DEF Shapes

(* So does pulling the cable, which may cut a save.                         *)
LEMMA ShapesUnplug == Shapes /\ Unplug => Shapes'
<1> SUFFICES ASSUME Shapes, Unplug PROVE Shapes'
  OBVIOUS
<1>1. toHost' = <<>> /\ plugged' = FALSE /\ UNCHANGED <<link, pending, task>> BY DEF Unplug
<1>2. toDev' \in Seq(Requests)
  <2>1. ASSUME NEW n \in 0 .. Len(toDev), toDev' = SubSeq(toDev, 1, n)
        PROVE  toDev' \in Seq(Requests)
    BY <2>1 DEF Shapes
  <2>2. CASE toDev' = <<>> BY <2>2
  <2> QED BY <2>1, <2>2 DEF Unplug
<1>3. ram' \in Settings /\ stored' \in Settings \cup {Nothing}
  <2>1. CASE UNCHANGED <<ram, stored>> BY <2>1 DEF Shapes
  <2>2. CASE stored' \in {stored} \cup CutSave /\ ram' = Restored(stored')
    <3>1. stored' \in Settings \cup {Nothing} BY <2>2 DEF CutSave, Shapes
    <3> QED BY <2>2, <3>1, Constants
  <2> QED BY <2>1, <2>2 DEF Unplug
<1>4. <<>> \in Seq(Answers) OBVIOUS
<1> QED BY <1>1, <1>2, <1>3, <1>4 DEF Shapes

(* Every step keeps the types.                                              *)
LEMMA ShapesStep == Shapes /\ [Next]_vars => Shapes'
<1> SUFFICES ASSUME Shapes, [Next]_vars PROVE Shapes'
  OBVIOUS
<1>1. CASE Handle BY <1>1, ShapesHandle
<1>2. CASE PressSet
  <2>1. PICK k \in Keys, v \in Values : Start("set", [key |-> k, val |-> v])
    BY <1>2 DEF PressSet
  <2> QED BY <2>1, ShapesStart DEF Arguments, SetArg
<1>3. CASE Press
  <2>1. PICK op \in Ops \ {"set"} : Start(op, <<>>) BY <1>3 DEF Press
  <2>2. op \in {"set", "save", "termsave", "defaults", "revert"} BY SessionAssumption
  <2> QED BY <2>1, <2>2, ShapesStart DEF Arguments
<1>4. CASE ArriveLate BY <1>4 DEF ArriveLate, Arrive, Shapes, device
<1>5. CASE SetDone \/ SaveDone \/ TermSaveDone \/ ReadDone
  BY <1>5, FinishCases, ShapesFinish
<1>6. CASE ResetDone BY <1>6, ShapesReset
<1>7. CASE Land BY <1>7 DEF Land, Resume, Shapes, device
<1>8. CASE Timeout
  <2>1. task' \in [Tasks -> Handlers \cup {Idle}] BY <1>8 DEF Timeout, Resume, Shapes
  <2>2. DOMAIN pending' \subseteq 1 .. MaxId /\ pending' \in [DOMAIN pending' -> Tasks]
    BY <1>8, Forgotten DEF Timeout
  <2> QED BY <1>8, <2>1, <2>2 DEF Timeout, Shapes, device
<1>9. CASE Connect
  <2>1. link' \in Links BY <1>9 DEF Connect, Shapes, Links
  <2> QED BY <1>9, <2>1 DEF Connect, Shapes, device
<1>10. ASSUME DropLink
       PROVE  /\ link' \in Links /\ task' \in [Tasks -> Handlers \cup {Idle}]
              /\ DOMAIN pending' \subseteq 1 .. MaxId /\ pending' \in [DOMAIN pending' -> Tasks]
  <2>1. link' \in Links BY <1>10 DEF DropLink, Shapes, Links
  <2>2. DOMAIN <<>> \subseteq 1 .. MaxId /\ <<>> \in [DOMAIN <<>> -> Tasks] OBVIOUS
  <2> QED BY <1>10, <2>1, <2>2, Failed DEF DropLink
<1>11. CASE Disconnect
  <2>1. <<>> \in Seq(Answers) OBVIOUS
  <2>2. DropLink /\ toHost' = <<>> /\ UNCHANGED <<ram, stored, plugged, toDev>>
    BY <1>11 DEF Disconnect, device
  <2> QED BY <2>1, <2>2, <1>10 DEF Shapes
<1>12. CASE Unplug BY <1>12, ShapesUnplug
<1>13. CASE NoticeLoss BY <1>13, <1>10 DEF NoticeLoss, Shapes, device
<1>14. CASE Plug BY <1>14 DEF Plug, Shapes
<1>15. CASE UNCHANGED vars BY <1>15 DEF vars, Shapes
<1> QED BY <1>1, <1>2, <1>3, <1>4, <1>5, <1>6, <1>7, <1>8, <1>9, <1>11, <1>12, <1>13,
           <1>14, <1>15 DEF Next
-----------------------------------------------------------------------------
(* The board takes the first request and answers it: the stream keeps the   *)
(* ids, tasks and commands, in their order.                                 *)
LEMMA Answered ==
  ASSUME Shapes, Handle, Live
  PROVE  /\ \E src \in Sources, vals \in Settings \cup {<<>>} :
              toHost' = Append(toHost, Reply(Head(toDev), src, vals))
         /\ toDev # <<>> /\ toDev' = Tail(toDev)
         /\ Len(InFlight') = Len(InFlight)
         /\ \A k \in 1 .. Len(InFlight) : /\ InFlight'[k].id = InFlight[k].id
                                          /\ InFlight'[k].task = InFlight[k].task
                                          /\ InFlight'[k].op = InFlight[k].op
                                          /\ InFlight'[k].arg = InFlight[k].arg
<1> DEFINE m == Head(toDev)
           w == InFlight
<1>1. toDev # <<>> /\ toDev' = Tail(toDev) BY DEF Handle
<1>2. \E src \in Sources, vals \in Settings \cup {<<>>} : Answer(m, Reply(m, src, vals))
  <2>1. "" \in Sources /\ "defaults" \in Sources /\ "flash" \in Sources BY DEF Sources
  <2>2. HandleSet(m) \/ HandleSave(m) \/ HandleDefaults(m) \/ HandleRevert(m) \/ HandleGetAll(m)
    BY DEF Handle
  <2>3. ram \in Settings BY DEF Shapes
  <2> HIDE DEF m
  <2> QED BY <2>1, <2>2, <2>3
      DEF HandleSet, HandleSave, HandleDefaults, HandleRevert, HandleGetAll
<1>3. PICK src \in Sources, vals \in Settings \cup {<<>>} :
        toHost' = Append(toHost, Reply(m, src, vals))
  BY <1>2 DEF Answer, Live
<1> DEFINE r == Reply(m, src, vals)
<1>4. r.id = m.id /\ r.task = m.task /\ r.op = m.op /\ r.arg = m.arg BY DEF Reply
<1>5. toHost \in Seq(Answers) /\ toDev \in Seq(Requests) BY DEF Shapes
<1>6. InFlight' = Append(toHost, r) \o Tail(toDev) BY <1>1, <1>3 DEF InFlight
<1>7. /\ Len(InFlight') = Len(w)
      /\ \A k \in 1 .. Len(w) : InFlight'[k] = IF k = Len(toHost) + 1 THEN r ELSE w[k]
      /\ w[Len(toHost) + 1] = m
  <2> HIDE DEF r
  <2> DEFINE h == Len(toHost)
             d == Len(toDev)
             u == Append(toHost, r)
             v == Tail(toDev)
  <2>1. h \in Nat /\ d \in Nat \ {0} BY <1>1, <1>5
  <2>2. Len(u) = h + 1 /\ u[h + 1] = r /\ \A k \in 1 .. h : u[k] = toHost[k] BY <1>5
  <2>3. Len(v) = d - 1 /\ \A k \in 1 .. d - 1 : v[k] = toDev[k + 1] BY <1>1, <1>5
  <2>4. /\ Len(w) = h + d
        /\ \A k \in 1 .. h + d : w[k] = IF k <= h THEN toHost[k] ELSE toDev[k - h]
    BY <1>5 DEF InFlight
  <2>5. u \in Seq(Answers \cup {r}) /\ v \in Seq(Requests) BY <1>1, <1>5
  <2>6. /\ Len(u \o v) = h + 1 + (d - 1)
        /\ \A k \in 1 .. h + d : (u \o v)[k] = IF k <= h + 1 THEN u[k] ELSE v[k - (h + 1)]
    BY <2>1, <2>2, <2>3, <2>5
  <2>7. w[h + 1] = m BY <1>1, <2>1, <2>4
  <2>8. InFlight' = u \o v BY <1>6
  <2> HIDE DEF h, d, u, v, w, m
  <2>9. \A k \in 1 .. h + d : (u \o v)[k] = IF k = h + 1 THEN r ELSE w[k]
    <3> SUFFICES ASSUME NEW k \in 1 .. h + d
                 PROVE  (u \o v)[k] = IF k = h + 1 THEN r ELSE w[k]
      OBVIOUS
    <3>1. CASE k <= h BY <2>1, <2>2, <2>4, <2>6, <3>1
    <3>2. CASE k = h + 1 BY <2>1, <2>2, <2>6, <3>2
    <3>3. CASE k > h + 1
      <4> DEFINE j == k - (h + 1)
      <4>1. j \in 1 .. d - 1 /\ j + 1 = k - h BY <2>1, <3>3
      <4>2. (u \o v)[k] = v[j] /\ w[k] = toDev[k - h] BY <2>1, <2>4, <2>6, <3>3
      <4> HIDE DEF j
      <4>3. v[j] = toDev[k - h] BY <2>3, <4>1
      <4> QED BY <2>1, <3>3, <4>2, <4>3
    <3>4. k <= h \/ k = h + 1 \/ k > h + 1 BY <2>1
    <3> QED BY <3>1, <3>2, <3>3, <3>4
  <2>10. Len(u \o v) = Len(w) /\ Len(w) = h + d BY <2>1, <2>4, <2>6
  <2> QED BY <2>7, <2>8, <2>9, <2>10 DEF h
<1>8. \A k \in 1 .. Len(w) : /\ InFlight'[k].id = w[k].id
                             /\ InFlight'[k].task = w[k].task
                             /\ InFlight'[k].op = w[k].op
                             /\ InFlight'[k].arg = w[k].arg
  <2> HIDE DEF r, m, w
  <2> QED BY <1>4, <1>7
<1> QED BY <1>1, <1>3, <1>7, <1>8

(* The board answers, or the port is gone.                                  *)
LEMMA RestHandle == Shapes /\ SessionRest /\ Handle => SessionRest'
<1> SUFFICES ASSUME Shapes, SessionRest, Handle PROVE SessionRest'
  OBVIOUS
<1>1. UNCHANGED <<plugged, link, pending, task>> BY DEF Handle
<1>2. CASE ~Live
  <2>1. toHost' = toHost
    BY <1>2 DEF Handle, HandleSet, HandleSave, HandleDefaults, HandleRevert, HandleGetAll,
                Answer, Live
  <2>2. ~Live' BY <1>1, <1>2 DEF Live
  <2>3. Drained' BY <1>1, <2>1 DEF SessionRest, Drained
  <2> QED BY <1>1, <2>2, <2>3 DEF SessionRest
<1>3. CASE Live
  <2>1. /\ Len(InFlight') = Len(InFlight)
        /\ \A k \in 1 .. Len(InFlight) : /\ InFlight'[k].id = InFlight[k].id
                                         /\ InFlight'[k].task = InFlight[k].task
                                         /\ InFlight'[k].op = InFlight[k].op
                                         /\ InFlight'[k].arg = InFlight[k].arg
    BY <1>3, Answered
  <2>2. Stream(InFlight, link.nextId, pending, task) BY <1>3 DEF SessionRest
  <2>3. InOrder(InFlight', link.nextId) BY <2>1, <2>2 DEF Stream, InOrder
  <2>4. UnderWay(InFlight', pending) BY <2>1, <2>2 DEF Stream, UnderWay
  <2>5. Meant(InFlight', pending, task) BY <2>1, <2>2 DEF Stream, Meant
  <2>6. Drained' BY <1>1, <1>3 DEF SessionRest, Drained, Live
  <2> QED BY <1>1, <2>3, <2>4, <2>5, <2>6 DEF SessionRest, Stream
<1> QED BY <1>2, <1>3

(* A failed write leaves a dead link, and nobody waiting.                    *)
LEMMA RestDropped ==
  ASSUME Drained, link.state \in {"connected", "disconnected"},
         link'.state = "disconnected", pending' = <<>>, link'.broken \/ toHost' = <<>>,
         ~plugged' => toHost' = <<>>
  PROVE  SessionRest'
<1>1. Drained' BY DEF Drained
<1>2. ~Live' BY DEF Live
<1>3. Waits(pending', task') BY DEF Waits
<1> QED BY <1>1, <1>2, <1>3 DEF SessionRest

(* A request over what remains of the stream after an answer was taken.      *)
LEMMA RestRequest ==
  ASSUME Shapes, SessionRest, link.state = "connected",
         NEW t \in Tasks, NEW op, NEW next \in Handlers, Waiting(next), op = Asked(next),
         NEW awaiting, awaiting \in [DOMAIN awaiting -> Tasks],
         NEW rest \in Seq(Answers),
         Waits(awaiting, task), \A i \in DOMAIN awaiting : awaiting[i] # t,
         Live => /\ Stream(rest \o toDev, link.nextId, awaiting, task)
                 /\ Len(rest \o toDev) < MaxWire,
         toHost' = rest, ~plugged => rest = <<>>, plugged' = plugged,
         Request(t, op, next, awaiting)
  PROVE  SessionRest'
<1>1. CASE plugged /\ ~link.broken
  <2> DEFINE m == [id |-> link.nextId, task |-> t, op |-> op, arg |-> next.arg]
             q == [i \in DOMAIN awaiting \cup {link.nextId} |->
                     IF i = link.nextId THEN t ELSE awaiting[i]]
             g == [task EXCEPT ![t] = next]
             w == rest \o toDev
  <2>1. /\ toDev' = Append(toDev, m) /\ pending' = q
        /\ link' = [link EXCEPT !.nextId = (link.nextId % MaxId) + 1]
        /\ task' = g
    BY <1>1 DEF Request, NextId
  <2>2. /\ link.nextId \in 1 .. MaxId /\ toDev \in Seq(Requests)
        /\ task \in [Tasks -> Handlers \cup {Idle}] /\ link \in Links
    BY DEF Shapes, Links
  <2>3. w \in Seq(Answers \cup Requests) BY <2>2
  <2>4. Live /\ Stream(w, link.nextId, awaiting, task) /\ Len(w) < MaxWire BY <1>1 DEF Live
  <2>5. InFlight' = Append(w, m)
    <3> HIDE DEF m
    <3>1. InFlight' = rest \o Append(toDev, m) BY <2>1 DEF InFlight
    <3> QED BY <3>1, <2>2
  <2>6. m.id = link.nextId /\ m.task = t /\ m.op = Asked(next) /\ m.arg = next.arg OBVIOUS
  <2>7. link'.nextId = (link.nextId % MaxId) + 1 /\ link'.state = link.state
        /\ link'.broken = link.broken
    BY <2>1, <2>2 DEF Links
  <2>8. /\ link.nextId \notin DOMAIN awaiting
        /\ Stream(Append(w, m), (link.nextId % MaxId) + 1, q, g)
    <3>1. /\ DOMAIN q = DOMAIN awaiting \cup {link.nextId} /\ q[link.nextId] = t
          /\ \A i \in DOMAIN awaiting : i # link.nextId => q[i] = awaiting[i]
          /\ m.op = Asked(g[t]) /\ m.arg = g[t].arg
          /\ \A u \in Tasks : u # t => g[u] = task[u]
      BY <2>2
    <3> DEFINE S == Answers \cup Requests
    <3>2. w \in Seq(S) BY <2>3
    <3>3. link.nextId \in 1 .. MaxId /\ Stream(w, link.nextId, awaiting, task) /\ Len(w) < MaxWire
      BY <2>2, <2>4
    <3> HIDE DEF w, m, q, g, S
    <3>4. Asks(link.nextId, awaiting, task, t, m, q, g) BY <2>6, <3>1 DEF Asks
    <3> QED BY <3>2, <3>3, <3>4, Ask
  <2>9. Waits(q, g)
    <3>1. \A i \in DOMAIN q : Waiting(g[q[i]])
      <4>1. TAKE i \in DOMAIN q
      <4>2. CASE i = link.nextId
        <5>1. q[i] = t /\ g[t] = next BY <4>2, <2>2
        <5> HIDE DEF q, g
        <5> QED BY <5>1
      <4>3. CASE i # link.nextId
        <5>1. i \in DOMAIN awaiting /\ q[i] = awaiting[i] BY <4>3
        <5>2. g[awaiting[i]] = task[awaiting[i]] BY <5>1, <2>2
        <5>3. Waiting(task[awaiting[i]]) BY <5>1 DEF Waits
        <5> HIDE DEF q, g
        <5> QED BY <5>1, <5>2, <5>3
      <4> QED BY <4>2, <4>3
    <3>2. \A i, j \in DOMAIN q : q[i] = q[j] => i = j BY DEF Waits
    <3> HIDE DEF q, g
    <3> QED BY <3>1, <3>2 DEF Waits
  <2>10. Drained' BY <1>1, <2>7 DEF SessionRest, Drained
  <2> HIDE DEF w, m, q, g
  <2> QED BY <2>1, <2>5, <2>7, <2>8, <2>9, <2>10 DEF SessionRest
<1>2. CASE ~(plugged /\ ~link.broken)
  <2>1. /\ link' = [link EXCEPT !.state = "disconnected", !.broken = TRUE]
        /\ pending' = <<>>
    BY <1>2 DEF Request
  <2>2. link'.state = "disconnected" /\ link'.broken BY <2>1 DEF Shapes, Links
  <2> QED BY <2>1, <2>2, RestDropped DEF SessionRest
<1> QED BY <1>1, <1>2

(* The first answer of the stream, and the stream without it.                *)
LEMMA FirstAnswer ==
  ASSUME Shapes, Arrive
  PROVE  /\ toHost' = Tail(toHost) /\ toHost' \in Seq(Answers) /\ toHost # <<>>
         /\ InFlight \in Seq(Answers \cup Requests) /\ InFlight # <<>>
         /\ InFlight[1].id = Head(toHost).id
         /\ Tail(InFlight) = Tail(toHost) \o toDev
         /\ UNCHANGED <<plugged, ram, stored>> /\ link.state = "connected"
<1>1. toHost' = Tail(toHost) /\ toHost # <<>> /\ toHost \in Seq(Answers) /\ toDev \in Seq(Requests)
  BY DEF Arrive, Shapes
<1>2. toHost' \in Seq(Answers) BY <1>1
<1>3. InFlight \in Seq(Answers \cup Requests) /\ Len(InFlight) = Len(toHost) + Len(toDev)
      /\ Len(toHost) > 0 /\ InFlight[1] = toHost[1]
  BY <1>1 DEF InFlight
<1>4. InFlight # <<>> BY <1>3, <1>1
<1>5. InFlight[1] = Head(toHost) BY <1>1, <1>3
<1>6. Tail(InFlight) = Tail(toHost) \o toDev BY <1>1 DEF InFlight
<1> QED BY <1>1, <1>2, <1>3, <1>4, <1>5, <1>6 DEF Arrive, device

(* An answer nobody waits for.                                              *)
LEMMA RestLate == Shapes /\ SessionRest /\ ArriveLate => SessionRest'
<1> SUFFICES ASSUME Shapes, SessionRest, ArriveLate PROVE SessionRest'
  OBVIOUS
<1>1. Arrive /\ Head(toHost).id \notin DOMAIN pending /\ UNCHANGED <<toDev, link, pending, task>>
  BY DEF ArriveLate
<1>2. InFlight' = Tail(InFlight) BY <1>1, FirstAnswer DEF InFlight
<1>3. Live => Stream(Tail(InFlight), link.nextId, pending, task)
  BY <1>1, FirstAnswer, TakeFirst DEF SessionRest, Stream
<1>4. Drained' BY <1>1, FirstAnswer DEF SessionRest, Drained
<1> QED BY <1>1, <1>2, <1>3, <1>4, FirstAnswer DEF SessionRest, Live

(* Forgetting an id is how its waiter leaves.                               *)
LEMMA Left ==
  ASSUME Shapes, NEW x \in DOMAIN pending, NEW g, \A u \in Tasks : u # pending[x] => g[u] = task[u]
  PROVE  Leaves(pending, task, x, Forget(x), g)
BY DEF Shapes, Leaves, Forget

(* An answer, and its waiter goes on.                                       *)
LEMMA RestFinish ==
  ASSUME Shapes, SessionRest, NEW next, Finishes(next)
  PROVE  SessionRest'
<1> DEFINE x == Head(toHost).id
<1>1. /\ Arrive /\ x \in DOMAIN pending /\ pending' = Forget(x)
      /\ task' = [task EXCEPT ![pending[x]] = next]
      /\ UNCHANGED <<toDev, link>>
  BY DEF Finishes, Resume
<1>2. \A u \in Tasks : u # pending[x] => task'[u] = task[u] BY <1>1 DEF Shapes
<1>3. Leaves(pending, task, x, pending', task') BY <1>1, <1>2, Left
<1>4. /\ Waits(pending', task')
      /\ UnderWay(InFlight, pending) => UnderWay(InFlight, pending')
      /\ Meant(InFlight, pending, task) => Meant(InFlight, pending', task')
  BY <1>3, GiveUp DEF SessionRest
<1>5. x \notin DOMAIN pending' BY <1>3 DEF Leaves
<1>6. InFlight' = Tail(InFlight) BY <1>1, FirstAnswer DEF InFlight
<1>7. Live => Stream(Tail(InFlight), link.nextId, pending', task')
  BY <1>1, <1>4, <1>5, FirstAnswer, TakeFirst DEF SessionRest, Stream
<1>8. Drained' BY <1>1, FirstAnswer DEF SessionRest, Drained
<1> QED BY <1>1, <1>4, <1>6, <1>7, <1>8, FirstAnswer DEF SessionRest, Live

(* An answer, and its waiter asks again.                                    *)
LEMMA RestReset == Shapes /\ SessionRest /\ ResetDone => SessionRest'
<1> SUFFICES ASSUME Shapes, SessionRest, ResetDone PROVE SessionRest'
  OBVIOUS
<1> DEFINE x == Head(toHost).id
           q == Forget(x)
<1>1. PICK next \in Handlers :
        /\ next.pc = "reading"
        /\ Arrive /\ x \in DOMAIN pending /\ pending[x] \in Tasks
        /\ Request(pending[x], "getall", next, q)
  BY ResetAsks
<1>2. Leaves(pending, task, x, q, task) BY <1>1, Left
<1>3. /\ Waits(q, task) /\ \A i \in DOMAIN q : q[i] # pending[x]
      /\ UnderWay(InFlight, pending) => UnderWay(InFlight, q)
      /\ Meant(InFlight, pending, task) => Meant(InFlight, q, task)
  <2>1. Waits(pending, task) BY DEF SessionRest
  <2> HIDE DEF q, x
  <2> QED BY <1>2, <2>1, GiveUp
<1>4. x \notin DOMAIN q BY <1>2 DEF Leaves
<1>5. Live => /\ Stream(Tail(InFlight), link.nextId, q, task)
              /\ Len(Tail(InFlight)) < MaxWire
  BY <1>1, <1>3, <1>4, FirstAnswer, TakeFirst DEF SessionRest, Stream
<1>6. q \in [DOMAIN q -> Tasks] BY Forgotten
<1>7. Waiting(next) /\ "getall" = Asked(next) BY <1>1 DEF Waiting, Asked
<1>8. ~plugged => Tail(toHost) = <<>> BY <1>1, FirstAnswer DEF SessionRest, Drained
<1>9. /\ link.state = "connected" /\ toHost' = Tail(toHost) /\ Tail(toHost) \in Seq(Answers)
      /\ plugged' = plugged /\ Tail(InFlight) = Tail(toHost) \o toDev
  BY <1>1, FirstAnswer
<1> HIDE DEF q, x
<1> QED BY <1>1, <1>3, <1>5, <1>6, <1>7, <1>8, <1>9, RestRequest

(* A press.                                                                 *)
LEMMA RestStart ==
  ASSUME Shapes, SessionRest,
         NEW op \in {"set", "save", "termsave", "defaults", "revert"}, NEW arg \in Arguments,
         op = "set" => arg \in SetArg, Start(op, arg)
  PROVE  SessionRest'
<1> DEFINE next == [pc |-> "asked", op |-> op, arg |-> arg, src |-> ""]
<1>1. PICK t \in Tasks : task[t] = Idle /\ Request(t, OpSent(op), next, pending) BY DEF Start
<1>2. next \in Handlers /\ Waiting(next) /\ OpSent(op) = Asked(next)
  BY DEF Handlers, Sources, Waiting, Asked
<1>3. pending \in [DOMAIN pending -> Tasks] /\ toHost \in Seq(Answers) /\ toDev \in Seq(Requests)
  BY DEF Shapes
<1>4. Waits(pending, task) /\ \A i \in DOMAIN pending : pending[i] # t
  BY <1>1, Constants DEF SessionRest, Waits, Waiting
<1>5. Len(toHost \o toDev) < MaxWire
  <2>1. Len(toHost \o toDev) = Len(toDev) + Len(toHost) BY <1>3
  <2> QED BY <2>1 DEF Start
<1>6. Live => Stream(toHost \o toDev, link.nextId, pending, task) BY DEF SessionRest, InFlight
<1>7. link.state = "connected" /\ toHost' = toHost /\ plugged' = plugged BY DEF Start, device
<1>8. ~plugged => toHost = <<>> BY DEF SessionRest, Drained
<1> HIDE DEF next
<1> QED BY <1>1, <1>2, <1>3, <1>4, <1>5, <1>6, <1>7, <1>8, RestRequest

(* A handler's last word touches no waiter.                                 *)
LEMMA RestLand == Shapes /\ SessionRest /\ Land => SessionRest'
<1> SUFFICES ASSUME Shapes, SessionRest, Land PROVE SessionRest'
  OBVIOUS
<1>1. PICK t \in Tasks : task[t].pc = "landing" /\ task' = [task EXCEPT ![t] = Idle]
  BY DEF Land, Resume
<1>2. UNCHANGED <<plugged, toDev, toHost, link, pending>> BY DEF Land, device
<1>3. \A i \in DOMAIN pending : pending[i] \in Tasks /\ Waiting(task[pending[i]])
  BY DEF Shapes, SessionRest, Waits
<1>4. \A i \in DOMAIN pending : task'[pending[i]] = task[pending[i]]
  BY <1>1, <1>3 DEF Waiting, Shapes
<1>5. Waits(pending, task') BY <1>3, <1>4 DEF SessionRest, Waits
<1>6. Meant(InFlight, pending, task) => Meant(InFlight, pending, task') BY <1>4 DEF Meant
<1>7. Live => Stream(InFlight, link.nextId, pending, task') BY <1>6 DEF SessionRest, Stream
<1>8. Drained' BY <1>2 DEF SessionRest, Drained
<1> QED BY <1>2, <1>5, <1>7, <1>8 DEF SessionRest, Live, InFlight

(* A request that times out leaves its answer on the wires, unawaited.      *)
LEMMA RestTimeout == Shapes /\ SessionRest /\ Timeout => SessionRest'
<1> SUFFICES ASSUME Shapes, SessionRest, Timeout PROVE SessionRest'
  OBVIOUS
<1>1. PICK x \in DOMAIN pending : task' = [task EXCEPT ![pending[x]] = Idle] /\ pending' = Forget(x)
  BY DEF Timeout, Resume
<1>2. UNCHANGED <<plugged, toDev, toHost, link>> BY DEF Timeout, device
<1>3. \A u \in Tasks : u # pending[x] => task'[u] = task[u] BY <1>1 DEF Shapes
<1>4. Leaves(pending, task, x, pending', task') BY <1>1, <1>3, Left
<1>5. /\ Waits(pending', task')
      /\ UnderWay(InFlight, pending) => UnderWay(InFlight, pending')
      /\ Meant(InFlight, pending, task) => Meant(InFlight, pending', task')
  BY <1>4, GiveUp DEF SessionRest
<1>6. Live => Stream(InFlight, link.nextId, pending', task') BY <1>5 DEF SessionRest, Stream
<1>7. Drained' BY <1>2 DEF SessionRest, Drained
<1> QED BY <1>2, <1>5, <1>6, <1>7 DEF SessionRest, Live, InFlight

(* A port opens on two empty wires, with nobody waiting.                     *)
LEMMA RestConnect == Shapes /\ SessionRest /\ Connect => SessionRest'
<1> SUFFICES ASSUME Shapes, SessionRest, Connect PROVE SessionRest'
  OBVIOUS
<1>1. UNCHANGED <<plugged, toDev, toHost, pending, task>> BY DEF Connect, device
<1>2. CASE link.broken
  <2>1. UNCHANGED link BY <1>2 DEF Connect
  <2> QED BY <1>1, <2>1 DEF SessionRest, Drained, Live, InFlight
<1>3. CASE ~link.broken
  <2>1. link' = [link EXCEPT !.state = "connected"] /\ toHost = <<>> /\ toDev = <<>>
    BY <1>3 DEF Connect, SessionRest, Drained
  <2>2. DOMAIN pending = {}
    <3>1. \A i \in DOMAIN pending : pending[i] \in Tasks /\ Waiting(task[pending[i]])
      BY DEF Shapes, SessionRest, Waits
    <3> QED BY <3>1, Constants DEF Connect, Waiting
  <2>3. Len(InFlight') = 0 BY <1>1, <2>1 DEF InFlight
  <2>4. Stream(InFlight', link'.nextId, pending', task')
    BY <1>1, <2>2, <2>3, EnoughIds DEF Stream, InOrder, UnderWay, Meant
  <2>5. Drained' BY <1>1, <1>3, <2>1 DEF Drained, Shapes, Links
  <2> QED BY <1>1, <2>4, <2>5 DEF SessionRest
<1> QED BY <1>2, <1>3

(* Every step keeps the order of the wires and the table in agreement.      *)
LEMMA RestStep == Shapes /\ SessionRest /\ [Next]_vars => SessionRest'
<1> SUFFICES ASSUME Shapes, SessionRest, [Next]_vars PROVE SessionRest'
  OBVIOUS
<1>1. CASE Handle BY <1>1, RestHandle
<1>2. CASE PressSet
  <2>1. PICK k \in Keys, v \in Values : Start("set", [key |-> k, val |-> v])
    BY <1>2 DEF PressSet
  <2> QED BY <2>1, RestStart DEF Arguments, SetArg
<1>3. CASE Press
  <2>1. PICK op \in Ops \ {"set"} : Start(op, <<>>) BY <1>3 DEF Press
  <2>2. op \in {"set", "save", "termsave", "defaults", "revert"} BY SessionAssumption
  <2> QED BY <2>1, <2>2, RestStart DEF Arguments
<1>4. CASE ArriveLate BY <1>4, RestLate
<1>5. CASE SetDone \/ SaveDone \/ TermSaveDone \/ ReadDone BY <1>5, FinishCases, RestFinish
<1>6. CASE ResetDone BY <1>6, RestReset
<1>7. CASE Land BY <1>7, RestLand
<1>8. CASE Timeout BY <1>8, RestTimeout
<1>9. CASE Connect BY <1>9, RestConnect
<1>10. CASE Disconnect
  <2>1. /\ link'.state = "disconnected" /\ pending' = <<>> /\ toHost' = <<>>
        /\ link.state = "connected"
    BY <1>10 DEF Disconnect, DropLink, Shapes, Links
  <2> QED BY <2>1, RestDropped DEF SessionRest
<1>11. CASE Unplug
  <2>1. ~plugged' /\ toHost' = <<>> /\ UNCHANGED <<link, pending, task>> BY <1>11 DEF Unplug
  <2> QED BY <2>1 DEF SessionRest, Drained, Live
<1>12. CASE NoticeLoss
  <2>1. /\ link'.state = "disconnected" /\ pending' = <<>> /\ toHost' = <<>>
        /\ link.state = "connected"
    BY <1>12 DEF NoticeLoss, DropLink, Shapes, Links, SessionRest, Drained
  <2> QED BY <2>1, RestDropped DEF SessionRest
<1>13. CASE Plug BY <1>13 DEF Plug, SessionRest, Drained, Live
<1>14. CASE UNCHANGED vars BY <1>14 DEF vars, SessionRest, Drained, Live, InFlight
<1> QED BY <1>1, <1>2, <1>3, <1>4, <1>5, <1>6, <1>7, <1>8, <1>9, <1>10, <1>11, <1>12, <1>13,
           <1>14 DEF Next
-----------------------------------------------------------------------------
(* A page that has just loaded.                                             *)
LEMMA SessionInit == Init => SessionInv
<1> SUFFICES ASSUME Init PROVE SessionInv
  OBVIOUS
<1>1. pending = <<>> /\ toHost = <<>> /\ toDev = <<>> /\ link.state = "disconnected" /\ ~link.broken
  BY DEF Init
<1>2. Shapes
  <2>1. link \in Links BY EnoughIds DEF Init, Links
  <2>2. ram \in Settings /\ stored \in Settings \cup {Nothing} BY Constants DEF Init
  <2>3. pending = <<>> /\ DOMAIN <<>> \subseteq 1 .. MaxId /\ <<>> \in [DOMAIN <<>> -> Tasks]
    BY DEF Init
  <2> QED BY <2>1, <2>2, <2>3 DEF Init, Shapes
<1>3. Drained BY <1>1 DEF Drained
<1>4. Waits(pending, task) BY <1>1 DEF Waits
<1>5. ~Live BY <1>1 DEF Live
<1> QED BY <1>2, <1>3, <1>4, <1>5 DEF SessionInv, SessionRest

(* The head of the stream is the answer that arrives next.                   *)
LEMMA SessionMatch == SessionInv => AnswersMatch
<1> SUFFICES ASSUME SessionInv, link.state = "connected", toHost # <<>>,
                    Head(toHost).id \in DOMAIN pending
             PROVE  LET m == Head(toHost)
                        t == pending[m.id]
                    IN  /\ m.task = t /\ m.arg = task[t].arg
                        /\ m.op = IF task[t].pc = "reading" THEN "getall" ELSE OpSent(task[t].op)
  BY DEF AnswersMatch
<1>1. Live BY DEF SessionInv, SessionRest, Drained, Live
<1>2. Meant(InFlight, pending, task) BY <1>1 DEF SessionInv, SessionRest, Stream
<1>3. toHost \in Seq(Answers) /\ toDev \in Seq(Requests) BY DEF SessionInv, Shapes
<1>4. 1 \in 1 .. Len(InFlight) /\ InFlight[1] = Head(toHost)
  <2>1. Len(InFlight) = Len(toHost) + Len(toDev) /\ Len(toHost) > 0 BY <1>3 DEF InFlight
  <2>2. InFlight[1] = toHost[1] BY <1>3, <2>1 DEF InFlight
  <2> QED BY <1>3, <2>1, <2>2
<1> QED BY <1>2, <1>4 DEF Meant, Asked

(* The invariant the order of the wires gives.                              *)
THEOREM SessionHolds == Spec => []SessionInv
<1>1. SessionInv /\ [Next]_vars => SessionInv'
  BY ShapesStep, RestStep DEF SessionInv
<1> QED BY <1>1, SessionInit, PTL DEF Spec

(* SerialLink: however late an answer comes, and although ids come round     *)
(* again, it resolves the request it answers and no other.                  *)
THEOREM AnswersTheorem == Spec => []AnswersMatch
<1> QED BY SessionHolds, SessionMatch, PTL
-----------------------------------------------------------------------------
(* What the page will show, while the port is open.  An answer about key k   *)
(* that somebody awaits (the ids p), and what it says of it.                *)
About(m, p, k) == m.id \in p /\ Concerns(m, k)

Says(m, k, r) == (m.op = "set" => m.arg.val = r) /\ (m.op = "getall" => m.vals[k] = r)

(* Everything is going to be read back.                                     *)
Rereads(d) == \E j \in 1 .. Len(d) : d[j].op = "getall"

(* The request i had the board's last word r on key k, of which the page     *)
(* holds v: nobody waits for it any more; or the page has had its answer and *)
(* no other is under way; or its answer is, it says r, and no later one is    *)
(* about k.                                                                *)
Known(w, d, p, k, i, v, r) ==
  \/ i = Lapsed
  \/ /\ i = Told /\ (v = r \/ Rereads(d))
     /\ \A j \in 1 .. Len(w) : ~About(w[j], p, k)
  \/ \E j \in 1 .. Len(w) :
       /\ w[j].id = i /\ About(w[j], p, k) /\ Says(w[j], k, r)
       /\ \A l \in 1 .. Len(w) : l > j => ~About(w[l], p, k)

Caching ==
  \A k \in Keys : Known(toHost, toDev, DOMAIN pending, k, word[k], values[k], ram[k])

CacheInv == SessionInv /\ values \in Settings /\ (Live => Caching)

(* No two messages on the wires carry the same id.                          *)
LEMMA Distinct ==
  ASSUME NEW S, NEW w \in Seq(S), NEW n \in 1 .. MaxId, InOrder(w, n),
         NEW j \in 1 .. Len(w), NEW k \in 1 .. Len(w), w[j].id = w[k].id
  PROVE  j = k
<1> DEFINE a == Len(w) - j + 1
           b == Len(w) - k + 1
<1>1. Len(w) \in Nat /\ Len(w) <= MaxId BY EnoughIds DEF InOrder
<1>2. a \in 1 .. MaxId /\ b \in 1 .. MaxId BY <1>1, EnoughIds
<1>3. Back(n, a) = Back(n, b) BY DEF InOrder
<1> HIDE DEF a, b
<1>4. a = b BY <1>2, <1>3, EnoughIds DEF Back
<1> QED BY <1>1, <1>4 DEF a, b

(* None carries the next one, if there are fewer than the ids.              *)
LEMMA Fresh ==
  ASSUME NEW S, NEW w \in Seq(S), NEW n \in 1 .. MaxId, InOrder(w, n),
         NEW k \in 1 .. Len(w), k > 1 \/ Len(w) < MaxWire
  PROVE  w[k].id # n
<1> DEFINE a == Len(w) - k + 1
<1>1. Len(w) \in Nat /\ Len(w) <= MaxWire BY DEF InOrder
<1>2. a \in 1 .. MaxId /\ a < MaxId BY <1>1, EnoughIds
<1>3. w[k].id = Back(n, a) BY DEF InOrder
<1> HIDE DEF a
<1> QED BY <1>2, <1>3, BackShifts

(* The wire to the page: every id once, and the next one not at all.         *)
LEMMA HostWire ==
  ASSUME Shapes, SessionRest, Live
  PROVE  /\ toHost \in Seq(Answers)
         /\ \A j, k \in 1 .. Len(toHost) : toHost[j].id = toHost[k].id => j = k
         /\ \A k \in 1 .. Len(toHost) :
              k > 1 \/ Len(toDev) + Len(toHost) < MaxWire => toHost[k].id # link.nextId
<1> DEFINE w == InFlight
           S == Answers \cup Requests
<1>1. toHost \in Seq(Answers) /\ toDev \in Seq(Requests) /\ link.nextId \in 1 .. MaxId
  BY DEF Shapes, Links
<1>2. /\ w \in Seq(S) /\ Len(w) = Len(toHost) + Len(toDev)
      /\ Len(toHost) \in Nat /\ Len(toDev) \in Nat
      /\ \A k \in 1 .. Len(toHost) : w[k] = toHost[k] /\ k \in 1 .. Len(w)
  BY <1>1 DEF InFlight
<1>3. InOrder(w, link.nextId) BY DEF SessionRest, Stream
<1> HIDE DEF w, S
<1>4. ASSUME NEW j \in 1 .. Len(toHost), NEW k \in 1 .. Len(toHost), toHost[j].id = toHost[k].id
      PROVE  j = k
  BY <1>1, <1>2, <1>3, <1>4, Distinct
<1>5. ASSUME NEW k \in 1 .. Len(toHost), k > 1 \/ Len(toDev) + Len(toHost) < MaxWire
      PROVE  toHost[k].id # link.nextId
  <2>1. k \in 1 .. Len(w) /\ w[k] = toHost[k] /\ (k > 1 \/ Len(w) < MaxWire) BY <1>2, <1>5
  <2> QED BY <1>1, <1>2, <1>3, <2>1, Fresh
<1> QED BY <1>1, <1>4, <1>5

(* The first answer, when somebody awaits it.                               *)
LEMMA Heard ==
  ASSUME SessionInv, Live, Arrive, Head(toHost).id \in DOMAIN pending
  PROVE  LET m == toHost[1]
             t == pending[m.id]
         IN  /\ toHost # <<>> /\ m = Head(toHost) /\ m \in Answers /\ t \in Tasks
             /\ m.op = Asked(task[t]) /\ m.arg = task[t].arg
             /\ \A j \in 1 .. Len(toHost) : j # 1 => toHost[j].id # m.id
<1>1. toHost # <<>> /\ toHost \in Seq(Answers) /\ link.state = "connected"
  BY DEF Arrive, SessionInv, Shapes
<1>2. toHost[1] = Head(toHost) /\ toHost[1] \in Answers /\ 1 \in 1 .. Len(toHost) BY <1>1
<1>3. pending[Head(toHost).id] \in Tasks BY DEF SessionInv, Shapes
<1>4. /\ Head(toHost).op = Asked(task[pending[Head(toHost).id]])
      /\ Head(toHost).arg = task[pending[Head(toHost).id]].arg
  BY <1>1, SessionMatch DEF AnswersMatch, Asked
<1> QED BY <1>1, <1>2, <1>3, <1>4, HostWire DEF SessionInv

(* A request on an open port joins the queue.                               *)
LEMMA Sent ==
  ASSUME Shapes, SessionRest, Live, NEW t \in Tasks, NEW op, NEW next, NEW awaiting,
         Request(t, op, next, awaiting)
  PROVE  /\ toDev' = Append(toDev, [id |-> link.nextId, task |-> t, op |-> op,
                                    arg |-> next.arg])
         /\ DOMAIN pending' = DOMAIN awaiting \cup {link.nextId}
<1>1. plugged /\ ~link.broken BY DEF Live, SessionRest, Drained
<1> QED BY <1>1 DEF Request, NextId

(* The port is closed on empty wires and opened with a fresh cache.          *)
LEMMA Opened ==
  ASSUME SessionInv, [Next]_vars, ~Live, Live'
  PROVE  toHost' = <<>> /\ values' = ram' /\ word' = [k \in Keys |-> Told]
<1>1. CASE Connect
  <2>1. ~link.broken BY <1>1 DEF Connect, Live
  <2> QED BY <1>1, <2>1 DEF Connect, device, SessionInv, SessionRest, Drained
<1>2. ASSUME NEW op, NEW arg, Start(op, arg) PROVE FALSE
  <2>1. ~plugged BY <1>2 DEF Start, Live
  <2> QED BY <1>2, <2>1 DEF Start, device, Live
<1>3. CASE ResetDone BY <1>3, SMTT(30) DEF ResetDone, Awaited, Arrive, device, Live
<1>4. CASE SetDone \/ SaveDone \/ TermSaveDone \/ ReadDone \/ ArriveLate
  BY <1>4 DEF SetDone, SaveDone, TermSaveDone, ReadDone, ArriveLate, Awaited, Arrive, device,
              Live
<1>5. CASE Handle \/ Land \/ Timeout \/ Unplug \/ Plug \/ UNCHANGED vars
  BY <1>5 DEF Handle, Land, Timeout, Unplug, Plug, vars, device, Live
<1>6. CASE Disconnect \/ NoticeLoss
  BY <1>6 DEF Disconnect, NoticeLoss, DropLink, device, Live, SessionInv, Shapes, Links
<1> QED BY <1>1, <1>2, <1>3, <1>4, <1>5, <1>6 DEF Next, PressSet, Press

(* What happens on a port that stays open.                                  *)
LEMMA StaysOpen ==
  ASSUME SessionInv, [Next]_vars, Live, Live'
  PROVE  \/ Handle \/ PressSet \/ Press \/ ArriveLate \/ ResetDone \/ Land \/ Timeout
         \/ SetDone \/ SaveDone \/ TermSaveDone \/ ReadDone \/ UNCHANGED vars
<1>1. ~Connect /\ ~Plug /\ ~NoticeLoss BY DEF Connect, Plug, NoticeLoss, Live
<1>2. ~Unplug BY DEF Unplug, Live
<1>3. ~Disconnect BY DEF Disconnect, DropLink, Live, SessionInv, Shapes, Links
<1> QED BY <1>1, <1>2, <1>3 DEF Next
-----------------------------------------------------------------------------
(* The board handles m and answers a.                                       *)
LEMMA KnownHandled ==
  ASSUME NEW w \in Seq(Answers), NEW a \in Answers, NEW d \in Seq(Requests), d # <<>>,
         NEW m, m = Head(d), a.id = m.id, a.op = m.op, a.arg = m.arg,
         NEW p, NEW k, NEW i, NEW l, NEW v, NEW r, NEW q,
         Known(w, d, p, k, i, v, r),
         l = IF ~Concerns(m, k) THEN i ELSE IF m.id \in p THEN m.id ELSE Lapsed,
         IF Concerns(m, k) THEN Says(a, k, q) ELSE q = r
  PROVE  Known(Append(w, a), Tail(d), p, k, l, v, q)
<1> DEFINE x == Append(w, a)
           e == Tail(d)
<1>1. /\ Len(w) \in Nat /\ Len(x) = Len(w) + 1 /\ x[Len(w) + 1] = a
      /\ \A j \in 1 .. Len(w) : x[j] = w[j] /\ j \in 1 .. Len(x)
      /\ Len(w) + 1 \in 1 .. Len(x)
      /\ \A j \in 1 .. Len(x) : j = Len(w) + 1 \/ j \in 1 .. Len(w)
  OBVIOUS
<1>2. /\ Len(d) \in Nat \ {0} /\ Len(e) = Len(d) - 1 /\ d[1] = m
      /\ \A j \in 1 .. Len(d) : j # 1 => j - 1 \in 1 .. Len(e) /\ e[j - 1] = d[j]
  OBVIOUS
<1>3. Concerns(a, k) <=> Concerns(m, k) BY DEF Concerns
<1> HIDE DEF x, e
<1>4. CASE Concerns(m, k) /\ m.id \in p
  <2>1. x[Len(w) + 1].id = l /\ About(x[Len(w) + 1], p, k) /\ Says(x[Len(w) + 1], k, q)
    BY <1>1, <1>3, <1>4 DEF About
  <2>2. \A j \in 1 .. Len(x) : ~(j > Len(w) + 1) BY <1>1
  <2> QED BY <1>1, <2>1, <2>2 DEF Known, x, e
<1>5. CASE Concerns(m, k) /\ m.id \notin p BY <1>5 DEF Known
<1>6. CASE ~Concerns(m, k)
  <2>1. l = i /\ q = r /\ ~About(x[Len(w) + 1], p, k) BY <1>1, <1>3, <1>6 DEF About
  <2>2. Rereads(d) => Rereads(e)
    <3>1. d[1].op # "getall" BY <1>2, <1>6 DEF Concerns
    <3> QED BY <1>2, <3>1 DEF Rereads
  <2>3. CASE i = Lapsed BY <2>1, <2>3 DEF Known
  <2>4. CASE i = Told /\ (v = r \/ Rereads(d)) /\ \A j \in 1 .. Len(w) : ~About(w[j], p, k)
    <3>1. \A j \in 1 .. Len(x) : ~About(x[j], p, k) BY <1>1, <2>1, <2>4
    <3> QED BY <2>1, <2>2, <2>4, <3>1 DEF Known, x, e
  <2>5. ASSUME NEW j \in 1 .. Len(w), w[j].id = i, About(w[j], p, k), Says(w[j], k, r),
               \A n \in 1 .. Len(w) : n > j => ~About(w[n], p, k)
        PROVE  Known(x, e, p, k, l, v, q)
    <3>1. j \in 1 .. Len(x) /\ x[j] = w[j] BY <1>1
    <3>2. \A n \in 1 .. Len(x) : n > j => ~About(x[n], p, k) BY <1>1, <2>1, <2>5
    <3> QED BY <2>1, <2>5, <3>1, <3>2 DEF Known
  <2> QED BY <2>3, <2>4, <2>5 DEF Known, x, e
<1> QED BY <1>4, <1>5, <1>6

(* A request joins the queue and somebody awaits its id n, new to the wire.   *)
LEMMA KnownSent ==
  ASSUME NEW w, NEW d, NEW e, NEW p, NEW n, NEW k, NEW i, NEW v, NEW r,
         Known(w, d, p, k, i, v, r),
         \A j \in 1 .. Len(w) : w[j].id # n, Rereads(d) => Rereads(e)
  PROVE  Known(w, e, p \cup {n}, k, i, v, r)
<1>1. \A j \in 1 .. Len(w) : About(w[j], p \cup {n}, k) <=> About(w[j], p, k) BY DEF About
<1> HIDE DEF About, Says, Rereads
<1> QED BY <1>1 DEF Known

(* Nobody awaits the id x any more.                                         *)
LEMMA KnownLapsed ==
  ASSUME NEW w, NEW d, NEW p, NEW x, NEW k, NEW i, NEW v, NEW r, Known(w, d, p, k, i, v, r)
  PROVE  Known(w, d, p \ {x}, k, IF i = x THEN Lapsed ELSE i, v, r)
<1>1. \A j \in 1 .. Len(w) : About(w[j], p \ {x}, k) => About(w[j], p, k) BY DEF About
<1>2. CASE i = x BY <1>2 DEF Known
<1>3. CASE i # x
  <2>1. \A j \in 1 .. Len(w) : w[j].id = i /\ About(w[j], p, k) => About(w[j], p \ {x}, k)
    BY <1>3 DEF About
  <2> QED BY <1>1, <1>3, <2>1 DEF Known
<1> QED BY <1>2, <1>3

(* The first answer leaves the wire, unheard.                               *)
LEMMA KnownLate ==
  ASSUME NEW w \in Seq(Answers), w # <<>>, NEW d, NEW p, NEW k, NEW i, NEW v, NEW r,
         Known(w, d, p, k, i, v, r), ~About(w[1], p, k)
  PROVE  Known(Tail(w), d, p, k, i, v, r)
<1> DEFINE x == Tail(w)
<1>1. /\ Len(w) \in Nat \ {0} /\ Len(x) = Len(w) - 1
      /\ \A j \in 1 .. Len(x) : x[j] = w[j + 1] /\ j + 1 \in 1 .. Len(w) /\ j + 1 > 1
      /\ \A j \in 1 .. Len(w) : j # 1 => j - 1 \in 1 .. Len(x) /\ x[j - 1] = w[j]
  OBVIOUS
<1> HIDE DEF x
<1>2. CASE i = Lapsed BY <1>2 DEF Known
<1>3. CASE i = Told /\ (v = r \/ Rereads(d)) /\ \A j \in 1 .. Len(w) : ~About(w[j], p, k)
  <2>1. \A j \in 1 .. Len(x) : ~About(x[j], p, k) BY <1>1, <1>3
  <2> QED BY <1>3, <2>1 DEF Known, x
<1>4. ASSUME NEW j \in 1 .. Len(w), w[j].id = i, About(w[j], p, k), Says(w[j], k, r),
             \A n \in 1 .. Len(w) : n > j => ~About(w[n], p, k)
      PROVE  Known(x, d, p, k, i, v, r)
  <2>1. j # 1 BY <1>4
  <2>2. j - 1 \in 1 .. Len(x) /\ x[j - 1] = w[j] BY <1>1, <2>1
  <2>3. \A n \in 1 .. Len(x) : n > j - 1 => ~About(x[n], p, k) BY <1>1, <1>4
  <2> QED BY <1>4, <2>2, <2>3 DEF Known
<1> QED BY <1>2, <1>3, <1>4 DEF Known, x

(* The first answer leaves the wire and is heard: the page holds u now.      *)
LEMMA KnownHeard ==
  ASSUME NEW w \in Seq(Answers), w # <<>>, NEW d, NEW e, NEW p, NEW k, NEW i, NEW l,
         NEW v, NEW u, NEW r, Known(w, d, p, k, i, v, r),
         w[1].id \in p, w[1].id # Lapsed, w[1].id # Told,
         \A j \in 1 .. Len(w) : j # 1 => w[j].id # w[1].id,
         Rereads(d) => Rereads(e),
         \/ l = IF i = w[1].id THEN Told ELSE i
         \/ l = i /\ ~Concerns(w[1], k),
         IF Concerns(w[1], k) THEN (Says(w[1], k, r) => u = r) \/ Rereads(e) ELSE u = v
  PROVE  Known(Tail(w), e, p \ {w[1].id}, k, l, u, r)
<1> DEFINE x == Tail(w)
           q == p \ {w[1].id}
<1>1. /\ Len(w) \in Nat \ {0} /\ Len(x) = Len(w) - 1
      /\ \A j \in 1 .. Len(x) : x[j] = w[j + 1] /\ j + 1 \in 1 .. Len(w) /\ j + 1 > 1
      /\ \A j \in 1 .. Len(w) : j # 1 => j - 1 \in 1 .. Len(x) /\ x[j - 1] = w[j]
      /\ 1 \in 1 .. Len(w)
  OBVIOUS
<1>2. \A m : About(m, q, k) <=> About(m, p, k) /\ m.id # w[1].id BY DEF About
<1> HIDE DEF x, q
<1>3. CASE i = Lapsed BY <1>3 DEF Known
<1>4. CASE i = Told /\ (v = r \/ Rereads(d)) /\ \A j \in 1 .. Len(w) : ~About(w[j], p, k)
  <2>1. ~Concerns(w[1], k) BY <1>1, <1>4 DEF About
  <2>2. l = Told /\ u = v BY <1>4, <2>1
  <2>3. \A j \in 1 .. Len(x) : ~About(x[j], q, k) BY <1>1, <1>2, <1>4
  <2> QED BY <1>4, <2>2, <2>3 DEF Known, x, q
<1>5. ASSUME NEW j \in 1 .. Len(w), w[j].id = i, About(w[j], p, k), Says(w[j], k, r),
             \A n \in 1 .. Len(w) : n > j => ~About(w[n], p, k)
      PROVE  Known(x, e, q, k, l, u, r)
  <2>1. CASE j = 1
    <3>1. Concerns(w[1], k) /\ l = Told BY <1>5, <2>1 DEF About
    <3>2. u = r \/ Rereads(e) BY <1>5, <2>1, <3>1
    <3>3. \A n \in 1 .. Len(x) : ~About(x[n], q, k) BY <1>1, <1>2, <1>5, <2>1
    <3> QED BY <3>1, <3>2, <3>3 DEF Known
  <2>2. CASE j # 1
    <3>1. i # w[1].id /\ l = i BY <1>5, <2>2
    <3>2. j - 1 \in 1 .. Len(x) /\ x[j - 1] = w[j] BY <1>1, <2>2
    <3>3. About(x[j - 1], q, k) BY <1>2, <1>5, <3>1, <3>2
    <3>4. \A n \in 1 .. Len(x) : n > j - 1 => ~About(x[n], q, k) BY <1>1, <1>2, <1>5
    <3> QED BY <1>5, <3>1, <3>2, <3>3, <3>4 DEF Known
  <2> QED BY <2>1, <2>2
<1> QED BY <1>3, <1>4, <1>5 DEF Known, x, q
-----------------------------------------------------------------------------
(* What the cache holds are settings.                                       *)
LEMMA CacheTyped ==
  ASSUME SessionInv, values \in Settings, [Next]_vars
  PROVE  values' \in Settings
<1>1. Shapes BY DEF SessionInv
<1> DEFINE m == Head(toHost)
           t == pending[m.id]
<1>2. CASE SetDone
  <2>1. /\ values' = [values EXCEPT ![task[t].arg.key] = task[t].arg.val]
        /\ m.id \in DOMAIN pending /\ task[t].pc = "asked" /\ task[t].op = "set"
    BY <1>2 DEF SetDone, Awaited
  <2>2. t \in Tasks BY <1>1, <2>1 DEF Shapes
  <2>3. task[t].arg \in SetArg BY <1>1, <2>1, <2>2, Constants DEF Shapes, Handlers
  <2> QED BY <2>1, <2>3 DEF Settings, SetArg
<1>3. CASE ReadDone
  <2>1. /\ values' = m.vals /\ m.id \in DOMAIN pending /\ task[t].pc = "reading"
        /\ link.state = "connected" /\ toHost # <<>>
    BY <1>3 DEF ReadDone, Awaited, Arrive
  <2>2. m.op = "getall" BY <2>1, SessionMatch DEF AnswersMatch
  <2>3. m \in Answers BY <1>1, <2>1 DEF Shapes
  <2> QED BY <2>1, <2>2, <2>3 DEF Answers
<1>4. CASE Connect BY <1>1, <1>4 DEF Connect, Shapes
<1>5. CASE ~SetDone /\ ~ReadDone /\ ~Connect
  BY <1>5 DEF Next, vars, Handle, PressSet, Press, Start, ArriveLate, SaveDone, TermSaveDone,
              ResetDone, Land, Timeout, Disconnect, Unplug, NoticeLoss, Plug
<1> QED BY <1>2, <1>3, <1>4, <1>5

(* The board's turn.                                                        *)
LEMMA CacheHandle == ASSUME SessionInv, Live, Caching, Handle PROVE Caching'
<1> DEFINE m == Head(toDev)
<1>1. /\ toDev # <<>> /\ toDev' = Tail(toDev) /\ UNCHANGED <<pending, values>>
      /\ HandleSet(m) \/ HandleSave(m) \/ HandleDefaults(m) \/ HandleRevert(m) \/ HandleGetAll(m)
      /\ Speaks(m)
  BY DEF Handle
<1>2. /\ toDev \in Seq(Requests) /\ toHost \in Seq(Answers) /\ ram \in Settings
      /\ m \in Requests
  BY <1>1 DEF SessionInv, Shapes
<1> HIDE DEF m
<1>3. PICK src \in Sources, vals \in Settings \cup {<<>>} :
        /\ toHost' = Append(toHost, Reply(m, src, vals))
        /\ m.op = "getall" => vals = ram
  <2>1. "" \in Sources /\ "defaults" \in Sources /\ "flash" \in Sources BY DEF Sources
  <2> QED BY <1>1, <1>2, <2>1
      DEF HandleSet, HandleSave, HandleDefaults, HandleRevert, HandleGetAll, Answer, Live
<1> DEFINE a == Reply(m, src, vals)
<1>4. /\ a \in Answers /\ a.id = m.id /\ a.op = m.op /\ a.arg = m.arg
      /\ m.op = "getall" => a.vals = ram
  BY <1>2, <1>3 DEF Reply, Requests, Answers
<1> HIDE DEF a
<1>5. \/ m.op = "set" /\ ram' = [ram EXCEPT ![m.arg.key] = m.arg.val]
      \/ m.op = "save" /\ ram' = ram
      \/ m.op \in {"defaults", "revert"}
      \/ m.op = "getall" /\ ram' = ram
  BY <1>1 DEF HandleSet, HandleSave, HandleDefaults, HandleRevert, HandleGetAll
<1>6. ASSUME NEW k \in Keys
      PROVE  Known(Append(toHost, a), Tail(toDev), DOMAIN pending, k, word'[k], values[k], ram'[k])
  <2>1. Known(toHost, toDev, DOMAIN pending, k, word[k], values[k], ram[k]) BY DEF Caching
  <2>2. word'[k] = IF ~Concerns(m, k) THEN word[k]
                   ELSE IF m.id \in DOMAIN pending THEN m.id ELSE Lapsed
    BY <1>1 DEF Speaks
  <2>3. IF Concerns(m, k) THEN Says(a, k, ram'[k]) ELSE ram'[k] = ram[k]
    <3>1. CASE m.op = "set"
      <4>1. m.arg \in SetArg BY <1>2, <3>1 DEF Requests
      <4>2. ram'[k] = IF m.arg.key = k THEN m.arg.val ELSE ram[k]
        BY <1>2, <1>5, <3>1, <4>1 DEF Settings, SetArg
      <4> QED BY <1>4, <3>1, <4>2 DEF Concerns, Says
    <3>2. CASE m.op = "getall" BY <1>4, <1>5, <3>2 DEF Concerns, Says
    <3>3. CASE m.op \in {"defaults", "revert"} BY <1>4, <3>3 DEF Concerns, Says
    <3>4. CASE m.op = "save" BY <1>5, <3>4 DEF Concerns
    <3> QED BY <1>5, <3>1, <3>2, <3>3, <3>4
  <2>4. m = Head(toDev) BY DEF m
  <2> QED BY <1>1, <1>2, <1>4, <2>1, <2>2, <2>3, <2>4, KnownHandled
<1> QED BY <1>1, <1>3, <1>6 DEF Caching, a

(* A press.                                                                 *)
LEMMA CacheStart ==
  ASSUME SessionInv, Live, Caching, NEW op, NEW arg, Start(op, arg) PROVE Caching'
<1> DEFINE next == [pc |-> "asked", op |-> op, arg |-> arg, src |-> ""]
           n == link.nextId
<1>1. PICK t \in Tasks : Request(t, OpSent(op), next, pending) BY DEF Start
<1>2. /\ UNCHANGED <<ram, toHost, values, word>> /\ Len(toDev) + Len(toHost) < MaxWire
  BY DEF Start, device
<1>3. PICK m : toDev' = Append(toDev, m) /\ DOMAIN pending' = DOMAIN pending \cup {n}
  BY <1>1, Sent DEF SessionInv
<1>4. \A j \in 1 .. Len(toHost) : toHost[j].id # n BY <1>2, HostWire DEF SessionInv
<1>5. Rereads(toDev) => Rereads(toDev')
  <2>1. toDev \in Seq(Requests) BY DEF SessionInv, Shapes
  <2> QED BY <1>3, <2>1 DEF Rereads
<1>6. ASSUME NEW k \in Keys
      PROVE  Known(toHost, toDev', DOMAIN pending \cup {n}, k, word[k], values[k], ram[k])
  <2>1. Known(toHost, toDev, DOMAIN pending, k, word[k], values[k], ram[k]) BY DEF Caching
  <2> HIDE DEF n
  <2> QED BY <1>4, <1>5, <2>1, KnownSent
<1> QED BY <1>2, <1>3, <1>6 DEF Caching

(* An answer to defaults or revert, and its handler asks for everything.     *)
LEMMA CacheReset == ASSUME SessionInv, Live, Caching, ResetDone PROVE Caching'
<1> DEFINE m == toHost[1]
           n == link.nextId
           q == DOMAIN pending \ {m.id}
<1>1. PICK next \in Handlers :
        /\ Arrive /\ Head(toHost).id \in DOMAIN pending /\ pending[Head(toHost).id] \in Tasks
        /\ Request(pending[Head(toHost).id], "getall", next, Forget(Head(toHost).id))
  BY ResetAsks DEF SessionInv
<1>2. /\ toHost # <<>> /\ m = Head(toHost) /\ m \in Answers
      /\ m.op = Asked(task[pending[m.id]])
      /\ \A j \in 1 .. Len(toHost) : j # 1 => toHost[j].id # m.id
  BY <1>1, Heard
<1>3. m.op \in {"defaults", "revert"}
  BY <1>2 DEF ResetDone, Awaited, Asked, OpSent
<1>4. PICK g : /\ toDev' = Append(toDev, g) /\ g.op = "getall"
               /\ DOMAIN pending' = DOMAIN Forget(m.id) \cup {n}
  <2> DEFINE g == [id |-> link.nextId, task |-> pending[Head(toHost).id], op |-> "getall",
                   arg |-> next.arg]
  <2>1. g.op = "getall" OBVIOUS
  <2>2. /\ toDev' = Append(toDev, g)
        /\ DOMAIN pending' = DOMAIN Forget(Head(toHost).id) \cup {n}
    BY <1>1, Sent DEF SessionInv
  <2> HIDE DEF g
  <2> QED BY <1>2, <2>1, <2>2
<1>5. DOMAIN pending' = q \cup {n} BY <1>4 DEF Forget
<1>6. toHost \in Seq(Answers) /\ toDev \in Seq(Requests) BY DEF SessionInv, Shapes
<1>7. Rereads(toDev')
  <2>1. Len(toDev) + 1 \in 1 .. Len(toDev') /\ toDev'[Len(toDev) + 1] = g BY <1>4, <1>6
  <2> QED BY <1>4, <2>1 DEF Rereads
<1>8. /\ toHost' = Tail(toHost) /\ UNCHANGED <<ram, values>>
      /\ word' = [k \in Keys |-> IF word[k] = m.id THEN Told ELSE word[k]]
  BY <1>1, <1>2 DEF ResetDone, Arrive, device, Closes
<1>9. m.id # Lapsed /\ m.id # Told BY <1>2, EnoughIds DEF Answers, Lapsed, Told
<1>10. \A j \in 1 .. Len(Tail(toHost)) : Tail(toHost)[j].id # n
  <2> SUFFICES ASSUME NEW j \in 1 .. Len(Tail(toHost)) PROVE Tail(toHost)[j].id # n
    OBVIOUS
  <2>1. j + 1 \in 1 .. Len(toHost) /\ j + 1 > 1 /\ Tail(toHost)[j] = toHost[j + 1]
    BY <1>2, <1>6
  <2> QED BY <2>1, HostWire DEF SessionInv
<1> HIDE DEF m, n
<1>11. ASSUME NEW k \in Keys
       PROVE  Known(Tail(toHost), toDev', q, k, word'[k], values[k], ram[k])
  <2>1. Known(toHost, toDev, DOMAIN pending, k, word[k], values[k], ram[k]) BY DEF Caching
  <2>2. word'[k] = IF word[k] = m.id THEN Told ELSE word[k] BY <1>8
  <2>3. Concerns(m, k) BY <1>3 DEF Concerns
  <2> QED BY <1>1, <1>2, <1>6, <1>7, <1>9, <2>1, <2>2, <2>3, KnownHeard DEF m
<1> HIDE DEF q
<1>12. \A k \in Keys : Known(Tail(toHost), toDev', q \cup {n}, k, word'[k], values[k], ram[k])
  BY <1>10, <1>11, KnownSent
<1> QED BY <1>5, <1>8, <1>12 DEF Caching

(* Any other answer that was awaited.                                       *)
LEMMA CacheHeard ==
  ASSUME SessionInv, Live, values \in Settings, Caching,
         SetDone \/ SaveDone \/ TermSaveDone \/ ReadDone
  PROVE  Caching'
<1> DEFINE m == toHost[1]
           t == pending[m.id]
<1>1. PICK next : Finishes(next) BY FinishCases DEF SessionInv
<1>2. /\ Arrive /\ Head(toHost).id \in DOMAIN pending /\ toDev' = toDev
      /\ pending' = Forget(Head(toHost).id)
  BY <1>1 DEF Finishes
<1>3. /\ toHost # <<>> /\ m = Head(toHost) /\ m \in Answers /\ t \in Tasks
      /\ m.op = Asked(task[t]) /\ m.arg = task[t].arg
      /\ \A j \in 1 .. Len(toHost) : j # 1 => toHost[j].id # m.id
  BY <1>2, Heard
<1>4. toHost \in Seq(Answers) /\ toHost' = Tail(toHost) /\ ram' = ram
  BY <1>2 DEF SessionInv, Shapes, Arrive, device
<1>5. DOMAIN pending' = DOMAIN pending \ {m.id} BY <1>2, <1>3 DEF Forget
<1>6. m.id # Lapsed /\ m.id # Told BY <1>3, EnoughIds DEF Answers, Lapsed, Told
<1>7. ASSUME NEW k \in Keys
      PROVE  /\ \/ word'[k] = IF word[k] = m.id THEN Told ELSE word[k]
                \/ word'[k] = word[k] /\ ~Concerns(m, k)
             /\ IF Concerns(m, k) THEN Says(m, k, ram[k]) => values'[k] = ram[k]
                ELSE values'[k] = values[k]
  <2>1. CASE SetDone
    <3>1. /\ values' = [values EXCEPT ![task[t].arg.key] = task[t].arg.val]
          /\ task[t].pc = "asked" /\ task[t].op = "set"
          /\ word' = [c \in Keys |-> IF word[c] = m.id THEN Told ELSE word[c]]
      BY <1>3, <2>1 DEF SetDone, Awaited, Closes
    <3>2. m.op = "set" BY <1>3, <3>1 DEF Asked, OpSent
    <3>3. m.arg \in SetArg BY <1>3, <3>2 DEF Answers
    <3> HIDE DEF m, t
    <3>4. values'[k] = IF m.arg.key = k THEN m.arg.val ELSE values[k]
      BY <1>3, <3>1, <3>3 DEF Settings, SetArg
    <3> QED BY <3>1, <3>2, <3>4 DEF Concerns, Says
  <2>2. CASE SaveDone \/ TermSaveDone
    <3>1. /\ UNCHANGED <<values, word>> /\ task[t].pc = "asked"
          /\ task[t].op \in {"save", "termsave"}
      BY <1>3, <2>2 DEF SaveDone, TermSaveDone, Awaited
    <3>2. m.op = "save" BY <1>3, <3>1 DEF Asked, OpSent
    <3> QED BY <3>1, <3>2 DEF Concerns
  <2>3. CASE ReadDone
    <3>1. /\ values' = m.vals /\ task[t].pc = "reading"
          /\ word' = [c \in Keys |-> IF word[c] = m.id THEN Told ELSE word[c]]
      BY <1>3, <2>3 DEF ReadDone, Awaited, Closes
    <3>2. m.op = "getall" BY <1>3, <3>1 DEF Asked
    <3> QED BY <3>1, <3>2 DEF Concerns, Says
  <2> QED BY <2>1, <2>2, <2>3
<1>8. ASSUME NEW k \in Keys
      PROVE  Known(Tail(toHost), toDev, DOMAIN pending \ {m.id}, k, word'[k], values'[k], ram[k])
  <2>1. Known(toHost, toDev, DOMAIN pending, k, word[k], values[k], ram[k]) BY DEF Caching
  <2>2. m.id \in DOMAIN pending BY <1>2, <1>3
  <2>3. IF Concerns(m, k) THEN (Says(m, k, ram[k]) => values'[k] = ram[k]) \/ Rereads(toDev)
        ELSE values'[k] = values[k]
    BY <1>7
  <2> QED BY <1>3, <1>4, <1>6, <1>7, <2>1, <2>2, <2>3, KnownHeard
<1> QED BY <1>2, <1>4, <1>5, <1>8 DEF Caching

(* Every step keeps track of who had the last word.                         *)
LEMMA CacheStep == CacheInv /\ [Next]_vars => CacheInv'
<1> SUFFICES ASSUME CacheInv, [Next]_vars PROVE CacheInv'
  OBVIOUS
<1>1. SessionInv /\ values \in Settings /\ (Live => Caching) BY DEF CacheInv
<1>2. SessionInv' /\ values' \in Settings
  BY <1>1, ShapesStep, RestStep, CacheTyped DEF SessionInv
<1> SUFFICES ASSUME Live' PROVE Caching'
  BY <1>2 DEF CacheInv
<1>3. CASE ~Live
  <2>1. toHost' = <<>> /\ values' = ram' /\ \A k \in Keys : word'[k] = Told
    BY <1>1, <1>3, Opened
  <2>2. Len(toHost') = 0 BY <2>1
  <2> QED BY <2>1, <2>2 DEF Caching, Known
<1> SUFFICES ASSUME Live, Caching PROVE Caching'
  BY <1>1, <1>3
<1>4. CASE Handle BY <1>1, <1>4, CacheHandle
<1>5. CASE PressSet \/ Press BY <1>1, <1>5, CacheStart DEF PressSet, Press
<1>6. CASE ArriveLate
  <2>1. /\ toHost # <<>> /\ Head(toHost).id \notin DOMAIN pending /\ toHost' = Tail(toHost)
        /\ UNCHANGED <<ram, toDev, pending, values, word>> /\ toHost \in Seq(Answers)
    BY <1>1, <1>6 DEF ArriveLate, Arrive, device, SessionInv, Shapes
  <2>2. toHost[1] = Head(toHost) BY <2>1
  <2>3. \A k \in Keys : ~About(toHost[1], DOMAIN pending, k) BY <2>1, <2>2 DEF About
  <2> QED BY <2>1, <2>3, KnownLate DEF Caching
<1>7. CASE ResetDone BY <1>1, <1>7, CacheReset
<1>8. CASE SetDone \/ SaveDone \/ TermSaveDone \/ ReadDone BY <1>1, <1>8, CacheHeard
<1>9. CASE Timeout
  <2>1. PICK id \in DOMAIN pending :
          /\ DOMAIN pending' = DOMAIN pending \ {id}
          /\ word' = [k \in Keys |-> IF word[k] = id THEN Lapsed ELSE word[k]]
    BY <1>9 DEF Timeout, Forget, Closes
  <2>2. UNCHANGED <<ram, toHost, toDev, values>> BY <1>9 DEF Timeout, device
  <2>3. \A k \in Keys : Known(toHost, toDev, DOMAIN pending \ {id}, k,
                            IF word[k] = id THEN Lapsed ELSE word[k], values[k], ram[k])
    BY KnownLapsed DEF Caching
  <2> QED BY <2>1, <2>2, <2>3 DEF Caching
<1>10. CASE Land BY <1>10 DEF Land, device, Caching
<1>11. CASE UNCHANGED vars BY <1>11 DEF vars, Caching
<1> QED BY <1>1, <1>4, <1>5, <1>6, <1>7, <1>8, <1>9, <1>10, <1>11, StaysOpen

(* At first no port is open.                                                *)
LEMMA CacheInit == Init => CacheInv
<1> SUFFICES ASSUME Init PROVE CacheInv
  OBVIOUS
<1>1. ~Live /\ values \in Settings BY Constants DEF Init, Live
<1> QED BY <1>1, SessionInit DEF CacheInv

(* api.js: what the pages show and a dump would hold is, key by key, what the *)
(* board holds whenever nothing is under way, whatever buttons were pressed   *)
(* in whatever order, requests timed out, the port lost and opened again:    *)
(* except for a key on which the board's last word was a request that timed   *)
(* out.                                                                    *)
THEOREM ValuesTheorem == Spec => []ValuesHonest
<1>1. CacheInv /\ [Next]_vars => CacheInv' BY CacheStep
<1>2. CacheInv => ValuesHonest
  <2> SUFFICES ASSUME CacheInv, Quiet, NEW k \in Keys
               PROVE  values[k] = ram[k] \/ word[k] = Lapsed
    BY DEF ValuesHonest
  <2>1. Live /\ Len(toHost) = 0 /\ Len(toDev) = 0 BY DEF Quiet, Live
  <2>2. Known(toHost, toDev, DOMAIN pending, k, word[k], values[k], ram[k])
    BY <2>1 DEF CacheInv, Caching
  <2> QED BY <2>1, <2>2 DEF Known, Rereads
<1> QED BY <1>1, <1>2, CacheInit, PTL DEF Spec
-----------------------------------------------------------------------------

(* The letters of the line being sent are all in the buffer, unless they     *)
(* are too many: then the buffer is full and the line is being dropped.      *)
Gathers(b, d) ==
  /\ b \in Seq(Letters) /\ d \in BOOLEAN
  /\ d <=> Len(typed) > MaxLineIn
  /\ ~d => b = typed
  /\ d => Len(b) >= MaxLineIn

(* The k-th line read is the k-th line sent.                                 *)
Reads(l) ==
  /\ l \in Seq([text : Seq(Letters), overflowed : BOOLEAN]) /\ Len(l) = Len(sent)
  /\ \A k \in DOMAIN sent : IF Len(sent[k]) > MaxLineIn THEN l[k].overflowed
                            ELSE l[k] = [text |-> sent[k], overflowed |-> FALSE]

(* The inductive invariant of the reader.                                   *)
ReaderInv ==
  /\ typed \in Seq(Letters) /\ sent \in Seq(Seq(Letters))
  /\ \E b, d, l :
       reader = [buf |-> b, dropping |-> d, lines |-> l] /\ Gathers(b, d) /\ Reads(l)

(* What feed does with each character.                                      *)
LEMMA LineFed ==
  ASSUME NEW b \in Seq(Letters), NEW d \in BOOLEAN, NEW l
  PROVE  \A r : r = [buf |-> b, dropping |-> d, lines |-> l] =>
           /\ FeedLine(r, "cr") = r
           /\ FeedLine(r, "lf") =
                [buf |-> <<>>, dropping |-> FALSE,
                 lines |-> Append(l, [text |-> b, overflowed |-> d])]
           /\ \A c \in Letters :
                FeedLine(r, c) = IF Len(b) >= MaxLineIn
                                 THEN [buf |-> b, dropping |-> TRUE, lines |-> l]
                                 ELSE [buf |-> Append(b, c), dropping |-> d, lines |-> l]
<1> SUFFICES ASSUME NEW r, r = [buf |-> b, dropping |-> d, lines |-> l]
             PROVE  /\ FeedLine(r, "cr") = r
                    /\ FeedLine(r, "lf") =
                         [buf |-> <<>>, dropping |-> FALSE,
                          lines |-> Append(l, [text |-> b, overflowed |-> d])]
                    /\ \A c \in Letters :
                         FeedLine(r, c) =
                           IF Len(b) >= MaxLineIn
                           THEN [buf |-> b, dropping |-> TRUE, lines |-> l]
                           ELSE [buf |-> Append(b, c), dropping |-> d, lines |-> l]
  OBVIOUS
<1>0. Len(b) \in Nat /\ MaxLineIn \in Nat /\ "cr" \notin Letters /\ "lf" \notin Letters
  BY LinesAssumption
<1>1. FeedLine(r, "cr") = r
  BY <1>0 DEF FeedLine
<1>2. FeedLine(r, "lf") = [buf |-> <<>>, dropping |-> FALSE,
                           lines |-> Append(l, [text |-> b, overflowed |-> d])]
  BY <1>0 DEF FeedLine, FreshReader, Completed
<1>3. ASSUME NEW c \in Letters
      PROVE  FeedLine(r, c) = IF Len(b) >= MaxLineIn
                              THEN [buf |-> b, dropping |-> TRUE, lines |-> l]
                              ELSE [buf |-> Append(b, c), dropping |-> d, lines |-> l]
  <2>1. c # "cr" /\ c # "lf"
    BY <1>0
  <2>2. CASE Len(b) >= MaxLineIn
    <3>1. FeedLine(r, c) = [r EXCEPT !.dropping = TRUE]
      BY <1>0, <2>1, <2>2 DEF FeedLine
    <3> QED
      BY <2>2, <3>1
  <2>3. CASE Len(b) < MaxLineIn
    <3>1. FeedLine(r, c) = [r EXCEPT !.buf = Append(@, c)]
      BY <1>0, <2>1, <2>3 DEF FeedLine
    <3>2. r.buf = b
      OBVIOUS
    <3>3. PICK x : x = Append(b, c)
      OBVIOUS
    <3>4. [r EXCEPT !.buf = Append(@, c)] = [r EXCEPT !.buf = x]
      BY <3>2, <3>3
    <3>5. [r EXCEPT !.buf = x] = [buf |-> x, dropping |-> d, lines |-> l]
      OBVIOUS
    <3>6. ~(Len(b) >= MaxLineIn)
      BY <1>0, <2>3
    <3> QED
      BY <3>1, <3>3, <3>4, <3>5, <3>6
  <2> QED
    BY <1>0, <2>2, <2>3
<1> QED
  BY <1>1, <1>2, <1>3

(* LineReader::feed: every line is read as it was sent, or flagged.         *)
LEMMA BoardReads == ReaderSpec => []BoardLines
<1>1. ReaderInit => ReaderInv
  <2> SUFFICES ASSUME ReaderInit PROVE ReaderInv
    OBVIOUS
  <2>1. Gathers(<<>>, FALSE)
    BY LinesAssumption DEF ReaderInit, Gathers
  <2>2. Reads(<<>>)
    BY DEF ReaderInit, Reads
  <2>3. reader = [buf |-> <<>>, dropping |-> FALSE, lines |-> <<>>]
    BY DEF ReaderInit, FreshReader
  <2>4. typed \in Seq(Letters) /\ sent \in Seq(Seq(Letters)) /\ <<>> \in Seq(Letters)
    BY DEF ReaderInit
  <2> QED
    BY <2>1, <2>2, <2>3, <2>4 DEF ReaderInv
<1>2. ReaderInv /\ [ReaderNext]_readerVars => ReaderInv'
  <2> SUFFICES ASSUME ReaderInv, [ReaderNext]_readerVars PROVE ReaderInv'
    OBVIOUS
  <2>0. /\ typed \in Seq(Letters) /\ sent \in Seq(Seq(Letters))
        /\ Len(typed) \in Nat /\ MaxLineIn \in Nat
    BY LinesAssumption DEF ReaderInv
  <2>1. PICK b, d, l :
          reader = [buf |-> b, dropping |-> d, lines |-> l] /\ Gathers(b, d) /\ Reads(l)
    BY DEF ReaderInv
  <2>b. b \in Seq(Letters) /\ d \in BOOLEAN
    BY <2>1 DEF Gathers
  <2>r. /\ FeedLine(reader, "cr") = reader
        /\ FeedLine(reader, "lf") = [buf |-> <<>>, dropping |-> FALSE,
                                     lines |-> Append(l, [text |-> b, overflowed |-> d])]
        /\ \A c \in Letters :
             FeedLine(reader, c) = IF Len(b) >= MaxLineIn
                                   THEN [buf |-> b, dropping |-> TRUE, lines |-> l]
                                   ELSE [buf |-> Append(b, c), dropping |-> d, lines |-> l]
    <3>1. PICK x : x = [buf |-> b, dropping |-> d, lines |-> l]
      OBVIOUS
    <3>2. x = reader
      BY <2>1, <3>1
    <3> QED
      BY <2>b, <3>1, <3>2, LineFed
  <2>2. CASE TypeChar
    <3>1. PICK c \in Letters \cup {"cr"} :
            /\ reader' = FeedLine(reader, c)
            /\ typed' = IF c = "cr" THEN typed ELSE Append(typed, c)
      BY <2>2 DEF TypeChar
    <3>2. sent' = sent /\ Reads(l)'
      BY <2>1, <2>2 DEF TypeChar, Reads
    <3>3. CASE c = "cr"
      <4>1. reader' = reader /\ typed' = typed
        BY <2>r, <3>1, <3>3
      <4>2. Gathers(b, d)'
        BY <2>1, <4>1 DEF Gathers
      <4> QED
        BY <2>0, <2>b, <2>1, <3>2, <4>1, <4>2 DEF ReaderInv
    <3>4. CASE c \in Letters
      <4>1. /\ typed' = Append(typed, c) /\ typed' \in Seq(Letters)
            /\ Len(typed') = Len(typed) + 1
        BY <2>0, <2>b, <3>1, <3>4, LinesAssumption
      <4>2. CASE Len(b) >= MaxLineIn
        <5>1. reader' = [buf |-> b, dropping |-> TRUE, lines |-> l]
          BY <2>r, <3>1, <3>4, <4>2, LinesAssumption
        <5>2. Gathers(b, TRUE)'
          BY <2>0, <2>b, <2>1, <4>1, <4>2 DEF Gathers
        <5> QED
          BY <2>0, <2>b, <3>2, <4>1, <5>1, <5>2 DEF ReaderInv
      <4>3. CASE Len(b) < MaxLineIn
        <5>1. reader' = [buf |-> Append(b, c), dropping |-> d, lines |-> l]
          BY <2>0, <2>b, <2>r, <3>1, <3>4, <4>3, LinesAssumption
        <5>2. ~d /\ b = typed
          BY <2>0, <2>b, <2>1, <4>3 DEF Gathers
        <5>3. Gathers(Append(b, c), d)'
          BY <2>0, <2>b, <4>1, <4>3, <5>2 DEF Gathers
        <5>4. Append(b, c) \in Seq(Letters)
          BY <4>1, <5>2
        <5> QED
          BY <2>0, <2>b, <3>2, <4>1, <5>1, <5>3, <5>4 DEF ReaderInv
      <4> QED
        BY <2>0, <2>b, <4>2, <4>3
    <3> QED
      BY <3>3, <3>4
  <2>3. CASE TypeLineFeed
    <3>1. PICK line : line = [text |-> b, overflowed |-> d]
      OBVIOUS
    <3>2. /\ reader' = [buf |-> <<>>, dropping |-> FALSE, lines |-> Append(l, line)]
          /\ sent' = Append(sent, typed) /\ typed' = <<>>
      BY <2>r, <2>3, <3>1 DEF TypeLineFeed
    <3>3. Gathers(<<>>, FALSE)'
      BY <2>0, <2>b, <3>2 DEF Gathers
    <3>4. Reads(Append(l, line))'
      <4>1. line \in [text : Seq(Letters), overflowed : BOOLEAN]
        BY <2>b, <3>1
      <4>2. IF Len(typed) > MaxLineIn THEN line.overflowed
            ELSE line = [text |-> typed, overflowed |-> FALSE]
        BY <2>1, <3>1 DEF Gathers
      <4>3. PICK n \in Nat : n = Len(l) /\ n = Len(sent)
        BY <2>0, <2>b, <2>1 DEF Reads
      <4>4. /\ Append(l, line) \in Seq([text : Seq(Letters), overflowed : BOOLEAN])
            /\ Len(Append(l, line)) = n + 1 /\ Append(l, line)[n + 1] = line
            /\ \A k \in 1 .. n : Append(l, line)[k] = l[k]
        BY <2>1, <4>1, <4>3 DEF Reads
      <4>5. /\ DOMAIN sent' = 1 .. n + 1 /\ Len(sent') = n + 1 /\ sent'[n + 1] = typed
            /\ DOMAIN sent = 1 .. n /\ \A k \in 1 .. n : sent'[k] = sent[k]
        BY <2>0, <2>b, <3>2, <4>3
      <4>6. ASSUME NEW k \in 1 .. n + 1
            PROVE  IF Len(sent'[k]) > MaxLineIn THEN Append(l, line)[k].overflowed
                   ELSE Append(l, line)[k] = [text |-> sent'[k], overflowed |-> FALSE]
        <5>1. CASE k = n + 1
          BY <4>2, <4>4, <4>5, <5>1
        <5>2. CASE k \in 1 .. n
          <6>1. sent'[k] = sent[k] /\ Append(l, line)[k] = l[k]
            BY <4>4, <4>5, <5>2
          <6>2. IF Len(sent[k]) > MaxLineIn THEN l[k].overflowed
                ELSE l[k] = [text |-> sent[k], overflowed |-> FALSE]
            BY <2>1, <4>5, <5>2 DEF Reads
          <6> QED
            BY <6>1, <6>2
        <5> QED
          <6>1. k = n + 1 \/ k \in 1 .. n
            BY <4>3
          <6> QED
            BY <5>1, <5>2, <6>1, Zenon
      <4> QED
        BY <4>4, <4>5, <4>6 DEF Reads
    <3>5. sent' \in Seq(Seq(Letters)) /\ typed' \in Seq(Letters)
      BY <2>0, <2>b, <3>2
    <3> QED
      BY <3>2, <3>3, <3>4, <3>5 DEF ReaderInv
  <2>4. CASE Boot
    <3>1. /\ reader' = [buf |-> <<>>, dropping |-> FALSE, lines |-> <<>>]
          /\ sent' = <<>> /\ typed' = <<>>
      BY <2>4 DEF Boot, FreshReader
    <3>2. Gathers(<<>>, FALSE)'
      BY <2>0, <2>b, <3>1 DEF Gathers
    <3>3. Reads(<<>>)'
      BY <3>1 DEF Reads
    <3>4. /\ typed' \in Seq(Letters) /\ sent' \in Seq(Seq(Letters))
          /\ <<>> \in Seq(Letters) /\ FALSE \in BOOLEAN
      BY <3>1
    <3> QED
      BY <3>1, <3>2, <3>3, <3>4 DEF ReaderInv
  <2>5. CASE UNCHANGED readerVars
    <3>1. reader' = reader /\ typed' = typed /\ sent' = sent
      BY <2>5 DEF readerVars
    <3>2. Gathers(b, d)' /\ Reads(l)'
      BY <2>1, <3>1 DEF Gathers, Reads
    <3> QED
      BY <2>0, <2>b, <2>1, <3>1, <3>2 DEF ReaderInv
  <2> QED
    BY <2>2, <2>3, <2>4, <2>5 DEF ReaderNext
<1>3. ReaderInv => BoardLines
  <2> SUFFICES ASSUME ReaderInv PROVE BoardLines
    OBVIOUS
  <2>1. PICK b, d, l :
          reader = [buf |-> b, dropping |-> d, lines |-> l] /\ Gathers(b, d) /\ Reads(l)
    BY DEF ReaderInv
  <2>2. reader.lines = l
    BY <2>1
  <2> QED
    BY <2>1, <2>2 DEF BoardLines, Reads
<1> QED
  BY <1>1, <1>2, <1>3, PTL DEF ReaderSpec
-----------------------------------------------------------------------------

(* The line feeds of t are in order: the k-th is where the k-th line ends.   *)
Ordered(t, n) ==
  /\ n \in Nat /\ n = Cardinality(Feeds(t))
  /\ \A k \in 1 .. n : EndOf(t, k) \in Feeds(t) /\ FeedsUpto(t, EndOf(t, k)) = k
  /\ \A i \in Feeds(t) : FeedsUpto(t, i) \in 1 .. n /\ EndOf(t, FeedsUpto(t, i)) = i

(* The line feeds of a text are positions in it, finitely many.             *)
LEMMA FeedsFinite ==
  ASSUME NEW t \in Seq(Chars)
  PROVE  /\ Feeds(t) \subseteq 1 .. Len(t) /\ IsFiniteSet(Feeds(t))
         /\ Cardinality(Feeds(t)) \in Nat
         /\ \A i : IsFiniteSet({j \in Feeds(t) : j <= i})
<1>1. Feeds(t) \in SUBSET (1 .. Len(t)) /\ Len(t) \in Nat
  BY DEF Feeds
<1>2. IsFiniteSet(1 .. Len(t))
  BY <1>1, FS_Interval
<1>3. IsFiniteSet(Feeds(t))
  BY <1>1, <1>2, FS_Subset
<1>4. ASSUME NEW i PROVE IsFiniteSet({j \in Feeds(t) : j <= i})
  <2>1. {j \in Feeds(t) : j <= i} \in SUBSET Feeds(t)
    OBVIOUS
  <2> QED
    BY <1>3, <2>1, FS_Subset
<1> QED
  BY <1>1, <1>3, <1>4, FS_CardinalityType

(* A later line feed has more line feeds up to it.                          *)
LEMMA RankGrows ==
  ASSUME NEW t \in Seq(Chars), NEW i \in Feeds(t), NEW j \in Feeds(t), i < j
  PROVE  FeedsUpto(t, i) < FeedsUpto(t, j)
<1>0. i \in Nat /\ j \in Nat
  BY FeedsFinite
<1> DEFINE Before(x) == {y \in Feeds(t) : y <= x}
<1>1. /\ IsFiniteSet(Before(i)) /\ IsFiniteSet(Before(j))
      /\ Cardinality(Before(i)) \in Nat /\ Cardinality(Before(j)) \in Nat
  BY FeedsFinite, FS_CardinalityType
<1>2. Before(i) \in SUBSET Before(j) /\ j \in Before(j) /\ j \notin Before(i)
  BY <1>0, FeedsFinite
<1>3. Before(i) # Before(j)
  BY <1>2
<1>4. Cardinality(Before(i)) <= Cardinality(Before(j))
  BY <1>1, <1>2, FS_Subset
<1>5. Cardinality(Before(i)) # Cardinality(Before(j))
  BY <1>1, <1>2, <1>3, FS_Subset
<1>6. FeedsUpto(t, i) = Cardinality(Before(i)) /\ FeedsUpto(t, j) = Cardinality(Before(j))
  BY DEF FeedsUpto
<1> HIDE DEF Before
<1> QED
  BY <1>1, <1>4, <1>5, <1>6

(* It has at least itself, and at most all of them.                         *)
LEMMA RankBounded ==
  ASSUME NEW t \in Seq(Chars), NEW i \in Feeds(t)
  PROVE  FeedsUpto(t, i) \in 1 .. Cardinality(Feeds(t))
<1> DEFINE B == {y \in Feeds(t) : y <= i}
<1>0. i \in Nat
  BY FeedsFinite
<1>1. IsFiniteSet(B) /\ Cardinality(B) \in Nat
  BY FeedsFinite, FS_CardinalityType
<1>2. B \in SUBSET Feeds(t) /\ i \in B
  BY <1>0
<1>3. Cardinality(B) <= Cardinality(Feeds(t))
  BY <1>2, FeedsFinite, FS_Subset
<1>4. B # {}
  BY <1>2
<1>5. Cardinality(B) # 0
  BY <1>1, <1>4, FS_EmptySet
<1>6. FeedsUpto(t, i) = Cardinality(B)
  BY DEF FeedsUpto
<1> HIDE DEF B
<1> QED
  BY <1>1, <1>3, <1>5, <1>6, FeedsFinite

(* So they are numbered without a gap: counting is one to one into 1 .. n,  *)
(* and a set of n can only be mapped so onto it.                            *)
LEMMA FeedsOrdered ==
  ASSUME NEW t \in Seq(Chars)
  PROVE  Ordered(t, Cardinality(Feeds(t)))
<1> DEFINE n == Cardinality(Feeds(t))
           f == [i \in Feeds(t) |-> FeedsUpto(t, i)]
<1>1. n \in Nat /\ IsFiniteSet(Feeds(t)) /\ Feeds(t) \subseteq Nat
  BY FeedsFinite
<1>2. \A i \in Feeds(t) : FeedsUpto(t, i) \in 1 .. n
  BY RankBounded
<1>3. f \in [Feeds(t) -> 1 .. n]
  BY <1>2
<1>4. ASSUME NEW i \in Feeds(t), NEW j \in Feeds(t), FeedsUpto(t, i) = FeedsUpto(t, j)
      PROVE  i = j
  <2>1. i \in Nat /\ j \in Nat /\ FeedsUpto(t, i) \in Nat
    BY <1>1, <1>2
  <2>2. ~(i < j) /\ ~(j < i)
    BY <1>4, <2>1, RankGrows
  <2> QED
    BY <2>1, <2>2
<1>5. f \in Injection(Feeds(t), 1 .. n)
  <2>1. \A i \in Feeds(t) : f[i] = FeedsUpto(t, i)
    OBVIOUS
  <2> HIDE DEF f, n
  <2>2. \A i, j \in Feeds(t) : f[i] = f[j] => i = j
    BY <1>4, <2>1
  <2> QED
    BY <1>3, <2>2, Zenon DEF Injection, IsInjective
<1>6. IsFiniteSet(1 .. n) /\ Cardinality(1 .. n) = n
  BY <1>1, FS_Interval
<1>7. f \in Surjection(Feeds(t), 1 .. n)
  BY <1>5, <1>6, FS_Injection
<1>8. ASSUME NEW k \in 1 .. n
      PROVE  EndOf(t, k) \in Feeds(t) /\ FeedsUpto(t, EndOf(t, k)) = k
  <2>1. \E i \in Feeds(t) : FeedsUpto(t, i) = k
    BY <1>7 DEF Surjection
  <2>2. EndOf(t, k) = CHOOSE i \in Feeds(t) : FeedsUpto(t, i) = k
    BY <1>1 DEF EndOf
  <2> QED
    BY <2>1, <2>2
<1>9. ASSUME NEW i \in Feeds(t) PROVE EndOf(t, FeedsUpto(t, i)) = i
  BY <1>2, <1>4, <1>8
<1> HIDE DEF n
<1>10. n = Cardinality(Feeds(t))
  BY DEF n
<1> QED
  BY <1>1, <1>2, <1>8, <1>9, <1>10 DEF Ordered

(* Where a line ends depends on nothing that comes later.                    *)
SameEnds(t, t2, n) ==
  \A k \in 0 .. n : EndOf(t2, k) = EndOf(t, k) /\ EndOf(t, k) \in 0 .. Len(t)

(* The old line feeds are the first of the new ones.                        *)
LEMMA EndsKept ==
  ASSUME NEW t \in Seq(Chars), NEW c \in Seq(Chars), NEW t2, t2 = t \o c,
         NEW n, n = Cardinality(Feeds(t))
  PROVE  /\ t2 \in Seq(Chars) /\ n <= Cardinality(Feeds(t2))
         /\ Feeds(t) = {i \in Feeds(t2) : i <= Len(t)}
         /\ SameEnds(t, t2, n)
<1>1. /\ t2 \in Seq(Chars) /\ Len(t) \in Nat /\ Len(t2) = Len(t) + Len(c) /\ Len(c) \in Nat
      /\ \A i \in 1 .. Len(t) : t2[i] = t[i]
  OBVIOUS
<1>2. Feeds(t) = {i \in Feeds(t2) : i <= Len(t)}
  BY <1>1 DEF Feeds
<1>3. Feeds(t) \in SUBSET Feeds(t2) /\ n \in Nat
  BY <1>2, FeedsFinite
<1>4. n <= Cardinality(Feeds(t2)) /\ Cardinality(Feeds(t2)) \in Nat
  BY <1>1, <1>3, FeedsFinite, FS_Subset
<1>5. ASSUME NEW i \in Feeds(t) PROVE FeedsUpto(t2, i) = FeedsUpto(t, i)
  <2>1. {j \in Feeds(t2) : j <= i} = {j \in Feeds(t) : j <= i}
    <3>1. i \in 1 .. Len(t) /\ Feeds(t2) \subseteq Nat
      <4>1. Feeds(t) \subseteq 1 .. Len(t) /\ Feeds(t2) \subseteq 1 .. Len(t2)
        BY <1>1, FeedsFinite
      <4> QED
        BY <1>1, <4>1
    <3>2. \A j \in Feeds(t2) : j <= i => j <= Len(t)
      BY <1>1, <3>1
    <3> QED
      BY <1>2, <3>2
  <2> QED
    BY <2>1 DEF FeedsUpto
<1>6. ASSUME NEW k \in 0 .. n
      PROVE  EndOf(t2, k) = EndOf(t, k) /\ EndOf(t, k) \in 0 .. Len(t)
  <2>1. CASE k = 0
    BY <1>1, <2>1 DEF EndOf
  <2>2. CASE k \in 1 .. n
    <3>1. /\ EndOf(t, k) \in Feeds(t) /\ FeedsUpto(t, EndOf(t, k)) = k
          /\ EndOf(t, k) \in 1 .. Len(t)
      BY <2>2, FeedsOrdered, FeedsFinite DEF Ordered
    <3>2. EndOf(t, k) \in Feeds(t2) /\ FeedsUpto(t2, EndOf(t, k)) = k
      BY <1>3, <1>5, <3>1
    <3>3. EndOf(t2, k) = EndOf(t, k)
      BY <1>1, <3>2, FeedsOrdered DEF Ordered
    <3> QED
      BY <1>1, <3>1, <3>3
  <2> QED
    BY <1>3, <2>1, <2>2
<1> QED
  BY <1>1, <1>2, <1>4, <1>6 DEF SameEnds

(* No line feed comes after the end of the last line.                        *)
LEMMA LastFeed ==
  ASSUME NEW t \in Seq(Chars), NEW n, n = Cardinality(Feeds(t)), NEW i \in Feeds(t)
  PROVE  i <= EndOf(t, n)
<1>1. /\ FeedsUpto(t, i) \in 1 .. n /\ n \in Nat /\ i \in Nat
      /\ EndOf(t, FeedsUpto(t, i)) = i
  BY FeedsOrdered, FeedsFinite DEF Ordered
<1>2. n \in 1 .. n
  BY <1>1
<1>3. EndOf(t, n) \in Feeds(t) /\ FeedsUpto(t, EndOf(t, n)) = n
  BY <1>2, FeedsOrdered DEF Ordered
<1>4. EndOf(t, n) \in Nat
  BY <1>3, FeedsFinite
<1>5. EndOf(t, n) < i => n < FeedsUpto(t, i)
  BY <1>3, RankGrows
<1> QED
  BY <1>1, <1>4, <1>5

(* A set of numbers moved up by e has as many members.                      *)
LEMMA ShiftedSet ==
  ASSUME NEW S \in SUBSET Nat, IsFiniteSet(S), NEW e \in Nat
  PROVE  /\ IsFiniteSet({e + i : i \in S})
         /\ Cardinality({e + i : i \in S}) = Cardinality(S)
<1> DEFINE T == {e + i : i \in S}
           f == [i \in S |-> e + i]
<1>1. f \in [S -> T] /\ \A i \in S : f[i] = e + i
  OBVIOUS
<1>2. \A x \in T : \E i \in S : f[i] = x
  BY <1>1
<1>3. \A i, j \in S : f[i] = f[j] => i = j
  BY <1>1
<1> HIDE DEF f, T
<1>4. f \in Bijection(S, T)
  BY <1>1, <1>2, <1>3, Zenon DEF Bijection, Injection, IsInjective, Surjection
<1>5. ExistsBijection(S, T)
  BY <1>4 DEF ExistsBijection
<1>6. IsFiniteSet(T) /\ Cardinality(T) = Cardinality(S)
  BY <1>5, FS_Bijection
<1> QED
  BY <1>6 DEF T

(* What is left of t and what comes next, as one text: the new text from the *)
(* end of its last old line on.                                            *)
Remains(t, c, e, u) ==
  /\ u \in Seq(Chars) /\ e \in 0 .. Len(t) /\ Len(u) + e = Len(t) + Len(c)
  /\ \A j \in 1 .. Len(u) : (t \o c)[e + j] = u[j]

(* This is what LineBuffer holds, with the chunk.                           *)
LEMMA RemainsOf ==
  ASSUME NEW t \in Seq(Chars), NEW c \in Seq(Chars), NEW e \in 0 .. Len(t)
  PROVE  Remains(t, c, e, SubSeq(t, e + 1, Len(t)) \o c)
<1>1. Len(t) \in Nat /\ Len(c) \in Nat /\ e \in Nat /\ e <= Len(t)
  OBVIOUS
<1>2. PICK r : r = SubSeq(t, e + 1, Len(t))
  OBVIOUS
<1>3. /\ r \in Seq(Chars) /\ Len(r) = Len(t) - e
      /\ \A j \in 1 .. Len(t) - e : r[j] = t[e + j]
  BY <1>1, <1>2
<1>4. PICK u : u = r \o c
  OBVIOUS
<1>5. u \in Seq(Chars) /\ Len(u) + e = Len(t) + Len(c)
  <2>1. u \in Seq(Chars) /\ Len(u) = Len(r) + Len(c)
    <3>1. r \in Seq(Chars) /\ c \in Seq(Chars)
      BY <1>3
    <3>2. r \o c \in Seq(Chars) /\ Len(r \o c) = Len(r) + Len(c)
      BY <3>1
    <3> QED
      BY <1>4, <3>2
  <2> QED
    BY <1>1, <1>3, <2>1
<1>6. ASSUME NEW j \in 1 .. Len(u) PROVE (t \o c)[e + j] = u[j]
  <2>1. CASE j <= Len(t) - e
    <3>1. u[j] = r[j] /\ r[j] = t[e + j]
      BY <1>1, <1>3, <1>4, <2>1
    <3>2. e + j \in 1 .. Len(t)
      BY <1>1, <2>1
    <3>3. (t \o c)[e + j] = t[e + j]
      BY <3>2
    <3> QED
      BY <3>1, <3>3
  <2>2. CASE j > Len(t) - e
    <3>1. u[j] = c[j - (Len(t) - e)]
      BY <1>1, <1>3, <1>4, <1>5, <2>2
    <3>2. e + j \in Len(t) + 1 .. Len(t) + Len(c)
      BY <1>1, <1>5, <2>2
    <3>3. (t \o c)[e + j] = c[(e + j) - Len(t)]
      BY <1>1, <3>2
    <3>4. (e + j) - Len(t) = j - (Len(t) - e)
      BY <1>1
    <3> QED
      BY <3>1, <3>3, <3>4
  <2>3. j \in Nat /\ Len(t) - e \in Nat
    BY <1>1, <1>5
  <2> QED
    <3>1. j <= Len(t) - e \/ j > Len(t) - e
      BY <2>3
    <3> QED
      BY <2>1, <2>2, <3>1
<1> QED
  BY <1>2, <1>4, <1>5, <1>6 DEF Remains

(* The line feeds of the longer text are the old ones and, moved by e, those  *)
(* of what remains.                                                        *)
Parted(t, t2, e, u) ==
  /\ Feeds(t2) = Feeds(t) \cup {e + j : j \in Feeds(u)}
  /\ \A i \in Feeds(t) : i <= e
  /\ \A j \in Feeds(u) : e + j > e
  /\ \A j \in Feeds(u) :
       {i \in Feeds(t2) : i <= e + j} =
         Feeds(t) \cup {e + i : i \in {k \in Feeds(u) : k <= j}}

(* They are so parted by the end of the last old line.                      *)
LEMMA FeedsSplit ==
  ASSUME NEW t \in Seq(Chars), NEW c \in Seq(Chars), NEW t2, t2 = t \o c,
         NEW n, n = Cardinality(Feeds(t)), NEW e, e = EndOf(t, n),
         NEW u, Remains(t, c, e, u)
  PROVE  Parted(t, t2, e, u)
<1>1. /\ u \in Seq(Chars) /\ e \in Nat /\ e <= Len(t) /\ Len(u) \in Nat /\ Len(t) \in Nat
      /\ Len(t2) = Len(t) + Len(c) /\ Len(u) + e = Len(t2) /\ t2 \in Seq(Chars)
      /\ Len(t2) \in Nat
      /\ \A j \in 1 .. Len(u) : t2[e + j] = u[j]
  BY DEF Remains
<1>2. \A i \in Feeds(t) : i <= e
  BY LastFeed
<1>3. /\ Feeds(t) = {i \in Feeds(t2) : i <= Len(t)}
      /\ Feeds(t) \subseteq 1 .. Len(t) /\ Feeds(t2) \subseteq 1 .. Len(t2)
      /\ Feeds(u) \subseteq 1 .. Len(u)
  BY <1>1, EndsKept, FeedsFinite
<1>4. \A j \in Feeds(u) : j \in Nat /\ e + j > e /\ e + j \in Feeds(t2)
  <2> SUFFICES ASSUME NEW j \in Feeds(u)
               PROVE  j \in Nat /\ e + j > e /\ e + j \in Feeds(t2)
    OBVIOUS
  <2>1. j \in 1 .. Len(u) /\ u[j] = "lf"
    BY <1>1, <1>3 DEF Feeds
  <2>2. PICK i : i = e + j
    OBVIOUS
  <2>3. j \in Nat /\ i > e /\ i \in 1 .. Len(t2)
    BY <1>1, <2>1, <2>2
  <2>4. t2[i] = "lf"
    BY <1>1, <2>1, <2>2
  <2>5. i \in Feeds(t2)
    BY <1>1, <2>3, <2>4 DEF Feeds
  <2> QED
    BY <2>2, <2>3, <2>5
<1>5. ASSUME NEW i \in Feeds(t2), i > e PROVE \E j \in Feeds(u) : i = e + j
  <2>1. PICK j : j = i - e
    OBVIOUS
  <2>2. j \in 1 .. Len(u) /\ i = e + j
    <3>1. i \in 1 .. Len(t2)
      BY <1>3
    <3> QED
      BY <1>1, <1>5, <2>1, <3>1
  <2>3. u[j] = "lf"
    BY <1>1, <2>2 DEF Feeds
  <2> QED
    BY <1>1, <2>2, <2>3 DEF Feeds
<1>6. \A i \in Feeds(t2) : i <= e => i \in Feeds(t)
  BY <1>1, <1>3
<1>7. \A i \in Feeds(t2) : i \in Nat
  BY <1>1, <1>3
<1>8. Feeds(t2) = Feeds(t) \cup {e + j : j \in Feeds(u)}
  <2>1. \A i \in Feeds(t2) : i \in Feeds(t) \/ i \in {e + j : j \in Feeds(u)}
    BY <1>1, <1>5, <1>6, <1>7, SMTT(30)
  <2>2. \A i \in Feeds(t) : i \in Feeds(t2)
    BY <1>3
  <2>3. \A i \in {e + j : j \in Feeds(u)} : i \in Feeds(t2)
    BY <1>4
  <2> QED
    BY <2>1, <2>2, <2>3
<1>9. ASSUME NEW j \in Feeds(u)
      PROVE  {i \in Feeds(t2) : i <= e + j} =
               Feeds(t) \cup {e + i : i \in {k \in Feeds(u) : k <= j}}
  <2>0. j \in Nat
    BY <1>4
  <2>1. ASSUME NEW i \in Feeds(t2), i <= e + j
        PROVE  i \in Feeds(t) \/ i \in {e + k : k \in {k \in Feeds(u) : k <= j}}
    <3>1. CASE i <= e
      BY <1>6, <3>1
    <3>2. CASE i > e
      <4>1. PICK k \in Feeds(u) : i = e + k
        BY <1>5, <3>2
      <4>2. k <= j
        BY <1>1, <1>4, <2>0, <2>1, <4>1
      <4> QED
        BY <4>1, <4>2
    <3> QED
      BY <1>1, <1>7, <3>1, <3>2
  <2>2. \A i \in Feeds(t) : i \in Feeds(t2) /\ i <= e + j
    <3>1. \A i \in Feeds(t) : i \in Feeds(t2)
      BY <1>3
    <3>2. \A i \in Feeds(t) : i \in Nat
      BY <1>1, <1>3
    <3>3. \A i \in Feeds(t) : i <= e + j
      BY <1>1, <1>2, <2>0, <3>2
    <3> QED
      BY <3>1, <3>3
  <2>3. ASSUME NEW k \in Feeds(u), k <= j PROVE e + k \in Feeds(t2) /\ e + k <= e + j
    BY <1>1, <1>4, <2>0, <2>3
  <2> QED
    BY <2>1, <2>2, <2>3
<1> QED
  BY <1>2, <1>4, <1>8, <1>9 DEF Parted

(* From the end of the last old line on, lines end where they do in u.       *)
MovedEnds(t2, u, n, m, e) ==
  /\ n \in Nat /\ m \in Nat /\ Cardinality(Feeds(t2)) = n + m
  /\ \A k \in 0 .. m : \A x : x = n + k =>
       EndOf(t2, x) = e + EndOf(u, k) /\ EndOf(u, k) \in 0 .. Len(u)

(* A line of what remains is a line of the whole text, n lines later.       *)
LEMMA EndsMoved ==
  ASSUME NEW t \in Seq(Chars), NEW c \in Seq(Chars), NEW t2, t2 = t \o c,
         NEW n, n = Cardinality(Feeds(t)), NEW e, e = EndOf(t, n),
         NEW u, Remains(t, c, e, u), NEW m, m = Cardinality(Feeds(u))
  PROVE  MovedEnds(t2, u, n, m, e)
<1>1. u \in Seq(Chars) /\ e \in Nat /\ Len(u) \in Nat /\ t2 \in Seq(Chars)
  BY DEF Remains
<1>2. /\ n \in Nat /\ m \in Nat /\ IsFiniteSet(Feeds(t)) /\ IsFiniteSet(Feeds(u))
      /\ Feeds(t) \subseteq Nat /\ Feeds(u) \subseteq Nat
  BY <1>1, FeedsFinite
<1>s. Parted(t, t2, e, u)
  BY FeedsSplit
<1>3. ASSUME NEW S \in SUBSET Feeds(u)
      PROVE  /\ Cardinality(Feeds(t) \cup {e + j : j \in S}) = n + Cardinality(S)
             /\ Cardinality(S) \in Nat
  <2>1. S \in SUBSET Nat /\ IsFiniteSet(S)
    BY <1>2, FS_Subset
  <2>2. PICK T : T = {e + j : j \in S}
    OBVIOUS
  <2>3. IsFiniteSet(T) /\ Cardinality(T) = Cardinality(S)
    BY <1>1, <2>1, <2>2, ShiftedSet
  <2>4. Feeds(t) \cap T = {}
    <3>1. /\ \A i \in Feeds(t) : i \in Nat /\ i <= e
          /\ \A j \in Feeds(u) : j \in Nat /\ e + j > e
      BY <1>2, <1>s DEF Parted
    <3>2. \A i \in T : \E j \in Feeds(u) : i = e + j
      BY <2>2
    <3> QED
      BY <1>1, <3>1, <3>2
  <2>5. Cardinality(Feeds(t) \cap T) = 0
    BY <2>4, FS_EmptySet
  <2>6. Cardinality(Feeds(t) \cup T) = n + Cardinality(T) - 0
    BY <1>2, <2>3, <2>5, FS_Union
  <2>7. Cardinality(S) \in Nat
    BY <2>1, FS_CardinalityType
  <2> QED
    BY <1>2, <2>2, <2>3, <2>6, <2>7
<1>4. Cardinality(Feeds(t2)) = n + m
  BY <1>2, <1>3, <1>s DEF Parted
<1>5. ASSUME NEW j \in Feeds(u) PROVE FeedsUpto(t2, e + j) = n + FeedsUpto(u, j)
  <2>1. {k \in Feeds(u) : k <= j} \in SUBSET Feeds(u)
    OBVIOUS
  <2>2. Cardinality(Feeds(t) \cup {e + i : i \in {k \in Feeds(u) : k <= j}})
          = n + Cardinality({k \in Feeds(u) : k <= j})
    BY <1>3, <2>1
  <2>3. {i \in Feeds(t2) : i <= e + j}
          = Feeds(t) \cup {e + i : i \in {k \in Feeds(u) : k <= j}}
    BY <1>s DEF Parted
  <2> QED
    BY <2>2, <2>3 DEF FeedsUpto
<1>6. ASSUME NEW k \in 0 .. m, NEW x, x = n + k
      PROVE  EndOf(t2, x) = e + EndOf(u, k) /\ EndOf(u, k) \in 0 .. Len(u)
  <2>1. CASE k = 0
    <3>1. x = n /\ EndOf(u, k) = 0
      BY <1>2, <1>6, <2>1 DEF EndOf
    <3>2. n \in 0 .. n
      BY <1>2
    <3>3. EndOf(t2, n) = e
      <4>1. SameEnds(t, t2, n)
        BY EndsKept
      <4> QED
        BY <3>2, <4>1 DEF SameEnds
    <3> QED
      BY <1>1, <3>1, <3>3
  <2>2. CASE k \in 1 .. m
    <3>1. /\ EndOf(u, k) \in Feeds(u) /\ FeedsUpto(u, EndOf(u, k)) = k
          /\ EndOf(u, k) \in 1 .. Len(u)
      BY <1>1, <2>2, FeedsOrdered, FeedsFinite DEF Ordered
    <3>2. PICK i : i = e + EndOf(u, k)
      OBVIOUS
    <3>3. i \in Feeds(t2)
      BY <1>s, <3>1, <3>2 DEF Parted
    <3>4. FeedsUpto(t2, i) = x
      BY <1>5, <1>6, <3>1, <3>2
    <3>5. EndOf(t2, x) = i
      BY <1>1, <3>3, <3>4, FeedsOrdered DEF Ordered
    <3> QED
      BY <1>1, <3>1, <3>2, <3>5
  <2> QED
    BY <1>2, <2>1, <2>2
<1> QED
  BY <1>2, <1>4, <1>6 DEF MovedEnds

(* s is what s2 has from e on.                                               *)
Within(s, s2, e) ==
  /\ s \in Seq(Chars) /\ s2 \in Seq(Chars) /\ e \in Nat /\ e + Len(s) <= Len(s2)
  /\ \A j \in 1 .. Len(s) : s2[e + j] = s[j]

(* What remains is what the whole text has from e on.                       *)
LEMMA RemainsWithin ==
  ASSUME NEW t \in Seq(Chars), NEW c \in Seq(Chars), NEW t2, t2 = t \o c,
         NEW e, NEW u, Remains(t, c, e, u)
  PROVE  Within(u, t2, e)
<1>1. /\ u \in Seq(Chars) /\ e \in 0 .. Len(t) /\ Len(u) + e = Len(t) + Len(c)
      /\ \A j \in 1 .. Len(u) : t2[e + j] = u[j]
  BY DEF Remains
<1>2. t2 \in Seq(Chars) /\ Len(t2) = Len(t) + Len(c) /\ Len(t) \in Nat /\ Len(c) \in Nat
  OBVIOUS
<1>3. e \in Nat /\ e + Len(u) <= Len(t2)
  BY <1>1, <1>2
<1> QED
  BY <1>1, <1>2, <1>3, Zenon DEF Within

(* p is the d items of s from a on.                                          *)
PieceOf(S, s, a, d, p) ==
  p \in Seq(S) /\ Len(p) = d /\ \A j \in 1 .. d : p[j] = s[a + j - 1]

(* SubSeq's items, for a piece inside the sequence.                          *)
LEMMA SubSeqIs ==
  ASSUME NEW S, NEW s \in Seq(S), NEW a \in Nat, NEW b \in Int,
         1 <= a, b <= Len(s), a <= b + 1,
         NEW d \in Nat, d = b - a + 1, NEW p, p = SubSeq(s, a, b)
  PROVE  PieceOf(S, s, a, d, p)
BY DEF PieceOf

(* The piece of s from a to b is also in s2, e further on.                   *)
Recurs(s, s2, e, a, b) ==
  \A a2, b2 : a2 = e + a /\ b2 = e + b => SubSeq(s2, a2, b2) = SubSeq(s, a, b)

(* A piece of s is in s2 wherever s is.                                     *)
LEMMA PieceMoved ==
  ASSUME NEW s, NEW s2, NEW e, Within(s, s2, e),
         NEW a \in Nat, NEW b \in Int, 1 <= a, b <= Len(s), a <= b + 1
  PROVE  Recurs(s, s2, e, a, b)
<1> SUFFICES ASSUME NEW a2, NEW b2, a2 = e + a, b2 = e + b
             PROVE  SubSeq(s2, a2, b2) = SubSeq(s, a, b)
  BY DEF Recurs
<1>0. /\ s \in Seq(Chars) /\ s2 \in Seq(Chars) /\ e \in Nat /\ e + Len(s) <= Len(s2)
      /\ \A j \in 1 .. Len(s) : s2[e + j] = s[j]
  BY DEF Within
<1>1. Len(s) \in Nat /\ Len(s2) \in Nat /\ a2 \in Nat /\ b2 \in Int
  BY <1>0
<1>2. PICK p, p2 : p = SubSeq(s, a, b) /\ p2 = SubSeq(s2, a2, b2)
  OBVIOUS
<1>3. PICK d \in Nat : d = b - a + 1
  BY <1>0, <1>1
<1>4. /\ p \in Seq(Chars) /\ Len(p) = d
      /\ \A j \in 1 .. d : p[j] = s[a + j - 1]
  <2>1. PieceOf(Chars, s, a, d, p)
    BY <1>0, <1>2, <1>3, SubSeqIs
  <2> QED
    BY <2>1 DEF PieceOf
<1>5. 1 <= a2 /\ b2 <= Len(s2) /\ a2 <= b2 + 1 /\ b2 - a2 + 1 = d
  BY <1>0, <1>1, <1>3
<1>6. /\ p2 \in Seq(Chars) /\ Len(p2) = d
      /\ \A j \in 1 .. d : p2[j] = s2[a2 + j - 1]
  <2>1. PieceOf(Chars, s2, a2, d, p2)
    <3>1. d = b2 - a2 + 1
      BY <1>1, <1>5
    <3> QED
      BY <1>0, <1>1, <1>2, <1>5, <3>1, SubSeqIs
  <2> QED
    BY <2>1 DEF PieceOf
<1>7. ASSUME NEW j \in 1 .. d PROVE p2[j] = p[j]
  <2>1. PICK i : i = a + j - 1
    OBVIOUS
  <2>2. i \in 1 .. Len(s) /\ a2 + j - 1 = e + i
    BY <1>0, <1>1, <1>3, <2>1
  <2> QED
    BY <1>0, <1>4, <1>6, <2>1, <2>2
<1>8. p2 = p
  BY <1>4, <1>6, <1>7
<1> QED
  BY <1>2, <1>8

(* What concatenation does, item by item.                                   *)
Joined(S, x, y, v) ==
  /\ v \in Seq(S) /\ Len(v) = Len(x) + Len(y)
  /\ \A k \in 1 .. Len(x) : v[k] = x[k]
  /\ \A q \in 1 .. Len(y) : \A k : k = Len(x) + q => v[k] = y[q]

(* It does so for all sequences.                                            *)
LEMMA JoinedSeqs ==
  ASSUME NEW S, NEW x \in Seq(S), NEW y \in Seq(S), NEW v, v = x \o y
  PROVE  Joined(S, x, y, v)
BY DEF Joined

(* Lines end one after the other, inside the text.                          *)
LEMMA EndsGrow ==
  ASSUME NEW t \in Seq(Chars), NEW n, n = Cardinality(Feeds(t)),
         NEW k \in 1 .. n, NEW h, h = k - 1
  PROVE  /\ EndOf(t, h) \in 0 .. Len(t) /\ EndOf(t, k) \in 0 .. Len(t)
         /\ EndOf(t, h) < EndOf(t, k)
<1>1. n \in Nat /\ Len(t) \in Nat /\ Feeds(t) \subseteq 1 .. Len(t) /\ k \in 1 .. n
  BY FeedsFinite
<1>2. /\ EndOf(t, k) \in Feeds(t) /\ FeedsUpto(t, EndOf(t, k)) = k
      /\ EndOf(t, k) \in 1 .. Len(t)
  BY <1>1, FeedsOrdered DEF Ordered
<1>3. CASE h = 0
  <2>1. EndOf(t, h) = 0
    BY <1>3 DEF EndOf
  <2> QED
    BY <1>1, <1>2, <2>1
<1>4. CASE h \in 1 .. n
  <2>1. /\ EndOf(t, h) \in Feeds(t) /\ FeedsUpto(t, EndOf(t, h)) = h
        /\ EndOf(t, h) \in 1 .. Len(t)
    BY <1>1, <1>4, FeedsOrdered DEF Ordered
  <2>2. EndOf(t, h) # EndOf(t, k)
    BY <1>1, <1>2, <2>1
  <2>3. ~(EndOf(t, k) < EndOf(t, h))
    <3>1. ~(k < h)
      BY <1>1
    <3> QED
      BY <1>2, <2>1, <3>1, RankGrows
  <2> QED
    BY <1>1, <1>2, <2>1, <2>2, <2>3
<1>5. h = 0 \/ h \in 1 .. n
  BY <1>1
<1> QED
  BY <1>3, <1>4, <1>5

(* The k-th line of t.                                                      *)
LineOf(t, k) == SubSeq(t, EndOf(t, k - 1) + 1, EndOf(t, k) - 1)

(* What no line feed of t has ended.                                        *)
RestOf(t) == SubSeq(t, EndOf(t, Cardinality(Feeds(t))) + 1, Len(t))

(* A text without its lines' feeds: n lines, and the rest.                   *)
LEMMA SplitIs ==
  ASSUME NEW t \in Seq(Chars), NEW n, n = Cardinality(Feeds(t))
  PROVE  /\ n \in Nat /\ Split(t).rest = RestOf(t) /\ EndOf(t, n) \in 0 .. Len(t)
         /\ Split(t).lines \in Seq(Seq(Chars)) /\ Len(Split(t).lines) = n
         /\ \A k \in 1 .. n : Split(t).lines[k] = LineOf(t, k)
<1>1. n \in Nat /\ Len(t) \in Nat
  BY FeedsFinite
<1>2. PICK f : f = [k \in 1 .. n |-> LineOf(t, k)]
  OBVIOUS
<1>3. Split(t) = [lines |-> f, rest |-> RestOf(t)]
  BY <1>2 DEF Split, LineOf, RestOf
<1>4. \A k \in 1 .. n : LineOf(t, k) \in Seq(Chars)
  <2> SUFFICES ASSUME NEW k \in 1 .. n PROVE LineOf(t, k) \in Seq(Chars)
    OBVIOUS
  <2>1. PICK h : h = k - 1
    OBVIOUS
  <2>2. /\ EndOf(t, h) \in 0 .. Len(t) /\ EndOf(t, k) \in 0 .. Len(t)
        /\ EndOf(t, h) < EndOf(t, k)
    BY <2>1, EndsGrow
  <2>3. PICK a \in Nat, b \in Int : a = EndOf(t, h) + 1 /\ b = EndOf(t, k) - 1
    BY <1>1, <2>2
  <2>4. 1 <= a /\ b <= Len(t) /\ a <= b + 1
    BY <1>1, <2>2, <2>3
  <2>5. SubSeq(t, a, b) \in Seq(Chars)
    BY <1>1, <2>4
  <2> QED
    BY <2>1, <2>3, <2>5 DEF LineOf
<1>5. f \in [1 .. n -> Seq(Chars)]
  BY <1>2, <1>4
<1>6. f \in Seq(Seq(Chars)) /\ Len(f) = n
  BY <1>1, <1>5
<1>7. EndOf(t, n) \in 0 .. Len(t)
  <2>1. <<>> \in Seq(Chars) /\ t = t \o <<>>
    OBVIOUS
  <2>2. SameEnds(t, t, n)
    BY <2>1, EndsKept
  <2> QED
    BY <1>1, <2>2 DEF SameEnds
<1>8. \A k \in 1 .. n : f[k] = LineOf(t, k)
  BY <1>2
<1> QED
  BY <1>1, <1>3, <1>6, <1>7, <1>8

(* Splitting what was left over with the next chunk gives the lines the      *)
(* whole text has beyond those already split off, and its rest.             *)
Continues(t, t2, u) ==
  /\ Split(t2).lines = Split(t).lines \o Split(u).lines
  /\ Split(t2).rest = Split(u).rest

(* So what is held and the chunk can be pushed in place of the whole text.  *)
LEMMA SplitWhole ==
  ASSUME NEW t \in Seq(Chars), NEW c \in Seq(Chars), NEW t2, t2 = t \o c,
         NEW u, u = Split(t).rest \o c
  PROVE  Continues(t, t2, u)
<1>1. PICK n : n = Cardinality(Feeds(t))
  OBVIOUS
<1>2. PICK e : e = EndOf(t, n)
  OBVIOUS
<1>3. /\ n \in Nat /\ e \in 0 .. Len(t) /\ Len(t) \in Nat
      /\ Split(t).rest = SubSeq(t, e + 1, Len(t))
  <2>1. /\ n \in Nat /\ Split(t).rest = RestOf(t) /\ EndOf(t, n) \in 0 .. Len(t)
    BY <1>1, SplitIs
  <2> QED
    BY <1>1, <1>2, <2>1 DEF RestOf
<1>4. Remains(t, c, e, u)
  BY <1>3, RemainsOf
<1>5. PICK m : m = Cardinality(Feeds(u))
  OBVIOUS
<1>6. m \in Nat /\ Cardinality(Feeds(t2)) = n + m /\ MovedEnds(t2, u, n, m, e)
  <2>1. MovedEnds(t2, u, n, m, e)
    BY <1>1, <1>2, <1>4, <1>5, EndsMoved
  <2> QED
    BY <2>1 DEF MovedEnds
<1>7. SameEnds(t, t2, n) /\ t2 \in Seq(Chars) /\ Len(t2) = Len(t) + Len(c)
  <2>1. SameEnds(t, t2, n)
    BY <1>1, EndsKept
  <2> QED
    BY <2>1
<1>8. /\ u \in Seq(Chars) /\ Len(u) + e = Len(t2) /\ Len(u) \in Nat /\ e \in Nat
      /\ Len(t2) \in Nat /\ \A j \in 1 .. Len(u) : t2[e + j] = u[j]
  <2>1. /\ u \in Seq(Chars) /\ Len(u) + e = Len(t) + Len(c)
        /\ \A j \in 1 .. Len(u) : t2[e + j] = u[j]
    BY <1>4 DEF Remains
  <2>2. Len(u) \in Nat /\ Len(t2) \in Nat /\ e \in Nat
    BY <1>3, <1>7, <2>1
  <2> QED
    BY <1>7, <2>1, <2>2
<1>18. Within(u, t2, e)
  BY <1>4, RemainsWithin
<1>9. PICK x, y, z :
        x = Split(t).lines /\ y = Split(u).lines /\ z = Split(t2).lines
  OBVIOUS
<1>10. /\ x \in Seq(Seq(Chars)) /\ Len(x) = n
       /\ \A k \in 1 .. n : x[k] = LineOf(t, k)
  BY <1>1, <1>9, SplitIs
<1>11. /\ y \in Seq(Seq(Chars)) /\ Len(y) = m
       /\ \A k \in 1 .. m : y[k] = LineOf(u, k)
       /\ Split(u).rest = RestOf(u) /\ EndOf(u, m) \in 0 .. Len(u)
  BY <1>5, <1>8, <1>9, SplitIs
<1>12. PICK w \in Nat : w = n + m
  BY <1>3, <1>6
<1>13. /\ z \in Seq(Seq(Chars)) /\ Len(z) = w
       /\ \A k \in 1 .. w : z[k] = LineOf(t2, k)
       /\ Split(t2).rest = RestOf(t2)
  BY <1>6, <1>7, <1>9, <1>12, SplitIs
<1>14. ASSUME NEW k \in 1 .. n PROVE LineOf(t2, k) = LineOf(t, k)
  <2>1. PICK h : h = k - 1
    OBVIOUS
  <2>2. /\ EndOf(t, h) \in 0 .. Len(t) /\ EndOf(t, k) \in 0 .. Len(t)
        /\ EndOf(t, h) < EndOf(t, k)
    BY <1>1, <2>1, EndsGrow
  <2>3. h \in 0 .. n /\ k \in 0 .. n
    BY <1>3, <2>1
  <2>4. EndOf(t2, h) = EndOf(t, h) /\ EndOf(t2, k) = EndOf(t, k)
    BY <1>7, <2>3 DEF SameEnds
  <2>5. PICK a \in Nat, b \in Int : a = EndOf(t, h) + 1 /\ b = EndOf(t, k) - 1
    <3>1. EndOf(t, h) + 1 \in Nat /\ EndOf(t, k) - 1 \in Int
      BY <1>3, <2>2
    <3> QED
      BY <3>1
  <2>6. 1 <= a /\ b <= Len(t) /\ a <= b + 1 /\ a = 0 + a /\ b = 0 + b
    <3>1. PICK y1 \in Nat, y2 \in Nat : y1 = EndOf(t, h) /\ y2 = EndOf(t, k)
      BY <1>3, <2>2
    <3>2. y1 < y2 /\ y2 <= Len(t)
      BY <1>3, <2>2, <3>1
    <3>3. a = y1 + 1 /\ b = y2 - 1
      BY <2>5, <3>1
    <3> QED
      BY <1>3, <3>2, <3>3
  <2>7. Within(t, t2, 0)
    BY <1>3, <1>7 DEF Within
  <2>9. SubSeq(t2, a, b) = SubSeq(t, a, b)
    <3>1. Recurs(t, t2, 0, a, b)
      BY <2>6, <2>7, PieceMoved
    <3> QED
      BY <2>6, <3>1 DEF Recurs
  <2> QED
    BY <2>1, <2>4, <2>5, <2>9 DEF LineOf
<1>15. ASSUME NEW q \in 1 .. m, NEW k, k = n + q PROVE LineOf(t2, k) = LineOf(u, q)
  <2>1. PICK h, g : h = q - 1 /\ g = k - 1
    OBVIOUS
  <2>2. /\ EndOf(u, h) \in 0 .. Len(u) /\ EndOf(u, q) \in 0 .. Len(u)
        /\ EndOf(u, h) < EndOf(u, q)
    BY <1>5, <1>8, <2>1, EndsGrow
  <2>3. h \in 0 .. m /\ q \in 0 .. m /\ g = n + h /\ k = n + q
    BY <1>3, <1>6, <1>15, <2>1
  <2>4. EndOf(t2, g) = e + EndOf(u, h) /\ EndOf(t2, k) = e + EndOf(u, q)
    BY <1>6, <2>3 DEF MovedEnds
  <2>5. PICK a \in Nat, b \in Int : a = EndOf(u, h) + 1 /\ b = EndOf(u, q) - 1
    <3>1. EndOf(u, h) + 1 \in Nat /\ EndOf(u, q) - 1 \in Int
      BY <1>8, <2>2
    <3> QED
      BY <3>1
  <2>6. PICK a2, b2 : a2 = e + a /\ b2 = e + b
    OBVIOUS
  <2>7. 1 <= a /\ b <= Len(u) /\ a <= b + 1 /\ e + Len(u) <= Len(t2)
    BY <1>8, <2>2, <2>5
  <2>8. SubSeq(t2, a2, b2) = SubSeq(u, a, b)
    <3>1. Recurs(u, t2, e, a, b)
      BY <1>18, <2>7, PieceMoved
    <3> QED
      BY <2>6, <3>1 DEF Recurs
  <2>9. a2 = EndOf(t2, g) + 1 /\ b2 = EndOf(t2, k) - 1
    <3>1. e \in Nat /\ EndOf(u, h) \in Nat /\ EndOf(u, q) \in Nat
      BY <1>8, <2>2
    <3>2. PICK y1 \in Nat, y2 \in Nat : y1 = EndOf(u, h) /\ y2 = EndOf(u, q)
      BY <3>1
    <3>3. a2 = e + (y1 + 1) /\ EndOf(t2, g) = e + y1
      BY <2>4, <2>5, <2>6, <3>2
    <3>4. b2 = e + (y2 - 1) /\ EndOf(t2, k) = e + y2
      BY <2>4, <2>5, <2>6, <3>2
    <3>5. a2 = (e + y1) + 1
      BY <3>1, <3>2, <3>3
    <3>6. b2 = (e + y2) - 1
      BY <3>1, <3>2, <3>4
    <3> QED
      BY <3>3, <3>4, <3>5, <3>6
  <2> QED
    BY <2>1, <2>5, <2>8, <2>9 DEF LineOf
<1>16. RestOf(t2) = RestOf(u)
  <2>1. m \in 0 .. m
    BY <1>6
  <2>2. EndOf(t2, w) = e + EndOf(u, m)
    BY <1>6, <1>12, <2>1 DEF MovedEnds
  <2>3. PICK a \in Nat, b \in Int : a = EndOf(u, m) + 1 /\ b = Len(u)
    <3>1. EndOf(u, m) + 1 \in Nat /\ Len(u) \in Int
      BY <1>8, <1>11
    <3> QED
      BY <3>1
  <2>4. PICK a2, b2 : a2 = e + a /\ b2 = e + b
    OBVIOUS
  <2>5. 1 <= a /\ b <= Len(u) /\ a <= b + 1 /\ e + Len(u) <= Len(t2)
    BY <1>8, <1>11, <2>3
  <2>6. SubSeq(t2, a2, b2) = SubSeq(u, a, b)
    <3>1. Recurs(u, t2, e, a, b)
      BY <1>18, <2>5, PieceMoved
    <3> QED
      BY <2>4, <3>1 DEF Recurs
  <2>7. a2 = EndOf(t2, w) + 1 /\ b2 = Len(t2)
    BY <1>8, <1>11, <2>2, <2>3, <2>4
  <2> QED
    BY <1>5, <1>6, <1>12, <2>3, <2>6, <2>7 DEF RestOf
<1>17. z = x \o y
  <2>1. PICK v : v = x \o y
    OBVIOUS
  <2>2. /\ v \in Seq(Seq(Chars)) /\ Len(v) = w
        /\ \A k \in 1 .. n : v[k] = x[k]
        /\ \A q \in 1 .. m : \A k : k = n + q => v[k] = y[q]
    <3>1. x \in Seq(Seq(Chars)) /\ y \in Seq(Seq(Chars)) /\ n = Len(x) /\ m = Len(y)
      BY <1>10, <1>11
    <3>2. Joined(Seq(Chars), x, y, v)
      BY <2>1, <3>1, JoinedSeqs
    <3> QED
      BY <1>3, <1>6, <1>12, <3>1, <3>2 DEF Joined
  <2>3. ASSUME NEW k \in 1 .. w PROVE z[k] = v[k]
    <3>1. CASE k \in 1 .. n
      BY <1>10, <1>13, <1>14, <2>2, <3>1
    <3>2. CASE k \notin 1 .. n
      <4>1. PICK q \in 1 .. m : k = n + q
        <5>1. PICK q : q = k - n
          OBVIOUS
        <5>2. q \in 1 .. m /\ k = n + q
          BY <1>3, <1>6, <1>12, <3>2, <5>1
        <5> QED
          BY <5>2
      <4> QED
        BY <1>11, <1>13, <1>15, <2>2, <4>1
    <3> QED
      BY <3>1, <3>2
  <2>4. z = v
    BY <1>13, <2>2, <2>3
  <2> QED
    BY <2>1, <2>4
<1> QED
  BY <1>9, <1>11, <1>13, <1>16, <1>17 DEF Continues

(* The inductive invariant of the page's buffer.                            *)
BufferInv == text \in Seq(Chars) /\ PageLines

(* LineBuffer.push: the page has the lines of the whole text, and its rest. *)
LEMMA PageReads == BufferSpec => []PageLines
<1>1. ASSUME NEW t, t = <<>> PROVE Split(t).lines = <<>> /\ Split(t).rest = <<>>
  <2>1. t \in Seq(Chars) /\ Feeds(t) = {}
    BY <1>1 DEF Feeds
  <2>2. Cardinality(Feeds(t)) = 0
    BY <2>1, FS_EmptySet
  <2>3. PICK n : n = Cardinality(Feeds(t))
    OBVIOUS
  <2>4. /\ Split(t).rest = RestOf(t) /\ EndOf(t, n) \in 0 .. Len(t)
        /\ Split(t).lines \in Seq(Seq(Chars)) /\ Len(Split(t).lines) = n
    BY <2>1, <2>3, SplitIs
  <2>5. Split(t).lines = <<>>
    BY <2>2, <2>3, <2>4
  <2>6. EndOf(t, Cardinality(Feeds(t))) = 0
    BY <2>2 DEF EndOf
  <2>7. RestOf(t) = <<>>
    BY <1>1, <2>6 DEF RestOf
  <2> QED
    BY <2>4, <2>5, <2>7
<1>2. BufferInit => BufferInv
  BY <1>1 DEF BufferInit, BufferInv, PageLines
<1>3. BufferInv /\ [BufferNext]_bufferVars => BufferInv'
  <2> SUFFICES ASSUME BufferInv, [BufferNext]_bufferVars PROVE BufferInv'
    OBVIOUS
  <2>1. CASE Push
    <3>1. PICK chunk \in Chunks :
            /\ buffer' = Split(buffer \o chunk).rest
            /\ received' = received \o Split(buffer \o chunk).lines
            /\ text' = text \o chunk
      BY <2>1 DEF Push
    <3>2. text \in Seq(Chars) /\ chunk \in Seq(Chars) /\ text' \in Seq(Chars)
      BY <3>1, LinesAssumption DEF BufferInv
    <3>3. PICK u : u = Split(text).rest \o chunk
      OBVIOUS
    <3>4. buffer = Split(text).rest /\ received = Split(text).lines
      BY DEF BufferInv, PageLines
    <3>5. Continues(text, text', u)
      BY <3>1, <3>2, <3>3, SplitWhole
    <3> QED
      BY <3>1, <3>2, <3>3, <3>4, <3>5 DEF BufferInv, PageLines, Continues
  <2>2. CASE OpenPort
    BY <1>1, <2>2 DEF OpenPort, BufferInv, PageLines
  <2>3. CASE UNCHANGED bufferVars
    BY <2>3 DEF bufferVars, BufferInv, PageLines
  <2> QED
    BY <2>1, <2>2, <2>3 DEF BufferNext
<1> QED
  BY <1>2, <1>3, PTL DEF BufferInv, BufferSpec
(* LineReader::feed and LineBuffer.push: a line arrives as it was sent, and  *)
(* one too long is refused alone, whatever the letters, the buffer's length  *)
(* and the chunks a text is cut into.                                       *)
THEOREM LinesTheorem == ReaderSpec /\ BufferSpec => []LinesAreWhole
BY BoardReads, PageReads, PTL DEF LinesAreWhole
=============================================================================
