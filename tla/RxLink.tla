------------------------------- MODULE RxLink -------------------------------
(***************************************************************************)
(* The receiver module: CRSF frames arrive in the UART's ring on their own,  *)
(* at any moment; every pass of loop() reads the clock, handles commands,    *)
(* which change the protocol, the source or a timeout, and ticks, which       *)
(* drains the ring; and LinkState derives the link from when frames came.    *)
(*                                                                         *)
(* A frame is its kind: "rc" (0x16), "stats" (0x14) or "bad" (rejected by    *)
(* length or CRC, which is also what is left of a frame the full ring tore;  *)
(* Framing has the byte level).  What channels and statistics show is       *)
(* abstracted to who made it: the radio or runSim.  The module reads the     *)
(* clock only through tick()'s argument, so time moves between passes.       *)
(* Both protocols run at RX_BAUD (rx_params.cpp:67-69), so a change of       *)
(* protocol never restarts the UART, and the ring survives it: frames that   *)
(* came before a change are decoded after it (rx_driver.cpp:118-126).        *)
(***************************************************************************)
EXTENDS Millis

CONSTANTS
  Protocols,       \* the rows of kProtocols
  Timeouts,        \* stored timeouts: functions Protocols -> ms
  Sources,         \* {"uart", "sim"}, or less
  MaxTimeout,      \* the longest of them
  WindowMs,        \* kWindowMs: the rate is counted over this long
  SimMs,           \* runSim's throttle, 7 ms
  RingFrames,      \* frames the UART's ring holds
  MaxPass,         \* bound: a pass of loop() takes at most this long
  MaxErr           \* bound: rejections counted

ASSUME RxLinkAssumption ==
  /\ Timeouts \subseteq [Protocols -> 1 .. MaxTimeout]
  /\ MaxTimeout \in Nat
  /\ Sources \subseteq {"uart", "sim"}
  /\ WindowMs \in Nat \ {0} /\ SimMs \in Nat \ {0}
  /\ RingFrames \in Nat \ {0} /\ MaxPass \in Nat \ {0}
  /\ MaxErr \in Nat
  /\ MaxTimeout + MaxPass < Wrap
  /\ WindowMs + MaxPass < Wrap

Kinds   == {"rc", "stats", "bad"}
Rings   == [Kinds -> 0 .. RingFrames]
EmptyRing == [kind \in Kinds |-> 0]
Filled(r) == r["rc"] + r["stats"] + r["bad"]
None    == "none"
Makers  == Sources \cup {None}

VARIABLES
  now,        \* millis() at the top of this pass
  ticked,     \* this pass' tick is done
  ring,       \* the UART's receive ring: how many frames of each kind
  cfg,        \* [protocol, source, timeouts]: the parameters
  timeoutMs,  \* timeoutMs_
  link,       \* LinkState
  us,         \* which source made us_, None for zeros
  stats,      \* which source made stats_, None for LinkStats{}
  statsSeen,  \* statsSeen_
  lastSim,    \* lastSimFrameMs_
  quiet,      \* history: ms since LinkState saw a frame, up to MaxTimeout + 1
  aired,      \* history: ms since an rc frame was on the air, as far as it matters
  upFor       \* history: ms since the link came up, up to WindowMs

vars == <<now, ticked, ring, cfg, timeoutMs, link, us, stats, statsSeen, lastSim,
          quiet, aired, upFor>>

Links == [seen : BOOLEAN, up : BOOLEAN, rate : Nat, winCount : Nat,
          lastMs : Time, winStart : Time, err : 0 .. MaxErr]

Quiet == MaxTimeout + 1
Aired == MaxTimeout + MaxPass + 1
AtMost(n, m) == IF n > m THEN m ELSE n

(* The link as it boots; reset() comes back to it, but for err_.             *)
ResetLink(l) == [seen |-> FALSE, up |-> FALSE, rate |-> 0, winCount |-> 0,
                 lastMs |-> 0, winStart |-> 0, err |-> l.err]

Init ==
  /\ now \in Time
  /\ ticked = TRUE
  /\ ring = EmptyRing
  /\ cfg \in [protocol : Protocols, source : Sources, timeouts : Timeouts]
  /\ timeoutMs = cfg.timeouts[cfg.protocol]
  /\ link = ResetLink([err |-> 0])
  /\ us = None /\ stats = None /\ statsSeen = FALSE
  /\ lastSim = 0
  /\ quiet = Quiet /\ aired = Aired /\ upFor = 0
-----------------------------------------------------------------------------
(* Slip: the window the drop froze is left open.                             *)
OnFrame_OldWindow(l) ==
  [l EXCEPT !.seen = TRUE, !.up = TRUE, !.lastMs = now, !.winCount = @ + 1,
            !.winStart = IF l.seen THEN @ ELSE now]

(* LinkState::onFrame: a first frame, and one that ends a dropout, opens a   *)
(* window of its own.                                                      *)
OnFrame(l) ==
  [l EXCEPT !.seen = TRUE, !.up = TRUE, !.lastMs = now,
            !.winCount = IF l.seen /\ ~l.up THEN 1 ELSE @ + 1,
            !.winStart = IF l.up THEN @ ELSE now]

(* Slip: the comparison the code's comment warns of, blind to a last frame   *)
(* from before the wrap.                                                   *)
TickLink_Signed(l) ==
  IF ~l.seen THEN l
  ELSE IF now - l.lastMs > timeoutMs THEN [l EXCEPT !.up = FALSE, !.rate = 0,
                                                    !.winCount = 0, !.winStart = now]
  ELSE IF Elapsed(now, l.winStart) >= WindowMs
       THEN [l EXCEPT !.rate = l.winCount, !.winCount = 0, !.winStart = now]
  ELSE l

(* LinkState::tick.                                                          *)
TickLink(l) ==
  IF ~l.seen THEN l
  ELSE IF Elapsed(now, l.lastMs) > timeoutMs
       THEN IF l.up THEN [l EXCEPT !.up = FALSE, !.rate = 0, !.winCount = 0,
                                   !.winStart = now]
            ELSE l
  ELSE IF Elapsed(now, l.winStart) >= WindowMs
       THEN [l EXCEPT !.rate = l.winCount, !.winCount = 0, !.winStart = now]
  ELSE l

(* What the histories make of a tick in which LinkState saw a frame or not.  *)
Observe(framed) ==
  /\ ticked' = TRUE
  /\ quiet' = IF framed THEN 0 ELSE quiet
  /\ upFor' = IF ~link'.up \/ ~link.up THEN 0 ELSE upFor
  /\ UNCHANGED <<now, cfg, timeoutMs, aired>>

(* drainUart: n calls of onFrame at one reading of the clock, of which the   *)
(* first decides about the window, and as many of onReject as were bad.      *)
OnFrames(l, n) == IF n = 0 THEN l ELSE [OnFrame(l) EXCEPT !.winCount = @ + n - 1]

(* Slip: noise counts as a sign of life.                                     *)
OnRejects_Alive(l, n) ==
  [l EXCEPT !.err = AtMost(@ + n, MaxErr), !.lastMs = IF n > 0 THEN now ELSE @]

OnRejects(l, n) == [l EXCEPT !.err = AtMost(@ + n, MaxErr)]

Drained == OnRejects(OnFrames(link, ring["rc"]), ring["bad"])

Holds(kind) == ring[kind] > 0

TickUart ==
  /\ ~ticked
  /\ cfg.source = "uart"
  /\ link' = TickLink(Drained)
  /\ us' = IF Holds("rc") THEN "uart" ELSE us
  /\ stats' = IF Holds("stats") THEN "uart" ELSE stats
  /\ statsSeen' = (statsSeen \/ Holds("stats"))
  /\ ring' = EmptyRing
  /\ Observe(Holds("rc"))
  /\ UNCHANGED lastSim

(* runSim: made-up channels and statistics on every tick, a frame for the    *)
(* link every SimMs; the ring is left to fill.                             *)
SimDue == Elapsed(now, lastSim) >= SimMs

TickSim ==
  /\ ~ticked
  /\ cfg.source = "sim"
  /\ link' = TickLink(IF SimDue THEN OnFrame(link) ELSE link)
  /\ us' = "sim"
  /\ stats' = "sim"
  /\ statsSeen' = TRUE
  /\ lastSim' = IF SimDue THEN now ELSE lastSim
  /\ Observe(SimDue)
  /\ UNCHANGED ring
-----------------------------------------------------------------------------
(* onParamChanged.  Slip: the switch carries the old source's link over.     *)
Forget_KeepsLink ==
  /\ UNCHANGED <<link, quiet, upFor>>
  /\ us' = None /\ stats' = None /\ statsSeen' = FALSE

Forget ==
  /\ link' = ResetLink(link)
  /\ us' = None /\ stats' = None /\ statsSeen' = FALSE
  /\ upFor' = 0 /\ quiet' = Quiet

Reread == timeoutMs' = cfg'.timeouts[cfg'.protocol]

SetProtocol ==
  /\ ~ticked
  /\ \E p \in Protocols \ {cfg.protocol} : cfg' = [cfg EXCEPT !.protocol = p]
  /\ Forget
  /\ Reread
  /\ UNCHANGED <<now, ticked, ring, lastSim, aired>>

SetSource ==
  /\ ~ticked
  /\ \E s \in Sources \ {cfg.source} : cfg' = [cfg EXCEPT !.source = s]
  /\ Forget
  /\ UNCHANGED <<now, ticked, ring, timeoutMs, lastSim, aired>>

(* Either protocol's timeout; only the selected one's takes effect.          *)
SetTimeout ==
  /\ ~ticked
  /\ \E t \in Timeouts \ {cfg.timeouts} : cfg' = [cfg EXCEPT !.timeouts = t]
  /\ Reread
  /\ UNCHANGED <<now, ticked, ring, link, us, stats, statsSeen, lastSim,
                 quiet, aired, upFor>>

(* A frame comes in.  A ring that is full keeps what it has and drops what   *)
(* comes.                                                                  *)
Air(kind) ==
  /\ ring' = IF Filled(ring) < RingFrames THEN [ring EXCEPT ![kind] = @ + 1] ELSE ring
  /\ aired' = IF kind = "rc" THEN 0 ELSE aired
  /\ UNCHANGED <<now, ticked, cfg, timeoutMs, link, us, stats, statsSeen, lastSim,
                 quiet, upFor>>

(* The next pass begins d ms later.                                          *)
NextPass(d) ==
  /\ ticked
  /\ now' = Later(now, d)
  /\ ticked' = FALSE
  /\ quiet' = AtMost(quiet + d, Quiet)
  /\ aired' = AtMost(aired + d, Aired)
  /\ upFor' = IF link.up THEN AtMost(upFor + d, WindowMs) ELSE 0
  /\ UNCHANGED <<ring, cfg, timeoutMs, link, us, stats, statsSeen, lastSim>>

Tick == TickUart \/ TickSim
Pass == \E d \in 1 .. MaxPass : NextPass(d)
Config == SetProtocol \/ SetSource \/ SetTimeout

Next == Tick \/ Pass \/ Config \/ \E kind \in Kinds : Air(kind)

(* loop() never stops: passes go on and each of them ticks.                  *)
Spec     == Init /\ [][Next]_vars
FairSpec == Spec /\ WF_vars(Tick) /\ WF_vars(Pass)
-----------------------------------------------------------------------------
(* The parameters and the members stay in their ranges, and the timeout in   *)
(* force is one a client may store.                                        *)
TypeOK ==
  /\ now \in Time /\ lastSim \in Time
  /\ ticked \in BOOLEAN
  /\ ring \in Rings /\ Filled(ring) <= RingFrames
  /\ cfg \in [protocol : Protocols, source : Sources, timeouts : Timeouts]
  /\ link \in Links
  /\ us \in Makers /\ stats \in Makers
  /\ statsSeen \in BOOLEAN
  /\ timeoutMs \in 1 .. MaxTimeout
  /\ quiet \in 0 .. Quiet /\ aired \in 0 .. Aired /\ upFor \in 0 .. WindowMs

(* The link is up after a tick exactly as long as frames keep coming: it is  *)
(* dropped for a silence longer than the timeout and for nothing else, and   *)
(* never outlives one, wherever the clock wraps in between                  *)
(* (LinkState::tick).                                                      *)
LinkHonest ==
  [][Tick => /\ link'.up => quiet' <= timeoutMs
             /\ (link.up /\ ~link'.up) => quiet' > timeoutMs]_vars

(* A rate other than 0 was counted over a whole window in which the link was *)
(* up; no dropout is part of it (LinkState::onFrame's fresh window).        *)
RateMeasured == link.rate # 0 => link.up /\ upFor = WindowMs

(* rx_driver.cpp:79-82, 98-112: nothing runSim made up stays on display once  *)
(* the port is selected, nothing received does under the simulation, and a    *)
(* link that is up stands on channels taken since the last change.           *)
ShownIsReal ==
  /\ {us, stats} \subseteq {None, cfg.source}
  /\ link.up => us # None
  /\ statsSeen => stats # None

(* The timeout in force is the selected protocol's, in whatever order        *)
(* protocol and timeouts are set (onParamChanged, "always re-read").        *)
TimeoutIsSelected == timeoutMs = cfg.timeouts[cfg.protocol]

(* Once frames stop for good the link goes down for good, however often the  *)
(* clock wraps back to the last frame's stamp.                              *)
SilenceIsNoticed ==
  <>[](cfg.source = "uart" /\ aired = Aired) => <>[](~link.up)

(* What arming-and-modes.md:27-30 promises of a radio that stopped sending:  *)
(* the link is not up on the word of a frame that was on the air longer ago   *)
(* than the timeout and a pass.                                            *)
DeadRadioIsDown ==
  [][TickUart => (link'.up => aired' <= timeoutMs + MaxPass)]_vars
=============================================================================
