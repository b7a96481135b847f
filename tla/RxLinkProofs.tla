----------------------------- MODULE RxLinkProofs -----------------------------
(***************************************************************************)
(* The link is up exactly as long as frames keep coming, and its rate is one *)
(* measured over a whole window, for every set of timeouts, every window and *)
(* every modulus of the clock that holds them.  The invariant ties the        *)
(* clock's differences to the histories: while the link is up no tick is     *)
(* ever far enough from the last frame for the difference to wrap.          *)
(***************************************************************************)
EXTENDS RxLink, Framing, TLAPS

(* The clock's view of the silence is the true one while the link is up.     *)
SilenceTracked ==
  link.up =>
    /\ link.seen
    /\ Elapsed(now, link.lastMs) <= MaxTimeout + (IF ticked THEN 0 ELSE MaxPass)
    /\ quiet = AtMost(Elapsed(now, link.lastMs), Quiet)

(* An open window lies within the time the link has been up.                 *)
WindowTracked ==
  IF link.up THEN Elapsed(now, link.winStart) <= upFor \/ upFor = WindowMs
  ELSE link.rate = 0 /\ link.winCount = 0

RxInv == TypeOK /\ SilenceTracked /\ WindowTracked /\ RateMeasured

-----------------------------------------------------------------------------
LEMMA Bounds ==
  /\ Wrap \in Nat /\ MaxTimeout \in Nat /\ MaxPass \in Nat /\ WindowMs \in Nat
  /\ RingFrames \in Nat /\ MaxErr \in Nat
  /\ WindowMs > 0 /\ MaxPass > 0 /\ Wrap > 0
  /\ MaxTimeout + MaxPass < Wrap /\ WindowMs + MaxPass < Wrap
BY WrapAssumption, RxLinkAssumption

LEMMA StoredTimeout ==
  ASSUME NEW t \in Timeouts, NEW p \in Protocols
  PROVE  t[p] \in 1 .. MaxTimeout
BY RxLinkAssumption

LEMMA ClockFits ==
  ASSUME NEW t \in Time, NEW s \in Time
  PROVE  Elapsed(t, s) \in Nat /\ Elapsed(t, t) = 0
<1>1. Wrap \in Nat /\ t \in Nat /\ t < Wrap /\ s \in Nat /\ s < Wrap
  BY Bounds DEF Time
<1> QED BY <1>1 DEF Elapsed

(* A difference grows by what passed, unless that takes it past the modulus. *)
LEMMA ClockAdvances ==
  ASSUME NEW t \in Time, NEW s \in Time, NEW d \in 1 .. MaxPass
  PROVE  /\ Later(t, d) \in Time
         /\ Elapsed(Later(t, d), s) <= Elapsed(t, s) + d
         /\ Elapsed(t, s) + d < Wrap => Elapsed(Later(t, d), s) = Elapsed(t, s) + d
<1>1. /\ Wrap \in Nat /\ MaxPass \in Nat /\ MaxPass < Wrap
      /\ t \in Nat /\ t < Wrap /\ s \in Nat /\ s < Wrap /\ d \in Nat /\ d <= MaxPass
  BY Bounds DEF Time
<1> QED BY <1>1 DEF Later, Elapsed, Time

(* n frames at one reading of the clock.                                    *)
LEMMA OnFramesDoes ==
  ASSUME NEW l \in Links, NEW n \in Nat, now \in Time
  PROVE  /\ OnFrames(l, n) \in Links
         /\ n = 0 => OnFrames(l, n) = l
         /\ n # 0 => /\ OnFrames(l, n).seen /\ OnFrames(l, n).up
                     /\ OnFrames(l, n).lastMs = now
                     /\ OnFrames(l, n).winStart = IF l.up THEN l.winStart ELSE now
                     /\ OnFrames(l, n).rate = l.rate
<1>1. OnFrame(l) \in Links
  <2>1. /\ (IF l.seen /\ ~l.up THEN 1 ELSE l.winCount + 1) \in Nat
        /\ (IF l.up THEN l.winStart ELSE now) \in Time
    BY DEF Links
  <2> QED BY <2>1 DEF OnFrame, Links
<1>2. CASE n = 0
  BY <1>2 DEF OnFrames
<1>3. CASE n # 0
  <2>1. OnFrames(l, n) = [OnFrame(l) EXCEPT !.winCount = OnFrame(l).winCount + n - 1]
    BY <1>3 DEF OnFrames
  <2>2. OnFrame(l).winCount + n - 1 \in Nat
    BY <1>1, <1>3 DEF Links
  <2>3. OnFrames(l, n) \in Links
    BY <1>1, <2>1, <2>2 DEF Links
  <2>4. /\ OnFrame(l).seen = TRUE /\ OnFrame(l).up = TRUE /\ OnFrame(l).lastMs = now
        /\ OnFrame(l).winStart = (IF l.up THEN l.winStart ELSE now)
        /\ OnFrame(l).rate = l.rate
    BY DEF OnFrame, Links
  <2> QED BY <1>1, <1>3, <2>1, <2>3, <2>4 DEF Links
<1> QED BY <1>2, <1>3

LEMMA RejectsOnlyCount ==
  ASSUME NEW l \in Links, NEW n \in Nat
  PROVE  /\ OnRejects(l, n) \in Links
         /\ \A f \in {"seen", "up", "rate", "winCount", "lastMs", "winStart"} :
              OnRejects(l, n)[f] = l[f]
<1>1. AtMost(l.err + n, MaxErr) \in 0 .. MaxErr
  BY Bounds DEF AtMost, Links
<1> QED BY <1>1 DEF OnRejects, Links

(* LinkState::tick, by what it decides.                                     *)
LEMMA TickLinkDoes ==
  ASSUME NEW l \in Links, now \in Time, timeoutMs \in Nat
  PROVE  /\ TickLink(l) \in Links
         /\ ~l.seen => TickLink(l) = l
         /\ l.seen /\ Elapsed(now, l.lastMs) > timeoutMs =>
              /\ ~TickLink(l).up
              /\ l.up => TickLink(l).rate = 0 /\ TickLink(l).winCount = 0
              /\ ~l.up => TickLink(l) = l
         /\ l.seen /\ Elapsed(now, l.lastMs) <= timeoutMs =>
              /\ TickLink(l).seen /\ TickLink(l).up = l.up /\ TickLink(l).lastMs = l.lastMs
              /\ IF Elapsed(now, l.winStart) >= WindowMs
                 THEN /\ TickLink(l).rate = l.winCount /\ TickLink(l).winCount = 0
                      /\ TickLink(l).winStart = now
                 ELSE TickLink(l) = l
<1> DEFINE dropped == [l EXCEPT !.up = FALSE, !.rate = 0, !.winCount = 0, !.winStart = now]
           counted == [l EXCEPT !.rate = l.winCount, !.winCount = 0, !.winStart = now]
<1>1. Elapsed(now, l.lastMs) \in Nat
  BY ClockFits DEF Links
<1>2. /\ dropped \in Links
      /\ dropped.up = FALSE /\ dropped.rate = 0 /\ dropped.winCount = 0
  BY DEF Links
<1>3. /\ counted \in Links
      /\ counted.seen = l.seen /\ counted.up = l.up /\ counted.lastMs = l.lastMs
      /\ counted.rate = l.winCount /\ counted.winCount = 0 /\ counted.winStart = now
  BY DEF Links
<1>4. TickLink(l) =
        IF ~l.seen THEN l
        ELSE IF Elapsed(now, l.lastMs) > timeoutMs THEN IF l.up THEN dropped ELSE l
        ELSE IF Elapsed(now, l.winStart) >= WindowMs THEN counted ELSE l
  BY DEF TickLink
<1> HIDE DEF dropped, counted
<1> QED BY <1>1, <1>2, <1>3, <1>4
-----------------------------------------------------------------------------
(* One tick, with or without a frame, from what onFrame left to what the     *)
(* link shows.                                                             *)
LEMMA TickTracks ==
  ASSUME RxInv, ~ticked, NEW l \in Links, NEW framed \in BOOLEAN,
         framed => /\ l.seen /\ l.up /\ l.lastMs = now /\ l.rate = link.rate
                   /\ l.winStart = IF link.up THEN link.winStart ELSE now,
         ~framed => /\ l.seen = link.seen /\ l.up = link.up /\ l.rate = link.rate
                    /\ l.winCount = link.winCount
                    /\ l.lastMs = link.lastMs /\ l.winStart = link.winStart,
         link' = TickLink(l), Observe(framed)
  PROVE  /\ link' \in Links /\ quiet' \in 0 .. Quiet /\ upFor' \in 0 .. WindowMs
         /\ SilenceTracked' /\ WindowTracked' /\ RateMeasured'
         /\ link'.up => quiet' <= timeoutMs
         /\ link.up /\ ~link'.up => quiet' > timeoutMs
<1>1. /\ now \in Time /\ timeoutMs \in Nat /\ timeoutMs <= MaxTimeout /\ link \in Links
      /\ quiet \in 0 .. Quiet /\ upFor \in 0 .. WindowMs
  BY Bounds DEF RxInv, TypeOK
<1>2. /\ Elapsed(now, l.lastMs) \in Nat /\ Elapsed(now, l.winStart) \in Nat
      /\ Elapsed(now, link.lastMs) \in Nat /\ Elapsed(now, link.winStart) \in Nat
      /\ Elapsed(now, now) = 0
  BY <1>1, ClockFits DEF Links
<1>3. /\ ticked' = TRUE /\ UNCHANGED <<now, timeoutMs>>
      /\ quiet' = IF framed THEN 0 ELSE quiet
      /\ upFor' = IF ~link'.up \/ ~link.up THEN 0 ELSE upFor
  BY DEF Observe
<1>4. link' \in Links
  BY <1>1, TickLinkDoes
<1>5. quiet' \in 0 .. Quiet /\ upFor' \in 0 .. WindowMs
  BY <1>1, <1>3, Bounds DEF Quiet
<1>6. CASE ~l.seen
  <2>1. ~framed /\ ~link.up /\ link' = l
    BY <1>1, <1>6, TickLinkDoes DEF RxInv, SilenceTracked
  <2>2. ~link'.up /\ link'.rate = 0 /\ link'.winCount = 0
    BY <2>1 DEF RxInv, WindowTracked
  <2> QED BY <1>4, <1>5, <2>1, <2>2 DEF SilenceTracked, WindowTracked, RateMeasured
<1>7. CASE l.seen /\ Elapsed(now, l.lastMs) > timeoutMs
  <2>1. ~framed
    BY <1>1, <1>2, <1>7
  <2>2. ~link'.up
    BY <1>1, <1>7, TickLinkDoes
  <2>3. link'.rate = 0 /\ link'.winCount = 0
    <3>1. CASE link.up
      BY <1>1, <1>7, <2>1, <3>1, TickLinkDoes
    <3>2. CASE ~link.up
      BY <1>1, <1>7, <2>1, <3>2, TickLinkDoes DEF RxInv, WindowTracked
    <3> QED BY <3>1, <3>2
  <2>4. link.up => quiet' > timeoutMs
    BY <1>1, <1>2, <1>3, <1>7, <2>1, Bounds DEF RxInv, SilenceTracked, AtMost, Quiet
  <2> QED BY <1>4, <1>5, <2>2, <2>3, <2>4 DEF SilenceTracked, WindowTracked, RateMeasured
<1>8. CASE l.seen /\ Elapsed(now, l.lastMs) <= timeoutMs
  <2>1. /\ link'.seen /\ link'.up = l.up /\ link'.lastMs = l.lastMs
        /\ Elapsed(now, l.winStart) >= WindowMs =>
             link'.rate = l.winCount /\ link'.winCount = 0 /\ link'.winStart = now
        /\ Elapsed(now, l.winStart) < WindowMs => link' = l
    BY <1>1, <1>2, <1>8, Bounds, TickLinkDoes
  <2>2. link'.up => quiet' <= timeoutMs /\ SilenceTracked'
    <3>1. CASE framed
      BY <1>1, <1>2, <1>3, <2>1, <3>1, Bounds DEF SilenceTracked, AtMost, Quiet
    <3>2. CASE ~framed
      <4> SUFFICES ASSUME link'.up PROVE quiet' <= timeoutMs /\ SilenceTracked'
        OBVIOUS
      <4>1. link.up /\ l.lastMs = link.lastMs /\ quiet' = quiet
        BY <1>3, <2>1, <3>2
      <4>2. PICK e \in Nat : e = Elapsed(now, l.lastMs) /\ e <= timeoutMs
        BY <1>2, <1>8
      <4>3. quiet = AtMost(e, Quiet)
        BY <4>1, <4>2 DEF RxInv, SilenceTracked
      <4>4. quiet = e /\ e <= MaxTimeout
        BY <1>1, <4>2, <4>3, Bounds DEF AtMost, Quiet
      <4>5. Elapsed(now', link'.lastMs) = e /\ quiet' = e /\ e = AtMost(e, Quiet)
        BY <1>3, <2>1, <4>1, <4>2, <4>3, <4>4
      <4> QED BY <1>3, <2>1, <4>2, <4>4, <4>5, Bounds DEF SilenceTracked
    <3> QED BY <3>1, <3>2
  <2>3. SilenceTracked' /\ ~(link.up /\ ~link'.up)
    BY <2>1, <2>2 DEF SilenceTracked
  <2>4. CASE link.up
    <3>1. link'.up /\ upFor' = upFor /\ l.winStart = link.winStart /\ l.rate = link.rate
      BY <1>3, <2>1, <2>4
    <3>2. Elapsed(now, l.winStart) <= upFor \/ upFor = WindowMs
      BY <2>4, <3>1 DEF RxInv, WindowTracked
    <3>3. CASE Elapsed(now, l.winStart) >= WindowMs
      <4>1. upFor' = WindowMs
        BY <1>1, <1>2, <3>1, <3>2, <3>3, Bounds
      <4> QED BY <1>4, <1>5, <2>2, <2>3, <3>1, <4>1 DEF WindowTracked, RateMeasured
    <3>4. CASE Elapsed(now, l.winStart) < WindowMs
      <4>1. link'.winStart = l.winStart /\ link'.rate = link.rate
        BY <2>1, <3>1, <3>4
      <4> QED BY <1>3, <1>4, <1>5, <2>2, <2>3, <3>1, <3>2, <4>1
              DEF RxInv, WindowTracked, RateMeasured
    <3> QED BY <1>2, <3>3, <3>4, Bounds
  <2>5. CASE ~link.up /\ framed
    <3>1. link'.up /\ l.winStart = now /\ l.rate = 0 /\ link.up = FALSE
      BY <1>1, <2>1, <2>5 DEF RxInv, WindowTracked, Links
    <3>2. link' = l
      BY <1>2, <2>1, <3>1, Bounds
    <3>3. upFor' = 0
      BY <1>3, <3>1
    <3> QED BY <1>2, <1>3, <1>4, <1>5, <2>2, <2>3, <3>1, <3>2, <3>3
            DEF WindowTracked, RateMeasured
  <2>6. CASE ~link.up /\ ~framed
    <3>1. ~link'.up /\ l.rate = 0 /\ l.winCount = 0
      BY <2>1, <2>6 DEF RxInv, WindowTracked
    <3>2. link'.rate = 0 /\ link'.winCount = 0
      BY <1>2, <2>1, <3>1, Bounds
    <3> QED BY <1>4, <1>5, <2>3, <3>1, <3>2 DEF WindowTracked, RateMeasured
  <2> QED BY <2>4, <2>5, <2>6
<1> QED BY <1>1, <1>2, <1>6, <1>7, <1>8

LEMMA TickInv ==
  ASSUME RxInv, Tick
  PROVE  /\ RxInv'
         /\ link'.up => quiet' <= timeoutMs
         /\ link.up /\ ~link'.up => quiet' > timeoutMs
<1>1. /\ now \in Time /\ link \in Links /\ ring \in Rings /\ us \in Makers
      /\ stats \in Makers /\ lastSim \in Time /\ cfg.source \in Makers
      /\ statsSeen \in BOOLEAN
  BY DEF RxInv, TypeOK, Makers
<1>2. CASE TickUart
  <2>1. ring["rc"] \in Nat /\ ring["bad"] \in Nat
    BY <1>1, Bounds DEF Rings, Kinds
  <2> DEFINE framed == Holds("rc")
             drained == OnFrames(link, ring["rc"])
  <2>2. framed \in BOOLEAN /\ (framed <=> ring["rc"] # 0)
    BY <2>1 DEF Holds
  <2>3. /\ drained \in Links
        /\ ~framed => drained = link
        /\ framed => /\ drained.seen /\ drained.up /\ drained.lastMs = now
                     /\ drained.rate = link.rate
                     /\ drained.winStart = IF link.up THEN link.winStart ELSE now
    BY <1>1, <2>1, <2>2, OnFramesDoes
  <2>4. Drained = OnRejects(drained, ring["bad"])
    BY DEF Drained
  <2>5. ~ticked /\ link' = TickLink(Drained) /\ Observe(framed)
    BY <1>2 DEF TickUart
  <2> HIDE DEF framed, drained
  <2>6. /\ Drained \in Links
        /\ Drained.seen = drained.seen /\ Drained.up = drained.up
        /\ Drained.rate = drained.rate /\ Drained.winCount = drained.winCount
        /\ Drained.lastMs = drained.lastMs /\ Drained.winStart = drained.winStart
    BY <2>1, <2>3, <2>4, RejectsOnlyCount
  <2>7. /\ link' \in Links /\ quiet' \in 0 .. Quiet /\ upFor' \in 0 .. WindowMs
        /\ SilenceTracked' /\ WindowTracked' /\ RateMeasured'
        /\ link'.up => quiet' <= timeoutMs
        /\ link.up /\ ~link'.up => quiet' > timeoutMs
    BY <2>2, <2>3, <2>5, <2>6, TickTracks
  <2>8. /\ ring' = EmptyRing /\ us' \in Makers /\ stats' \in Makers /\ UNCHANGED lastSim
        /\ statsSeen' \in BOOLEAN
    BY <1>1, <1>2 DEF TickUart
  <2>9. EmptyRing \in Rings /\ Filled(EmptyRing) <= RingFrames
    BY Bounds DEF EmptyRing, Rings, Filled, Kinds
  <2>10. TypeOK'
    BY <2>5, <2>7, <2>8, <2>9 DEF RxInv, TypeOK, Observe, Quiet, Aired
  <2> QED BY <2>7, <2>10 DEF RxInv
<1>3. CASE TickSim
  <2> DEFINE framed == SimDue
             framedLink == IF SimDue THEN OnFrame(link) ELSE link
  <2>1. framed \in BOOLEAN
    BY DEF SimDue
  <2>2. OnFrames(link, 1) = [OnFrame(link) EXCEPT !.winCount = OnFrame(link).winCount + 1 - 1]
    BY DEF OnFrames
  <2>3. OnFrames(link, 1) = OnFrame(link)
    <3>1. (IF link.seen /\ ~link.up THEN 1 ELSE link.winCount + 1) \in Nat
      BY <1>1 DEF Links
    <3>2. OnFrame(link).winCount \in Nat
      BY <1>1, <3>1 DEF OnFrame, Links
    <3>3. OnFrame(link).winCount + 1 - 1 = OnFrame(link).winCount
      BY <3>2
    <3> QED BY <1>1, <2>2, <3>3 DEF OnFrame, Links
  <2>4. /\ OnFrame(link) \in Links
        /\ OnFrame(link).seen /\ OnFrame(link).up /\ OnFrame(link).lastMs = now
        /\ OnFrame(link).rate = link.rate
        /\ OnFrame(link).winStart = IF link.up THEN link.winStart ELSE now
    BY <1>1, <2>3, OnFramesDoes
  <2>5. ~ticked /\ link' = TickLink(framedLink) /\ Observe(framed)
    BY <1>3 DEF TickSim
  <2>6. /\ framedLink \in Links /\ (~framed => framedLink = link)
        /\ (framed => framedLink = OnFrame(link))
    BY <1>1, <2>4
  <2> HIDE DEF framed, framedLink
  <2>7. /\ link' \in Links /\ quiet' \in 0 .. Quiet /\ upFor' \in 0 .. WindowMs
        /\ SilenceTracked' /\ WindowTracked' /\ RateMeasured'
        /\ link'.up => quiet' <= timeoutMs
        /\ link.up /\ ~link'.up => quiet' > timeoutMs
    BY <2>1, <2>4, <2>5, <2>6, TickTracks
  <2>8. /\ us' \in Makers /\ stats' \in Makers /\ lastSim' \in Time /\ UNCHANGED ring
        /\ statsSeen' \in BOOLEAN
    BY <1>1, <1>3 DEF TickSim
  <2>9. TypeOK'
    BY <2>5, <2>7, <2>8 DEF RxInv, TypeOK, Observe, Quiet, Aired
  <2> QED BY <2>7, <2>9 DEF RxInv
<1> QED BY <1>2, <1>3 DEF Tick

LEMMA PassInv ==
  ASSUME RxInv, NEW d \in 1 .. MaxPass, NextPass(d)
  PROVE  RxInv'
<1>1. /\ now \in Time /\ link \in Links /\ ticked /\ d \in Nat /\ d <= MaxPass
      /\ quiet \in 0 .. Quiet /\ aired \in 0 .. Aired /\ upFor \in 0 .. WindowMs
  BY Bounds DEF RxInv, TypeOK, NextPass
<1>2. link.lastMs \in Time /\ link.winStart \in Time
  BY <1>1 DEF Links
<1>3. /\ now' = Later(now, d) /\ ticked' = FALSE /\ link' = link
      /\ quiet' = AtMost(quiet + d, Quiet) /\ aired' = AtMost(aired + d, Aired)
      /\ upFor' = IF link.up THEN AtMost(upFor + d, WindowMs) ELSE 0
  BY DEF NextPass
<1>4. now' \in Time
  BY <1>1, <1>3, ClockAdvances
<1>5. quiet' \in 0 .. Quiet /\ aired' \in 0 .. Aired /\ upFor' \in 0 .. WindowMs
  BY <1>1, <1>3, Bounds DEF AtMost, Quiet, Aired
<1>6. TypeOK'
  BY <1>3, <1>4, <1>5 DEF RxInv, TypeOK, NextPass, Quiet, Aired
<1>7. CASE link.up
  <2>1. PICK e \in Nat : e = Elapsed(now, link.lastMs)
    BY <1>1, <1>2, ClockFits
  <2>2. e <= MaxTimeout /\ quiet = AtMost(e, Quiet) /\ link.seen
    BY <1>1, <1>7, <2>1, Bounds DEF RxInv, SilenceTracked
  <2>3. Elapsed(now', link'.lastMs) = e + d
    BY <1>1, <1>2, <1>3, <2>1, <2>2, Bounds, ClockAdvances
  <2>4. SilenceTracked'
    <3>1. quiet' = AtMost(e + d, Quiet)
      BY <1>1, <1>3, <2>2, Bounds DEF AtMost, Quiet
    <3> QED BY <1>1, <1>3, <2>2, <2>3, <3>1, Bounds DEF SilenceTracked, Quiet
  <2>5. PICK w \in Nat : w = Elapsed(now, link.winStart)
    BY <1>1, <1>2, ClockFits
  <2>6. w <= upFor \/ upFor = WindowMs
    BY <1>7, <2>5 DEF RxInv, WindowTracked
  <2>7. Elapsed(now', link'.winStart) \in Nat /\ Elapsed(now', link'.winStart) <= w + d
    BY <1>1, <1>2, <1>3, <1>4, <2>5, ClockFits, ClockAdvances
  <2>8. WindowTracked'
    BY <1>1, <1>3, <1>7, <2>6, <2>7, Bounds DEF WindowTracked, AtMost
  <2>9. RateMeasured'
    BY <1>1, <1>3, <1>7, Bounds DEF RxInv, RateMeasured, AtMost
  <2> QED BY <1>6, <2>4, <2>8, <2>9 DEF RxInv
<1>8. CASE ~link.up
  BY <1>3, <1>6, <1>8 DEF RxInv, SilenceTracked, WindowTracked, RateMeasured
<1> QED BY <1>7, <1>8

(* The commands between two passes, and frames coming in.                   *)
LEMMA CommandInv ==
  ASSUME RxInv, Config \/ (\E kind \in Kinds : Air(kind)) \/ UNCHANGED vars
  PROVE  RxInv'
<1>forgotten. ASSUME Forget, UNCHANGED <<now, ticked, ring, lastSim, aired>>,
                     cfg' \in [protocol : Protocols, source : Sources, timeouts : Timeouts],
                     timeoutMs' \in 1 .. MaxTimeout
              PROVE  RxInv'
  <2>1. /\ link' \in Links /\ link'.up = FALSE /\ link'.rate = 0 /\ link'.winCount = 0
        /\ quiet' = Quiet /\ upFor' = 0 /\ us' = None /\ stats' = None /\ statsSeen' = FALSE
    <3>1. link \in Links /\ 0 \in Time
      BY Bounds DEF RxInv, TypeOK, Time
    <3> QED BY <1>forgotten, <3>1 DEF Forget, ResetLink, Links
  <2>2. None \in Makers /\ 0 \in 0 .. WindowMs /\ Quiet \in 0 .. Quiet
    BY Bounds DEF Makers, Quiet
  <2>3. TypeOK'
    BY <1>forgotten, <2>1, <2>2 DEF RxInv, TypeOK, Quiet, Aired
  <2> QED BY <2>1, <2>3 DEF RxInv, SilenceTracked, WindowTracked, RateMeasured
<1>1. CASE SetProtocol
  <2>1. PICK p \in Protocols : cfg' = [cfg EXCEPT !.protocol = p]
    BY <1>1 DEF SetProtocol
  <2>2. cfg \in [protocol : Protocols, source : Sources, timeouts : Timeouts]
    BY DEF RxInv, TypeOK
  <2>3. cfg' \in [protocol : Protocols, source : Sources, timeouts : Timeouts]
    BY <2>1, <2>2
  <2>4. timeoutMs' = cfg'.timeouts[cfg'.protocol]
    BY <1>1 DEF SetProtocol, Reread
  <2>5. timeoutMs' \in 1 .. MaxTimeout
    BY <2>3, <2>4, StoredTimeout
  <2> QED BY <1>1, <1>forgotten, <2>3, <2>5 DEF SetProtocol
<1>2. CASE SetSource
  <2>1. PICK p \in Sources : cfg' = [cfg EXCEPT !.source = p]
    BY <1>2 DEF SetSource
  <2>2. /\ cfg \in [protocol : Protocols, source : Sources, timeouts : Timeouts]
        /\ timeoutMs \in 1 .. MaxTimeout
    BY DEF RxInv, TypeOK
  <2>3. cfg' \in [protocol : Protocols, source : Sources, timeouts : Timeouts]
    BY <2>1, <2>2
  <2> QED BY <1>2, <1>forgotten, <2>2, <2>3 DEF SetSource
<1>3. CASE SetTimeout
  <2>1. PICK t \in Timeouts : cfg' = [cfg EXCEPT !.timeouts = t]
    BY <1>3 DEF SetTimeout
  <2>2. cfg \in [protocol : Protocols, source : Sources, timeouts : Timeouts]
    BY DEF RxInv, TypeOK
  <2>3. cfg' \in [protocol : Protocols, source : Sources, timeouts : Timeouts]
    BY <2>1, <2>2
  <2>4. timeoutMs' = cfg'.timeouts[cfg'.protocol]
    BY <1>3 DEF SetTimeout, Reread
  <2>5. timeoutMs' \in 1 .. MaxTimeout
    BY <2>3, <2>4, StoredTimeout
  <2> QED BY <1>3, <2>3, <2>5
          DEF SetTimeout, RxInv, TypeOK, SilenceTracked, WindowTracked, RateMeasured, Quiet, Aired
<1>4. ASSUME NEW kind \in Kinds, Air(kind) PROVE RxInv'
  <2>1. ring \in Rings /\ Filled(ring) <= RingFrames
    BY DEF RxInv, TypeOK
  <2>2. ring["rc"] \in Nat /\ ring["stats"] \in Nat /\ ring["bad"] \in Nat
    BY <2>1, Bounds DEF Rings, Kinds
  <2>3. ring' \in Rings /\ Filled(ring') <= RingFrames
    <3>1. CASE Filled(ring) < RingFrames
      <4>1. ring' = [ring EXCEPT ![kind] = ring[kind] + 1]
        BY <1>4, <3>1 DEF Air
      <4>2. ring[kind] + 1 \in 0 .. RingFrames
        BY <2>2, <3>1, Bounds DEF Filled, Kinds
      <4> QED BY <2>1, <2>2, <3>1, <4>1, <4>2, Bounds DEF Rings, Filled, Kinds
    <3>2. CASE ~(Filled(ring) < RingFrames)
      BY <1>4, <2>1, <3>2 DEF Air
    <3> QED BY <3>1, <3>2
  <2>4. aired' \in 0 .. Aired
    BY <1>4, Bounds DEF Air, RxInv, TypeOK, Aired
  <2> QED BY <1>4, <2>3, <2>4
          DEF Air, RxInv, TypeOK, SilenceTracked, WindowTracked, RateMeasured, Quiet, Aired
<1>5. CASE UNCHANGED vars
  BY <1>5 DEF vars, RxInv, TypeOK, SilenceTracked, WindowTracked, RateMeasured, Quiet, Aired
<1> QED BY <1>1, <1>2, <1>3, <1>4, <1>5 DEF Config
-----------------------------------------------------------------------------
LEMMA InitRxInv == Init => RxInv
<1> SUFFICES ASSUME Init PROVE RxInv
  OBVIOUS
<1>1. cfg \in [protocol : Protocols, source : Sources, timeouts : Timeouts]
  BY DEF Init
<1>2. timeoutMs \in 1 .. MaxTimeout
  BY <1>1, StoredTimeout DEF Init
<1>3. /\ link \in Links /\ link.up = FALSE /\ link.rate = 0 /\ link.winCount = 0
      /\ lastSim \in Time
  BY Bounds DEF Init, ResetLink, Links, Time
<1>4. ring \in Rings /\ Filled(ring) <= RingFrames
  BY Bounds DEF Init, EmptyRing, Rings, Filled, Kinds
<1>5. quiet \in 0 .. Quiet /\ aired \in 0 .. Aired /\ upFor \in 0 .. WindowMs
  BY Bounds DEF Init, Quiet, Aired
<1>6. TypeOK
  BY <1>1, <1>2, <1>3, <1>4, <1>5 DEF Init, TypeOK, Makers
<1> QED BY <1>3, <1>6 DEF RxInv, SilenceTracked, WindowTracked, RateMeasured

LEMMA NextRxInv == RxInv /\ [Next]_vars => RxInv'
<1> SUFFICES ASSUME RxInv, [Next]_vars PROVE RxInv'
  OBVIOUS
<1>1. CASE Tick
  BY <1>1, TickInv
<1>2. CASE Pass
  BY <1>2, PassInv DEF Pass
<1>3. CASE Config \/ (\E kind \in Kinds : Air(kind)) \/ UNCHANGED vars
  BY <1>3, CommandInv
<1> QED BY <1>1, <1>2, <1>3 DEF Next

(* Every member stays in its range, whatever is drained in a tick and         *)
(* whenever a command comes.                                               *)
THEOREM RxTypes == Spec => []TypeOK
<1>1. RxInv => TypeOK
  BY DEF RxInv
<1> QED BY <1>1, InitRxInv, NextRxInv, PTL DEF Spec

(* The link is dropped for a silence longer than the timeout and for nothing *)
(* else, and never outlives one (LinkState::tick), for every modulus of the  *)
(* clock that holds a timeout and a pass.                                  *)
THEOREM LinkIsHonest == Spec => LinkHonest
<1>1. RxInv /\ [Next]_vars =>
        [Tick => /\ link'.up => quiet' <= timeoutMs
                 /\ (link.up /\ ~link'.up) => quiet' > timeoutMs]_vars
  BY TickInv
<1> QED BY <1>1, InitRxInv, NextRxInv, PTL DEF Spec, LinkHonest

(* A packet rate is one counted over a whole window of an unbroken link      *)
(* (LinkState::onFrame, LinkState::tick).                                  *)
THEOREM RateIsMeasured == Spec => []RateMeasured
<1>1. RxInv => RateMeasured
  BY DEF RxInv
<1> QED BY <1>1, InitRxInv, NextRxInv, PTL DEF Spec

(* Channels and statistics shown were made by the selected source, and a      *)
(* link that is up has channels of its own, although the UART's ring and the  *)
(* simulation's clock outlive a change (onParamChanged).                    *)
THEOREM ShownReal == Spec => []ShownIsReal
<1>1. Init => ShownIsReal
  BY DEF Init, ShownIsReal, ResetLink
<1>2. ASSUME RxInv, ShownIsReal, [Next]_vars PROVE ShownIsReal'
  <2>1. CASE TickUart
    <3>1. cfg' = cfg /\ cfg.source = "uart"
      BY <2>1 DEF TickUart, Observe
    <3>2. us' # None \/ ~link'.up
      <4>1. CASE Holds("rc")
        BY <2>1, <4>1 DEF TickUart, None
      <4>2. CASE ~Holds("rc")
        <5>1. /\ link \in Links /\ ring["rc"] = 0 /\ ring["bad"] \in Nat
              /\ now \in Time /\ timeoutMs \in Nat
          BY <1>2, <4>2, Bounds DEF RxInv, TypeOK, Rings, Kinds, Holds
        <5>2. Drained = OnRejects(link, ring["bad"])
          BY <5>1 DEF Drained, OnFrames
        <5>3. Drained \in Links /\ Drained.up = link.up
          BY <5>1, <5>2, RejectsOnlyCount
        <5>4. Elapsed(now, Drained.lastMs) \in Nat
          BY <5>1, <5>3, ClockFits DEF Links
        <5>5. link'.up => link.up
          BY <2>1, <5>1, <5>3, <5>4, TickLinkDoes DEF TickUart
        <5> QED BY <1>2, <2>1, <4>2, <5>5 DEF ShownIsReal, TickUart
      <4> QED BY <4>1, <4>2
    <3>3. {us', stats'} \subseteq {None, cfg.source}
      BY <1>2, <2>1, <3>1 DEF TickUart, ShownIsReal
    <3>4. statsSeen' => stats' # None
      BY <1>2, <2>1 DEF TickUart, ShownIsReal, None
    <3> QED BY <3>1, <3>2, <3>3, <3>4 DEF ShownIsReal
  <2>2. CASE TickSim
    BY <2>2 DEF TickSim, Observe, ShownIsReal, None
  <2>3. CASE SetProtocol \/ SetSource
    BY <2>3 DEF SetProtocol, SetSource, Forget, ResetLink, ShownIsReal
  <2>4. CASE SetTimeout
    <3>1. PICK t \in Timeouts : cfg' = [cfg EXCEPT !.timeouts = t]
      BY <2>4 DEF SetTimeout
    <3>2. cfg'.source = cfg.source
      BY <1>2, <3>1 DEF RxInv, TypeOK
    <3> QED BY <1>2, <2>4, <3>2 DEF SetTimeout, ShownIsReal
  <2>5. CASE Pass \/ (\E kind \in Kinds : Air(kind)) \/ UNCHANGED vars
    BY <1>2, <2>5 DEF Pass, NextPass, Air, vars, ShownIsReal
  <2> QED BY <1>2, <2>1, <2>2, <2>3, <2>4, <2>5 DEF Next, Tick, Config
<1> QED BY <1>1, <1>2, InitRxInv, NextRxInv, PTL DEF Spec

(* The timeout in force is the selected protocol's, whichever parameter of    *)
(* the two was set last.                                                   *)
THEOREM TimeoutSelected == Spec => []TimeoutIsSelected
<1>1. Init => TimeoutIsSelected
  BY DEF Init, TimeoutIsSelected
<1>2. ASSUME TypeOK, TimeoutIsSelected, [Next]_vars PROVE TimeoutIsSelected'
  <2>1. CASE SetProtocol \/ SetTimeout
    BY <2>1 DEF SetProtocol, SetTimeout, Reread, TimeoutIsSelected
  <2>2. CASE SetSource
    <3>1. PICK s \in Sources : cfg' = [cfg EXCEPT !.source = s]
      BY <2>2 DEF SetSource
    <3>2. cfg'.timeouts = cfg.timeouts /\ cfg'.protocol = cfg.protocol
      BY <1>2, <3>1 DEF TypeOK
    <3> QED BY <1>2, <2>2, <3>2 DEF SetSource, TimeoutIsSelected
  <2>3. CASE Tick
    BY <1>2, <2>3 DEF Tick, TickUart, TickSim, Observe, TimeoutIsSelected
  <2>4. CASE Pass \/ (\E kind \in Kinds : Air(kind)) \/ UNCHANGED vars
    BY <1>2, <2>4 DEF Pass, NextPass, Air, vars, TimeoutIsSelected
  <2> QED BY <1>2, <2>1, <2>2, <2>3, <2>4 DEF Next, Config
<1> QED BY <1>1, <1>2, RxTypes, PTL DEF Spec
-----------------------------------------------------------------------------

(* A byte and the eight bits it is made of.                                  *)
LEMMA BitsOf ==
  ASSUME NEW n \in Bytes
  PROVE  /\ \A k \in 0 .. 7 : Bit(n, k) \in {0, 1}
         /\ n = Bit(n, 0) + 2 * Bit(n, 1) + 4 * Bit(n, 2) + 8 * Bit(n, 3)
                + 16 * Bit(n, 4) + 32 * Bit(n, 5) + 64 * Bit(n, 6) + 128 * Bit(n, 7)
<1>1. /\ 2^0 = 1 /\ 2^1 = 2 /\ 2^2 = 4 /\ 2^3 = 8
      /\ 2^4 = 16 /\ 2^5 = 32 /\ 2^6 = 64 /\ 2^7 = 128
  OBVIOUS
<1>2. \A k \in 0 .. 7 : Bit(n, k) \in {0, 1}
  BY <1>1 DEF Bit, Bytes
<1>3. n = (n % 2) + 2 * ((n \div 2) % 2) + 4 * ((n \div 4) % 2) + 8 * ((n \div 8) % 2)
          + 16 * ((n \div 16) % 2) + 32 * ((n \div 32) % 2) + 64 * ((n \div 64) % 2)
          + 128 * ((n \div 128) % 2)
  BY SMTT(30) DEF Bytes
<1>4. n \div 1 = n BY DEF Bytes
<1> QED BY <1>1, <1>2, <1>3, <1>4 DEF Bit

(* Four bits are told by the number they make.                              *)
LEMMA FourBits ==
  ASSUME NEW a \in {0, 1}, NEW b \in {0, 1}, NEW c \in {0, 1}, NEW d \in {0, 1},
         NEW p \in {0, 1}, NEW q \in {0, 1}, NEW r \in {0, 1}, NEW s \in {0, 1},
         a + 2 * b + 4 * c + 8 * d = p + 2 * q + 4 * r + 8 * s
  PROVE  a = p /\ b = q /\ c = r /\ d = s
OBVIOUS

(* So are two digits of four bits each.                                     *)
LEMMA TwoDigits ==
  ASSUME NEW a \in 0 .. 15, NEW b \in 0 .. 15, NEW p \in 0 .. 15, NEW q \in 0 .. 15,
         a + 16 * b = p + 16 * q
  PROVE  a = p /\ b = q
OBVIOUS

(* Eight bits make a byte, and are the bits of it.                          *)
LEMMA BitsMake ==
  ASSUME NEW x \in [0 .. 7 -> {0, 1}], NEW n,
         n = x[0] + 2 * x[1] + 4 * x[2] + 8 * x[3] + 16 * x[4] + 32 * x[5] + 64 * x[6] + 128 * x[7]
  PROVE  n \in Bytes /\ \A k \in 0 .. 7 : Bit(n, k) = x[k]
<1> DEFINE y  == [k \in 0 .. 7 |-> Bit(n, k)]
           xl == x[0] + 2 * x[1] + 4 * x[2] + 8 * x[3]
           xh == x[4] + 2 * x[5] + 4 * x[6] + 8 * x[7]
           yl == y[0] + 2 * y[1] + 4 * y[2] + 8 * y[3]
           yh == y[4] + 2 * y[5] + 4 * y[6] + 8 * y[7]
<1>1. \A k \in 0 .. 7 : x[k] \in {0, 1}
  OBVIOUS
<1>2. n \in Bytes BY <1>1 DEF Bytes
<1>3. /\ \A k \in 0 .. 7 : y[k] \in {0, 1}
      /\ n = y[0] + 2 * y[1] + 4 * y[2] + 8 * y[3] + 16 * y[4] + 32 * y[5] + 64 * y[6] + 128 * y[7]
  BY <1>2, BitsOf
<1> HIDE DEF y
<1>4. xl \in 0 .. 15 /\ xh \in 0 .. 15 /\ yl \in 0 .. 15 /\ yh \in 0 .. 15
  BY <1>1, <1>3
<1>5. xl + 16 * xh = yl + 16 * yh
  <2>1. \A p0, p1, p2, p3, p4, p5, p6, p7 \in {0, 1} :
          p0 + 2 * p1 + 4 * p2 + 8 * p3 + 16 * (p4 + 2 * p5 + 4 * p6 + 8 * p7)
            = p0 + 2 * p1 + 4 * p2 + 8 * p3 + 16 * p4 + 32 * p5 + 64 * p6 + 128 * p7
    OBVIOUS
  <2>2. n = xl + 16 * xh
    BY <1>1, <2>1
  <2>3. n = yl + 16 * yh
    BY <1>3, <2>1
  <2> QED
    <3> HIDE DEF xl, xh, yl, yh
    <3> QED BY <2>2, <2>3
<1>6. xl = yl /\ xh = yh
  <2> HIDE DEF xl, xh, yl, yh
  <2> QED BY <1>4, <1>5, TwoDigits
<1>7. y[0] = x[0] /\ y[1] = x[1] /\ y[2] = x[2] /\ y[3] = x[3]
  BY <1>1, <1>3, <1>6, FourBits
<1>8. y[4] = x[4] /\ y[5] = x[5] /\ y[6] = x[6] /\ y[7] = x[7]
  BY <1>1, <1>3, <1>6, FourBits
<1>9. \A k \in 0 .. 7 : y[k] = x[k] BY <1>7, <1>8
<1> QED BY <1>2, <1>9 DEF y

(* A byte is told by its bits.                                              *)
LEMMA SameBits ==
  ASSUME NEW a \in Bytes, NEW b \in Bytes, \A k \in 0 .. 7 : Bit(a, k) = Bit(b, k)
  PROVE  a = b
BY BitsOf

(* BitXor adds two bytes bit by bit, without carrying.                      *)
LEMMA XorBits ==
  ASSUME NEW a \in Bytes, NEW b \in Bytes
  PROVE  /\ BitXor(a, b) \in Bytes
         /\ \A k \in 0 .. 7 : Bit(BitXor(a, b), k) = (Bit(a, k) + Bit(b, k)) % 2
<1> DEFINE x == [k \in 0 .. 7 |-> (Bit(a, k) + Bit(b, k)) % 2]
<1>1. x \in [0 .. 7 -> {0, 1}] BY BitsOf
<1>2. /\ 2^0 = 1 /\ 2^1 = 2 /\ 2^2 = 4 /\ 2^3 = 8
      /\ 2^4 = 16 /\ 2^5 = 32 /\ 2^6 = 64 /\ 2^7 = 128
  OBVIOUS
<1>3. BitXor(a, b) = x[0] + 2 * x[1] + 4 * x[2] + 8 * x[3] + 16 * x[4] + 32 * x[5]
                     + 64 * x[6] + 128 * x[7]
  BY <1>1, <1>2 DEF BitXor
<1> HIDE DEF x
<1>4. BitXor(a, b) \in Bytes /\ \A k \in 0 .. 7 : Bit(BitXor(a, b), k) = x[k]
  BY <1>1, <1>3, BitsMake
<1> QED BY <1>4 DEF x

(* No bit of zero is set.                                                   *)
LEMMA ZeroBit == \A k \in 0 .. 7 : Bit(0, k) = 0
<1>1. /\ 2^0 = 1 /\ 2^1 = 2 /\ 2^2 = 4 /\ 2^3 = 8
      /\ 2^4 = 16 /\ 2^5 = 32 /\ 2^6 = 64 /\ 2^7 = 128
  OBVIOUS
<1>2. /\ 0 \div 1 = 0 /\ 0 \div 2 = 0 /\ 0 \div 4 = 0 /\ 0 \div 8 = 0 /\ 0 % 2 = 0
      /\ 0 \div 16 = 0 /\ 0 \div 32 = 0 /\ 0 \div 64 = 0 /\ 0 \div 128 = 0
  OBVIOUS
<1>3. /\ Bit(0, 0) = 0 /\ Bit(0, 1) = 0 /\ Bit(0, 2) = 0 /\ Bit(0, 3) = 0
      /\ Bit(0, 4) = 0 /\ Bit(0, 5) = 0 /\ Bit(0, 6) = 0 /\ Bit(0, 7) = 0
  BY <1>1, <1>2 DEF Bit
<1> QED BY <1>3

(* Two bytes that cancel are the same byte.                                 *)
LEMMA XorZero ==
  ASSUME NEW a \in Bytes, NEW b \in Bytes
  PROVE  BitXor(a, b) = 0 <=> a = b
<1>1. \A k \in 0 .. 7 : Bit(0, k) = 0 BY ZeroBit
<1> QED BY <1>1, XorBits, SameBits, BitsOf


(* The top bit of a byte, and what doubling leaves of the other seven.      *)
LEMMA LowSeven ==
  ASSUME NEW n \in Bytes
  PROVE  /\ n % 128 = n - 128 * Bit(n, 7)
         /\ (2 * n) % 256 = 2 * (n % 128)
         /\ n >= 128 <=> Bit(n, 7) = 1
<1>1. Bit(n, 7) = (n \div 128) % 2 BY DEF Bit
<1>2. CASE n < 128
  <2>1. n \div 128 = 0 /\ n % 128 = n BY <1>2 DEF Bytes
  <2>2. (2 * n) % 256 = 2 * n BY <1>2 DEF Bytes
  <2> QED BY <1>1, <1>2, <2>1, <2>2 DEF Bytes
<1>3. CASE n >= 128
  <2>1. n \div 128 = 1 /\ n % 128 = n - 128 BY <1>3 DEF Bytes
  <2>2. (2 * n) % 256 = 2 * n - 256 BY <1>3 DEF Bytes
  <2> QED BY <1>1, <1>3, <2>1, <2>2 DEF Bytes
<1> QED BY <1>2, <1>3 DEF Bytes

(* What one step of crc8's loop does to each bit.                           *)
LEMMA ShiftBits ==
  ASSUME NEW a \in Bytes
  PROVE  /\ ShiftOut(a) \in Bytes
         /\ Bit(ShiftOut(a), 0) = Bit(a, 7)
         /\ \A k \in 1 .. 7 :
              Bit(ShiftOut(a), k) = (Bit(a, k - 1) + Bit(a, 7) * Bit(Poly, k)) % 2
<1> DEFINE t == (2 * a) % 256
           x == [k \in 0 .. 7 |-> IF k = 0 THEN 0 ELSE Bit(a, k - 1)]
<1>1. x \in [0 .. 7 -> {0, 1}] BY BitsOf
<1>2. t = x[0] + 2 * x[1] + 4 * x[2] + 8 * x[3] + 16 * x[4] + 32 * x[5] + 64 * x[6] + 128 * x[7]
  BY BitsOf, LowSeven
<1>3. t \in Bytes /\ \A k \in 0 .. 7 : Bit(t, k) = x[k]
  <2> HIDE DEF t, x
  <2> QED BY <1>1, <1>2, BitsMake
<1>4. Bit(t, 0) = 0 /\ \A k \in 1 .. 7 : Bit(t, k) = Bit(a, k - 1)
  BY <1>3
<1>5. Poly \in Bytes /\ Bit(Poly, 0) = 1
  BY DEF Poly, Bytes, Bit
<1>6. \A k \in 0 .. 7 : Bit(a, k) \in {0, 1} /\ Bit(Poly, k) \in {0, 1}
  BY <1>5, BitsOf
<1>7. CASE a >= 128
  <2>1. Bit(a, 7) = 1 BY <1>7, LowSeven
  <2>2. ShiftOut(a) = BitXor(t, Poly) BY <1>7 DEF ShiftOut
  <2> HIDE DEF t, x
  <2>3. /\ ShiftOut(a) \in Bytes
        /\ \A k \in 0 .. 7 : Bit(ShiftOut(a), k) = (Bit(t, k) + Bit(Poly, k)) % 2
    BY <2>2, <1>3, <1>5, XorBits
  <2> QED BY <2>1, <2>3, <1>4, <1>5, <1>6
<1>8. CASE a < 128
  <2>1. Bit(a, 7) = 0
    <3>1. ~(a >= 128) BY <1>8 DEF Bytes
    <3> QED BY <1>6, <3>1, LowSeven
  <2>2. ShiftOut(a) = t BY <1>8 DEF ShiftOut, Bytes
  <2> HIDE DEF t, x
  <2> QED BY <2>1, <2>2, <1>3, <1>4, <1>6
<1> QED BY <1>7, <1>8 DEF Bytes

(* The next remainder: what one step of a long division does to x with v     *)
(* brought down on it is what the shift register does to x, with 2v + bit.   *)
LEMMA BringDownIs ==
  ASSUME NEW x \in Bytes, NEW v \in 0 .. 127, NEW bit \in {0, 1}
  PROVE  /\ ShiftOut(x) \in Bytes
         /\ BringDown(BitXor(x, v), bit) = BitXor(ShiftOut(x), 2 * v + bit)
<1> DEFINE y == BitXor(x, v)
           s == 2 * (y % 128) + bit
           w == 2 * v + bit
<1>1. v \in Bytes /\ w \in Bytes BY DEF Bytes
<1>2. y \in Bytes /\ \A k \in 0 .. 7 : Bit(y, k) = (Bit(x, k) + Bit(v, k)) % 2
  BY <1>1, XorBits
<1> HIDE DEF y
<1>3. \A k \in 0 .. 7 : Bit(x, k) \in {0, 1} /\ Bit(y, k) \in {0, 1} /\ Bit(v, k) \in {0, 1}
  BY <1>1, <1>2, BitsOf
<1>4. Bit(v, 7) = 0 /\ Bit(x, 7) = Bit(y, 7)
  <2>1. Bit(v, 7) = 0
    <3>1. ~(v >= 128) BY <1>1 DEF Bytes
    <3> QED BY <1>1, <1>3, <3>1, LowSeven
  <2> QED BY <2>1, <1>2, <1>3
<1>5. s \in Bytes /\ Bit(s, 0) = bit /\ \A k \in 1 .. 7 : Bit(s, k) = Bit(y, k - 1)
  <2> DEFINE z == [k \in 0 .. 7 |-> IF k = 0 THEN bit ELSE Bit(y, k - 1)]
  <2>1. z \in [0 .. 7 -> {0, 1}] BY <1>3
  <2>2. s = z[0] + 2 * z[1] + 4 * z[2] + 8 * z[3] + 16 * z[4] + 32 * z[5] + 64 * z[6] + 128 * z[7]
    BY <1>2, BitsOf, LowSeven
  <2>3. s \in Bytes /\ \A k \in 0 .. 7 : Bit(s, k) = z[k]
    <3> HIDE DEF s, z
    <3> QED BY <2>1, <2>2, BitsMake
  <2> QED BY <2>3
<1>6. Bit(w, 0) = bit /\ \A k \in 1 .. 7 : Bit(w, k) = Bit(v, k - 1)
  <2> DEFINE z == [k \in 0 .. 7 |-> IF k = 0 THEN bit ELSE Bit(v, k - 1)]
  <2>1. z \in [0 .. 7 -> {0, 1}] BY <1>3
  <2>2. w = z[0] + 2 * z[1] + 4 * z[2] + 8 * z[3] + 16 * z[4] + 32 * z[5] + 64 * z[6] + 128 * z[7]
    BY <1>1, <1>4, BitsOf
  <2>3. w \in Bytes /\ \A k \in 0 .. 7 : Bit(w, k) = z[k]
    <3> HIDE DEF w, z
    <3> QED BY <2>1, <2>2, BitsMake
  <2> QED BY <2>3
<1> HIDE DEF s, w
<1>7. Poly \in Bytes /\ Bit(Poly, 0) = 1 /\ \A k \in 0 .. 7 : Bit(Poly, k) \in {0, 1}
  <2>1. Poly \in Bytes /\ Bit(Poly, 0) = 1
    BY DEF Poly, Bytes, Bit
  <2> QED BY <2>1, BitsOf
<1> DEFINE b == BringDown(y, bit)
<1>8. b \in Bytes /\ Bit(b, 0) = (bit + Bit(y, 7)) % 2
      /\ \A k \in 1 .. 7 : Bit(b, k) = (Bit(y, k - 1) + Bit(y, 7) * Bit(Poly, k)) % 2
  <2>1. CASE y >= 128
    <3>1. Bit(y, 7) = 1 BY <2>1, <1>2, LowSeven
    <3>2. b = BitXor(s, Poly) BY <2>1 DEF BringDown, s
    <3> HIDE DEF b
    <3>3. b \in Bytes /\ \A k \in 0 .. 7 : Bit(b, k) = (Bit(s, k) + Bit(Poly, k)) % 2
      BY <3>2, <1>5, <1>7, XorBits
    <3> QED BY <3>1, <3>3, <1>3, <1>5, <1>7
  <2>2. CASE y < 128
    <3>1. Bit(y, 7) = 0
      <4>1. ~(y >= 128) BY <2>2, <1>2 DEF Bytes
      <4> QED BY <1>2, <1>3, <4>1, LowSeven
    <3>2. b = s BY <2>2, <1>2 DEF BringDown, s, Bytes
    <3> HIDE DEF b
    <3>3. \A k \in 1 .. 7 : k - 1 \in 0 .. 7 /\ k \in 0 .. 7 OBVIOUS
    <3>4. Bit(b, 0) = (bit + Bit(y, 7)) % 2 BY <3>1, <3>2, <1>5
    <3>5. ASSUME NEW k \in 1 .. 7
          PROVE  Bit(b, k) = (Bit(y, k - 1) + Bit(y, 7) * Bit(Poly, k)) % 2
      <4>1. Bit(b, k) = Bit(y, k - 1) /\ Bit(y, k - 1) \in {0, 1} /\ Bit(Poly, k) \in {0, 1}
        BY <3>2, <3>3, <1>3, <1>5, <1>7
      <4> QED BY <3>1, <4>1
    <3> QED BY <3>2, <3>4, <3>5, <1>5
  <2> QED BY <2>1, <2>2, <1>2 DEF Bytes
<1> HIDE DEF b
<1> DEFINE c == BitXor(ShiftOut(x), w)
<1>9. c \in Bytes /\ \A k \in 0 .. 7 : Bit(c, k) = (Bit(ShiftOut(x), k) + Bit(w, k)) % 2
  BY <1>1, ShiftBits, XorBits, ZenonT(60)
<1>10. Bit(c, 0) = (Bit(x, 7) + bit) % 2
       /\ \A k \in 1 .. 7 :
            Bit(c, k) = (((Bit(x, k - 1) + Bit(x, 7) * Bit(Poly, k)) % 2) + Bit(v, k - 1)) % 2
  BY <1>6, <1>9, ShiftBits
<1> HIDE DEF c
<1>11. \A k \in 0 .. 7 : Bit(b, k) = Bit(c, k)
  <2>1. Bit(b, 0) = Bit(c, 0) BY <1>3, <1>4, <1>8, <1>10
  <2>2. ASSUME NEW k \in 1 .. 7 PROVE Bit(b, k) = Bit(c, k)
    <3> DEFINE p == Bit(x, k - 1)
               q == Bit(v, k - 1)
               r == Bit(x, 7)
               m == Bit(Poly, k)
    <3>1. k - 1 \in 0 .. 7 /\ k \in 0 .. 7 OBVIOUS
    <3>2. p \in {0, 1} /\ q \in {0, 1} /\ r \in {0, 1} /\ m \in {0, 1}
      BY <3>1, <1>3, <1>7
    <3>3. Bit(b, k) = (((p + q) % 2) + r * m) % 2 BY <3>1, <1>2, <1>4, <1>8
    <3>4. Bit(c, k) = (((p + r * m) % 2) + q) % 2 BY <1>10
    <3> HIDE DEF p, q, r, m
    <3> QED BY <3>2, <3>3, <3>4
  <2> QED BY <2>1, <2>2
<1>12. b = c BY <1>8, <1>9, <1>11, SameBits
<1> QED BY <1>12, ShiftBits DEF b, c, y, w

(* Eight steps of the division are eight shifts, and the byte on top.        *)
LEMMA DivideIs ==
  ASSUME NEW r \in Bytes, NEW b \in Bytes
  PROVE  /\ Twice(Twice(Twice(Twice(r)))) \in Bytes
         /\ DivideInto(r, b) = BitXor(Twice(Twice(Twice(Twice(r)))), b)
<1> DEFINE s1 == ShiftOut(r)
           s2 == ShiftOut(s1)
           s3 == ShiftOut(s2)
           s4 == ShiftOut(s3)
           s5 == ShiftOut(s4)
           s6 == ShiftOut(s5)
           s7 == ShiftOut(s6)
           s8 == ShiftOut(s7)
           v1 == Bit(b, 7)
           v2 == 2 * v1 + Bit(b, 6)
           v3 == 2 * v2 + Bit(b, 5)
           v4 == 2 * v3 + Bit(b, 4)
           v5 == 2 * v4 + Bit(b, 3)
           v6 == 2 * v5 + Bit(b, 2)
           v7 == 2 * v6 + Bit(b, 1)
           v8 == 2 * v7 + Bit(b, 0)
<1>1. \A k \in 0 .. 7 : Bit(b, k) \in {0, 1} BY BitsOf
<1>2. /\ v1 \in 0 .. 1 /\ v2 \in 0 .. 3 /\ v3 \in 0 .. 7 /\ v4 \in 0 .. 15
      /\ v5 \in 0 .. 31 /\ v6 \in 0 .. 63 /\ v7 \in 0 .. 127 /\ v8 = b
  BY <1>1, BitsOf
<1> HIDE DEF s1, s2, s3, s4, s5, s6, s7, s8
<1>3. BitXor(r, 0) = r
  <2>1. 0 \in Bytes /\ \A k \in 0 .. 7 : Bit(0, k) = 0 BY ZeroBit DEF Bytes
  <2>2. \A k \in 0 .. 7 : Bit(r, k) \in {0, 1} BY BitsOf
  <2>3. \A k \in 0 .. 7 : (Bit(r, k) + 0) % 2 = Bit(r, k) BY <2>2
  <2> QED BY <2>1, <2>3, XorBits, SameBits
<1>4. s1 \in Bytes /\ BringDown(r, Bit(b, 7)) = BitXor(s1, v1)
  <2>1. 0 \in 0 .. 127 /\ 2 * 0 + Bit(b, 7) = v1 BY <1>1
  <2> QED BY <1>1, <1>3, <2>1, BringDownIs DEF s1
<1>5. s2 \in Bytes /\ BringDown(BitXor(s1, v1), Bit(b, 6)) = BitXor(s2, v2)
  <2>1. v1 \in 0 .. 127 BY <1>2
  <2> HIDE DEF v1
  <2> QED BY <1>1, <1>4, <2>1, BringDownIs, SMTT(30) DEF s2
<1>6. s3 \in Bytes /\ BringDown(BitXor(s2, v2), Bit(b, 5)) = BitXor(s3, v3)
  <2>1. v2 \in 0 .. 127 BY <1>2
  <2> HIDE DEF v2
  <2> QED BY <1>1, <1>5, <2>1, BringDownIs DEF s3
<1>7. s4 \in Bytes /\ BringDown(BitXor(s3, v3), Bit(b, 4)) = BitXor(s4, v4)
  <2>1. v3 \in 0 .. 127 BY <1>2
  <2> HIDE DEF v3
  <2> QED BY <1>1, <1>6, <2>1, BringDownIs DEF s4
<1>8. s5 \in Bytes /\ BringDown(BitXor(s4, v4), Bit(b, 3)) = BitXor(s5, v5)
  <2>1. v4 \in 0 .. 127 BY <1>2
  <2> HIDE DEF v4
  <2> QED BY <1>1, <1>7, <2>1, BringDownIs DEF s5
<1>9. s6 \in Bytes /\ BringDown(BitXor(s5, v5), Bit(b, 2)) = BitXor(s6, v6)
  <2>1. v5 \in 0 .. 127 BY <1>2
  <2> HIDE DEF v5
  <2> QED BY <1>1, <1>8, <2>1, BringDownIs DEF s6
<1>10. s7 \in Bytes /\ BringDown(BitXor(s6, v6), Bit(b, 1)) = BitXor(s7, v7)
  <2>1. v6 \in 0 .. 127 BY <1>2
  <2> HIDE DEF v6
  <2> QED BY <1>1, <1>9, <2>1, BringDownIs DEF s7
<1>11. s8 \in Bytes /\ BringDown(BitXor(s7, v7), Bit(b, 0)) = BitXor(s8, v8)
  <2>1. v7 \in 0 .. 127 BY <1>2
  <2> HIDE DEF v7
  <2> QED BY <1>1, <1>10, <2>1, BringDownIs DEF s8
<1>12. DivideInto(r, b) = BitXor(s8, v8)
  <2> HIDE DEF v1, v2, v3, v4, v5, v6, v7, v8
  <2> QED BY <1>4, <1>5, <1>6, <1>7, <1>8, <1>9, <1>10, <1>11 DEF DivideInto
<1>13. Twice(Twice(Twice(Twice(r)))) = s8
  BY DEF Twice, s1, s2, s3, s4, s5, s6, s7, s8
<1> QED BY <1>2, <1>11, <1>12, <1>13

(* The parser's running CRC is the remainder's, shifted out; so a byte that  *)
(* equals the CRC is the one that leaves no remainder.                      *)
LEMMA CrcIsRemainder ==
  ASSUME NEW r \in Bytes, NEW b \in Bytes, NEW c, c = Twice(Twice(Twice(Twice(r)))),
         NEW d, d = DivideInto(r, b)
  PROVE  /\ c \in Bytes /\ d \in Bytes /\ Crc8(c, b) \in Bytes
         /\ Crc8(c, b) = Twice(Twice(Twice(Twice(d))))
         /\ d = 0 <=> c = b
<1>1. c \in Bytes /\ d = BitXor(c, b) BY DivideIs
<1>2. d \in Bytes BY <1>1, XorBits
<1>3. Crc8(c, b) = Twice(Twice(Twice(Twice(d)))) BY <1>1 DEF Crc8
<1>4. Crc8(c, b) \in Bytes BY <1>2, <1>3, DivideIs
<1> QED BY <1>1, <1>2, <1>3, <1>4, XorZero

(* What the parser knows between two bytes.  While it gathers, its buffer is *)
(* what came after the length, and its CRC the remainder's.                 *)
Gathering ==
  /\ Len(since) = Len(parser.buf) + 2 /\ Len(parser.buf) <= parser.len - 1
  /\ since[1] = Sync /\ since[2] = parser.len /\ parser.len \in MinLen .. MaxLen
  /\ parser.buf = SubSeq(since, 3, Len(since))
  /\ parser.crc = Twice(Twice(Twice(Twice(remainder))))

(* Only the sync byte has come.                                             *)
AfterSync == Len(since) = 1 /\ since[1] = Sync

(* What the variables range over.                                           *)
FrameShapes ==
  /\ parser \in [st : {"sync", "length", "payload"}, len : Bytes, buf : Seq(Bytes), crc : Bytes,
                 result : {"none", "frame", "rejected"}]
  /\ since \in Seq(Bytes) /\ remainder \in Bytes

(* The inductive invariant of the parser.                                   *)
FrameInv ==
  /\ FrameShapes
  /\ parser.st = "length" => AfterSync
  /\ parser.st = "payload" => Gathering
  /\ FramesAreWhole

(* A remainder of zero stays one, shifted out or doubled.                   *)
LEMMA ZeroBits == BitXor(0, 0) = 0 /\ ShiftOut(0) = 0 /\ Twice(0) = 0
<1>1. 0 \in Bytes BY DEF Bytes
<1>2. BitXor(0, 0) = 0 BY <1>1, XorZero
<1>3. ShiftOut(0) = 0 BY DEF ShiftOut
<1> QED BY <1>2, <1>3 DEF Twice

(* What a byte appended to a sequence leaves of it.                         *)
LEMMA Appended ==
  ASSUME NEW S, NEW s \in Seq(S), NEW x \in S
  PROVE  /\ Append(s, x) \in Seq(S) /\ Len(Append(s, x)) = Len(s) + 1
         /\ \A i \in 1 .. Len(s) : Append(s, x)[i] = s[i]
         /\ Append(s, x)[Len(s) + 1] = x
OBVIOUS

(* A second byte after a first.                                             *)
LEMMA AppendedSecond ==
  ASSUME NEW S, NEW s \in Seq(S), NEW x \in S, Len(s) = 1
  PROVE  /\ Append(s, x) \in Seq(S) /\ Len(Append(s, x)) = 2
         /\ Append(s, x)[1] = s[1] /\ Append(s, x)[2] = x
<1> DEFINE t == Append(s, x)
<1>1. t \in Seq(S) /\ Len(t) = 2 /\ t[Len(s) + 1] = x BY Appended, SMTT(30)
<1>2. \A i \in 1 .. Len(s) : t[i] = s[i] BY Appended
<1>3. t[1] = s[1]
  <2> HIDE DEF t
  <2>1. 1 \in 1 .. Len(s) OBVIOUS
  <2> QED BY <1>2, <2>1
<1>4. t[2] = x
  <2> HIDE DEF t
  <2>1. Len(s) + 1 = 2 OBVIOUS
  <2> QED BY <1>1, <2>1
<1> QED BY <1>1, <1>3, <1>4

(* A step that changes only the state and the result keeps the shapes.      *)
LEMMA Reported ==
  ASSUME FrameShapes, NEW st \in {"sync", "length", "payload"},
         NEW result \in {"none", "frame", "rejected"},
         parser' = [parser EXCEPT !.st = st, !.result = result],
         since' \in Seq(Bytes), remainder' \in Bytes
  PROVE  /\ FrameShapes'
         /\ parser'.st = st /\ parser'.result = result /\ parser'.buf = parser.buf
BY DEF FrameShapes

(* A byte that comes while a payload is gathered keeps the invariant: it is *)
(* one more of the payload, or the CRC the frame ends with, or not.         *)
LEMMA Gathered ==
  ASSUME FrameInv, parser.st = "payload", NEW b \in Bytes, parser' = FeedFrame(parser, b),
         since' = Append(since, b), remainder' = DivideInto(remainder, b)
  PROVE  FrameInv'
<1>1. Gathering /\ FrameShapes BY DEF FrameInv
<1>2. /\ parser.len \in Bytes /\ parser.len \in MinLen .. MaxLen /\ Len(parser.buf) \in Nat
      /\ MaxLen \in Int
  BY <1>1, FramingAssumption DEF Gathering, FrameShapes
<1>3. /\ remainder' \in Bytes
      /\ Crc8(parser.crc, b) = Twice(Twice(Twice(Twice(remainder'))))
      /\ Crc8(parser.crc, b) \in Bytes
      /\ remainder' = 0 <=> parser.crc = b
  <2>1. parser.crc = Twice(Twice(Twice(Twice(remainder)))) /\ remainder \in Bytes
    BY <1>1 DEF FrameShapes, Gathering
  <2> QED BY <2>1, CrcIsRemainder
<1>4. /\ since' \in Seq(Bytes) /\ Len(since') = Len(since) + 1
      /\ since'[1] = Sync /\ since'[2] = parser.len
      /\ Len(since) = Len(parser.buf) + 2
  <2>1. since \in Seq(Bytes) /\ Len(since) = Len(parser.buf) + 2 /\ since[1] = Sync
        /\ since[2] = parser.len
    BY <1>1 DEF FrameShapes, Gathering
  <2>2. 1 \in 1 .. Len(since) /\ 2 \in 1 .. Len(since) BY <1>2, <2>1, SMTT(30)
  <2>3. /\ Append(since, b) \in Seq(Bytes) /\ Len(Append(since, b)) = Len(since) + 1
        /\ Append(since, b)[1] = Sync /\ Append(since, b)[2] = parser.len
    BY <2>1, <2>2, Appended
  <2> QED BY <2>1, <2>3
<1>5. SubSeq(since', 3, Len(since)) = parser.buf
  BY <1>1 DEF FrameShapes, Gathering
<1>6. CASE Len(parser.buf) < parser.len - 1
  <2>1. parser' = [parser EXCEPT !.buf = Append(@, b), !.crc = Crc8(@, b), !.result = "none"]
    BY <1>6 DEF FeedFrame, Gather
  <2>2. Append(parser.buf, b) = SubSeq(since', 3, Len(since'))
    BY <1>1, <1>4, <1>5 DEF FrameShapes
  <2>3. FrameShapes'
    <3>1. Append(parser.buf, b) \in Seq(Bytes) BY <1>1, Appended DEF FrameShapes
    <3> QED BY <1>1, <1>3, <1>4, <2>1, <3>1 DEF FrameShapes
  <2>4. /\ parser'.st = "payload" /\ parser'.buf = Append(parser.buf, b)
        /\ parser'.crc = Crc8(parser.crc, b) /\ parser'.result = "none" /\ parser'.len = parser.len
        /\ Len(parser'.buf) = Len(parser.buf) + 1
    BY <1>1, <2>1, Appended DEF FrameShapes
  <2>5. Gathering'
    <3>1. PICK g \in Nat : g = Len(parser.buf) BY <1>2
    <3>2. /\ Len(parser'.buf) = g + 1 /\ Len(since) = g + 2 /\ Len(since') = g + 3
          /\ g < parser.len - 1
      BY <1>4, <1>6, <2>4, <3>1
    <3>3. Len(since') = Len(parser'.buf) + 2 /\ Len(parser'.buf) <= parser.len - 1
      BY <1>2, <3>2 DEF Bytes
    <3>4. parser'.len = parser.len /\ parser'.buf = SubSeq(since', 3, Len(since'))
      BY <2>2, <2>4
    <3> QED BY <1>2, <1>3, <1>4, <2>4, <3>3, <3>4 DEF Gathering
  <2>6. ~ WholeFrame' BY <1>2, <1>4, <1>6 DEF WholeFrame, Bytes
  <2>7. FramesAreWhole' BY <1>2, <1>6, <2>4, <2>6 DEF FramesAreWhole, Bytes
  <2> QED BY <2>3, <2>4, <2>5, <2>7 DEF FrameInv
<1>7. CASE Len(parser.buf) = parser.len - 1
  <2> DEFINE result == IF parser.crc = b THEN "frame" ELSE "rejected"
  <2>1. parser' = [parser EXCEPT !.st = "sync", !.result = result]
    BY <1>7 DEF FeedFrame, Seek
  <2>2. /\ FrameShapes' /\ parser'.buf = parser.buf /\ parser'.st = "sync"
        /\ parser'.result = "frame" <=> parser.crc = b
    BY <1>1, <1>3, <1>4, <2>1, Reported
  <2>3. Len(since') = parser.len + 2 /\ Len(since') - 1 = Len(since)
    BY <1>2, <1>4, <1>7, SMTT(30) DEF Bytes
  <2>a. Len(since') >= 2 /\ Len(parser.buf) <= MaxLen - 1
    BY <1>2, <1>7, <2>3, SMTT(30) DEF Bytes
  <2>4. WholeFrame' <=> parser.crc = b
    BY <1>2, <1>3, <1>4, <2>3, <2>a DEF WholeFrame
  <2>5. FramesAreWhole'
    BY <1>5, <2>2, <2>3, <2>4, <2>a DEF FramesAreWhole
  <2> QED BY <2>2, <2>5 DEF FrameInv
<1>8. Len(parser.buf) < parser.len - 1 \/ Len(parser.buf) = parser.len - 1
  BY <1>1, <1>2 DEF Gathering, Bytes
<1> QED BY <1>6, <1>7, <1>8

(* FrameParser::feed, and the driver's fresh parsers: frames are whole        *)
(* whatever bytes come, for every longest length and every alphabet.         *)
THEOREM FramesTheorem == FrameSpec => []FramesAreWhole
<1>1. Wire \subseteq Bytes /\ MaxLen \in 2 .. 255 BY FramingAssumption
<1>2. ASSUME parser = FreshParser, since = <<>>, remainder = 0 PROVE FrameInv
  <2>1. FrameShapes BY <1>2 DEF FrameShapes, FreshParser, Bytes
  <2>2. FramesAreWhole BY <1>1, <1>2 DEF FreshParser, FramesAreWhole, WholeFrame
  <2> QED BY <1>2, <2>1, <2>2 DEF FrameInv, FreshParser
<1>3. ASSUME FrameInv, [FrameNext]_frameVars PROVE FrameInv'
  <2>1. CASE DropFrame
    <3>1. FrameShapes' BY <2>1 DEF DropFrame, FrameShapes, FreshParser, Bytes
    <3>2. FramesAreWhole' BY <1>1, <2>1 DEF DropFrame, FreshParser, FramesAreWhole, WholeFrame
    <3> QED BY <2>1, <3>1, <3>2 DEF DropFrame, FrameInv, FreshParser
  <2>2. FrameShapes /\ Len(parser.buf) <= MaxLen - 1
    BY <1>3 DEF FrameInv, FramesAreWhole
  <2>3. ASSUME NEW b \in Bytes, parser' = FeedFrame(parser, b), parser.st = "sync",
               since' = <<b>>, remainder' = 0
        PROVE  FrameInv'
    <3>1. parser' = [parser EXCEPT !.st = IF b = Sync THEN "length" ELSE "sync", !.result = "none"]
      BY <2>3 DEF FeedFrame
    <3>2. since' \in Seq(Bytes) /\ Len(since') = 1 /\ since'[1] = b BY <2>3
    <3>3. /\ FrameShapes' /\ parser'.st = (IF b = Sync THEN "length" ELSE "sync")
          /\ parser'.result = "none" /\ parser'.buf = parser.buf
      <4>1. remainder' \in Bytes BY <2>3 DEF Bytes
      <4> QED BY <2>2, <3>1, <3>2, <4>1, Reported
    <3>5. FramesAreWhole' BY <2>2, <3>2, <3>3 DEF FramesAreWhole, WholeFrame
    <3> QED BY <3>2, <3>3, <3>5 DEF FrameInv, AfterSync
  <2>4. ASSUME NEW b \in Bytes, parser' = FeedFrame(parser, b), parser.st = "length",
               since' = Append(since, b), remainder' = 0
        PROVE  FrameInv'
    <3>1. Len(since) = 1 /\ since[1] = Sync /\ since \in Seq(Bytes)
      BY <1>3, <2>2, <2>4 DEF FrameInv, AfterSync, FrameShapes
    <3>2. since' \in Seq(Bytes) /\ Len(since') = 2 /\ since'[1] = Sync /\ since'[2] = b
      <4>1. /\ Append(since, b) \in Seq(Bytes) /\ Len(Append(since, b)) = 2
            /\ Append(since, b)[1] = Sync /\ Append(since, b)[2] = b
        BY <3>1, AppendedSecond
      <4> QED BY <2>4, <4>1
    <3>3. ~ WholeFrame'
      BY <3>2 DEF WholeFrame, MinLen
    <3>4. CASE b \notin MinLen .. MaxLen
      <4>1. parser' = [parser EXCEPT !.st = "sync", !.result = "rejected"]
        BY <2>4, <3>4 DEF FeedFrame, Seek
      <4>2. remainder' \in Bytes BY <2>4 DEF Bytes
      <4>3. /\ FrameShapes' /\ parser'.st = "sync" /\ parser'.result = "rejected"
            /\ parser'.buf = parser.buf
        BY <2>2, <3>2, <4>1, <4>2, Reported
      <4>4. FramesAreWhole' BY <2>2, <3>3, <4>3 DEF FramesAreWhole
      <4> QED BY <4>3, <4>4 DEF FrameInv
    <3>5. CASE b \in MinLen .. MaxLen
      <4>1. parser' = [st |-> "payload", len |-> b, buf |-> <<>>, crc |-> 0, result |-> "none"]
        BY <2>4, <3>5 DEF FeedFrame, FreshParser
      <4>2. SubSeq(since', 3, Len(since')) = <<>> BY <3>2
      <4>3. Gathering'
        BY <1>1, <2>4, <3>2, <3>5, <4>1, <4>2, ZeroBits DEF Gathering, MinLen
      <4>4. FramesAreWhole' BY <1>1, <3>3, <4>1 DEF FramesAreWhole
      <4>5. FrameShapes'
        <5>1. 0 \in Bytes /\ remainder' \in Bytes BY <2>4 DEF Bytes
        <5> QED BY <2>4, <3>2, <4>1, <5>1 DEF FrameShapes
      <4> QED BY <4>1, <4>3, <4>4, <4>5 DEF FrameInv
    <3> QED BY <3>4, <3>5
  <2>5. CASE ReceiveByte
    <3>1. PICK b \in Wire : parser' = FeedFrame(parser, b)
             /\ since' = (IF parser.st = "sync" THEN <<b>> ELSE Append(since, b))
             /\ remainder' = (IF parser.st = "payload" THEN DivideInto(remainder, b) ELSE 0)
      BY <2>5 DEF ReceiveByte
    <3>2. parser.st \in {"sync", "length", "payload"} /\ b \in Bytes BY <1>1, <2>2 DEF FrameShapes
    <3>3. CASE parser.st = "payload" BY <1>3, <3>1, <3>2, <3>3, Gathered
    <3>4. CASE parser.st = "sync" BY <3>1, <3>2, <3>4, <2>3
    <3>5. CASE parser.st = "length" BY <3>1, <3>2, <3>5, <2>4
    <3> QED BY <3>2, <3>3, <3>4, <3>5
  <2>6. CASE UNCHANGED frameVars
    BY <1>3, <2>6
    DEF frameVars, FrameInv, FrameShapes, AfterSync, Gathering, FramesAreWhole, WholeFrame
  <2> QED BY <1>3, <2>1, <2>5, <2>6 DEF FrameNext
<1>4. FrameInv => FramesAreWhole BY DEF FrameInv
<1> QED BY <1>2, <1>3, <1>4, PTL DEF FrameSpec, FrameInit
-----------------------------------------------------------------------------

(* Powers of two, as far as an accumulator of eighteen bits needs them.      *)
Pow == {1, 2, 4, 8, 16, 32, 64, 128, 256, 512, 1024, 2048, 4096, 8192, 16384, 32768, 65536,
        131072, 262144}

(* Up to 2^18 each is twice the one before, and larger than all before it.  *)
LEMMA Powers ==
  ASSUME NEW k \in 0 .. 18
  PROVE  /\ 2^k \in Pow
         /\ k < 18 => 2^(k + 1) = 2 * 2^k
         /\ \A j \in 0 .. k - 1 : 2^j \in Pow /\ 2^j < 2^k
<1> DEFINE f(i) == 2^i
<1>1. /\ f(0) = 1 /\ f(1) = 2 /\ f(2) = 4 /\ f(3) = 8 /\ f(4) = 16 /\ f(5) = 32 /\ f(6) = 64
      /\ f(7) = 128 /\ f(8) = 256 /\ f(9) = 512 /\ f(10) = 1024 /\ f(11) = 2048 /\ f(12) = 4096
      /\ f(13) = 8192 /\ f(14) = 16384 /\ f(15) = 32768 /\ f(16) = 65536 /\ f(17) = 131072
      /\ f(18) = 262144
  OBVIOUS
<1> HIDE DEF f
<1>2. f(k) \in Pow BY <1>1 DEF Pow
<1>3. ASSUME k < 18 PROVE f(k + 1) = 2 * f(k)
  BY <1>1, <1>3
<1>4. ASSUME NEW j \in 0 .. k - 1 PROVE f(j) \in Pow /\ f(j) < f(k)
  <2>1. j \in 0 .. 18 OBVIOUS
  <2>2. f(j) \in Pow BY <1>1, <2>1 DEF Pow
  <2>3. f(j) < f(k) BY <1>1, <2>1
  <2> QED BY <2>2, <2>3
<1> QED BY <1>2, <1>3, <1>4 DEF f

(* Dividing by a power of two takes whole multiples of it along.             *)
LEMMA DivAddPow ==
  ASSUME NEW p \in Pow, NEW a \in Nat, NEW c \in Nat
  PROVE  /\ p \in Nat /\ (a + p * c) \div p = a \div p + c
         /\ a \div p \in Nat /\ a \div (2 * p) = (a \div p) \div 2
         /\ a < p => a \div p = 0
BY DEF Pow

(* A smaller one goes into a larger one an even number of times.             *)
LEMMA PowEven ==
  ASSUME NEW p \in Pow, NEW q \in Pow, q < p
  PROVE  p \div (2 * q) \in Nat /\ p = q * (2 * (p \div (2 * q)))
BY DEF Pow

(* A division by a power: by the next one, of less, and of whole multiples. *)
LEMMA DivPow ==
  ASSUME NEW k \in 0 .. 18, NEW a \in Nat
  PROVE  /\ 2^k \in Nat /\ a \div 2^k \in Nat
         /\ k < 18 => a \div 2^(k + 1) = (a \div 2^k) \div 2
         /\ a < 2^k => a \div 2^k = 0
         /\ \A c \in Nat : (a + 2^k * c) \div 2^k = a \div 2^k + c
<1> DEFINE p == 2^k
           q == 2^(k + 1)
<1>1. p \in Pow /\ (k < 18 => q = 2 * p) BY Powers
<1> HIDE DEF p, q
<1>2. /\ p \in Nat /\ a \div p \in Nat /\ a \div (2 * p) = (a \div p) \div 2
      /\ a < p => a \div p = 0
      /\ \A c \in Nat : (a + p * c) \div p = a \div p + c
  BY <1>1, DivAddPow
<1>3. k < 18 => a \div q = (a \div p) \div 2 BY <1>1, <1>2
<1> QED BY <1>2, <1>3 DEF p, q

(* The powers are natural numbers.                                          *)
LEMMA PowNat == \A k \in 0 .. 18 : 2^k \in Nat
BY DivPow

(* A division by 2^(m + i) is one by 2^m and one by 2^i.                     *)
LEMMA DivDiv ==
  ASSUME NEW m \in 0 .. 11, NEW i \in 0 .. 7, NEW n \in Nat
  PROVE  n \div 2^(m + i) = (n \div 2^m) \div 2^i
<1> DEFINE q(j) == n \div 2^(m + j)
           h(j) == (n \div 2^m) \div 2^j
<1>0. m \in 0 .. 18 OBVIOUS
<1>1. n \div 2^m \in Nat BY <1>0, DivPow
<1>2. q(0) = n \div 2^m /\ h(0) = n \div 2^m
  <2>1. m + 0 = m /\ 2^0 = 1 OBVIOUS
  <2>2. (n \div 2^m) \div 1 = n \div 2^m
    <3> DEFINE x == n \div 2^m
    <3> HIDE DEF x
    <3>1. x \in Nat BY <1>1 DEF x
    <3>2. x \div 1 = x BY <3>1
    <3> QED BY <3>2 DEF x
  <2> QED BY <2>1, <2>2
<1>3. \A j \in 0 .. 6 : q(j + 1) = q(j) \div 2
  <2> TAKE j \in 0 .. 6
  <2> DEFINE k == m + j
  <2>1. k \in 0 .. 18 /\ k < 18 /\ m + (j + 1) = k + 1 OBVIOUS
  <2>2. n \div 2^(k + 1) = (n \div 2^k) \div 2
    <3> HIDE DEF k
    <3> QED BY <2>1, DivPow
  <2> QED BY <2>1, <2>2
<1>4. \A j \in 0 .. 6 : h(j + 1) = h(j) \div 2
  <2> TAKE j \in 0 .. 6
  <2> DEFINE x == n \div 2^m
  <2>1. x \div 2^(j + 1) = (x \div 2^j) \div 2
    <3> HIDE DEF x
    <3>1. j \in 0 .. 18 /\ j < 18 OBVIOUS
    <3>2. x \in Nat BY <1>1 DEF x
    <3> QED BY <3>1, <3>2, DivPow
  <2> QED BY <2>1
<1> HIDE DEF q, h
<1>5. q(1) = h(1) /\ q(2) = h(2) /\ q(3) = h(3) /\ q(4) = h(4) /\ q(5) = h(5)
      /\ q(6) = h(6) /\ q(7) = h(7)
  <2>1. q(1) = h(1) BY <1>2, <1>3, <1>4
  <2>2. q(2) = h(2) BY <2>1, <1>3, <1>4
  <2>3. q(3) = h(3) BY <2>2, <1>3, <1>4
  <2>4. q(4) = h(4) BY <2>3, <1>3, <1>4
  <2>5. q(5) = h(5) BY <2>4, <1>3, <1>4
  <2>6. q(6) = h(6) BY <2>5, <1>3, <1>4
  <2>7. q(7) = h(7) BY <2>6, <1>3, <1>4
  <2> QED BY <2>1, <2>2, <2>3, <2>4, <2>5, <2>6, <2>7
<1>6. q(i) = h(i) BY <1>2, <1>5
<1> QED BY <1>6 DEF q, h

(* The bits of a byte on top of m bits.                                      *)
OnTop(v, a, m, b) == a < 2^m /\ v = a + b * 2^m

(* The bits of a, and above them those of b.                                 *)
Stacked(v, a, m, b) ==
  /\ \A k \in 0 .. m - 1 : Bit(v, k) = Bit(a, k)
  /\ \A i \in 0 .. 7, k \in Nat : k = m + i => Bit(v, k) = Bit(b, i)

(* What lies below the new byte stays, and what lies above is that byte.    *)
LEMMA Topped ==
  ASSUME NEW m \in 0 .. 11, NEW a \in Nat, NEW b \in Nat, NEW v \in Nat, OnTop(v, a, m, b)
  PROVE  Stacked(v, a, m, b)
<1>0. v = a + b * 2^m /\ a < 2^m BY DEF OnTop
<1>1. 2^m \in Nat /\ b * 2^m = 2^m * b
  <2> DEFINE q == 2^m
  <2>1. m \in 0 .. 18 OBVIOUS
  <2>2. q \in Nat BY <2>1, PowNat
  <2> HIDE DEF q
  <2>3. q \in Nat /\ b * q = q * b BY <2>2
  <2> QED BY <2>3 DEF q
<1>2. v \div 2^m = b
  <2>1. v \div 2^m = a \div 2^m + b BY <1>0, <1>1, DivPow
  <2>2. a \div 2^m = 0 BY <1>0, DivPow
  <2> QED BY <2>1, <2>2
<1>3. ASSUME NEW i \in 0 .. 7, NEW k \in Nat, k = m + i PROVE Bit(v, k) = Bit(b, i)
  <2>1. v \div 2^k = (v \div 2^m) \div 2^i BY <1>3, DivDiv
  <2> QED BY <1>2, <2>1 DEF Bit
<1>4. ASSUME NEW k \in 0 .. m - 1 PROVE Bit(v, k) = Bit(a, k)
  <2> DEFINE p == 2^k
             q == 2^m
             c == (q \div (2 * p)) * b
  <2>1. p \in Pow /\ q \in Pow /\ p < q
    <3>1. m \in 0 .. 18 OBVIOUS
    <3> QED BY <3>1, Powers
  <2>2. k \in 0 .. 18 /\ p \in Nat /\ a \div p \in Nat
    <3>1. k \in 0 .. 18 OBVIOUS
    <3> QED BY <3>1, DivPow
  <2>3. q \div (2 * p) \in Nat /\ q = p * (2 * (q \div (2 * p)))
    <3> HIDE DEF p, q
    <3> QED BY <2>1, PowEven
  <2>4. c \in Nat /\ b * q = p * (2 * c)
    <3> DEFINE d == q \div (2 * p)
    <3> HIDE DEF d, p, q
    <3>1. d \in Nat /\ q = p * (2 * d) /\ p \in Nat BY <2>2, <2>3 DEF d
    <3>2. d * b \in Nat /\ b * (p * (2 * d)) = p * (2 * (d * b)) BY <3>1
    <3> QED BY <3>1, <3>2 DEF d
  <2> HIDE DEF c
  <2>5. v = a + 2^k * (2 * c) /\ 2 * c \in Nat BY <1>0, <2>4
  <2>6. v \div 2^k = a \div 2^k + 2 * c
    <3> DEFINE x == 2 * c
    <3> HIDE DEF p, q, x
    <3>1. x \in Nat /\ v = a + 2^k * x BY <2>5 DEF x
    <3>2. (a + 2^k * x) \div 2^k = a \div 2^k + x BY <2>2, <3>1, DivPow, ZenonT(60)
    <3> QED BY <3>1, <3>2 DEF x
  <2>7. (a \div p + 2 * c) % 2 = (a \div p) % 2
    <3> HIDE DEF p
    <3> QED BY <2>2, <2>4
  <2> QED BY <2>6, <2>7 DEF Bit
<1> QED BY <1>3, <1>4 DEF Stacked

(* unpackChannels' mask of eleven bits.                                     *)
Field(v) == v % 2048

(* And its shift by eleven.                                                  *)
Rest(v) == v \div 2048

(* A field has the eleven low bits of what it is taken from.                *)
LEMMA FieldBits ==
  ASSUME NEW v \in Nat
  PROVE  /\ Field(v) \in 0 .. 2047 /\ Rest(v) \in Nat
         /\ \A j \in 0 .. 10 : Bit(Field(v), j) = Bit(v, j)
         /\ \A j \in 0 .. 7, k \in Nat : k = 11 + j => Bit(Rest(v), j) = Bit(v, k)
<1>1. Field(v) \in 0 .. 2047 /\ Field(v) \in Nat /\ Rest(v) \in Nat /\ v = Field(v) + Rest(v) * 2048
  BY DEF Field, Rest
<1>2. PICK m \in 0 .. 11 : m = 11 OBVIOUS
<1>3. OnTop(v, Field(v), m, Rest(v))
  <2>1. 2^11 = 2048 OBVIOUS
  <2>2. 2^m = 2048 BY <1>2, <2>1
  <2> QED BY <1>1, <2>2, SMTT(30) DEF OnTop
<1>4. /\ \A k \in 0 .. m - 1 : Bit(v, k) = Bit(Field(v), k)
      /\ \A i \in 0 .. 7, k \in Nat : k = m + i => Bit(v, k) = Bit(Rest(v), i)
  <2>1. Field(v) \in Nat /\ Rest(v) \in Nat BY <1>1
  <2>2. Stacked(v, Field(v), m, Rest(v)) BY <1>3, <2>1, Topped, Zenon
  <2> QED BY <2>2 DEF Stacked
<1>5. \A k \in 0 .. 10 : k \in 0 .. m - 1 BY <1>2
<1> QED BY <1>1, <1>2, <1>4, <1>5

(* The values a field of eleven bits can have.                              *)
Ticks == 0 .. 2047

(* The nearest microsecond, as a bound on eight times it.                   *)
Rounds(ticks) ==
  /\ ticks \in 0 .. 2047
  /\ 8 * TicksToUs(ticks) - (8 * 1500 + 5 * (ticks - 992)) \in -3 .. 4

(* ticksToUs rounds to the nearest microsecond, on both sides of the        *)
(* middle.                                                                  *)
LEMMA TicksToUsRounds == \A ticks \in Ticks : Rounds(ticks)
BY DEF TicksToUs, Rounds, Ticks

(* A byte is a natural number below 256.                                    *)
LEMMA ByteIsNat == \A b \in Bytes : b \in Nat /\ b <= 255
BY DEF Bytes

(* Three exponents further on a power is eight times itself, eight further  *)
(* on 256 times.                                                            *)
LEMMA PowUp ==
  ASSUME NEW k \in 0 .. 10
  PROVE  /\ \A e \in Nat : e = k + 3 => 2^e = 8 * 2^k
         /\ \A e \in Nat : e = k + 8 => 2^e = 256 * 2^k
<1> DEFINE f(i) == 2^i
<1>1. \A j \in 0 .. 17 : f(j + 1) = 2 * f(j) /\ f(j) \in Nat
  <2> TAKE j \in 0 .. 17
  <2>1. j \in 0 .. 18 /\ j < 18 OBVIOUS
  <2> QED BY <2>1, Powers, DivPow
<1> HIDE DEF f
<1>2. f(k + 1) = 2 * f(k) /\ f(k) \in Nat BY <1>1
<1>3. f(k + 2) = 4 * f(k) BY <1>1, <1>2
<1>4. f(k + 3) = 8 * f(k) BY <1>1, <1>2, <1>3
<1>5. f(k + 4) = 16 * f(k) BY <1>1, <1>2, <1>4
<1>6. f(k + 5) = 32 * f(k) BY <1>1, <1>2, <1>5
<1>7. f(k + 6) = 64 * f(k) BY <1>1, <1>2, <1>6
<1>8. f(k + 7) = 128 * f(k) BY <1>1, <1>2, <1>7
<1>9. f(k + 8) = 256 * f(k) BY <1>1, <1>2, <1>8
<1> QED BY <1>4, <1>9 DEF f

(* What the unpacker holds between two bytes: the bits of the payload that  *)
(* follow the fields it has made, and no others.                            *)
BitOf(p, j) == Bit(p[(j \div 8) + 1], j % 8)

(* acc holds the given number of bits of p, from the bit first on.          *)
Held(p, acc, bits, first) ==
  /\ acc \in Nat /\ acc < 2^bits
  /\ \A j \in 0 .. bits - 1 : Bit(acc, j) = BitOf(p, first + j)

(* ticks is the k-th slice of eleven bits.                                  *)
IsSlice(p, ticks, k) == \A j \in 0 .. 10 : Bit(ticks, j) = BitOf(p, 11 * (k - 1) + j)

(* So is every field made so far.                                           *)
Slices(p, out) == \A k \in 1 .. Len(out) : IsSlice(p, out[k], k)

(* The parts of the invariant, for the values the variables have.           *)
Consistent(p, i, acc, bits, out) ==
  /\ 8 * i = 11 * Len(out) + bits
  /\ Held(p, acc, bits, 11 * Len(out)) /\ Slices(p, out)

(* The inductive invariant of the unpacker.                                 *)
ChannelInv ==
  /\ payload \in [1 .. 22 -> Bytes] /\ taken \in 0 .. 22
  /\ \E acc \in Nat, bits \in 0 .. 10, out \in Seq(Ticks) :
       /\ unpacker = [acc |-> acc, bits |-> bits, out |-> out]
       /\ Consistent(payload, taken, acc, bits, out)

(* A byte is shifted in above what is held.                                 *)
LEMMA ShiftedIs ==
  ASSUME NEW acc, NEW bits, NEW out, NEW b
  PROVE  Shifted([acc |-> acc, bits |-> bits, out |-> out], b)
           = [acc |-> acc + b * 2^bits, bits |-> bits + 8, out |-> out]
<1> DEFINE u == [acc |-> acc, bits |-> bits, out |-> out]
<1>1. u.acc = acc /\ u.bits = bits /\ u.out = out OBVIOUS
<1>2. Shifted(u, b) = [u EXCEPT !.acc = u.acc + b * 2^u.bits, !.bits = u.bits + 8] BY DEF Shifted
<1>3. Shifted(u, b) = [u EXCEPT !.acc = acc + b * 2^bits, !.bits = bits + 8] BY <1>1, <1>2
<1> DEFINE x == acc + b * 2^bits
           y == bits + 8
<1>4. PICK r : r = [u EXCEPT !.acc = x, !.bits = y] OBVIOUS
<1>5. r = [acc |-> x, bits |-> y, out |-> out]
  <2> HIDE DEF x, y
  <2> QED BY <1>4
<1> QED BY <1>3, <1>4, <1>5

(* A byte goes on top of what is held.                                       *)
LEMMA ShiftedHolds ==
  ASSUME NEW p \in [1 .. 22 -> Bytes],
         NEW acc \in Nat, NEW bits \in 0 .. 10, NEW first \in Nat, NEW i \in 0 .. 21,
         Held(p, acc, bits, first), 8 * i = first + bits,
         NEW v \in Nat, v = acc + p[i + 1] * 2^bits
  PROVE  Held(p, v, bits + 8, first)
<1> DEFINE b == p[i + 1]
<1>1. b \in Bytes /\ v = acc + b * 2^bits
  <2>1. i + 1 \in 1 .. 22 OBVIOUS
  <2> QED BY <2>1
<1> HIDE DEF b
<1>0. b \in Nat /\ b <= 255 BY <1>1, ByteIsNat
<1>2. acc < 2^bits /\ \A j \in 0 .. bits - 1 : Bit(acc, j) = BitOf(p, first + j) BY DEF Held
<1>3. v < 2^(bits + 8)
  <2> DEFINE q == 2^bits
  <2>1. 2^(bits + 8) = 256 * q
    <3>1. PICK e \in Nat : e = bits + 8 OBVIOUS
    <3>2. 2^e = 256 * 2^bits BY <3>1, PowUp, ZenonT(60)
    <3> QED BY <3>1, <3>2
  <2>0. q \in Nat
    <3>1. bits \in 0 .. 18 OBVIOUS
    <3> QED BY <3>1, PowNat
  <2>2. v = acc + b * q /\ acc < q BY <1>1, <1>2
  <2> HIDE DEF q
  <2>3. b * q <= 255 * q BY <1>0, <2>0
  <2> QED BY <1>0, <2>0, <2>1, <2>2, <2>3
<1>4. /\ \A j \in 0 .. bits - 1 : Bit(v, j) = Bit(acc, j)
      /\ \A j \in 0 .. 7, k \in Nat : k = bits + j => Bit(v, k) = Bit(b, j)
  <2>1. bits \in 0 .. 11 OBVIOUS
  <2>2. OnTop(v, acc, bits, b) BY <1>1, <1>2 DEF OnTop
  <2>3. b \in Nat BY <1>0
  <2>4. Stacked(v, acc, bits, b) BY <2>1, <2>2, <2>3, Topped, Zenon
  <2> QED BY <2>4 DEF Stacked
<1>5. ASSUME NEW j \in 0 .. bits + 7 PROVE Bit(v, j) = BitOf(p, first + j)
  <2>1. CASE j < bits BY <1>2, <1>4, <2>1
  <2>2. CASE j >= bits
    <3> DEFINE e == j - bits
    <3>1. e \in 0 .. 7 /\ j = bits + e /\ first + j = 8 * i + e BY <2>2
    <3>2. (8 * i + e) \div 8 = i /\ (8 * i + e) % 8 = e BY <3>1
    <3>3. Bit(v, j) = Bit(b, e) BY <1>4, <3>1
    <3>4. BitOf(p, first + j) = Bit(b, e) BY <3>1, <3>2 DEF BitOf, b
    <3> QED BY <3>3, <3>4
  <2> QED BY <2>1, <2>2
<1>6. bits + 8 - 1 = bits + 7 OBVIOUS
<1> QED BY <1>3, <1>5, <1>6 DEF Held

(* A field comes off at the bottom.                                          *)
IsField(p, t, first) ==
  t \in Ticks /\ \A j \in 0 .. 10 : Bit(t, j) = BitOf(p, first + j)

(* It is the next eleven bits, and what is left holds the bits after them.  *)
LEMMA FieldTaken ==
  ASSUME NEW p, NEW v \in Nat, NEW w \in 11 .. 18, NEW first \in Nat, Held(p, v, w, first),
         NEW k \in 0 .. 7, w = k + 11, NEW next \in Nat, next = first + 11
  PROVE  IsField(p, Field(v), first) /\ Rest(v) \in Nat /\ Held(p, Rest(v), k, next)
<1>1. w = (k + 3) + 8 /\ k + 3 \in 0 .. 10 OBVIOUS
<1>2. v < 2^w /\ \A j \in 0 .. w - 1 : Bit(v, j) = BitOf(p, first + j) BY DEF Held
<1>3. Field(v) \in Ticks /\ Rest(v) \in Nat BY FieldBits DEF Ticks
<1>4. Rest(v) < 2^k
  <2>1. 2^w = 2048 * 2^k /\ 2^k \in Nat
    <3>1. PICK e \in 0 .. 10 : e = k + 3 /\ w = e + 8 BY <1>1
    <3>2. k \in 0 .. 10 /\ k \in 0 .. 18 OBVIOUS
    <3>6. e \in Nat /\ w \in Nat OBVIOUS
    <3>7. e = k + 3 BY <3>1
    <3>8. \A x \in Nat : x = k + 3 => 2^x = 8 * 2^k BY <3>2, PowUp, ZenonT(60)
    <3>3. 2^e = 8 * 2^k BY <3>6, <3>7, <3>8
    <3>4. 2^w = 256 * 2^e BY <3>1, <3>6, PowUp
    <3>5. 2^k \in Nat BY <3>2, PowNat
    <3> QED BY <3>3, <3>4, <3>5
  <2> DEFINE q == 2^k
  <2>2. v < 2048 * q BY <1>2, <2>1
  <2>3. q \in Nat BY <2>1
  <2> HIDE DEF q
  <2>4. Rest(v) < q BY <2>2, <2>3 DEF Rest
  <2> QED BY <2>4 DEF q
<1>5. ASSUME NEW j \in 0 .. k - 1 PROVE Bit(Rest(v), j) = BitOf(p, next + j)
  <2>1. j \in 0 .. 7 /\ 11 + j \in 0 .. w - 1 /\ next + j = first + (11 + j) OBVIOUS
  <2>2. PICK e \in Nat : e = 11 + j OBVIOUS
  <2>3. Bit(Rest(v), j) = Bit(v, e) BY <2>1, <2>2, FieldBits, SMTT(30)
  <2>4. Bit(v, e) = BitOf(p, first + e) BY <1>2, <2>1, <2>2
  <2> QED BY <2>1, <2>2, <2>3, <2>4
<1>6. \A j \in 0 .. 10 : Bit(Field(v), j) = BitOf(p, first + j)
  <2>1. \A j \in 0 .. 10 : j \in 0 .. w - 1 OBVIOUS
  <2>2. \A j \in 0 .. 10 : Bit(Field(v), j) = Bit(v, j) BY FieldBits
  <2>3. \A j \in 0 .. 10 : Bit(v, j) = BitOf(p, first + j) BY <1>2, <2>1
  <2> QED BY <2>2, <2>3
<1>7. Held(p, Rest(v), k, next) BY <1>3, <1>4, <1>5 DEF Held
<1> QED BY <1>3, <1>6, <1>7 DEF IsField

(* The first bit that no field has.                                         *)
NextBit(out) == 11 * Len(out)

(* A new slice after the others.                                            *)
LEMMA SlicesAppended ==
  ASSUME NEW p, NEW out \in Seq(Ticks), Slices(p, out),
         NEW t, IsField(p, t, NextBit(out))
  PROVE  /\ Slices(p, Append(out, t)) /\ Append(out, t) \in Seq(Ticks)
         /\ Len(Append(out, t)) = Len(out) + 1
<1> DEFINE o == Append(out, t)
           n == Len(out)
<1>0. t \in Ticks BY DEF IsField
<1>1. o \in Seq(Ticks) /\ Len(o) = n + 1 /\ n \in Nat /\ o[n + 1] = t
      /\ \A k \in 1 .. n : o[k] = out[k]
  <2>1. Append(out, t) \in Seq(Ticks) /\ Len(Append(out, t)) = Len(out) + 1
    BY <1>0
  <2>2. Append(out, t)[Len(out) + 1] = t /\ \A k \in 1 .. Len(out) : Append(out, t)[k] = out[k]
    BY <1>0
  <2> QED BY <2>1, <2>2
<1>2. \A k \in 1 .. n : IsSlice(p, out[k], k) BY DEF Slices
<1>3. IsSlice(p, t, n + 1)
  <2>1. PICK first \in Nat : first = NextBit(out) BY <1>1 DEF NextBit
  <2>2. 11 * ((n + 1) - 1) = first BY <1>1, <2>1 DEF NextBit
  <2> QED BY <2>1, <2>2 DEF IsSlice, IsField
<1> HIDE DEF o, n
<1>4. \A k \in 1 .. n + 1 : k \in 1 .. n \/ k = n + 1 BY <1>1
<1>5. \A k \in 1 .. n + 1 : IsSlice(p, o[k], k) BY <1>1, <1>2, <1>3, <1>4
<1>6. Slices(p, o) BY <1>1, <1>5 DEF Slices
<1> QED BY <1>1, <1>6 DEF o, n

(* What ChannelsAreSlices says of one channel.                              *)
AsPromised(ticks, k) ==
  Rounds(ticks) /\ \A j \in 0 .. 10 : Bit(ticks, j) = PayloadBit(11 * (k - 1) + j)

(* It follows from the slices and the rounding.                             *)
LEMMA SlicesRead ==
  ASSUME NEW out \in Seq(Ticks), Slices(payload, out)
  PROVE  \A k \in 1 .. Len(out) : AsPromised(out[k], k)
<1> TAKE k \in 1 .. Len(out)
<1>1. out[k] \in Ticks OBVIOUS
<1>2. IsSlice(payload, out[k], k) BY DEF Slices
<1>3. \A j : BitOf(payload, j) = PayloadBit(j) BY DEF BitOf, PayloadBit
<1>4. \A j \in 0 .. 10 : Bit(out[k], j) = PayloadBit(11 * (k - 1) + j) BY <1>2, <1>3 DEF IsSlice
<1>5. Rounds(out[k]) BY <1>1, TicksToUsRounds, Zenon
<1> QED BY <1>4, <1>5 DEF AsPromised

(* unpackChannels and ticksToUs: the channels are the payload's 11-bit       *)
(* slices and the microseconds the nearest, whatever the payload.            *)
THEOREM ChannelsTheorem == ChannelSpec => []ChannelsAreSlices
<1>1. Payloads \subseteq [1 .. 22 -> Bytes] BY FramingAssumption
<1>2. ASSUME payload \in Payloads, taken = 0, unpacker = FreshUnpacker PROVE ChannelInv
  <2>1. unpacker = [acc |-> 0, bits |-> 0, out |-> <<>>] BY <1>2 DEF FreshUnpacker
  <2>2. 2^0 = 1 OBVIOUS
  <2>3. Held(payload, 0, 0, 0) BY <2>2 DEF Held
  <2>4. Consistent(payload, taken, 0, 0, <<>>) BY <1>2, <2>3 DEF Consistent, Slices
  <2>5. 0 \in 0 .. 10 /\ 0 \in Nat /\ <<>> \in Seq(Ticks) /\ taken \in 0 .. 22
        /\ payload \in [1 .. 22 -> Bytes]
    BY <1>1, <1>2
  <2> QED BY <2>1, <2>4, <2>5 DEF ChannelInv
<1>3. ASSUME ChannelInv, TakeByte PROVE ChannelInv'
  <2>1. PICK acc \in Nat, bits \in 0 .. 10, out \in Seq(Ticks),
            n \in Nat, first \in Nat, i \in 0 .. 21 :
          /\ unpacker = [acc |-> acc, bits |-> bits, out |-> out]
          /\ n = Len(out) /\ first = 11 * n /\ 8 * i = first + bits /\ taken = i
          /\ Held(payload, acc, bits, first) /\ Slices(payload, out)
    <3>1. PICK acc \in Nat, bits \in 0 .. 10, out \in Seq(Ticks) :
            /\ unpacker = [acc |-> acc, bits |-> bits, out |-> out]
            /\ Consistent(payload, taken, acc, bits, out)
      BY <1>3 DEF ChannelInv
    <3>2. PICK i \in 0 .. 21 : taken = i BY <1>3 DEF ChannelInv, TakeByte
    <3>3. PICK n \in Nat, first \in Nat : n = Len(out) /\ first = 11 * n OBVIOUS
    <3> QED BY <3>1, <3>2, <3>3 DEF Consistent
  <2>2. /\ payload \in [1 .. 22 -> Bytes] /\ payload[i + 1] \in Bytes /\ payload[i + 1] \in Nat
        /\ payload' = payload /\ taken' = i + 1 /\ taken' \in 0 .. 22
        /\ unpacker' = NextField(Shifted(unpacker, payload[i + 1]))
    <3>1. payload \in [1 .. 22 -> Bytes] BY <1>3 DEF ChannelInv
    <3>2. payload[i + 1] \in Bytes
      <4>1. i + 1 \in 1 .. 22 OBVIOUS
      <4> QED BY <3>1, <4>1
    <3>3. payload[i + 1] \in Nat BY <3>2, ByteIsNat
    <3>4. taken = i /\ i + 1 \in 0 .. 22 BY <2>1
    <3> QED BY <1>3, <3>1, <3>2, <3>3, <3>4 DEF TakeByte
  <2>3. PICK v \in Nat : v = acc + payload[i + 1] * 2^bits
    <3> DEFINE q == 2^bits
    <3>1. bits \in 0 .. 18 OBVIOUS
    <3>2. q \in Nat BY <3>1, PowNat
    <3> HIDE DEF q
    <3>3. payload[i + 1] \in Nat BY <2>2
    <3>4. acc + payload[i + 1] * q \in Nat BY <3>2, <3>3
    <3> QED BY <3>4 DEF q
  <2>4. PICK w \in 8 .. 18 : w = bits + 8 OBVIOUS
  <2>5. unpacker' = NextField([acc |-> v, bits |-> w, out |-> out])
    <3>1. Shifted(unpacker, payload[i + 1]) = [acc |-> v, bits |-> w, out |-> out]
      BY <2>1, <2>3, <2>4, ShiftedIs, SMTT(30)
    <3> QED BY <2>2, <3>1
  <2>6. Held(payload, v, w, first) BY <2>1, <2>2, <2>3, <2>4, ShiftedHolds
  <2>7. CASE w < 11
    <3>1. unpacker' = [acc |-> v, bits |-> w, out |-> out] BY <2>5, <2>7, SMTT(30) DEF NextField
    <3>2. w \in 0 .. 10 /\ 8 * (i + 1) = first + w
      <4>1. 8 * i = first + bits /\ first = 11 * n BY <2>1
      <4> QED BY <2>4, <2>7, <4>1
    <3>3. Consistent(payload, i + 1, v, w, out) BY <2>1, <2>6, <3>2 DEF Consistent
    <3> QED BY <2>2, <3>1, <3>2, <3>3 DEF ChannelInv
  <2>8. CASE w >= 11
    <3>1. n < 16 /\ w \in 11 .. 18
      <4>1. 8 * i = first + bits /\ first = 11 * n BY <2>1
      <4> QED BY <2>4, <2>8, <4>1
    <3>2. unpacker' = [acc |-> Rest(v), bits |-> w - 11, out |-> Append(out, Field(v))]
      BY <2>1, <2>5, <2>8, <3>1 DEF NextField, Field, Rest
    <3>3. PICK k \in 0 .. 7 : w = k + 11
      <4>1. w - 11 \in 0 .. 7 /\ w = (w - 11) + 11 BY <3>1
      <4> QED BY <4>1
    <3>4. PICK next \in Nat : next = first + 11 OBVIOUS
    <3>5. IsField(payload, Field(v), first) /\ Rest(v) \in Nat /\ Held(payload, Rest(v), k, next)
      <4>1. w \in 11 .. 18 BY <3>1
      <4> QED BY <2>6, <3>3, <3>4, <4>1, FieldTaken, Zenon
    <3>6. PICK o \in Seq(Ticks) : o = Append(out, Field(v)) /\ Slices(payload, o) /\ Len(o) = n + 1
      <4>1. Slices(payload, out) /\ first = 11 * Len(out) /\ n = Len(out) BY <2>1
      <4>3. IsField(payload, Field(v), NextBit(out)) BY <3>5, <4>1 DEF NextBit
      <4>2. /\ Slices(payload, Append(out, Field(v))) /\ Append(out, Field(v)) \in Seq(Ticks)
            /\ Len(Append(out, Field(v))) = Len(out) + 1
        BY <4>1, <4>3, SlicesAppended
      <4> QED BY <4>1, <4>2
    <3>7. w - 11 = k BY <3>3
    <3>9. k \in 0 .. 10 /\ 8 * (i + 1) = 11 * (n + 1) + k /\ next = 11 * (n + 1)
      <4>1. 8 * i = first + bits /\ first = 11 * n BY <2>1
      <4> QED BY <2>4, <3>3, <3>4, <4>1
    <3>10. Consistent(payload, i + 1, Rest(v), k, o) BY <3>5, <3>6, <3>9 DEF Consistent
    <3> QED BY <2>2, <3>2, <3>5, <3>6, <3>7, <3>9, <3>10 DEF ChannelInv
  <2> QED BY <2>7, <2>8
<1>4. ASSUME ChannelInv, NextPayload PROVE ChannelInv'
  <2>1. payload' \in Payloads /\ taken' = 0 /\ unpacker' = FreshUnpacker BY <1>4 DEF NextPayload
  <2>2. unpacker' = [acc |-> 0, bits |-> 0, out |-> <<>>] BY <2>1 DEF FreshUnpacker
  <2>3. 2^0 = 1 OBVIOUS
  <2>4. Held(payload, 0, 0, 0)' BY <2>3 DEF Held
  <2>5. Consistent(payload, 0, 0, 0, <<>>)' BY <2>4 DEF Consistent, Slices
  <2>6. 0 \in 0 .. 10 /\ 0 \in Nat /\ <<>> \in Seq(Ticks) /\ taken' \in 0 .. 22
        /\ payload' \in [1 .. 22 -> Bytes]
    BY <1>1, <2>1
  <2> QED BY <2>1, <2>2, <2>5, <2>6 DEF ChannelInv
<1>5. ASSUME ChannelInv, UNCHANGED channelVars PROVE ChannelInv'
  BY <1>5 DEF ChannelInv, channelVars
<1>6. ASSUME ChannelInv PROVE ChannelsAreSlices
  <2>1. PICK out \in Seq(Ticks), bits \in 0 .. 10 :
          /\ unpacker.out = out /\ 8 * taken = 11 * Len(out) + bits /\ Slices(payload, out)
          /\ taken \in 0 .. 22
    <3>1. PICK acc \in Nat, bits \in 0 .. 10, out \in Seq(Ticks) :
            /\ unpacker = [acc |-> acc, bits |-> bits, out |-> out]
            /\ Consistent(payload, taken, acc, bits, out)
      BY <1>6 DEF ChannelInv
    <3>2. taken \in 0 .. 22 BY <1>6 DEF ChannelInv
    <3> QED BY <3>1, <3>2 DEF Consistent
  <2>2. taken = 22 => Len(out) = 16
    <3>1. PICK n \in Nat : n = Len(out) OBVIOUS
    <3>2. taken = 22 => 176 = 11 * n + bits BY <2>1, <3>1
    <3>3. 176 = 11 * n + bits => n = 16 OBVIOUS
    <3> QED BY <3>1, <3>2, <3>3
  <2>3. \A k \in 1 .. Len(unpacker.out) : AsPromised(unpacker.out[k], k)
    <3>1. Slices(payload, out) /\ unpacker.out = out BY <2>1
    <3>2. \A k \in 1 .. Len(out) : AsPromised(out[k], k) BY <3>1, SlicesRead
    <3> QED BY <3>1, <3>2
  <2>4. taken = 22 => Len(unpacker.out) = 16 BY <2>1, <2>2
  <2> QED BY <2>3, <2>4 DEF ChannelsAreSlices, AsPromised, Rounds
<1> QED BY <1>2, <1>3, <1>4, <1>5, <1>6, PTL DEF ChannelSpec, ChannelInit, ChannelNext
=============================================================================
