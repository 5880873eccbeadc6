-------------------------- MODULE AlertPoller_proofs --------------------------
(* One tick at a time, a stop that stops, and a chase that goes on, for any   *)
(* alerts, events, sizes and bounds.                                          *)
EXTENDS AlertPoller, TLAPS

Pollers ==
    [timer : BOOLEAN, stopped : BOOLEAN, running : BOOLEAN, followUps : Nat,
     latest : BOOLEAN, immediate : Nat, chasing : {NULL} \cup Nat,
     stop : {"no", "waiting", "returned"}, failed : BOOLEAN]

TickFields ==
    {"pc", "queue", "skipped", "age", "retry", "reached", "abandoned", "full"}

SenderFields == {"pc", "id", "left", "got", "view"}

ShapeInv ==
    /\ poller \in Pollers
    /\ DOMAIN ticks = Ticks /\ \A t \in Ticks : DOMAIN ticks[t] = TickFields
    /\ DOMAIN senders = Workers \cup Callers
    /\ \A s \in Workers \cup Callers : DOMAIN senders[s] = SenderFields

(* `running` guards the ticks: there is one at most.                          *)
OneTick == \A t, u \in Ticks : t # u => ticks[t].pc = "idle" \/ ticks[u].pc = "idle"

RunningInv == OneTick /\ (~poller.running => \A t \in Ticks : ticks[t].pc = "idle")

(* A worker is up only while its tick drains.                                 *)
WorkInv == \A w \in Workers : ticks[w[1]].pc # "drain" => senders[w].pc = "off"

StopInv ==
    /\ poller.stop # "no" => ~poller.timer
    /\ poller.stop = "returned" => \A t \in Ticks : ~Active(t)

ChaseInv == TheChaseNeverStalls /\ (poller.latest => poller.followUps > 0)

IInv == ShapeInv /\ RunningInv /\ WorkInv /\ StopInv /\ ChaseInv

-----------------------------------------------------------------------------
LEMMA PlainShapes ==
    /\ DOMAIN IdleTick = TickFields /\ IdleTick.pc = "idle"
    /\ DOMAIN Off = SenderFields /\ Off.pc = "off"
    /\ \A w \in Workers : w[1] \in Ticks
    /\ Workers \cap Callers = {}
<1>1. \A w \in Workers : w[1] \in Ticks
  BY DEF Workers
<1>2. \A r \in Tests : Caller(r)[1] = 0
  BY DEF Caller
<1>. QED BY <1>1, <1>2 DEF IdleTick, TickFields, Off, SenderFields, Ticks, Callers

LEMMA InitHolds == Init => IInv
<1>. SUFFICES ASSUME Init PROVE IInv
  OBVIOUS
<1>1. /\ poller \in Pollers /\ ~poller.running /\ ~poller.timer /\ ~poller.latest
      /\ poller.stop = "no"
  BY DEF Init, Pollers
<1>2. /\ DOMAIN ticks = Ticks /\ \A t \in Ticks : ticks[t] = IdleTick
      /\ DOMAIN senders = Workers \cup Callers
      /\ \A s \in Workers \cup Callers : senders[s] = Off
  BY DEF Init
<1>3. ShapeInv /\ RunningInv /\ WorkInv
  BY <1>1, <1>2, PlainShapes DEF ShapeInv, RunningInv, OneTick, WorkInv
<1>4. StopInv /\ ChaseInv
  BY <1>1 DEF StopInv, ChaseInv, TheChaseNeverStalls
<1>. QED BY <1>3, <1>4 DEF IInv

-----------------------------------------------------------------------------
(* A callback that may run a tick leaves it running, or there is no timer.    *)
LEMMA RanStep ==
    ASSUME IInv, NEW p \in Pollers, Ran(p), UNCHANGED senders,
           p.running = poller.running,
           p.stop # "no" => ~p.timer,
           p.stop = "returned" => poller.stop = "returned",
           p.latest => p.followUps > 0
    PROVE  IInv'
<1>. USE DEF IInv
<1>1. CASE MayRun(p)
  <2>1. PICK t \in Ticks : ticks' = [ticks EXCEPT ![t] = [IdleTick EXCEPT !.pc = "scan"]]
    BY <1>1 DEF Ran
  <2>2. poller' = [p EXCEPT !.running = TRUE]
    BY <1>1 DEF Ran
  <2>3. p.timer /\ ~p.running
    BY <1>1 DEF MayRun
  <2>4. poller' \in Pollers
    BY <2>2 DEF Pollers
  <2>5. poller'.running
    BY <2>2, Zenon DEF Pollers
  <2>6. /\ poller'.stop = p.stop /\ poller'.timer = p.timer
        /\ poller'.latest = p.latest /\ poller'.followUps = p.followUps
    BY <2>2 DEF Pollers
  <2>7. \A u \in Ticks : ticks[u].pc = "idle"
    BY <2>3 DEF RunningInv
  <2>8. /\ DOMAIN [IdleTick EXCEPT !.pc = "scan"] = TickFields
        /\ [IdleTick EXCEPT !.pc = "scan"].pc = "scan"
    BY PlainShapes DEF TickFields
  <2>9. ticks'[t].pc = "scan" /\ \A u \in Ticks \ {t} : ticks'[u] = ticks[u]
    BY <2>1, <2>8 DEF ShapeInv
  <2>10. ShapeInv'
    BY <2>1, <2>4, <2>8 DEF ShapeInv
  <2>11. RunningInv'
    BY <2>5, <2>7, <2>9 DEF RunningInv, OneTick
  <2>12. \A w \in Workers : senders[w].pc = "off"
    BY <2>7, PlainShapes DEF WorkInv
  <2>13. WorkInv' /\ StopInv'
    BY <2>3, <2>6, <2>12 DEF WorkInv, StopInv
  <2>14. ChaseInv'
    BY <2>5, <2>6 DEF ChaseInv, TheChaseNeverStalls
  <2>. QED BY <2>10, <2>11, <2>13, <2>14
<1>2. CASE ~MayRun(p)
  <2>1. poller' = p /\ ticks' = ticks
    BY <1>2 DEF Ran
  <2>2. ~p.timer \/ p.running
    BY <1>2 DEF MayRun
  <2>3. ShapeInv' /\ WorkInv'
    BY <2>1 DEF ShapeInv, WorkInv
  <2>4. RunningInv'
    BY <2>1 DEF RunningInv, OneTick
  <2>5. StopInv'
    BY <2>1 DEF StopInv, Active
  <2>6. ChaseInv'
    BY <2>1, <2>2 DEF ChaseInv, TheChaseNeverStalls
  <2>. QED BY <2>3, <2>4, <2>5, <2>6
<1>. QED BY <1>1, <1>2

LEMMA TimersKeepIInv ==
    ASSUME IInv, Start \/ IntervalFires \/ FollowUpFires \/ ImmediateFires PROVE IInv'
<1>. USE DEF IInv
<1>0. poller \in Pollers
  BY DEF ShapeInv
<1>1. CASE Start
  <2>. DEFINE p == [poller EXCEPT !.timer = TRUE, !.stopped = FALSE, !.stop = "no"]
  <2>1. p \in Pollers
    BY <1>0 DEF Pollers
  <2>2. /\ p.running = poller.running /\ p.stop = "no" /\ p.latest = poller.latest
        /\ p.followUps = poller.followUps
    BY <1>0 DEF Pollers
  <2>3. Ran(p) /\ UNCHANGED senders
    BY <1>1 DEF Start
  <2>. HIDE DEF p
  <2>. QED BY <2>1, <2>2, <2>3, RanStep DEF ChaseInv
<1>2. CASE IntervalFires
  BY <1>0, <1>2, RanStep DEF IntervalFires, StopInv, ChaseInv
<1>3. CASE FollowUpFires
  <2>. DEFINE n == poller.followUps - 1
  <2>. DEFINE l == poller.latest /\ poller.followUps > 1
  <2>. DEFINE p == [poller EXCEPT !.followUps = n, !.latest = l]
  <2>0. n \in Nat /\ (l => n > 0) /\ l \in BOOLEAN
    BY <1>0, <1>3 DEF FollowUpFires, Pollers
  <2>3. Ran(p) /\ UNCHANGED senders
    BY <1>3 DEF FollowUpFires
  <2>. HIDE DEF n, l
  <2>1. p \in Pollers
    BY <1>0, <2>0 DEF Pollers
  <2>2. /\ p.running = poller.running /\ p.stop = poller.stop /\ p.timer = poller.timer
        /\ p.followUps = n
    BY <1>0 DEF Pollers
  <2>4. p.latest = l
    BY <1>0, Zenon DEF Pollers
  <2>. HIDE DEF p
  <2>. QED BY <2>0, <2>1, <2>2, <2>3, <2>4, RanStep DEF StopInv
<1>4. CASE ImmediateFires
  <2>. DEFINE n == poller.immediate - 1
  <2>. DEFINE p == [poller EXCEPT !.immediate = n]
  <2>0. n \in Nat
    BY <1>0, <1>4 DEF ImmediateFires, Pollers
  <2>3. Ran(p) /\ UNCHANGED senders
    BY <1>4 DEF ImmediateFires
  <2>. HIDE DEF n
  <2>1. p \in Pollers
    BY <1>0, <2>0 DEF Pollers
  <2>2. /\ p.running = poller.running /\ p.stop = poller.stop /\ p.timer = poller.timer
        /\ p.followUps = poller.followUps /\ p.latest = poller.latest
    BY <1>0 DEF Pollers
  <2>. HIDE DEF p
  <2>. QED BY <2>1, <2>2, <2>3, RanStep DEF StopInv, ChaseInv
<1>. QED BY <1>1, <1>2, <1>3, <1>4

LEMMA StopSteps ==
    ASSUME IInv, Stop \/ StopReturns PROVE IInv'
<1>. USE DEF IInv
<1>0. poller \in Pollers /\ UNCHANGED <<ticks, senders>>
  BY DEF ShapeInv, Stop, StopReturns
<1>1. CASE Stop
  <2>. DEFINE n == IF poller.latest THEN poller.followUps - 1 ELSE poller.followUps
  <2>1. n \in Nat
    BY <1>0 DEF ChaseInv, Pollers
  <2>2. poller' = [poller EXCEPT !.stopped = TRUE, !.timer = FALSE, !.chasing = NULL,
                                 !.followUps = n, !.latest = FALSE, !.stop = "waiting"]
    BY <1>1 DEF Stop, Stopped
  <2>. HIDE DEF n
  <2>3. poller' \in Pollers
    BY <1>0, <2>1, <2>2 DEF Pollers
  <2>4. poller'.timer = FALSE /\ poller'.latest = FALSE
    BY <1>0, <2>2, Zenon DEF Pollers
  <2>5. poller'.running = poller.running /\ poller'.stop = "waiting"
    BY <1>0, <2>2 DEF Pollers
  <2>. QED BY <1>0, <2>3, <2>4, <2>5 DEF ShapeInv, RunningInv, OneTick, WorkInv, StopInv, ChaseInv,
              TheChaseNeverStalls
<1>2. CASE StopReturns
  <2>1. /\ poller' = [poller EXCEPT !.stop = "returned"] /\ poller.stop = "waiting"
        /\ poller.running => \A t \in Ticks : ticks[t].pc \in {"idle", "ended", "failed"}
    BY <1>2 DEF StopReturns
  <2>2. /\ poller' \in Pollers /\ poller'.stop = "returned"
        /\ \A f \in {"running", "timer", "latest", "followUps", "immediate", "chasing", "failed"} :
             poller'[f] = poller[f]
    BY <1>0, <2>1 DEF Pollers
  <2>3. \A t \in Ticks : ticks[t].pc \in {"idle", "ended", "failed"}
    BY <2>1 DEF RunningInv
  <2>4. poller'.running = poller.running /\ poller'.timer = poller.timer
        /\ poller'.latest = poller.latest /\ poller'.followUps = poller.followUps
        /\ poller'.immediate = poller.immediate /\ poller'.chasing = poller.chasing
        /\ poller'.failed = poller.failed
    BY <2>2
  <2>5. StopInv'
    BY <1>0, <2>1, <2>2, <2>3, <2>4 DEF StopInv, Active
  <2>6. ShapeInv' /\ WorkInv'
    BY <1>0, <2>2 DEF ShapeInv, WorkInv
  <2>. QED BY <1>0, <2>4, <2>5, <2>6 DEF RunningInv, OneTick, ChaseInv, TheChaseNeverStalls
<1>. QED BY <1>1, <1>2

-----------------------------------------------------------------------------
(* A tick goes on, and no other does: it is under way, so nothing has         *)
(* returned from a stop.                                                      *)
LEMMA TickMoves ==
    ASSUME IInv, ShapeInv', NEW t \in Ticks, UNCHANGED poller, Active(t),
           \A u \in Ticks \ {t} : ticks'[u] = ticks[u],
           \A w \in Workers : w[1] # t => senders'[w] = senders[w],
           ticks'[t].pc # "drain" => \A w \in Workers : w[1] = t => senders'[w].pc = "off"
    PROVE  IInv'
<1>. USE DEF IInv
<1>1. ticks[t].pc # "idle"
  BY DEF Active
<1>2. RunningInv'
  BY <1>1 DEF RunningInv, OneTick
<1>3. WorkInv'
  BY PlainShapes DEF WorkInv
<1>4. StopInv' /\ ChaseInv'
  BY DEF StopInv, ChaseInv, TheChaseNeverStalls
<1>. QED BY <1>2, <1>3, <1>4

LEMMA TickSteps ==
    ASSUME IInv, NEW t \in Ticks, Scan(t) \/ ScanFails(t) \/ Drained(t) \/ RetrySkipped(t)
    PROVE  IInv'
<1>. USE DEF IInv
<1>0. /\ UNCHANGED poller /\ Active(t) /\ poller \in Pollers
      /\ DOMAIN ticks = Ticks /\ DOMAIN ticks[t] = TickFields
      /\ DOMAIN senders = Workers \cup Callers
  BY DEF Scan, ScanFails, Drained, RetrySkipped, Active, ShapeInv
<1>1. ASSUME NEW n, senders' = [s \in DOMAIN senders |->
               IF s \in {t} \X (1 .. n) THEN [Off EXCEPT !.pc = "free"] ELSE senders[s]]
      PROVE  /\ DOMAIN senders' = Workers \cup Callers
             /\ \A s \in Workers \cup Callers : DOMAIN senders'[s] = SenderFields
             /\ \A w \in Workers : w[1] # t => senders'[w] = senders[w]
  <2>1. DOMAIN [Off EXCEPT !.pc = "free"] = SenderFields
    BY PlainShapes
  <2>. QED BY <1>0, <1>1, <2>1 DEF ShapeInv
<1>2. CASE Scan(t)
  <2>1. ticks' = [ticks EXCEPT ![t].pc = "drain", ![t].queue = Scanned,
                   ![t].full = Len(Scanned) = MAX_ALERTS_PER_TICK]
    BY <1>2 DEF Scan
  <2>2. ticks'[t].pc = "drain" /\ DOMAIN ticks'[t] = TickFields
    BY <1>0, <2>1 DEF TickFields
  <2>3. \A u \in Ticks \ {t} : ticks'[u] = ticks[u]
    BY <1>0, <2>1
  <2>4. DOMAIN ticks' = Ticks
    BY <1>0, <2>1
  <2>5. ShapeInv' /\ \A w \in Workers : w[1] # t => senders'[w] = senders[w]
    BY <1>0, <1>1, <1>2, <2>2, <2>3, <2>4 DEF ShapeInv, Scan
  <2>. QED BY <1>0, <2>2, <2>3, <2>5, TickMoves
<1>3. CASE ScanFails(t)
  <2>1. ticks' = [ticks EXCEPT ![t].pc = "failed"] /\ UNCHANGED senders /\ ticks[t].pc = "scan"
    BY <1>3 DEF ScanFails
  <2>2. /\ ticks'[t].pc = "failed" /\ DOMAIN ticks'[t] = TickFields /\ DOMAIN ticks' = Ticks
        /\ \A u \in Ticks \ {t} : ticks'[u] = ticks[u]
    BY <1>0, <2>1 DEF TickFields
  <2>3. ShapeInv'
    BY <1>0, <2>1, <2>2 DEF ShapeInv
  <2>4. \A w \in Workers : w[1] = t => senders'[w].pc = "off"
    BY <2>1 DEF WorkInv
  <2>. QED BY <1>0, <2>1, <2>2, <2>3, <2>4, TickMoves
<1>4. CASE Drained(t)
  <2>1. PICK r : ticks' = [ticks EXCEPT ![t] = r] /\ DOMAIN r = TickFields
    <3>. DEFINE tick == [ticks[t] EXCEPT !.retry = IF @ < 0 THEN 0 ELSE @]
    <3>1. DOMAIN tick = TickFields
      BY <1>0
    <3>2. \A a : DOMAIN [tick EXCEPT !.pc = "wait"] = TickFields
              /\ DOMAIN [tick EXCEPT !.pc = "ended", !.abandoned = a] = TickFields
      BY <3>1
    <3>. QED BY <1>4, <3>2, Zenon DEF Drained
  <2>2. UNCHANGED senders /\ Workless(t)
    BY <1>4 DEF Drained
  <2>3. /\ DOMAIN ticks'[t] = TickFields /\ DOMAIN ticks' = Ticks
        /\ \A u \in Ticks \ {t} : ticks'[u] = ticks[u]
    BY <1>0, <2>1
  <2>4. ShapeInv'
    BY <1>0, <2>2, <2>3 DEF ShapeInv
  <2>5. \A w \in Workers : w[1] = t => w \in {t} \X (1 .. SEND_CONCURRENCY)
    BY DEF Workers
  <2>6. \A w \in Workers : w[1] = t => senders'[w].pc = "off"
    BY <2>2, <2>5 DEF Workless
  <2>. QED BY <1>0, <2>2, <2>3, <2>4, <2>6, TickMoves
<1>5. CASE RetrySkipped(t)
  <2>1. ticks' = [ticks EXCEPT ![t].pc = "drain", ![t].queue = ticks[t].skipped,
                   ![t].skipped = <<>>]
    BY <1>5 DEF RetrySkipped
  <2>2. ticks'[t].pc = "drain" /\ DOMAIN ticks'[t] = TickFields
    BY <1>0, <2>1 DEF TickFields
  <2>3. \A u \in Ticks \ {t} : ticks'[u] = ticks[u]
    BY <1>0, <2>1
  <2>4. DOMAIN ticks' = Ticks
    BY <1>0, <2>1
  <2>5. ShapeInv' /\ \A w \in Workers : w[1] # t => senders'[w] = senders[w]
    BY <1>0, <1>1, <1>5, <2>2, <2>3, <2>4 DEF ShapeInv, RetrySkipped
  <2>. QED BY <1>0, <2>2, <2>3, <2>5, TickMoves
<1>. QED BY <1>2, <1>3, <1>4, <1>5

(* The tick is over: it chases what it left undone, or chases no more.        *)
LEMMA SettleStep ==
    ASSUME IInv, NEW t \in Ticks, TickSettles(t) PROVE IInv'
<1>. USE DEF IInv
<1>. DEFINE p == IF ticks[t].pc = "ended" THEN FollowedUp(poller, t) ELSE poller
<1>. DEFINE f == ticks[t].pc = "failed"
<1>0. poller \in Pollers
  BY DEF ShapeInv
<1>1. /\ poller' = [p EXCEPT !.running = FALSE, !.failed = f]
      /\ ticks' = [ticks EXCEPT ![t] = IdleTick] /\ UNCHANGED senders
      /\ ticks[t].pc \in {"ended", "failed"}
  BY DEF TickSettles
<1>2. /\ p \in Pollers /\ p.stop = poller.stop /\ p.timer = poller.timer
      /\ p.latest => p.followUps > 0
      /\ ~f /\ p.chasing # NULL => p.followUps + p.immediate > 0
  <2>1. CASE f
    BY <2>1, <1>0 DEF ChaseInv
  <2>2. CASE ~f
    <3>. DEFINE since == IF poller.chasing = NULL THEN 0 ELSE poller.chasing
    <3>. DEFINE i == poller.immediate + 1
    <3>. DEFINE n == poller.followUps + 1
    <3>1. p \in {[poller EXCEPT !.chasing = NULL, !.immediate = i],
                 [poller EXCEPT !.chasing = since, !.followUps = n, !.latest = TRUE],
                 [poller EXCEPT !.chasing = NULL]}
      BY <1>1, <2>2 DEF FollowedUp
    <3>2. i \in Nat /\ n \in Nat /\ n > 0 /\ since \in Nat
      BY <1>0 DEF Pollers
    <3>. HIDE DEF p, i, n, since
    <3>3. CASE p = [poller EXCEPT !.chasing = NULL, !.immediate = i]
      BY <1>0, <3>2, <3>3 DEF Pollers, ChaseInv
    <3>4. CASE p = [poller EXCEPT !.chasing = since, !.followUps = n, !.latest = TRUE]
      <4>1. p \in Pollers
        BY <1>0, <3>2, <3>4 DEF Pollers
      <4>2. /\ p.stop = poller.stop /\ p.timer = poller.timer
            /\ p.followUps = n /\ p.immediate = poller.immediate /\ poller.immediate \in Nat
        BY <1>0, <3>4 DEF Pollers
      <4>. QED BY <3>2, <4>1, <4>2
    <3>5. CASE p = [poller EXCEPT !.chasing = NULL]
      BY <1>0, <3>5 DEF Pollers, ChaseInv
    <3>. QED BY <3>1, <3>3, <3>4, <3>5
  <2>. QED BY <2>1, <2>2
<1>. HIDE DEF p, f
<1>3. poller' \in Pollers
  <2>1. f \in BOOLEAN
    BY DEF f
  <2>. QED BY <1>1, <1>2, <2>1 DEF Pollers
<1>4. /\ poller'.stop = p.stop /\ poller'.timer = p.timer /\ poller'.latest = p.latest
      /\ poller'.followUps = p.followUps /\ poller'.immediate = p.immediate
      /\ poller'.chasing = p.chasing
  BY <1>1, <1>2 DEF Pollers
<1>5. poller'.failed = f
  BY <1>1, <1>2, Zenon DEF Pollers
<1>6. /\ DOMAIN ticks' = Ticks /\ ticks'[t] = IdleTick
      /\ \A u \in Ticks \ {t} : ticks'[u] = ticks[u] /\ ticks[u].pc = "idle"
  BY <1>1 DEF ShapeInv, RunningInv, OneTick
<1>7. ShapeInv'
  BY <1>1, <1>3, <1>6, PlainShapes DEF ShapeInv
<1>8. RunningInv'
  BY <1>6, PlainShapes DEF RunningInv, OneTick
<1>9. \A w \in Workers : senders[w].pc = "off"
  BY <1>1, <1>6, PlainShapes DEF WorkInv
<1>10. WorkInv' /\ StopInv'
  BY <1>1, <1>2, <1>4, <1>6, <1>9, PlainShapes DEF WorkInv, StopInv, Active
<1>11. ChaseInv'
  BY <1>2, <1>4, <1>5 DEF ChaseInv, TheChaseNeverStalls
<1>. QED BY <1>7, <1>8, <1>10, <1>11

-----------------------------------------------------------------------------
(* Whoever else moves, ticks keep their places and a worker that is down      *)
(* stays down.                                                                *)
LEMMA WorkMoves ==
    ASSUME IInv, ShapeInv', UNCHANGED poller,
           \A t \in Ticks : ticks'[t].pc = ticks[t].pc,
           \A w \in Workers : senders[w].pc = "off" => senders'[w].pc = "off"
    PROVE  IInv'
<1>. USE DEF IInv
<1>1. RunningInv'
  BY DEF RunningInv, OneTick
<1>2. WorkInv'
  BY PlainShapes DEF WorkInv
<1>3. StopInv' /\ ChaseInv'
  BY DEF StopInv, ChaseInv, TheChaseNeverStalls, Active
<1>. QED BY <1>1, <1>2, <1>3

LEMMA TakeNextStep ==
    ASSUME IInv, NEW w \in Workers, TakeNext(w) PROVE IInv'
<1>. USE DEF IInv
<1>0. /\ w[1] \in Ticks /\ UNCHANGED poller /\ senders[w].pc = "free"
      /\ DOMAIN ticks = Ticks /\ \A t \in Ticks : DOMAIN ticks[t] = TickFields
      /\ DOMAIN senders = Workers \cup Callers
      /\ \A s \in Workers \cup Callers : DOMAIN senders[s] = SenderFields
  BY PlainShapes DEF TakeNext, ShapeInv
<1>1. PICK q, a, k : \/ ticks' = [ticks EXCEPT ![w[1]].queue = q, ![w[1]].abandoned = a]
                     \/ ticks' = [ticks EXCEPT ![w[1]].queue = q, ![w[1]].skipped = k]
  BY Zenon DEF TakeNext
<1>2. PICK id : \/ senders' = [senders EXCEPT ![w] = Off]
                \/ senders' = [senders EXCEPT ![w].pc = "intent", ![w].id = id]
                \/ senders' = senders
  BY Zenon DEF TakeNext
<1>3. /\ DOMAIN ticks' = Ticks
      /\ \A t \in Ticks : DOMAIN ticks'[t] = TickFields /\ ticks'[t].pc = ticks[t].pc
  BY <1>0, <1>1 DEF TickFields
<1>4. /\ DOMAIN senders' = Workers \cup Callers
      /\ \A s \in Workers \cup Callers : DOMAIN senders'[s] = SenderFields
      /\ \A s \in Workers \ {w} : senders'[s] = senders[s]
  BY <1>0, <1>2, PlainShapes DEF SenderFields
<1>5. ShapeInv'
  BY <1>0, <1>3, <1>4 DEF ShapeInv
<1>. QED BY <1>0, <1>3, <1>4, <1>5, WorkMoves

(* A sender that has a row, a worker or a test call.                          *)
LEMMA SendSteps ==
    ASSUME IInv, NEW s \in Workers \cup Callers,
           BeginIntent(s) \/ RecordIntent(s) \/ Delivered(s) \/ Refused(s) \/ Threw(s)
    PROVE  IInv'
<1>. USE DEF IInv
<1>0. /\ UNCHANGED poller /\ senders[s].pc # "off"
      /\ DOMAIN ticks = Ticks /\ \A t \in Ticks : DOMAIN ticks[t] = TickFields
      /\ DOMAIN senders = Workers \cup Callers
      /\ \A q \in Workers \cup Callers : DOMAIN senders[q] = SenderFields
  BY DEF ShapeInv, BeginIntent, RecordIntent, Delivered, Refused, Threw, Sends, Holding
<1>1. ASSUME NEW outcome, Freed(s, outcome)
      PROVE  /\ DOMAIN ticks' = Ticks
             /\ \A t \in Ticks : DOMAIN ticks'[t] = TickFields /\ ticks'[t].pc = ticks[t].pc
             /\ \E pc, id, got : \/ senders' = [senders EXCEPT ![s].pc = pc, ![s].id = id]
                                 \/ senders' = [senders EXCEPT ![s].pc = pc, ![s].got = got]
  <2>1. CASE s \in Workers
    <3>1. s[1] \in Ticks
      BY <2>1, PlainShapes
    <3>2. senders' = [senders EXCEPT ![s].pc = "free", ![s].id = NULL]
      BY <1>1, <2>1 DEF Freed
    <3>3. PICK r, a : ticks' = [ticks EXCEPT ![s[1]].reached = r, ![s[1]].abandoned = a]
      BY <1>1, <2>1, Zenon DEF Freed
    <3>4. /\ DOMAIN ticks' = Ticks
          /\ \A t \in Ticks : DOMAIN ticks'[t] = TickFields /\ ticks'[t].pc = ticks[t].pc
      BY <1>0, <3>1, <3>3 DEF TickFields
    <3>. QED BY <3>2, <3>4
  <2>2. CASE s \notin Workers
    BY <1>0, <1>1, <2>2 DEF Freed
  <2>. QED BY <2>1, <2>2
<1>2. /\ DOMAIN ticks' = Ticks
      /\ \A t \in Ticks : DOMAIN ticks'[t] = TickFields /\ ticks'[t].pc = ticks[t].pc
  BY <1>0, <1>1 DEF BeginIntent, RecordIntent, Delivered, Refused, Threw
<1>3. \E pc, id, got : \/ senders' = [senders EXCEPT ![s].pc = pc]
                       \/ senders' = [senders EXCEPT ![s].pc = pc, ![s].id = id]
                       \/ senders' = [senders EXCEPT ![s].pc = pc, ![s].got = got]
  <2>1. CASE BeginIntent(s) \/ RecordIntent(s)
    BY <2>1, Zenon DEF BeginIntent, RecordIntent
  <2>2. CASE Delivered(s) \/ Refused(s) \/ Threw(s)
    <3>1. PICK outcome : Freed(s, outcome)
      BY <2>2, Zenon DEF Delivered, Refused, Threw
    <3>. QED BY <3>1, <1>1, Zenon
  <2>. QED BY <2>1, <2>2
<1>4. /\ DOMAIN senders' = Workers \cup Callers
      /\ \A q \in Workers \cup Callers : DOMAIN senders'[q] = SenderFields
      /\ \A q \in Workers \ {s} : senders'[q] = senders[q]
  BY <1>0, <1>3 DEF SenderFields
<1>5. ShapeInv'
  BY <1>0, <1>2, <1>4 DEF ShapeInv
<1>. QED BY <1>0, <1>2, <1>4, <1>5, WorkMoves

(* A test call.                                                               *)
LEMMA TestSteps ==
    ASSUME IInv, NEW r \in Tests, PostTest(r) \/ TryTest(r) \/ ViewTest(r) \/ RetireTest(r)
    PROVE  IInv'
<1>. USE DEF IInv
<1>0. /\ Caller(r) \in Callers /\ Caller(r) \notin Workers
      /\ UNCHANGED <<poller, ticks>>
      /\ DOMAIN senders = Workers \cup Callers
      /\ \A s \in Workers \cup Callers : DOMAIN senders[s] = SenderFields
  BY PlainShapes DEF Callers, ShapeInv, PostTest, TryTest, ViewTest, RetireTest
<1>1. PICK c : senders' = [senders EXCEPT ![Caller(r)] = c] /\ DOMAIN c = SenderFields
  <2>1. CASE PostTest(r)
    <3>1. DOMAIN [Off EXCEPT !.pc = "try", !.id = r, !.left = TEST_ALERT_CLAIM_ATTEMPTS] = SenderFields
      BY PlainShapes
    <3>. QED BY <2>1, <3>1, Zenon DEF PostTest
  <2>2. CASE TryTest(r)
    <3>1. \A g : DOMAIN [senders[Caller(r)] EXCEPT !.pc = "view", !.got = g] = SenderFields
      BY <1>0
    <3>2. DOMAIN [senders[Caller(r)] EXCEPT !.pc = "intent"] = SenderFields
      BY <1>0
    <3>. QED BY <2>2, <3>1, <3>2, Zenon DEF TryTest
  <2>3. CASE ViewTest(r)
    <3>1. \A v : DOMAIN [senders[Caller(r)] EXCEPT !.pc = "retire", !.view = v] = SenderFields
      BY <1>0
    <3>2. \A n : DOMAIN [senders[Caller(r)] EXCEPT !.pc = "try", !.left = n] = SenderFields
      BY <1>0
    <3>. QED BY <2>3, <3>1, <3>2, Zenon DEF ViewTest
  <2>4. CASE RetireTest(r)
    <3>1. PICK v : senders' = [senders EXCEPT ![Caller(r)] =
                      [senders[Caller(r)] EXCEPT !.pc = "answered", !.view = v]]
      BY <2>4 DEF RetireTest
    <3>2. DOMAIN [senders[Caller(r)] EXCEPT !.pc = "answered", !.view = v] = SenderFields
      BY <1>0
    <3>. QED BY <3>1, <3>2
  <2>. QED BY <2>1, <2>2, <2>3, <2>4
<1>2. /\ DOMAIN senders' = Workers \cup Callers
      /\ \A s \in Workers \cup Callers : DOMAIN senders'[s] = SenderFields
      /\ \A w \in Workers : senders'[w] = senders[w]
  BY <1>0, <1>1
<1>3. ShapeInv'
  BY <1>0, <1>2 DEF ShapeInv
<1>. QED BY <1>0, <1>2, <1>3, WorkMoves

LEMMA TimeStep ==
    ASSUME IInv, TimePasses PROVE IInv'
<1>. USE DEF IInv
<1>0. /\ poller \in Pollers /\ DELIVERY_BOUND \in Nat /\ UNCHANGED senders
      /\ \A t \in Ticks : DOMAIN ticks[t] = TickFields
  BY PollerAssumption DEF ShapeInv, TimePasses
<1>. DEFINE c == IF poller.chasing = NULL THEN NULL ELSE Aged(poller.chasing, DELIVERY_BOUND)
<1>1. poller' = [poller EXCEPT !.chasing = c]
  BY DEF TimePasses
<1>2. c \in {NULL} \cup Nat /\ (c # NULL => poller.chasing # NULL)
  BY <1>0 DEF Aged, Pollers
<1>. HIDE DEF c
<1>3. poller' \in Pollers /\ poller'.chasing = c
  BY <1>0, <1>1, <1>2 DEF Pollers
<1>4. /\ poller'.stop = poller.stop /\ poller'.timer = poller.timer
      /\ poller'.latest = poller.latest /\ poller'.followUps = poller.followUps
      /\ poller'.immediate = poller.immediate /\ poller'.running = poller.running
      /\ poller'.failed = poller.failed
  BY <1>0, <1>1 DEF Pollers
<1>5. /\ DOMAIN ticks' = Ticks
      /\ \A t \in Ticks : \E a, r : \/ ticks'[t] = [ticks[t] EXCEPT !.age = a, !.retry = r]
                                   \/ ticks'[t] = ticks[t]
  BY DEF TimePasses
<1>6. \A t \in Ticks : DOMAIN ticks'[t] = TickFields /\ ticks'[t].pc = ticks[t].pc
  BY <1>0, <1>5 DEF TickFields
<1>7. ShapeInv'
  BY <1>0, <1>3, <1>5, <1>6 DEF ShapeInv
<1>8. RunningInv' /\ StopInv'
  BY <1>4, <1>6 DEF RunningInv, OneTick, StopInv, Active
<1>9. WorkInv'
  BY <1>0, <1>6, PlainShapes DEF WorkInv
<1>10. ChaseInv'
  BY <1>2, <1>3, <1>4 DEF ChaseInv, TheChaseNeverStalls
<1>. QED BY <1>7, <1>8, <1>9, <1>10

-----------------------------------------------------------------------------
LEMMA StutterKeepsIInv ==
    ASSUME IInv, UNCHANGED <<poller, ticks, senders>> PROVE IInv'
BY DEF IInv, ShapeInv, RunningInv, OneTick, WorkInv, StopInv, ChaseInv, TheChaseNeverStalls, Active

LEMMA NextKeepsIInv ==
    ASSUME IInv, [Next]_vars PROVE IInv'
<1>1. CASE Start \/ IntervalFires \/ FollowUpFires \/ ImmediateFires
  BY <1>1, TimersKeepIInv
<1>2. CASE Stop \/ StopReturns
  BY <1>2, StopSteps
<1>3. ASSUME NEW t \in Ticks, TickStep(t) \/ ScanFails(t) PROVE IInv'
  BY <1>3, TickSteps, SettleStep DEF TickStep
<1>4. ASSUME NEW w \in Workers, TakeNext(w) PROVE IInv'
  BY <1>4, TakeNextStep
<1>5. ASSUME NEW s \in Workers \cup Callers, SendStep(s) \/ Refused(s) \/ Threw(s) PROVE IInv'
  BY <1>5, SendSteps DEF SendStep
<1>6. ASSUME NEW r \in Tests, PostTest(r) \/ TestStep(r) PROVE IInv'
  BY <1>6, TestSteps DEF TestStep
<1>7. ASSUME NEW e \in Events, LockEvent(e) \/ UnlockEvent(e) PROVE IInv'
  BY <1>7, StutterKeepsIInv DEF LockEvent, UnlockEvent
<1>8. CASE TimePasses
  BY <1>8, TimeStep
<1>9. CASE UNCHANGED vars
  BY <1>9, StutterKeepsIInv DEF vars
<1>. QED BY <1>1, <1>2, <1>3, <1>4, <1>5, <1>6, <1>7, <1>8, <1>9 DEF Next

LEMMA InvariantHolds == Spec => []IInv
BY InitHolds, NextKeepsIInv, PTL DEF Spec

(* No tick begins beside another, however starts, stops, intervals,           *)
(* follow-ups and immediate callbacks fall (run).                             *)
THEOREM OneTickAtATime == Spec => []OneTick
<1>1. IInv => OneTick
  BY DEF IInv, RunningInv
<1>. QED BY <1>1, InvariantHolds, PTL

(* When stop() has returned, no tick is at work and no worker has a send in   *)
(* its hand until the next start (stop, drainThenExit).                       *)
THEOREM StopStops == Spec => []StopMeansStopped
<1>1. IInv => StopMeansStopped
  <2>. SUFFICES ASSUME IInv, poller.stop = "returned"
                PROVE  (\A t \in Ticks : ~Active(t)) /\ \A w \in Workers : senders[w].pc = "off"
    BY DEF StopMeansStopped
  <2>1. \A t \in Ticks : ~Active(t)
    BY DEF IInv, StopInv
  <2>. QED BY <2>1, PlainShapes DEF IInv, WorkInv, Active
<1>. QED BY <1>1, InvariantHolds, PTL

(* While skipped work is chased, a callback is due that will look for it,     *)
(* unless the last tick failed (FOLLOW_UP, the tick's then-handler).          *)
THEOREM ChasesGoOn == Spec => []TheChaseNeverStalls
<1>1. IInv => TheChaseNeverStalls
  BY DEF IInv, ChaseInv
<1>. QED BY <1>1, InvariantHolds, PTL
=============================================================================
