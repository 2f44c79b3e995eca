------------------------ MODULE SimulationLoopProofs ------------------------
(***************************************************************************)
(* Proofs about SimulationLoop, for every set of step lengths, every limit *)
(* on catching up and every run of the clock.                              *)
(***************************************************************************)
EXTENDS SimulationLoop, TLAPS

\* A loop.
Loops == [made : BOOLEAN, running : BOOLEAN, stepMs : Nat, last : Nat, acc : Nat]

\* Every variable has its type.
LoopType ==
    /\ clock \in Nat /\ burst \in Nat
    /\ simulated \in Nat /\ dropped \in Nat /\ forgotten \in Nat /\ active \in Nat
    /\ life \in {"creating", "ready", "disposing"}
    /\ paused \in BOOLEAN /\ syncing \in BOOLEAN
    /\ rate \in StepMs \cup {0}
    /\ loop \in Loops

\* A loop that runs has a step, less than a step in hand since its last wake, which is
\* not in the future.
Running == loop.running => loop.made /\ loop.stepMs > 0 /\ loop.acc < loop.stepMs /\ loop.last <= clock

\* A ready room has a loop exactly at a positive rate, and a room that is being created
\* has none and is not paused.
Made ==
    /\ life = "ready" => loop.made = (rate > 0)
    /\ life = "creating" => loop = NoLoop /\ ~paused

\* The inductive invariant.
LoopInv == LoopType /\ Running /\ Made /\ LoopSound

-----------------------------------------------------------------------------
(* Division.                                                               *)

\* Whole steps leave less than one step over.
LEMMA WholeSteps == ASSUME NEW x \in Nat, NEW s \in Nat \ {0}
  PROVE /\ x \div s \in Nat
        /\ x - (x \div s) * s \in Nat
        /\ x - (x \div s) * s < s
  <1>1. x = s * (x \div s) + (x % s) /\ x % s \in 0..(s - 1) /\ x \div s \in Int
    OBVIOUS
  <1>2. (x \div s) * s = s * (x \div s)
    BY <1>1
  <1>3. x \div s >= 0
    OBVIOUS
  <1> QED BY <1>1, <1>2, <1>3

\* Some of the steps and the others are all of them.
LEMMA StepsAddUp == ASSUME NEW d \in Int, NEW n \in Int, NEW s \in Int
  PROVE n * s + (d - n) * s = d * s
  OBVIOUS

\* A number of steps takes no less time than a smaller number.
LEMMA FewerSteps == ASSUME NEW d \in Nat, NEW n \in Nat, n <= d, NEW s \in Nat
  PROVE n * s \in Nat /\ (d - n) * s \in Nat /\ n * s <= d * s
  OBVIOUS

-----------------------------------------------------------------------------
(* What the operations on a loop return.                                   *)

\* Starting a loop forgets what it had in hand.
LEMMA StartEffect == ASSUME NEW l \in Loops, clock \in Nat
  PROVE /\ Start(l) \in Loops /\ Start(l).running
        /\ Start(l).made = l.made /\ Start(l).stepMs = l.stepMs
        /\ ~l.running => Start(l).acc = 0 /\ Start(l).last = clock
  BY DEF Start, Loops

\* A stopped loop keeps its rate.
LEMMA StopEffect == ASSUME NEW l \in Loops
  PROVE Stop(l) \in Loops /\ ~Stop(l).running /\ Stop(l).made = l.made /\ Stop(l).stepMs = l.stepMs
  BY DEF Stop, Loops

\* What _applySimulation leaves: no loop at rate 0, or one with the new step that runs
\* as the old one did, with nothing in hand; a new one runs unless the room is paused.
Applied(m, l, r, p) ==
    /\ m \in Loops
    /\ r = 0 => ~m.made /\ ~m.running
    /\ r # 0 => m.made /\ m.stepMs = r
    /\ r # 0 /\ l.made => (m.running <=> l.running)
    /\ r # 0 /\ ~l.made => (m.running <=> ~p)
    /\ m.running => m.acc = 0 /\ m.last = clock

\* It does.
LEMMA ApplyEffect == ASSUME NEW l \in Loops, NEW r \in Nat, NEW p \in BOOLEAN, clock \in Nat
  PROVE Applied(ApplySimulation(l, r, p), l, r, p)
  <1> DEFINE m == ApplySimulation(l, r, p)
  <1>1. CASE r = 0
    BY <1>1 DEF ApplySimulation, NoLoop, Loops, Applied
  <1>2. CASE r # 0 /\ l.made
    <2> DEFINE stopped == [Stop(l) EXCEPT !.stepMs = r]
    <2>1. stopped \in Loops /\ ~stopped.running /\ stopped.made /\ stopped.stepMs = r
      BY <1>2 DEF Stop, Loops
    <2>2. m = IF l.running THEN Start(stopped) ELSE stopped
      BY <1>2 DEF ApplySimulation, SetTickRate
    <2> HIDE DEF stopped
    <2>3. CASE l.running
      <3>1. Start(stopped) \in Loops /\ Start(stopped).running /\ Start(stopped).made
            /\ Start(stopped).stepMs = r /\ Start(stopped).acc = 0 /\ Start(stopped).last = clock
        BY <2>1, StartEffect
      <3>2. ApplySimulation(l, r, p) = Start(stopped)
        BY <2>2, <2>3
      <3> QED BY <1>2, <2>3, <3>1, <3>2 DEF Applied
    <2>4. CASE ~l.running
      <3>1. ApplySimulation(l, r, p) = stopped
        BY <2>2, <2>4
      <3> QED BY <1>2, <2>1, <2>4, <3>1 DEF Applied
    <2> QED BY <2>3, <2>4
  <1>3. CASE r # 0 /\ ~l.made
    <2> DEFINE new == [NoLoop EXCEPT !.made = TRUE, !.stepMs = r]
    <2>1. new \in Loops /\ ~new.running /\ new.made /\ new.stepMs = r
      BY DEF NoLoop, Loops
    <2>2. m = IF p THEN new ELSE Start(new)
      BY <1>3 DEF ApplySimulation
    <2> HIDE DEF new
    <2>3. CASE p
      <3>1. ApplySimulation(l, r, p) = new
        BY <2>2, <2>3
      <3> QED BY <1>3, <2>1, <2>3, <3>1 DEF Applied
    <2>4. CASE ~p
      <3>1. Start(new) \in Loops /\ Start(new).running /\ Start(new).made
            /\ Start(new).stepMs = r /\ Start(new).acc = 0 /\ Start(new).last = clock
        BY <2>1, StartEffect
      <3>2. ApplySimulation(l, r, p) = Start(new)
        BY <2>2, <2>4
      <3> QED BY <1>3, <2>4, <3>1, <3>2 DEF Applied
    <2> QED BY <2>3, <2>4
  <1> QED BY <1>1, <1>2, <1>3

\* What a loop has in hand is a number.
LEMMA InHandType == ASSUME LoopType, Running
  PROVE /\ InHand(loop) \in Nat
        /\ loop.running => InHand(loop) = loop.acc + (clock - loop.last)
        /\ ~loop.running => InHand(loop) = 0
  BY DEF LoopType, Running, InHand, Loops

-----------------------------------------------------------------------------
(* The room starts, stops and changes its loops.                           *)

\* At first nothing runs.
LEMMA LoopInvInit == ASSUME LoopInit PROVE LoopInv
  <1>1. LoopType
    BY LoopAssumption DEF LoopInit, LoopType, NoLoop, Loops
  <1>2. Running /\ Made
    BY DEF LoopInit, Running, Made, NoLoop
  <1>3. LoopSound
    <2>1. loop.running = FALSE /\ InHand(loop) = 0
      BY DEF LoopInit, NoLoop, InHand
    <2>2. TimeAccounted /\ CatchUpBounded
      BY <2>1, LoopAssumption DEF LoopInit, TimeAccounted, CatchUpBounded
    <2>3. LoopsMatchRoom
      BY <2>1 DEF LoopInit, LoopsMatchRoom
    <2> QED BY <2>2, <2>3 DEF LoopSound
  <1> QED BY <1>1, <1>2, <1>3 DEF LoopInv

\* Whoever stops the loop or replaces it by one with nothing in hand, counting what was
\* in hand as forgotten, keeps the account of time; the room and its loops stay matched
\* when the new loop is the one the room is to have.
LEMMA Switches ==
  ASSUME LoopInv,
         NEW l \in Loops, loop' = l,
         l.running => l.made /\ l.acc = 0 /\ l.last = clock /\ l.stepMs > 0,
         forgotten' = forgotten + InHand(loop),
         UNCHANGED <<clock, simulated, dropped, active, burst>>,
         life' \in {"ready", "disposing"}, paused' \in BOOLEAN, rate' \in StepMs \cup {0},
         syncing' = (life' = "ready" /\ ~paused'),
         l.running <=> (life' = "ready" /\ ~paused' /\ rate' > 0),
         life' = "ready" => (l.made <=> rate' > 0) /\ (rate' > 0 => l.stepMs = rate')
  PROVE LoopInv'
  <1> USE DEF LoopInv
  <1>1. InHand(loop) \in Nat
    BY InHandType
  <1>2. LoopType'
    BY <1>1 DEF LoopType
  <1>8. life' = "ready" => l.made = (rate' > 0)
    BY DEF Loops
  <1>3. Running' /\ Made'
    BY <1>8 DEF LoopType, Running, Made
  <1>4. InHand(loop)' = 0
    BY DEF InHand, LoopType, Loops
  <1>5. TimeAccounted'
    BY <1>1, <1>4 DEF LoopSound, TimeAccounted, LoopType
  <1>6. LoopsMatchRoom'
    <2>1. l.running = (life' = "ready" /\ ~paused' /\ rate' > 0)
      BY DEF Loops
    <2> QED BY <2>1 DEF LoopsMatchRoom
  <1>7. CatchUpBounded'
    BY DEF LoopSound, CatchUpBounded
  <1> QED BY <1>2, <1>3, <1>5, <1>6, <1>7 DEF LoopSound

\* The creation, the rate, the disposal and the pauses of the room are such steps.
LEMMA RoomSteps ==
  ASSUME LoopInv,
         Created \/ ApplicationSetsRate \/ Disposes \/ Pauses \/ Resumes
  PROVE LoopInv'
  <1> USE DEF LoopInv
  <1>0. /\ loop \in Loops /\ clock \in Nat /\ forgotten \in Nat /\ rate \in Nat /\ rate \in StepMs \cup {0}
        /\ paused \in BOOLEAN /\ life \in {"creating", "ready", "disposing"} /\ InHand(loop) \in Nat
    BY InHandType, LoopAssumption DEF LoopType
  <1>1. CASE Created
    <2>1. loop = NoLoop /\ ~paused /\ ~loop.made /\ ~loop.running
      BY <1>1 DEF Created, Made, NoLoop
    <2>2. InHand(loop) = 0
      BY <2>1 DEF InHand
    <2> DEFINE l == ApplySimulation(loop, rate, paused)
    <2>3. Applied(l, loop, rate, paused)
      BY <1>0, ApplyEffect
    <2>4. loop' = l /\ life' = "ready" /\ syncing' = TRUE /\ forgotten' = forgotten + InHand(loop)
          /\ UNCHANGED <<clock, paused, rate, simulated, dropped, active, burst>>
      BY <1>0, <1>1, <2>2 DEF Created, Syncs
    <2> HIDE DEF l
    <2>5. (l.running <=> rate > 0) /\ (l.made <=> rate > 0)
          /\ l \in Loops /\ (l.running => l.acc = 0 /\ l.last = clock) /\ (rate > 0 => l.stepMs = rate)
      BY <1>0, <2>1, <2>3 DEF Applied
    <2>6. syncing' = (life' = "ready" /\ ~paused') /\ ~paused'
      BY <2>1, <2>4
    <2> QED BY <1>0, <2>4, <2>5, <2>6, Switches
  <1>2. CASE ApplicationSetsRate
    <2>1. PICK r \in StepMs \cup {0} : SetRate(r)
      BY <1>2 DEF ApplicationSetsRate
    <2>2. r \in Nat /\ rate' = r
      BY <2>1, LoopAssumption DEF SetRate
    <2>3. UNCHANGED <<clock, life, paused, syncing, simulated, dropped, active, burst>>
      BY <1>2 DEF ApplicationSetsRate
    <2>4. CASE life = "ready"
      <3> DEFINE l == ApplySimulation(loop, r, paused)
      <3>1. Applied(l, loop, r, paused)
        BY <1>0, <2>2, ApplyEffect
      <3>2. loop' = l /\ forgotten' = forgotten + InHand(loop)
        BY <2>1, <2>4 DEF SetRate
      <3>3. loop.running = (~paused /\ rate > 0) /\ syncing = (~paused) /\ loop.made = (rate > 0)
        BY <2>4 DEF LoopSound, LoopsMatchRoom, Made
      <3>5. (loop.running <=> ~paused /\ rate > 0) /\ (loop.made <=> rate > 0)
        BY <3>3
      <3> HIDE DEF l
      <3>4. (l.running <=> ~paused /\ r > 0) /\ (l.made <=> r > 0)
            /\ l \in Loops /\ (l.running => l.acc = 0 /\ l.last = clock) /\ (r > 0 => l.stepMs = r)
        BY <2>2, <3>1, <3>5 DEF Applied
      <3> QED BY <1>0, <2>2, <2>3, <2>4, <3>2, <3>3, <3>4, Switches
    <2>5. CASE life # "ready"
      <3>1. UNCHANGED <<loop, forgotten>>
        BY <2>1, <2>5 DEF SetRate
      <3>2. LoopType' /\ Running' /\ Made'
        BY <2>2, <2>3, <2>5, <3>1, <2>1 DEF LoopType, Running, Made
      <3>3. LoopSound'
        BY <2>2, <2>3, <2>5, <3>1 DEF LoopSound, TimeAccounted, LoopsMatchRoom, CatchUpBounded, InHand
      <3> QED BY <3>2, <3>3
    <2> QED BY <2>4, <2>5
  <1>3. CASE Disposes
    <2>1. loop' = Stop(loop) /\ life' = "disposing" /\ syncing' = FALSE
          /\ forgotten' = forgotten + InHand(loop)
          /\ UNCHANGED <<clock, paused, rate, simulated, dropped, active, burst>>
      BY <1>3 DEF Disposes, Syncs
    <2>2. Stop(loop) \in Loops /\ Stop(loop).running = FALSE
      BY <1>0, StopEffect DEF Loops
    <2> QED BY <1>0, <2>1, <2>2, Switches
  <1>4. CASE Pauses
    <2>1. loop' = Stop(loop) /\ life = "ready" /\ life' = life /\ syncing' = FALSE /\ paused' = TRUE
          /\ forgotten' = forgotten + InHand(loop)
          /\ UNCHANGED <<clock, rate, simulated, dropped, active, burst>>
      BY <1>4 DEF Pauses, Syncs
    <2>2. Stop(loop) \in Loops /\ Stop(loop).running = FALSE
          /\ Stop(loop).made = loop.made /\ Stop(loop).stepMs = loop.stepMs
      BY <1>0, StopEffect DEF Loops
    <2>3. loop.made = (rate > 0) /\ (rate > 0 => loop.stepMs = rate)
      BY <2>1 DEF Made, LoopSound, LoopsMatchRoom
    <2> QED BY <1>0, <2>1, <2>2, <2>3, Switches
  <1>5. CASE Resumes
    <2> DEFINE l == IF loop.made THEN Start(loop) ELSE loop
    <2>1. loop' = l /\ life = "ready" /\ life' = life /\ syncing' = TRUE /\ paused /\ paused' = FALSE
          /\ UNCHANGED <<clock, rate, simulated, dropped, forgotten, active, burst>>
      BY <1>5 DEF Resumes, Syncs
    <2>2. ~loop.running /\ loop.made = (rate > 0) /\ (rate > 0 => loop.stepMs = rate)
      BY <2>1 DEF Made, LoopSound, LoopsMatchRoom
    <2>3. InHand(loop) = 0
      BY <2>2 DEF InHand
    <2>4. l \in Loops /\ (l.running <=> loop.made) /\ (l.made <=> loop.made)
          /\ l.stepMs = loop.stepMs /\ (l.running => l.acc = 0 /\ l.last = clock)
      BY <1>0, <2>2, StartEffect DEF Loops
    <2>5. (l.running <=> rate > 0) /\ (l.made <=> rate > 0) /\ (rate > 0 => l.stepMs = rate)
      BY <2>2, <2>4
    <2>6. forgotten' = forgotten + InHand(loop)
      BY <1>0, <2>1, <2>3
    <2>7. syncing' = (life' = "ready" /\ ~paused')
      BY <2>1
    <2> HIDE DEF l
    <2> QED BY <1>0, <2>1, <2>4, <2>5, <2>6, <2>7, Switches
  <1> QED BY <1>1, <1>2, <1>3, <1>4, <1>5

-----------------------------------------------------------------------------
(* The loop wakes.                                                         *)

\* What a wake finds: a positive step, the time since the last wake, the steps that fit
\* in it and those it runs.
LEMMA WakeFinds == ASSUME LoopInv, loop.running
  PROVE LET x == loop.acc + (clock - loop.last)
        IN  /\ life = "ready" /\ ~paused /\ syncing /\ rate > 0 /\ loop.made /\ loop.stepMs = rate
            /\ x \in Nat /\ InHand(loop) = x
            /\ Due(loop) \in Nat /\ Steps(loop) \in Nat
            /\ Steps(loop) <= Due(loop) /\ Steps(loop) <= MaxCatchUp
            /\ x - Due(loop) * loop.stepMs \in Nat
            /\ x - Due(loop) * loop.stepMs < loop.stepMs
  <1> DEFINE x == loop.acc + (clock - loop.last)
  <1>1. life = "ready" /\ ~paused /\ syncing /\ rate > 0 /\ loop.stepMs = rate /\ loop.made
    BY DEF LoopInv, LoopType, LoopSound, LoopsMatchRoom, Running
  <1>2. x \in Nat /\ InHand(loop) = x
    BY InHandType DEF LoopInv
  <1>3. loop.stepMs \in Nat \ {0}
    BY <1>1 DEF LoopInv, LoopType, Loops
  <1>4. Due(loop) = x \div loop.stepMs
    BY DEF Due
  <1>5. /\ Due(loop) \in Nat
        /\ x - Due(loop) * loop.stepMs \in Nat
        /\ x - Due(loop) * loop.stepMs < loop.stepMs
    BY <1>2, <1>3, <1>4, WholeSteps
  <1>6. Steps(loop) \in Nat /\ Steps(loop) <= Due(loop) /\ Steps(loop) <= MaxCatchUp
    BY <1>5, LoopAssumption DEF Steps
  <1> QED BY <1>1, <1>2, <1>5, <1>6

\* A wake simulates the steps it runs, drops the others and keeps the rest.
LEMMA WakesStep == ASSUME LoopInv, Wakes PROVE LoopInv'
  <1> DEFINE x == loop.acc + (clock - loop.last)
             due == Due(loop)
             n == Steps(loop)
             s == loop.stepMs
  <1>1. /\ life = "ready" /\ ~paused /\ syncing /\ rate > 0 /\ loop.made /\ s = rate
        /\ x \in Nat /\ InHand(loop) = x
        /\ due \in Nat /\ n \in Nat /\ n <= due /\ n <= MaxCatchUp
        /\ x - due * s \in Nat /\ x - due * s < s
    BY WakeFinds DEF Wakes
  <1>2. /\ loop.running /\ burst' = n /\ simulated' = simulated + n * s
        /\ dropped' = dropped + (due - n) * s
        /\ loop' = [loop EXCEPT !.acc = x - due * s, !.last = clock]
        /\ UNCHANGED <<clock, life, paused, rate, syncing, forgotten, active>>
    BY DEF Wakes
  <1>0. LoopType /\ Running /\ Made /\ LoopSound
    BY DEF LoopInv
  <1>3. s \in Nat /\ clock \in Nat /\ loop \in Loops /\ simulated \in Nat /\ dropped \in Nat
        /\ forgotten \in Nat /\ active \in Nat
    BY <1>0 DEF LoopType, Loops
  <1> HIDE DEF x, due, n, s
  <1>4. n * s \in Nat /\ (due - n) * s \in Nat /\ n * s + (due - n) * s = due * s /\ due * s \in Nat
    BY <1>1, <1>3, FewerSteps, StepsAddUp
  <1>5. loop' \in Loops /\ loop'.running /\ loop'.made = loop.made /\ loop'.stepMs = loop.stepMs
        /\ loop'.acc = x - due * s /\ loop'.last = clock
    BY <1>1, <1>2, <1>3 DEF Loops
  <1>6. LoopType'
    BY <1>0, <1>1, <1>2, <1>3, <1>4, <1>5 DEF LoopType
  <1>7. Running' /\ Made'
    <2>1. Running'
      BY <1>1, <1>2, <1>3, <1>5 DEF s, Running
    <2>2. Made'
      BY <1>0, <1>1, <1>2, <1>5 DEF Made
    <2> QED BY <2>1, <2>2
  <1>8. InHand(loop)' = x - due * s
    <2>1. InHand(loop)' = loop'.acc + (clock' - loop'.last)
      BY <1>5 DEF InHand
    <2> QED BY <1>1, <1>2, <1>3, <1>5, <2>1
  <1>9. TimeAccounted'
    <2>1. simulated + dropped + forgotten + x = active
      BY <1>0, <1>1 DEF LoopSound, TimeAccounted
    <2>2. simulated' + dropped' + forgotten' + (x - due * s) = active'
      BY <1>1, <1>2, <1>3, <1>4, <2>1
    <2> QED BY <1>8, <2>2 DEF TimeAccounted
  <1>10. LoopsMatchRoom'
    BY <1>0, <1>1, <1>2, <1>5 DEF LoopSound, LoopsMatchRoom, s
  <1>11. CatchUpBounded'
    BY <1>1, <1>2, <1>5 DEF CatchUpBounded, s
  <1> QED BY <1>6, <1>7, <1>9, <1>10, <1>11 DEF LoopInv, LoopSound

\* A step that stops the loop or changes its rate ends the wake; what is left of it is
\* forgotten.
LEMMA WakesAndChangesStep == ASSUME LoopInv, WakesAndChanges PROVE LoopInv'
  <1> DEFINE x == loop.acc + (clock - loop.last)
             s == loop.stepMs
  <1>0. LoopType /\ Running /\ Made /\ LoopSound
    BY DEF LoopInv
  <1>1. PICK k \in 1..MaxCatchUp :
          /\ loop.running /\ k <= Steps(loop)
          /\ burst' = k /\ simulated' = simulated + k * s
          /\ forgotten' = forgotten + (x - k * s)
          /\ LET now == [loop EXCEPT !.acc = x - k * s, !.last = clock]
             IN  \/ \E r \in StepMs \cup {0} : /\ rate' = r
                                               /\ loop' = ApplySimulation(now, r, paused)
                                               /\ UNCHANGED <<life, syncing>>
                 \/ life' = "disposing" /\ loop' = Stop(now) /\ syncing' = FALSE /\ UNCHANGED rate
          /\ UNCHANGED <<clock, paused, dropped, active>>
    BY DEF WakesAndChanges, Syncs
  <1>2. /\ life = "ready" /\ ~paused /\ syncing /\ rate > 0 /\ loop.made /\ s = rate
        /\ x \in Nat /\ InHand(loop) = x
        /\ Due(loop) \in Nat /\ Steps(loop) \in Nat /\ Steps(loop) <= Due(loop)
        /\ Steps(loop) <= MaxCatchUp /\ x - Due(loop) * s \in Nat
    BY <1>1, WakeFinds
  <1> HIDE DEF x, s
  <1>3. s \in Nat /\ clock \in Nat /\ loop \in Loops /\ simulated \in Nat /\ dropped \in Nat
        /\ forgotten \in Nat /\ active \in Nat
    BY <1>0 DEF LoopType, Loops, s
  <1>4. k \in Nat /\ k <= Due(loop) /\ k <= MaxCatchUp
    BY <1>1, <1>2, LoopAssumption
  <1>5. k * s \in Nat /\ k * s <= Due(loop) * s /\ Due(loop) * s \in Nat
    BY <1>2, <1>3, <1>4, FewerSteps
  <1>6. x - k * s \in Nat
    BY <1>2, <1>5
  <1> DEFINE now == [loop EXCEPT !.acc = x - k * s, !.last = clock]
  <1>7. now \in Loops /\ now.made /\ now.running
    BY <1>1, <1>2, <1>3, <1>6 DEF Loops
  <1>8. \E r \in StepMs \cup {0} : /\ rate' = r /\ loop' \in Loops
                                   /\ (loop'.running <=> life' = "ready" /\ rate' > 0)
                                   /\ loop'.running => loop'.acc = 0 /\ loop'.last = clock
                                   /\ life' = "ready" => /\ loop'.made <=> rate' > 0
                                                         /\ rate' > 0 => loop'.stepMs = rate'
                                   /\ loop'.running => loop'.made /\ loop'.stepMs > 0
                                   /\ syncing' <=> life' = "ready"
                                   /\ syncing' \in BOOLEAN
                                   /\ life' \in {"ready", "disposing"}
    <2> HIDE DEF now
    <2>1. ASSUME NEW r \in StepMs \cup {0}, rate' = r, loop' = ApplySimulation(now, r, paused),
                 UNCHANGED <<life, syncing>>
          PROVE <1>8!:
      <3>1. r \in Nat
        BY LoopAssumption
      <3>0. paused \in BOOLEAN
        BY <1>0 DEF LoopType
      <3>2. Applied(loop', now, r, paused)
        BY <1>3, <1>7, <2>1, <3>0, <3>1, ApplyEffect
      <3>3. (loop'.running <=> r > 0) /\ (loop'.made <=> r > 0) /\ loop' \in Loops
            /\ (loop'.running => loop'.acc = 0 /\ loop'.last = clock) /\ (r > 0 => loop'.stepMs = r)
        BY <1>7, <3>1, <3>2 DEF Applied
      <3>4. syncing' \in BOOLEAN
        BY <1>0, <2>1 DEF LoopType
      <3> QED BY <1>2, <2>1, <3>1, <3>3, <3>4
    <2>2. ASSUME life' = "disposing", loop' = Stop(now), syncing' = FALSE, UNCHANGED rate
          PROVE <1>8!:
      <3>1. loop' \in Loops /\ ~loop'.running
        BY <1>7, <2>2, StopEffect
      <3> QED BY <1>0, <2>2, <3>1 DEF LoopType
    <2> QED BY <1>1, <2>1, <2>2 DEF now
  <1> HIDE DEF now
  <1>9. LoopType'
    BY <1>0, <1>1, <1>3, <1>4, <1>5, <1>6, <1>8 DEF LoopType
  <1>15. life' = "ready" => loop'.made = (rate' > 0)
    BY <1>8 DEF Loops
  <1>10. Running' /\ Made'
    BY <1>1, <1>3, <1>8, <1>15 DEF Running, Made
  <1>11. InHand(loop)' = 0
    BY <1>1, <1>3, <1>8 DEF InHand
  <1>12. TimeAccounted'
    <2>1. simulated + dropped + forgotten + x = active
      BY <1>0, <1>2 DEF LoopSound, TimeAccounted
    <2>2. simulated' + dropped' + forgotten' + 0 = active'
      BY <1>1, <1>2, <1>3, <1>5, <2>1
    <2> QED BY <1>11, <2>2 DEF TimeAccounted
  <1>13. LoopsMatchRoom'
    <2>1. loop'.running = (life' = "ready" /\ ~paused' /\ rate' > 0)
      BY <1>1, <1>2, <1>8 DEF Loops
    <2>2. syncing' = (life' = "ready" /\ ~paused')
      BY <1>1, <1>2, <1>8
    <2> QED BY <1>8, <2>1, <2>2 DEF LoopsMatchRoom
  <1>14. CatchUpBounded'
    BY <1>1, <1>4, <1>8 DEF CatchUpBounded
  <1> QED BY <1>9, <1>10, <1>12, <1>13, <1>14 DEF LoopInv, LoopSound

\* Time that passes while the loop runs is in hand.
LEMMA TimePassesStep == ASSUME LoopInv, TimePasses PROVE LoopInv'
  <1> USE DEF LoopInv
  <1>0. clock \in Nat /\ active \in Nat /\ loop \in Loops /\ simulated \in Nat /\ dropped \in Nat
        /\ forgotten \in Nat /\ loop.acc \in Nat /\ loop.last \in Nat
    BY DEF LoopType, Loops
  <1>1. /\ clock' = clock + 1 /\ active' = (IF loop.running THEN active + 1 ELSE active)
        /\ UNCHANGED <<life, paused, rate, loop, syncing, simulated, dropped, forgotten, burst>>
    BY DEF TimePasses
  <1>2. LoopType' /\ Running' /\ Made'
    BY <1>0, <1>1 DEF LoopType, Running, Made
  <1>3. InHand(loop)' = IF loop.running THEN InHand(loop) + 1 ELSE InHand(loop)
    <2>1. CASE loop.running
      BY <1>0, <1>1, <2>1 DEF InHand
    <2>2. CASE ~loop.running
      BY <1>1, <2>2 DEF InHand
    <2> QED BY <2>1, <2>2
  <1>4. TimeAccounted'
    <2>1. InHand(loop) \in Nat /\ simulated + dropped + forgotten + InHand(loop) = active
      BY InHandType DEF LoopSound, TimeAccounted
    <2>2. simulated' + dropped' + forgotten' + InHand(loop)' = active'
      BY <1>0, <1>1, <1>3, <2>1
    <2> QED BY <2>2 DEF TimeAccounted
  <1>5. LoopsMatchRoom' /\ CatchUpBounded'
    BY <1>1 DEF LoopSound, LoopsMatchRoom, CatchUpBounded
  <1> QED BY <1>2, <1>4, <1>5 DEF LoopSound

-----------------------------------------------------------------------------

\* Stalls, pauses, changes of rate and a disposal in the middle of a wake neither
\* simulate time twice nor lose any uncounted; the loops run exactly when the room does,
\* at the rate last set; no wake runs more than maxCatchUpSteps steps or leaves a whole
\* step over (loop.ts SimulationLoop, room.ts _applySimulation and _updatePause).
THEOREM LoopIsSound == LoopSpec => []LoopSound
  <1>1. LoopInit => LoopInv
    BY LoopInvInit
  <1>2. LoopInv /\ [LoopNext]_loopVars => LoopInv'
    <2>1. ASSUME LoopInv, UNCHANGED loopVars PROVE LoopInv'
      BY <2>1 DEF loopVars, LoopInv, LoopType, Running, Made, LoopSound, TimeAccounted,
                  LoopsMatchRoom, CatchUpBounded, InHand
    <2> QED BY <2>1, RoomSteps, WakesStep, WakesAndChangesStep, TimePassesStep DEF LoopNext
  <1>3. LoopInv => LoopSound
    BY DEF LoopInv
  <1> QED BY <1>1, <1>2, <1>3, PTL DEF LoopSpec

=============================================================================
