------------------------- MODULE PollerTimersProofs -------------------------
(***************************************************************************)
(* Theorems about PollerTimers for any set of chains, any number of slots  *)
(* and any bound on generations: type correctness, and that no chain is    *)
(* ever duplicated and every latch has exactly one owner.                  *)
(***************************************************************************)
EXTENDS PollerTimers, TLAPS

(* What the properties need besides themselves to be inductive: no run comes
   from a generation that has not begun, and only a chain's run is ever left
   waiting to re-arm, only a run with a second cycle waiting to go on.       *)
RunsAreSound ==
    \A s \in Slots :
        /\ runs[s].gen <= generation
        /\ runs[s].pc = "settled" => runs[s].chain \in Chains
        /\ runs[s].pc = "passed" => runs[s].then # "none"

IInv ==
    /\ TypeOK
    /\ RunsAreSound
    /\ TimersAreCurrent
    /\ OneChainEach
    /\ LatchesAreOwned

\* RunsAreSound and LatchesAreOwned of given runs, generation and latches, to
\* reason about the two launches that StartPoller makes in one step.
Sound(rs, g) ==
    \A s \in Slots :
        /\ rs[s].gen <= g
        /\ rs[s].pc = "settled" => rs[s].chain \in Chains
        /\ rs[s].pc = "passed" => rs[s].then # "none"

Owned(rs, held) ==
    /\ \A k \in held : \E s \in Slots : rs[s].pc = "busy" /\ rs[s].cycle = k
    /\ \A s \in Slots : rs[s].pc = "busy" => rs[s].cycle \in held
    /\ \A s, t \in Slots :
        rs[s].pc = "busy" /\ rs[t].pc = "busy" /\ rs[s].cycle = rs[t].cycle => s = t

USE ChainsAssumption, MaxGenerationAssumption DEF AllChains

-----------------------------------------------------------------------------
\* What calling withLatch(cycle) makes of a run e of the given chain and generation.
Entered(e, chain, gen, cycle, held) ==
    /\ e \in Run
    /\ e.gen <= gen
    /\ cycle \in held => e.pc # "busy"
    /\ cycle \notin held => e.pc = "busy" /\ e.cycle = cycle
    /\ e.pc # "free" => e.chain = chain /\ e.gen = gen
    /\ chain \in Chains => e.pc # "free"
    /\ e.pc = "settled" => e.chain \in Chains
    /\ e.pc = "passed" => e.then # "none"

LEMMA EnteringFacts ==
    ASSUME NEW chain \in Chains \union {"once"}, NEW gen \in Gens, NEW cycle \in Cycles,
           NEW then \in Cycles \union {"none"}, NEW held
    PROVE Entered(Entering(chain, gen, cycle, then, held), chain, gen, cycle, held)
  <1> DEFINE r == [chain |-> chain, gen |-> gen, cycle |-> cycle, then |-> then, pc |-> "busy"]
  <1>1. r \in Run /\ NoRun \in Run
    BY DEF Run, NoRun, Gens, Cycles
  <1>2. Returned(r) \in Run
    BY <1>1 DEF Returned, Ended, Run
  <1>3. CASE cycle \in held
    BY <1>1, <1>2, <1>3 DEF Entered, Entering, Returned, Ended, NoRun, Gens, Run
  <1>4. CASE cycle \notin held
    BY <1>1, <1>4 DEF Entered, Entering, Gens, Run
  <1> QED
    BY <1>3, <1>4

\* What a cycle's end makes of the run that was in it.
LEMMA CycleEndFacts ==
    ASSUME NEW r \in Run, r.pc = "busy", NEW e \in {Returned(r), Ended(r)}
    PROVE /\ e \in Run
          /\ e.gen <= r.gen
          /\ e.pc # "busy"
          /\ e.pc # "free" => e.chain = r.chain /\ e.gen = r.gen
          /\ r.chain \in Chains => e.pc # "free"
          /\ e.pc = "settled" => e.chain \in Chains
          /\ e.pc = "passed" => e.then # "none"
  <1>1. NoRun \in Run
    BY DEF Run, NoRun, Gens, Cycles
  <1> QED
    BY <1>1 DEF Returned, Ended, Run, NoRun, Gens

\* A run that is not inside a cycle may call withLatch for any cycle: the
\* latches stay owned.
LEMMA LaunchFacts ==
    ASSUME NEW rs \in [Slots -> Run], NEW held \in SUBSET Cycles, NEW g \in Gens, NEW g2 \in Gens,
           Sound(rs, g), Owned(rs, held), g <= g2,
           NEW s \in Slots, rs[s].pc # "busy",
           NEW chain, NEW gen \in Gens, gen <= g2, NEW cycle \in Cycles,
           NEW e, Entered(e, chain, gen, cycle, held),
           NEW rs2, rs2 = [rs EXCEPT ![s] = e]
    PROVE /\ rs2 \in [Slots -> Run]
          /\ held \union {cycle} \in SUBSET Cycles
          /\ Sound(rs2, g2)
          /\ Owned(rs2, held \union {cycle})
  <1>1. /\ e \in Run
        /\ e.gen <= gen
        /\ cycle \in held => e.pc # "busy"
        /\ cycle \notin held => e.pc = "busy" /\ e.cycle = cycle
        /\ e.pc = "settled" => e.chain \in Chains
        /\ e.pc = "passed" => e.then # "none"
    BY DEF Entered
  <1>3. \A t \in Slots : rs2[t] = IF t = s THEN e ELSE rs[t]
    OBVIOUS
  <1>4. rs2 \in [Slots -> Run]
    BY <1>1
  <1>5. Sound(rs2, g2)
    BY <1>1, <1>3 DEF Sound, Gens, Run
  <1>6. Owned(rs2, held \union {cycle})
    <2>1. \A k \in held \union {cycle} : \E t \in Slots : rs2[t].pc = "busy" /\ rs2[t].cycle = k
      BY <1>1, <1>3 DEF Owned
    <2>2. \A t \in Slots : rs2[t].pc = "busy" => rs2[t].cycle \in held \union {cycle}
      BY <1>1, <1>3 DEF Owned
    <2>3. \A t, u \in Slots :
            rs2[t].pc = "busy" /\ rs2[u].pc = "busy" /\ rs2[t].cycle = rs2[u].cycle => t = u
      BY <1>1, <1>3 DEF Owned
    <2> QED
      BY <2>1, <2>2, <2>3 DEF Owned
  <1> QED
    BY <1>4, <1>5, <1>6

-----------------------------------------------------------------------------
LEMMA InitIInv == Init => IInv
  <1> SUFFICES ASSUME Init PROVE IInv
    OBVIOUS
  <1>0. NoRun \in Run
    BY DEF NoRun, Run, Gens, Cycles
  <1>1. TypeOK
    <2>1. running \in BOOLEAN /\ inFlight \subseteq Cycles
      BY DEF Init
    <2>4. generation \in Gens
      BY DEF Init, Gens
    <2>2. timers \in [Chains -> [Gens -> Nat]]
      BY DEF Init
    <2>3. runs \in [Slots -> Run]
      BY <1>0 DEF Init
    <2> QED
      BY <2>1, <2>2, <2>3, <2>4 DEF TypeOK
  <1> QED
    BY <1>1 DEF Init, IInv, RunsAreSound, TimersAreCurrent, OneChainEach, LatchesAreOwned,
                NoRun, RunOf, Live, Gens

\* start() when not running, given the runs and latches it finds: every chain
\* gets its one timer in a generation that nothing else belongs to.
LEMMA StartStep ==
    ASSUME TypeOK, NEW rs \in [Slots -> Run], NEW held \in SUBSET Cycles,
           NEW g \in Gens, generation < g, Sound(rs, generation), Owned(rs, held),
           NEW s \in Slots, rs[s].pc = "free",
           NEW t, t = NoTimers,
           \A c \in Chains, h \in Gens : \A a, b \in Slots :
              /\ rs[a].pc # "free" /\ rs[a].chain = c /\ rs[a].gen = h
              /\ rs[b].pc # "free" /\ rs[b].chain = c /\ rs[b].gen = h
              => a = b,
           StartWith(g, t, s, rs, held)
    PROVE IInv'
  <1> DEFINE e == Entering("once", g, "sweep", "detail", held)
  <1>1. generation \in Gens /\ generation <= g /\ "sweep" \in Cycles /\ "detail" \in Cycles
    BY DEF TypeOK, Gens, Cycles
  <1>0. Entered(e, "once", g, "sweep", held)
    BY <1>1, EnteringFacts
  <1>2. /\ runs' \in [Slots -> Run]
        /\ held \union {"sweep"} \in SUBSET Cycles
        /\ Sound(runs', g)
        /\ Owned(runs', held \union {"sweep"})
    <2>1. runs' = [rs EXCEPT ![s] = e]
      BY DEF StartWith
    <2>2. g <= g /\ rs[s].pc # "busy"
      BY DEF Gens
    <2> HIDE DEF e
    <2> QED
      BY <1>0, <1>1, <2>1, <2>2, LaunchFacts
  <1>3. e \in Run /\ (e.pc # "free" => e.chain = "once")
    BY <1>0 DEF Entered
  <1>4. /\ generation' = g /\ running' = TRUE /\ inFlight' = held \union {"sweep"}
        /\ runs' = [rs EXCEPT ![s] = e]
        /\ timers' = ArmAll(t, g)
    BY DEF StartWith
  <1> HIDE DEF e
  <1>5. \A c \in Chains, h \in Gens : timers'[c][h] = IF h = g THEN 1 ELSE 0
    BY <1>4 DEF ArmAll, NoTimers
  <1>6. TypeOK'
    BY <1>2, <1>4 DEF TypeOK, ArmAll, NoTimers
  <1>7. RunsAreSound' /\ LatchesAreOwned'
    BY <1>2, <1>4 DEF RunsAreSound, Sound, LatchesAreOwned, Owned
  <1>8. TimersAreCurrent'
    BY <1>4, <1>5 DEF TimersAreCurrent
  <1>9. OneChainEach'
    <2>1. \A a \in Slots : runs'[a] = IF a = s THEN e ELSE rs[a]
      BY <1>4
    <2>2. "once" \notin Chains
      OBVIOUS
    <2>3. \A c \in Chains : \A a \in Slots : ~RunOf(a, c, g)'
      <3>1. \A a \in Slots : rs[a].gen # g
        BY <1>1 DEF Sound, Gens, Run
      <3> QED
        BY <1>3, <2>1, <2>2, <3>1 DEF RunOf, Live
    <2>4. \A c \in Chains, h \in Gens : \A a, b \in Slots : RunOf(a, c, h)' /\ RunOf(b, c, h)' => a = b
      BY <1>3, <2>1, <2>2 DEF RunOf, Live
    <2>5. \A c \in Chains, h \in Gens :
            timers'[c][h] <= 1 /\ (timers'[c][h] = 1 => \A a \in Slots : ~RunOf(a, c, h)')
      BY <1>5, <2>3
    <2>6. \A c \in Chains : timers'[c][generation'] = 1
      BY <1>4, <1>5
    <2> QED
      BY <2>4, <2>5, <2>6 DEF OneChainEach
  <1> QED
    BY <1>6, <1>7, <1>8, <1>9 DEF IInv

\* One lemma per action.
LEMMA StartPollerStep == ASSUME IInv, StartPoller PROVE IInv'
  <1>1. PICK s1 \in FreeSlots, s2 \in FreeSlots :
          /\ s1 # s2
          /\ LET boot == [runs EXCEPT ![s1] = Entering("once", generation, "sweep", "none", inFlight)]
             IN IF running
                  THEN /\ runs' = boot
                       /\ inFlight' = inFlight \union {"sweep"}
                       /\ UNCHANGED <<running, generation, timers>>
                  ELSE /\ generation < MaxGeneration
                       /\ StartWith(generation + 1, timers, s2, boot, inFlight \union {"sweep"})
    BY DEF StartPoller
  <1> DEFINE e == Entering("once", generation, "sweep", "none", inFlight)
             boot == [runs EXCEPT ![s1] = e]
  <1>2. /\ generation \in Gens /\ runs \in [Slots -> Run] /\ inFlight \in SUBSET Cycles
        /\ timers \in [Chains -> [Gens -> Nat]] /\ running \in BOOLEAN
        /\ s1 \in Slots /\ s2 \in Slots /\ runs[s1].pc = "free" /\ runs[s2].pc = "free"
        /\ "sweep" \in Cycles /\ "none" \in Cycles \union {"none"} /\ "once" \notin Chains
    BY DEF IInv, TypeOK, FreeSlots, Live, Cycles
  <1>3. Sound(runs, generation) /\ Owned(runs, inFlight)
    BY DEF IInv, RunsAreSound, LatchesAreOwned, Sound, Owned
  <1>4. Entered(e, "once", generation, "sweep", inFlight)
    BY <1>2, EnteringFacts
  <1> HIDE DEF e
  <1>5. /\ boot \in [Slots -> Run]
        /\ inFlight \union {"sweep"} \in SUBSET Cycles
        /\ Sound(boot, generation)
        /\ Owned(boot, inFlight \union {"sweep"})
    <2>1. generation <= generation /\ runs[s1].pc # "busy"
      BY <1>2 DEF Gens
    <2> QED
      BY <1>2, <1>3, <1>4, <2>1, LaunchFacts
  <1>6. \A a \in Slots : boot[a] = IF a = s1 THEN e ELSE runs[a]
    BY <1>2
  <1>7. e.pc # "free" => e.chain = "once"
    BY <1>4 DEF Entered
  <1>8. CASE running
    <2>1. runs' = boot /\ inFlight' = inFlight \union {"sweep"} /\ UNCHANGED <<running, generation, timers>>
      BY <1>1, <1>8 DEF e
    <2> HIDE DEF boot
    <2>2. \A c \in Chains, h \in Gens : \A a \in Slots : RunOf(a, c, h)' <=> RunOf(a, c, h)
      BY <1>2, <1>6, <1>7, <2>1 DEF RunOf, Live
    <2>3. TypeOK' /\ RunsAreSound' /\ LatchesAreOwned'
      BY <1>2, <1>5, <2>1 DEF TypeOK, RunsAreSound, Sound, LatchesAreOwned, Owned
    <2>4. TimersAreCurrent' /\ OneChainEach'
      BY <1>2, <2>1, <2>2 DEF IInv, TimersAreCurrent, OneChainEach
    <2> QED
      BY <2>3, <2>4 DEF IInv
  <1>9. CASE ~running
    <2>1. generation < MaxGeneration /\ StartWith(generation + 1, timers, s2, boot, inFlight \union {"sweep"})
      BY <1>1, <1>9 DEF e
    <2>2. timers = NoTimers
      <3> HIDE DEF boot
      <3>1. \A c \in Chains, h \in Gens : timers[c][h] \in Nat
        BY <1>2
      <3>2. \A c \in Chains, h \in Gens : ~(timers[c][h] > 0)
        BY <1>9 DEF IInv, TimersAreCurrent
      <3>3. \A c \in Chains, h \in Gens : timers[c][h] = 0
        BY <3>1, <3>2
      <3> QED
        BY <1>2, <3>3 DEF NoTimers
    <2>3. generation + 1 \in Gens /\ generation < generation + 1
      BY <1>2, <2>1 DEF Gens
    <2>4. boot[s2].pc = "free"
      BY <1>1, <1>2, <1>6
    <2> HIDE DEF boot
    <2>5. \A c \in Chains, h \in Gens : \A a, b \in Slots :
              /\ boot[a].pc # "free" /\ boot[a].chain = c /\ boot[a].gen = h
              /\ boot[b].pc # "free" /\ boot[b].chain = c /\ boot[b].gen = h
              => a = b
      <3>1. \A c \in Chains, h \in Gens : \A a, b \in Slots :
              /\ runs[a].pc # "free" /\ runs[a].chain = c /\ runs[a].gen = h
              /\ runs[b].pc # "free" /\ runs[b].chain = c /\ runs[b].gen = h
              => a = b
        BY DEF IInv, OneChainEach, RunOf, Live
      <3>2. \A a \in Slots, c \in Chains :
               boot[a].pc # "free" /\ boot[a].chain = c => a # s1 /\ boot[a] = runs[a]
        BY <1>2, <1>6, <1>7
      <3> QED
        BY <3>1, <3>2
    <2>6. TypeOK
      BY DEF IInv
    <2> QED
      BY <1>2, <1>5, <2>1, <2>2, <2>3, <2>4, <2>5, <2>6, StartStep
  <1> QED
    BY <1>2, <1>8, <1>9

LEMMA StopStep == ASSUME IInv, Stop PROVE IInv'
  <1>1. /\ generation \in Gens /\ generation' = generation + 1 /\ generation' \in Gens
        /\ running' = FALSE /\ timers' = NoTimers /\ UNCHANGED <<runs, inFlight>>
    BY DEF IInv, TypeOK, Stop, Gens
  <1>2. TypeOK'
    BY <1>1 DEF IInv, TypeOK, NoTimers
  <1>3. RunsAreSound'
    BY <1>1 DEF IInv, RunsAreSound, TypeOK, Gens, Run
  <1>4. LatchesAreOwned'
    BY <1>1 DEF IInv, LatchesAreOwned
  <1>5. TimersAreCurrent'
    BY <1>1 DEF TimersAreCurrent, NoTimers
  <1>6. OneChainEach'
    BY <1>1 DEF IInv, OneChainEach, RunOf, Live, NoTimers
  <1> QED
    BY <1>2, <1>3, <1>4, <1>5, <1>6 DEF IInv

LEMMA ReconfigureStep == ASSUME IInv, Reconfigure PROVE IInv'
  <1>1. PICK s \in FreeSlots : StartWith(generation + 2, NoTimers, s, runs, inFlight)
    BY DEF Reconfigure
  <1>2. /\ generation + 2 \in Gens /\ generation < generation + 2 /\ generation \in Gens
        /\ s \in Slots /\ runs[s].pc = "free"
        /\ runs \in [Slots -> Run] /\ inFlight \in SUBSET Cycles
    BY DEF IInv, TypeOK, Reconfigure, Gens, FreeSlots, Live
  <1>3. Sound(runs, generation) /\ Owned(runs, inFlight)
    BY DEF IInv, RunsAreSound, LatchesAreOwned, Sound, Owned
  <1>4. \A c \in Chains, h \in Gens : \A a, b \in Slots :
              /\ runs[a].pc # "free" /\ runs[a].chain = c /\ runs[a].gen = h
              /\ runs[b].pc # "free" /\ runs[b].chain = c /\ runs[b].gen = h
              => a = b
    BY DEF IInv, OneChainEach, RunOf, Live
  <1>5. TypeOK
    BY DEF IInv
  <1> QED
    BY <1>1, <1>2, <1>3, <1>4, <1>5, StartStep

LEMMA TimerFiresStep ==
    ASSUME IInv, NEW c \in Chains, NEW g \in Gens, TimerFires(c, g) PROVE IInv'
  <1>1. /\ generation \in Gens /\ runs \in [Slots -> Run] /\ inFlight \in SUBSET Cycles
        /\ timers \in [Chains -> [Gens -> Nat]] /\ running \in BOOLEAN
        /\ UNCHANGED <<running, generation>>
        /\ timers' = [timers EXCEPT ![c][g] = @ - 1]
    BY DEF IInv, TypeOK, TimerFires
  <1>2. g = generation /\ running /\ timers[c][g] = 1
    <2>1. timers[c][g] > 0 /\ timers[c][g] \in Nat
      BY <1>1 DEF TimerFires
    <2>2. running /\ g = generation
      BY <2>1 DEF IInv, TimersAreCurrent
    <2>3. timers[c][g] <= 1
      BY DEF IInv, OneChainEach
    <2> QED
      BY <2>1, <2>2, <2>3
  <1>3. PICK s \in FreeSlots :
          /\ runs' = [runs EXCEPT ![s] = Entering(c, g, FirstCycle(c), ThenCycle(c), inFlight)]
          /\ inFlight' = inFlight \union {FirstCycle(c)}
    BY <1>2 DEF TimerFires
  <1> DEFINE e == Entering(c, g, FirstCycle(c), ThenCycle(c), inFlight)
  <1>4. FirstCycle(c) \in Cycles /\ ThenCycle(c) \in Cycles \union {"none"}
    BY DEF FirstCycle, ThenCycle, Cycles
  <1>5. Entered(e, c, g, FirstCycle(c), inFlight)
    BY <1>4, EnteringFacts
  <1> HIDE DEF e
  <1>6. s \in Slots /\ runs[s].pc = "free"
    BY DEF FreeSlots, Live
  <1>7. /\ runs' \in [Slots -> Run]
        /\ inFlight' \in SUBSET Cycles
        /\ Sound(runs', generation)
        /\ Owned(runs', inFlight')
    <2>1. Sound(runs, generation) /\ Owned(runs, inFlight)
      BY DEF IInv, RunsAreSound, LatchesAreOwned, Sound, Owned
    <2>2. generation <= generation /\ g <= generation /\ runs[s].pc # "busy"
      BY <1>1, <1>2, <1>6 DEF Gens
    <2>3. runs' = [runs EXCEPT ![s] = e] /\ inFlight' = inFlight \union {FirstCycle(c)}
      BY <1>3 DEF e
    <2> QED
      BY <1>1, <1>4, <1>5, <1>6, <2>1, <2>2, <2>3, LaunchFacts
  <1>8. \A d \in Chains, h \in Gens :
            timers'[d][h] = IF d = c /\ h = g THEN 0 ELSE timers[d][h]
    BY <1>1, <1>2
  <1>9. \A a \in Slots : runs'[a] = IF a = s THEN e ELSE runs[a]
    BY <1>1, <1>3 DEF e
  <1>10. e.pc # "free" /\ e.chain = c /\ e.gen = g
    BY <1>5 DEF Entered
  <1>11. TypeOK'
    <2>1. timers' \in [Chains -> [Gens -> Nat]]
      BY <1>1, <1>2
    <2> QED
      BY <1>1, <1>7, <2>1 DEF TypeOK
  <1>12. RunsAreSound' /\ LatchesAreOwned'
    BY <1>1, <1>7 DEF RunsAreSound, Sound, LatchesAreOwned, Owned
  <1>13. TimersAreCurrent'
    BY <1>1, <1>8 DEF IInv, TimersAreCurrent
  <1>14. OneChainEach'
    <2>1. \A a \in Slots : ~RunOf(a, c, g)
      BY <1>2 DEF IInv, OneChainEach
    <2>2. \A d \in Chains, h \in Gens : \A a \in Slots :
             RunOf(a, d, h)' <=> IF a = s THEN d = c /\ h = g ELSE RunOf(a, d, h)
      BY <1>9, <1>10 DEF RunOf, Live
    <2>3. \A d \in Chains, h \in Gens : timers'[d][h] <= 1
      BY <1>8 DEF IInv, OneChainEach
    <2>4. \A d \in Chains, h \in Gens :
             timers'[d][h] = 1 => \A a \in Slots : ~RunOf(a, d, h)'
      BY <1>8, <2>2 DEF IInv, OneChainEach
    <2>5. \A d \in Chains, h \in Gens : \A a, b \in Slots : RunOf(a, d, h)' /\ RunOf(b, d, h)' => a = b
      <3>1. \A d \in Chains, h \in Gens : \A a, b \in Slots : RunOf(a, d, h) /\ RunOf(b, d, h) => a = b
        BY DEF IInv, OneChainEach
      <3> QED
        BY <2>1, <2>2, <3>1
    <2>6. \A d \in Chains : timers'[d][generation] = 1 \/ \E a \in Slots : RunOf(a, d, generation)'
      <3> SUFFICES ASSUME NEW d \in Chains
                   PROVE timers'[d][generation] = 1 \/ \E a \in Slots : RunOf(a, d, generation)'
        OBVIOUS
      <3>1. CASE d = c
        BY <1>1, <1>2, <1>6, <2>2, <3>1
      <3>2. CASE d # c
        <4>1. timers[d][generation] = 1 \/ \E a \in Slots : RunOf(a, d, generation)
          BY <1>2 DEF IInv, OneChainEach
        <4>2. \A a \in Slots : RunOf(a, d, generation) => RunOf(a, d, generation)'
          BY <1>1, <1>6, <2>2 DEF RunOf, Live
        <4> QED
          BY <1>1, <1>8, <3>2, <4>1, <4>2
      <3> QED
        BY <3>1, <3>2
    <2> QED
      BY <1>1, <2>3, <2>4, <2>5, <2>6 DEF OneChainEach
  <1> QED
    BY <1>11, <1>12, <1>13, <1>14 DEF IInv

LEMMA NudgeStep == ASSUME IInv, Nudge PROVE IInv'
  <1>1. PICK s \in FreeSlots, body \in NudgeBodies :
          /\ runs' = [runs EXCEPT ![s] = Entering("once", generation, body[1], body[2], inFlight)]
          /\ inFlight' = inFlight \union {body[1]}
    BY DEF Nudge
  <1>a. body \in {<<"queue", "none">>, <<"detail", "none">>, <<"sweep", "detail">>}
    BY DEF NudgeBodies, CyclesOf
  <1> DEFINE e == Entering("once", generation, body[1], body[2], inFlight)
  <1>2. /\ generation \in Gens /\ runs \in [Slots -> Run] /\ inFlight \in SUBSET Cycles
        /\ UNCHANGED <<running, generation, timers>>
        /\ s \in Slots /\ runs[s].pc = "free"
        /\ body[1] \in Cycles /\ body[2] \in Cycles \union {"none"}
        /\ "once" \notin Chains
    BY <1>a DEF IInv, TypeOK, Nudge, FreeSlots, Live, Cycles
  <1>3. Entered(e, "once", generation, body[1], inFlight)
    BY <1>2, EnteringFacts
  <1> HIDE DEF e
  <1>4. /\ runs' \in [Slots -> Run]
        /\ inFlight' \in SUBSET Cycles
        /\ Sound(runs', generation)
        /\ Owned(runs', inFlight')
    <2>1. Sound(runs, generation) /\ Owned(runs, inFlight)
      BY DEF IInv, RunsAreSound, LatchesAreOwned, Sound, Owned
    <2>2. generation <= generation /\ runs[s].pc # "busy"
      BY <1>2 DEF Gens
    <2>3. runs' = [runs EXCEPT ![s] = e] /\ inFlight' = inFlight \union {body[1]}
      BY <1>1 DEF e
    <2> QED
      BY <1>2, <1>3, <2>1, <2>2, <2>3, LaunchFacts
  <1>5. \A a \in Slots : runs'[a] = IF a = s THEN e ELSE runs[a]
    BY <1>1, <1>2 DEF e
  <1>6. \A c \in Chains, h \in Gens : \A a \in Slots : RunOf(a, c, h)' <=> RunOf(a, c, h)
    BY <1>2, <1>3, <1>5 DEF Entered, RunOf, Live
  <1>7. TypeOK' /\ RunsAreSound' /\ LatchesAreOwned'
    BY <1>2, <1>4 DEF IInv, TypeOK, RunsAreSound, Sound, LatchesAreOwned, Owned
  <1>8. TimersAreCurrent' /\ OneChainEach'
    BY <1>2, <1>6 DEF IInv, TimersAreCurrent, OneChainEach
  <1> QED
    BY <1>7, <1>8 DEF IInv

LEMMA CycleEndsStep == ASSUME IInv, NEW s \in Slots, CycleEnds(s) PROVE IInv'
  <1>1. PICK e \in {Returned(runs[s]), Ended(runs[s])} : runs' = [runs EXCEPT ![s] = e]
    BY DEF CycleEnds
  <1>2. /\ generation \in Gens /\ runs \in [Slots -> Run] /\ inFlight \in SUBSET Cycles
        /\ UNCHANGED <<running, generation, timers>>
        /\ runs[s] \in Run /\ runs[s].pc = "busy"
        /\ inFlight' = inFlight \ {runs[s].cycle}
    BY DEF IInv, TypeOK, CycleEnds
  <1>3. /\ e \in Run
        /\ e.gen <= runs[s].gen
        /\ e.pc # "busy"
        /\ e.pc # "free" => e.chain = runs[s].chain /\ e.gen = runs[s].gen
        /\ runs[s].chain \in Chains => e.pc # "free"
        /\ e.pc = "settled" => e.chain \in Chains
        /\ e.pc = "passed" => e.then # "none"
    BY <1>2, CycleEndFacts
  <1>4. \A a \in Slots : runs'[a] = IF a = s THEN e ELSE runs[a]
    BY <1>1, <1>2
  <1>5. \A c \in Chains, h \in Gens : \A a \in Slots : RunOf(a, c, h)' <=> RunOf(a, c, h)
    BY <1>2, <1>3, <1>4 DEF RunOf, Live
  <1>6. TypeOK'
    BY <1>1, <1>2, <1>3 DEF IInv, TypeOK
  <1>7. RunsAreSound'
    BY <1>2, <1>3, <1>4 DEF IInv, RunsAreSound, Run, Gens
  <1>8. LatchesAreOwned'
    BY <1>2, <1>3, <1>4 DEF IInv, LatchesAreOwned
  <1>9. TimersAreCurrent' /\ OneChainEach'
    BY <1>2, <1>5 DEF IInv, TimersAreCurrent, OneChainEach
  <1> QED
    BY <1>6, <1>7, <1>8, <1>9 DEF IInv

LEMMA ProceedStep == ASSUME IInv, NEW s \in Slots, Proceed(s) PROVE IInv'
  <1> DEFINE r == runs[s]
             e == Entering(r.chain, r.gen, r.then, "none", inFlight)
  <1>1. /\ generation \in Gens /\ runs \in [Slots -> Run] /\ inFlight \in SUBSET Cycles
        /\ UNCHANGED <<running, generation, timers>>
        /\ r \in Run /\ r.pc = "passed"
    BY DEF IInv, TypeOK, Proceed
  <1>2. r.then \in Cycles /\ r.gen \in Gens /\ r.gen <= generation /\ r.chain \in Chains \union {"once"}
    BY <1>1 DEF IInv, RunsAreSound, Run
  <1>3. Entered(e, r.chain, r.gen, r.then, inFlight)
    BY <1>2, EnteringFacts
  <1>4. runs' = [runs EXCEPT ![s] = e] /\ inFlight' = inFlight \union {r.then}
    BY DEF Proceed
  <1> HIDE DEF e
  <1>5. /\ runs' \in [Slots -> Run]
        /\ inFlight' \in SUBSET Cycles
        /\ Sound(runs', generation)
        /\ Owned(runs', inFlight')
    <2>1. Sound(runs, generation) /\ Owned(runs, inFlight)
      BY DEF IInv, RunsAreSound, LatchesAreOwned, Sound, Owned
    <2>2. generation <= generation /\ runs[s].pc # "busy"
      BY <1>1 DEF Gens
    <2> QED
      BY <1>1, <1>2, <1>3, <1>4, <2>1, <2>2, LaunchFacts
  <1>6. \A a \in Slots : runs'[a] = IF a = s THEN e ELSE runs[a]
    BY <1>1, <1>4
  <1>7. \A c \in Chains, h \in Gens : \A a \in Slots : RunOf(a, c, h)' <=> RunOf(a, c, h)
    BY <1>1, <1>3, <1>6 DEF Entered, RunOf, Live
  <1>8. TypeOK' /\ RunsAreSound' /\ LatchesAreOwned'
    BY <1>1, <1>5 DEF IInv, TypeOK, RunsAreSound, Sound, LatchesAreOwned, Owned
  <1>9. TimersAreCurrent' /\ OneChainEach'
    BY <1>1, <1>7 DEF IInv, TimersAreCurrent, OneChainEach
  <1> QED
    BY <1>8, <1>9 DEF IInv

LEMMA SettleStep == ASSUME IInv, NEW s \in Slots, Settle(s) PROVE IInv'
  <1> DEFINE c == runs[s].chain
             g == runs[s].gen
  <1>1. /\ generation \in Gens /\ runs \in [Slots -> Run] /\ inFlight \in SUBSET Cycles
        /\ timers \in [Chains -> [Gens -> Nat]] /\ running \in BOOLEAN
        /\ UNCHANGED <<running, generation, inFlight>>
        /\ runs[s] \in Run /\ runs[s].pc = "settled"
        /\ runs' = [runs EXCEPT ![s] = NoRun]
    BY DEF IInv, TypeOK, Settle
  <1>2. c \in Chains /\ g \in Gens
    BY <1>1 DEF IInv, RunsAreSound, Run
  <1>3. \A a \in Slots : runs'[a] = IF a = s THEN NoRun ELSE runs[a]
    BY <1>1
  <1>4. RunOf(s, c, g) /\ timers[c][g] = 0
    <2>1. RunOf(s, c, g)
      BY <1>1 DEF RunOf, Live
    <2>2. timers[c][g] <= 1 /\ timers[c][g] # 1
      BY <1>2, <2>1 DEF IInv, OneChainEach
    <2>3. timers[c][g] \in Nat
      BY <1>1, <1>2
    <2> QED
      BY <2>1, <2>2, <2>3
  <1>5. \A d \in Chains, h \in Gens : \A a \in Slots :
            RunOf(a, d, h)' <=> a # s /\ RunOf(a, d, h)
    BY <1>3 DEF RunOf, Live, NoRun
  <1>11. \A d \in Chains : \A a \in Slots :
            RunOf(a, d, generation)' <=> a # s /\ RunOf(a, d, generation)
    BY <1>1, <1>3 DEF RunOf, Live, NoRun
  <1>6. runs' \in [Slots -> Run]
    BY <1>1 DEF NoRun, Run, Gens, Cycles
  <1>7. RunsAreSound' /\ LatchesAreOwned'
    BY <1>1, <1>3 DEF IInv, RunsAreSound, LatchesAreOwned, NoRun, Gens
  <1>8. \A d \in Chains, h \in Gens : \A a, b \in Slots : RunOf(a, d, h)' /\ RunOf(b, d, h)' => a = b
    BY <1>5 DEF IInv, OneChainEach
  <1>9. CASE running /\ g = generation
    <2>1. timers' = [timers EXCEPT ![c][g] = @ + 1]
      BY <1>9 DEF Settle
    <2>2. \A d \in Chains, h \in Gens :
             timers'[d][h] = IF d = c /\ h = g THEN 1 ELSE timers[d][h]
      BY <1>1, <1>4, <2>1
    <2>3. \A a \in Slots : RunOf(a, c, g) => a = s
      BY <1>2, <1>4 DEF IInv, OneChainEach
    <2>4. TypeOK'
      <3>2. timers' = [timers EXCEPT ![c] = [timers[c] EXCEPT ![g] = @ + 1]]
        BY <2>1
      <3> HIDE DEF c, g
      <3>4. timers[c] \in [Gens -> Nat] /\ timers[c][g] + 1 \in Nat
        BY <1>1, <1>2
      <3>1. [timers[c] EXCEPT ![g] = @ + 1] \in [Gens -> Nat]
        BY <3>4
      <3>3. timers' \in [Chains -> [Gens -> Nat]]
        BY <1>1, <1>2, <3>1, <3>2
      <3> QED
        BY <1>1, <1>6, <3>3 DEF TypeOK
    <2>5. TimersAreCurrent'
      BY <1>1, <1>9, <2>2 DEF IInv, TimersAreCurrent
    <2>6. \A d \in Chains, h \in Gens :
            timers'[d][h] <= 1 /\ (timers'[d][h] = 1 => \A a \in Slots : ~RunOf(a, d, h)')
      BY <1>5, <2>2, <2>3 DEF IInv, OneChainEach
    <2>7. \A d \in Chains : timers'[d][generation'] = 1 \/ \E a \in Slots : RunOf(a, d, generation)'
      <3> SUFFICES ASSUME NEW d \in Chains, d # c
                   PROVE timers'[d][generation'] = 1 \/ \E a \in Slots : RunOf(a, d, generation)'
        BY <1>1, <1>9, <2>2
      <3>1. timers[d][generation] = 1 \/ \E a \in Slots : RunOf(a, d, generation)
        BY <1>9 DEF IInv, OneChainEach
      <3>2. \A a \in Slots : RunOf(a, d, generation) => a # s
        BY DEF RunOf
      <3> QED
        BY <1>1, <1>11, <2>2, <3>1, <3>2
    <2> QED
      BY <1>7, <1>8, <2>4, <2>5, <2>6, <2>7 DEF IInv, OneChainEach
  <1>10. CASE ~(running /\ g = generation)
    <2>1. timers' = timers
      BY <1>10 DEF Settle
    <2>2. TypeOK' /\ TimersAreCurrent'
      BY <1>1, <1>6, <2>1 DEF IInv, TypeOK, TimersAreCurrent
    <2>3. \A d \in Chains, h \in Gens :
            timers'[d][h] <= 1 /\ (timers'[d][h] = 1 => \A a \in Slots : ~RunOf(a, d, h)')
      BY <1>5, <2>1 DEF IInv, OneChainEach
    <2>4. running => \A d \in Chains :
             timers'[d][generation'] = 1 \/ \E a \in Slots : RunOf(a, d, generation)'
      <3> SUFFICES ASSUME running, NEW d \in Chains
                   PROVE timers'[d][generation'] = 1 \/ \E a \in Slots : RunOf(a, d, generation)'
        OBVIOUS
      <3>1. timers[d][generation] = 1 \/ \E a \in Slots : RunOf(a, d, generation)
        BY DEF IInv, OneChainEach
      <3>2. \A a \in Slots : RunOf(a, d, generation) => a # s
        BY <1>10 DEF RunOf
      <3> QED
        BY <1>1, <1>11, <2>1, <3>1, <3>2
    <2> QED
      BY <1>1, <1>7, <1>8, <2>2, <2>3, <2>4 DEF IInv, OneChainEach
  <1> QED
    BY <1>9, <1>10

-----------------------------------------------------------------------------
(* The inductive invariant, and with it the three safety properties.         *)
LEMMA NextIInv == IInv /\ [Next]_vars => IInv'
  <1> SUFFICES ASSUME IInv, [Next]_vars PROVE IInv'
    OBVIOUS
  <1>1. CASE StartPoller
    BY <1>1, StartPollerStep
  <1>2. CASE Stop
    BY <1>2, StopStep
  <1>3. CASE Reconfigure
    BY <1>3, ReconfigureStep
  <1>4. CASE Nudge
    BY <1>4, NudgeStep
  <1>5. ASSUME NEW c \in Chains, NEW g \in Gens, TimerFires(c, g) PROVE IInv'
    BY <1>5, TimerFiresStep
  <1>6. ASSUME NEW s \in Slots, CycleEnds(s) PROVE IInv'
    BY <1>6, CycleEndsStep
  <1>7. ASSUME NEW s \in Slots, Proceed(s) PROVE IInv'
    BY <1>7, ProceedStep
  <1>8. ASSUME NEW s \in Slots, Settle(s) PROVE IInv'
    BY <1>8, SettleStep
  <1>9. CASE UNCHANGED vars
    <2>1. UNCHANGED <<running, generation, timers, runs, inFlight>>
      BY <1>9 DEF vars
    <2> QED
      BY <2>1 DEF IInv, TypeOK, RunsAreSound, TimersAreCurrent, OneChainEach, LatchesAreOwned, RunOf, Live
  <1> QED
    BY <1>1, <1>2, <1>3, <1>4, <1>5, <1>6, <1>7, <1>8, <1>9 DEF Next

LEMMA Invariance == Spec => []IInv
  BY InitIInv, NextIInv, PTL DEF Spec

\* The poller's scheduling state always has the type the code gives it.
THEOREM TypeCorrect == Spec => []TypeOK
  <1>1. IInv => TypeOK
    BY DEF IInv
  <1> QED
    BY <1>1, Invariance, PTL

\* stop() and reconfigure() leave no timer behind: whatever is armed belongs to
\* the current generation of a running poller.
THEOREM NoStaleTimer == Spec => []TimersAreCurrent
  <1>1. IInv => TimersAreCurrent
    BY DEF IInv
  <1> QED
    BY <1>1, Invariance, PTL

\* However starts, stops, hot-applies, nudges and slow fetches interleave, no
\* timer chain is duplicated and none of a running poller is lost.
THEOREM NoChainDuplicatedOrLost == Spec => []OneChainEach
  <1>1. IInv => OneChainEach
    BY DEF IInv
  <1> QED
    BY <1>1, Invariance, PTL

\* A cycle never runs twice at once and no latch outlives the run that took it.
THEOREM LatchesExclusive == Spec => []LatchesAreOwned
  <1>1. IInv => LatchesAreOwned
    BY DEF IInv
  <1> QED
    BY <1>1, Invariance, PTL

-----------------------------------------------------------------------------
LEMMA TasksStep == IInv /\ IInv' /\ [Next]_vars => [Tasks!TNext]_TaskState
  <1> SUFFICES ASSUME IInv, IInv', [Next]_vars PROVE [Tasks!TNext]_TaskState
    OBVIOUS
  <1> DEFINE Same == UNCHANGED <<running, generation, timers>>
             Waiting == [c \in Chains |-> "waiting"]
  <1>0. running \in BOOLEAN /\ running' \in BOOLEAN
    BY DEF IInv, TypeOK
  <1>1. Same => TaskState' = TaskState
    BY DEF TaskState
  <1>2. ASSUME NEW g \in Gens, NEW t \in [Chains -> [Gens -> Nat]], timers' = ArmAll(t, g),
               running' = TRUE, generation' = g
        PROVE TaskState' = Waiting
    <2>1. \A c \in Chains : timers'[c][g] = t[c][g] + 1 /\ t[c][g] \in Nat
      BY <1>2 DEF ArmAll
    <2>2. \A c \in Chains : timers'[c][generation'] > 0
      BY <1>2, <2>1
    <2> QED
      BY <1>2, <2>2 DEF TaskState
  <1>3. CASE StartPoller
    <2>1. CASE running
      BY <1>1, <1>3, <2>1 DEF StartPoller
    <2>2. CASE ~running
      <3>1. Tasks!AllOff
        BY <2>2 DEF TaskState, Tasks!AllOff
      <3>2. /\ generation < MaxGeneration /\ running' = TRUE /\ generation' = generation + 1
            /\ timers' = ArmAll(timers, generation + 1)
        BY <1>3, <2>2 DEF StartPoller, StartWith
      <3>3. generation + 1 \in Gens /\ timers \in [Chains -> [Gens -> Nat]]
        BY <3>2 DEF IInv, TypeOK, Gens
      <3>4. TaskState' = Waiting
        BY <1>2, <3>2, <3>3
      <3> QED
        BY <3>1, <3>4 DEF Tasks!TNext, Tasks!SwitchOn
    <2> QED
      BY <2>1, <2>2
  <1>4. CASE Stop
    <2>1. TaskState' = [c \in Chains |-> "off"]
      BY <1>4 DEF Stop, TaskState
    <2> QED
      BY <2>1 DEF Tasks!TNext, Tasks!SwitchOff
  <1>5. CASE Reconfigure
    <2>1. \A c \in Chains : TaskState[c] # "off"
      BY <1>5 DEF Reconfigure, TaskState
    <2>2. /\ generation + 2 \in Gens /\ running' = TRUE /\ generation' = generation + 2
          /\ timers' = ArmAll(NoTimers, generation + 2)
      BY <1>5 DEF Reconfigure, StartWith, IInv, TypeOK, Gens
    <2>3. NoTimers \in [Chains -> [Gens -> Nat]]
      BY DEF NoTimers
    <2>4. TaskState' = Waiting
      BY <1>2, <2>2, <2>3
    <2> QED
      BY <2>1, <2>4 DEF Tasks!TNext, Tasks!Restart
  <1>6. CASE Nudge
    BY <1>1, <1>6 DEF Nudge
  <1>7. ASSUME NEW c \in Chains, NEW g \in Gens, TimerFires(c, g)
        PROVE [Tasks!TNext]_TaskState
    <2>1. /\ running /\ g = generation /\ timers[c][g] = 1
          /\ UNCHANGED <<running, generation>>
          /\ timers' = [timers EXCEPT ![c][g] = @ - 1]
          /\ timers \in [Chains -> [Gens -> Nat]]
      <3>1. timers[c][g] > 0
        BY <1>7 DEF TimerFires
      <3>2. running /\ g = generation /\ timers[c][g] <= 1
        BY <3>1 DEF IInv, TimersAreCurrent, OneChainEach
      <3>3. timers[c][g] \in Nat
        BY DEF IInv, TypeOK
      <3> QED
        BY <1>7, <3>1, <3>2, <3>3 DEF TimerFires, IInv, TypeOK
    <2>2. \A d \in Chains : timers'[d][g] = IF d = c THEN 0 ELSE timers[d][g]
      BY <2>1
    <2>3. TaskState[c] = "waiting"
      BY <2>1 DEF TaskState
    <2>4. \A d \in Chains : TaskState'[d] = IF d = c THEN "busy" ELSE TaskState[d]
      BY <2>1, <2>2 DEF TaskState
    <2>5. TaskState' = [TaskState EXCEPT ![c] = "busy"]
      BY <2>4 DEF TaskState
    <2> QED
      BY <2>3, <2>5 DEF Tasks!TNext, Tasks!Tick
  <1>8. ASSUME NEW s \in Slots, CycleEnds(s) PROVE [Tasks!TNext]_TaskState
    BY <1>1, <1>8 DEF CycleEnds
  <1>9. ASSUME NEW s \in Slots, Proceed(s) PROVE [Tasks!TNext]_TaskState
    BY <1>1, <1>9 DEF Proceed
  <1>10. ASSUME NEW s \in Slots, Settle(s) PROVE [Tasks!TNext]_TaskState
    <2> DEFINE c == runs[s].chain
               g == runs[s].gen
    <2>1. CASE running /\ g = generation
      <3>1. /\ UNCHANGED <<running, generation>> /\ timers' = [timers EXCEPT ![c][g] = @ + 1]
            /\ timers \in [Chains -> [Gens -> Nat]] /\ runs[s] \in Run /\ runs[s].pc = "settled"
        BY <1>10, <2>1 DEF Settle, IInv, TypeOK
      <3>2. c \in Chains /\ g \in Gens /\ RunOf(s, c, g)
        BY <3>1 DEF IInv, RunsAreSound, Run, RunOf, Live
      <3>3. timers[c][g] = 0
        <4>1. timers[c][g] <= 1 /\ timers[c][g] # 1
          BY <3>2 DEF IInv, OneChainEach
        <4>2. timers[c][g] \in Nat
          BY <3>1, <3>2
        <4> QED
          BY <4>1, <4>2
      <3> HIDE DEF c, g
      <3>4. \A d \in Chains : timers'[d][g] = IF d = c THEN 1 ELSE timers[d][g]
        BY <3>1, <3>2, <3>3
      <3>5. TaskState[c] = "busy"
        BY <2>1, <3>2, <3>3 DEF TaskState
      <3>6. \A d \in Chains : TaskState'[d] = IF d = c THEN "waiting" ELSE TaskState[d]
        BY <2>1, <3>1, <3>4 DEF TaskState
      <3>7. TaskState' = [TaskState EXCEPT ![c] = "waiting"]
        BY <3>6 DEF TaskState
      <3> QED
        BY <3>2, <3>5, <3>7 DEF Tasks!TNext, Tasks!Tock
    <2>2. CASE ~(running /\ g = generation)
      BY <1>1, <1>10, <2>2 DEF Settle
    <2> QED
      BY <2>1, <2>2
  <1>11. CASE UNCHANGED vars
    BY <1>1, <1>11 DEF vars
  <1> QED
    BY <1>3, <1>4, <1>5, <1>6, <1>7, <1>8, <1>9, <1>10, <1>11 DEF Next

\* The timer chains implement a set of periodic tasks that start, stop and
\* restart as one.
THEOREM ChainsArePeriodicTasks == Spec => ImplementsPeriodicTasks
  <1>1. Init => Tasks!TInit
    BY DEF Init, Tasks!TInit, TaskState
  <1>2. IInv /\ IInv' /\ [Next]_vars => [Tasks!TNext]_TaskState
    BY TasksStep
  <1> QED
    BY <1>1, <1>2, Invariance, PTL DEF Spec, ImplementsPeriodicTasks, Tasks!TSpec

=============================================================================
