----------------------- MODULE RunningWorkRefinement -----------------------
(***************************************************************************)
(* The counters, channels and goroutines of RunningWork implement Drain.   *)
(***************************************************************************)
EXTENDS RunningWork

\* What a drain has seen of the work, read off its place and its channels.
SeenBy(d) ==
    IF wait[d] = "select"
    THEN IF signal[d] \in closed THEN "counted" ELSE "waiting"
    ELSE IF wait[d] = "legacy"
         THEN IF parked[d] = "returned" THEN "settled" ELSE "counted"
         ELSE wait[d]

D == INSTANCE Drain WITH Counted <- AppUnits \cup ModuleUnits,
                         Legacy  <- LegacyUnits,
                         running <- active,
                         phase   <- [d \in Drains |-> SeenBy(d)]

\* While every Done pairs with an Add, a counter is the number of units it counts.
Counts ==
    /\ extraDone = 0
    /\ IsFiniteSet(active)
    /\ appRunning = Cardinality(active \cap AppUnits)
    /\ moduleRunning = Cardinality(active \cap ModuleUnits)

\* While every Done pairs with an Add, the channel protocol keeps the promise of
\* Drain: a drain reports success only after it saw both the counted work and the
\* deprecated WaitGroup empty, and no moment of emptiness is missed.
DrainContract == D!Spec

=============================================================================
