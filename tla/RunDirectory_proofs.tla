------------------------ MODULE RunDirectory_proofs ------------------------
(***************************************************************************)
(* Theorems about RunDirectory, for any number of resumes, claims, halts,  *)
(* failed writes and deaths: a terminal run.json has its final report, a   *)
(* run that waits can be resumed, prune takes only what is finished, the   *)
(* last event says what is on disk, and a clear gate is earned.            *)
(*                                                                         *)
(* The argument is the lock's.  Whoever is past it holds it (Holding), so  *)
(* one process at a time replaces files, and what it is about to replace   *)
(* is as it left it (Pairing); the anchor, once written, stays the first   *)
(* line, and nobody but the fresh run goes on without it (Anchoring).      *)
(* The last event is followed through the stream (Saying), and the outcome *)
(* of a run from its ending to the file it is written to (Gating).         *)
(***************************************************************************)
EXTENDS RunDirectory, TLAPS

Waiting == {"idle", "ready", "out"}
Lines   == {"run_started", "halted", "finished", "broken"}
Fields  == {"life", "halt", "reason", "exit", "gate", "states", "ending"}

\* Enough of a type for the steps to be computed.
Shape ==
    /\ DOMAIN pc = Runs \union {Pruner}
    /\ lock \in Runs \union {Pruner, Nobody}
    /\ events \in [lines : Seq(Lines), torn : BOOLEAN]
    /\ DOMAIN meta = Fields
    /\ DOMAIN seen = Runs /\ \A p \in Runs : DOMAIN seen[p] = Fields
    /\ DOMAIN closing = Runs

\* Whoever is past the lock holds it.
Holding ==
    /\ \A p \in Runs : pc[p] \notin Waiting => lock = p
    /\ pc[Pruner] \in {"probing", "checking", "staged"} => lock = Pruner

\* What run.json says and what is on the way to disk belong together.
Pairing ==
    /\ meta.life = "terminal" => report = "final"
    /\ \A p \in Runs :
         /\ pc[p] = "halting" => meta.life # "terminal"
         /\ pc[p] = "reported" => report = "final"
         /\ pc[p] \in {"closing", "reported"} /\ meta.life = "terminal"
              => closing[p].prior = "final"

\* Before the fresh run has announced itself the stream is empty; from then
\* on its first line is the anchor.
Anchoring ==
    /\ \/ events.lines = <<>> /\ (events.torn => pc[Fresh] = "out")
       \/ Anchored(events)
    /\ meta.life # "none" => Anchored(events)
    /\ \A p \in Runs : pc[p] \notin Waiting \union {"locked"} => Anchored(events)
    /\ \A p \in Resumes : pc[p] # "idle" => Anchored(events)

Inv == Shape /\ Holding /\ Pairing /\ Anchoring

-----------------------------------------------------------------------------
(* The event stream.                                                       *)

\* A line more leaves an anchored stream anchored, and the first line of an
\* untorn stream is the line that was written.
LEMMA AppendedKeepsAnchor ==
    ASSUME NEW log \in [lines : Seq(Lines), torn : BOOLEAN], NEW line \in Lines
    PROVE  /\ Appended(log, line) \in [lines : Seq(Lines), torn : BOOLEAN]
           /\ Anchored(log) => Anchored(Appended(log, line))
           /\ log.lines = <<>> /\ ~log.torn /\ line = "run_started"
                => Anchored(Appended(log, line))
  BY DEF Appended, Anchored, Lines

\* A torn line changes no complete one.
LEMMA TearingKeepsAnchor ==
    ASSUME NEW log \in [lines : Seq(Lines), torn : BOOLEAN], NEW torn \in Tearing(log)
    PROVE  /\ torn \in [lines : Seq(Lines), torn : BOOLEAN]
           /\ torn.lines = log.lines
           /\ Anchored(log) => Anchored(torn)
  BY DEF Tearing, Anchored

\* Two processes are never past the lock together.
LEMMA Alone ==
    ASSUME Holding, NEW p \in Runs, pc[p] \notin Waiting
    PROVE  /\ lock = p
           /\ \A q \in Runs \ {p} : pc[q] \in Waiting
           /\ pc[Pruner] \notin {"probing", "checking", "staged"}
  BY ActorsAssumption DEF Holding, Runs

-----------------------------------------------------------------------------
(* One step, one part of the invariant at a time.                          *)

\* The variables keep their shape.
LEMMA ShapeStep ==
    ASSUME Shape, [Next]_vars
    PROVE  Shape'
<1> USE ActorsAssumption
<1>1. ASSUME NEW p \in Runs, Restore(p) PROVE Shape'
  BY <1>1 DEF Shape, disk, hist, mem, Restore, Step
<1>2. ASSUME NEW p \in Runs, TakeLock(p) PROVE Shape'
  BY <1>2 DEF Shape, disk, hist, mem, TakeLock, Step
<1>3. ASSUME NEW p \in Runs, LoseLock(p) PROVE Shape'
  BY <1>3 DEF Shape, disk, hist, mem, LoseLock, Leave, Free, Fail
<1>4. ASSUME NEW p \in Runs, Announce(p) PROVE Shape'
  BY <1>4, AppendedKeepsAnchor, TearingKeepsAnchor DEF Shape, Lines, disk, hist, mem, Announce, Step, Begin
<1>5. ASSUME NEW p \in Runs, AnnounceFails(p) PROVE Shape'
  BY <1>5, AppendedKeepsAnchor, TearingKeepsAnchor DEF Shape, Lines, disk, hist, mem, AnnounceFails, Leave, Free, Fail, Begin
<1>6. ASSUME NEW p \in Runs, Dispatch(p) PROVE Shape'
  BY <1>6 DEF Shape, disk, hist, mem, Dispatch
<1>7. ASSUME NEW p \in Runs, Record(p) PROVE Shape'
  BY <1>7 DEF Shape, disk, hist, mem, Record
<1>8. ASSUME NEW p \in Runs, BindResponse(p) PROVE Shape'
  BY <1>8 DEF Shape, disk, hist, mem, BindResponse, Step, Rewrite, Checkpointed, Answerable
<1>9. ASSUME NEW p \in Runs, Materialize(p) PROVE Shape'
  BY <1>9 DEF Shape, disk, hist, mem, Materialize, Step
<1>10. ASSUME NEW p \in Runs, ApplyResponse(p) PROVE Shape'
  BY <1>10 DEF Shape, disk, hist, mem, ApplyResponse, Step, Rewrite, Checkpointed
<1>11. ASSUME NEW p \in Runs, ConsumeResponse(p) PROVE Shape'
  BY <1>11 DEF Shape, disk, hist, mem, ConsumeResponse, Step
<1>12. ASSUME NEW p \in Runs, Refuse(p) PROVE Shape'
  BY <1>12 DEF Shape, disk, hist, mem, Refuse, Leave, Free, Fail
<1>13. ASSUME NEW p \in Runs, HaltMeta(p) PROVE Shape'
  BY <1>13 DEF Shape, hist, mem, Fields, HaltMeta, Step, NoMeta
<1>14. ASSUME NEW p \in Runs, HaltReport(p) PROVE Shape'
  BY <1>14 DEF Shape, disk, hist, mem, HaltReport, Step
<1>15. ASSUME NEW p \in Runs, Conclude(p) PROVE Shape'
  BY <1>15 DEF Shape, disk, hist, mem, Conclude, Step
<1>16. ASSUME NEW p \in Runs, CloseReport(p) PROVE Shape'
  BY <1>16 DEF Shape, disk, hist, mem, CloseReport, Step
<1>17. ASSUME NEW p \in Runs, CloseMeta(p) PROVE Shape'
  BY <1>17 DEF Shape, hist, mem, Fields, CloseMeta, Step, Final, NoMeta
<1>18. ASSUME NEW p \in Runs, RollBack(p) PROVE Shape'
  BY <1>18 DEF Shape, disk, hist, mem, RollBack, Leave, Free
<1>19. ASSUME NEW p \in Runs, SayFinished(p) PROVE Shape'
  BY <1>19, AppendedKeepsAnchor, TearingKeepsAnchor DEF Shape, Lines, disk, hist, mem, SayFinished, Leave, Free, LastWord
<1>20. ASSUME NEW p \in Runs, SayFinishedFails(p) PROVE Shape'
  BY <1>20, AppendedKeepsAnchor, TearingKeepsAnchor DEF Shape, Lines, disk, hist, mem, SayFinishedFails, Leave, Free
<1>21. ASSUME NEW p \in Runs, Crash(p) PROVE Shape'
  BY <1>21, AppendedKeepsAnchor, TearingKeepsAnchor DEF Shape, Lines, disk, hist, mem, Crash, Leave, Free
<1>22. CASE Create
  BY <1>22 DEF Shape, hist, mem, Create, Step, Runs
<1>23. CASE Probe
  BY <1>23 DEF Shape, disk, hist, mem, Probe, Step
<1>24. CASE ProbeEnds
  BY <1>24 DEF Shape, disk, hist, mem, ProbeEnds, Step
<1>25. CASE PruneLock
  BY <1>25 DEF Shape, disk, hist, mem, PruneLock, Step
<1>26. CASE Stage
  BY <1>26 DEF Shape, disk, hist, mem, Stage, Step
<1>27. CASE GiveUpPrune
  BY <1>27 DEF Shape, disk, hist, mem, GiveUpPrune, Free
<1>28. CASE RemoveTree
  BY <1>28 DEF Shape, disk, hist, mem, RemoveTree, Step, Free
<1>29. CASE Respond
  BY <1>29 DEF Shape, disk, hist, mem, Respond
<1>30. ASSUME NEW c \in Claims, NEW d \in {"fixed", "rejected", "accepted-risk"},
             NEW s \in Sites, Resolve(c, d, s)
      PROVE  Shape'
  BY <1>30 DEF Shape, disk, hist, mem, Resolve
<1>31. CASE UNCHANGED vars
  BY <1>31 DEF Shape, disk, hist, mem, vars
<1> QED
  BY <1>1, <1>2, <1>3, <1>4, <1>5, <1>6, <1>7, <1>8, <1>9, <1>10, <1>11, <1>12, <1>13,
   <1>14, <1>15, <1>16, <1>17, <1>18, <1>19, <1>20, <1>21, <1>22, <1>23, <1>24,
   <1>25, <1>26, <1>27, <1>28, <1>29, <1>30, <1>31 DEF Next, Run, Prune

\* Only whoever has the lock gets past it, and leaves it there.
LEMMA HoldingStep ==
    ASSUME Shape, Holding, [Next]_vars
    PROVE  Holding'
<1> USE ActorsAssumption
<1>1. ASSUME NEW p \in Runs, Restore(p) PROVE Holding'
  BY <1>1 DEF Shape, Holding, disk, hist, mem, Waiting, Runs, Restore, Step
<1>2. ASSUME NEW p \in Runs, TakeLock(p) PROVE Holding'
  BY <1>2 DEF Shape, Holding, disk, hist, mem, Waiting, Runs, TakeLock, Step
<1>3. ASSUME NEW p \in Runs, LoseLock(p) PROVE Holding'
  BY <1>3 DEF Shape, Holding, disk, hist, mem, Waiting, Runs, LoseLock, Leave, Free, Fail
<1>4. ASSUME NEW p \in Runs, Announce(p) PROVE Holding'
  BY <1>4 DEF Shape, Holding, disk, hist, mem, Waiting, Runs, Announce, Step, Begin
<1>5. ASSUME NEW p \in Runs, AnnounceFails(p) PROVE Holding'
  BY <1>5 DEF Shape, Holding, disk, hist, mem, Waiting, Runs, AnnounceFails, Leave, Free,
   Fail, Begin
<1>6. ASSUME NEW p \in Runs, Dispatch(p) PROVE Holding'
  BY <1>6 DEF Shape, Holding, disk, hist, mem, Waiting, Runs, Dispatch
<1>7. ASSUME NEW p \in Runs, Record(p) PROVE Holding'
  BY <1>7 DEF Shape, Holding, disk, hist, mem, Waiting, Runs, Record
<1>8. ASSUME NEW p \in Runs, BindResponse(p) PROVE Holding'
  BY <1>8 DEF Shape, Holding, disk, hist, mem, Waiting, Runs, BindResponse, Step, Rewrite,
   Checkpointed, Answerable
<1>9. ASSUME NEW p \in Runs, Materialize(p) PROVE Holding'
  BY <1>9 DEF Shape, Holding, disk, hist, mem, Waiting, Runs, Materialize, Step
<1>10. ASSUME NEW p \in Runs, ApplyResponse(p) PROVE Holding'
  BY <1>10 DEF Shape, Holding, disk, hist, mem, Waiting, Runs, ApplyResponse, Step,
   Rewrite, Checkpointed
<1>11. ASSUME NEW p \in Runs, ConsumeResponse(p) PROVE Holding'
  BY <1>11 DEF Shape, Holding, disk, hist, mem, Waiting, Runs, ConsumeResponse, Step
<1>12. ASSUME NEW p \in Runs, Refuse(p) PROVE Holding'
  BY <1>12 DEF Shape, Holding, disk, hist, mem, Waiting, Runs, Refuse, Leave, Free, Fail
<1>13. ASSUME NEW p \in Runs, HaltMeta(p) PROVE Holding'
  BY <1>13 DEF Shape, Holding, disk, hist, mem, Waiting, Runs, HaltMeta, Step
<1>14. ASSUME NEW p \in Runs, HaltReport(p) PROVE Holding'
  BY <1>14 DEF Shape, Holding, disk, hist, mem, Waiting, Runs, HaltReport, Step
<1>15. ASSUME NEW p \in Runs, Conclude(p) PROVE Holding'
  BY <1>15 DEF Shape, Holding, disk, hist, mem, Waiting, Runs, Conclude, Step
<1>16. ASSUME NEW p \in Runs, CloseReport(p) PROVE Holding'
  BY <1>16 DEF Shape, Holding, disk, hist, mem, Waiting, Runs, CloseReport, Step
<1>17. ASSUME NEW p \in Runs, CloseMeta(p) PROVE Holding'
  BY <1>17 DEF Shape, Holding, disk, hist, mem, Waiting, Runs, CloseMeta, Step
<1>18. ASSUME NEW p \in Runs, RollBack(p) PROVE Holding'
  BY <1>18 DEF Shape, Holding, disk, hist, mem, Waiting, Runs, RollBack, Leave, Free
<1>19. ASSUME NEW p \in Runs, SayFinished(p) PROVE Holding'
  BY <1>19 DEF Shape, Holding, disk, hist, mem, Waiting, Runs, SayFinished, Leave, Free
<1>20. ASSUME NEW p \in Runs, SayFinishedFails(p) PROVE Holding'
  BY <1>20 DEF Shape, Holding, disk, hist, mem, Waiting, Runs, SayFinishedFails, Leave, Free
<1>21. ASSUME NEW p \in Runs, Crash(p) PROVE Holding'
  BY <1>21 DEF Shape, Holding, disk, hist, mem, Waiting, Runs, Crash, Leave, Free
<1>22. CASE Create
  BY <1>22 DEF Shape, Holding, disk, hist, mem, Waiting, Runs, Create, Step
<1>23. CASE Probe
  BY <1>23 DEF Shape, Holding, disk, hist, mem, Waiting, Runs, Probe, Step
<1>24. CASE ProbeEnds
  BY <1>24 DEF Shape, Holding, disk, hist, mem, Waiting, Runs, ProbeEnds, Step
<1>25. CASE PruneLock
  BY <1>25 DEF Shape, Holding, disk, hist, mem, Waiting, Runs, PruneLock, Step
<1>26. CASE Stage
  BY <1>26 DEF Shape, Holding, disk, hist, mem, Waiting, Runs, Stage, Step
<1>27. CASE GiveUpPrune
  BY <1>27 DEF Shape, Holding, disk, hist, mem, Waiting, Runs, GiveUpPrune, Free
<1>28. CASE RemoveTree
  BY <1>28 DEF Shape, Holding, disk, hist, mem, Waiting, Runs, RemoveTree, Step, Free
<1>29. CASE Respond
  BY <1>29 DEF Shape, Holding, disk, hist, mem, Waiting, Runs, Respond
<1>30. ASSUME NEW c \in Claims, NEW d \in {"fixed", "rejected", "accepted-risk"},
             NEW s \in Sites, Resolve(c, d, s)
      PROVE  Holding'
  BY <1>30 DEF Shape, Holding, disk, hist, mem, Waiting, Runs, Resolve
<1>31. CASE UNCHANGED vars
  BY <1>31 DEF Shape, Holding, disk, hist, mem, Waiting, Runs, vars
<1> QED
  BY <1>1, <1>2, <1>3, <1>4, <1>5, <1>6, <1>7, <1>8, <1>9, <1>10, <1>11, <1>12, <1>13,
   <1>14, <1>15, <1>16, <1>17, <1>18, <1>19, <1>20, <1>21, <1>22, <1>23, <1>24,
   <1>25, <1>26, <1>27, <1>28, <1>29, <1>30, <1>31 DEF Next, Run, Prune

\* A file is replaced by whoever holds the lock, in the order that keeps the
\* pair true.
LEMMA PairingStep ==
    ASSUME Shape, Holding, Pairing, [Next]_vars
    PROVE  Pairing'
<1> USE ActorsAssumption
<1>1. ASSUME NEW p \in Runs, Restore(p) PROVE Pairing'
  BY <1>1, Alone DEF Shape, Pairing, Waiting, disk, hist, mem, Runs, Restore, Step
<1>2. ASSUME NEW p \in Runs, TakeLock(p) PROVE Pairing'
  BY <1>2, Alone DEF Shape, Pairing, Waiting, disk, hist, mem, Runs, TakeLock, Step
<1>3. ASSUME NEW p \in Runs, LoseLock(p) PROVE Pairing'
  BY <1>3, Alone DEF Shape, Pairing, Waiting, disk, hist, mem, Runs, LoseLock, Leave, Free,
   Fail
<1>4. ASSUME NEW p \in Runs, Announce(p) PROVE Pairing'
  BY <1>4, Alone DEF Shape, Pairing, Waiting, disk, hist, mem, Runs, Announce, Step, Begin
<1>5. ASSUME NEW p \in Runs, AnnounceFails(p) PROVE Pairing'
  BY <1>5, Alone DEF Shape, Pairing, Waiting, disk, hist, mem, Runs, AnnounceFails, Leave,
   Free, Fail, Begin
<1>6. ASSUME NEW p \in Runs, Dispatch(p) PROVE Pairing'
  BY <1>6, Alone DEF Shape, Pairing, Waiting, disk, hist, mem, Runs, Dispatch
<1>7. ASSUME NEW p \in Runs, Record(p) PROVE Pairing'
  BY <1>7, Alone DEF Shape, Pairing, Waiting, disk, hist, mem, Runs, Record
<1>8. ASSUME NEW p \in Runs, BindResponse(p) PROVE Pairing'
  <2>1. pc[p] \notin Waiting /\ pc'[p] \in {"bound", "applying"}
    BY <1>8 DEF Shape, Waiting, Runs, BindResponse, Step
  <2>2. \A q \in Runs : q # p => pc'[q] = pc[q] /\ pc[q] \in Waiting
    BY <1>8, <2>1, Alone DEF Shape, BindResponse, Step
  <2>3. report' = report /\ closing' = closing
    BY <1>8 DEF BindResponse
  <2>4. meta' = meta \/ meta'.life = "response-applying"
    BY <1>8 DEF BindResponse, Rewrite, Shape, Fields
  <2> QED
    BY <2>1, <2>2, <2>3, <2>4 DEF Pairing, Waiting
<1>9. ASSUME NEW p \in Runs, Materialize(p) PROVE Pairing'
  BY <1>9, Alone DEF Shape, Pairing, Waiting, disk, hist, mem, Runs, Materialize, Step
<1>10. ASSUME NEW p \in Runs, ApplyResponse(p) PROVE Pairing'
  BY <1>10, Alone DEF Shape, Pairing, Waiting, disk, hist, mem, Runs, ApplyResponse, Step,
   Rewrite, Checkpointed
<1>11. ASSUME NEW p \in Runs, ConsumeResponse(p) PROVE Pairing'
  BY <1>11, Alone DEF Shape, Pairing, Waiting, disk, hist, mem, Runs, ConsumeResponse, Step
<1>12. ASSUME NEW p \in Runs, Refuse(p) PROVE Pairing'
  BY <1>12, Alone DEF Shape, Pairing, Waiting, disk, hist, mem, Runs, Refuse, Leave, Free,
   Fail
<1>13. ASSUME NEW p \in Runs, HaltMeta(p) PROVE Pairing'
  BY <1>13, Alone DEF Shape, Pairing, Waiting, disk, hist, mem, Runs, HaltMeta, Step
<1>14. ASSUME NEW p \in Runs, HaltReport(p) PROVE Pairing'
  BY <1>14, Alone DEF Shape, Pairing, Waiting, disk, hist, mem, Runs, HaltReport, Step
<1>15. ASSUME NEW p \in Runs, Conclude(p) PROVE Pairing'
  BY <1>15, Alone DEF Shape, Pairing, Waiting, disk, hist, mem, Runs, Conclude, Step
<1>16. ASSUME NEW p \in Runs, CloseReport(p) PROVE Pairing'
  BY <1>16, Alone DEF Shape, Pairing, Waiting, disk, hist, mem, Runs, CloseReport, Step
<1>17. ASSUME NEW p \in Runs, CloseMeta(p) PROVE Pairing'
  BY <1>17, Alone DEF Shape, Pairing, Waiting, disk, hist, mem, Runs, CloseMeta, Step
<1>18. ASSUME NEW p \in Runs, RollBack(p) PROVE Pairing'
  BY <1>18, Alone DEF Shape, Pairing, Waiting, disk, hist, mem, Runs, RollBack, Leave, Free
<1>19. ASSUME NEW p \in Runs, SayFinished(p) PROVE Pairing'
  BY <1>19, Alone DEF Shape, Pairing, Waiting, disk, hist, mem, Runs, SayFinished, Leave,
   Free
<1>20. ASSUME NEW p \in Runs, SayFinishedFails(p) PROVE Pairing'
  BY <1>20, Alone DEF Shape, Pairing, Waiting, disk, hist, mem, Runs, SayFinishedFails,
   Leave, Free
<1>21. ASSUME NEW p \in Runs, Crash(p) PROVE Pairing'
  BY <1>21, Alone DEF Shape, Pairing, Waiting, disk, hist, mem, Runs, Crash, Leave, Free
<1>22. CASE Create
  BY <1>22, Alone DEF Shape, Pairing, Waiting, disk, hist, mem, Runs, Create, Step
<1>23. CASE Probe
  BY <1>23, Alone DEF Shape, Pairing, Waiting, disk, hist, mem, Runs, Probe, Step
<1>24. CASE ProbeEnds
  BY <1>24, Alone DEF Shape, Pairing, Waiting, disk, hist, mem, Runs, ProbeEnds, Step
<1>25. CASE PruneLock
  BY <1>25, Alone DEF Shape, Pairing, Waiting, disk, hist, mem, Runs, PruneLock, Step
<1>26. CASE Stage
  BY <1>26, Alone DEF Shape, Pairing, Waiting, disk, hist, mem, Runs, Stage, Step
<1>27. CASE GiveUpPrune
  BY <1>27, Alone DEF Shape, Pairing, Waiting, disk, hist, mem, Runs, GiveUpPrune, Free
<1>28. CASE RemoveTree
  BY <1>28, Alone DEF Shape, Pairing, Waiting, disk, hist, mem, Runs, RemoveTree, Step, Free
<1>29. CASE Respond
  BY <1>29, Alone DEF Shape, Pairing, Waiting, disk, hist, mem, Runs, Respond
<1>30. ASSUME NEW c \in Claims, NEW d \in {"fixed", "rejected", "accepted-risk"},
             NEW s \in Sites, Resolve(c, d, s)
      PROVE  Pairing'
  BY <1>30, Alone DEF Shape, Pairing, Waiting, disk, hist, mem, Runs, Resolve
<1>31. CASE UNCHANGED vars
  BY <1>31, Alone DEF Shape, Pairing, Waiting, disk, hist, mem, Runs, vars
<1> QED
  BY <1>1, <1>2, <1>3, <1>4, <1>5, <1>6, <1>7, <1>8, <1>9, <1>10, <1>11, <1>12, <1>13,
   <1>14, <1>15, <1>16, <1>17, <1>18, <1>19, <1>20, <1>21, <1>22, <1>23, <1>24,
   <1>25, <1>26, <1>27, <1>28, <1>29, <1>30, <1>31 DEF Next, Run, Prune

\* Nobody gets as far as run.json without the anchor.
LEMMA AnchoringStep ==
    ASSUME Shape, Holding, Anchoring, [Next]_vars
    PROVE  Anchoring'
<1> USE ActorsAssumption
<1>1. ASSUME NEW p \in Runs, Restore(p) PROVE Anchoring'
  BY <1>1 DEF Shape, Anchoring, Waiting, disk, hist, mem, Runs, Restore, Step, Resumable
<1>2. ASSUME NEW p \in Runs, TakeLock(p) PROVE Anchoring'
  BY <1>2 DEF Shape, Anchoring, Anchored, Waiting, disk, hist, mem, Runs, TakeLock, Step
<1>3. ASSUME NEW p \in Runs, LoseLock(p) PROVE Anchoring'
  BY <1>3 DEF Shape, Anchoring, Anchored, Waiting, disk, hist, mem, Runs, LoseLock, Leave,
   Free, Fail
<1>4. ASSUME NEW p \in Runs, Announce(p) PROVE Anchoring'
  BY <1>4, AppendedKeepsAnchor, TearingKeepsAnchor DEF Shape, Lines, Anchoring, Waiting, disk, hist, mem, Runs, Announce, Step, Begin
<1>5. ASSUME NEW p \in Runs, AnnounceFails(p) PROVE Anchoring'
  <2>1. events' \in Tearing(events)
    BY <1>5 DEF AnnounceFails, Fail, Tearing
  <2>2. events'.lines = events.lines /\ (Anchored(events) => Anchored(events'))
    BY <2>1, TearingKeepsAnchor DEF Shape
  <2>3. meta' = meta /\ \A q \in Runs :
                           \/ pc'[q] = pc[q] \/ Anchored(events)
                           \/ pc'[q] = "out" /\ pc[q] # "idle"
    BY <1>5 DEF Shape, AnnounceFails, Leave, Free, Fail, Begin, Requires, Runs
  <2>4. events'.torn => events.torn \/ Anchored(events) \/ pc'[Fresh] = "out"
    BY <1>5 DEF Shape, Anchoring, Waiting, Runs, AnnounceFails, Leave, Free, Fail, Begin, Requires
  <2>5. pc[Fresh] = "out" => pc'[Fresh] = "out" \/ Anchored(events)
    BY <2>3 DEF Runs
  <2> QED
    BY <2>2, <2>3, <2>4, <2>5 DEF Anchoring, Waiting, Anchored, Runs
<1>6. ASSUME NEW p \in Runs, Dispatch(p) PROVE Anchoring'
  BY <1>6 DEF Shape, Anchoring, Anchored, Waiting, disk, hist, mem, Runs, Dispatch
<1>7. ASSUME NEW p \in Runs, Record(p) PROVE Anchoring'
  BY <1>7 DEF Shape, Anchoring, Anchored, Waiting, disk, hist, mem, Runs, Record
<1>8. ASSUME NEW p \in Runs, BindResponse(p) PROVE Anchoring'
  BY <1>8 DEF Shape, Anchoring, Anchored, Waiting, disk, hist, mem, Runs, BindResponse,
   Step, Rewrite, Checkpointed, Answerable
<1>9. ASSUME NEW p \in Runs, Materialize(p) PROVE Anchoring'
  BY <1>9 DEF Shape, Anchoring, Anchored, Waiting, disk, hist, mem, Runs, Materialize, Step
<1>10. ASSUME NEW p \in Runs, ApplyResponse(p) PROVE Anchoring'
  BY <1>10 DEF Shape, Anchoring, Anchored, Waiting, disk, hist, mem, Runs, ApplyResponse,
   Step, Rewrite, Checkpointed
<1>11. ASSUME NEW p \in Runs, ConsumeResponse(p) PROVE Anchoring'
  BY <1>11 DEF Shape, Anchoring, Anchored, Waiting, disk, hist, mem, Runs, ConsumeResponse,
   Step
<1>12. ASSUME NEW p \in Runs, Refuse(p) PROVE Anchoring'
  BY <1>12 DEF Shape, Anchoring, Anchored, Waiting, disk, hist, mem, Runs, Refuse, Leave,
   Free, Fail
<1>13. ASSUME NEW p \in Runs, HaltMeta(p) PROVE Anchoring'
  BY <1>13 DEF Shape, Anchoring, Anchored, Waiting, disk, hist, mem, Runs, HaltMeta, Step
<1>14. ASSUME NEW p \in Runs, HaltReport(p) PROVE Anchoring'
  BY <1>14 DEF Shape, Anchoring, Anchored, Waiting, disk, hist, mem, Runs, HaltReport, Step
<1>15. ASSUME NEW p \in Runs, Conclude(p) PROVE Anchoring'
  BY <1>15 DEF Shape, Anchoring, Anchored, Waiting, disk, hist, mem, Runs, Conclude, Step
<1>16. ASSUME NEW p \in Runs, CloseReport(p) PROVE Anchoring'
  BY <1>16 DEF Shape, Anchoring, Anchored, Waiting, disk, hist, mem, Runs, CloseReport, Step
<1>17. ASSUME NEW p \in Runs, CloseMeta(p) PROVE Anchoring'
  BY <1>17 DEF Shape, Anchoring, Anchored, Waiting, disk, hist, mem, Runs, CloseMeta, Step
<1>18. ASSUME NEW p \in Runs, RollBack(p) PROVE Anchoring'
  BY <1>18 DEF Shape, Anchoring, Anchored, Waiting, disk, hist, mem, Runs, RollBack, Leave,
   Free
<1>19. ASSUME NEW p \in Runs, SayFinished(p) PROVE Anchoring'
  BY <1>19, AppendedKeepsAnchor, TearingKeepsAnchor DEF Shape, Lines, Anchoring, Waiting, disk, hist, mem, Runs, SayFinished, Leave, Free, LastWord
<1>20. ASSUME NEW p \in Runs, SayFinishedFails(p) PROVE Anchoring'
  BY <1>20, AppendedKeepsAnchor, TearingKeepsAnchor DEF Shape, Lines, Anchoring, Waiting, disk, hist, mem, Runs, SayFinishedFails, Leave, Free
<1>21. ASSUME NEW p \in Runs, Crash(p) PROVE Anchoring'
  <2>1. events' \in Tearing(events)
    BY <1>21 DEF Crash, Tearing
  <2>2. events'.lines = events.lines /\ (Anchored(events) => Anchored(events'))
    BY <2>1, TearingKeepsAnchor DEF Shape
  <2>3. meta' = meta /\ \A q \in Runs :
                           \/ pc'[q] = pc[q] \/ Anchored(events)
                           \/ pc'[q] = "out" /\ pc[q] # "idle"
    BY <1>21 DEF Shape, Crash, Leave, Free
  <2>4. events'.torn => events.torn \/ Anchored(events) \/ pc'[Fresh] = "out"
    BY <1>21 DEF Shape, Anchoring, Waiting, Runs, Crash, Leave, Free, Tearing
  <2>5. pc[Fresh] = "out" => pc'[Fresh] = "out" \/ Anchored(events)
    BY <2>3 DEF Runs
  <2> QED
    BY <2>2, <2>3, <2>4, <2>5 DEF Anchoring, Waiting, Anchored, Runs
<1>22. CASE Create
  BY <1>22 DEF Shape, Anchoring, Anchored, Waiting, disk, hist, mem, Runs, Create, Step
<1>23. CASE Probe
  BY <1>23 DEF Shape, Anchoring, Anchored, Waiting, disk, hist, mem, Runs, Probe, Step
<1>24. CASE ProbeEnds
  BY <1>24 DEF Shape, Anchoring, Anchored, Waiting, disk, hist, mem, Runs, ProbeEnds, Step
<1>25. CASE PruneLock
  BY <1>25 DEF Shape, Anchoring, Anchored, Waiting, disk, hist, mem, Runs, PruneLock, Step
<1>26. CASE Stage
  BY <1>26 DEF Shape, Anchoring, Anchored, Waiting, disk, hist, mem, Runs, Stage, Step
<1>27. CASE GiveUpPrune
  BY <1>27 DEF Shape, Anchoring, Anchored, Waiting, disk, hist, mem, Runs, GiveUpPrune, Free
<1>28. CASE RemoveTree
  BY <1>28 DEF Shape, Anchoring, Anchored, Waiting, disk, hist, mem, Runs, RemoveTree,
   Step, Free
<1>29. CASE Respond
  BY <1>29 DEF Shape, Anchoring, Anchored, Waiting, disk, hist, mem, Runs, Respond
<1>30. ASSUME NEW c \in Claims, NEW d \in {"fixed", "rejected", "accepted-risk"},
             NEW s \in Sites, Resolve(c, d, s)
      PROVE  Anchoring'
  BY <1>30 DEF Shape, Anchoring, Anchored, Waiting, disk, hist, mem, Runs, Resolve
<1>31. CASE UNCHANGED vars
  BY <1>31 DEF Shape, Anchoring, Anchored, Waiting, disk, hist, mem, Runs, vars
<1> QED
  BY <1>1, <1>2, <1>3, <1>4, <1>5, <1>6, <1>7, <1>8, <1>9, <1>10, <1>11, <1>12, <1>13,
   <1>14, <1>15, <1>16, <1>17, <1>18, <1>19, <1>20, <1>21, <1>22, <1>23, <1>24,
   <1>25, <1>26, <1>27, <1>28, <1>29, <1>30, <1>31 DEF Next, Run, Prune

\* The four parts hold in every state of every run.
LEMMA InvHolds == Spec => []Inv
<1>1. Init => Inv
  BY ActorsAssumption DEF Init, Inv, Shape, Holding, Pairing, Anchoring, Waiting, Fields, Lines, NoMeta, Runs
<1>2. Inv /\ [Next]_vars => Inv'
  BY ShapeStep, HoldingStep, PairingStep, AnchoringStep DEF Inv
<1> QED
  BY <1>1, <1>2, PTL DEF Spec

-----------------------------------------------------------------------------
(* The theorems.                                                           *)

\* For every instance, a terminal run.json is never beside an older report:
\* the order of the two replaces, and the report put back when the second
\* fails, are enough whatever else happens to the directory.
THEOREM TerminalRunsAreReported == Spec => []TerminalMetaHasItsReport
<1>1. Inv => TerminalMetaHasItsReport
  BY DEF Inv, Pairing, TerminalMetaHasItsReport
<1> QED
  BY <1>1, InvHolds, PTL

\* For every instance, whatever waits can be resumed: the first event is on
\* disk before anything that could leave a run.json is done, and no failed
\* or torn write takes it away.
THEOREM HaltsAreResumable == Spec => []HaltsStayAnchored
<1>1. Inv => HaltsStayAnchored
  BY DEF Inv, Anchoring, HaltsStayAnchored, Resumable
<1> QED
  BY <1>1, InvHolds, PTL

\* For every instance, prune removes only what has finished and what nobody
\* holds, whatever was opened again between its selection and its removal.
THEOREM PruneIsSafe == Spec => PruneSparesReopenedRuns
<1> DEFINE Spares == dir = "here" /\ dir' = "staged" =>
                       /\ meta.life = "terminal" /\ Status = "terminal"
                       /\ \A p \in Runs : ~Active(p)
<1>1. Inv /\ [Next]_vars => [Spares]_vars
  <2> SUFFICES ASSUME Inv, [Next]_vars, dir = "here", dir' = "staged"
               PROVE  /\ meta.life = "terminal" /\ Status = "terminal"
                      /\ \A p \in Runs : ~Active(p)
    OBVIOUS
  <2>1. Stage
      BY DEF Next, Run, Prune, vars, disk, Restore, Step, TakeLock, LoseLock, Leave, Fail,
     Announce, AnnounceFails, Dispatch, Record, BindResponse, Materialize, ApplyResponse,
     ConsumeResponse, Refuse, HaltMeta, HaltReport, Conclude, CloseReport, CloseMeta,
     RollBack, SayFinished, SayFinishedFails, Crash, Create, Probe, ProbeEnds,
     PruneLock, Stage, GiveUpPrune, RemoveTree, Respond, Resolve, mem, hist
  <2>2. \A p \in Runs : pc[p] \in Waiting
    <3>1. pc[Pruner] = "checking"
      BY <2>1 DEF Stage, Step
    <3> QED
      BY <3>1, Alone DEF Inv
  <2> QED
    BY <2>1, <2>2 DEF Stage, Eligible, Active, Waiting
<1> QED
  BY <1>1, InvHolds, PTL DEF Spec, PruneSparesReopenedRuns

-----------------------------------------------------------------------------
(* The last event.                                                         *)

\* Past the lock, and announced.
Past(p) == pc[p] \notin Waiting \union {"locked"}

\* Every event that is meant to be on disk is there and can be read.
Heard == (\A p \in Runs : writing[p]) /\ Readable(events)

LastLine == events.lines[Len(events.lines)]

\* Whoever works under the lock has announced itself and said nothing since;
\* what it is about to say is already on disk.
Saying ==
    /\ DOMAIN writing = Runs
    /\ \A p \in Runs :
         /\ pc[p] \in {"closing", "reported"} => closing[p].outcome.life = "terminal"
         /\ pc[p] = "closed" => meta.life = "terminal" /\ report = "final"
         /\ pc[p] \in {"halting", "halted"} => meta.life = "waiting-for-orchestrator"
         /\ pc[p] = "halted" => report = "halt"
    /\ Heard =>
         /\ \A p \in Runs : Past(p) => events.lines # <<>> /\ LastLine = "run_started"
         /\ events.lines # <<>> =>
              /\ LastLine = "finished" => meta.life = "terminal" /\ report = "final"
              /\ LastLine = "halted" => meta.life = "waiting-for-orchestrator" /\ report = "halt"

\* What can be read after an append could be read before it, and ends with
\* the line that was written.
LEMMA LastAppended ==
    ASSUME NEW log \in [lines : Seq(Lines), torn : BOOLEAN], NEW line \in Lines,
           NEW next, next = Appended(log, line), Readable(next)
    PROVE  /\ next.lines # <<>> /\ next.lines[Len(next.lines)] = line
           /\ Readable(log)
<1> DEFINE written == IF log.torn THEN "broken" ELSE line
           n == Len(log.lines)
<1>1. log.lines \in Seq(Lines) /\ written \in Lines /\ n \in Nat
  BY DEF Lines
<1>2. next.lines = Append(log.lines, written)
  BY DEF Appended
<1>3. /\ next.lines # <<>> /\ Len(next.lines) = n + 1 /\ next.lines[n + 1] = written
      /\ DOMAIN next.lines = 1 .. n + 1 /\ DOMAIN log.lines = 1 .. n
      /\ \A i \in 1 .. n : next.lines[i] = log.lines[i]
  BY <1>1, <1>2
<1> HIDE DEF n
<1>4. n + 1 \in DOMAIN next.lines /\ \A i \in 1 .. n : i \in DOMAIN next.lines
  BY <1>1, <1>3
<1>5. written # "broken"
  BY <1>3, <1>4 DEF Readable
<1>6. Readable(log)
  BY <1>3, <1>4 DEF Readable
<1> QED
  BY <1>3, <1>5, <1>6

\* Steps that write no file and no event; whoever moves in them is past the
\* lock already, or stays outside, or gives up writing.
LEMMA QuietKeepsSaying ==
    ASSUME Saying, UNCHANGED <<meta, report>>, events'.lines = events.lines,
           DOMAIN writing' = Runs, \A p \in Runs : writing'[p] => writing[p],
           \A p \in Runs :
             \/ pc'[p] = pc[p] /\ closing'[p] = closing[p]
             \/ pc'[p] \in Waiting \union {"locked"}
             \/ pc'[p] \in {"answering", "bound", "applying", "applied", "running"}
                  /\ (Past(p) \/ ~writing'[p])
             \/ pc'[p] = "closing" /\ closing'[p].outcome.life = "terminal" /\ Past(p)
    PROVE  Saying'
<1>1. Heard' => Heard
  BY DEF Heard, Readable
<1>2. LastLine' = LastLine
  BY DEF LastLine
<1>3. \A p \in Runs : Past(p)' => Past(p) \/ ~Heard'
  BY DEF Past, Waiting, Heard
<1> QED
  BY <1>1, <1>2, <1>3 DEF Saying, Waiting

\* Steps of a process that has announced itself, which write files only.
LEMMA WorkKeepsSaying ==
    ASSUME Shape, Holding, Saying, NEW p \in Runs, Past(p),
           UNCHANGED <<events, writing>>,
           \A q \in Runs : q # p => pc'[q] = pc[q],
           pc'[p] \in {"closing", "reported"} => closing'[p].outcome.life = "terminal",
           pc'[p] = "closed" => meta'.life = "terminal" /\ report' = "final",
           pc'[p] \in {"halting", "halted"} => meta'.life = "waiting-for-orchestrator",
           pc'[p] = "halted" => report' = "halt"
    PROVE  Saying'
<1>1. \A q \in Runs : q # p => pc'[q] \in Waiting
  BY Alone DEF Past
<1>2. Heard => events.lines # <<>> /\ LastLine = "run_started"
  BY DEF Saying
<1>3. Heard' = Heard /\ LastLine' = LastLine
  BY DEF Heard, LastLine, Readable
<1> QED
  BY <1>1, <1>2, <1>3 DEF Saying, Waiting, Past

LEMMA SayingStep ==
    ASSUME Inv, Saying, [Next]_vars
    PROVE  Saying'
<1> USE ActorsAssumption DEF Inv
<1>1. ASSUME NEW p \in Runs, Run(p) PROVE Saying'
  <2>1. CASE Restore(p) \/ TakeLock(p)
    <3>1. /\ UNCHANGED <<meta, report, events, writing, closing>>
          /\ pc'[p] \in Waiting \union {"locked"} /\ \A q \in Runs : q # p => pc'[q] = pc[q]
      BY <2>1 DEF Restore, TakeLock, Step, Shape, Waiting, disk, mem, Runs
    <3> QED
      BY <3>1, QuietKeepsSaying DEF Saying
  <2>2. CASE LoseLock(p) \/ Refuse(p) \/ Crash(p) \/ SayFinishedFails(p)
    <3>1. /\ UNCHANGED <<meta, report, writing>> /\ events' \in Tearing(events)
          /\ pc'[p] = "out"
          /\ \A q \in Runs : q # p => pc'[q] = pc[q] /\ closing'[q] = closing[q]
      BY <2>2 DEF LoseLock, Refuse, Crash, SayFinishedFails, Fail, Leave, Shape, Tearing, Runs
    <3>2. events'.lines = events.lines
      BY <3>1, TearingKeepsAnchor DEF Shape
    <3> QED
      BY <3>1, <3>2, QuietKeepsSaying DEF Saying, Waiting
  <2>3. CASE Announce(p)
    <3>1. /\ UNCHANGED <<meta, report, writing, closing>>
          /\ events' = Appended(events, "run_started")
          /\ pc[p] = "locked" /\ pc'[p] \in {"answering", "running"}
          /\ \A q \in Runs : q # p => pc'[q] = pc[q]
      BY <2>3 DEF Announce, Step, Begin, Shape, mem, Runs
    <3>2. \A q \in Runs : q # p => pc'[q] \in Waiting
      BY <3>1, Alone DEF Waiting
    <3>3. Heard' => events'.lines # <<>> /\ LastLine' = "run_started"
      BY <3>1, LastAppended DEF Heard, LastLine, Shape, Lines
    <3> QED
      BY <3>1, <3>2, <3>3 DEF Saying, Waiting
  <2>4. CASE AnnounceFails(p)
    <3>1. UNCHANGED <<meta, report>> /\ events' \in Tearing(events)
      BY <2>4 DEF AnnounceFails, Fail
    <3>2. events'.lines = events.lines
      BY <3>1, TearingKeepsAnchor DEF Shape
    <3>3. /\ \A q \in Runs : q # p => /\ pc'[q] = pc[q] /\ closing'[q] = closing[q]
                                      /\ writing'[q] = writing[q]
          /\ DOMAIN writing' = Runs
          /\ \/ pc'[p] = "out" /\ writing'[p] = writing[p]
             \/ pc'[p] \in {"answering", "running"} /\ ~writing'[p]
      BY <2>4 DEF AnnounceFails, Fail, Leave, Begin, Shape, Saying, Runs
    <3> QED
      BY <3>1, <3>2, <3>3, QuietKeepsSaying DEF Saying, Waiting
  <2>5. CASE Dispatch(p) \/ Record(p) \/ Materialize(p) \/ ConsumeResponse(p)
    <3>1. /\ UNCHANGED <<meta, report, events, writing, closing>>
          /\ pc[p] \in {"running", "bound", "applied"} /\ pc'[p] \in {"running", "applying"}
          /\ \A q \in Runs : q # p => pc'[q] = pc[q]
      BY <2>5 DEF Dispatch, Record, Materialize, ConsumeResponse, Step, Shape, mem, Runs
    <3> QED
      BY <3>1, QuietKeepsSaying DEF Saying, Past, Waiting
  <2>6. CASE BindResponse(p) \/ ApplyResponse(p)
    <3>1. /\ UNCHANGED <<events, writing>>
          /\ pc[p] \in {"answering", "applying"} /\ pc'[p] \in {"applying", "bound", "applied"}
          /\ \A q \in Runs : q # p => pc'[q] = pc[q]
      BY <2>6 DEF BindResponse, ApplyResponse, Step, Shape, Runs
    <3> QED
      BY <3>1, WorkKeepsSaying DEF Past, Waiting
  <2>7. CASE HaltMeta(p)
    <3>1. /\ UNCHANGED <<events, writing>> /\ meta'.life = "waiting-for-orchestrator"
          /\ pc[p] = "running" /\ pc'[p] = "halting"
          /\ \A q \in Runs : q # p => pc'[q] = pc[q]
      BY <2>7 DEF HaltMeta, Step, Shape, mem, NoMeta, Runs
    <3> QED
      BY <3>1, WorkKeepsSaying DEF Past, Waiting
  <2>8. CASE HaltReport(p)
    <3>1. /\ UNCHANGED <<events, writing, meta>> /\ report' = "halt"
          /\ pc[p] = "halting" /\ pc'[p] = "halted"
          /\ \A q \in Runs : q # p => pc'[q] = pc[q]
      BY <2>8 DEF HaltReport, Step, Shape, mem, Runs
    <3>2. meta.life = "waiting-for-orchestrator"
      BY <3>1 DEF Saying
    <3> QED
      BY <3>1, <3>2, WorkKeepsSaying DEF Past, Waiting
  <2>9. CASE Conclude(p)
    <3>1. /\ UNCHANGED <<events, writing, meta, report>>
          /\ closing'[p].outcome.life = "terminal"
          /\ pc[p] = "running" /\ pc'[p] = "closing"
          /\ \A q \in Runs : q # p => pc'[q] = pc[q]
      BY <2>9 DEF Conclude, Step, Shape, disk, Outcome, Runs
    <3> QED
      BY <3>1, WorkKeepsSaying DEF Past, Waiting
  <2>10. CASE CloseReport(p)
    <3>1. /\ UNCHANGED <<events, writing, meta, closing>>
          /\ pc[p] = "closing" /\ pc'[p] = "reported"
          /\ \A q \in Runs : q # p => pc'[q] = pc[q]
      BY <2>10 DEF CloseReport, Step, Shape, mem, Runs
    <3>2. closing[p].outcome.life = "terminal"
      BY <3>1 DEF Saying
    <3> QED
      BY <3>1, <3>2, WorkKeepsSaying DEF Past, Waiting
  <2>11. CASE CloseMeta(p)
    <3>1. /\ UNCHANGED <<events, writing, report>> /\ meta' = Final(p)
          /\ pc[p] = "reported" /\ pc'[p] = "closed"
          /\ \A q \in Runs : q # p => pc'[q] = pc[q]
      BY <2>11 DEF CloseMeta, Step, Shape, mem, Runs
    <3>2. closing[p].outcome.life = "terminal" /\ report = "final"
      BY <3>1 DEF Saying, Pairing
    <3>3. meta'.life = "terminal"
      BY <3>1, <3>2 DEF Final, NoMeta
    <3> QED
      BY <3>1, <3>2, <3>3, WorkKeepsSaying DEF Past, Waiting
  <2>12. CASE RollBack(p)
    <3>1. /\ UNCHANGED <<events, writing>>
          /\ pc[p] = "reported" /\ pc'[p] = "out"
          /\ \A q \in Runs : q # p => pc'[q] = pc[q]
      BY <2>12 DEF RollBack, Leave, Shape, Runs
    <3> QED
      BY <3>1, WorkKeepsSaying DEF Past, Waiting
  <2>13. CASE SayFinished(p)
    <3>1. /\ UNCHANGED <<meta, report, writing>>
          /\ pc[p] \in {"halted", "closed"} /\ pc'[p] = "out"
          /\ \A q \in Runs : q # p => pc'[q] = pc[q] /\ closing'[q] = closing[q]
      BY <2>13 DEF SayFinished, Leave, Shape, Runs
    <3>2. CASE events' = events
      BY <3>1, <3>2, QuietKeepsSaying DEF Saying, Waiting
    <3>3. CASE events' = Appended(events, LastWord(p))
      <4>1. \A q \in Runs : pc'[q] \in Waiting
        BY <3>1, Alone DEF Waiting
      <4>2. LastWord(p) \in Lines
        BY DEF LastWord, Lines
      <4>3. Heard' => events'.lines # <<>> /\ LastLine' = LastWord(p)
        BY <3>3, <4>2, LastAppended DEF Heard, LastLine, Shape
      <4>4. /\ LastWord(p) = "finished" => meta.life = "terminal" /\ report = "final"
            /\ LastWord(p) = "halted" => meta.life = "waiting-for-orchestrator" /\ report = "halt"
        BY <3>1 DEF Saying, LastWord
      <4> QED
        BY <3>1, <4>1, <4>3, <4>4 DEF Saying, Waiting, Past
    <3> QED
      BY <2>13, <3>2, <3>3 DEF SayFinished
  <2> QED
    BY <1>1, <2>1, <2>2, <2>3, <2>4, <2>5, <2>6, <2>7, <2>8, <2>9, <2>10, <2>11, <2>12, <2>13
    DEF Run
<1>2. CASE Create
  BY <1>2, QuietKeepsSaying DEF Create, Step, Shape, Saying, mem, Waiting, Runs
<1>3. CASE Prune \/ Respond \/ UNCHANGED vars
  <2>1. UNCHANGED <<meta, report, events, writing, closing>> /\ \A q \in Runs : pc'[q] = pc[q]
    BY <1>3 DEF Prune, Probe, ProbeEnds, PruneLock, Stage, GiveUpPrune, RemoveTree, Respond,
                Step, Shape, disk, mem, vars, Runs
  <2> QED
    BY <2>1, QuietKeepsSaying DEF Saying
<1>4. ASSUME NEW c \in Claims, NEW d \in {"fixed", "rejected", "accepted-risk"},
             NEW s \in Sites, Resolve(c, d, s)
      PROVE  Saying'
  <2>1. UNCHANGED <<meta, report, events, writing, closing, pc>>
    BY <1>4 DEF Resolve, mem
  <2> QED
    BY <2>1, QuietKeepsSaying DEF Saying
<1> QED
  BY <1>1, <1>2, <1>3, <1>4 DEF Next

\* For every instance, what the last complete event says of the run is
\* already on disk: write_halt and write_terminal_artifacts replace both
\* files before run_finished, and whoever replaces one later has announced
\* itself first.  A watcher that stops at "halted" or "finished" reads no
\* older state, whatever failed, died or resumed in between.
THEOREM LastEventIsTrue == Spec => []LastEventIsOnDisk
<1>1. Init => Saying
  BY ActorsAssumption DEF Init, Saying, Heard, Past, Waiting, Runs
<1>2. Inv /\ Saying /\ [Next]_vars => Saying'
  BY SayingStep
<1>3. Saying => LastEventIsOnDisk
  BY DEF Saying, LastEventIsOnDisk, Heard, LastLine
<1> QED
  BY <1>1, <1>2, <1>3, InvHolds, PTL DEF Spec

-----------------------------------------------------------------------------
(* The gate.                                                               *)

\* What an outcome says of the review, it may say.
Earned(outcome) ==
    outcome.gate = "clear" =>
        /\ outcome.ending.success /\ ~outcome.ending.quorumFailed /\ ~outcome.ending.incomplete
        /\ ~outcome.ending.signalled /\ ~outcome.ending.error /\ outcome.ending.budget = "none"
        /\ \A c \in ledger \ (Advisory \union resolved) :
             outcome.states[c] \in GateClearing \union GateExempt

\* The ledger grows only while run.json claims nothing, and what a resume
\* has read claims nothing.
Gating ==
    /\ Earned(meta)
    /\ Resumable(meta.life) => meta.gate = "none"
    /\ pc[Fresh] \in {"idle", "ready", "locked"} =>
         /\ meta.life = "none" /\ meta.gate = "none"
         /\ \A q \in Resumes : pc[q] = "idle"
    /\ \A p \in Runs :
         /\ seen[p].gate = "none"
         /\ pc[p] \in {"applied", "running"} => meta.gate = "none"
         /\ pc[p] \in {"closing", "reported"} => Earned(closing[p].outcome)

\* "completed" is the reason only when no cause before it holds.
LEMMA CompletedIsLast ==
    ASSUME NEW e \in Endings, NEW unresolved \in BOOLEAN, NEW blocked \in BOOLEAN,
           FirstCause(Causes(e, unresolved, blocked)).reason = "completed"
    PROVE  /\ e.success /\ ~e.quorumFailed /\ ~unresolved
           /\ ~e.signalled /\ ~e.error /\ e.budget = "none"
<1> DEFINE cs == Causes(e, unresolved, blocked)
<1>1. /\ DOMAIN cs = 1 .. 10
      /\ cs[1].holds = e.signalled /\ cs[1].reason = "interrupted"
      /\ cs[2].holds = e.error /\ cs[2].reason = "runtime-error"
      /\ cs[3].holds = (e.budget # "none") /\ cs[3].reason = e.budget
      /\ cs[4].reason = "max-loop-iterations"
      /\ cs[5].reason = "auth-abort"
      /\ cs[6].holds = (~e.success) /\ cs[6].reason = "incomplete"
      /\ cs[7].holds = e.quorumFailed /\ cs[7].reason = "incomplete"
      /\ cs[8].holds = unresolved /\ cs[8].reason = "incomplete"
      /\ cs[9].reason = "gate-blocked"
      /\ cs[10].holds
  BY DEF Causes
<1>0. FirstCause(cs).reason = "completed"
  OBVIOUS
<1> HIDE DEF cs
<1> DEFINE Holds(i) == cs[i].holds
<1>2. \E i \in 1 .. 10 : Holds(i) /\ \A j \in 1 .. i - 1 : ~Holds(j)
  <2>1. Holds(10)
    BY <1>1
  <2> HIDE DEF Holds
  <2> QED
    BY <2>1
<1> DEFINE First(i) == Holds(i) /\ \A j \in 1 .. i - 1 : ~Holds(j)
           k == CHOOSE i \in 1 .. 10 : First(i)
<1>3. k \in 1 .. 10 /\ First(k)
  <2>1. \E i \in 1 .. 10 : First(i)
    BY <1>2
  <2> HIDE DEF First
  <2> QED
    BY <2>1
<1>4. cs[k].reason = "completed"
  BY <1>0, <1>1 DEF FirstCause
<1> HIDE DEF k
<1>5. k = 10
  <2>1. e.budget # "completed"
    BY EndingsAssumption
  <2> QED
    BY <1>1, <1>3, <1>4, <2>1
<1>6. ~cs[1].holds /\ ~cs[2].holds /\ ~cs[3].holds /\ ~cs[6].holds /\ ~cs[7].holds /\ ~cs[8].holds
  BY <1>3, <1>5
<1>7. /\ e.signalled \in BOOLEAN /\ e.error \in BOOLEAN /\ e.success \in BOOLEAN
      /\ e.quorumFailed \in BOOLEAN
  BY EndingsAssumption
<1> QED
  BY <1>1, <1>6, <1>7

\* build_terminal_outcome calls a gate clear only where it is.
LEMMA OutcomeIsEarned ==
    ASSUME NEW e \in Endings, NEW states,
           NEW outcome, outcome = Outcome(e, ledger, states, resolved)
    PROVE  Earned(outcome)
<1> DEFINE unresolved == e.incomplete \/ \E c \in ledger : states[c] \notin Terminal
           blockers   == IF e.mode = "gate" THEN Blocking(ledger, states, resolved) ELSE {}
           cause      == FirstCause(Causes(e, unresolved, blockers # {}))
<1>1. /\ outcome.gate = GateDecision(e, cause.reason, blockers)
      /\ outcome.states = states /\ outcome.ending = e
  BY DEF Outcome
<1>2. ASSUME outcome.gate = "clear"
      PROVE  cause.reason = "completed" /\ Blocking(ledger, states, resolved) = {}
  <2> HIDE DEF cause
  <2> QED
    BY <1>1, <1>2 DEF GateDecision
<1>3. unresolved \in BOOLEAN /\ (blockers # {}) \in BOOLEAN
  <2>1. e.incomplete \in BOOLEAN
    BY EndingsAssumption
  <2> QED
    BY <2>1
<1> HIDE DEF blockers
<1>4. ASSUME outcome.gate = "clear"
      PROVE  /\ e.success /\ ~e.quorumFailed /\ ~unresolved
             /\ ~e.signalled /\ ~e.error /\ e.budget = "none"
  <2> HIDE DEF unresolved
  <2> QED
    BY <1>2, <1>3, <1>4, CompletedIsLast
<1> QED
  BY <1>1, <1>2, <1>4 DEF Earned, Blocking

\* Steps that leave the ledger and run.json, and begin no review.
LEMMA QuietKeepsGating ==
    ASSUME Gating, UNCHANGED <<meta, ledger>>, resolved \subseteq resolved',
           \A p \in Runs : seen'[p].gate = "none",
           \A p \in Runs :
             \/ pc'[p] = pc[p] /\ closing'[p] = closing[p]
             \/ pc[p] \in {"closing", "reported"} /\ pc'[p] = "reported" /\ closing'[p] = closing[p]
             \/ pc'[p] \notin {"applied", "running", "closing", "reported"}
             \/ pc'[p] \in {"applied", "running"} /\ meta.gate = "none"
             \/ pc'[p] = "closing" /\ Earned(closing'[p].outcome),
           pc'[Fresh] \in {"idle", "ready", "locked"} =>
             /\ pc[Fresh] \in {"idle", "ready", "locked"}
             /\ \A q \in Resumes : pc'[q] = pc[q]
    PROVE  Gating'
<1>1. Earned(meta)'
  BY DEF Gating, Earned
<1>2. \A p \in Runs : pc'[p] \in {"closing", "reported"} => Earned(closing[p].outcome)'
  BY DEF Gating, Earned
<1>3. Resumable(meta.life)' => meta'.gate = "none"
  BY DEF Gating, Resumable
<1>4. pc'[Fresh] \in {"idle", "ready", "locked"} =>
         /\ meta'.life = "none" /\ meta'.gate = "none"
         /\ \A q \in Resumes : pc'[q] = "idle"
  BY DEF Gating
<1>5. \A p \in Runs : pc'[p] \in {"applied", "running"} => meta'.gate = "none"
  BY DEF Gating
<1> QED
  BY <1>1, <1>2, <1>3, <1>4, <1>5 DEF Gating

\* Steps of a process past the lock that write run.json or the ledger.
LEMMA WorkKeepsGating ==
    ASSUME Shape, Holding, Gating, NEW p \in Runs, Past(p), Past(p)',
           \A q \in Runs : q # p => pc'[q] = pc[q],
           \A q \in Runs : seen'[q].gate = "none",
           Earned(meta)', Resumable(meta'.life) => meta'.gate = "none",
           pc'[p] \notin {"closing", "reported"},
           pc'[p] \in {"applied", "running"} => meta'.gate = "none"
    PROVE  Gating'
<1>1. \A q \in Runs : q # p => pc'[q] \in Waiting
  BY Alone DEF Past
<1>2. pc'[Fresh] \notin {"idle", "ready", "locked"}
  <2>1. CASE p = Fresh
    BY <2>1 DEF Past, Waiting
  <2>2. CASE p \in Resumes
    <3>1. pc[p] # "idle" /\ pc'[Fresh] = pc[Fresh]
      BY <2>2, ActorsAssumption DEF Past, Waiting, Runs
    <3> QED
      BY <2>2, <3>1 DEF Gating
  <2> QED
    BY <2>1, <2>2 DEF Runs
<1> QED
  BY <1>1, <1>2 DEF Gating, Waiting, Resumable

LEMMA GatingStep ==
    ASSUME Inv, Saying, Gating, [Next]_vars
    PROVE  Gating'
<1> USE ActorsAssumption DEF Inv
<1>1. ASSUME NEW p \in Runs, Run(p) PROVE Gating'
  <2>0. ASSUME \A q \in Runs : q # p => pc'[q] = pc[q],
               p = Fresh => pc'[p] \notin {"idle", "ready", "locked"} \/ pc[p] \in {"ready", "idle"},
               p # Fresh => pc[p] # "idle"
        PROVE  pc'[Fresh] \in {"idle", "ready", "locked"} =>
                 /\ pc[Fresh] \in {"idle", "ready", "locked"}
                 /\ \A q \in Resumes : pc'[q] = pc[q]
    BY <2>0 DEF Gating, Runs
  <2>1. CASE Restore(p)
    <3>1. /\ UNCHANGED <<meta, ledger, resolved, closing>> /\ Resumable(meta.life) /\ p \in Resumes
          /\ pc'[p] = "ready" /\ \A q \in Runs : q # p => pc'[q] = pc[q]
          /\ seen' = [seen EXCEPT ![p] = meta]
      BY <2>1 DEF Restore, Step, Shape, disk, Runs
    <3>2. \A q \in Runs : seen'[q].gate = "none"
      BY <3>1 DEF Gating, Shape
    <3>3. pc'[Fresh] \notin {"idle", "ready", "locked"}
      BY <3>1 DEF Gating, Resumable, Runs
    <3> QED
      BY <3>1, <3>2, <3>3, QuietKeepsGating DEF Runs
  <2>2. CASE TakeLock(p) \/ Announce(p)
    <3>1. /\ UNCHANGED <<meta, ledger, resolved, closing, seen>>
          /\ \A q \in Runs : q # p => pc'[q] = pc[q]
          /\ \/ pc[p] = "ready" /\ pc'[p] = "locked"
             \/ pc[p] = "locked" /\ p # Fresh /\ pc'[p] = "answering"
             \/ pc[p] = "locked" /\ p = Fresh /\ pc'[p] = "running"
      BY <2>2 DEF TakeLock, Announce, Begin, Step, Shape, disk, mem, Runs
    <3> QED
      BY <2>0, <3>1, QuietKeepsGating DEF Gating
  <2>3. CASE LoseLock(p) \/ Refuse(p) \/ Crash(p) \/ SayFinishedFails(p) \/ SayFinished(p) \/ RollBack(p)
    <3>1. /\ UNCHANGED <<meta, ledger, resolved, seen>>
          /\ pc[p] # "idle" /\ pc'[p] = "out"
          /\ \A q \in Runs : q # p => pc'[q] = pc[q] /\ closing'[q] = closing[q]
      BY <2>3 DEF LoseLock, Refuse, Crash, SayFinished, SayFinishedFails, RollBack, Fail, Leave,
                  Shape, Runs
    <3> QED
      BY <2>0, <3>1, QuietKeepsGating DEF Gating
  <2>4. CASE AnnounceFails(p)
    <3>1. /\ UNCHANGED <<meta, ledger, resolved, seen>> /\ pc[p] = "locked"
          /\ \A q \in Runs : q # p => pc'[q] = pc[q] /\ closing'[q] = closing[q]
          /\ \/ pc'[p] = "out"
             \/ p # Fresh /\ pc'[p] = "answering"
      BY <2>4 DEF AnnounceFails, Requires, Fail, Leave, Begin, Shape, Runs
    <3> QED
      BY <2>0, <3>1, QuietKeepsGating DEF Gating
  <2>5. CASE Dispatch(p) \/ Materialize(p) \/ ConsumeResponse(p) \/ HaltReport(p) \/ CloseReport(p)
    <3>1. /\ UNCHANGED <<meta, ledger, resolved, closing, seen>>
          /\ \A q \in Runs : q # p => pc'[q] = pc[q]
          /\ \/ pc[p] \in {"applied", "running"} /\ pc'[p] = "running"
             \/ pc[p] = "bound" /\ pc'[p] = "applying"
             \/ pc[p] = "halting" /\ pc'[p] = "halted"
             \/ pc[p] = "closing" /\ pc'[p] = "reported"
      BY <2>5 DEF Dispatch, Materialize, ConsumeResponse, HaltReport, CloseReport, Step, Shape,
                  disk, mem, Runs
    <3> QED
      BY <2>0, <3>1, QuietKeepsGating DEF Gating
  <2>6. CASE Record(p)
    <3>1. /\ UNCHANGED <<meta, resolved, seen, pc>> /\ pc[p] = "running"
      BY <2>6 DEF Record, mem
    <3>2. meta.gate = "none" /\ Past(p)
      BY <3>1 DEF Gating, Past, Waiting
    <3>3. Earned(meta)' /\ Past(p)'
      BY <3>1, <3>2 DEF Earned, Past
    <3> QED
      BY <3>1, <3>2, <3>3, WorkKeepsGating DEF Gating
  <2>7. CASE BindResponse(p) \/ ApplyResponse(p)
    <3>1. /\ UNCHANGED <<ledger, resolved>>
          /\ \A q \in Runs : q # p => pc'[q] = pc[q]
          /\ pc[p] \in {"answering", "applying"} /\ pc'[p] \in {"applying", "bound", "applied"}
          /\ pc'[p] = "applied" => ApplyResponse(p)
      BY <2>7 DEF BindResponse, ApplyResponse, Step, Shape, Runs
    <3>2. \/ UNCHANGED <<meta, seen>> /\ pc'[p] # "applied"
          \/ \E life : Rewrite(p, life)
      BY <2>7, <3>1 DEF BindResponse, ApplyResponse
    <3>3. CASE UNCHANGED <<meta, seen>> /\ pc'[p] # "applied"
      BY <3>1, <3>3, WorkKeepsGating DEF Gating, Past, Waiting, Earned
    <3>4. CASE \E life : Rewrite(p, life)
      <4>1. meta'.gate = "none" /\ \A q \in Runs : seen'[q].gate = "none"
        BY <3>4 DEF Rewrite, Gating, Shape, Fields
      <4>2. Earned(meta)'
        BY <4>1 DEF Earned
      <4> QED
        BY <3>1, <4>1, <4>2, WorkKeepsGating DEF Past, Waiting
    <3> QED
      BY <3>2, <3>3, <3>4
  <2>8. CASE HaltMeta(p)
    <3>1. /\ UNCHANGED <<ledger, resolved, seen>> /\ meta'.gate = "none"
          /\ \A q \in Runs : q # p => pc'[q] = pc[q]
          /\ pc[p] = "running" /\ pc'[p] = "halting"
      BY <2>8 DEF HaltMeta, NoMeta, Step, Shape, mem, Runs
    <3>2. Earned(meta)'
      BY <3>1 DEF Earned
    <3> QED
      BY <3>1, <3>2, WorkKeepsGating DEF Gating, Past, Waiting
  <2>9. CASE Conclude(p)
    <3>1. /\ UNCHANGED <<meta, ledger, resolved, seen>>
          /\ pc[p] = "running" /\ pc'[p] = "closing"
          /\ \A q \in Runs : q # p => pc'[q] = pc[q] /\ closing'[q] = closing[q]
          /\ \E e \in Endings : \E states : closing'[p].outcome = Outcome(e, ledger, states, resolved)
      BY <2>9 DEF Conclude, Step, Shape, disk, Runs
    <3>2. Earned(closing'[p].outcome)
      BY <3>1, OutcomeIsEarned
    <3> QED
      BY <2>0, <3>1, <3>2, QuietKeepsGating DEF Gating
  <2>10. CASE CloseMeta(p)
    <3>1. /\ UNCHANGED <<ledger, resolved, seen>> /\ meta' = Final(p)
          /\ \A q \in Runs : q # p => pc'[q] = pc[q]
          /\ pc[p] = "reported" /\ pc'[p] = "closed"
      BY <2>10 DEF CloseMeta, Step, Shape, mem, Runs
    <3>2. /\ meta'.gate = closing[p].outcome.gate /\ meta'.states = closing[p].outcome.states
          /\ meta'.ending = closing[p].outcome.ending /\ meta'.life = closing[p].outcome.life
      BY <3>1 DEF Final, NoMeta
    <3>3. Earned(closing[p].outcome) /\ closing[p].outcome.life = "terminal"
      BY <3>1 DEF Gating, Saying
    <3>4. Earned(meta)'
      BY <3>1, <3>2, <3>3 DEF Earned
    <3> QED
      BY <3>1, <3>2, <3>3, <3>4, WorkKeepsGating DEF Gating, Past, Waiting, Resumable
  <2> QED
    BY <1>1, <2>1, <2>2, <2>3, <2>4, <2>5, <2>6, <2>7, <2>8, <2>9, <2>10 DEF Run
<1>2. CASE Create
  <2>1. /\ UNCHANGED <<meta, ledger, resolved, seen, closing>>
        /\ pc[Fresh] = "idle" /\ pc'[Fresh] = "ready"
        /\ \A q \in Runs : q # Fresh => pc'[q] = pc[q]
    BY <1>2 DEF Create, Step, Shape, mem, Runs
  <2> QED
    BY <2>1, QuietKeepsGating DEF Gating, Runs
<1>3. CASE Prune \/ Respond \/ UNCHANGED vars
  <2>1. /\ UNCHANGED <<meta, ledger, resolved, seen, closing>>
        /\ \A q \in Runs : pc'[q] = pc[q]
    BY <1>3 DEF Prune, Probe, ProbeEnds, PruneLock, Stage, GiveUpPrune, RemoveTree, Respond,
                Step, Shape, disk, mem, vars, Runs
  <2> QED
    BY <2>1, QuietKeepsGating DEF Gating, Runs
<1>4. ASSUME NEW c \in Claims, NEW d \in {"fixed", "rejected", "accepted-risk"},
             NEW s \in Sites, Resolve(c, d, s)
      PROVE  Gating'
  <2>1. UNCHANGED <<meta, ledger, seen, closing, pc>> /\ resolved \subseteq resolved'
    BY <1>4 DEF Resolve, mem
  <2> QED
    BY <2>1, QuietKeepsGating DEF Gating
<1> QED
  BY <1>1, <1>2, <1>3, <1>4 DEF Next

\* For every instance, a clear gate is a statement about a review that
\* happened: terminal_outcome names no cause before it, every claim in the
\* ledger that counts was refuted, superseded or resolved when it was
\* written, and no process adds a claim behind it, because whatever goes on
\* with a run has first replaced the run.json that said so.
THEOREM ClearGatesAreEarned == Spec => []ClearGateIsEarned
<1>1. Init => Saying /\ Gating
  BY ActorsAssumption
  DEF Init, Saying, Heard, Past, Waiting, Runs, Gating, Earned, NoMeta, Resumable
<1>2. Inv /\ Saying /\ Gating /\ [Next]_vars => Saying' /\ Gating'
  BY SayingStep, GatingStep
<1>3. Gating => ClearGateIsEarned
  BY DEF Gating, Earned, ClearGateIsEarned
<1> QED
  BY <1>1, <1>2, <1>3, InvHolds, PTL DEF Spec
=============================================================================
