---------------------------- MODULE Calls_proofs ----------------------------
(***************************************************************************)
(* Theorems about Calls, for any sizes of answer and ceiling, any grips of *)
(* escaped descendants and any number of failing pipes.                    *)
(*                                                                         *)
(* NobodyIsPassedOver: the sweep looks at a tracked group once more before *)
(* it is done, and nothing joins a group whose friend is gone (Sweeping);  *)
(* an output pipe that is held has a pump that cannot end unless it fails, *)
(* and a pump that did not end is what the report names (Pumps).           *)
(* HelpersAreStopped: every way out                                        *)
(* of the caller's loop goes through the stop of the helper.               *)
(* AnswersAreKept: what was heard was written, and a whole answer parses   *)
(* (Hearing), so each way out classifies it as an answer.                  *)
(* CallsReportOnce: nothing of a call moves once it has been reported      *)
(* (Still).                                                                *)
(***************************************************************************)
EXTENDS Calls, TLAPS

Places  == {"start", "pumps", "poll", "sweep", "grace", "kill", "killgrace", "endtree", "join",
            "rejoin", "classify", "done"}
Ending  == {"sweep", "grace", "kill", "killgrace", "endtree", "join", "rejoin", "classify"}
Codes   == {"none", "zero", "nonzero", "signal", "sentinel"}
Breaks  == {"exited", "timeout", "aborted", "flood", "answered", "raised"}
Wires   == {"empty", "closed", "ok", "http-error", "unreachable", "timeout"}

TypeOK ==
  /\ via \in {"exec", "http"} /\ platform \in {"posix", "windows"}
  /\ pc \in Places /\ friend \in {"none", "running", "dead"} /\ code \in Codes
  /\ pump \in [Pipes -> {"off", "on", "ended"}]
  /\ heard \in Nat /\ own \in Nat /\ heard <= own /\ own <= Most
  /\ why \in Breaks \cup {"none"}
  /\ wire \in Wires
  /\ hpc \in {"check", "abort", "poll", "alive", "stopping", "done"}

\* The friend's life, and what the runner made of it.
Life ==
  /\ via = "http" => friend = "none" /\ child = "none" /\ hold = {} /\ grip = {} /\ why = "none" /\ ~early
  /\ via = "exec" /\ pc # "done" => out = Pending
  /\ pc = "start" => friend = "none" /\ child = "none" /\ hold = {} /\ grip = {}
  /\ pc \in Ending \cup {"pumps", "poll"} => friend # "none"
  /\ pc \in {"start", "pumps", "poll"} => why = "none"
  /\ pc \in Ending => why # "none"
  /\ friend # "dead" => code = "none" /\ ~reaped
  /\ friend = "dead" /\ pc # "done" => code # "none"
  /\ code = "sentinel" => platform = "windows"
  /\ pc \in {"start", "pumps", "poll", "sweep"} => ~struck
  /\ struck /\ platform = "windows" => ours
  /\ pc = "endtree" => platform = "windows" /\ (friend = "running" => ours)

\* What has been heard of it.
Hearing ==
  /\ "stdout" \notin flooded => heard <= Ceiling
  /\ why = "answered" => early /\ heard >= Whole
  /\ why = "flood" => "stdout" \in flooded

\* A pump that has ended found nobody at the other end of its pipe, unless it
\* failed or was told to stop, and being told is being reported.
Pumps ==
  /\ via = "http" \/ pc = "start" => \A p \in Pipes : pump[p] = "off"
  /\ \A p \in Pipes : pump[p] = "on" => friend # "none"
  /\ pc \in Ending \cup {"poll"} /\ why # "raised" => \A p \in Pipes : pump[p] # "off"
  /\ pc \in Places \ {"rejoin", "classify", "done"} => ~stop
  /\ pc = "rejoin" => stop
  /\ stop => orphans
  /\ pc = "classify" => orphans \/ \A p \in Pipes : pump[p] # "on"
  /\ \A p \in Outputs : pump[p] = "ended" => p \in failed \/ stop \/ (friend = "dead" /\ ~Held(p))

\* Once the sweep is over: who is left in the group is being reported, and only
\* a friend that is left could add to it.
Sweeping ==
  pc \in {"join", "rejoin", "classify"} /\ ~orphans =>
    /\ friend = "dead"
    /\ Tracked => child # "alive"

\* The helper and its pipe.
Helping ==
  /\ via = "http" /\ hpc # "done" => out = Pending
  /\ hpc = "check" => helper = "none"
  /\ helper \in {"none", "asking"} => wire = "empty"
  /\ received = "ok" => wire = "ok"
  /\ hpc = "stopping" => received \in (Wires \cup {"aborted"}) \ {"empty", "closed"}

Inv == TypeOK /\ Life /\ Hearing /\ Pumps /\ Sweeping /\ Helping

LEMMA InitHolds == Init => Inv
<1> SUFFICES ASSUME Init PROVE Inv
  OBVIOUS
<1> USE DEF Init, ProcInit, HttpInit
<1>1. TypeOK
  <2>1. pump \in [Pipes -> {"off", "on", "ended"}]
    BY Zenon
  <2>2. platform \in {"posix", "windows"}
    BY PlatformsAssumption
  <2> QED
    BY <2>1, <2>2, SizesAssumption DEF TypeOK, Places, Codes, Breaks, Wires
<1>2. Life
  BY DEF Life, Ending
<1>3. Hearing
  BY SizesAssumption DEF Hearing
<1>4. Pumps
  BY DEF Pumps, Pipes, Outputs, Ending, Places
<1>5. Sweeping
  BY DEF Sweeping
<1>6. Helping
  BY DEF Helping
<1> QED
  BY <1>1, <1>2, <1>3, <1>4, <1>5, <1>6 DEF Inv

-----------------------------------------------------------------------------
(* The friend, its descendants and the pump threads. *)

ProcInv == TypeOK /\ Life /\ Hearing /\ Pumps

\* What the process side of a call leaves alone.
LEMMA ExecLeavesHelper ==
  ASSUME Helping, ExecStep
  PROVE  Helping'
BY DEF Helping, ExecStep, helpervars

LEMMA WorldHolds ==
  ASSUME ProcInv, via = "exec", pc # "done", World, UNCHANGED <<helpervars, via>>
  PROVE  ProcInv'
<1> USE DEF ProcInv, TypeOK, Life, Hearing, Pumps, helpervars, Idle, threads, Held, Codes
<1>1. CASE Write
  BY <1>1, SizesAssumption DEF Write
<1>2. ASSUME NEW s \in {"zero", "nonzero", "signal"}, Exit(s) PROVE ProcInv'
  BY <1>2 DEF Exit
<1>3. CASE Fork
  BY <1>3 DEF Fork
<1>4. CASE KinEnds
  BY <1>4 DEF KinEnds
<1>5. CASE KillLands
  BY <1>5 DEF KillLands
<1> QED
  BY <1>1, <1>2, <1>3, <1>4, <1>5 DEF World

LEMMA ThreadsHold ==
  ASSUME ProcInv, via = "exec", pc # "done", Threads, UNCHANGED <<helpervars, via>>
  PROVE  ProcInv'
<1> USE DEF ProcInv, TypeOK, Life, Hearing, Pumps, helpervars, Pumping, procworld, Held, Ends, Pipes,
            Outputs
<1>1. CASE Hear
  BY <1>1, SizesAssumption DEF Hear
<1>2. CASE Chatter
  BY <1>2 DEF Chatter
<1>3. CASE PromptTaken
  BY <1>3 DEF PromptTaken
<1>4. ASSUME NEW p \in Pipes, EndOfStream(p) PROVE ProcInv'
  <2>1. friend = "dead"
    BY <1>4 DEF EndOfStream
  <2> QED
    BY <1>4, <2>1 DEF EndOfStream
<1>5. ASSUME NEW p \in Pipes, PipeFails(p) PROVE ProcInv'
  BY <1>5 DEF PipeFails
<1>6. ASSUME NEW p \in Pipes, Stopped(p) PROVE ProcInv'
  BY <1>6 DEF Stopped
<1> QED
  BY <1>1, <1>2, <1>3, <1>4, <1>5, <1>6 DEF Threads

-----------------------------------------------------------------------------
(* run_process. *)

LEMMA StepHolds ==
  ASSUME ProcInv, via = "exec", pc # "done", Step \/ Reap, UNCHANGED <<helpervars, via>>
  PROVE  ProcInv'
<1> USE DEF ProcInv, TypeOK, Life, Hearing, Pumps, helpervars, Main, Go, Return, threads, Held,
            Places, Ending, Codes, Breaks
<1>1. CASE Popen
  BY <1>1 DEF Popen
<1>2. CASE ResumeFails
  BY <1>2 DEF ResumeFails
<1>3. CASE StartPump
  <2>1. Order[1] = "stdin" /\ Order[2] = "stdout" /\ Order[3] = "stderr"
    BY DEF Order
  <2>2. PICK i \in 1 .. 3 :
          /\ \A j \in 1 .. 3 : (pump[Order[j]] = "off") <=> (j >= i)
          /\ \/ /\ pump' = [pump EXCEPT ![Order[i]] = "on"]
                /\ Go(IF i = 3 THEN "poll" ELSE "pumps") /\ UNCHANGED why
             \/ Go("sweep") /\ why' = "raised" /\ UNCHANGED pump
    BY <1>3 DEF StartPump
  <2>3. /\ pc = "pumps" /\ why = "none" /\ friend # "none"
        /\ UNCHANGED <<via, platform, early, job, friend, code, reaped, child, hold, grip, own, heard,
                       failed, flooded, stop, ours, struck, orphans, out, wire, hpc>>
    BY <1>3 DEF StartPump
  <2>4. CASE pc' = "sweep" /\ why' = "raised" /\ pump' = pump
    BY <2>3, <2>4
  <2>5. CASE UNCHANGED why /\ pump' = [pump EXCEPT ![Order[i]] = "on"]
    <3>1. pc' = IF i = 3 THEN "poll" ELSE "pumps"
      BY <2>2, <2>3, <2>5
    <3>2. Order[i] \in Pipes /\ \A p \in Pipes \ {Order[i]} : pump'[p] = pump[p]
      BY <2>1, <2>5 DEF Pipes
    <3>3. pump'[Order[i]] = "on" /\ pump' \in [Pipes -> {"off", "on", "ended"}]
      BY <2>5, <3>2
    <3>4. i = 3 => \A p \in Pipes : pump'[p] # "off"
      BY <2>1, <2>2, <3>2, <3>3 DEF Pipes
    <3> QED
      BY <2>3, <2>5, <3>1, <3>2, <3>3, <3>4 DEF Outputs, Pipes
  <2> QED
    BY <2>2, <2>3, <2>4, <2>5
<1>4. CASE FriendExited \/ TimesOut \/ Aborted \/ Floods
  BY <1>4 DEF FriendExited, TimesOut, Aborted, Floods, Break
<1>5. CASE Answered
  BY <1>5, SizesAssumption DEF Answered, Break, Kept, Least
<1>6. CASE Term
  BY <1>6 DEF Term, Signal, Swept
<1>7. CASE Kill
  BY <1>7 DEF Kill, Signal, Swept
<1>8. CASE GraceOver
  BY <1>8 DEF GraceOver, Swept
<1>9. CASE KillGraceOver
  BY <1>9 DEF KillGraceOver, Swept
<1>10. CASE WindowsSweep
  <2>1. PICK refused, slow, reached \in BOOLEAN :
          /\ slow => friend = "running"
          /\ friend' = IF friend = "running" /\ ~refused /\ ~slow THEN "dead" ELSE friend
          /\ code' = IF friend' = friend THEN code ELSE IF job THEN "sentinel" ELSE "nonzero"
          /\ child' = IF child = "alive" /\ ~refused /\ (job \/ (reached /\ friend = "running"))
                      THEN "dead" ELSE child
          /\ hold' = IF child' = "alive" THEN hold ELSE {}
          /\ reaped' = (friend' = "dead")
          /\ orphans' = (refused \/ ~reaped')
    BY <1>10, Zenon DEF WindowsSweep
  <2>2. /\ pc = "endtree" /\ pc' = "join" /\ platform = "windows" /\ ~stop
        /\ (friend = "running" => ours) /\ struck' = (friend = "running")
        /\ UNCHANGED <<via, platform, early, job, grip, own, pump, heard, failed, flooded, stop, why,
                       ours, out, wire, hpc>>
    BY <1>10 DEF WindowsSweep
  <2>3. friend' \in {friend, "dead"} /\ (friend' = "dead" /\ friend # "dead" => friend = "running")
    BY <2>1, <2>2
  <2>4. /\ code' \in Codes /\ (friend' # "dead" => code' = "none" /\ ~reaped')
        /\ friend' = "dead" => code' # "none"
    BY <2>1, <2>2, <2>3
  <2>5. child' \in {child, "dead"} /\ hold' \in {hold, {}}
    BY <2>1
  <2>6. TypeOK' /\ Hearing'
    BY <2>2, <2>3, <2>4
  <2>7. Life'
    BY <2>2, <2>3, <2>4
  <2>8. Pumps'
    BY <2>2, <2>3, <2>5
  <2> QED
    BY <2>6, <2>7, <2>8
<1>11. CASE Join
  BY <1>11 DEF Join, Alive
<1>12. CASE Rejoin
  BY <1>12 DEF Rejoin, Alive
<1>13. CASE Classify
  BY <1>13 DEF Classify
<1>14. CASE Reap
  BY <1>14 DEF Reap
<1>15. CASE CaptureKiller
  <2>1. /\ pc = "sweep" /\ pc' = "endtree" /\ platform = "windows" /\ ours' = (friend = "running")
        /\ reaped' = (friend = "dead")
        /\ UNCHANGED <<via, platform, early, job, friend, code, child, hold, grip, own, heard, pump,
                       failed, flooded, stop, why, struck, orphans, out, wire, hpc>>
    BY <1>15 DEF CaptureKiller
  <2>2. TypeOK' /\ Hearing'
    BY <2>1
  <2>3. Life'
    BY <2>1
  <2>4. Pumps'
    BY <2>1
  <2> QED
    BY <2>2, <2>3, <2>4
<1> QED
  BY <1>1, <1>2, <1>3, <1>4, <1>5, <1>6, <1>7, <1>8, <1>9, <1>10, <1>11, <1>12, <1>13, <1>14,
     <1>15 DEF Step

\* A step that does not enter the end of the call adds nobody to a group whose
\* friend is gone; one that does has looked at the group.
LEMMA SweepingHolds ==
  ASSUME ProcInv, Sweeping, via = "exec", pc # "done", Step \/ Reap \/ World \/ Threads
  PROVE  Sweeping'
<1> DEFINE Over == {"join", "rejoin", "classify"}
<1>1. friend = "dead" \/ friend = "running" \/ pc = "start"
  BY DEF ProcInv, TypeOK, Life, Places, Ending
<1>2. CASE pc' \notin Over
  BY <1>2 DEF Sweeping
<1>3. CASE World
  BY <1>3 DEF Sweeping, Tracked, World, Write, Exit, Fork, KinEnds, KillLands, Idle
<1>4. CASE Threads \/ Reap
  BY <1>4 DEF Sweeping, Tracked, Threads, Reap, Hear, Chatter, PromptTaken, EndOfStream, PipeFails,
              Stopped, Pumping, procworld
<1>5. CASE Term \/ Kill \/ GraceOver \/ KillGraceOver
  <2>1. pc \in Ending /\ pc \notin Over /\ UNCHANGED <<friend, child, platform, job>>
    BY <1>5 DEF Term, Kill, Signal, GraceOver, KillGraceOver, Main, Ending
  <2>2. pc' \in Over => orphans' \/ ~GroupAlive
    BY <1>5 DEF Term, Kill, Signal, GraceOver, KillGraceOver, Swept, Go
  <2> QED
    BY <1>1, <2>1, <2>2 DEF Sweeping, Tracked, GroupAlive, Ending
<1>6. CASE WindowsSweep
  <2>1. /\ platform' = "windows" /\ job' = job
        /\ ~orphans' => friend' = "dead" /\ (job => child' # "alive")
    BY <1>6, <1>1 DEF WindowsSweep, ProcInv, Life, Main
  <2> QED
    BY <2>1 DEF Sweeping, Tracked
<1>7. CASE Join \/ Rejoin
  BY <1>7 DEF Sweeping, Tracked, Join, Rejoin, Main, Go
<1>8. CASE Popen \/ ResumeFails \/ StartPump \/ FriendExited \/ TimesOut \/ Aborted \/ Floods
           \/ Answered \/ CaptureKiller \/ Classify
  <2>1. pc' \notin Over
    BY <1>8 DEF Popen, ResumeFails, StartPump, FriendExited, TimesOut, Aborted, Floods, Answered,
                CaptureKiller, Classify, Break, Return, Go
  <2> QED
    BY <2>1 DEF Sweeping
<1> QED
  BY <1>3, <1>4, <1>5, <1>6, <1>7, <1>8 DEF Step

LEMMA ExecHolds ==
  ASSUME Inv, ExecStep
  PROVE  Inv'
<1>1. ProcInv /\ via = "exec" /\ pc # "done" /\ UNCHANGED <<helpervars, via>>
  BY DEF Inv, ProcInv, ExecStep, ProcNext
<1>2. ProcInv'
  BY <1>1, WorldHolds, ThreadsHold, StepHolds DEF ExecStep, ProcNext
<1>3. Sweeping'
  BY <1>1, SweepingHolds DEF Inv, ExecStep, ProcNext
<1>4. Helping'
  BY ExecLeavesHelper DEF Inv
<1> QED
  BY <1>2, <1>3, <1>4 DEF Inv, ProcInv

-----------------------------------------------------------------------------
(* The HTTP helper and its caller. *)

LEMMA HttpHolds ==
  ASSUME Inv, HttpStep
  PROVE  Inv'
<1>1. via = "http" /\ hpc # "done" /\ UNCHANGED <<procvars, via>>
  BY DEF HttpStep, HttpNext
<1> USE <1>1 DEF Inv, TypeOK, Life, Hearing, Pumps, Sweeping, Tracked, Helping, procvars, Held, HelperStep, Send, Wires
<1>2. CASE Body
  BY <1>2, SizesAssumption DEF Body, Least
<1>3. CASE Served
  BY <1>3 DEF Served
<1>4. CASE Rejected
  BY <1>4 DEF Rejected
<1>5. CASE SocketTimesOut
  BY <1>5 DEF SocketTimesOut
<1>6. CASE HelperExits
  BY <1>6 DEF HelperExits
<1>7. CASE Ticks
  BY <1>7 DEF Ticks
<1>8. CASE Post
  BY <1>8 DEF Post, HttpReturn
<1>9. CASE HttpAbort
  BY <1>9 DEF HttpAbort
<1>10. CASE PollPipe
  BY <1>10 DEF PollPipe
<1>11. CASE CheckHelper
  BY <1>11 DEF CheckHelper
<1>12. CASE StopHelper
  <2>1. /\ hpc' = "done" /\ UNCHANGED <<wire, received, own>>
        /\ helper' = "gone" \/ helper' = helper
    BY <1>12, Zenon DEF StopHelper, HttpReturn
  <2> QED
    BY <2>1
<1> QED
  BY <1>2, <1>3, <1>4, <1>5, <1>6, <1>7, <1>8, <1>9, <1>10, <1>11, <1>12
     DEF HttpStep, HttpNext, Caller

LEMMA NextHolds == Inv /\ [Next]_allvars => Inv'
<1>1. CASE UNCHANGED allvars
  BY <1>1 DEF allvars, procvars, httpvars, Inv, TypeOK, Life, Hearing, Pumps, Sweeping, Tracked,
              Helping, Held
<1> QED
  BY <1>1, ExecHolds, HttpHolds DEF Next

LEMMA Always == Spec => []Inv
BY InitHolds, NextHolds, PTL DEF Spec

-----------------------------------------------------------------------------
(* What is reported. *)

\* The cases of the classification are all there are.
LEMMA Verdicts ==
  ASSUME Inv, pc = "classify"
  PROVE  /\ why = "raised" <=> Verdict = "raised"
         /\ Verdict \in {"raised", "broken", "overflow", "timeout", "aborted", "exit", "ok", "unusable"}
         /\ Verdict = "ok" =>
              /\ Sound /\ why \in {"exited", "answered"} /\ Usable
              /\ (reaped /\ code = "zero") \/ KilledAfterAnswering
         /\ Sound /\ why = "answered" /\ Usable /\ ((reaped /\ code = "zero") \/ KilledAfterAnswering) =>
              Verdict = "ok"
<1>1. why \in Breaks /\ (why = "flood" => "stdout" \in flooded)
  BY DEF Inv, TypeOK, Life, Hearing, Ending
<1>2. CASE why = "raised"
  <2>1. Verdict = "raised"
    BY <1>2 DEF Verdict, Sound
  <2> QED
    BY <1>2, <2>1
<1>3. CASE why # "raised" /\ "stdout" \in failed
  <2>1. Verdict = "broken"
    BY <1>3 DEF Verdict, Sound
  <2> QED
    BY <1>3, <2>1 DEF Sound
<1>4. CASE why # "raised" /\ "stdout" \in flooded \ failed
  <2>1. Verdict = "overflow"
    BY <1>4 DEF Verdict, Sound
  <2> QED
    BY <1>4, <2>1 DEF Sound
<1>5. CASE Sound /\ why \in {"timeout", "aborted"}
  <2>1. Verdict = why
    BY <1>5 DEF Verdict, Sound
  <2> QED
    BY <1>5, <2>1
<1>6. CASE Sound /\ why \in {"exited", "answered"}
  <2>1. Verdict = IF ~(reaped /\ code = "zero") /\ ~KilledAfterAnswering THEN "exit"
                  ELSE IF Usable THEN "ok" ELSE "unusable"
    BY <1>6 DEF Verdict, Sound
  <2> QED
    BY <1>6, <2>1
<1> QED
  BY <1>1, <1>2, <1>3, <1>4, <1>5, <1>6 DEF Breaks, Sound

\* A call reports once, and nothing happens after.
LEMMA Reports ==
  ASSUME Inv, [Next]_allvars, out' # out
  PROVE  \/ Post /\ via = "http" /\ UNCHANGED <<procvars, via>>
         \/ StopHelper /\ via = "http" /\ UNCHANGED <<procvars, via>>
         \/ Popen /\ via = "exec" /\ UNCHANGED <<helpervars, via>>
         \/ ResumeFails /\ via = "exec" /\ UNCHANGED <<helpervars, via>>
         \/ Classify /\ via = "exec" /\ UNCHANGED <<helpervars, via>>
BY DEF Next, ExecStep, HttpStep, ProcNext, HttpNext, Step, Reap, World, Threads, Caller,
       Write, Exit, Fork, KinEnds, KillLands, Idle,
       Hear, Chatter, PromptTaken, EndOfStream, PipeFails, Stopped, Pumping,
       StartPump, FriendExited, TimesOut, Aborted, Floods, Answered, Break, Term, Kill, Signal,
       GraceOver, KillGraceOver, CaptureKiller, WindowsSweep, Join, Rejoin,
       Body, Served, Rejected, SocketTimesOut, HelperExits, Ticks, HelperStep,
       HttpAbort, PollPipe, CheckHelper, allvars, httpvars

-----------------------------------------------------------------------------
(* The theorems. *)

\* Where nothing is reported, the sweep has found nobody in a tracked group, and
\* every output pump has ended or failed.
LEMMA SurvivorsSeen ==
  ASSUME Inv, Classify, via = "exec"
  PROVE  SurvivorsAreReported'
<1> SUFFICES ASSUME Verdict # "raised", ~orphans
             PROVE  /\ friend # "running"
                    /\ Tracked => child # "alive"
                    /\ (hold \cup grip) \cap (Outputs \ failed) = {}
  BY DEF Classify, Main, threads, Return, Result, SurvivorsAreReported, Tracked, Returned
<1>1. pc = "classify" /\ why # "raised"
  BY Verdicts DEF Classify, Main
<1>2. friend # "running" /\ (Tracked => child # "alive")
  BY <1>1 DEF Inv, Sweeping
<1>3. \A p \in Outputs : pump[p] = "ended"
  BY <1>1 DEF Inv, TypeOK, Pumps, Ending, Outputs, Pipes
<1>4. \A p \in Outputs \ failed : ~Held(p)
  BY <1>3 DEF Inv, Pumps
<1> QED
  BY <1>2, <1>4 DEF Held

LEMMA AnswerSeen ==
  ASSUME Whole .. Ceiling \subseteq Parses,
         Inv, Classify, via = "exec"
  PROVE  AnAnswerInHandIsKept'
<1> SUFFICES ASSUME why = "answered", struck, Sound,
                    platform = "posix" => reaped /\ code # "nonzero"
             PROVE  Verdict = "ok"
  BY DEF Classify, Main, threads, Return, Result, AnAnswerInHandIsKept, Sound
<1>1. pc = "classify"
  BY DEF Classify, Main
<1>2. Usable
  <2>1. heard \in Whole .. Ceiling /\ Kept = heard
    BY SizesAssumption DEF Inv, TypeOK, Hearing, Sound, Kept, Least
  <2> QED
    BY <2>1 DEF Usable
<1>3. (reaped /\ code = "zero") \/ KilledAfterAnswering
  <2>1. CASE platform = "windows"
    BY <2>1 DEF Inv, Life, KilledAfterAnswering
  <2>2. CASE platform = "posix"
    BY <1>1, <2>2 DEF Inv, TypeOK, Life, Codes, KilledAfterAnswering
  <2> QED
    BY <2>1, <2>2 DEF Inv, TypeOK
<1> QED
  BY <1>1, <1>2, <1>3, Verdicts

\* After the report nothing moves.
LEMMA Still ==
  ASSUME Inv, [Next]_allvars, out.reason # "pending"
  PROVE  UNCHANGED allvars
<1>1. out # Pending
  BY DEF Pending
<1> QED
  BY <1>1 DEF Inv, Life, Helping, Next, ExecStep, HttpStep, ProcNext, HttpNext, TypeOK

\* The three things a caller may rely on, for whatever outlives the call.
Relied == SurvivorsAreReported /\ NoHelperSurvives

LEMMA ReliedStep == Inv /\ Relied /\ [Next]_allvars => Relied'
<1> SUFFICES ASSUME Inv, Relied, [Next]_allvars PROVE Relied'
  OBVIOUS
<1>1. CASE out.reason # "pending"
  BY <1>1, Still DEF Relied, SurvivorsAreReported, Tracked, NoHelperSurvives, Returned, allvars,
                     procvars, httpvars
<1>2. CASE out.reason = "pending" /\ out' = out
  BY <1>2 DEF Relied, SurvivorsAreReported, NoHelperSurvives, Returned
<1>3. CASE Post /\ via = "http" /\ UNCHANGED <<procvars, via>>
  <2>1. friend' = "none" /\ child' = "none" /\ hold' = {} /\ grip' = {}
    BY <1>3 DEF Inv, Life, procvars
  <2>2. helper' = "none" \/ (out' = out /\ out.reason = "pending")
    BY <1>3 DEF Post, Inv, Helping, Pending
  <2> QED
    BY <1>3, <2>1, <2>2 DEF Relied, SurvivorsAreReported, NoHelperSurvives, Returned
<1>4. CASE StopHelper /\ via = "http" /\ UNCHANGED <<procvars, via>>
  <2>1. friend' = "none" /\ child' = "none" /\ hold' = {} /\ grip' = {}
    BY <1>4 DEF Inv, Life, procvars
  <2>2. helper' = "gone" \/ out' = Result("raised", FALSE, FALSE)
    BY <1>4, Zenon DEF StopHelper, HttpReturn
  <2> QED
    BY <2>1, <2>2 DEF Relied, SurvivorsAreReported, NoHelperSurvives, Returned, Result
<1>5. CASE Popen /\ via = "exec" /\ UNCHANGED <<helpervars, via>>
  BY <1>5 DEF Inv, Life, Popen, Main, Go, Return, Result, Relied, SurvivorsAreReported,
              NoHelperSurvives, Returned, Pending
<1>6. CASE ResumeFails /\ via = "exec" /\ UNCHANGED <<helpervars, via>>
  BY <1>6 DEF Inv, Life, ResumeFails, Main, Go, Return, Result, Relied, SurvivorsAreReported,
              NoHelperSurvives, Returned
<1>7. CASE Classify /\ via = "exec" /\ UNCHANGED <<helpervars, via>>
  BY <1>7, SurvivorsSeen DEF Relied, NoHelperSurvives
<1> QED
  BY <1>1, <1>2, <1>3, <1>4, <1>5, <1>6, <1>7, Reports

LEMMA KeptStep ==
  ASSUME Whole .. Ceiling \subseteq Parses
  PROVE  Inv /\ AnAnswerInHandIsKept /\ [Next]_allvars => AnAnswerInHandIsKept'
<1> SUFFICES ASSUME Inv, AnAnswerInHandIsKept, [Next]_allvars PROVE AnAnswerInHandIsKept'
  OBVIOUS
<1>1. CASE out.reason # "pending"
  BY <1>1, Still DEF AnAnswerInHandIsKept, Returned, Sound, allvars, procvars, httpvars
<1>2. CASE out.reason = "pending" /\ out' = out
  BY <1>2 DEF AnAnswerInHandIsKept, Returned
<1>3. CASE why' # "answered"
  BY <1>3 DEF AnAnswerInHandIsKept
<1>4. CASE (Post \/ StopHelper) /\ via = "http"
  BY <1>4, NextHolds, <1>3 DEF Inv, Life, Next, HttpStep, ExecStep, allvars, procvars
<1>5. CASE (Popen \/ ResumeFails) /\ via = "exec"
  BY <1>5, <1>3 DEF Inv, Life, Popen, ResumeFails, Main
<1>6. CASE Classify /\ via = "exec"
  BY <1>6, AnswerSeen
<1> QED
  BY <1>1, <1>2, <1>4, <1>5, <1>6, Reports

\* The friend, a descendant in a tracked group and anybody who holds an output
\* pipe whose pump did not fail are reported when they outlive a call, whatever
\* was signalled, refused, redirected or fled, and whichever pipe failed
\* (spawn.py:441-521).
THEOREM NobodyIsPassedOver == Spec => []SurvivorsAreReported
<1>1. Init => Relied
  BY DEF Init, Relied, SurvivorsAreReported, NoHelperSurvives, Returned, Pending
<1>2. Relied => SurvivorsAreReported
  BY DEF Relied
<1> QED
  BY <1>1, <1>2, Always, ReliedStep, PTL DEF Spec

\* A call over HTTP that returned has left no helper process behind
\* (http_transport._stop_worker).
THEOREM HelpersAreStopped == Spec => []NoHelperSurvives
<1>1. Init => Relied
  BY DEF Init, Relied, SurvivorsAreReported, NoHelperSurvives, Returned, Pending
<1>2. Relied => NoHelperSurvives
  BY DEF Relied
<1> QED
  BY <1>1, <1>2, Always, ReliedStep, PTL DEF Spec

\* A friend stopped after its answer was complete keeps it, provided what it
\* says after that leaves the answer readable. That is the contract of the
\* envelopes that can tell: under json_path stdout is exactly one object, under
\* ndjson it ends with a terminal event (spawn.py:600-650,
\* envelopes.answer_is_complete).
THEOREM AnswersAreKept ==
  ASSUME Whole .. Ceiling \subseteq Parses
  PROVE  Spec => []AnAnswerInHandIsKept
<1>1. Init => AnAnswerInHandIsKept
  BY DEF Init, AnAnswerInHandIsKept, Returned, Pending
<1> QED
  BY <1>1, Always, KeptStep, PTL DEF Spec

-----------------------------------------------------------------------------
(* The promise of one call, step by step.                                   *)

\* A friend that has said its answer, or exited, has finished, and stays so.
LEMMA SaysOn ==
  ASSUME Inv, [Next]_allvars
  PROVE  /\ own' = own \/ (own < Most /\ own' = own + 1)
         /\ Finished => Finished'
         /\ Finished' # Finished => out' = out
<1> USE DEF Inv, TypeOK, Life, Hearing, Helping, Finished
<1>1. CASE UNCHANGED allvars
  BY <1>1 DEF allvars, procvars, httpvars
<1>2. CASE HttpStep
  <2>1. via = "http" /\ UNCHANGED via
    BY <1>2 DEF HttpStep
  <2>2. CASE UNCHANGED <<own, wire>>
    BY <2>1, <2>2
  <2>3. CASE Body
    BY <2>1, <2>3, SizesAssumption DEF Body, Least, HelperStep
  <2>4. CASE Served \/ Rejected \/ SocketTimesOut \/ HelperExits
    BY <2>1, <2>4 DEF Served, Rejected, SocketTimesOut, HelperExits, Send, HelperStep, Wires
  <2> QED
    BY <1>2, <2>2, <2>3, <2>4 DEF HttpStep, HttpNext, Caller, Post, HttpAbort, PollPipe,
       CheckHelper, StopHelper, Ticks
<1>3. CASE ExecStep
  <2>1. via = "exec" /\ UNCHANGED via /\ pc # "done"
    BY <1>3 DEF ExecStep, ProcNext
  <2>2. CASE UNCHANGED <<own, code, early>>
    BY <2>1, <2>2
  <2>3. CASE Write
    BY <2>1, <2>3, SizesAssumption DEF Write, Idle
  <2>4. CASE (\E s \in {"zero", "nonzero", "signal"} : Exit(s)) \/ KillLands
    BY <2>1, <2>4 DEF Exit, KillLands, Idle
  <2>5. CASE WindowsSweep
    <3>1. UNCHANGED <<own, early, out>> /\ (code' = code \/ friend = "running")
      BY <2>5, Zenon DEF WindowsSweep, Main
    <3> QED
      BY <2>1, <3>1
  <2> QED
    BY <1>3, <2>2, <2>3, <2>4, <2>5 DEF ExecStep, ProcNext, Step, Reap, World, Threads, Fork,
       KinEnds, Idle, Hear, Chatter, PromptTaken, EndOfStream, PipeFails, Stopped, Pumping, procworld,
       Popen, ResumeFails, StartPump, FriendExited, TimesOut, Aborted, Floods, Answered, Break,
       Term, Kill, Signal, GraceOver, KillGraceOver, CaptureKiller, Join, Rejoin, Classify, Main
<1> QED
  BY <1>1, <1>2, <1>3 DEF Next

\* An answer is reported only of a friend that had finished it.
LEMMA AnswersAreFinished ==
  ASSUME Inv, [Next]_allvars, out' # out
  PROVE  /\ out.reason = "pending" /\ out'.reason # "pending"
         /\ out'.reason = "ok" => Finished
         /\ UNCHANGED own
<1>1. out.reason = "pending"
  BY Still DEF allvars, httpvars
<1>2. CASE Post /\ via = "http"
  BY <1>1, <1>2 DEF Post, HttpReturn, Result
<1>3. CASE StopHelper /\ via = "http"
  <2>1. received \in {"ok", "http-error", "unreachable", "timeout", "aborted"}
    BY <1>3 DEF Inv, Helping, StopHelper, Wires
  <2>2. Reply # "pending" /\ (Reply = "ok" => received = "ok" /\ ~(own > Ceiling))
    BY <2>1 DEF Reply
  <2>4. out' \in {Result(Reply, FALSE, FALSE), Result("raised", FALSE, FALSE)} /\ UNCHANGED own
    BY <1>3, Zenon DEF StopHelper, HttpReturn
  <2>3. out'.reason \in {Reply, "raised"} /\ UNCHANGED own
    BY <2>4 DEF Result
  <2> QED
    BY <1>1, <1>3, <2>2, <2>3, SizesAssumption DEF Inv, TypeOK, Helping, Finished
<1>4. CASE (Popen \/ ResumeFails) /\ via = "exec"
  BY <1>1, <1>4 DEF Popen, ResumeFails, Main, Return, Result
<1>5. CASE Classify /\ via = "exec"
  <2>1. out'.reason = Verdict /\ pc = "classify" /\ UNCHANGED own
    BY <1>5, Zenon DEF Classify, Main, Return, Result
  <2>2. Verdict = "ok" => Finished
    <3>1. SUFFICES ASSUME Verdict = "ok" PROVE Finished
      OBVIOUS
    <3>2. CASE reaped /\ code = "zero"
      BY <1>5, <3>2 DEF Finished
    <3>3. CASE KilledAfterAnswering
      BY <1>5, <3>3, SizesAssumption DEF Finished, KilledAfterAnswering, Inv, Hearing, TypeOK
    <3> QED
      BY <2>1, <3>1, <3>2, <3>3, Verdicts
  <2> QED
    BY <1>1, <2>1, <2>2, Verdicts
<1> QED
  BY <1>2, <1>3, <1>4, <1>5, Reports

LEMMA CallStep ==
  Inv /\ [Next]_allvars => [Call!Next]_<<own, Finished, CASE out.reason = "pending" -> "pending"
                                                           [] out.reason = "ok" -> "answer"
                                                           [] OTHER -> "failure">>
<1> SUFFICES ASSUME Inv, [Next]_allvars
             PROVE  Call!Next \/ UNCHANGED <<own, Finished, out>>
  OBVIOUS
<1>1. Finished \in BOOLEAN /\ Finished' \in BOOLEAN
  BY DEF Finished
<1>2. CASE out' = out /\ own' = own
  BY <1>1, <1>2, SaysOn DEF Call!Next, Call!Finish
<1>3. CASE out' = out /\ own' # own
  BY <1>1, <1>3, SaysOn DEF Call!Next, Call!Say
<1>4. CASE out' # out
  BY <1>1, <1>4, SaysOn, AnswersAreFinished DEF Call!Next, Call!Answer, Call!Fail
<1> QED
  BY <1>2, <1>3, <1>4

\* Every step of either transport is a step of OneCall or none: one report, and
\* an answer only from a friend that had finished it.  That a report comes at
\* all is liveness, and the run's.
THEOREM CallsReportOnce == Spec => Call!Steps
<1>1. Init => Call!Init
  BY SizesAssumption DEF Init, Call!Init, Finished, Pending, HttpInit, ProcInit
<1> QED
  BY <1>1, Always, CallStep, PTL DEF Spec, Call!Steps
=============================================================================
