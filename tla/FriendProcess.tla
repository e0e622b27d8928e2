---------------------------- MODULE FriendProcess ----------------------------
(* spawn.run_process: one friend, its process group, its three pump threads  *)
(* and the loop that waits for the first of exit, deadline, abort, flood and *)
(* answer -- then the sweep of the group, the joining of the pumps and the   *)
(* classification of what was heard.                                         *)
(*                                                                           *)
(* Time is an order of events: the deadline and every grace period may       *)
(* elapse, and the abort flag be set, at any moment. A process group is the   *)
(* friend and one child, which may have redirected any of its streams; a      *)
(* second descendant may leave the group (setsid) holding pipes open. On      *)
(* Windows the group is a Job Object, or nothing when setting it up failed.    *)
EXTENDS Transport

CONSTANTS Platforms,    \* subset of {"posix", "windows"}
          MaxFailures,  \* pipes that may fail in one call
          Holds,        \* the sets of pipes a child may have kept
          Grips         \* the sets of pipes an escaped descendant may hold

ASSUME PlatformsAssumption == Platforms \subseteq {"posix", "windows"}

VARIABLES platform,
          early,        \* the adapter's envelope can say the answer is complete
          job,          \* Windows: the friend was assigned to a Job Object
          friend,       \* "none", "running" or "dead"
          code,         \* exit status: "none", "zero", "nonzero", "signal", "sentinel"
          reaped,       \* wait()/poll() has collected it: returncode is set
          child,        \* a descendant inside the group: "none", "alive", "dead"
          hold,         \* the pipes that child still holds
          grip,         \* the pipes held by a descendant outside the group
          signalled,    \* the strongest signal the group has been sent
          heard,        \* units the stdout pump has read
          pump,         \* the three pump threads: "off", "on", "ended"
          failed,       \* output pumps whose pipe failed (stdout_failed, stderr_failed)
          flooded,      \* output pumps past the ceiling (.._overflow)
          stop,         \* stop_event
          pc,
          why,          \* what ended the wait
          ours,         \* killed_by_runner (Windows)
          struck,       \* history: the friend was running when its group was signalled
          orphans       \* orphans_suspected

procvars == <<platform, early, job, friend, code, reaped, child, hold, grip, signalled, heard,
              pump, failed, flooded, stop, pc, why, ours, struck, orphans>>
callvars == <<out, own>>
vars == <<procvars, callvars>>

Pipes == {"stdin", "stdout", "stderr"}
Outputs == {"stdout", "stderr"}
Order == <<"stdin", "stdout", "stderr">>

procworld == <<platform, early, job, friend, code, reaped, child, hold, grip, signalled, own>>
threads == <<heard, pump, failed, flooded>>

ProcInit == /\ platform \in Platforms /\ early \in BOOLEAN /\ job \in BOOLEAN
            /\ platform = "posix" => ~job
            /\ friend = "none" /\ code = "none" /\ reaped = FALSE
            /\ child = "none" /\ hold = {} /\ grip = {} /\ signalled = "none"
            /\ heard = 0 /\ pump = [p \in Pipes |-> "off"]
            /\ failed = {} /\ flooded = {} /\ stop = FALSE
            /\ why = "none" /\ ours = FALSE /\ struck = FALSE /\ orphans = FALSE

-----------------------------------------------------------------------------
(* The friend and its descendants. *)

Idle == UNCHANGED <<threads, stop, pc, why, ours, struck, orphans, out, platform, early, job>>

\* It writes one more unit of its answer.
Write == /\ friend = "running" /\ own < Most
         /\ own' = own + 1
         /\ UNCHANGED <<friend, code, reaped, child, hold, grip, signalled>> /\ Idle

\* It exits: of its own accord, in answer to SIGTERM (with a status of its own
\* or by dying of the signal), or killed.
Exit(status) == /\ friend = "running"
                /\ \/ status \in {"zero", "nonzero"}
                   \/ status = "signal" /\ platform = "posix" /\ signalled # "none"
                /\ friend' = "dead" /\ code' = status
                /\ UNCHANGED <<own, reaped, child, hold, grip, signalled>> /\ Idle

\* It leaves a descendant in its group, its streams inherited or redirected, or
\* one that has left the group and kept some pipes. A Job Object allows no
\* breakaway.
Fork == /\ friend = "running"
        /\ \/ child = "none" /\ child' = "alive" /\ hold' \in Holds /\ UNCHANGED grip
           \/ /\ grip = {} /\ platform = "posix"
              /\ grip' \in Grips
              /\ UNCHANGED <<child, hold>>
        /\ UNCHANGED <<own, friend, code, reaped, signalled>> /\ Idle

\* A descendant ends.
KinEnds == /\ \/ child = "alive" /\ child' = "dead" /\ hold' = {} /\ UNCHANGED grip
              \/ grip # {} /\ grip' = {} /\ UNCHANGED <<child, hold>>
           /\ UNCHANGED <<own, friend, code, reaped, signalled>> /\ Idle

\* SIGKILL reaches what is left of the group.
KillLands == /\ signalled = "KILL" /\ platform = "posix"
             /\ friend = "running" \/ child = "alive"
             /\ friend' = IF friend = "running" THEN "dead" ELSE friend
             /\ code' = IF friend = "running" THEN "signal" ELSE code
             /\ child' = IF child = "alive" THEN "dead" ELSE child
             /\ hold' = {}
             /\ UNCHANGED <<own, reaped, grip, signalled>> /\ Idle

World == Write \/ (\E s \in {"zero", "nonzero", "signal"} : Exit(s)) \/ Fork \/ KinEnds \/ KillLands

-----------------------------------------------------------------------------
(* The pump threads. *)

\* A pipe reaches end of file when nobody holds its other end.
Held(p) == friend = "running" \/ p \in hold \/ p \in grip

Pumping(p) == /\ pump[p] = "on"
              /\ UNCHANGED <<procworld, stop, pc, why, ours, struck, orphans, out>>

Ends(p) == pump' = [pump EXCEPT ![p] = "ended"]

\* Past the ceiling the pump goes on reading into the void.
Hear == /\ Pumping("stdout") /\ heard < own
        /\ heard' = heard + 1
        /\ flooded' = IF heard' > Ceiling THEN flooded \cup {"stdout"} ELSE flooded
        /\ UNCHANGED <<pump, failed>>

\* What a friend says on stderr matters only for passing the ceiling.
Chatter == /\ Pumping("stderr") /\ friend = "running"
           /\ flooded' = flooded \cup {"stderr"}
           /\ UNCHANGED <<heard, pump, failed>>

Drained(p) == p = "stdout" => heard = own

\* End of stream; for stdin, a friend that has read its prompt or gone away.
EndOfStream(p) == /\ Pumping(p) /\ ~Held(p) /\ Drained(p)
                  /\ Ends(p)
                  /\ UNCHANGED <<heard, failed, flooded>>

PromptTaken == /\ Pumping("stdin") /\ friend = "running"
               /\ Ends("stdin")
               /\ UNCHANGED <<heard, failed, flooded>>

\* The pipe fails in a way that is not an orderly close.
PipeFails(p) == /\ Pumping(p) /\ p \in Outputs /\ Cardinality(failed) < MaxFailures
                /\ Ends(p) /\ failed' = failed \cup {p}
                /\ UNCHANGED <<heard, flooded>>

\* Told to stop, a POSIX pump drains what is there and ends; a Windows pump
\* never looks.
Stopped(p) == /\ Pumping(p) /\ stop /\ platform = "posix" /\ Drained(p)
              /\ Ends(p)
              /\ UNCHANGED <<heard, failed, flooded>>

Threads == \/ Hear \/ Chatter \/ PromptTaken
           \/ \E p \in Pipes : EndOfStream(p) \/ PipeFails(p) \/ Stopped(p)

-----------------------------------------------------------------------------
(* run_process itself. *)

Main(from) == pc = from /\ UNCHANGED <<own, early, platform, job>>
Go(to) == pc' = to
Return(result) == out' = result /\ Go("done")

\* Popen: the friend starts, or a SpawnResult says why it did not.
Popen == /\ Main("start")
         /\ \/ friend' = "running" /\ Go("pumps") /\ UNCHANGED out
            \/ Return(Result("nostart", FALSE, FALSE)) /\ UNCHANGED friend
         /\ UNCHANGED <<code, reaped, child, hold, grip, signalled, threads, stop, why, ours, struck, orphans>>

\* Windows: the suspended friend could not be resumed. It is killed before it
\* ran, and a kill that cannot be confirmed is reported as a leak.
ResumeFails == /\ Main("start") /\ platform = "windows"
               /\ \E leaked \in BOOLEAN :
                    /\ friend' = IF leaked THEN "running" ELSE "dead"
                    /\ Return(Result("nostart", leaked, FALSE))
               /\ UNCHANGED <<code, reaped, child, hold, grip, signalled, threads, stop, why, ours, struck, orphans>>

\* The threads start in order; one that cannot be started raises into the sweep.
StartPump == /\ Main("pumps")
             /\ \E i \in 1..3 :
                  /\ \A j \in 1..3 : (pump[Order[j]] = "off") <=> (j >= i)
                  /\ \/ /\ pump' = [pump EXCEPT ![Order[i]] = "on"]
                        /\ Go(IF i = 3 THEN "poll" ELSE "pumps") /\ UNCHANGED why
                     \/ Go("sweep") /\ why' = "raised" /\ UNCHANGED pump
             /\ UNCHANGED <<friend, code, reaped, child, hold, grip, signalled, heard, failed, flooded,
                            stop, ours, struck, orphans, out>>

\* while process.poll() is None: each way out of the loop, in the order the
\* body tests for them. The deadline and the abort flag are found set at any
\* test; a flood and an answer only when neither was.
Break(reason) == /\ Main("poll") /\ why' = reason /\ Go("sweep")
                 /\ UNCHANGED <<friend, code, child, hold, grip, signalled, threads, stop, ours, struck,
                                orphans, out>>

FriendExited == Break("exited") /\ friend = "dead" /\ reaped' = TRUE

TimesOut == Break("timeout") /\ friend = "running" /\ UNCHANGED reaped

Aborted == Break("aborted") /\ friend = "running" /\ UNCHANGED reaped

Floods == Break("flood") /\ friend = "running" /\ "stdout" \in flooded /\ UNCHANGED reaped

Kept == Least(heard, Ceiling)

\* answer_is_complete: only for an envelope that can tell.
Answered == /\ Break("answered") /\ friend = "running" /\ "stdout" \notin flooded
            /\ early /\ Kept = Whole
            /\ UNCHANGED reaped

-----------------------------------------------------------------------------
(* The sweep of the group. *)

\* A zombie nobody collected still counts as a member.
GroupAlive == friend = "running" \/ (friend = "dead" /\ ~reaped) \/ child = "alive"

Swept(leak) == orphans' = leak /\ Go("join")

\* killpg: nothing there, refused, or sent.
Signal(from, sig, next) ==
  /\ Main(from) /\ platform = "posix"
  /\ \/ ~GroupAlive /\ Swept(FALSE) /\ UNCHANGED <<signalled, struck>>
     \/ GroupAlive /\ Swept(TRUE) /\ UNCHANGED <<signalled, struck>>
     \/ /\ GroupAlive /\ Go(next)
        /\ signalled' = sig /\ struck' = (struck \/ friend = "running")
        /\ UNCHANGED orphans
  /\ UNCHANGED <<friend, code, reaped, child, hold, grip, threads, stop, why, ours, out>>

Term == Signal("sweep", "TERM", "grace")
Kill == Signal("kill", "KILL", "killgrace")

\* _reap_after_signal collects the friend, then waits for the rest of the group
\* or for the grace to elapse; what follows looks at the group once more.
Reap == /\ pc \in {"grace", "killgrace"} /\ friend = "dead" /\ ~reaped
        /\ reaped' = TRUE
        /\ UNCHANGED <<platform, early, job, friend, code, child, hold, grip, signalled, own, threads, stop,
                       pc, why, ours, struck, orphans, out>>

GraceOver == /\ Main("grace")
             /\ IF GroupAlive THEN Go("kill") /\ UNCHANGED orphans ELSE Swept(FALSE)
             /\ UNCHANGED <<friend, code, reaped, child, hold, grip, signalled, threads, stop, why, ours, struck, out>>

KillGraceOver == /\ Main("killgrace")
                 /\ Swept(GroupAlive)
                 /\ UNCHANGED <<friend, code, reaped, child, hold, grip, signalled, threads, stop, why, ours, struck, out>>

\* Windows: killed_by_runner is captured before the kill, and the friend may
\* still exit of its own accord in between.
CaptureKiller == /\ Main("sweep") /\ platform = "windows"
                 /\ ours' = (friend = "running") /\ reaped' = (friend = "dead")
                 /\ Go("endtree")
                 /\ UNCHANGED <<friend, code, child, hold, grip, signalled, threads, stop, why, struck,
                                orphans, out>>

\* One call ends the whole job. Without a job, taskkill ends the friend's tree
\* with a status nobody chose, as far as it can follow it from parent to child;
\* once the friend has exited it finds nothing to end and reports no survivor
\* (code 128). Either may be refused, and the friend's rundown may outlast the
\* wait, which leaves no return code.
WindowsSweep ==
  /\ Main("endtree")
  /\ struck' = (friend = "running")
  /\ \E refused, slow, reached \in BOOLEAN :
       /\ slow => friend = "running"
       /\ friend' = IF friend = "running" /\ ~refused /\ ~slow THEN "dead" ELSE friend
       /\ code' = IF friend' = friend THEN code ELSE IF job THEN "sentinel" ELSE "nonzero"
       /\ child' = IF child = "alive" /\ ~refused /\ (job \/ (reached /\ friend = "running"))
                   THEN "dead" ELSE child
       /\ hold' = IF child' = "alive" THEN hold ELSE {}
       /\ reaped' = (friend' = "dead")
       /\ orphans' = (refused \/ ~reaped')
  /\ signalled' = "KILL"
  /\ Go("join")
  /\ UNCHANGED <<grip, threads, stop, why, ours, out>>

-----------------------------------------------------------------------------
(* The pumps are joined, and the result classified. *)

Alive == {p \in Pipes : pump[p] = "on"}

\* Slip: only the group's membership is evidence of a survivor.
JoinQuietly == /\ Main("join")
               /\ IF Alive = {} THEN Go("classify") /\ UNCHANGED stop
                                ELSE stop' = TRUE /\ Go("rejoin")
               /\ UNCHANGED <<friend, code, reaped, child, hold, grip, signalled, threads, why, ours, struck,
                              orphans, out>>

\* The first join waits for the pumps or times out; one still alive is evidence
\* of a process holding its pipe, and they are all told to stop.
Join == /\ Main("join")
        /\ IF Alive = {} THEN Go("classify") /\ UNCHANGED <<orphans, stop>>
                         ELSE orphans' = TRUE /\ stop' = TRUE /\ Go("rejoin")
        /\ UNCHANGED <<friend, code, reaped, child, hold, grip, signalled, threads, why, ours, struck, out>>

\* The second join ends with the pumps, or gives up on a Windows pump that
\* nothing can unblock.
Rejoin == /\ Main("rejoin")
          /\ Alive = {} \/ platform = "windows"
          /\ Go("classify")
          /\ UNCHANGED <<friend, code, reaped, child, hold, grip, signalled, threads, stop, why, ours, struck,
                         orphans, out>>

\* Slip: the kill is recognised by its exit status alone.
KilledByStatus == why = "answered" /\ reaped /\ code \in {"signal", "sentinel"}

\* Our own kill is not the friend's verdict on itself.
KilledAfterAnswering ==
  /\ why = "answered"
  /\ IF platform = "windows" THEN ours \/ ~reaped \/ code = "sentinel"
                             ELSE reaped /\ code = "signal"

Usable == Kept \in Parses
Sound == "stdout" \notin failed \cup flooded

\* Slip: a killed friend's output is parsed like any other.
VerdictByParsing ==
  CASE why = "raised"         -> "raised"
    [] "stdout" \in failed    -> "broken"
    [] "stdout" \in flooded   -> "overflow"
    [] why # "raised" /\ Usable /\ Sound -> "ok"
    [] OTHER                  -> "exit"

Verdict ==
  CASE why = "raised"       -> "raised"
    [] why # "raised" /\ "stdout" \in failed           -> "broken"
    [] why # "raised" /\ "stdout" \in flooded \ failed -> "overflow"
    [] Sound /\ why \in {"timeout", "aborted"}         -> why
    [] Sound /\ why \in {"exited", "answered"}         ->
         IF ~(reaped /\ code = "zero") /\ ~KilledAfterAnswering THEN "exit"
         ELSE IF Usable THEN "ok" ELSE "unusable"

Truncated(verdict) ==
  \/ verdict \in {"broken", "overflow"}
  \/ verdict \in {"ok", "unusable", "exit"} /\ "stderr" \in failed \cup flooded

Classify == /\ Main("classify")
            /\ Return(Result(Verdict, orphans, Truncated(Verdict)))
            /\ UNCHANGED <<friend, code, reaped, child, hold, grip, signalled, threads, stop, why, ours, struck, orphans>>

-----------------------------------------------------------------------------
Step == \/ Popen \/ ResumeFails \/ StartPump \/ FriendExited \/ TimesOut \/ Aborted
        \/ Floods \/ Answered \/ Term \/ Kill \/ GraceOver \/ KillGraceOver
        \/ CaptureKiller \/ WindowsSweep \/ Join \/ Rejoin \/ Classify

ProcNext == pc # "done" /\ (Step \/ Reap \/ World \/ Threads)

ProcFair == /\ WF_vars(pc # "done" /\ Step)
            /\ WF_vars(pc # "done" /\ Hear)
            /\ \A p \in Pipes : WF_vars(pc # "done" /\ (EndOfStream(p) \/ Stopped(p)))
=============================================================================
