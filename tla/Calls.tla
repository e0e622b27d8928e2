------------------------------- MODULE Calls -------------------------------
(* One friend called over either transport (dispatch._dispatch chooses by the *)
(* adapter), and what a caller may rely on whichever it was.                 *)
EXTENDS FriendProcess, HttpCall

VARIABLES via       \* "exec" or "http": the adapter's transport

allvars == <<procvars, httpvars, via>>

helpervars == <<helper, wire, received, clock, quiet, hpc>>

Init == /\ via \in {"exec", "http"}
        /\ ProcInit /\ pc = IF via = "exec" THEN "start" ELSE "done"
        /\ HttpInit /\ hpc = IF via = "http" THEN "check" ELSE "done"
        /\ via = "http" => ~early /\ ~job /\ platform = CHOOSE p \in Platforms : TRUE
        /\ out = Pending /\ own = 0

ExecStep == via = "exec" /\ ProcNext /\ UNCHANGED <<helpervars, via>>
HttpStep == via = "http" /\ HttpNext /\ UNCHANGED <<procvars, via>>

Next == ExecStep \/ HttpStep

Spec == Init /\ [][Next]_allvars /\ ProcFair /\ HttpFair

-----------------------------------------------------------------------------
(* PROPERTIES *)

Returned == out.reason \notin {"pending", "raised"}

\* The friend's descendants can be counted: a process group, or a Job Object.
Tracked == platform = "posix" \/ job

\* What outlives the call is reported as a suspected orphan: the friend itself;
\* a descendant in a group that is tracked, whatever it did with its streams;
\* and whoever still holds an output pipe, in the group or out of it, unless
\* the pump of that pipe had failed (spawn.py:441-521,
\* procgroup._terminate_group, wingroup.terminate).
SurvivorsAreReported ==
  Returned =>
    /\ friend = "running" => out.orphans
    /\ Tracked /\ child = "alive" => out.orphans
    /\ (hold \cup grip) \cap (Outputs \ failed) # {} => out.orphans

\* The words of the design, for every platform: "The runner verifies no
\* descendants survive and records orphans" (adversarial-friends-design, 14.1).
\* Without a Job Object a child with redirected output survives a friend that
\* has exited: taskkill finds no such process, which taskkill_tree takes for
\* the ordinary end (wingroup.py:327), and no pipe is held.
NoSurvivorIsSilent == Returned /\ child = "alive" => out.orphans

\* A friend that had already answered and was stopped for not exiting keeps its
\* answer, when it died of the signal or exited cleanly on POSIX, and whatever
\* status the kill left it on Windows (spawn.py:600-650).
AnAnswerInHandIsKept ==
  /\ Returned /\ why = "answered" /\ struck /\ Sound
  /\ platform = "posix" => reaped /\ code # "nonzero"
  => out.reason = "ok"

\* The comment's own words, for every status: "A friend we stopped ourselves
\* cannot be judged by its exit code: the code IS our signal" (spawn.py).
StoppedFriendIsNotJudged ==
  Returned /\ why = "answered" /\ struck /\ reaped /\ Sound => out.reason # "exit"

\* No helper process of the HTTP transport survives a call that returned
\* (http_transport._stop_worker raises instead).
NoHelperSurvives == via = "http" /\ Returned => helper \in {"none", "gone"}

\* "the timeout limits how long a request may take" (http_transport.run_request).
TimeoutLimitsTheRequest == via = "http" /\ out.reason = "pending" => clock <= 1

\* Whichever transport carried it, a call keeps the promise of OneCall: one
\* report, an answer only from a friend that had finished giving it, and never
\* no report at all however the friend behaves.
Finished == IF via = "http" THEN wire = "ok" /\ own <= Ceiling
            ELSE \/ code \in {"zero", "nonzero"}
                 \/ early /\ own >= Whole

Call == INSTANCE OneCall WITH
          said <- own, finished <- Finished,
          verdict <- CASE out.reason = "pending" -> "pending"
                       [] out.reason = "ok"      -> "answer"
                       [] OTHER                  -> "failure"

KeepsThePromise == Call!Spec
=============================================================================
