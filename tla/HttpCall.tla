------------------------------ MODULE HttpCall ------------------------------
(* http_transport.run_request: the prompt is posted by a helper process that *)
(* hands its one result back over a pipe, while the caller polls the abort    *)
(* flag, the pipe and the helper in turn.                                    *)
(*                                                                           *)
(* urlopen's timeout bounds each wait for the socket; `quiet` is the time     *)
(* since the server was last heard, `clock` the time since the request was    *)
(* posted, both in timeouts and capped at Patience.                          *)
EXTENDS Transport

CONSTANTS Patience  \* timeouts a run is watched for

ASSUME PatienceAssumption == Patience \in Nat /\ Patience >= 2

VARIABLES helper,   \* "none", "asking", "closing" (result sent) or "gone"
          wire,     \* the helper's pipe: "empty", "closed" or a result
          received, \* what the caller took from the pipe
          clock, quiet,
          hpc

httpvars == <<helper, wire, received, clock, quiet, hpc, out, own>>

HttpInit == /\ helper = "none" /\ wire = "empty" /\ received = "nothing"
            /\ clock = 0 /\ quiet = 0

-----------------------------------------------------------------------------
(* The helper process and its server. *)

HelperStep == UNCHANGED <<received, clock, hpc, out>>

Send(result) == wire' = result /\ helper' = "closing"

\* The server says one more unit of its body; the helper reads no more than one
\* unit past the ceiling.
Body == /\ helper = "asking" /\ own < Least(Most, Ceiling + 1)
        /\ own' = own + 1 /\ quiet' = 0
        /\ UNCHANGED <<helper, wire>> /\ HelperStep

\* The body ends, or is cut at one unit past the ceiling.
Served == /\ helper = "asking" /\ Send("ok")
          /\ UNCHANGED <<own, quiet>> /\ HelperStep

\* An HTTP error status, or no connection at all.
Rejected == /\ helper = "asking"
            /\ \E kind \in {"http-error", "unreachable"} : Send(kind)
            /\ UNCHANGED <<own, quiet>> /\ HelperStep

\* The socket stays silent for a whole timeout.
SocketTimesOut == /\ helper = "asking" /\ quiet = 1 /\ Send("timeout")
                  /\ UNCHANGED <<own, quiet>> /\ HelperStep

\* Having closed its end, or having died before it sent anything, it is gone.
HelperExits == /\ helper \in {"asking", "closing"}
               /\ helper' = "gone"
               /\ wire' = IF helper = "asking" THEN "closed" ELSE wire
               /\ UNCHANGED <<own, quiet>> /\ HelperStep

Ticks == /\ helper = "asking" /\ clock < Patience /\ quiet = 0
         /\ clock' = clock + 1 /\ quiet' = 1
         /\ UNCHANGED <<helper, wire, received, hpc, out, own>>

-----------------------------------------------------------------------------
(* The caller. *)

HttpReturn(reason) == out' = Result(reason, FALSE, FALSE) /\ hpc' = "done"

\* A scheme outside the allowlist, or no model: refused before anything starts.
Post == /\ hpc = "check"
        /\ \/ HttpReturn("refused") /\ UNCHANGED helper
           \/ helper' = "asking" /\ hpc' = "abort" /\ UNCHANGED out
        /\ UNCHANGED <<wire, received, clock, quiet, own>>

\* The loop tests the abort flag, then the pipe, then the helper.
HttpAbort == /\ hpc = "abort"
             /\ \/ received' = "aborted" /\ hpc' = "stopping"
                \/ hpc' = "poll" /\ UNCHANGED received
             /\ UNCHANGED <<helper, wire, clock, quiet, out, own>>

PollPipe == /\ hpc = "poll"
            /\ IF wire = "empty" THEN hpc' = "alive" /\ UNCHANGED received
               ELSE /\ received' = IF wire = "closed" THEN "unreachable" ELSE wire
                    /\ hpc' = "stopping"
            /\ UNCHANGED <<helper, wire, clock, quiet, out, own>>

CheckHelper == /\ hpc = "alive"
               /\ IF helper = "gone" THEN received' = "unreachable" /\ hpc' = "stopping"
                                     ELSE hpc' = "abort" /\ UNCHANGED received
               /\ UNCHANGED <<helper, wire, clock, quiet, out, own>>

HttpKept == Least(own, Ceiling)

Reply == CASE received \in {"aborted", "timeout", "unreachable"} -> received
           [] received = "http-error"                            -> "status"
           [] received = "ok" /\ own > Ceiling                   -> "overflow"
           [] OTHER -> IF HttpKept \in Parses THEN "ok" ELSE "unusable"

\* Slip: the helper is left to end by itself.
LeaveHelper == /\ hpc = "stopping" /\ HttpReturn(Reply)
               /\ UNCHANGED <<helper, wire, received, clock, quiet, own>>

\* _stop_worker: terminate, then kill; one that survives both raises.
StopHelper == /\ hpc = "stopping"
              /\ \/ helper' = "gone" /\ HttpReturn(Reply)
                 \/ helper # "gone" /\ UNCHANGED helper /\ HttpReturn("raised")
              /\ UNCHANGED <<wire, received, clock, quiet, own>>

Caller == Post \/ HttpAbort \/ PollPipe \/ CheckHelper \/ StopHelper

HttpNext == /\ hpc # "done"
            /\ \/ Caller \/ Body \/ Served \/ Rejected \/ SocketTimesOut \/ HelperExits
               \/ Ticks

\* The server owes nothing; the socket's timeout, the helper's exit and the
\* caller's loop do.
HttpFair == /\ WF_httpvars(hpc # "done" /\ Caller)
            /\ WF_httpvars(hpc # "done" /\ (Ticks \/ SocketTimesOut))
            /\ WF_httpvars(hpc # "done" /\ own > Ceiling /\ Served)
            /\ WF_httpvars(hpc # "done" /\ helper = "closing" /\ HelperExits)
=============================================================================
