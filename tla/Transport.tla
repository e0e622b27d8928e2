------------------------------ MODULE Transport ------------------------------
(* What the two transports of a dispatched friend share: how much the friend *)
(* has said and the one SpawnResult a call hands back. The abort flag and the *)
(* deadline belong to the environment: a test of either may find it set at    *)
(* any time.                                                                 *)
EXTENDS Naturals, FiniteSets

CONSTANTS Whole,    \* units of stdout (or body) that make a complete answer
          Most,     \* the most a friend ever writes
          Ceiling,  \* units the runner keeps of one stream
          Parses    \* amounts that normalize() accepts, a cut-short one too

ASSUME SizesAssumption == /\ Whole \in Nat /\ Most \in Nat /\ Ceiling \in Nat
                          /\ Whole <= Ceiling /\ Ceiling <= Most
                          /\ Whole \in Parses /\ Parses \subseteq 1..Ceiling

VARIABLES out,      \* the call's SpawnResult, or NoResult
          own       \* units the friend itself has written

Pending == [reason |-> "pending", orphans |-> FALSE, truncated |-> FALSE]

Result(reason, orphans, truncated) ==
  [reason |-> reason, orphans |-> orphans, truncated |-> truncated]

Reasons == {"pending", "ok", "unusable", "exit", "timeout", "aborted", "overflow",
            "broken", "nostart", "raised", "refused", "status", "unreachable",
            "access"}

Least(a, b) == IF a < b THEN a ELSE b
=============================================================================
