------------------------------ MODULE Outcomes ------------------------------
(***************************************************************************)
(* How a run's end is named, and what stands between it and a clear gate:  *)
(* src/afriend/outcomes.py, commands/runmeta_outcome.py, resolutions.py    *)
(* and the state projection of commands/status.py.  Everything here is a   *)
(* function of facts other modules observe.                                *)
(***************************************************************************)
EXTENDS Integers, Sequences, FiniteSets

CONSTANT Advisory   \* the claims raised under an advisory lens

ClaimStates   == {"contested", "unproven", "incomplete", "settled-upheld",
                  "settled-refuted", "superseded", "deadlocked", "discarded"}
Terminal      == {"settled-upheld", "settled-refuted", "superseded", "deadlocked", "discarded"}
GateClearing  == {"settled-refuted"}
GateExempt    == {"superseded"}

-----------------------------------------------------------------------------
(* The gate.                                                               *)

\* blocking_claims: a claim that is still contested blocks like any other.
Blocking(claims, states, resolved) ==
    {c \in claims \ (Advisory \union resolved) : states[c] \notin GateClearing \union GateExempt}

-----------------------------------------------------------------------------
(* A resolution names a place and says what became of it.  A site is what  *)
(* can be found out about that place: is it the reviewed artifact and was  *)
(* it frozen, is it in the repository, is the snapshot commit still there, *)
(* was it in the snapshot, is it there now, would git have captured it,    *)
(* and do the two texts differ.                                            *)

SiteFields == {"artifact", "frozen", "inRepo", "commit", "before", "now", "ignored", "differs"}

Compared(site) == IF site.differs THEN "location-changed" ELSE "location-unchanged"

\* verify_location
Verified(site) ==
    IF site.artifact /\ site.frozen
    THEN IF site.now THEN Compared(site) ELSE "unverifiable"
    ELSE IF ~site.inRepo \/ ~site.commit \/ (~site.before /\ (~site.now \/ site.ignored))
         THEN "unverifiable"
         ELSE IF ~site.before \/ ~site.now THEN "location-changed" ELSE Compared(site)

\* rejection_reason: fixed is the only disposition that claims a change.
Supported(disposition, site) == disposition = "fixed" => Verified(site) = "location-changed"

-----------------------------------------------------------------------------
(* The end of a run.  An ending e holds what the run observed; cross says  *)
(* what the judging left behind.                                           *)

\* terminal_outcome's precedence, first cause first.
Causes(e, unresolved, blocked) ==
    << [holds |-> e.signalled,        reason |-> "interrupted",         exit |-> 130],
       [holds |-> e.error,            reason |-> "runtime-error",       exit |-> 1],
       [holds |-> e.budget # "none",  reason |-> e.budget,              exit |-> 11],
       [holds |-> e.mode = "loop" /\ e.exhausted /\ ~e.converged,
                                      reason |-> "max-loop-iterations", exit |-> 11],
       [holds |-> e.auth,             reason |-> "auth-abort",          exit |-> 1],
       [holds |-> ~e.success,         reason |-> "incomplete",          exit |-> 1],
       [holds |-> e.quorumFailed,     reason |-> "incomplete",          exit |-> 12],
       [holds |-> unresolved,         reason |-> "incomplete",          exit |-> 1],
       [holds |-> e.mode = "gate" /\ blocked,
                                      reason |-> "gate-blocked",        exit |-> 1],
       [holds |-> TRUE,               reason |-> "completed",           exit |-> 0] >>

FirstCause(causes) ==
    causes[CHOOSE i \in DOMAIN causes :
             causes[i].holds /\ \A j \in 1 .. i - 1 : ~causes[j].holds]

\* Slip: the gate is decided by the list of blockers alone.
ByBlockersOnly(e, reason, blockers) ==
    IF e.mode # "gate" THEN "none" ELSE IF blockers # {} THEN "blocked" ELSE "clear"

GateDecision(e, reason, blockers) ==
    IF e.mode # "gate" THEN "none"
    ELSE IF blockers # {} \/ reason # "completed" THEN "blocked" ELSE "clear"

\* build_terminal_outcome: unresolved is read from the states, the blockers
\* from the ledger as it is replayed at the end.
Outcome(e, claims, states, resolved) ==
    LET unresolved == e.incomplete \/ \E c \in claims : states[c] \notin Terminal
        blockers   == IF e.mode = "gate" THEN Blocking(claims, states, resolved) ELSE {}
        cause      == FirstCause(Causes(e, unresolved, blockers # {}))
    IN  [life   |-> "terminal",   reason |-> cause.reason, exit |-> cause.exit,
         gate   |-> GateDecision(e, cause.reason, blockers),
         states |-> states,       ending |-> e]
=============================================================================
