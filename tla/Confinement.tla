----------------------------- MODULE Confinement -----------------------------
(* What dispatch._dispatch decides before a friend starts: whether its        *)
(* provider may run under this run's grants, whether the OS confines it, and  *)
(* which write protection the audit row may claim. An adapter is a record of  *)
(* what its TOML declares:                                                   *)
(*   transport "exec", "http" or "fake"; present (its binary resolves);       *)
(*   readonly, self (self_confines), confine ([sandbox] declared),             *)
(*   readonlyWorkdir, weakening (readonly_argv drops the CLI's own sandbox);  *)
(*   tools "none", "deny-argv" or "uncontrolled".                              *)
(* A setting is the host's mechanism and the operator's options: mechanism,    *)
(* allow (--allow-unsandboxed-friend), extra ("none", "plain", "denied"),     *)
(* grant ("none", "provider", "all").                                         *)
EXTENDS Naturals, FiniteSets

\* authority.enforce and enforce_extra_args: extra argv targets every provider
\* and needs the global grant; a provider that cannot deny its tools needs one.
Authorised(a, s) ==
  /\ s.extra # "none" => s.grant = "all"
  /\ a.transport # "fake" /\ s.grant = "none" => a.tools \in {"none", "deny-argv"}

\* Adapter.needs_os_confinement
NeedsConfinement(a) == ~a.self \/ a.confine

\* sandbox.detect, asked only for a CLI that is installed and needs it.
Binds(a, s) == a.transport = "exec" /\ a.present /\ NeedsConfinement(a) /\ s.mechanism

\* A CLI that enforces nothing itself is confined, allowed or refused.
Refused(a, s) ==
  /\ a.transport = "exec" /\ a.present
  /\ NeedsConfinement(a) /\ ~s.mechanism
  /\ ~a.self /\ ~s.allow

\* The adapter's own flags do not restrict writes; the outer policy does.
DeclaresOuterReadonly(a) == a.readonlyWorkdir /\ a.confine /\ ~a.self

\* strip_outer_readonly_argv: such an adapter's flag that drops the CLI's own
\* sandbox is emitted only while the outer policy binds the working directory.
EmitsWeakening(a, s) ==
  /\ a.transport = "exec" /\ a.weakening
  /\ DeclaresOuterReadonly(a) => Binds(a, s)

\* check_denied_values on what the adapter emits: nobody else may emit that flag.
ArgvAccepted(a, s) == EmitsWeakening(a, s) => DeclaresOuterReadonly(a) /\ Binds(a, s)

\* The same on the operator's own tokens, once they are placed.
ExtraArgsAccepted(a, s) == a.transport = "exec" => s.extra # "denied"

\* Slip: the capability is what the adapter declared.
ClaimsDeclared(a, s) == a.transport = "exec" /\ a.readonly

\* Capability.readonly: withdrawn when the policy it rests on did not bind, and
\* when an unvalidated flag was added.
ClaimsWriteProtection(a, s) ==
  /\ a.transport = "exec" /\ a.readonly
  /\ a.readonlyWorkdir => Binds(a, s)
  /\ s.extra = "none"

\* What in fact stops a friend writing: its own flags, where the adapter says
\* that they do and nothing drops them, or a policy that binds the working
\* directory read-only.
WritesStopped(a, s) ==
  /\ s.extra = "none"
  /\ \/ a.readonly /\ ~a.readonlyWorkdir /\ ~EmitsWeakening(a, s)
     \/ Binds(a, s) /\ a.readonlyWorkdir

\* Who runs with nothing around it.
RunsFree(a, s) ==
  /\ a.transport = "exec" /\ a.present /\ ~Refused(a, s)
  /\ ~Binds(a, s) /\ ~a.self
=============================================================================
