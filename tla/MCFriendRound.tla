---------------------------- MODULE MCFriendRound ----------------------------
EXTENDS FriendRound

CONSTANTS f1, f2, f3

OrderMC == <<f1, f2, f3>>

Claude == [transport |-> "exec", present |-> TRUE, readonly |-> TRUE, self |-> TRUE,
           confine |-> FALSE, readonlyWorkdir |-> FALSE, weakening |-> FALSE, tools |-> "deny-argv"]
Codex == [transport |-> "exec", present |-> TRUE, readonly |-> TRUE, self |-> FALSE,
          confine |-> TRUE, readonlyWorkdir |-> TRUE, weakening |-> TRUE, tools |-> "deny-argv"]
OpenCode == [transport |-> "exec", present |-> TRUE, readonly |-> FALSE, self |-> FALSE,
             confine |-> TRUE, readonlyWorkdir |-> FALSE, weakening |-> FALSE,
             tools |-> "uncontrolled"]

AdapterMC == (f1 :> Claude @@ f2 :> Codex @@ f3 :> OpenCode)

\* Between them: every reason, and each way to raise.
SaysMC == (f1 :> {"ok", "exit", "auth"} @@ f2 :> {"ok", "timeout", "crash"} @@ f3 :> {"ok", "stop"})

Setting(m, a, e, g) == [mechanism |-> m, allow |-> a, extra |-> e, grant |-> g]
SettingsMC == {Setting(TRUE, FALSE, "none", "provider"), Setting(FALSE, TRUE, "plain", "all"),
               Setting(FALSE, FALSE, "none", "none")}
=============================================================================
