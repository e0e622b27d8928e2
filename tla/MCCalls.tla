------------------------------- MODULE MCCalls -------------------------------
EXTENDS Calls

\* A child inherits every stream, or is started with all of them redirected.
HoldsMC == {Pipes, {}}

GripsMC == {{"stdout"}}
=============================================================================
