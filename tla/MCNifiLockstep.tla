--------------------------- MODULE MCNifiLockstep ---------------------------
EXTENDS NifiLockstep

\* The constraint of the longer run: a user who opens the menu presses no other
\* key, and the run ends when a console gives up.
KeysOrMenu == /\ \/ NeverSkipped
                 \/ \A p \in net : p.cmd = "INPUT" =>
                        \A i \in DOMAIN p.inputs : p.inputs[i] = Idle
              /\ BothLinked
=============================================================================
