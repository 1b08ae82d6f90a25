------------------------- MODULE MCServerLifecycle -------------------------
\* Instances of ServerLifecycle: the configurations TLC starts servers with.
EXTENDS ServerLifecycle, TLC

Conf(m, t, f, e, b) == [mode |-> m, tarpc |-> t, family |-> f, eco |-> e, btsp |-> b]

\* Every mode, every tarpc bind, two families in the ecosystem directory; "c"
\* is a socket path outside it.
AllModes == {Conf("Both", "unix", "a", TRUE, TRUE), Conf("Both", "tcp", "c", FALSE, FALSE),
             Conf("UdsOnly", "none", "b", TRUE, TRUE), Conf("TcpOnly", "unix", "a", TRUE, FALSE)}

\* Servers of one family that race for its names.
OneFamily == {Conf("Both", "none", "a", TRUE, FALSE), Conf("UdsOnly", "unix", "a", TRUE, FALSE)}

\* The processes are interchangeable.
ProcSymmetry == Permutations(Proc)

============================================================================
