--------------------------- MODULE MCEventHandler ---------------------------
(* Instances of EventHandler for TLC. *)
EXTENDS EventHandler

CONSTANTS h1, h2, c1, c2

MCPeriod == [h \in Handler |-> IF h = h1 THEN 1 ELSE 2]

\* c1 owns the manager, c2 signals events to it, and may connect it while c1 disconnects
\* it: the clock then runs, and alarms expire, while the handler is being stopped
MayOne == {c1} \X {h1} \X {"connect", "disconnect", "destroy"}
          \cup {c2} \X {h1} \X {"signal", "signalOOB", "connect"}

\* two managers that share the clock, each with a thread of its own
MayTwo == ({<<c1, h1>>, <<c2, h2>>} \X {"connect", "disconnect"})
MayPairs == {<<p[1][1], p[1][2], p[2]>> : p \in MayTwo}

\* one manager that is connected and disconnected
MayStop == {c1} \X {h1} \X {"connect", "disconnect"}
=============================================================================
