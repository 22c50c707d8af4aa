--------------------------- MODULE ServerControl ---------------------------
(***************************************************************************)
(* How the Wi-Fi task drives the GDB server, whatever the network does: the  *)
(* server is created for the first connection, and from then on shut down    *)
(* when the connection is found lost and started when there is another, in   *)
(* turn.  A reset forgets all.  GdbServer relies on this.                    *)
(***************************************************************************)
EXTENDS Sequences

VARIABLES
  up,       \* does the Wi-Fi task count itself connected?
  commands  \* what it has done to the server, oldest first

vars == <<up, commands>>

Init == up = FALSE /\ commands = <<>>

Start ==
  /\ ~up /\ up' = TRUE
  /\ commands' = Append(commands, IF commands = <<>> THEN "create" ELSE "start")

Shutdown ==
  /\ up /\ up' = FALSE
  /\ commands' = Append(commands, "shutdown")

Reset == up' = FALSE /\ commands' = <<>>

Next == Start \/ Shutdown \/ Reset

Spec == Init /\ [][Next]_vars
=============================================================================
