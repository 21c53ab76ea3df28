------------------------------- MODULE IrqSpec -------------------------------
(***************************************************************************)
(* What the IRQ channels promise (iridia.asm:6): clients connect to a line *)
(* and disconnect from it, and an interrupt on the line calls every client *)
(* that is connected when it arrives once, in some order, before the next  *)
(* interrupt is taken.                                                     *)
(***************************************************************************)
CONSTANTS Line, Client, NoLine

VARIABLES
  line,         \* the line each client is connected to
  serving,      \* the line whose interrupt is being handled
  todo          \* the clients that interrupt still has to call

PromiseInit ==
  /\ line = [c \in Client |-> NoLine]
  /\ serving = NoLine
  /\ todo = {}

(* A client may be connected by another client's interrupt procedure; it   *)
(* is called from the next interrupt on.                                   *)
Connect(c, l) ==
  /\ line[c] = NoLine
  /\ line' = [line EXCEPT ![c] = l]
  /\ UNCHANGED <<serving, todo>>

Disconnect(c) ==
  /\ serving = NoLine
  /\ line[c] # NoLine
  /\ line' = [line EXCEPT ![c] = NoLine]
  /\ UNCHANGED <<serving, todo>>

Interrupt(l) ==
  /\ serving = NoLine
  /\ serving' = l
  /\ todo' = {c \in Client : line[c] = l}
  /\ UNCHANGED line

Call(c) ==
  /\ c \in todo
  /\ todo' = todo \ {c}
  /\ UNCHANGED <<line, serving>>

Return ==
  /\ serving # NoLine
  /\ todo = {}
  /\ serving' = NoLine
  /\ UNCHANGED <<line, todo>>

PromiseNext ==
  \/ \E c \in Client, l \in Line : Connect(c, l)
  \/ \E c \in Client : Disconnect(c) \/ Call(c)
  \/ \E l \in Line : Interrupt(l)
  \/ Return

Promise == PromiseInit /\ [][PromiseNext]_<<line, serving, todo>>
=============================================================================
