------------------------------ MODULE AtomicItem ------------------------------
(***************************************************************************)
(* What the content store promises its callers: an item is one history of  *)
(* accepted changes, each made by one client on top of all earlier ones,   *)
(* and a change that schedules a target brings its publish command along.  *)
(***************************************************************************)
EXTENDS Naturals, Sequences

CONSTANTS Clients, Kinds

VARIABLES history,    \* accepted changes, in order
          commands    \* positions of the changes that queued a command

Change == [by : Clients, kind : Kinds]

Init == history = <<>> /\ commands = {}

Accept ==
  \E change \in Change :
    /\ history' = Append(history, change)
    /\ commands' = IF change.kind = "schedule"
                     THEN commands \cup {Len(history) + 1}
                     ELSE commands

Spec == Init /\ [][Accept]_<<history, commands>>
=============================================================================
