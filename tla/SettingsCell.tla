----------------------------- MODULE SettingsCell -----------------------------
(***************************************************************************)
(* What the settings store promises: one cell that outlives the process    *)
(* and the power.  A save takes effect in one step or not at all; nothing  *)
(* else, no crash, failed write or repair, changes what a load finds; and  *)
(* a power loss brings back, at worst, an earlier value of the cell.       *)
(***************************************************************************)
CONSTANTS Values, Nothing

VARIABLES
    value,    \* what a load finds
    durable,  \* what a load would find after a power loss
    wanted    \* the value being saved, or Nothing

cell == <<value, durable, wanted>>

Init == value \in Values /\ durable = value /\ wanted = Nothing

Begin   == wanted = Nothing /\ wanted' \in Values /\ UNCHANGED <<value, durable>>
Commit  == wanted # Nothing /\ value' = wanted /\ wanted' = Nothing /\ UNCHANGED durable
Abort   == wanted # Nothing /\ wanted' = Nothing /\ UNCHANGED <<value, durable>>
Persist == durable' = value /\ UNCHANGED <<value, wanted>>
PowerLoss == value' = durable /\ wanted' = Nothing /\ UNCHANGED durable

Next == Begin \/ Commit \/ Abort \/ Persist \/ PowerLoss

Spec == Init /\ [][Next]_cell
==============================================================================
