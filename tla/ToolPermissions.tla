--------------------------- MODULE ToolPermissions ---------------------------
(***************************************************************************)
(* The seven permission tiers of app/tools/permissions.py, by their level. *)
(* A tier is modelled by its rank in PERMISSION_LEVELS.                    *)
(***************************************************************************)
EXTENDS Naturals

READ            == 0
READ_WRITE      == 1
NETWORK         == 2
EXECUTE         == 3
EXTERNAL_SYSTEM == 4
DESTRUCTIVE     == 5
SYSTEM          == 6

PermissionTier == READ .. SYSTEM

check_permission(required, granted) == granted >= required

requires_human_approval(tier) == tier \in {DESTRUCTIVE, SYSTEM, EXTERNAL_SYSTEM}
==============================================================================
