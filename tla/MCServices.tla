----------------------------- MODULE MCServices -----------------------------
(* Services with a few starts, some of them nested in others. *)
EXTENDS Services, TLC

CONSTANTS db, app, op

MCStarts == {db, app}

(* The command needs app, which needs db. *)
MCParent == db :> app @@ app :> op
=============================================================================
