----------------------------- MODULE MCCamelQueue -----------------------------
(***************************************************************************)
(* Small instances of CamelQueue: a refresh (priority, cancellable), a     *)
(* sync (cancellable, never interrupted), a plain operation, and the masks *)
(* tny_camel_folder_refresh_async and tny_camel_account_cancel_default     *)
(* pass.                                                                   *)
(***************************************************************************)
EXTENDS CamelQueue, TLC

CONSTANTS refresh, sync, plain, refresh2

MCFlags ==
  [i \in Item |->
     CASE i \in {refresh, refresh2} -> {"PRIORITY", "AUTO_CANCELLABLE", "CANCELLABLE", "REFRESH"}
       [] i = sync -> {"AUTO_CANCELLABLE", "CANCELLABLE", "SYNC"}
       [] OTHER -> {"NORMAL"}]

MCMasks == {{"AUTO_CANCELLABLE", "REFRESH"},
            {"GET_HEADERS", "SYNC", "REFRESH", "CANCELLABLE"}}

Symmetry == Permutations(Thread)
=============================================================================
