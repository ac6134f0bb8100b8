-------------------------- MODULE MCPersistentConfig --------------------------
(***************************************************************************)
(* Instances of PersistentConfig for TLC: configurations of no page, one   *)
(* page, all the pages of a slot and one page too many.                    *)
(***************************************************************************)
EXTENDS PersistentConfig

MCPagesOf == [config \in Configs |-> CASE config = "blank" -> 0
                                       [] config = "short" -> 1
                                       [] config = "long"  -> 2
                                       [] config = "huge"  -> 3]
=============================================================================
