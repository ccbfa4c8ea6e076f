---------------------------- MODULE MCDruidRollout ----------------------------
(* The small instance of DruidRollout: two tiers of MCDruidReconcile.       *)
EXTENDS MCDruidReconcile, DruidRollout
===============================================================================
