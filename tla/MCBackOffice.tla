---------------------------- MODULE MCBackOffice ----------------------------
(* Three requests about themes, three about channels, three syncs of two   *)
(* items, and one timeline over three writes to an order's rows.          *)
EXTENDS BackOffice
MCWorkloads == {{"themes"}, {"orders"}, {"channels"}, {"stock"}}
=============================================================================
