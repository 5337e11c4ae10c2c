----------------------------- MODULE MCCheckout -----------------------------
(* One tenant or two, up to three days that are soon too old, carts in     *)
(* whole and in half amounts.  In the mixed cart pb sells most, in two     *)
(* lines; with the other cart's two lines pa sells more.                   *)
EXTENDS Checkout
CONSTANTS t1, t2, o1, o2, pa, pb
MCWorkloads == {{"rollups", "top-products", "session", "setup", "failures", t1},
                {"rollups", "top-products", "checkout", "failures", t1, o1},
                {"rollups", "session", "checkout", "failures", t1, o1},
                {"rollups", "session", "checkout", t1, t2, o1},
                {"rollups", "session", "status", "days", "retention", "failures", t1},
                {"rollups", "session", "days", "failures", t1, t2},
                {"top-products", "checkout", t1, o1, o2}}
Of1(product, q, p) == [product |-> product, quantity |-> q, price |-> p]
MCCarts == {<<>>, <<Of1(pa, 2, 2)>>, <<Of1(pa, 2, 1)>>, <<Of1(pa, 1, 1)>>,
            <<Of1(pa, 1, 4), Of1(pb, 1, 2), Of1(pb, 2, 2)>>}
MCOffers == {<<>>, <<2>>}
=============================================================================
