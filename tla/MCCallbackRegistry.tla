------------------------ MODULE MCCallbackRegistry ------------------------
(* Three names, one of them registered by the package. *)
EXTENDS CallbackRegistry
CONSTANTS n1, n2, n3
MCInitial == <<n1>>
\* A Before or an After of the first two, neither, or one of both.
MCOrders  == {<<None, None>>, <<n1, None>>, <<n2, None>>, <<None, n1>>, <<None, n2>>, <<n1, n2>>}
=============================================================================
