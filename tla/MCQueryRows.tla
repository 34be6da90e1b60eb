---------------------------- MODULE MCQueryRows ----------------------------
(* Queries with preloads one and two fields long, and those without. *)
EXTENDS QueryRows, TLC

Plain(call) == [call |-> call, auto |-> FALSE, paths |-> <<>>, inline |-> <<>>]

CONSTANTS p1, p2

MCOp == p1 :> {Plain("pluck"), Plain("pluckFirst"), Plain("count"), Plain("exists"),
               [Plain("one") EXCEPT !.paths = <<<<"roles">>>>],
               [Plain("find") EXCEPT !.paths = <<<<"orders">>, <<"orders", "items">>>>],
               [Plain("find") EXCEPT !.paths = <<<<"roles", "orders">>>>],
               [Plain("find") EXCEPT !.auto = TRUE, !.paths = <<<<"roles">>>>],
               [Plain("one") EXCEPT !.inline = <<<<"owner">>, <<"owner", "email">>>>],
               [Plain("find") EXCEPT !.inline = <<<<"owner">>, <<"owner", "email">>>>,
                                     !.paths = <<<<"name">>>>],
               [Plain("find") EXCEPT !.inline = <<<<"owner", "email">>>>]}
     @@ p2 :> {Plain("one")}
MCAutoPaths == <<<<"orders">>>>
=============================================================================
