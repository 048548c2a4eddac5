--------------------------- MODULE MCRouteExecutor ---------------------------
(* Instance of RouteExecutor for TLC: every type of point, and a point that *)
(* is passed before one that ends the route.                                *)
EXTENDS RouteExecutor

MCPlans ==
  {<<"PASS_THROUGH", "FINAL_POSITION">>, <<"CORNER", "FINAL_POSE">>}

=============================================================================
