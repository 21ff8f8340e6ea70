----------------------------- MODULE MCPipeline -----------------------------
(* Three screens, a catalog that lists two of them the other way round, one *)
(* with a link the service does not know, and the purged one.               *)
EXTENDS Pipeline

Row(link, words, check, sound) ==
  [link |-> link, words |-> words, check |-> check, sound |-> sound]

Wifi   == Row("wifi", {"wifi", "settings"}, "wifi_on", TRUE)
Saver  == Row("saver", {"battery", "saver"}, "saver_on", FALSE)
Usage  == Row("usage", {"battery", "usage"}, NoLink, FALSE)
Saver2 == Row("saver2", {"battery", "saver"}, "saver_on", TRUE)

MCCatalogs == {<<Wifi, Saver, Usage>>, <<Usage, Wifi>>, <<Saver2>>, <<>>}

Do(category, target, words) ==
  [category |-> category, target |-> target, words |-> words, grounded |-> TRUE]

MCPlans ==
  {<<Do("critical", TRUE, {"battery", "saver"}), Do("auto", TRUE, {"battery", "usage"})>>,
   <<Do("manual", TRUE, {"wifi"}), Do("auto", TRUE, {"wifi", "router"})>>,
   <<Do("critical", FALSE, {}), Do("auto", FALSE, {"battery", "saver"})>>,
   <<Do("auto", TRUE, {"wifi"}),
     [Do("critical", TRUE, {"battery", "saver"}) EXCEPT !.grounded = FALSE]>>}
=============================================================================
