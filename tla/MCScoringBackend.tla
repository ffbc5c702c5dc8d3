--------------------------- MODULE MCScoringBackend ---------------------------
(***************************************************************************)
(* Both controllers and two hooks, the first of which is CTFd's, too.      *)
(***************************************************************************)
EXTENDS ScoringBackend, TLC

MCSenders == {"instance", "lifecycle"}

(* The secret of the first hook may be replaced.                           *)
MCBodies == {<<"u1", "old">>, <<"u1", "new">>, <<"u2", "old">>}

(* The generic backend, CTFd's with and without a webhook and without the  *)
(* address it must have, and a backend there is not.                       *)
MCConfigs ==
  LET cfg(n, b, u) == [name |-> n, parses |-> TRUE, baseUrl |-> b, webhookUrl |-> u,
                       apiKey |-> "old"]
  IN  {cfg("", FALSE, Nil), cfg("ctfd", TRUE, "u1"), cfg("ctfd", TRUE, Nil),
       cfg("ctfd", FALSE, "u1"), cfg("other", FALSE, Nil)}

MCMaxEvents == "instance" :> 2 @@ "lifecycle" :> 1
===============================================================================
