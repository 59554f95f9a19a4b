----------------------------- MODULE MCStartup ------------------------------
EXTENDS Startup

MCSeedPlan == << <<"seed", "xml">>, <<"enforce", "xml">>, <<"seed", "prowlxml">>, <<"seed", "json">> >>
MCDirOf == [f \in {"xml", "prowlxml", "json"} |->
    CASE f = "xml" -> "sonarr" [] f = "prowlxml" -> "prowlarr" [] OTHER -> "jellyfin"]
MCPlan == <<"library", "folder", "client", "webhook", "application">>

(* Which mishaps are explored together: commands, deaths and touches on    *)
(* the host; failures, edits and crashes around the server.                *)
Mix(c, d, t, f, e, k) ==
    <<[commands |-> c, deaths |-> d, touches |-> t],
      [failures |-> f, edits |-> e, crashes |-> k]>>
Mixes == {Mix(4, 1, 0, 0, 0, 0), Mix(3, 0, 1, 0, 0, 0), Mix(2, 1, 1, 0, 0, 0),
          Mix(2, 1, 0, 1, 0, 0), Mix(2, 0, 1, 1, 0, 0), Mix(2, 0, 1, 0, 0, 1),
          Mix(1, 0, 0, 1, 1, 1), Mix(1, 0, 0, 0, 2, 0)}

MCInit == Init /\ <<hostLeft, serverLeft>> \in Mixes
MCSpec == MCInit /\ [][Next]_vars /\ Fairness
=============================================================================
