----------------------------- MODULE MCRegistry -----------------------------
(* Registry with one-label and two-label subdomains, rival claims, labels   *)
(* that change behind a name and labels that do not register.               *)
EXTENDS Registry

MCSubs == {<<"a">>, <<"b", "a">>}
MCZones == {<<"org">>, <<"local">>}
MCAdminHost == <<"a", "local">>
MCNumerals == {"80"}
MCDurations == {"1m", "5m"}

L(enable, sub, port, idle, strategy) ==
  [enable |-> enable, subdomain |-> sub, target_port |-> port, idle_timeout |-> idle,
   startup_timeout |-> "soon", disable_idle |-> "", strategy |-> strategy]

MCLabels == {L("true", <<"a">>, "80", "1m", "pause"),
             L("true", <<"a">>, "80", "", "PAUSE"),
             L("true", <<"b", "a">>, "80", "1m", ""),
             L("true", <<"a">>, "http", "1m", "")}
=============================================================================
