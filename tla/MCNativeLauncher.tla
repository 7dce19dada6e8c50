--------------------------- MODULE MCNativeLauncher ---------------------------
(***************************************************************************)
(* Command lines that packr parses and such that it does not, with its own  *)
(* options, the launcher's and the client's, complete and cut short.        *)
(***************************************************************************)
EXTENDS NativeLauncher

MCCommands ==
  {<< >>, <<"word">>, <<"-Xmx", "-c">>, <<"--help">>, <<"--configure">>,
   <<"--classpath", "names">>, <<"--classpath">>, <<"-J", "-Xmx", "word">>,
   <<"--", "--help">>, <<"--", "--", "word">>,
   <<"-c">>, <<"-c", "--help">>, <<"-c", "-J">>, <<"-c", "-Xmx">>,
   <<"-c", "-J", "-Xmx", "--", "-J", "-D", "word">>,
   <<"-c", "-J", "-XstartOnFirstThread">>, <<"-c", "word", "-J">>}

MCConfigs == {<< >>, <<"-Xmx">>, <<"-Xmx", "-XstartOnFirstThread">>}

MCBootstraps == {<< >>, <<"-Xmx", "-Xmx">>}

MCUserArgs == {<< >>, <<"-Xmx">>}
=============================================================================
