------------------------------ MODULE MCDaemon -------------------------------
(* Three process ids, so that an orphan, a daemon and a server of an       *)
(* editor can be there at once; two commands.                              *)
EXTENDS Daemon

MCFaultSets ==
  { {"manage", "dies", "torn"}, {"manage", "editor"}, {"manage", "fails"}, {"overlap"},
    {"manage", "reuse", "crash"}, {"overlap", "lengths"} }
=============================================================================
