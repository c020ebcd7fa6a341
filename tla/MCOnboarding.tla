--------------------------- MODULE MCOnboarding ---------------------------
(* A signup and an init, or two inits, on one secrets file and one account. *)
EXTENDS Onboarding

Cast(program, printEnv, nobody) ==
  [program |-> program, printEnv |-> printEnv, keyed |-> TRUE, nobody |-> nobody]
Monitor == [name |-> "job", by |-> 0]
ToTheFile    == <<Cast("signup", FALSE, FALSE), Cast("init", FALSE, FALSE)>>
ToTheConsole == <<Cast("signup", TRUE, FALSE), Cast("init", TRUE, FALSE)>>
Twice        == <<Cast("init", FALSE, FALSE), Cast("init", FALSE, FALSE)>>
MCSetups ==
  [cast : {ToTheFile}, account : {<<>>, <<Monitor>>}]
  \cup [cast : {ToTheConsole}, account : {<<>>, <<Monitor, Monitor>>}]
  \cup [cast : {Twice}, account : {<<>>, <<Monitor>>, <<Monitor, Monitor>>}]

File(kind, lines, mode) == [kind |-> kind, lines |-> lines, mode |-> mode]
MCFiles ==
  {Absent, File("file", << <<"OTHER", 78>>, <<"MONITOR", 7>> >>, "private"),
   File("unreadable", << <<"OTHER", 78>> >>, "private")}
=============================================================================
