------------------------------ MODULE MCConsole ------------------------------
(* Instances of Console for TLC. *)
EXTENDS Console

SomeAnswers == {[home |-> <<"home", "user">>, shell |-> "/bin/sh"],
                [home |-> <<"srv", "user">>, shell |-> "/sbin/nologin"],
                [home |-> <<>>, shell |-> "/bin/sh"]}
=============================================================================
