------------------------------- MODULE MCInjector -------------------------------
(* Constants of the runs of Injector that a .cfg cannot write.             *)
EXTENDS Injector

Round == <<"ALTITUDE", "OTHER">>
=============================================================================
