------------------------------- MODULE MCEcall -------------------------------
(* Instances of EcallManager for TLC. *)
EXTENDS EcallManager

MCKinds == {<<"REGULATORY", TRUE>>, <<"REGULATORY", FALSE>>, <<"PRIVATE", TRUE>>}
MCTables == [CALLORIG |-> 2, CALLDROP |-> 1]
MCControls ==
    {<<"overridden", TRUE>>, <<"ecallOnly", TRUE>>, <<"CALLDROP", 2>>,
     <<"redial", "CALLORIG", 0>>, <<"redial", "CALLDROP", 1>>,
     <<"fail", "T5">>, <<"fail", "T6">>, <<"fail", "T7">>}
=============================================================================
