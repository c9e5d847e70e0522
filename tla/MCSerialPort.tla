---------------------------- MODULE MCSerialPort ----------------------------
(* Instances of SerialPort. *)
EXTENDS SerialPort

SomeIers == {{}, Conds}
SomeMcrs == {{"OUT2"}, {"LOOP"}}
SomeLsrs == {{}}
(* A pseudo terminal, and a real line with flow control by the host. *)
SomeConfigs == {<<TRUE, FALSE>>, <<FALSE, TRUE>>}
=============================================================================
