------------------------- MODULE MC_TelemetryClient -------------------------
EXTENDS TelemetryClient

\* The default -server, a TCP address, and a socket path holding a colon.
MCServers == {<<"unix", "/var/run/capsule8/sensor.sock">>,
              <<"127.0.0.1", "8484">>,
              <<"unix", "/tmp/c8", "sock">>}

MCImages == {"", "nginx*"}

\* A sensor listens on each of them.
MCListening == {[network |-> "unix", address |-> "/var/run/capsule8/sensor.sock"],
                [network |-> "tcp",  address |-> "127.0.0.1:8484"],
                [network |-> "unix", address |-> "/tmp/c8:sock"]}

\* Responses with no, one OK, one failed, two OK, or mixed statuses, and
\* with or without an event.
MCResponses == [statuses : {<<>>, <<"OK">>, <<"ERR">>, <<"OK", "OK">>, <<"OK", "ERR">>},
                events   : {<<>>, <<"e">>}]

=============================================================================
