---------------------------- MODULE MCDiscovery ----------------------------
(* Small instances of Discovery for TLC.                                   *)
EXTENDS Discovery

CONSTANTS c1, c2, c3

MCContainers == {c1, c2, c3}

Published(ip, host, cont, proto) ==
  [ip |-> ip, host |-> host, cont |-> cont, proto |-> proto, kind |-> "published"]
Exposed(cont, proto) ==
  [ip |-> "", host |-> <<>>, cont |-> cont, proto |-> proto, kind |-> "exposed"]
Odd == [ip |-> "", host |-> <<>>, cont |-> <<1>>, proto |-> "tcp", kind |-> "odd"]

\* The shapes of a Ports column: both address families, a port exposed before it
\* is published, published twice, moved, in a range, in two protocols, and the
\* entries the parser refuses (ranges that differ, too wide, descending).
MCColumns ==
  [c \in MCContainers |->
     CASE c = c1 ->
            {<<Published("0.0.0.0", <<5>>, <<5>>, "tcp"), Published("::", <<5>>, <<5>>, "tcp")>>,
             <<Exposed(<<5>>, "tcp"), Published("0.0.0.0", <<7>>, <<5>>, "tcp")>>,
             <<Published("0.0.0.0", <<5>>, <<5>>, "tcp"), Published("0.0.0.0", <<7>>, <<5>>, "tcp"),
               Exposed(<<5>>, "tcp")>>,
             <<Published("0.0.0.0", <<5, 6>>, <<5, 6>>, "tcp"), Exposed(<<6, 7>>, "tcp")>>,
             <<Exposed(<<5, 9>>, "tcp"), Exposed(<<9, 5>>, "tcp"), Odd,
               Published("0.0.0.0", <<2, 3>>, <<2, 4>>, "tcp"), Exposed(<<6>>, "tcp")>>,
             <<Exposed(<<5>>, "tcp"), Published("0.0.0.0", <<5>>, <<5>>, "udp"), Exposed(<<5>>, "tcp")>>}
       [] c = c2 -> {<<Exposed(<<8>>, "tcp")>>,
                     <<Published("127.0.0.1", <<8>>, <<8>>, "tcp")>>,
                     <<Published("0.0.0.0", <<8>>, <<8>>, "udp")>>}
       [] c = c3 -> {<<Published("0.0.0.0", <<9>>, <<9>>, "tcp"),
                       Published("0.0.0.0", <<4>>, <<4>>, "tcp")>>}]

MCServices == {[addr |-> "0.0.0.0", port |-> 1], [addr |-> "10.0.0.5", port |-> 8],
               [addr |-> "::", port |-> 8]}

\* -forward db=5, -forward 2-3:5-6, and a second db=5 at another host.
MCForwards ==
  <<[host |-> Loopback, label |-> "db", local |-> <<>>, remote |-> <<5>>],
    [host |-> Loopback, label |-> "forward", local |-> <<2, 3>>, remote |-> <<5, 6>>],
    [host |-> "db1", label |-> "db", local |-> <<4>>, remote |-> <<5>>]>>

\* Ports that need docker inspect.
MCColumnsChurn == [c \in MCContainers |-> {<<Exposed(<<5>>, "tcp")>>}]
=============================================================================
