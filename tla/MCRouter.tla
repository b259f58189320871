----------------------------- MODULE MCRouter ------------------------------
(* Values for Router that a configuration file cannot spell.                  *)
EXTENDS Router

Line(filters, accept, ipv6, given, uneven) ==
  [filters |-> filters, accept |-> accept, ipv6 |-> ipv6,
   given |-> given \cup {"ext-if"}, uneven |-> uneven, legal |-> TRUE]

Pattern == {"dyn-losses", "dyn-loss-times", "dyn-delays", "dyn-delay-res"}

\* No list, in either family; lists in either mode and family, one with a name init() does not
\* know; and one that repeats filters.
Chains ==
  {Line(<<>>, FALSE, FALSE, {"loss", "nat-type"} \cup Pattern, {}),
   Line(<<>>, FALSE, TRUE, {}, {}),
   Line(<<"StaticDelay", "Nat", "Loss", "DynamicDelay">>, FALSE, FALSE,
        {"delay", "loss", "nat-ext-port", "nat-timeout"}, {}),
   Line(<<"DynamicDelay", "Nat", "TokenBucketFilter">>, FALSE, TRUE,
        {"tbf-in-rate", "tbf-in-max-tokens", "tbf-in-max-packets", "tbf-in-red-start",
         "tbf-out-rate", "tbf-out-max-tokens", "tbf-out-max-packets", "tbf-out-red-start"}, {}),
   Line(<<"Loss", "DynamicLoss", "StaticDelay", "Delay", "TokenBucketFilter">>, TRUE, FALSE,
        {"loss"} \cup Pattern, {}),
   Line(<<"DynamicLoss", "Burst", "StaticDelay">>, TRUE, TRUE, {"burst-dur", "burst-sleep"}, {}),
   Line(<<"Loss", "DynamicLoss", "Loss", "DynamicLoss">>, TRUE, FALSE, {"loss"} \cup Pattern, {}),
   Line(<<"StaticDelay", "Loss", "StaticDelay">>, FALSE, FALSE, {}, {}),
   Line(<<"Nat", "Nat">>, FALSE, FALSE, {}, {})}

\* What main() does not accept.
Mistakes ==
  {[Line(<<>>, FALSE, FALSE, {}, {}) EXCEPT !.legal = FALSE],
   [Line(<<>>, FALSE, FALSE, {}, {}) EXCEPT !.given = {}],
   Line(<<>>, FALSE, FALSE, {"help"}, {}),
   Line(<<"DynamicDelay">>, FALSE, FALSE, {"dyn-delays"}, {}),
   Line(<<"DynamicLoss">>, FALSE, FALSE, {"dyn-losses"}, {}),
   Line(<<"DynamicLoss">>, FALSE, TRUE, Pattern, {"dyn-losses"}),
   Line(<<"Nat">>, FALSE, FALSE, {"nat-ext-port", "nat-int-port"}, {"nat-ext-port"})}

AllOptions == Chains \cup Mistakes
TokenBucketOnly == {Line(<<"TokenBucketFilter">>, TRUE, FALSE, {"tbf-out-max-packets"}, {})}
DefaultIpv6 == {Line(<<>>, FALSE, TRUE, {}, {})}

SomeLoss == <<FALSE, TRUE>>

\* An echo request, a reply from a port, and a request from one.
Whole(proto, src, dst, sport, dport, icmpId) ==
  [proto |-> proto, src |-> src, dst |-> dst, sport |-> sport, dport |-> dport, icmpId |-> icmpId,
   tos |-> 16, ttl |-> 63, id |-> 4711, fragOff |-> 16384, options |-> "timestamp", data |-> "data"]
Ipv4 ==
  <<Whole("icmp", "host", "remote", 0, 0, 258), Whole("tcp", "remote", "router", 80, 5000, 0),
    Whole("udp", "host", "remote", 5000, 53, 0)>>

Whole6(proto, src, dst, sport, dport, icmpId) ==
  [proto |-> proto, src |-> src, dst |-> dst, sport |-> sport, dport |-> dport, icmpId |-> icmpId,
   hlim |-> 63, flow |-> <<96, 18, 52, 86>>, data |-> "data"]
Ipv6 ==
  <<Whole6("icmp6", "host", "remote", 0, 0, 258), Whole6("udp", "remote", "host", 53, 5000, 0),
    Whole6("gre", "host", "remote", 0, 0, 0)>>
=============================================================================
