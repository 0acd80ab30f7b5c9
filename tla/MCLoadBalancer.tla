---------------------------- MODULE MCLoadBalancer ----------------------------
(* Two files: one backend of both is in one of them only, the other changes   *)
(* its weight; one entry has an address that does not parse.                *)
EXTENDS LoadBalancer

Entry(label, weight) == [label |-> label, weight |-> weight]

MCConfigs ==
  { <<Entry("a", 0), Entry("b", 2)>>,
    <<Entry("b", 1), Entry("x", 1)>> }
=============================================================================
