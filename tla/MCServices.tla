----------------------------- MODULE MCServices -----------------------------
(* The six event-driven projects and the edges of two others, side by side. *)
(* They share no process, store or message, so a behaviour is one of one    *)
(* system; the others stay in the state they start in.  Their interleaving  *)
(* would multiply the states and show nothing: no property looks at two.    *)
EXTENDS Wire, MpcSession, SecretSharing, Loyalty, Community, WalletPipeline,
        WalletAlerts, SolanaCodec, SolanaFeed, WalletFeatures, FlowFeatures,
        Orderflow, Anomaly, PortfolioMetrics, Reports, MatchingServer, RateLimits

CONSTANTS line1, line2, line3,  \* the connections of the matching server
          n0, n1, e1, e2,       \* parties and Execute calls
          a1, a2, c1, c2        \* requests for reports and browsers

VARIABLE system    \* which system runs

ServicesInit ==
  /\ system \in {"wire", "mpc", "sharing", "loyalty", "posts", "promos", "visits", "wallets", "alerts",
                 "codec", "feed", "features", "windows", "orderflow", "anomaly", "metrics", "reports",
                 "server", "limits"}
  /\ IF system = "wire" THEN WireInit ELSE WireIdle
  /\ MpcInit /\ (system # "mpc" => operation = "sum")
  /\ IF system = "sharing" THEN SharingInit ELSE SharingIdle
  /\ LoyaltyInit /\ CommunityInit /\ WalletInit /\ AlertsInit
  /\ IF system = "codec" THEN CodecInit ELSE codecCase = "none"
  /\ IF system = "feed" THEN FeedInit ELSE feedCase = "none"
  /\ IF system = "features" THEN FeatInit ELSE featCase = "none"
  /\ FlowFeatureInit /\ FlowInit
  /\ IF system = "anomaly" THEN AnomalyInit ELSE Started({"normal"})
  /\ MetricsInit /\ ReportsInit /\ ServerInit
  /\ IF system = "limits" THEN LimitsInit ELSE LimitsStart({0})

ServicesNext ==
  /\ \/ system = "wire" /\ WireNext
     \/ system = "mpc" /\ MpcNext
     \/ system = "sharing" /\ SharingNext
     \/ system = "loyalty" /\ LoyaltyNext
     \/ system = "posts" /\ PostNext
     \/ system = "promos" /\ PromoNext
     \/ system = "visits" /\ VisitNext
     \/ system = "wallets" /\ WalletNext
     \/ system = "alerts" /\ AlertsNext
     \/ system = "codec" /\ CodecNext
     \/ system = "feed" /\ FeedNext
     \/ system = "features" /\ FeatNext
     \/ system = "windows" /\ FlowFeatureNext
     \/ system = "orderflow" /\ FlowNext
     \/ system = "anomaly" /\ AnomalyNext
     \/ system = "metrics" /\ MetricsNext
     \/ system = "reports" /\ ReportsNext
     \/ system = "server" /\ ServerNext
     \/ system = "limits" /\ LimitsNext
  /\ IF system = "wire" THEN TRUE ELSE UNCHANGED wireVars
  /\ IF system = "mpc" THEN TRUE ELSE UNCHANGED mpcVars
  /\ IF system = "sharing" THEN TRUE ELSE UNCHANGED sharingVars
  /\ IF system = "loyalty" THEN TRUE ELSE UNCHANGED loyaltyVars
  /\ IF system \in {"posts", "promos", "visits"} THEN TRUE ELSE UNCHANGED communityVars
  /\ IF system = "wallets" THEN TRUE ELSE UNCHANGED walletVars
  /\ IF system = "alerts" THEN TRUE ELSE UNCHANGED alertsVars
  /\ IF system = "codec" THEN TRUE ELSE UNCHANGED codecCase
  /\ IF system = "feed" THEN TRUE ELSE UNCHANGED feedCase
  /\ IF system = "features" THEN TRUE ELSE UNCHANGED featCase
  /\ IF system = "windows" THEN TRUE ELSE UNCHANGED flowCase
  /\ IF system = "orderflow" THEN TRUE ELSE UNCHANGED orderflowVars
  /\ IF system = "anomaly" THEN TRUE ELSE UNCHANGED anomalyVars
  /\ IF system = "metrics" THEN TRUE ELSE UNCHANGED metricsCase
  /\ IF system = "reports" THEN TRUE ELSE UNCHANGED reportVars
  /\ IF system = "server" THEN TRUE ELSE UNCHANGED serverVars
  /\ IF system = "limits" THEN TRUE ELSE UNCHANGED limitVars
  /\ UNCHANGED system

servicesVars ==
  <<system, wireVars, mpcVars, sharingVars, loyaltyVars, communityVars, walletVars, alertsVars,
    codecCase, feedCase, featCase, flowCase, orderflowVars, anomalyVars, metricsCase, reportVars,
    serverVars, limitVars>>

(* Parties, calls, requests and browsers have names that nothing depends    *)
(* on: of two, the first is the party to register, the call to publish its  *)
(* tasks, the request or the browser to come before the other.              *)
FirstComesFirst ==
  /\ n1 \in sessNodes => n0 \in sessNodes
  /\ execute[e2].at \in {"published", "waiting", "ok"} => execute[e1].at \notin {"idle", "checked"}
  /\ asks[a2].at # "new" => asks[a1].at # "new"
  /\ conn[c2] # "none" => conn[c1] # "none"

(* And what the instance leaves out: a restart beside two calls that were   *)
(* let through, a second message marked undone, and a request in a batch    *)
(* beside one that is in none.                                              *)
ServicesBounds ==
  /\ mpcFaults > 0 => execute[e2].at \in {"idle", "error"}
  /\ Cardinality(extractor.passed) <= 1
  /\ asks[a2].at # "new" => asks[a2].batch = asks[a1].batch

ServicesSpec == ServicesInit /\ [][ServicesNext /\ FirstComesFirst' /\ ServicesBounds']_servicesVars
-----------------------------------------------------------------------------
(* The inputs of the pure parts. *)

MCPlain58 == UNION {[1 .. n -> {0, 1, 57, 58, 255}] : n \in 0 .. 3}

Instr == {[program |-> 1, accounts |-> <<0>>, data |-> <<5, 6, 7, 1, 2>>],
          [program |-> 0, accounts |-> <<>>, data |-> <<>>]}
MCMessages ==
  {[signatures |-> ss, keys |-> <<<<9>>, <<8>>>>, instructions |-> is, versioned |-> v, tables |-> IF v THEN ts ELSE <<>>] :
     ss \in {<<<<1, 2>>>>, <<<<3, 4>>, <<5, 6>>>>}, is \in {<<>>} \union {<<a>> : a \in Instr} \union {<<a, b>> : a, b \in Instr},
     v \in BOOLEAN, ts \in {<<>>, <<<<1, 1>>>>}}

Data(tag, size, x, y) == [tag |-> tag, size |-> size, x |-> x, y |-> y, exactIn |-> TRUE, aToB |-> TRUE, hops |-> 0]
Ix(p, n, d) == [program |-> p, accounts |-> [i \in 1 .. n |-> i - 1], data |-> d]
PlainIxs ==
  {Ix("system", n, Data(t, z, 5, 6)) : n \in {1, 2}, t \in {0, 2}, z \in {3, 12}}
  \union {Ix("token", n, Data(t, 9, 7, 8)) : n \in {2, 3}, t \in {3, 7, 12}}
  \union {Ix("budget", 0, Data(2, 9, 1, 1)), Ix("other", 3, Data(1, 0, 1, 1)),
          [program |-> "token", accounts |-> <<2, 1>>, data |-> Data(3, 9, 4, 4)]}
SwapIxs ==
  {Ix("raydium", n, Data(t, 17, 2, 3)) : n \in {16, 17, 18}, t \in {9, 11, 1}}
  \union {[Ix("orca", 11, Data(t, z, 2, 3)) EXCEPT !.data.exactIn = e, !.data.aToB = b] :
             t \in {"swap", "swapV2"}, z \in {24, 42}, e, b \in BOOLEAN}
  \union {[Ix("jupiter", n, Data("route", z, 2, 3)) EXCEPT !.data.hops = h] : n \in {7, 13}, z \in {25, 27, 67}, h \in {0, 1}}
  \union {Ix("cpmm", 12, Data(1, 17, 2, 3)), Ix("system", 2, Data(2, 9, 5, 6))}
MCUpdates ==
  [keys : {18}, instructions : {<<a>> : a \in PlainIxs \union SwapIxs} \union {<<a, b>> : a, b \in PlainIxs \union SwapIxs}]
  \union [keys : {1}, instructions : {<<a>> : a \in PlainIxs}]

Moves == [from : {"w"}, to : {"w", "a", "b"}, amount : {0, 1, 3}, contract : {TRUE}, at : {1}]
         \union [from : {"a"}, to : {"w"}, amount : {1, 2}, contract : {FALSE}, at : {1, 4}]
MCTxHistories == {<<a>> : a \in Moves} \union {<<a, b>> : a, b \in Moves}
         \union {<<a, b, c>> : a, b \in Moves, c \in {t \in Moves : t.amount = 3 /\ t.to = "a"}}
MCHourlyVolumes == {<<>>, <<1, 9, 2>>}

AnySwap == [at : 1 .. 3, buy : BOOLEAN, amount : {0, 1, 3, 7}, price : {0, 2, 5}]
MCFlowTrades ==
  {<<a>> : a \in AnySwap}
  \union {<<a, b>> : a, b \in {s \in AnySwap : s.amount = 3 \/ (s.price = 2 /\ s.at = 1)}}
  \union {<<a, b, c>> : a \in {s \in AnySwap : s.amount = 7 /\ s.price = 2}, b \in {s \in AnySwap : s.at = 2 /\ s.price = 5},
                        c \in {s \in AnySwap : s.amount \in {1, 3} /\ s.price = 0}}
Rows == [xgb : {<<100, 0, 0>>, <<34, 33, 33>>, <<0, 55, 45>>}, lstm : {<<100, 0, 0>>, <<10, 20, 70>>, <<0, 55, 45>>}, label : 1 .. 3]
MCProbTables == {<<a>> : a \in Rows} \union {<<a, b>> : a, b \in Rows}

(* The rest. *)
\* A line of five, and one who may come on nobody's invitation instead.
MCInvites == {<<m, m - 1>> : m \in 1 .. 5} \union {<<3, 0>>}
MCPairOf == [o \in Offsets |-> IF o = 2 THEN "b" ELSE "a"]
MCJumps == {-3, 2}
MCScript ==
  line1 :> <<Word("ORDER"), Num(1), Word("BUY"), Word("MARKET"), Num(7), Num(2), NL, Word("CANCEL"), Num(1), Num(1), NL>>
  @@ line2 :> <<NL, Word("TRADES"), Num(1), Num(0), NL>>
  @@ line3 :> <<>>

-----------------------------------------------------------------------------
(* What is checked of the pure parts and of the systems that no theorem is about; the *)
(* properties of the others are those of their modules.  They hold in every *)
(* system of ServicesInit, moving or at rest.                               *)

\* 01, 02, 06, 08, 10: what one side encodes or deals the other decodes or opens: a
\* newer sender's fields are skipped and cut messages refused, base58 and transactions
\* come back as they were, the parser's decoders agree, the shares of any draw open to
\* the function of the inputs, and the matching engine's server takes and answers
\* each line once, however the stream is cut (proto.go, geyser.go, protowire.go,
\* base58.go, parser.go, operations.go, session.cpp).
DecodedAsMeant ==
  /\ system = "wire" => RoundTrip
  /\ system = "codec" => CodecSound
  /\ system = "feed" => FeedSound
  /\ system = "sharing" => SharesHonest
  /\ system = "server" => ServerTypeOK /\ ServerSound

=============================================================================
