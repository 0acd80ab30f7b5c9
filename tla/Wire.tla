-------------------------------- MODULE Wire --------------------------------
(***************************************************************************)
(* The hand-written protobuf codecs of four systems: the MPC cluster, the  *)
(* wallet scoring and order flow ingestion, and the key-value store.       *)
(* Messages travel as sequences of fields; a length-delimited value is an  *)
(* opaque string, a packed list or, for a submessage, another sequence.    *)
(* The integers of 32 and 64 bits have W and 2W bits here.                 *)
(* A step encodes a message with its sender's table, the network may       *)
(* insert a field of a newer version or cut the last one, and the receiver *)
(* decodes with its own table.                                             *)
(***************************************************************************)
EXTENDS Integers, Sequences, SequencesExt, TLC

CONSTANT W   \* the bits of an "int32"

ASSUME WidthAssumption == W \in Nat \ {0}

VARIABLES codecAt,   \* "ready", "sent" or "received"
          channel,   \* the number of its way from sender to receiver in Channels
          message,   \* what the sender hands to its codec
          onWire,    \* the fields in transit
          decoded    \* what the receiver's codec returns

wireVars == <<codecAt, channel, message, onWire, decoded>>

(***************************************************************************)
(* Tables.  A field has a number, a name, a kind and a cardinality: one    *)
(* value, an optional one (a pointer) or many.                             *)
(***************************************************************************)
Field(n, name, kind, card, sub) ==
  [num |-> n, name |-> name, kind |-> kind, card |-> card, sub |-> sub]

One(n, name, kind)   == Field(n, name, kind, "one", <<>>)
Maybe(n, name, kind) == Field(n, name, kind, "opt", <<>>)
Many(n, name, kind)  == Field(n, name, kind, "many", <<>>)
Ptr(n, name, table)  == Field(n, name, "msg", "opt", table)
List(n, name, table) == Field(n, name, "msg", "many", table)

\* MPC cluster.
NodeInfo    == <<One(1, "SessionID", "text"), One(2, "NodeID", "int32"), One(3, "Addr", "text")>>
Ack         == <<One(1, "Ok", "bool"), One(2, "Message", "text")>>
TaskRequest == <<One(1, "SessionID", "text"), One(2, "NodeID", "int32")>>
PeerEntry   == <<One(1, "NodeID", "int32"), One(2, "Addr", "text")>>
ShareData   == <<One(1, "Slot", "int32"), One(2, "Value", "blob")>>
TripleData  == <<One(1, "A", "blob"), One(2, "B", "blob"), One(3, "C", "blob")>>
Task        == <<One(1, "SessionID", "text"), One(2, "NodeID", "int32"), One(3, "Op", "text"),
                 One(4, "PartyCount", "int32"), One(5, "BitLen", "int32"), One(6, "Ready", "bool"),
                 List(7, "Peers", PeerEntry), List(8, "Shares", ShareData),
                 List(9, "Triples", TripleData)>>
ResultMsg   == <<One(1, "SessionID", "text"), One(2, "NodeID", "int32"),
                 One(3, "Value", "blob"), One(4, "Err", "text")>>
Msg         == <<One(1, "RoundNum", "int32"), One(2, "SenderID", "int32"),
                 One(3, "SessionID", "text"), One(4, "Data", "blob")>>
HeartbeatPing == <<One(1, "NodeID", "int32"), One(2, "SessionID", "text"), One(3, "Ts", "int64")>>
HeartbeatPong == <<One(1, "Ok", "bool"), One(2, "Command", "text")>>

\* The Geyser stream, as wallet scoring reads it.
MessageHeader == <<One(1, "NumRequiredSignatures", "uint32"),
                   One(2, "NumReadonlySignedAccounts", "uint32"),
                   One(3, "NumReadonlyUnsignedAccounts", "uint32")>>
CompiledInstruction == <<One(1, "ProgramIDIndex", "uint32"), One(2, "Accounts", "blob"),
                         One(3, "Data", "blob")>>
TxMessage   == <<Ptr(1, "Header", MessageHeader), Many(2, "AccountKeys", "blob"),
                 One(3, "RecentBlockhash", "blob"), List(4, "Instructions", CompiledInstruction),
                 One(5, "Versioned", "bool")>>
Transaction == <<Many(1, "Signatures", "blob"), Ptr(2, "Message", TxMessage)>>
StatusMeta  == <<One(1, "Err", "blob"), One(2, "Fee", "uint64"),
                 Many(3, "PreBalances", "uint64"), Many(4, "PostBalances", "uint64")>>
TransactionInfo == <<One(1, "Signature", "blob"), One(2, "IsVote", "bool"),
                     Ptr(3, "Transaction", Transaction), Ptr(4, "Meta", StatusMeta),
                     One(5, "Index", "uint64")>>
UpdateTransaction == <<Ptr(1, "Transaction", TransactionInfo), One(2, "Slot", "uint64")>>
SubscribeUpdate == <<Many(1, "Filters", "text"), Ptr(4, "Transaction", UpdateTransaction),
                     Ptr(6, "Ping", <<>>)>>
FilterTransactions == <<Maybe(1, "Vote", "bool"), Maybe(2, "Failed", "bool"),
                        Many(4, "AccountInclude", "text"), Many(5, "AccountExclude", "text"),
                        Many(6, "AccountRequired", "text")>>
SubscribeRequest ==
  <<List(3, "Transactions", <<One(1, "key", "text"), Ptr(2, "value", FilterTransactions)>>),
    One(6, "Commitment", "int32")>>

\* The Geyser stream, as order flow intelligence reads it.
FlowHeader      == MessageHeader
FlowInstruction == CompiledInstruction
FlowTxMessage   == <<Ptr(1, "Header", FlowHeader), Many(2, "AccountKeys", "blob"),
                     One(3, "RecentBlockhash", "blob"), List(4, "Instructions", FlowInstruction)>>
FlowTransaction == <<Many(1, "Signatures", "blob"), Ptr(2, "Message", FlowTxMessage)>>
FlowMeta        == <<One(1, "Err", "blob"), One(2, "Fee", "uint64")>>
FlowInfo        == <<One(1, "Signature", "blob"), One(2, "IsVote", "bool"),
                     Ptr(3, "Transaction", FlowTransaction), Ptr(4, "Meta", FlowMeta),
                     One(5, "Index", "uint64")>>
FlowUpdateTx    == <<Ptr(1, "Transaction", FlowInfo), One(2, "Slot", "uint64")>>
FlowUpdate      == <<Many(1, "Filters", "text"), Ptr(4, "Transaction", FlowUpdateTx),
                     Ptr(6, "Ping", <<>>)>>
FlowFilter      == FilterTransactions
FlowRequest     ==
  <<List(3, "Transactions", <<One(1, "key", "text"), Ptr(2, "value", FlowFilter)>>),
    One(6, "Commitment", "int32")>>

\* Wallet scoring's aggregator.
Empty                 == <<>>
GetWalletStatsRequest == <<One(1, "Address", "text")>>
WalletStatsResponse   ==
  <<One(1, "Wallet", "text"), One(2, "TxCount", "uint64"), One(3, "FirstSeenUnix", "int64"),
    One(4, "LastSeenUnix", "int64"), One(5, "UniqueCounterparties", "uint32"),
    One(6, "AvgTxAmount", "double"), One(7, "MedianTxAmount", "double"),
    One(8, "HerfindahlIndex", "double"), One(9, "SmartContractRatio", "float"),
    One(10, "VelocityPerHour", "double"), One(11, "DormancyDays", "double"),
    One(12, "Score", "float"), One(13, "Category", "text"), One(14, "UpdatedAtUnix", "int64"),
    One(15, "Found", "bool")>>
GetTopWalletsRequest  == <<One(1, "Limit", "uint32"), One(2, "Offset", "uint32")>>
TopWalletsResponse    == <<List(1, "Items", WalletStatsResponse)>>
RefreshWalletRequest  == <<One(1, "Address", "text")>>

\* The key-value store's forwarded writes.
ForwardRequest  == <<One(1, "Method", "text"), One(2, "Path", "text"), One(3, "Body", "blob")>>
ForwardResponse == <<One(1, "StatusCode", "int32"), One(2, "Body", "blob")>>
-----------------------------------------------------------------------------
(***************************************************************************)
(* Values.  Texts, byte strings, pointers and lists are sequences, so that *)
(* <<>> is the zero value of all of them.                                  *)
(***************************************************************************)
Bits(kind) == IF kind \in {"int32", "uint32"} THEN W ELSE 2 * W

WireType(kind) ==
  CASE kind \in {"text", "blob", "msg"} -> "len"
    [] kind = "double" -> "fixed64"
    [] kind = "float"  -> "fixed32"
    [] OTHER           -> "varint"

\* What Go's conversions to and from the unsigned wire integer do.
ToWire(kind, v) ==
  CASE kind = "bool" -> IF v THEN 1 ELSE 0
    [] kind \in {"int32", "int64"} -> v % 2 ^ Bits(kind)
    [] OTHER -> v

FromWire(kind, u) ==
  CASE kind = "bool" -> u # 0
    [] kind = "uint32" -> u % 2 ^ W
    [] kind \in {"int32", "int64"} ->
         LET low == u % 2 ^ Bits(kind)
         IN  IF 2 * low >= 2 ^ Bits(kind) THEN low - 2 ^ Bits(kind) ELSE low
    [] OTHER -> u

IsNothing(kind, p) == IF WireType(kind) = "len" THEN p = <<>> ELSE p = 0

ZeroOf(f) ==
  CASE f.card # "one" \/ WireType(f.kind) = "len" -> <<>>
    [] f.kind = "bool" -> FALSE
    [] OTHER -> 0

NameSet(table) == {table[i].name : i \in DOMAIN table}
FieldNamed(table, name) == table[CHOOSE i \in DOMAIN table : table[i].name = name]
ZeroMessage(table) == [n \in NameSet(table) |-> ZeroOf(FieldNamed(table, n))]

(***************************************************************************)
(* Writing.  The four builders differ in the fields they leave out.        *)
(***************************************************************************)
SkipMpc(f, p)    == IsNothing(f.kind, p)
SkipKV(f, p)     == IsNothing(f.kind, p)
SkipWallet(f, p) == f.kind = "text" /\ p = <<>>
\* Mutant: optional fields that are set to zero are left out.
SkipFlowZero(f, p) == IsNothing(f.kind, p)
SkipFlow(f, p)   == FALSE
\* The provider's side of the Geyser stream: proto3 leaves out plain zeros.
SkipProto3(f, p) == f.card = "one" /\ IsNothing(f.kind, p)

Skipped(style, f, p) ==
  CASE style = "mpc"    -> SkipMpc(f, p)
    [] style = "kv"     -> SkipKV(f, p)
    [] style = "wallet" -> SkipWallet(f, p)
    [] style = "flow"   -> SkipFlow(f, p)
    [] OTHER            -> SkipProto3(f, p)

WireField(f, type, value) == [num |-> f.num, type |-> type, value |-> value, cut |-> FALSE]

RECURSIVE Encode(_, _, _)
Encode(style, table, m) ==
  LET Payload(f, v) == IF f.kind = "msg" THEN Encode(style, f.sub, v) ELSE ToWire(f.kind, v)
      Written(f, v) == IF Skipped(style, f, Payload(f, v)) THEN <<>>
                       ELSE <<WireField(f, WireType(f.kind), Payload(f, v))>>
      Values(f)     == IF f.card = "one" THEN <<m[f.name]>> ELSE m[f.name]
      Fields(f)     == IF style = "packed" /\ f.card = "many" /\ WireType(f.kind) = "varint"
                         THEN IF m[f.name] = <<>> THEN <<>> ELSE <<WireField(f, "len", m[f.name])>>
                         ELSE FlattenSeq([i \in DOMAIN Values(f) |-> Written(f, Values(f)[i])])
  IN  FlattenSeq([i \in DOMAIN table |-> Fields(table[i])])

(***************************************************************************)
(* Reading: a loop over the fields.  Unknown numbers are skipped, a cut    *)
(* field is an error wherever it is, a repeated field appends and the last *)
(* value of any other field wins.                                          *)
(***************************************************************************)
Unpacked(f, w) == IF f.card = "many" /\ WireType(f.kind) = "varint" /\ w.type = "len"
                    THEN w.value ELSE <<w.value>>

RECURSIVE Decode(_, _)
Decode(table, fields) ==
  LET Failed == [ok |-> FALSE, msg |-> ZeroMessage(table)]
      Parse(f, u) == IF f.kind = "msg" THEN Decode(f.sub, u)
                                       ELSE [ok |-> TRUE, msg |-> FromWire(f.kind, u)]
      Put(m, f, v) == [m EXCEPT ![f.name] = CASE f.card = "one"  -> v[Len(v)]
                                              [] f.card = "opt"  -> v
                                              [] f.card = "many" -> @ \o v]
      Read(acc, w) ==
        LET known == {i \in DOMAIN table : table[i].num = w.num}
            f     == table[CHOOSE i \in known : TRUE]
            items == [i \in DOMAIN Unpacked(f, w) |-> Parse(f, Unpacked(f, w)[i])]
        IN  CASE ~acc.ok \/ w.cut -> Failed
              [] known = {} -> acc
              [] \E i \in DOMAIN items : ~items[i].ok -> Failed
              [] OTHER -> [acc EXCEPT !.msg = Put(@, f, [i \in DOMAIN items |-> items[i].msg])]
  IN  FoldLeft(Read, [ok |-> TRUE, msg |-> ZeroMessage(table)], fields)
-----------------------------------------------------------------------------
(***************************************************************************)
(* Who talks to whom: the tables a client sends and expects for a method,  *)
(* and the tables its server reads and answers with.                       *)
(***************************************************************************)
MpcClient == [RegisterNode |-> <<NodeInfo, Ack>>, GetTask |-> <<TaskRequest, Task>>,
              SubmitResult |-> <<ResultMsg, Ack>>]
MpcServer == [RegisterNode |-> <<NodeInfo, Ack>>, GetTask |-> <<TaskRequest, Task>>,
              SubmitResult |-> <<ResultMsg, Ack>>]
HeartbeatStream == <<HeartbeatPing, HeartbeatPong>>
PeerClient == [Exchange |-> <<Msg, Ack>>]
PeerServer == [Exchange |-> <<Msg, Ack>>]
AggClient == [GetWalletStats |-> <<GetWalletStatsRequest, WalletStatsResponse>>,
              GetTopWallets  |-> <<GetTopWalletsRequest, TopWalletsResponse>>,
              RefreshWallet  |-> <<RefreshWalletRequest, Empty>>]
AggServer == [GetWalletStats |-> <<GetWalletStatsRequest, WalletStatsResponse>>,
              GetTopWallets  |-> <<GetTopWalletsRequest, TopWalletsResponse>>,
              RefreshWallet  |-> <<RefreshWalletRequest, Empty>>]
KVClient == [Forward |-> <<ForwardRequest, ForwardResponse>>]
KVForwardServer == [Forward |-> <<ForwardRequest, ForwardResponse>>]

Way(style, writes, reads) == [style |-> style, writes |-> writes, reads |-> reads]

Calls(style, methods, client, server) ==
  FlattenSeq([i \in DOMAIN methods |->
    LET c == client[methods[i]]
        s == server[methods[i]]
    IN  <<Way(style, c[1], s[1]), Way(style, s[2], c[2])>>])

Channels ==
  Calls("mpc", <<"RegisterNode", "GetTask", "SubmitResult">>, MpcClient, MpcServer)
    \o Calls("mpc", <<"Exchange">>, PeerClient, PeerServer)
    \o <<Way("mpc", HeartbeatStream[1], HeartbeatStream[1]),
         Way("mpc", HeartbeatStream[2], HeartbeatStream[2])>>
    \o Calls("wallet", <<"GetWalletStats", "GetTopWallets", "RefreshWallet">>, AggClient, AggServer)
    \o Calls("kv", <<"Forward">>, KVClient, KVForwardServer)
    \o <<Way("proto3", SubscribeUpdate, SubscribeUpdate), Way("packed", SubscribeUpdate, SubscribeUpdate),
         Way("proto3", FlowUpdate, FlowUpdate),
         Way("wallet", SubscribeRequest, SubscribeRequest), Way("flow", FlowRequest, FlowRequest)>>

(***************************************************************************)
(* The messages tried: up to two fields differ from their zero values.     *)
(***************************************************************************)
RECURSIVE Samples(_, _)
Samples(table, n) ==
  LET Items(f) == CASE f.kind \in {"text", "blob"} -> {<<>>, <<"a">>}
                    [] f.kind = "bool"   -> BOOLEAN
                    [] f.kind = "msg"    -> Samples(f.sub, 1)
                    [] f.kind = "int32"  -> {-1, 0, 1}
                    [] f.kind = "int64"  -> {-2 ^ W, 0, 2 ^ W}
                    [] f.kind = "uint64" -> {0, 2 ^ W}
                    [] OTHER             -> {0, 1}
      Sample(f) == CASE f.card = "one"  -> Items(f)
                     [] f.card = "opt"  -> {<<v>> : v \in Items(f)}
                     [] f.card = "many" ->
                          LET some == CHOOSE v \in Items(f) : TRUE
                          IN  UNION {{<<v>>, <<some, v>>} : v \in Items(f)}
      Changed(m) == UNION {{[m EXCEPT ![table[i].name] = v] : v \in Sample(table[i])} :
                           i \in DOMAIN table}
  IN  IF n = 0 THEN {ZeroMessage(table)}
               ELSE LET fewer == Samples(table, n - 1)
                    IN  fewer \union UNION {Changed(m) : m \in fewer}

WireInit == /\ codecAt = "ready"
            /\ channel \in DOMAIN Channels
            /\ message \in Samples(Channels[channel].writes, 2)
            /\ onWire = <<>>
            /\ decoded = [ok |-> FALSE, msg |-> <<>>]

WireIdle == /\ codecAt = "received"
            /\ channel = 0
            /\ message = <<>> /\ onWire = <<>>
            /\ decoded = [ok |-> TRUE, msg |-> <<>>]

CutShort == onWire # <<>> /\ onWire[Len(onWire)].cut

\* Marshal, called by the codec of the sender.
Marshal == /\ codecAt = "ready"
           /\ onWire' = Encode(Channels[channel].style, Channels[channel].writes, message)
           /\ codecAt' = "sent"
           /\ UNCHANGED <<channel, message, decoded>>

Unknown == [num |-> 99, type |-> "len", value |-> <<"x">>, cut |-> FALSE]

\* A peer of a newer version writes a field the receiver does not know.
NewerPeer == /\ codecAt = "sent"
             /\ ~CutShort
             /\ Unknown \notin {onWire[i] : i \in DOMAIN onWire}
             /\ \E i \in 1 .. Len(onWire) + 1 : onWire' = InsertAt(onWire, i, Unknown)
             /\ UNCHANGED <<codecAt, channel, message, decoded>>

\* The bytes end inside the last field.
Truncate == /\ codecAt = "sent"
            /\ onWire # <<>> /\ ~CutShort
            /\ onWire' = [onWire EXCEPT ![Len(onWire)].cut = TRUE]
            /\ UNCHANGED <<codecAt, channel, message, decoded>>

\* Unmarshal, called by the codec of the receiver.
Unmarshal == /\ codecAt = "sent"
             /\ decoded' = Decode(Channels[channel].reads, onWire)
             /\ codecAt' = "received"
             /\ UNCHANGED <<channel, message, onWire>>

WireNext == Marshal \/ NewerPeer \/ Truncate \/ Unmarshal
-----------------------------------------------------------------------------
(***************************************************************************)
(* What arrives of a message by intention: everything, except that the     *)
(* builders of the MPC cluster and of wallet scoring write no empty text   *)
(* and no empty byte string, not even as the element of a list.            *)
(***************************************************************************)
Kept(style, f, v) ==
  IF f.card # "many" THEN v
  ELSE CASE style = "mpc" /\ f.kind = "msg" ->
              SelectSeq(v, LAMBDA e : e # ZeroMessage(f.sub))
         [] style = "wallet" /\ f.kind = "text" -> SelectSeq(v, LAMBDA e : e # <<>>)
         [] OTHER -> v

RECURSIVE Meant(_, _, _)
Meant(style, table, m) ==
  [n \in DOMAIN m |->
     LET f    == FieldNamed(table, n)
         deep == IF f.kind # "msg" THEN m[n]
                 ELSE [i \in DOMAIN m[n] |-> Meant(style, f.sub, m[n][i])]
     IN  Kept(style, f, deep)]

\* What a receiver decodes is what the sender meant, field by field, signs and
\* zeros included, whatever fields of newer versions are mixed in; a message
\* that was cut inside a field is refused, never half read (the Marshal and
\* Unmarshal methods of all four codecs, and the tables of clients and servers).
RoundTrip ==
  (codecAt = "received" /\ channel # 0) =>
    IF CutShort THEN ~decoded.ok
    ELSE decoded.ok /\ decoded.msg = Meant(Channels[channel].style, Channels[channel].writes, message)

WireSpec == WireInit /\ [][WireNext]_wireVars
=============================================================================
