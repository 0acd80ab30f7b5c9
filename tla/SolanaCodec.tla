----------------------------- MODULE SolanaCodec -----------------------------
(***************************************************************************)
(* The two pure codecs that the wallet-scoring and the orderflow projects  *)
(* each keep a copy of: Base58 as a change of number base over a buffer of *)
(* estimated size, and the reader of raw Solana transactions, whose errors *)
(* stick to the reader and are looked at only here and there.  Lengths are *)
(* scaled down: a signature has SigLen bytes for the code's 64, a key      *)
(* KeyLen for 32, and a compact number takes bits from bytes of 2 * Half   *)
(* values for the code's 256.                                              *)
(***************************************************************************)
EXTENDS Integers, Sequences, FiniteSets, SequencesExt

CONSTANTS Plain58,   \* byte strings for Base58
          Messages   \* the messages that the chain's nodes serialise

VARIABLE codecCase   \* an input and what the code makes of it

SigLen == 2
KeyLen == 1
Half   == 4

-----------------------------------------------------------------------------
(* Base58.  A digit string is multiplied and added to in one pass from its *)
(* low end; what is carried past its high end would be an index of -1.     *)

Leading(s, zero) == Cardinality({n \in 1 .. Len(s) : \A i \in 1 .. n : s[i] = zero})
Zeros(n)         == [i \in 1 .. n |-> 0]
Stripped(s)      == SubSeq(s, Leading(s, 0) + 1, Len(s))

TimesPlus(digits, x, factor, base) ==
  FoldRight(LAMBDA d, acc : LET c == acc.carry + d * factor
                            IN  [carry |-> c \div base, digits |-> <<c % base>> \o acc.digits],
            digits, [carry |-> x, digits |-> <<>>])

Rebased(s, size, from, to) ==
  FoldLeft(LAMBDA acc, x : LET d == TimesPlus(acc.digits, x, from, to)
                           IN  [digits |-> d.digits, fits |-> acc.fits /\ d.carry = 0],
           [digits |-> Zeros(size), fits |-> TRUE], s)

\* The letters of the alphabet are numbered from 0, the one that stands for a zero byte.
Base58Encode(b) ==
  LET r == Rebased(b, (Len(b) * 138) \div 100 + 1, 256, 58)
  IN  [fits |-> r.fits, text |-> IF b = <<>> THEN <<>> ELSE Zeros(Leading(b, 0)) \o Stripped(r.digits)]

Base58Decode(s) ==
  LET r == Rebased(s, (Len(s) * 733) \div 1000 + 1, 58, 256)
  IN  [fits |-> r.fits, bytes |-> IF s = <<>> THEN <<>> ELSE Zeros(Leading(s, 0)) \o Stripped(r.digits)]

-----------------------------------------------------------------------------
(* The reader: its buffer, its position, its error, and in v what the last *)
(* call returned; out collects what a loop builds, the fields after it are *)
(* what the parser keeps of it, and refused that it returned an error.     *)

Reader(raw) == [buf |-> raw, pos |-> 0, err |-> FALSE, v |-> 0, got |-> <<>>, out |-> <<>>,
                refused |-> FALSE, versioned |-> FALSE,
                signatures |-> <<>>, keys |-> <<>>, instructions |-> <<>>]

Peek(r) == IF r.err \/ r.pos >= Len(r.buf) THEN 0 ELSE r.buf[r.pos + 1]

Bytes(r, n) ==
  IF r.err \/ r.pos + n > Len(r.buf) THEN [r EXCEPT !.err = TRUE, !.v = <<>>]
  ELSE [r EXCEPT !.pos = @ + n, !.v = SubSeq(r.buf, r.pos + 1, r.pos + n)]

Uint8(r) == LET b == Bytes(r, 1) IN [b EXCEPT !.v = IF b.err THEN 0 ELSE @[1]]

CompactU16(r) ==
  FoldLeft(LAMBDA acc, i :
             IF acc.done THEN acc
             ELSE LET b == Uint8(acc.r)
                  IN  [r    |-> [b EXCEPT !.v = IF b.err THEN 0 ELSE acc.r.v + (@ % Half) * Half ^ i],
                       done |-> b.err \/ b.v < Half],
           [r |-> [r EXCEPT !.v = 0], done |-> FALSE], <<0, 1, 2>>).r

Times(n, Step(_), r) == FoldLeft(LAMBDA acc, i : Step(acc), r, [i \in 1 .. n |-> i])
Collect58(len, r)    == LET b == Bytes(r, len) IN [b EXCEPT !.out = Append(@, b.v)]

\* Several reads in a row; got holds what each returned.
Read(r, what) == CASE what = "byte"  -> Uint8(r)
                   [] what = "count" -> CompactU16(r)
                   [] what = "bytes" -> Bytes(r, r.v)

Reads(r, whats) ==
  FoldLeft(LAMBDA q, what : LET x == Read(q, what) IN [x EXCEPT !.got = Append(@, x.v)],
           [r EXCEPT !.got = <<>>], whats)

ReadInstruction(r, keys) ==
  LET read == Reads(r, <<"byte", "count", "bytes", "count", "bytes">>)
      accounts == read.got[3]
      known    == read.got[1] < keys /\ \A i \in 1 .. Len(accounts) : accounts[i] < keys
  IN  IF read.err \/ ~known THEN [read EXCEPT !.err = TRUE]
      ELSE [read EXCEPT !.out = Append(@, [program |-> read.got[1], accounts |-> accounts, data |-> read.got[5]])]

SkipTable(r) == Reads(Bytes(r, KeyLen), <<"count", "bytes", "count", "bytes">>)

Refused == [error |-> TRUE]

\* The sections of a transaction: the errors are looked at after the
\* signatures, after the counts and in the loops; a table count that cannot be
\* read is zero.
Signatures(r) ==
  LET count == CompactU16(r)
      read  == Times(count.v, LAMBDA q : Collect58(SigLen, q), count)
  IN  [read EXCEPT !.signatures = read.out, !.out = <<>>,
                   !.refused = count.err \/ count.v = 0 \/ count.v > 64 \/ read.err]

Header(r) == [Times(IF Peek(r) >= Half THEN 4 ELSE 3, Uint8, r) EXCEPT !.versioned = Peek(r) >= Half]

Keys(r) ==
  LET count == CompactU16(r)
      read  == Times(count.v, LAMBDA q : Collect58(KeyLen, q), count)
  IN  [read EXCEPT !.keys = read.out, !.out = <<>>,
                   !.refused = @ \/ count.err \/ count.v = 0 \/ count.v > 256]

Instructions(r) ==
  LET count == CompactU16(Bytes(r, KeyLen))
      read  == Times(count.v, LAMBDA q : ReadInstruction(q, Len(r.keys)), count)
  IN  [read EXCEPT !.instructions = read.out,
                   !.refused = @ \/ count.err \/ (count.v > 0 /\ read.err)]

Tables(r) ==
  LET count == CompactU16(r)
      read  == Times(count.v, SkipTable, count)
  IN  [read EXCEPT !.refused = @ \/ (r.versioned /\ count.v > 0 /\ read.err)]

Section(r, name) == CASE name = "signatures"   -> Signatures(r)
                      [] name = "header"       -> Header(r)
                      [] name = "keys"         -> Keys(r)
                      [] name = "instructions" -> Instructions(r)
                      [] name = "tables"       -> Tables(r)

ReadTransaction(raw) ==
  FoldLeft(Section, Reader(raw), <<"signatures", "header", "keys", "instructions", "tables">>)

\* What ParseRawTransaction returns once its sections are read.
ParseRawTransaction(r) ==
  IF r.refused THEN Refused
  ELSE [signature |-> r.signatures[1], keys |-> r.keys, instructions |-> r.instructions,
        versioned |-> r.versioned]

\* ParseTransaction, wallet-scoring's copy: the same reads and checks in the
\* same order.  It forgets the version and fills the summary of SolanaFeed.
Unversioned(p) == [f \in DOMAIN p \ {"versioned"} |-> p[f]]
ParseTransaction(r) == Unversioned(ParseRawTransaction(r))

-----------------------------------------------------------------------------
(* What the chain serialises, the format's reference.                      *)

Compact(n) == IF n < Half THEN <<n>> ELSE <<Half + (n % Half), n \div Half>>
Listed(s, Item(_)) == Compact(Len(s)) \o FlattenSeq([i \in DOMAIN s |-> Item(s[i])])
Itself(x) == x
Serialised(m) ==
  Listed(m.signatures, Itself) \o (IF m.versioned THEN <<Half>> ELSE <<>>) \o <<1, 0, 0>>
  \o Listed(m.keys, Itself) \o <<2>>
  \o Listed(m.instructions, LAMBDA i : <<i.program>> \o Compact(Len(i.accounts)) \o i.accounts
                                       \o Compact(Len(i.data)) \o i.data)
  \o (IF m.versioned THEN Listed(m.tables, LAMBDA t : <<1>> \o Compact(Len(t)) \o t \o <<0>>) ELSE <<>>)

Meant58(m) == [signature |-> m.signatures[1], keys |-> m.keys, instructions |-> m.instructions,
               versioned |-> m.versioned]

Cuts == UNION {{[kind |-> "message", given |-> m, cut |-> n] : n \in 0 .. Len(Serialised(m))} : m \in Messages}
Texts == [kind : {"base58"}, given : Plain58, cut : {0}]

CodecInit == codecCase \in [case : Cuts \cup Texts, result : {Refused}, done : {FALSE}]

Transcode == /\ codecCase.case.kind = "base58"
             /\ codecCase' = [codecCase EXCEPT !.done = TRUE,
                                               !.result = Base58Decode(Base58Encode(codecCase.case.given).text)]

Parse == /\ codecCase.case.kind = "message"
         /\ \E r \in {ReadTransaction(SubSeq(Serialised(codecCase.case.given), 1, codecCase.case.cut))} :
              \E parsed \in {ParseRawTransaction(r), ParseTransaction(r)} :
                codecCase' = [codecCase EXCEPT !.done = TRUE, !.result = parsed]

CodecNext == ~codecCase.done /\ (Transcode \/ Parse)
CodecSpec == CodecInit /\ [][CodecNext]_codecCase

-----------------------------------------------------------------------------
(* Properties. *)

\* Base58Encode and Base58Decode (base58.go) are inverse to each other on all
\* byte strings, leading zeros included, and their buffers are large enough.
Base58RoundTrip ==
  codecCase.done /\ codecCase.case.kind = "base58" =>
    /\ codecCase.result = [fits |-> TRUE, bytes |-> codecCase.case.given]
    /\ Base58Encode(codecCase.case.given).fits

\* A transaction that was cut off anywhere is refused or read as what it was,
\* never as another one, and a whole one is read, although most reads of
\* ParseRawTransaction (parser.go) are not followed by a look at the error.
CutNeverMisread ==
  codecCase.done /\ codecCase.case.kind = "message" =>
    LET m == codecCase.case.given
    IN  /\ codecCase.result \in {Refused, Meant58(m), Unversioned(Meant58(m))}
        /\ codecCase.case.cut = Len(Serialised(m)) => codecCase.result # Refused

CodecSound == Base58RoundTrip /\ CutNeverMisread
=============================================================================
