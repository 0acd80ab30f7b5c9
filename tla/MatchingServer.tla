--------------------------- MODULE MatchingServer ---------------------------
(***************************************************************************)
(* The TCP front of project 08: the epoll loop (src/server/tcp_server.cpp),*)
(* the sessions (session.cpp) and the text protocol (protocol.cpp).        *)
(*                                                                         *)
(* A byte stream is a sequence of tokens, words and numbers as tokenize    *)
(* cuts them (separators are left out), and of newlines; TCP may deliver   *)
(* it in any pieces.  The engine behind the sessions is module             *)
(* MatchingEngine; here it is the journal of the commands it was given.    *)
(***************************************************************************)
EXTENDS Integers, FiniteSets, SequencesExt

CONSTANTS Sockets,        \* clients, one connection each
          Script,         \* [Sockets -> what the client sends, a token sequence]
          MaxConnections, \* config_.max_connections
          SendSpace       \* room in a socket's send buffer, in tokens

VARIABLES socket,   \* per client: what it has sent, what it received, its state
          session,  \* per client: the server's Session
          journal   \* what the engine was asked, in order

serverVars == <<socket, session, journal>>

Word(w) == [w |-> w, n |-> 0]
Num(n) == [w |-> "#", n |-> n]
NL == Word("newline")

IsNum(t) == t.w = "#"

(***************************************************************************)
(* The protocol.                                                           *)
(***************************************************************************)
Invalid == [verb |-> "invalid"]

parse_order(t) ==
    IF \/ Len(t) # 6
       \/ ~(IsNum(t[2]) /\ IsNum(t[5]) /\ IsNum(t[6]))
       \/ t[3].w \notin {"BUY", "SELL"} \/ t[4].w \notin {"LIMIT", "MARKET"}
       \/ t[6].n <= 0
    THEN Invalid
    ELSE [verb |-> "order", instrument |-> t[2].n, side |-> t[3].w, type |-> t[4].w,
          price |-> IF t[4].w = "MARKET" THEN 0 ELSE t[5].n, quantity |-> t[6].n]

parse_cancel(t) ==
    IF Len(t) # 3 \/ ~IsNum(t[2]) \/ ~IsNum(t[3]) THEN Invalid
    ELSE [verb |-> "cancel", instrument |-> t[2].n, id |-> t[3].n]

\* parse_book and parse_trades differ in the default of their limit.
parse_query(verb, t, default) ==
    IF Len(t) \notin 2 .. 3 \/ ~IsNum(t[2]) \/ (Len(t) = 3 /\ (~IsNum(t[3]) \/ t[3].n <= 0)) THEN Invalid
    ELSE [verb |-> verb, instrument |-> t[2].n, limit |-> IF Len(t) = 3 THEN t[3].n ELSE default]

ParseCommand(t) ==
    CASE t = <<>> -> Invalid
      [] t # <<>> /\ t[1].w = "ORDER" -> parse_order(t)
      [] t # <<>> /\ t[1].w = "CANCEL" -> parse_cancel(t)
      [] t # <<>> /\ t[1].w = "BOOK" -> parse_query("book", t, 10)
      [] t # <<>> /\ t[1].w = "TRADES" -> parse_query("trades", t, 50)
      [] t # <<>> /\ t[1].w = "STATS" -> [verb |-> "stats"]
      [] OTHER -> Invalid

\* What the engine answers after the commands of log, as a line of tokens.  A limit
\* order can be cancelled once; orders that match are MatchingEngine's matter.
Placed(log) == SelectSeq(log, LAMBDA c : c.verb = "order")
Orders(log) == Len(Placed(log))
Resting(log, cmd) ==
    /\ cmd.id \in 1 .. Orders(log) /\ cmd \notin ToSet(log)
    /\ Placed(log)[cmd.id].type = "LIMIT" /\ Placed(log)[cmd.id].instrument = cmd.instrument

FormatResponse(log, cmd) ==
    CASE cmd.verb = "order" -> <<Word("OK"), Num(Orders(log) + 1)>>
      [] cmd.verb = "cancel" -> IF Resting(log, cmd) THEN <<Word("OK"), Num(cmd.id)>> ELSE <<Word("ERR")>>
      [] cmd.verb \in {"book", "trades", "stats"} -> <<Word("OK"), Num(Orders(log))>>
      [] OTHER -> <<Word("ERR")>>

(***************************************************************************)
(* A session.                                                              *)
(***************************************************************************)
Lines(bytes) ==   \* the complete lines of a stream
    LET ends == {i \in DOMAIN bytes : bytes[i] = NL}
        from(e) == LET before == {i \in ends : i < e}
                   IN IF before = {} THEN 1 ELSE 1 + CHOOSE i \in before : \A j \in before : j <= i
        ordered == SetToSortSeq(ends, LAMBDA a, b : a < b)
    IN [k \in DOMAIN ordered |-> SubSeq(bytes, from(ordered[k]), ordered[k] - 1)]

Unfinished(bytes) ==
    LET ends == {i \in DOMAIN bytes : bytes[i] = NL}
    IN IF ends = {} THEN bytes
       ELSE SubSeq(bytes, 1 + CHOOSE i \in ends : \A j \in ends : j <= i, Len(bytes))

\* Mutant: what follows the last complete line is dropped.
on_data_whole(s, log, c, data) ==
    LET buffer == s.read \o data
        done == FoldLeft(LAMBDA acc, line :
                    LET cmd == ParseCommand(line)
                    IN [log |-> Append(acc.log, cmd),
                        write |-> acc.write \o FormatResponse(acc.log, cmd) \o <<NL>>],
                    [log |-> log, write |-> s.write], Lines(buffer))
    IN [log |-> done.log,
        session |-> [s EXCEPT !.read = <<>>, !.write = done.write, !.lines = @ + Len(Lines(buffer))]]

\* on_data and process_line: every complete line is executed and answered.
on_data(s, log, c, data) ==
    LET buffer == s.read \o data
        done == FoldLeft(LAMBDA acc, line :
                    LET cmd == ParseCommand(line)
                    IN [log |-> Append(acc.log, cmd),
                        write |-> acc.write \o FormatResponse(acc.log, cmd) \o <<NL>>],
                    [log |-> log, write |-> s.write], Lines(buffer))
    IN [log |-> done.log,
        session |-> [s EXCEPT !.read = Unfinished(buffer), !.write = done.write,
                              !.lines = @ + Len(Lines(buffer))]]

NoSession == [open |-> FALSE, read |-> <<>>, write |-> <<>>, lines |-> 0, refused |-> FALSE]

ServerIdle ==
    /\ socket = [c \in Sockets |-> [at |-> "new", sent |-> 0, inbox |-> <<>>, outbox |-> <<>>, received |-> <<>>]]
    /\ session = [c \in Sockets |-> NoSession]
    /\ journal = <<>>

ServerInit == ServerIdle

Opened == {c \in Sockets : session[c].open}

\* accept_connections closes what exceeds the limit at once.
Accept(c) ==
    /\ socket[c].at = "new"
    /\ IF Cardinality(Opened) >= MaxConnections
       THEN /\ socket' = [socket EXCEPT ![c].at = "closed"]
            /\ UNCHANGED session
       ELSE /\ socket' = [socket EXCEPT ![c].at = "open"]
            /\ session' = [session EXCEPT ![c].open = TRUE]
    /\ UNCHANGED journal

\* The client: sends the next token, shuts its side down, resets, reads.
ClientSends(c) ==
    /\ socket[c].at = "open" /\ socket[c].sent < Len(Script[c])
    /\ socket' = [socket EXCEPT ![c].sent = @ + 1,
                                ![c].inbox = Append(@, Script[c][socket[c].sent + 1])]
    /\ UNCHANGED <<session, journal>>

ClientEnds(c) ==
    /\ socket[c].at = "open" /\ socket[c].sent = Len(Script[c])
    /\ \E how \in {"shut", "reset"} : socket' = [socket EXCEPT ![c].at = how]
    /\ UNCHANGED <<session, journal>>

ClientReads(c) ==
    /\ socket[c].outbox # <<>>
    /\ socket' = [socket EXCEPT ![c].received = @ \o socket[c].outbox, ![c].outbox = <<>>]
    /\ UNCHANGED <<session, journal>>

\* close_session: what the session still held, unread or unsent, is gone.
Closed(c) == [session EXCEPT ![c] = [@ EXCEPT !.open = FALSE, !.read = <<>>, !.write = <<>>]]

\* handle_readable reads until the socket is empty and then writes what fits;
\* at the end of the stream it closes the session instead.
HandleReadable(c) ==
    /\ session[c].open /\ socket[c].at \in {"open", "shut"}
    /\ socket[c].inbox # <<>> \/ socket[c].at = "shut"
    /\ LET done == on_data(session[c], journal, c, socket[c].inbox)
           room == SendSpace - Len(socket[c].outbox)
           fits == IF Len(done.session.write) < room THEN Len(done.session.write) ELSE room
           s == done.session
       IN /\ journal' = done.log
          /\ IF socket[c].at = "shut"
             THEN /\ session' = [Closed(c) EXCEPT ![c].lines = s.lines]
                  /\ socket' = [socket EXCEPT ![c].inbox = <<>>, ![c].at = "closed"]
             ELSE /\ session' = [session EXCEPT ![c] = [s EXCEPT
                                    !.write = SubSeq(s.write, fits + 1, Len(s.write)),
                                    !.refused = fits < Len(s.write)]]
                  /\ socket' = [socket EXCEPT ![c].inbox = <<>>,
                                              ![c].outbox = @ \o SubSeq(s.write, 1, fits)]

\* EPOLLHUP or EPOLLERR closes the session before anything is read.
HandleHangup(c) ==
    /\ session[c].open /\ socket[c].at = "reset"
    /\ session' = Closed(c)
    /\ socket' = [socket EXCEPT ![c].at = "closed", ![c].outbox = <<>>]
    /\ UNCHANGED journal

ServerNext ==
    \E c \in Sockets : \/ Accept(c) \/ ClientSends(c) \/ ClientEnds(c) \/ ClientReads(c)
                       \/ HandleReadable(c) \/ HandleHangup(c)

ServerSpec == ServerInit /\ [][ServerNext]_serverVars

(***************************************************************************)
(* Properties.                                                             *)
(***************************************************************************)
ServerTypeOK ==
    /\ Cardinality(Opened) <= MaxConnections
    /\ \A c \in Sockets : Len(socket[c].outbox) <= SendSpace

\* However TCP cuts the stream, a session executes each complete line once and
\* in order (session.cpp:15); nothing is left in its buffer but the last line.
LinesExecutedOnce ==
    \A c \in Sockets :
        LET taken == SubSeq(Script[c], 1, socket[c].sent - Len(socket[c].inbox))
        IN session[c].open =>
              /\ session[c].lines = Len(Lines(taken))
              /\ session[c].read = Unfinished(taken)

\* The replies a client gets are a line for each of its lines, none lost, cut or
\* reordered while the session is open, whatever partial writes happen.
RepliesMatchLines ==
    \A c \in Sockets :
        LET out == socket[c].received \o socket[c].outbox \o session[c].write
        IN session[c].open => /\ Len(Lines(out)) = session[c].lines
                              /\ Unfinished(out) = <<>>

\* A reply waits in a session only because the socket refused it at the time;
\* nothing sends it before the client's next command (tcp_server.cpp:198).
PendingOnlyIfRefused ==
    \A c \in Sockets : session[c].open /\ session[c].write # <<>> => session[c].refused

\* The engine is given only commands it can take: a positive quantity, no price
\* for a market order, a positive depth or limit; and as many as lines were read.
JournalSound ==
    /\ Len(journal) = FoldLeft(LAMBDA n, c : n + session[c].lines, 0, SetToSeq(Sockets))
    /\ \A cmd \in ToSet(journal) :
          /\ cmd.verb = "order" => cmd.quantity > 0 /\ (cmd.type = "MARKET" => cmd.price = 0)
          /\ cmd.verb \in {"book", "trades"} => cmd.limit > 0

ServerSound == LinesExecutedOnce /\ RepliesMatchLines /\ PendingOnlyIfRefused /\ JournalSound
=============================================================================
