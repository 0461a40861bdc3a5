------------------------------- MODULE Board --------------------------------
(***************************************************************************)
(* The web server of the Pico board: the TCP connections of                *)
(* pico/src/tcp.c, whose lwIP callbacks come between any two sections of   *)
(* the interpreter under lwip_begin/lwip_end; the stream table of          *)
(* src/io/streams.c; the loop of pico/prolog/http.pl that serves one       *)
(* request after another; and the loop of pico/src/main.c that starts it   *)
(* again after a crash.                                                    *)
(*                                                                         *)
(* A request is a line, and then lines up to an empty one, of which the    *)
(* code sets no limit; of a line the model has whose it is, and which one  *)
(* is empty is open.  A reply is a head and a body.  A client is one       *)
(* peer: it connects, sends any lines, stalls or goes on for ever, may end *)
(* its side or reset the connection, and may connect again once it is      *)
(* closed.  A crash (an abort, no memory) and a Prolog heap that is        *)
(* exhausted may come at any step of the interpreter.                      *)
(***************************************************************************)
EXTENDS Integers, Sequences, FiniteSetsExt

CONSTANTS
  Clients,     \* the peers
  None,        \* NULL, an entry of the stream table that is not in use
  Mail, Log,   \* mail_handle and log_handle
  Conns,       \* MAX_CONNS
  Entries,     \* MAX_OPEN_STREAMS
  Histories    \* bounds of a history: more slots than ever are busy, the lines of a
               \* connection that lwIP holds until they are read (TCP_WND), the
               \* crashes and the exhausted heaps since the board came up, and what
               \* is asked at the prompt

Slots == 0..Conns - 1
Fds == {"in", "out", "aux"}

ASSUME SizeAssumption ==
  /\ Conns \in Nat \ {0} /\ Entries \in Nat \ {0}
  /\ Histories \subseteq [busy : Nat, window : Nat, crashes : Nat, raises : Nat, prompts : Nat]

\* NULL is no peer and no handle, and a handle tells what it is of.
ASSUME HandlesAssumption ==
  /\ None \notin Clients \cup Slots /\ Mail \notin Slots /\ Log \notin Slots
  /\ Mail # None /\ Log # None

VARIABLES
  bound,     \* the one of Histories of this history: fixed
  conns,     \* conns of tcp.c
  client,    \* external: what each peer is doing and what it has received
  listening, \* listener is not NULL
  streams,   \* T->streams: the handle of each entry, or None
  pc,        \* where the interpreter, or main, is
  cur,       \* Conn of serve/1: the slot of the request; i of tcp_fail_all
  fd,        \* In and Out of serve/1, S of log/1 and request_failed/1: entries
  inbuf,     \* the bytes io_reader_t of In holds: lines
  line,      \* whose request line handle/3 has read, or None
  run,       \* the query: "main", "serve" of main's loop, or at the "prompt"
  idle,      \* idle of main
  took,      \* accepted has changed since before was set, which it is for "serve"
  crashes,   \* how often the board has crashed: bounds the histories
  raised,    \* how often a collection has left the heap exhausted, likewise
  prompts,   \* how often the user has asked something at the prompt
  quiet      \* history: of the runs main has seen crash, whether ~took

netVars == <<conns, client>>
serverVars == <<cur, fd, inbuf, line>>
mainVars == <<bound, run, idle, took, crashes, raised, prompts, quiet>>
vars == <<netVars, listening, streams, pc, serverVars, mainVars>>

Free == [state |-> "FREE", pcb |-> None, rx |-> <<>>, eof |-> FALSE,
         refs |-> 0, sent |-> FALSE, due |-> FALSE]
Away == [up |-> FALSE, ended |-> FALSE, got |-> <<>>]

TypeOK ==
  /\ conns \in [Slots -> [state : {"FREE", "PENDING", "ACCEPTED"}, pcb : Clients \cup {None},
                          rx : Seq(Clients), eof : BOOLEAN,
                          refs : 0..2, sent : BOOLEAN, due : BOOLEAN]]
  /\ client \in [Clients -> [up : BOOLEAN, ended : BOOLEAN,
                             got : Seq({"head", "body", "500", "crashed"} \X (Clients \cup {None}))]]
  /\ listening \in BOOLEAN
  /\ streams \in [1..Entries -> Slots \cup {Mail, Log, None}]
  /\ pc \in {"announce", "announced", "listen", "accept", "open in", "open out", "read line",
             "skip headers", "head", "body", "log", "logged", "failed", "told", "close in",
             "close out", "fail all", "close all", "drop all", "prompt"}
  /\ cur \in Slots /\ fd \in [Fds -> 0..Entries]
  /\ inbuf \in Seq(Clients) /\ line \in Clients \cup {None}
  /\ run \in {"main", "serve", "prompt"} /\ idle \in 0..3 /\ took \in BOOLEAN
  /\ bound \in Histories /\ crashes \in 0..bound.crashes /\ raised \in 0..bound.raises
  /\ prompts \in 0..bound.prompts /\ quiet \in Seq(BOOLEAN)

Init ==
  /\ bound \in Histories
  /\ conns = [i \in Slots |-> Free] /\ client = [c \in Clients |-> Away]
  /\ listening = FALSE
  /\ streams = [k \in 1..Entries |-> None]
  /\ pc = "listen" /\ cur = 0 /\ fd = [f \in Fds |-> 0] /\ inbuf = <<>> /\ line = None
  /\ run = "main" /\ idle = 0 /\ took = FALSE
  /\ crashes = 0 /\ raised = 0 /\ prompts = 0 /\ quiet = <<>>

-----------------------------------------------------------------------------
(***************************************************************************)
(* The network: peers, and the callbacks lwIP makes for what they do.      *)
(***************************************************************************)
Reaches(i, c) == conns[i].pcb = c
Busy == {i \in Slots : conns[i].state # "FREE"}

\* on_accept: the first free slot, or the connection is refused.
Connect(c) ==
  /\ listening /\ ~client[c].up /\ Cardinality(Busy) < bound.busy
  /\ LET free == {i \in Slots : conns[i].state = "FREE"} IN
     IF free = {}
     THEN UNCHANGED conns /\ client' = [client EXCEPT ![c] = Away]
     ELSE /\ conns' = [conns EXCEPT ![Min(free)] = [Free EXCEPT !.state = "PENDING", !.pcb = c]]
          /\ client' = [client EXCEPT ![c] = [Away EXCEPT !.up = TRUE]]
  /\ UNCHANGED <<listening, streams, pc, serverVars, mainVars>>

\* on_recv with a pbuf: whenever there is room, whatever has been read or answered.
Send(c) ==
  \E i \in Slots :
    /\ Reaches(i, c) /\ ~client[c].ended /\ Len(conns[i].rx) < bound.window
    /\ conns' = [conns EXCEPT ![i].rx = Append(@, c)]
    /\ UNCHANGED <<client, listening, streams, pc, serverVars, mainVars>>

\* on_recv without one: the peer has ended its side, early or not.
Finish(c) ==
  \E i \in Slots :
    /\ Reaches(i, c) /\ ~client[c].ended
    /\ conns' = [conns EXCEPT ![i].eof = TRUE]
    /\ client' = [client EXCEPT ![c].ended = TRUE]
    /\ UNCHANGED <<listening, streams, pc, serverVars, mainVars>>

\* on_err: the peer has reset the connection, and lwIP has freed the pcb.
Reset(c) ==
  \E i \in Slots :
    /\ Reaches(i, c)
    /\ conns' = [conns EXCEPT ![i].pcb = None, ![i].eof = TRUE]
    /\ client' = [client EXCEPT ![c] = Away]
    /\ UNCHANGED <<listening, streams, pc, serverVars, mainVars>>

\* The deadline of a connection passes, which nothing asks once it has ended.
Expire(i) ==
  /\ conns[i].state # "FREE" /\ ~conns[i].due /\ ~conns[i].eof
  /\ conns' = [conns EXCEPT ![i].due = TRUE]
  /\ UNCHANGED <<client, listening, streams, pc, serverVars, mainVars>>

-----------------------------------------------------------------------------
(***************************************************************************)
(* Operations of tcp.c and streams.c that the interpreter's steps make.    *)
(***************************************************************************)
conn_release(cs, i) == [cs EXCEPT ![i] = Free]
HungUp(cl, gone) == [c \in Clients |-> IF c \in gone THEN Away ELSE cl[c]]
Peers(is) == {conns[i].pcb : i \in is}

\* The entries stream_open may take; tcp_stream_open finds an accepted connection.
full == \A k \in 1..Entries : streams[k] # None
FirstEntry == Min({k \in 1..Entries : streams[k] = None})
CanOpen(h) == ~full /\ (h \in Slots => conns[h].state = "ACCEPTED")

stream_open(h, f) ==
  /\ CanOpen(h)
  /\ streams' = [streams EXCEPT ![FirstEntry] = h]
  /\ fd' = [fd EXCEPT ![f] = FirstEntry]
  /\ conns' = IF h \in Slots THEN [conns EXCEPT ![h].refs = @ + 1] ELSE conns
  /\ UNCHANGED client

\* Mutant of tcp_stream_close: the first stream that closes releases it.
tcp_stream_close_any(i) ==
  conns' = conn_release(conns, i) /\ client' = HungUp(client, Peers({i}))

\* tcp_stream_close releases the connection with its last stream.
tcp_stream_close(i) ==
  IF conns[i].refs - 1 > 0
  THEN conns' = [conns EXCEPT ![i].refs = @ - 1] /\ UNCHANGED client
  ELSE conns' = conn_release(conns, i) /\ client' = HungUp(client, Peers({i}))

stream_close(k) ==
  /\ streams' = [streams EXCEPT ![k] = None]
  /\ IF streams[k] \in Slots THEN tcp_stream_close(streams[k]) ELSE UNCHANGED netVars

\* Mutant of Wrote: sent is not set.
WroteUnsent(i, what) ==
  /\ conns[i].pcb # None
  /\ client' = [client EXCEPT ![conns[i].pcb].got = Append(@, what)]
  /\ UNCHANGED conns

\* tcp_stream_write: lwIP takes it, or the peer is gone or has left no room for too long.
Wrote(i, what) ==
  /\ conns[i].pcb # None
  /\ conns' = [conns EXCEPT ![i].sent = TRUE]
  /\ client' = [client EXCEPT ![conns[i].pcb].got = Append(@, what)]
GaveUp == UNCHANGED netVars

\* What tcp_stream_read would return: the lines that have come, the end, or nothing yet.
HasData(i) == conns[i].rx # <<>>
\* Mutant of AtEnd: no deadline.
AtEndOnly(i) == ~HasData(i) /\ conns[i].eof

AtEnd(i) == ~HasData(i) /\ (conns[i].eof \/ conns[i].due)

-----------------------------------------------------------------------------
(***************************************************************************)
(* serve/1 and what it calls.                                              *)
(***************************************************************************)
Goto(where) == pc' = where
Keep == UNCHANGED <<listening, mainVars>>

\* Mutant of Unbound: a new reader starts with what the last one left.
UnboundBuffer == cur' = 0 /\ fd' = [f \in Fds |-> 0] /\ line' = None /\ UNCHANGED inbuf

\* The bindings of serve/1 are undone when it fails, or its query ends.
Unbound == cur' = 0 /\ fd' = [f \in Fds |-> 0] /\ inbuf' = <<>> /\ line' = None

\* tcp_listen, which may find no listener and raise.
Listen ==
  /\ pc = "listen"
  /\ \/ listening' = TRUE /\ Goto("announce")
     \/ ~listening /\ UNCHANGED listening /\ Goto("prompt")
  /\ UNCHANGED <<netVars, streams, serverVars, mainVars>>

\* send/3: without a stream it fails, and serve/1 with it.
Announce ==
  /\ pc = "announce"
  /\ \/ stream_open(Mail, "aux") /\ Goto("announced")
     \/ ~CanOpen(Mail) /\ Goto("prompt") /\ UNCHANGED <<netVars, streams, fd>>
  /\ Keep /\ UNCHANGED <<cur, inbuf, line>>

Announced ==
  /\ pc = "announced" /\ stream_close(fd["aux"]) /\ Goto("accept")
  /\ Unbound /\ Keep

\* tcp_accept_next: the lowest slot that waits, not the one that waits longest.
tcp_accept_next ==
  LET pending == {i \in Slots : conns[i].state = "PENDING"} IN
  /\ pc = "accept" /\ pending # {}
  /\ cur' = Min(pending)
  /\ conns' = [conns EXCEPT ![Min(pending)].state = "ACCEPTED"]
  /\ took' = (took \/ run = "serve")
  /\ Goto("open in")
  /\ UNCHANGED <<client, listening, streams, fd, inbuf, line, bound, run, idle, crashes, raised, prompts, quiet>>

\* An open that fails takes serve/1 back to its repeat: nothing is closed.
OpenStream(at, f, next) ==
  /\ pc = at
  /\ \/ stream_open(cur, f) /\ Goto(next) /\ UNCHANGED <<cur, inbuf, line>>
     \/ ~CanOpen(cur) /\ Goto("accept") /\ Unbound /\ UNCHANGED <<netVars, streams>>
  /\ Keep

OpenIn == OpenStream("open in", "in", "open out")
OpenOut == OpenStream("open out", "out", "read line")

\* tcp_stream_read, for an empty buffer of In.
Reading == pc \in {"read line", "skip headers"}
tcp_stream_read ==
  /\ Reading /\ inbuf = <<>> /\ HasData(cur)
  /\ \E n \in 1..Len(conns[cur].rx) :
       /\ inbuf' = SubSeq(conns[cur].rx, 1, n)
       /\ conns' = [conns EXCEPT ![cur].rx = SubSeq(@, n + 1, Len(@))]
  /\ Keep /\ UNCHANGED <<client, streams, pc, cur, fd, line>>

\* A line of In: handle/3 reads the first, skip_headers/1 the others, however many
\* they are: the deadline is looked at only when no bytes have come (AtEnd).
ReadLine ==
  /\ Reading /\ inbuf # <<>>
  /\ inbuf' = Tail(inbuf)
  /\ IF pc = "read line" THEN line' = Head(inbuf) /\ Goto("skip headers")
     ELSE UNCHANGED line /\ \E next \in {"skip headers", "head"} : Goto(next)
  /\ Keep /\ UNCHANGED <<netVars, streams, cur, fd>>

\* Mutant of ReadEnd: skip_headers/1 knows only the line that ends them.
ReadEndFirst ==
  /\ pc = "read line" /\ inbuf = <<>> /\ AtEnd(cur)
  /\ conns' = [conns EXCEPT ![cur].eof = TRUE]
  /\ Goto("close in")
  /\ Keep /\ UNCHANGED <<client, streams, serverVars>>

\* end_of_file: no request, or all the headers there are.
ReadEnd ==
  /\ Reading /\ inbuf = <<>> /\ AtEnd(cur)
  /\ conns' = [conns EXCEPT ![cur].eof = TRUE]
  /\ Goto(IF pc = "read line" THEN "close in" ELSE "head")
  /\ Keep /\ UNCHANGED <<client, streams, serverVars>>

\* write/2 on Out drops what could not be sent.
ReplyHead ==
  /\ pc = "head" /\ Goto("body")
  /\ Wrote(cur, <<"head", line>>) \/ GaveUp
  /\ Keep /\ UNCHANGED <<streams, serverVars>>

\* The goal of the page writes and succeeds, fails (as tcp_send does) or raises.
ReplyBody ==
  /\ pc = "body"
  /\ Wrote(cur, <<"body", line>>) \/ GaveUp
  /\ \E next \in {"log", "close in", "failed"} : Goto(next)
  /\ Keep /\ UNCHANGED <<streams, serverVars>>

\* log/1 and request_failed/1: without a stream they fail, and serve/1 goes on.
OpenNote(at, what, next) ==
  /\ pc = at
  /\ \/ stream_open(what, "aux") /\ Goto(next)
     \/ ~CanOpen(what) /\ Goto("close in") /\ UNCHANGED <<netVars, streams, fd>>
  /\ Keep /\ UNCHANGED <<cur, inbuf, line>>

log == OpenNote("log", Log, "logged")
\* Mutant of request_failed: the note is not closed.
request_failed_open == OpenNote("failed", Mail, "close in")

request_failed == OpenNote("failed", Mail, "told")

CloseStream(at, f, next) ==
  /\ pc \in at /\ stream_close(fd[f]) /\ Goto(next)
  /\ fd' = [fd EXCEPT ![f] = 0]
  /\ Keep /\ UNCHANGED <<cur, inbuf, line>>

CloseNote == CloseStream({"logged", "told"}, "aux", "close in")
CloseIn == CloseStream({"close in"}, "in", "close out")
CloseOut ==
  /\ pc = "close out" /\ stream_close(fd["out"]) /\ Goto("accept")
  /\ Unbound /\ Keep

-----------------------------------------------------------------------------
(***************************************************************************)
(* main: crashes, and the prompt.                                          *)
(***************************************************************************)
Working == pc \notin {"prompt", "fail all", "close all", "drop all"}

\* Mutant of Crash: main counts the crashes of runs that took requests.
CrashCounted ==
  /\ Working /\ crashes < bound.crashes
  /\ crashes' = crashes + 1
  /\ IF run = "prompt" THEN Goto("prompt") /\ UNCHANGED <<idle, quiet>>
     ELSE Goto("fail all") /\ UNCHANGED idle /\ quiet' = Append(quiet, ~took)
  /\ Unbound
  /\ UNCHANGED <<netVars, listening, streams, bound, run, took, raised, prompts>>

\* The query ends in a crash: main tidies up; the prompt only says so.
Crash ==
  /\ Working /\ crashes < bound.crashes
  /\ crashes' = crashes + 1
  /\ IF run = "prompt" THEN Goto("prompt") /\ UNCHANGED <<idle, quiet>>
     ELSE /\ Goto("fail all")
          /\ idle' = IF took THEN 0 ELSE idle
          /\ quiet' = Append(quiet, ~took)
  /\ Unbound
  /\ UNCHANGED <<netVars, listening, streams, bound, run, took, raised, prompts>>

\* The Prolog heap is exhausted after a collection, and the next goal throws: out of
\* handle/3 the error goes to request_failed/1, and a note that log/1 has open stays
\* open; nothing catches it elsewhere in serve/1 (at "read line" catch/3 may be yet to
\* come), and an error that is not caught is no crash.
Handling == pc \in {"read line", "skip headers", "head", "body", "log", "logged"}
HeapExhausted ==
  /\ Working /\ raised < bound.raises
  /\ raised' = raised + 1
  /\ \/ Handling /\ Goto("failed") /\ UNCHANGED serverVars
     \/ (Handling => pc = "read line") /\ Goto("prompt") /\ Unbound
  /\ UNCHANGED <<netVars, listening, streams, bound, run, idle, took, crashes, prompts, quiet>>

\* Ctrl-C in tcp_accept raises an error: the query ends, and that is no crash.
Interrupt ==
  /\ pc = "accept" /\ Goto("prompt")
  /\ UNCHANGED <<netVars, listening, streams, serverVars, mainVars>>

tcp_fail_all ==
  /\ pc = "fail all"
  /\ IF conns[cur].state = "ACCEPTED"
     THEN Wrote(cur, <<IF conns[cur].sent THEN "crashed" ELSE "500", None>>) \/ GaveUp
     ELSE UNCHANGED netVars
  /\ IF cur = Conns - 1 THEN cur' = 0 /\ Goto("close all") ELSE cur' = cur + 1 /\ UNCHANGED pc
  /\ Keep /\ UNCHANGED <<streams, fd, inbuf, line>>

\* One entry after the other, each under lwip_begin of its own.
trilog_close_streams ==
  LET open == {k \in 1..Entries : streams[k] # None} IN
  /\ pc = "close all"
  /\ IF open = {} THEN Goto("drop all") /\ UNCHANGED <<netVars, streams>>
     ELSE UNCHANGED pc /\ stream_close(Min(open))
  /\ Keep /\ UNCHANGED serverVars

\* Mutant of tcp_drop_all: the connections that wait are dropped too.
tcp_drop_all_busy ==
  /\ conns' = [i \in Slots |-> Free]
  /\ client' = HungUp(client, Peers(Busy))

tcp_drop_all ==
  LET dropped == {i \in Slots : conns[i].state = "ACCEPTED"} IN
  /\ conns' = [i \in Slots |-> IF i \in dropped THEN Free ELSE conns[i]]
  /\ client' = HungUp(client, Peers(dropped))

\* main drops what is left, and serves again or gives up.
Restart ==
  /\ pc = "drop all" /\ tcp_drop_all
  /\ idle' = idle + 1
  /\ IF idle' = 3 THEN Goto("prompt") /\ UNCHANGED <<run, took>>
     ELSE Goto("listen") /\ run' = "serve" /\ took' = FALSE
  /\ UNCHANGED <<listening, streams, serverVars, bound, crashes, raised, prompts, quiet>>

\* At the prompt: the user runs serve(80), or opens the log and leaves it open.
Asked == pc = "prompt" /\ prompts < bound.prompts /\ prompts' = prompts + 1

PromptServe ==
  /\ Asked /\ run' = "prompt" /\ Goto("listen")
  /\ UNCHANGED <<netVars, listening, streams, serverVars, bound, idle, took, crashes, raised, quiet>>

PromptOpen ==
  /\ Asked /\ CanOpen(Log) /\ streams' = [streams EXCEPT ![FirstEntry] = Log]
  /\ UNCHANGED <<netVars, listening, pc, serverVars, bound, run, idle, took, crashes, raised, quiet>>

Interpreter ==
  \/ Listen \/ Announce \/ Announced \/ tcp_accept_next \/ OpenIn \/ OpenOut
  \/ tcp_stream_read \/ ReadLine \/ ReadEnd \/ ReplyHead \/ ReplyBody
  \/ log \/ request_failed \/ CloseNote \/ CloseIn \/ CloseOut
Main == tcp_fail_all \/ trilog_close_streams \/ Restart
Network == \E c \in Clients : Connect(c) \/ Send(c) \/ Finish(c) \/ Reset(c)
Time == \E i \in Slots : Expire(i)

Next ==
  \/ Interpreter \/ Main \/ Crash \/ HeapExhausted \/ Interrupt
  \/ PromptServe \/ PromptOpen \/ Network \/ Time

\* The interpreter and main run on; time passes; peers and users do as they like.
Fairness == WF_vars(Interpreter \/ Main) /\ WF_vars(Time)
Spec == Init /\ [][Next]_vars /\ Fairness

-----------------------------------------------------------------------------
\* Every handle in the stream table is of a connection that is accepted and not
\* yet released, and refs counts them: a slot that is given to a new peer while
\* main still tidies up is not closed under it (tcp_stream_close, tcp_drop_all).
StreamsOwnConns ==
  \A i \in Slots :
    /\ conns[i].refs = Cardinality({k \in 1..Entries : streams[k] = i})
    /\ conns[i].refs > 0 => conns[i].state = "ACCEPTED"

\* What a peer receives was written for the request it sent itself, over any
\* reuse of its slot, and what is read for a request came from that peer.
OwnReply ==
  /\ \A c \in Clients : \A n \in 1..Len(client[c].got) : client[c].got[n][2] \in {c, None}
  /\ line # None => \A n \in 1..Len(inbuf) : inbuf[n] = line

\* A peer that has received anything of a page gets no second status line after
\* it when the request crashes (sent, tcp_fail_all).
OneStatus ==
  \A c \in Clients : \A n \in 1..Len(client[c].got) : client[c].got[n][1] = "500" => n = 1

\* Until the prompt is back, serve/1 waits for the next request with no connection
\* accepted and no stream of one open: neither a failed page, a reset nor a crash
\* leaves any behind.  A heap that is exhausted in log/1 leaves its note open (nothing
\* closes it before the next crash), one for each time at most: while two entries
\* are left beside those, every request can be served.
WaitsWithNothing ==
  pc = "accept" /\ run # "prompt"
    => /\ \A k \in 1..Entries : streams[k] \in {None, Log}
       /\ Cardinality({k \in 1..Entries : streams[k] = Log}) <= raised
       /\ \A i \in Slots : conns[i].state # "ACCEPTED"

\* By its count of crashes main gives up only when no request was taken since the
\* crash before the last two ("without taking a request").  An error that nothing
\* catches also ends at the prompt, at once and without a count (crashed).
StopsOnlyIdle ==
  idle = 3 => Len(quiet) >= 3 /\ quiet[Len(quiet)] /\ quiet[Len(quiet) - 1]

\* A connection that waits in the queue is not lost to a crash: it stays until
\* the interpreter accepts it.
WaitingKept ==
  [][\A i \in Slots : conns[i].state = "PENDING" => conns'[i].state \in {"PENDING", "ACCEPTED"}]_vars

\* A peer whose header lines never end, and never let a read find none after the
\* deadline (skip_headers, tcp_stream_read): its request is read for ever.
EndlessRequest == <>[](pc = "skip headers") /\ []<>(inbuf # <<>>)

\* Every connection that is accepted while main watches is released: its deadline
\* ends the wait for a request, and a crash is tidied up after.  The exceptions are
\* a request without end and what brings the prompt back with the connection open,
\* an error that nothing catches.
AcceptedReleased ==
  \A i \in Slots :
    \/ EndlessRequest /\ <>[](cur = i)
    \/ conns[i].state = "ACCEPTED" /\ run # "prompt"
         ~> (conns[i].state # "ACCEPTED" \/ pc = "prompt")

\* A connection that waits is accepted, unless the prompt is back, the slots below
\* it are never empty for long (tcp_accept_next takes the lowest), or the request
\* that is being read never ends.
WaitingServed ==
  \A i \in Slots :
    \/ []<>(\E j \in 0..i - 1 : conns[j].state = "PENDING")
    \/ EndlessRequest
    \/ conns[i].state = "PENDING" ~> (conns[i].state = "ACCEPTED" \/ pc = "prompt")
=============================================================================
