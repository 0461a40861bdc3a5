----------------------------- MODULE BoardProofs -----------------------------
(***************************************************************************)
(* Theorems about module Board, for any number of peers, connections and   *)
(* stream table entries, and for histories without a bound.                *)
(***************************************************************************)
EXTENDS Board, Facts

USE SizeAssumption, HandlesAssumption

(***************************************************************************)
(* The inductive invariant, in parts.                                      *)
(***************************************************************************)
Tidying == {"fail all", "close all", "drop all"}
InOpen == {"open out", "read line", "skip headers", "head", "body", "log", "logged",
           "failed", "told", "close in"}
OutOpen == (InOpen \ {"open out"}) \cup {"close out"}
NoteOpen == {"announced", "logged", "told"}
Serving == InOpen \cup {"open in", "close out"}

\* What serve/1 has open at each point are entries of their own: In and Out of the
\* connection it serves, and a note.
OwnEntries ==
  /\ pc \in InOpen => fd["in"] \in 1..Entries /\ streams[fd["in"]] = cur
  /\ pc \in OutOpen => fd["out"] \in 1..Entries /\ streams[fd["out"]] = cur
  /\ pc \in InOpen \cap OutOpen => fd["in"] # fd["out"]
  /\ pc \in NoteOpen => fd["aux"] \in 1..Entries /\ streams[fd["aux"]] \in {Mail, Log}
  /\ pc = "logged" => streams[fd["aux"]] = Log
  /\ pc = "open in" => conns[cur].state = "ACCEPTED" /\ conns[cur].refs = 0
  /\ pc = "open out" => conns[cur].refs = 1
  /\ pc = "drop all" => \A k \in 1..Entries : streams[k] = None

TableInv == TypeOK /\ StreamsOwnConns /\ OwnEntries

\* While main watches, no other entry is open but those of log/1 that an exhausted
\* heap left, and no other connection is accepted.
HeldEntry(k) ==
  \/ pc \in InOpen /\ k = fd["in"]
  \/ pc \in OutOpen /\ k = fd["out"]
  \/ pc \in NoteOpen /\ k = fd["aux"]

Watching == run # "prompt" /\ pc \notin {"fail all", "close all", "prompt"}
EntriesHeld ==
  Watching => \A k \in 1..Entries : streams[k] # None => HeldEntry(k) \/ streams[k] = Log
OnlyServed ==
  run # "prompt" /\ pc \notin Tidying \cup {"prompt"} =>
    \A i \in Slots : conns[i].state = "ACCEPTED" => i = cur /\ pc \in Serving
Watched == pc \in Tidying => run # "prompt"

NothingElse == EntriesHeld /\ OnlyServed /\ Watched

\* Each of those entries was left by an exhausted heap of its own.
Lost == {k \in 1..Entries : streams[k] = Log /\ ~(pc \in NoteOpen /\ k = fd["aux"])}
LostFew == Watching => Cardinality(Lost) <= raised

\* Two entries are more than those (MAX_OPEN_STREAMS is 16).
Roomy == \A h \in Histories : Entries >= h.raises + 2

\* All that has come through a connection, and is left of it in In's buffer, is
\* from one peer.
Senders(s) == {s[n] : n \in 1..Len(s)}
FromOne(i, x) ==
  /\ conns[i].pcb \in {x, None}
  /\ Senders(conns[i].rx) \subseteq {x}
  /\ i = cur /\ pc \in Serving => line \in {x, None} /\ Senders(inbuf) \subseteq {x}

OneOwner ==
  /\ \A i \in Slots : \E x \in Clients \cup {None} : FromOne(i, x)
  /\ pc \notin Serving => line = None /\ inbuf = <<>>

\* A peer has one connection, which is new to it while nothing was sent on it.
OneConn ==
  /\ \A i \in Slots : conns[i].pcb # None =>
       /\ client[conns[i].pcb].up
       /\ ~conns[i].sent => client[conns[i].pcb].got = <<>>
  /\ \A i, j \in Slots : conns[i].pcb = conns[j].pcb /\ conns[i].pcb # None => i = j

\* What a peer has got is for it, and starts with its only status line of a crash.
GotOwn ==
  \A c \in Clients : \A n \in 1..Len(client[c].got) :
    /\ client[c].got[n][2] \in {c, None}
    /\ client[c].got[n][1] = "500" => n = 1

PeersInv == OneOwner /\ OneConn /\ GotOwn

\* idle counts the crashes since the last request was taken, that one included.
IdleInv ==
  /\ pc \in Tidying =>
       /\ idle <= 2 /\ idle + 1 <= Len(quiet)
       /\ \A j \in 1..idle : quiet[Len(quiet) + 1 - j]
  /\ pc \notin Tidying =>
       /\ idle <= Len(quiet)
       /\ \A j \in 1..idle - 1 : quiet[Len(quiet) + 1 - j]
       /\ pc # "prompt" /\ run # "prompt" => idle <= 2

(***************************************************************************)
(* The stream table: how many entries are of a connection.                 *)
(***************************************************************************)
Holders(table, i) == {k \in 1..Entries : table[k] = i}
Handles == Slots \cup {Mail, Log, None}

LEMMA HoldersFinite ==
  ASSUME NEW table, NEW i
  PROVE  IsFiniteSet(Holders(table, i)) /\ Cardinality(Holders(table, i)) \in Nat
<1>1. IsFiniteSet(1..Entries)
  BY FS_Interval
<1>2. Holders(table, i) \in SUBSET (1..Entries)
  BY DEF Holders
<1>. QED
  BY <1>1, <1>2, FS_Subset, FS_CardinalityType

\* An entry that is taken or given up counts for the connection it is of.
LEMMA HoldersAdd ==
  ASSUME NEW table, NEW next, NEW k \in 1..Entries, NEW h \in Handles \ {None}, NEW i \in Slots,
         table[k] = None, next[k] = h, \A j \in 1..Entries : j # k => next[j] = table[j]
  PROVE  Cardinality(Holders(next, i)) = Cardinality(Holders(table, i)) + (IF h = i THEN 1 ELSE 0)
<1>1. Holders(next, i) = IF h = i THEN Holders(table, i) \cup {k} ELSE Holders(table, i)
  BY DEF Holders
<1>2. k \notin Holders(table, i)
  BY DEF Holders
<1>3. IsFiniteSet(Holders(table, i)) /\ Cardinality(Holders(table, i)) \in Nat
  BY HoldersFinite
<1>4. Cardinality(Holders(table, i) \cup {k}) = Cardinality(Holders(table, i)) + 1
  BY <1>2, <1>3, FS_AddElement
<1>. QED
  BY <1>1, <1>3, <1>4

LEMMA HoldersRemove ==
  ASSUME NEW table, NEW next, NEW k \in 1..Entries, NEW i \in Slots,
         next[k] = None, \A j \in 1..Entries : j # k => next[j] = table[j]
  PROVE  Cardinality(Holders(next, i)) = Cardinality(Holders(table, i)) - (IF table[k] = i THEN 1 ELSE 0)
<1>1. Holders(next, i) = IF table[k] = i THEN Holders(table, i) \ {k} ELSE Holders(table, i)
  BY DEF Holders
<1>2. k \in Holders(table, i) <=> table[k] = i
  BY DEF Holders
<1>3. IsFiniteSet(Holders(table, i)) /\ Cardinality(Holders(table, i)) \in Nat
  BY HoldersFinite
<1>4. Cardinality(Holders(table, i) \ {k}) = IF k \in Holders(table, i) THEN Cardinality(Holders(table, i)) - 1
                                            ELSE Cardinality(Holders(table, i))
  BY <1>3, FS_RemoveElement
<1>. QED
  BY <1>1, <1>2, <1>3, <1>4

LEMMA HoldersSome ==
  ASSUME NEW table, NEW i
  PROVE  Cardinality(Holders(table, i)) = 0 <=> \A k \in 1..Entries : table[k] # i
<1>1. Holders(table, i) = {} <=> \A k \in 1..Entries : table[k] # i
  BY DEF Holders
<1>. QED
  BY <1>1, HoldersFinite, FS_EmptySet

LEMMA CountsAre ==
  StreamsOwnConns <=>
    \A i \in Slots : /\ conns[i].refs = Cardinality(Holders(streams, i))
                     /\ conns[i].refs > 0 => conns[i].state = "ACCEPTED"
BY DEF StreamsOwnConns, Holders

(***************************************************************************)
(* The operations that several actions share.                              *)
(***************************************************************************)
Conn == [state : {"FREE", "PENDING", "ACCEPTED"}, pcb : Clients \cup {None},
         rx : Seq(Clients), eof : BOOLEAN, refs : 0..2, sent : BOOLEAN, due : BOOLEAN]
Notes == {"head", "body", "500", "crashed"} \X (Clients \cup {None})
Peer == [up : BOOLEAN, ended : BOOLEAN, got : Seq(Notes)]

\* What a step of the interpreter has of the first part of TypeOK.
NetOK == conns \in [Slots -> Conn] /\ client \in [Clients -> Peer]
TableOK == streams \in [1..Entries -> Handles]

LEMMA Types ==
  TypeOK => NetOK /\ TableOK /\ fd \in [Fds -> 0..Entries]
BY DEF TypeOK, NetOK, TableOK, Conn, Peer, Notes, Handles

LEMMA FreeType == Free \in Conn
BY EmptySeq DEF Free, Conn

LEMMA AwayType == Away \in Peer
BY EmptySeq DEF Away, Peer

\* The first entry that is not in use is one.
LEMMA FirstEntryFree ==
  ASSUME TableOK, ~full
  PROVE  FirstEntry \in 1..Entries /\ streams[FirstEntry] = None
<1>1. {k \in 1..Entries : streams[k] = None} # {}
  BY DEF full
<1>. QED
  BY <1>1, MinOfNats DEF FirstEntry

\* Two states of a connection that differ in its references only.
SameBut(c, d) ==
  /\ c.state = d.state /\ c.pcb = d.pcb /\ c.rx = d.rx
  /\ c.eof = d.eof /\ c.sent = d.sent /\ c.due = d.due

\* stream_open adds an entry, and a reference of the connection it is for.
LEMMA Opens ==
  ASSUME NetOK, TableOK, StreamsOwnConns, fd \in [Fds -> 0..Entries],
         NEW h \in Slots \cup {Mail, Log}, NEW f \in Fds, stream_open(h, f),
         h \in Slots => conns[h].refs <= 1
  PROVE  /\ NetOK' /\ TableOK' /\ StreamsOwnConns' /\ fd' \in [Fds -> 0..Entries]
         /\ fd'[f] \in 1..Entries /\ streams'[fd'[f]] = h
         /\ streams[fd'[f]] = None
         /\ \A k \in 1..Entries : k # fd'[f] => streams'[k] = streams[k]
         /\ \A e \in Fds \ {f} : fd'[e] = fd[e]
         /\ \A i \in Slots : SameBut(conns'[i], conns[i])
         /\ \A i \in Slots : conns'[i].refs = conns[i].refs + (IF i = h THEN 1 ELSE 0)
         /\ client' = client
<1>1. PICK k \in 1..Entries :
        /\ streams[k] = None /\ streams' = [streams EXCEPT ![k] = h]
        /\ fd' = [fd EXCEPT ![f] = k]
  BY FirstEntryFree DEF stream_open, CanOpen
<1>2. /\ conns' = IF h \in Slots THEN [conns EXCEPT ![h].refs = @ + 1] ELSE conns
      /\ client' = client /\ h # None
      /\ h \in Slots => conns[h].state = "ACCEPTED"
  BY DEF stream_open, CanOpen
<1>3. TableOK'
  BY <1>1 DEF TableOK, Handles
<1>4. \A i \in Slots : conns[i] \in Conn
  BY DEF NetOK
<1>5. \A i \in Slots : conns'[i] = IF i = h THEN [conns[i] EXCEPT !.refs = @ + 1] ELSE conns[i]
  BY <1>2 DEF NetOK
<1>6. \A i \in Slots : /\ SameBut(conns'[i], conns[i])
                       /\ conns'[i].refs = conns[i].refs + (IF i = h THEN 1 ELSE 0)
  <2> TAKE i \in Slots
  <2>1. conns[i] \in Conn /\ conns'[i] = IF i = h THEN [conns[i] EXCEPT !.refs = @ + 1] ELSE conns[i]
    BY <1>4, <1>5
  <2>. QED
    BY ONLY <2>1 DEF Conn, SameBut
<1>7. NetOK'
  <2>1. \A i \in Slots : i = h => conns[i].refs + 1 \in 0..2
    BY <1>4 DEF Conn
  <2>2. \A i \in Slots : conns'[i] \in Conn
    <3> TAKE i \in Slots
    <3>1. /\ conns[i] \in Conn
          /\ i = h => conns[i].refs + 1 \in 0..2
          /\ conns'[i] = IF i = h THEN [conns[i] EXCEPT !.refs = @ + 1] ELSE conns[i]
      BY <1>4, <1>5, <2>1
    <3>. QED
      BY ONLY <3>1 DEF Conn
  <2>3. DOMAIN conns' = Slots /\ conns' = [i \in Slots |-> conns'[i]]
    BY <1>2 DEF NetOK
  <2>. QED
    BY <1>2, <2>2, <2>3 DEF NetOK
<1>8. StreamsOwnConns'
  <2>1. \A i \in Slots : Cardinality(Holders(streams', i))
                           = Cardinality(Holders(streams, i)) + (IF h = i THEN 1 ELSE 0)
    <3> TAKE i \in Slots
    <3>1. streams'[k] = h /\ \A j \in 1..Entries : j # k => streams'[j] = streams[j]
      BY <1>1 DEF TableOK
    <3>2. h \in Handles \ {None} /\ k \in 1..Entries /\ streams[k] = None
      BY <1>1, <1>2 DEF Handles
    <3>. QED
      BY ONLY <3>1, <3>2, i \in Slots, HoldersAdd
  <2>2. \A i \in Slots : conns'[i].refs = Cardinality(Holders(streams', i))
    BY <2>1, <1>1, <1>6, CountsAre
  <2>3. \A i \in Slots : conns'[i].refs > 0 => conns'[i].state = "ACCEPTED"
    BY <1>2, <1>4, <1>6, CountsAre DEF Conn, SameBut
  <2>. QED
    BY <2>2, <2>3 DEF StreamsOwnConns, Holders
<1>9. /\ fd' \in [Fds -> 0..Entries] /\ fd'[f] = k
      /\ \A e \in Fds \ {f} : fd'[e] = fd[e]
  BY <1>1
<1>10. streams'[k] = h /\ \A j \in 1..Entries : j # k => streams'[j] = streams[j]
  BY <1>1 DEF TableOK
<1>. QED
  BY <1>1, <1>2, <1>3, <1>6, <1>7, <1>8, <1>9, <1>10

\* stream_close clears an entry; with the last one of a connection, tcp_stream_close
\* releases the connection, and its peer finds it closed.
Released(i) == conns'[i] = Free /\ client' = HungUp(client, Peers({i}))

LEMMA Closes ==
  ASSUME NetOK, TableOK, StreamsOwnConns,
         NEW k \in 1..Entries, streams[k] # None, stream_close(k)
  PROVE  /\ NetOK' /\ TableOK' /\ StreamsOwnConns'
         /\ streams'[k] = None
         /\ \A j \in 1..Entries : j # k => streams'[j] = streams[j]
         /\ \A i \in Slots : i # streams[k] => conns'[i] = conns[i]
         /\ \A i \in Slots : i = streams[k] =>
              \/ Released(i) /\ conns[i].refs = 1
              \/ /\ SameBut(conns'[i], conns[i]) /\ conns'[i].refs = conns[i].refs - 1
                 /\ conns'[i].refs > 0 /\ client' = client
         /\ streams[k] \notin Slots => client' = client
<1>1. /\ streams' = [streams EXCEPT ![k] = None]
      /\ streams'[k] = None
      /\ \A j \in 1..Entries : j # k => streams'[j] = streams[j]
  BY DEF stream_close, TableOK
<1>2. TableOK'
  BY <1>1 DEF TableOK, Handles
<1>3. \A i \in Slots : conns[i] \in Conn /\ conns[i].refs \in 0..2
  BY DEF NetOK, Conn
<1>4. \A i \in Slots : /\ conns[i].refs = Cardinality(Holders(streams, i))
                       /\ conns[i].refs > 0 => conns[i].state = "ACCEPTED"
  BY CountsAre
<1>5. \A i \in Slots : i = streams[k] => conns[i].refs > 0
  BY <1>3, <1>4, HoldersSome
<1>6. \A i \in Slots : Cardinality(Holders(streams', i))
                         = Cardinality(Holders(streams, i)) - (IF streams[k] = i THEN 1 ELSE 0)
  <2> TAKE i \in Slots
  <2>1. streams'[k] = None /\ \A j \in 1..Entries : j # k => streams'[j] = streams[j]
    BY <1>1
  <2>. QED
    BY ONLY <2>1, i \in Slots, k \in 1..Entries, HoldersRemove
<1>7. CASE streams[k] \notin Slots
  <2>1. conns' = conns /\ client' = client
    BY <1>7 DEF stream_close, netVars
  <2>2. NetOK'
    BY <2>1 DEF NetOK
  <2>3. StreamsOwnConns'
    <3>1. \A i \in Slots : conns'[i].refs = Cardinality(Holders(streams', i))
      BY <1>3, <1>4, <1>6, <1>7, <2>1
    <3>. QED
      BY <3>1, <2>1, <1>4 DEF StreamsOwnConns, Holders
  <2>. QED
    BY <1>1, <1>2, <1>7, <2>1, <2>2, <2>3
<1>8. ASSUME NEW h \in Slots, streams[k] = h
      PROVE  /\ NetOK' /\ StreamsOwnConns'
             /\ \A i \in Slots : i # h => conns'[i] = conns[i]
             /\ \/ Released(h) /\ conns[h].refs = 1
                \/ /\ SameBut(conns'[h], conns[h]) /\ conns'[h].refs = conns[h].refs - 1
                   /\ conns'[h].refs > 0 /\ client' = client
  <2>1. tcp_stream_close(h)
    BY <1>8 DEF stream_close
  <2>2. CASE conns[h].refs - 1 > 0
    <3>1. conns' = [conns EXCEPT ![h].refs = @ - 1] /\ client' = client
      BY <2>1, <2>2 DEF tcp_stream_close
    <3>2. /\ \A i \in Slots : i # h => conns'[i] = conns[i]
          /\ conns'[h] = [conns[h] EXCEPT !.refs = @ - 1] /\ conns[h] \in Conn /\ conns[h].refs - 1 \in 0..2
      BY <3>1, <1>3, <2>2 DEF NetOK
    <3>3. /\ conns'[h] \in Conn /\ SameBut(conns'[h], conns[h])
          /\ conns'[h].refs = conns[h].refs - 1 /\ conns[h].refs \in 0..2
      BY ONLY <3>2 DEF Conn, SameBut
    <3>4. NetOK'
      BY <3>1, <3>2, <3>3, <1>3 DEF NetOK
    <3>5. \A i \in Slots : conns'[i].refs = Cardinality(Holders(streams', i))
      <4> TAKE i \in Slots
      <4>1. Cardinality(Holders(streams', i)) = conns[i].refs - (IF h = i THEN 1 ELSE 0)
        BY <1>4, <1>6, <1>8
      <4>2. conns'[i].refs = IF i = h THEN conns[i].refs - 1 ELSE conns[i].refs
        BY <3>2, <3>3
      <4>3. conns[i].refs \in 0..2
        BY <1>3
      <4>. QED
        BY ONLY <4>1, <4>2, <4>3
    <3>6. \A i \in Slots : conns'[i].refs > 0 => conns'[i].state = "ACCEPTED"
      <4> TAKE i \in Slots
      <4>1. /\ i # h => conns'[i] = conns[i]
            /\ i = h => conns'[i].state = conns[i].state /\ conns[i].refs > 0
            /\ conns[i].refs > 0 => conns[i].state = "ACCEPTED"
        BY <3>2, <3>3, <1>3, <1>4, <1>5, <1>8 DEF SameBut
      <4>. QED
        BY ONLY <4>1
    <3>7. conns'[h].refs > 0
      BY <2>2, <3>3
    <3>. QED
      BY <3>1, <3>2, <3>3, <3>4, <3>5, <3>6, <3>7 DEF StreamsOwnConns, Holders
  <2>3. CASE ~(conns[h].refs - 1 > 0)
    <3>1. conns' = [conns EXCEPT ![h] = Free] /\ client' = HungUp(client, Peers({h}))
      BY <2>1, <2>3 DEF tcp_stream_close, conn_release
    <3>2. /\ \A i \in Slots : i # h => conns'[i] = conns[i]
          /\ conns'[h] = Free /\ conns[h].refs = 1
      BY <3>1, <1>3, <1>5, <1>8, <2>3 DEF NetOK
    <3>3. conns' \in [Slots -> Conn]
      BY <3>1, FreeType DEF NetOK
    <3>4. client' \in [Clients -> Peer]
      BY <3>1, AwayType DEF NetOK, HungUp
    <3>5. \A i \in Slots : conns'[i].refs = Cardinality(Holders(streams', i))
      BY <3>2, <1>3, <1>4, <1>6, <1>8 DEF Free
    <3>6. \A i \in Slots : conns'[i].refs > 0 => conns'[i].state = "ACCEPTED"
      BY <3>2, <1>3, <1>4 DEF Free
    <3>. QED
      BY <3>1, <3>2, <3>3, <3>4, <3>5, <3>6 DEF StreamsOwnConns, Holders, NetOK, Released
  <2>. QED
    BY <2>2, <2>3
<1>9. ASSUME streams[k] \in Slots
      PROVE  /\ NetOK' /\ StreamsOwnConns'
             /\ \A i \in Slots : i # streams[k] => conns'[i] = conns[i]
             /\ \A i \in Slots : i = streams[k] =>
                  \/ Released(i) /\ conns[i].refs = 1
                  \/ /\ SameBut(conns'[i], conns[i]) /\ conns'[i].refs = conns[i].refs - 1
                     /\ conns'[i].refs > 0 /\ client' = client
  <2> DEFINE h == streams[k]
  <2>1. /\ NetOK' /\ StreamsOwnConns'
        /\ \A i \in Slots : i # h => conns'[i] = conns[i]
        /\ \/ Released(h) /\ conns[h].refs = 1
           \/ /\ SameBut(conns'[h], conns[h]) /\ conns'[h].refs = conns[h].refs - 1
              /\ conns'[h].refs > 0 /\ client' = client
    BY <1>8, <1>9
  <2>. QED
    BY <2>1
<1>. QED
  BY <1>1, <1>2, <1>7, <1>9

(***************************************************************************)
(* Types, and who has which entry open.                                    *)
(***************************************************************************)
ServerOK ==
  /\ cur \in Slots /\ fd \in [Fds -> 0..Entries]
  /\ inbuf \in Seq(Clients) /\ line \in Clients \cup {None}
MainOK ==
  /\ listening \in BOOLEAN
  /\ pc \in Tidying \cup Serving \cup {"announce", "announced", "listen", "accept", "prompt"}
  /\ run \in {"main", "serve", "prompt"} /\ idle \in 0..3 /\ took \in BOOLEAN
  /\ bound \in Histories /\ crashes \in 0..bound.crashes /\ raised \in 0..bound.raises
  /\ prompts \in 0..bound.prompts /\ quiet \in Seq(BOOLEAN)

LEMMA TypesSplit ==
  TypeOK <=> NetOK /\ TableOK /\ ServerOK /\ MainOK
BY DEF TypeOK, NetOK, TableOK, ServerOK, MainOK, Conn, Peer, Notes, Handles,
       Tidying, Serving, InOpen

LEMMA TypesSplitNext ==
  TypeOK' <=> NetOK' /\ TableOK' /\ ServerOK' /\ MainOK'
BY DEF TypeOK, NetOK, TableOK, ServerOK, MainOK, Conn, Peer, Notes, Handles,
       Tidying, Serving, InOpen

\* A step that opens and closes nothing.
LEMMA SameTable ==
  ASSUME StreamsOwnConns, streams' = streams,
         \A i \in Slots : /\ conns'[i].refs = conns[i].refs
                          /\ conns[i].state = "ACCEPTED" => conns'[i].state = "ACCEPTED"
  PROVE  StreamsOwnConns'
BY DEF StreamsOwnConns

\* A step that changes a connection in neither its state nor its references, or
\* leaves it alone.
Touches(i) ==
  /\ conns' \in [Slots -> Conn]
  /\ conns'[i].refs = conns[i].refs /\ conns'[i].state = conns[i].state
  /\ \A j \in Slots : j # i => conns'[j] = conns[j]

\* tcp_stream_write
LEMMA Writes ==
  ASSUME NetOK, NEW i \in Slots, NEW what \in Notes, Wrote(i, what)
  PROVE  /\ NetOK' /\ Touches(i)
         /\ conns[i].pcb \in Clients
         /\ conns'[i].pcb = conns[i].pcb /\ conns'[i].rx = conns[i].rx /\ conns'[i].sent = TRUE
         /\ \A c \in Clients : /\ client'[c].up = client[c].up
                               /\ client'[c].got = IF c = conns[i].pcb THEN Append(client[c].got, what)
                                                   ELSE client[c].got
<1>1. conns[i] \in Conn /\ conns[i].pcb \in Clients
  BY DEF NetOK, Conn, Wrote
<1>2. /\ conns'[i] = [conns[i] EXCEPT !.sent = TRUE]
      /\ \A j \in Slots : j # i => conns'[j] = conns[j]
      /\ conns' = [conns EXCEPT ![i] = [conns[i] EXCEPT !.sent = TRUE]]
  BY DEF Wrote, NetOK
<1>3. /\ conns'[i] \in Conn /\ conns'[i].refs = conns[i].refs /\ conns'[i].state = conns[i].state
      /\ conns'[i].pcb = conns[i].pcb /\ conns'[i].rx = conns[i].rx /\ conns'[i].sent = TRUE
  <2>1. conns[i] \in Conn /\ conns'[i] = [conns[i] EXCEPT !.sent = TRUE]
    BY <1>1, <1>2
  <2>2. conns'[i].refs = conns[i].refs /\ conns'[i].state = conns[i].state
    BY ONLY <2>1 DEF Conn
  <2>3. conns'[i].pcb = conns[i].pcb /\ conns'[i].rx = conns[i].rx /\ conns'[i].sent = TRUE
    BY ONLY <2>1 DEF Conn
  <2>4. conns'[i] \in Conn
    BY ONLY <2>1 DEF Conn
  <2>. QED
    BY <2>2, <2>3, <2>4
<1>4. conns' \in [Slots -> Conn]
  BY <1>2, <1>3 DEF NetOK
<1>5. \A c \in Clients : client[c] \in Peer
  BY DEF NetOK
<1>6. /\ \A c \in Clients : client'[c] = IF c = conns[i].pcb THEN [client[c] EXCEPT !.got = Append(@, what)]
                                          ELSE client[c]
      /\ DOMAIN client' = Clients /\ client' = [c \in Clients |-> client'[c]]
  BY <1>1 DEF Wrote, NetOK
<1>7. \A c \in Clients :
        /\ client'[c] \in Peer
        /\ client'[c].up = client[c].up
        /\ client'[c].got = IF c = conns[i].pcb THEN Append(client[c].got, what) ELSE client[c].got
  <2> TAKE c \in Clients
  <2>1. client[c] \in Peer /\ Append(client[c].got, what) \in Seq(Notes)
    BY <1>5, AppendProperties DEF Peer
  <2>2. client'[c] = IF c = conns[i].pcb THEN [client[c] EXCEPT !.got = Append(@, what)] ELSE client[c]
    BY <1>6
  <2>. QED
    BY ONLY <2>1, <2>2 DEF Peer
<1>8. client' \in [Clients -> Peer]
  BY <1>6, <1>7
<1>. QED
  BY <1>1, <1>2, <1>3, <1>4, <1>7, <1>8 DEF NetOK, Touches

\* What a step of a kind shows of the table: the part of TableInv that is not about
\* main.
TableStep == NetOK' /\ TableOK' /\ StreamsOwnConns' /\ ServerOK' /\ OwnEntries'

LEMMA TableParts ==
  ASSUME TableInv
  PROVE  /\ NetOK /\ TableOK /\ ServerOK /\ StreamsOwnConns /\ OwnEntries
         /\ fd \in [Fds -> 0..Entries] /\ cur \in Slots
         /\ \A f \in Fds : fd[f] \in 0..Entries
         /\ \A i \in Slots : conns[i] \in Conn
BY TypesSplit DEF TableInv, ServerOK, NetOK

\* serve/1 goes on with the entries it has: it opens and closes none.
LEMMA GoesOn ==
  ASSUME TableInv, streams' = streams, fd' = fd, cur' = cur,
         NetOK', inbuf' \in Seq(Clients), line' \in Clients \cup {None},
         \A i \in Slots : /\ conns'[i].refs = conns[i].refs
                          /\ conns[i].state = "ACCEPTED" => conns'[i].state = "ACCEPTED",
         \/ pc' = pc
         \/ {pc, pc'} \subseteq InOpen \cap OutOpen /\ pc' \notin NoteOpen
         \/ pc' \notin Serving \cup NoteOpen \cup {"drop all"}
  PROVE  TableStep
<1>1. StreamsOwnConns'
  BY TableParts, SameTable
<1>2. TableOK' /\ ServerOK'
  BY TableParts DEF TableOK, ServerOK
<1>3. OwnEntries'
  BY TableParts DEF OwnEntries, InOpen, OutOpen, NoteOpen, Serving
<1>. QED
  BY <1>1, <1>2, <1>3 DEF TableStep

LEMMA TableAnnounce ==
  ASSUME TableInv, Announce
  PROVE  TableStep
<1>1. CASE stream_open(Mail, "aux") /\ pc' = "announced"
  <2>1. /\ NetOK' /\ TableOK' /\ StreamsOwnConns' /\ fd' \in [Fds -> 0..Entries]
        /\ fd'["aux"] \in 1..Entries /\ streams'[fd'["aux"]] = Mail
    BY <1>1, TableParts, Opens DEF Fds
  <2>2. ServerOK'
    BY <2>1, TableParts DEF ServerOK, Announce
  <2>3. OwnEntries'
    BY <2>1, <1>1 DEF OwnEntries, InOpen, OutOpen, NoteOpen
  <2>. QED
    BY <2>1, <2>2, <2>3 DEF TableStep
<1>2. CASE pc' = "prompt" /\ UNCHANGED <<netVars, streams, fd>>
  <2>1. NetOK'
    BY <1>2, TableParts DEF NetOK, netVars
  <2>2. cur' = cur /\ inbuf' = inbuf /\ line' = line
    BY DEF Announce
  <2>. QED
    BY <1>2, <2>1, <2>2, TableParts, GoesOn DEF netVars, ServerOK, Serving, NoteOpen, InOpen
<1>. QED
  BY <1>1, <1>2 DEF Announce, Goto

\* The bindings of serve/1 that are undone are of the type of bindings.
LEMMA UnboundType ==
  ASSUME Unbound
  PROVE  ServerOK'
BY EmptySeq DEF Unbound, ServerOK, Slots

LEMMA TableAnnounced ==
  ASSUME TableInv, Announced
  PROVE  TableStep
<1>1. fd["aux"] \in 1..Entries /\ streams[fd["aux"]] # None
  BY TableParts DEF OwnEntries, NoteOpen, Announced
<1>2. NetOK' /\ TableOK' /\ StreamsOwnConns'
  BY <1>1, TableParts, Closes DEF Announced
<1>. QED
  BY <1>2, UnboundType DEF TableStep, OwnEntries, InOpen, OutOpen, NoteOpen, Announced, Goto

LEMMA TableAccept ==
  ASSUME TableInv, tcp_accept_next
  PROVE  TableStep
<1> DEFINE i == cur'
<1>1. /\ i \in Slots /\ conns[i].state = "PENDING"
      /\ conns' = [conns EXCEPT ![i] = [conns[i] EXCEPT !.state = "ACCEPTED"]]
      /\ client' = client /\ streams' = streams /\ fd' = fd
      /\ inbuf' = inbuf /\ line' = line /\ pc' = "open in"
  <2>1. {j \in Slots : conns[j].state = "PENDING"} \subseteq Nat
    BY DEF Slots
  <2>2. i \in {j \in Slots : conns[j].state = "PENDING"}
    BY <2>1, MinOfNats DEF tcp_accept_next
  <2>. QED
    BY <2>2 DEF tcp_accept_next, Goto
<1>2. conns[i] \in Conn /\ conns'[i] = [conns[i] EXCEPT !.state = "ACCEPTED"]
  BY <1>1, TableParts DEF NetOK
<1>3. /\ conns'[i] \in Conn /\ conns'[i].state = "ACCEPTED" /\ conns'[i].refs = conns[i].refs
  BY ONLY <1>2 DEF Conn
<1>4. \A j \in Slots : j # i => conns'[j] = conns[j]
  BY <1>1, TableParts DEF NetOK
<1>5. NetOK' /\ TableOK' /\ ServerOK'
  BY <1>1, <1>3, TableParts DEF NetOK, TableOK, ServerOK
<1>6. \A j \in Slots : /\ conns'[j].refs = conns[j].refs
                       /\ conns[j].state = "ACCEPTED" => conns'[j].state = "ACCEPTED"
  BY <1>3, <1>4
<1>7. StreamsOwnConns'
  BY <1>1, <1>6, TableParts, SameTable
<1>8. conns[i].refs = 0
  <2>1. conns[i].refs \in 0..2
    BY ONLY <1>2 DEF Conn
  <2>2. conns[i].refs > 0 => conns[i].state = "ACCEPTED"
    BY <1>1, TableParts DEF StreamsOwnConns
  <2>3. conns[i].state = "PENDING"
    BY <1>1
  <2>. QED
    BY ONLY <2>1, <2>2, <2>3
<1>. QED
  BY <1>1, <1>3, <1>5, <1>7, <1>8 DEF TableStep, OwnEntries, InOpen, OutOpen, NoteOpen

\* An open that fails takes serve/1 back.
LEMMA OpenFails ==
  ASSUME TableInv, pc' = "accept", Unbound, UNCHANGED <<netVars, streams>>
  PROVE  TableStep
<1>1. NetOK' /\ TableOK'
  BY TableParts DEF NetOK, TableOK, netVars
<1>2. StreamsOwnConns'
  BY TableParts, SameTable DEF netVars
<1>. QED
  BY <1>1, <1>2, UnboundType DEF TableStep, OwnEntries, InOpen, OutOpen, NoteOpen

LEMMA TableOpenIn ==
  ASSUME TableInv, OpenIn
  PROVE  TableStep
<1>1. CASE stream_open(cur, "in") /\ pc' = "open out" /\ UNCHANGED <<cur, inbuf, line>>
  <2>1. conns[cur].refs = 0 /\ cur \in Slots
    BY TableParts DEF OwnEntries, OpenIn, OpenStream
  <2>2. /\ NetOK' /\ TableOK' /\ StreamsOwnConns' /\ fd' \in [Fds -> 0..Entries]
        /\ fd'["in"] \in 1..Entries /\ streams'[fd'["in"]] = cur
        /\ \A i \in Slots : conns'[i].refs = conns[i].refs + (IF i = cur THEN 1 ELSE 0)
    <3>1. cur \in Slots \cup {Mail, Log} /\ "in" \in Fds /\ conns[cur].refs <= 1
      BY <2>1 DEF Fds
    <3>2. NetOK /\ TableOK /\ StreamsOwnConns /\ fd \in [Fds -> 0..Entries]
      BY TableParts
    <3>. QED
      BY ONLY <1>1, <3>1, <3>2, Opens
  <2>3. ServerOK'
    BY <1>1, <2>2, TableParts DEF ServerOK
  <2>4. cur' = cur
    BY <1>1
  <2>5. conns'[cur'].refs = 1
    BY ONLY <2>1, <2>2, <2>4
  <2>6. OwnEntries'
    BY <1>1, <2>2, <2>4, <2>5 DEF OwnEntries, InOpen, OutOpen, NoteOpen
  <2>. QED
    BY <2>2, <2>3, <2>6 DEF TableStep
<1>. QED
  BY <1>1, OpenFails DEF OpenIn, OpenStream, Goto

LEMMA TableOpenOut ==
  ASSUME TableInv, OpenOut
  PROVE  TableStep
<1>1. CASE stream_open(cur, "out") /\ pc' = "read line" /\ UNCHANGED <<cur, inbuf, line>>
  <2>1. /\ conns[cur].refs = 1 /\ cur \in Slots /\ cur # None
        /\ fd["in"] \in 1..Entries /\ streams[fd["in"]] = cur
    BY TableParts DEF OwnEntries, OpenOut, OpenStream, InOpen
  <2>2. /\ NetOK' /\ TableOK' /\ StreamsOwnConns' /\ fd' \in [Fds -> 0..Entries]
        /\ fd'["out"] \in 1..Entries /\ streams'[fd'["out"]] = cur
        /\ streams[fd'["out"]] = None
        /\ \A k \in 1..Entries : k # fd'["out"] => streams'[k] = streams[k]
        /\ \A e \in Fds \ {"out"} : fd'[e] = fd[e]
    <3>1. cur \in Slots \cup {Mail, Log}
      BY <2>1
    <3>2. "out" \in Fds
      BY DEF Fds
    <3>3. cur \in Slots => conns[cur].refs <= 1
      BY <2>1
    <3>4. NetOK /\ TableOK /\ StreamsOwnConns /\ fd \in [Fds -> 0..Entries]
      BY TableParts
    <3>5. stream_open(cur, "out")
      BY <1>1
    <3>. QED
      BY ONLY <3>1, <3>2, <3>3, <3>4, <3>5, Opens
  <2>3. fd'["in"] = fd["in"] /\ fd'["in"] # fd'["out"] /\ streams'[fd'["in"]] = cur
    BY <2>1, <2>2 DEF Fds
  <2>4. ServerOK'
    BY <1>1, <2>2, TableParts DEF ServerOK
  <2>. QED
    BY <1>1, <2>1, <2>2, <2>3, <2>4 DEF TableStep, OwnEntries, InOpen, OutOpen, NoteOpen
<1>. QED
  BY <1>1, OpenFails DEF OpenOut, OpenStream, Goto

LEMMA TableRead ==
  ASSUME TableInv, tcp_stream_read
  PROVE  TableStep
<1>1. PICK n \in 1..Len(conns[cur].rx) :
        /\ inbuf' = SubSeq(conns[cur].rx, 1, n)
        /\ conns' = [conns EXCEPT ![cur].rx = SubSeq(@, n + 1, Len(@))]
  BY DEF tcp_stream_read
<1>2. cur \in Slots /\ conns[cur] \in Conn /\ conns[cur].rx \in Seq(Clients)
  BY TableParts DEF Conn
<1>3. inbuf' \in Seq(Clients) /\ SubSeq(conns[cur].rx, n + 1, Len(conns[cur].rx)) \in Seq(Clients)
  <2>1. n \in Nat /\ n <= Len(conns[cur].rx) /\ Len(conns[cur].rx) \in Nat /\ n >= 1
    BY <1>1, <1>2
  <2>2. SubSeq(conns[cur].rx, 1, n) \in Seq(Clients)
    BY <1>2, <2>1, SubSeqProperties
  <2>3. SubSeq(conns[cur].rx, n + 1, Len(conns[cur].rx)) \in Seq(Clients)
    BY <1>2, <2>1, SubSeqProperties
  <2>. QED
    BY <1>1, <2>2, <2>3
<1>4. /\ \A i \in Slots : i # cur => conns'[i] = conns[i]
      /\ conns'[cur] = [conns[cur] EXCEPT !.rx = SubSeq(conns[cur].rx, n + 1, Len(conns[cur].rx))]
      /\ conns' = [conns EXCEPT ![cur] = conns'[cur]]
  BY <1>1, <1>2, TableParts DEF NetOK
<1>5. /\ conns'[cur] \in Conn /\ conns'[cur].refs = conns[cur].refs
      /\ conns'[cur].state = conns[cur].state
  BY ONLY <1>2, <1>3, <1>4 DEF Conn
<1>6. NetOK'
  <2>1. conns' \in [Slots -> Conn]
    BY <1>4, <1>5, TableParts DEF NetOK
  <2>. QED
    BY <2>1, TableParts DEF NetOK, tcp_stream_read
<1>7. \A i \in Slots : conns'[i].refs = conns[i].refs /\ conns'[i].state = conns[i].state
  BY <1>4, <1>5
<1>8. streams' = streams /\ pc' = pc /\ cur' = cur /\ fd' = fd /\ line' = line
  BY DEF tcp_stream_read
<1>. QED
  BY <1>3, <1>6, <1>7, <1>8, TableParts, GoesOn DEF ServerOK

LEMMA TableReadLine ==
  ASSUME TableInv, ReadLine
  PROVE  TableStep
<1>1. /\ conns' = conns /\ client' = client /\ streams' = streams /\ cur' = cur /\ fd' = fd
      /\ pc \in {"read line", "skip headers"} /\ pc' \in {pc, "skip headers", "head"}
      /\ inbuf # <<>> /\ inbuf' = Tail(inbuf) /\ line' \in {line, Head(inbuf)}
  BY DEF ReadLine, Reading, Goto, netVars
<1>2. inbuf \in Seq(Clients) /\ line \in Clients \cup {None}
  BY TableParts DEF ServerOK
<1>3. Head(inbuf) \in Clients /\ Tail(inbuf) \in Seq(Clients)
  BY <1>1, <1>2, TailSeq
<1>5. NetOK'
  BY <1>1, TableParts DEF NetOK
<1>. QED
  BY <1>1, <1>2, <1>3, <1>5, GoesOn DEF InOpen, OutOpen, NoteOpen

LEMMA TableReadEnd ==
  ASSUME TableInv, ReadEnd
  PROVE  TableStep
<1>1. /\ conns' = [conns EXCEPT ![cur].eof = TRUE] /\ client' = client /\ streams' = streams
      /\ cur' = cur /\ fd' = fd /\ inbuf' = inbuf /\ line' = line
      /\ pc \in {"read line", "skip headers"} /\ pc' \in {"close in", "head"}
  BY DEF ReadEnd, Reading, Goto, serverVars
<1>2. /\ cur \in Slots /\ conns[cur] \in Conn
      /\ conns'[cur] = [conns[cur] EXCEPT !.eof = TRUE]
      /\ \A i \in Slots : i # cur => conns'[i] = conns[i]
      /\ conns' = [conns EXCEPT ![cur] = conns'[cur]]
  BY <1>1, TableParts DEF NetOK
<1>3. /\ conns'[cur] \in Conn /\ conns'[cur].refs = conns[cur].refs
      /\ conns'[cur].state = conns[cur].state
  BY ONLY <1>2 DEF Conn
<1>4. NetOK'
  BY <1>1, <1>2, <1>3, TableParts DEF NetOK
<1>5. \A i \in Slots : conns'[i].refs = conns[i].refs /\ conns'[i].state = conns[i].state
  BY <1>2, <1>3
<1>. QED
  BY <1>1, <1>4, <1>5, TableParts, GoesOn DEF InOpen, OutOpen, NoteOpen, ServerOK

LEMMA TableReply ==
  ASSUME TableInv, ReplyHead \/ ReplyBody
  PROVE  TableStep
<1>1. /\ streams' = streams /\ cur' = cur /\ fd' = fd /\ inbuf' = inbuf /\ line' = line
      /\ pc \in {"head", "body"} /\ pc' \in {"body", "log", "close in", "failed"}
      /\ \/ \E what \in Notes : Wrote(cur, what)
         \/ conns' = conns /\ client' = client
  <2>1. line \in Clients \cup {None}
    BY TableParts DEF ServerOK
  <2>2. <<"head", line>> \in Notes /\ <<"body", line>> \in Notes
    BY <2>1 DEF Notes
  <2>. QED
    BY <2>2 DEF ReplyHead, ReplyBody, Goto, serverVars, GaveUp, netVars
<1>2. /\ NetOK'
      /\ \A i \in Slots : conns'[i].refs = conns[i].refs /\ conns'[i].state = conns[i].state
  <2>1. ASSUME NEW what \in Notes, Wrote(cur, what)
        PROVE  NetOK' /\ Touches(cur)
    BY <2>1, TableParts, Writes
  <2>. QED
    BY <1>1, <2>1, TableParts DEF Touches, NetOK
<1>. QED
  BY <1>1, <1>2, TableParts, GoesOn DEF InOpen, OutOpen, NoteOpen, ServerOK

\* log/1 and request_failed/1
LEMMA TableOpenNote ==
  ASSUME TableInv, log \/ request_failed
  PROVE  TableStep
<1>1. /\ pc \in {"log", "failed"} /\ cur' = cur /\ inbuf' = inbuf /\ line' = line
      /\ \/ \E what \in {Mail, Log} : /\ stream_open(what, "aux") /\ pc' \in {"logged", "told"}
                                      /\ pc' = "logged" => what = Log
         \/ pc' = "close in" /\ UNCHANGED <<netVars, streams, fd>>
  BY DEF log, request_failed, OpenNote, Goto
<1>2. ASSUME NEW what \in {Mail, Log}, stream_open(what, "aux"), pc' \in {"logged", "told"},
             pc' = "logged" => what = Log
      PROVE  TableStep
  <2>1. /\ fd["in"] \in 1..Entries /\ streams[fd["in"]] = cur
        /\ fd["out"] \in 1..Entries /\ streams[fd["out"]] = cur
        /\ fd["in"] # fd["out"] /\ cur # None
    BY <1>1, TableParts DEF OwnEntries, InOpen, OutOpen
  <2>2. /\ NetOK' /\ TableOK' /\ StreamsOwnConns' /\ fd' \in [Fds -> 0..Entries]
        /\ fd'["aux"] \in 1..Entries /\ streams'[fd'["aux"]] = what
        /\ streams[fd'["aux"]] = None
        /\ \A k \in 1..Entries : k # fd'["aux"] => streams'[k] = streams[k]
        /\ \A e \in Fds \ {"aux"} : fd'[e] = fd[e]
    <3>1. /\ what \in Slots \cup {Mail, Log} /\ "aux" \in Fds
          /\ what \in Slots => conns[what].refs <= 1
      BY DEF Fds
    <3>2. NetOK /\ TableOK /\ StreamsOwnConns /\ fd \in [Fds -> 0..Entries]
      BY TableParts
    <3>. QED
      BY ONLY <1>2, <3>1, <3>2, Opens
  <2>3. /\ fd'["in"] = fd["in"] /\ fd'["out"] = fd["out"]
        /\ streams'[fd["in"]] = cur /\ streams'[fd["out"]] = cur
    BY <2>1, <2>2 DEF Fds
  <2>4. ServerOK'
    BY <1>1, <2>2, TableParts DEF ServerOK
  <2>5. OwnEntries'
    BY <1>1, <1>2, <2>1, <2>2, <2>3 DEF OwnEntries, InOpen, OutOpen, NoteOpen
  <2>. QED
    BY <2>2, <2>4, <2>5 DEF TableStep
<1>3. CASE pc' = "close in" /\ UNCHANGED <<netVars, streams, fd>>
  <2>1. NetOK'
    BY <1>3, TableParts DEF NetOK, netVars
  <2>. QED
    BY <1>1, <1>3, <2>1, TableParts, GoesOn DEF InOpen, OutOpen, NoteOpen, ServerOK, netVars
<1>. QED
  BY <1>1, <1>2, <1>3

\* What a close by serve/1 leaves: the entries that are not it.
LEMMA TableClose ==
  ASSUME TableInv, CloseNote \/ CloseIn \/ CloseOut
  PROVE  TableStep
<1> DEFINE f == IF pc = "close in" THEN "in" ELSE IF pc = "close out" THEN "out" ELSE "aux"
<1>1. /\ pc \in {"logged", "told", "close in", "close out"}
      /\ stream_close(fd[f])
      /\ \/ Unbound /\ pc = "close out" /\ pc' = "accept"
         \/ /\ fd' = [fd EXCEPT ![f] = 0] /\ cur' = cur /\ inbuf' = inbuf /\ line' = line
            /\ pc # "close out" /\ pc' = IF pc = "close in" THEN "close out" ELSE "close in"
  BY DEF CloseNote, CloseIn, CloseOut, CloseStream, Goto
<1>2. fd[f] \in 1..Entries /\ streams[fd[f]] # None
  BY <1>1, TableParts DEF OwnEntries, InOpen, OutOpen, NoteOpen
<1>3. /\ NetOK' /\ TableOK' /\ StreamsOwnConns'
      /\ \A k \in 1..Entries : k # fd[f] => streams'[k] = streams[k]
  <2>1. NetOK /\ TableOK /\ StreamsOwnConns /\ stream_close(fd[f])
    BY <1>1, TableParts
  <2>. QED
    BY ONLY <1>2, <2>1, Closes
<1>4. CASE Unbound /\ pc' = "accept"
  BY <1>3, <1>4, UnboundType DEF TableStep, OwnEntries, InOpen, OutOpen, NoteOpen
<1>5. CASE /\ fd' = [fd EXCEPT ![f] = 0] /\ cur' = cur /\ inbuf' = inbuf /\ line' = line
           /\ pc # "close out" /\ pc' = IF pc = "close in" THEN "close out" ELSE "close in"
  <2>1. fd' \in [Fds -> 0..Entries] /\ \A e \in Fds \ {f} : fd'[e] = fd[e]
    <3>1. f \in Fds /\ fd \in [Fds -> 0..Entries] /\ 0 \in 0..Entries
      BY TableParts DEF Fds
    <3>. QED
      BY ONLY <1>5, <3>1
  <2>2. ServerOK'
    BY <1>5, <2>1, TableParts DEF ServerOK
  <2>3. CASE pc = "close in"
    BY <1>3, <1>5, <2>1, <2>3, TableParts DEF OwnEntries, InOpen, OutOpen, NoteOpen, Fds, TableStep, ServerOK
  <2>4. CASE pc # "close in"
    <3>1. /\ fd["in"] \in 1..Entries /\ streams[fd["in"]] = cur
          /\ fd["out"] \in 1..Entries /\ streams[fd["out"]] = cur
          /\ fd["in"] # fd["out"] /\ streams[fd["aux"]] \in {Mail, Log} /\ f = "aux"
          /\ cur \in Slots
      BY <1>1, <1>5, <2>4, TableParts DEF OwnEntries, InOpen, OutOpen, NoteOpen
    <3>2. fd["in"] # fd["aux"] /\ fd["out"] # fd["aux"]
      BY <3>1
    <3>3. /\ fd'["in"] = fd["in"] /\ fd'["out"] = fd["out"]
          /\ streams'[fd["in"]] = cur /\ streams'[fd["out"]] = cur
      BY <1>3, <2>1, <3>1, <3>2 DEF Fds
    <3>4. OwnEntries'
      BY <1>5, <2>4, <3>1, <3>3 DEF OwnEntries, InOpen, OutOpen, NoteOpen
    <3>. QED
      BY <1>3, <2>2, <3>4 DEF TableStep
  <2>. QED
    BY <2>3, <2>4
<1>. QED
  BY <1>1, <1>4, <1>5

\* main tidies up.
LEMMA TableFailAll ==
  ASSUME TableInv, tcp_fail_all
  PROVE  TableStep
<1>1. /\ streams' = streams /\ fd' = fd /\ inbuf' = inbuf /\ line' = line
      /\ pc = "fail all" /\ pc' \in {"fail all", "close all"}
      /\ cur' = IF cur = Conns - 1 THEN 0 ELSE cur + 1
      /\ \/ \E what \in Notes : Wrote(cur, what)
         \/ conns' = conns /\ client' = client
  <2>1. <<"crashed", None>> \in Notes /\ <<"500", None>> \in Notes
    BY DEF Notes
  <2>. QED
    BY <2>1 DEF tcp_fail_all, Goto, GaveUp, netVars
<1>2. /\ NetOK'
      /\ \A i \in Slots : conns'[i].refs = conns[i].refs /\ conns'[i].state = conns[i].state
  <2>1. ASSUME NEW what \in Notes, Wrote(cur, what)
        PROVE  NetOK' /\ Touches(cur)
    BY <2>1, TableParts, Writes
  <2>. QED
    BY <1>1, <2>1, TableParts DEF Touches, NetOK
<1>3. ServerOK'
  <2>1. cur' \in Slots
    <3>1. cur \in 0..Conns - 1 /\ Conns \in Nat /\ Conns # 0
      BY TableParts DEF Slots
    <3>2. cur' = IF cur = Conns - 1 THEN 0 ELSE cur + 1
      BY <1>1
    <3>. QED
      BY ONLY <3>1, <3>2 DEF Slots
  <2>. QED
    BY <1>1, <2>1, TableParts DEF ServerOK
<1>4. StreamsOwnConns' /\ TableOK'
  BY <1>1, <1>2, TableParts, SameTable DEF TableOK
<1>5. OwnEntries'
  BY <1>1 DEF OwnEntries, InOpen, OutOpen, NoteOpen
<1>. QED
  BY <1>2, <1>3, <1>4, <1>5 DEF TableStep

LEMMA TableCloseStreams ==
  ASSUME TableInv, trilog_close_streams
  PROVE  TableStep
<1> DEFINE open == {k \in 1..Entries : streams[k] # None}
<1>1. /\ pc' \in {"close all", "drop all"} /\ cur' = cur /\ fd' = fd /\ inbuf' = inbuf /\ line' = line
      /\ \/ conns' = conns /\ client' = client /\ streams' = streams /\ open = {}
         \/ open # {} /\ stream_close(Min(open)) /\ pc' = "close all"
  BY DEF trilog_close_streams, Goto, netVars, serverVars
<1>2. ServerOK' /\ OwnEntries'
  <2>1. pc' = "drop all" => \A k \in 1..Entries : streams'[k] = None
    BY <1>1
  <2>. QED
    BY <1>1, <2>1, TableParts DEF ServerOK, OwnEntries, InOpen, OutOpen, NoteOpen
<1>3. CASE conns' = conns /\ client' = client /\ streams' = streams
  BY <1>2, <1>3, TableParts, SameTable DEF TableStep, NetOK, TableOK
<1>4. CASE open # {} /\ stream_close(Min(open))
  <2>1. Min(open) \in 1..Entries /\ streams[Min(open)] # None
    BY <1>4, MinOfNats
  <2>2. NetOK /\ TableOK /\ StreamsOwnConns
    BY TableParts
  <2>3. NetOK' /\ TableOK' /\ StreamsOwnConns'
    BY ONLY <1>4, <2>1, <2>2, Closes
  <2>. QED
    BY <1>2, <2>3 DEF TableStep
<1>. QED
  BY <1>1, <1>3, <1>4

\* tcp_drop_all finds no stream open: each connection it drops is without one.
LEMMA TableRestart ==
  ASSUME TableInv, Restart
  PROVE  TableStep
<1>1. \A k \in 1..Entries : streams[k] = None
  BY TableParts DEF OwnEntries, Restart
<1>2. \A i \in Slots : conns[i].refs = 0
  <2> TAKE i \in Slots
  <2>1. i # None
    OBVIOUS
  <2>. QED
    BY <1>1, <2>1, TableParts, CountsAre, HoldersSome
<1>3. /\ streams' = streams /\ cur' = cur /\ fd' = fd /\ inbuf' = inbuf /\ line' = line
      /\ pc' \in {"prompt", "listen"}
      /\ conns' = [i \in Slots |-> IF conns[i].state = "ACCEPTED" THEN Free ELSE conns[i]]
      /\ \A c \in Clients : client'[c] \in {Away, client[c]}
      /\ client' = [c \in Clients |-> client'[c]]
  BY DEF Restart, tcp_drop_all, Goto, serverVars, HungUp
<1>4. NetOK'
  <2>1. conns' \in [Slots -> Conn]
    BY <1>3, FreeType, TableParts
  <2>2. client' \in [Clients -> Peer]
    BY <1>3, AwayType, TableParts DEF NetOK
  <2>. QED
    BY <2>1, <2>2 DEF NetOK
<1>5. StreamsOwnConns'
  <2>1. \A i \in Slots : conns'[i].refs = 0
    BY <1>2, <1>3 DEF Free
  <2>2. \A i \in Slots : Cardinality(Holders(streams', i)) = 0
    <3> TAKE i \in Slots
    <3>1. \A k \in 1..Entries : streams'[k] # i
      BY <1>1, <1>3
    <3>. QED
      BY <3>1, HoldersSome
  <2>. QED
    BY <2>1, <2>2 DEF StreamsOwnConns, Holders
<1>6. ServerOK' /\ OwnEntries' /\ TableOK'
  BY <1>3, TableParts DEF ServerOK, OwnEntries, TableOK, InOpen, OutOpen, NoteOpen
<1>. QED
  BY <1>4, <1>5, <1>6 DEF TableStep

\* A crash leaves the network and the streams as they are.
LEMMA TableCrash ==
  ASSUME TableInv, Crash
  PROVE  TableStep
<1>1. /\ conns' = conns /\ client' = client /\ streams' = streams /\ Unbound
      /\ pc' \in {"prompt", "fail all"}
  BY DEF Crash, netVars, Goto
<1>2. NetOK' /\ TableOK' /\ StreamsOwnConns'
  BY <1>1, TableParts, SameTable DEF NetOK, TableOK
<1>. QED
  BY <1>1, <1>2, UnboundType DEF TableStep, OwnEntries, InOpen, OutOpen, NoteOpen

\* So does an exhausted heap, with what serve/1 has open when handle/3 goes on.
LEMMA TableExhausted ==
  ASSUME TableInv, HeapExhausted
  PROVE  TableStep
<1>1. conns' = conns /\ client' = client /\ streams' = streams
  BY DEF HeapExhausted, netVars
<1>2. NetOK' /\ TableOK' /\ StreamsOwnConns'
  BY <1>1, TableParts, SameTable DEF NetOK, TableOK
<1>3. CASE Handling /\ pc' = "failed" /\ UNCHANGED serverVars
  <2>1. {pc, pc'} \subseteq InOpen \cap OutOpen /\ pc' \notin NoteOpen
    BY <1>3 DEF Handling, InOpen, OutOpen, NoteOpen
  <2>2. cur' = cur /\ fd' = fd /\ inbuf' = inbuf /\ line' = line
    BY <1>3 DEF serverVars
  <2>. QED
    BY <1>1, <1>2, <2>1, <2>2, TableParts, GoesOn DEF ServerOK
<1>4. CASE pc' = "prompt" /\ Unbound
  BY <1>2, <1>4, UnboundType DEF TableStep, OwnEntries, InOpen, OutOpen, NoteOpen
<1>. QED
  BY <1>3, <1>4 DEF HeapExhausted, Goto

LEMMA TableIdle ==
  ASSUME TableInv, Listen \/ Interrupt \/ PromptServe
  PROVE  TableStep
<1>1. /\ conns' = conns /\ client' = client /\ streams' = streams
      /\ cur' = cur /\ fd' = fd /\ inbuf' = inbuf /\ line' = line
      /\ pc' \in {"announce", "prompt", "listen"}
  BY DEF Listen, Interrupt, PromptServe, Goto, netVars, serverVars
<1>2. NetOK'
  BY <1>1, TableParts DEF NetOK
<1>. QED
  BY <1>1, <1>2, TableParts, GoesOn DEF ServerOK, InOpen, NoteOpen, Serving

LEMMA TablePromptOpen ==
  ASSUME TableInv, PromptOpen
  PROVE  TableStep
<1>1. /\ conns' = conns /\ client' = client /\ pc' = "prompt"
      /\ cur' = cur /\ fd' = fd /\ inbuf' = inbuf /\ line' = line
  BY DEF PromptOpen, Asked, netVars, serverVars
<1>2. PICK k \in 1..Entries : streams[k] = None /\ streams' = [streams EXCEPT ![k] = Log]
  BY TableParts, FirstEntryFree DEF PromptOpen, CanOpen
<1>3. /\ NetOK' /\ TableOK' /\ ServerOK'
  BY <1>1, <1>2, TableParts DEF NetOK, TableOK, ServerOK, Handles
<1>4. OwnEntries'
  BY <1>1 DEF OwnEntries, InOpen, OutOpen, NoteOpen
<1>5. \A i \in Slots : Holders(streams', i) = Holders(streams, i)
  <2> TAKE i \in Slots
  <2>1. streams'[k] = Log /\ \A j \in 1..Entries : j # k => streams'[j] = streams[j]
    BY <1>2, TableParts DEF TableOK
  <2>2. Log # i /\ None # i
    OBVIOUS
  <2>. QED
    BY <1>2, <2>1, <2>2 DEF Holders
<1>6. StreamsOwnConns'
  BY <1>1, <1>5, TableParts, CountsAre DEF StreamsOwnConns, Holders
<1>. QED
  BY <1>3, <1>4, <1>6 DEF TableStep

\* The network does not touch the stream table, and no connection that is accepted
\* is lost or counted otherwise.
LEMMA Meanwhile ==
  ASSUME TableInv, NetOK', UNCHANGED <<streams, pc, serverVars>>,
         \A i \in Slots : \/ conns[i].state = "FREE" /\ conns'[i].refs = 0
                          \/ conns'[i].refs = conns[i].refs /\ conns'[i].state = conns[i].state
  PROVE  TableStep
<1>1. \A i \in Slots : conns[i].refs \in 0..2 /\ (conns[i].refs > 0 => conns[i].state = "ACCEPTED")
  <2> TAKE i \in Slots
  <2>1. conns[i] \in Conn
    BY TableParts
  <2>2. conns[i].refs \in 0..2
    BY ONLY <2>1 DEF Conn
  <2>. QED
    BY <2>2, TableParts DEF StreamsOwnConns
<1>2. \A i \in Slots : /\ conns'[i].refs = conns[i].refs
                       /\ conns[i].state = "ACCEPTED" => conns'[i].state = "ACCEPTED"
  <2> TAKE i \in Slots
  <2>1. conns[i].state = "FREE" => conns[i].refs = 0
    BY <1>1
  <2>. QED
    BY <2>1
<1>. QED
  BY <1>2, TableParts, GoesOn DEF serverVars, ServerOK

\* on_accept: the connection is new, and takes a slot that is free; or it is refused.
LEMMA Connects ==
  ASSUME NetOK, NEW c \in Clients, Connect(c)
  PROVE  /\ NetOK' /\ ~client[c].up
         /\ \A d \in Clients : d # c => client'[d] = client[d]
         /\ \/ conns' = conns /\ client'[c] = Away
            \/ /\ client'[c].up = TRUE /\ client'[c].got = <<>>
               /\ \E i \in Slots :
                    /\ conns[i].state = "FREE"
                    /\ conns'[i].pcb = c /\ conns'[i].state = "PENDING" /\ conns'[i].rx = <<>>
                    /\ conns'[i].refs = 0
                    /\ \A j \in Slots : j # i => conns'[j] = conns[j]
<1> DEFINE free == {i \in Slots : conns[i].state = "FREE"}
           new == [Free EXCEPT !.state = "PENDING", !.pcb = c]
           peer == [Away EXCEPT !.up = TRUE]
<1>1. ~client[c].up
  BY DEF Connect
<1>2. CASE free = {}
  <2>1. conns' = conns /\ client' = [client EXCEPT ![c] = Away]
    BY <1>2 DEF Connect
  <2>. QED
    BY <1>1, <2>1, AwayType DEF NetOK
<1>3. CASE free # {}
  <2>1. Min(free) \in Slots /\ conns[Min(free)].state = "FREE"
    BY <1>3, MinOfNats DEF Slots
  <2>2. PICK i \in Slots : /\ conns[i].state = "FREE" /\ conns' = [conns EXCEPT ![i] = new]
                          /\ client' = [client EXCEPT ![c] = peer]
    BY <1>3, <2>1 DEF Connect
  <2>3. /\ new \in Conn /\ new.pcb = c /\ new.state = "PENDING" /\ new.rx = <<>> /\ new.refs = 0
    <3>1. c \in Clients \cup {None} /\ <<>> \in Seq(Clients)
      BY EmptySeq
    <3>2. Free \in Conn /\ Free.rx = <<>> /\ Free.refs = 0
      BY FreeType DEF Free
    <3>3. new.pcb = c /\ new.state = "PENDING"
      BY ONLY <3>2 DEF Conn
    <3>4. new.rx = <<>> /\ new.refs = 0
      BY ONLY <3>2 DEF Conn
    <3>5. new \in Conn
      BY ONLY <3>1, <3>2 DEF Conn
    <3>. QED
      BY <3>3, <3>4, <3>5
  <2>4. peer \in Peer /\ peer.up = TRUE /\ peer.got = <<>>
    BY EmptySeq DEF Away, Peer
  <2>5. /\ conns'[i] = new /\ \A j \in Slots : j # i => conns'[j] = conns[j]
        /\ client'[c] = peer /\ \A d \in Clients : d # c => client'[d] = client[d]
    BY <2>2 DEF NetOK
  <2>6. NetOK'
    <3> HIDE DEF new, peer
    <3>. QED
      BY <2>2, <2>3, <2>4 DEF NetOK
  <2>7. /\ conns'[i].pcb = c /\ conns'[i].state = "PENDING" /\ conns'[i].rx = <<>> /\ conns'[i].refs = 0
        /\ client'[c].up = TRUE /\ client'[c].got = <<>>
    <3> HIDE DEF new, peer
    <3>. QED
      BY <2>3, <2>4, <2>5
  <2>. QED
    BY <1>1, <2>2, <2>5, <2>6, <2>7
<1>. QED
  BY <1>2, <1>3

\* The callbacks for a connection that is there change what has come through it, and
\* its peer.
Elsewhere(i, c) ==
  /\ conns'[i].refs = conns[i].refs /\ conns'[i].state = conns[i].state /\ conns'[i].sent = conns[i].sent
  /\ \A j \in Slots : j # i => conns'[j] = conns[j]
  /\ \A d \in Clients : d # c => client'[d] = client[d]

LEMMA Sends ==
  ASSUME NetOK, NEW c \in Clients, Send(c)
  PROVE  /\ NetOK' /\ client' = client
         /\ \E i \in Slots :
              /\ conns[i].pcb = c /\ Elsewhere(i, c)
              /\ conns'[i].pcb = c /\ conns'[i].rx = Append(conns[i].rx, c)
<1>1. PICK i \in Slots :
        /\ conns[i].pcb = c
        /\ conns' = [conns EXCEPT ![i].rx = Append(@, c)]
        /\ client' = client
  BY DEF Send, Reaches
<1>2. conns[i] \in Conn /\ conns[i].rx \in Seq(Clients)
  BY DEF NetOK, Conn
<1>3. Append(conns[i].rx, c) \in Seq(Clients)
  BY ONLY <1>2, c \in Clients, AppendProperties
<1>4. /\ conns'[i] = [conns[i] EXCEPT !.rx = Append(conns[i].rx, c)]
      /\ \A j \in Slots : j # i => conns'[j] = conns[j]
      /\ conns' = [conns EXCEPT ![i] = conns'[i]]
  BY <1>1 DEF NetOK
<1>5. /\ conns'[i].refs = conns[i].refs /\ conns'[i].state = conns[i].state
      /\ conns'[i].sent = conns[i].sent /\ conns'[i].pcb = conns[i].pcb
      /\ conns'[i].rx = Append(conns[i].rx, c)
  BY ONLY <1>2, <1>4 DEF Conn
<1>6. conns'[i] \in Conn
  BY ONLY <1>2, <1>3, <1>4 DEF Conn
<1>9. NetOK'
  BY <1>1, <1>4, <1>6 DEF NetOK
<1>. QED
  BY <1>1, <1>4, <1>5, <1>9 DEF Elsewhere

LEMMA Finishes ==
  ASSUME NetOK, NEW c \in Clients, Finish(c)
  PROVE  /\ NetOK'
         /\ \E i \in Slots :
              /\ conns[i].pcb = c /\ Elsewhere(i, c)
              /\ conns'[i].pcb = c /\ conns'[i].rx = conns[i].rx
              /\ client'[c].up = client[c].up /\ client'[c].got = client[c].got
<1>1. PICK i \in Slots :
        /\ conns[i].pcb = c
        /\ conns' = [conns EXCEPT ![i].eof = TRUE]
        /\ client' = [client EXCEPT ![c].ended = TRUE]
  BY DEF Finish, Reaches
<1>2. conns[i] \in Conn /\ client[c] \in Peer
  BY DEF NetOK
<1>4. /\ conns'[i] = [conns[i] EXCEPT !.eof = TRUE]
      /\ client'[c] = [client[c] EXCEPT !.ended = TRUE]
      /\ \A j \in Slots : j # i => conns'[j] = conns[j]
      /\ \A d \in Clients : d # c => client'[d] = client[d]
      /\ conns' = [conns EXCEPT ![i] = conns'[i]] /\ client' = [client EXCEPT ![c] = client'[c]]
  BY <1>1 DEF NetOK
<1>5. /\ conns'[i].refs = conns[i].refs /\ conns'[i].state = conns[i].state
      /\ conns'[i].sent = conns[i].sent /\ conns'[i].pcb = conns[i].pcb
      /\ conns'[i].rx = conns[i].rx
  BY ONLY <1>2, <1>4 DEF Conn
<1>6. conns'[i] \in Conn
  BY ONLY <1>2, <1>4 DEF Conn
<1>7. client'[c].up = client[c].up /\ client'[c].got = client[c].got
  BY ONLY <1>2, <1>4 DEF Peer
<1>8. client'[c] \in Peer
  BY ONLY <1>2, <1>4 DEF Peer
<1>9. NetOK'
  BY <1>4, <1>6, <1>8 DEF NetOK
<1>. QED
  BY <1>1, <1>4, <1>5, <1>7, <1>9 DEF Elsewhere

LEMMA Resets ==
  ASSUME NetOK, NEW c \in Clients, Reset(c)
  PROVE  /\ NetOK'
         /\ \E i \in Slots :
              /\ conns[i].pcb = c /\ Elsewhere(i, c)
              /\ conns'[i].pcb = None /\ conns'[i].rx = conns[i].rx
              /\ client'[c] = Away
<1>1. PICK i \in Slots :
        /\ conns[i].pcb = c
        /\ conns' = [conns EXCEPT ![i].pcb = None, ![i].eof = TRUE]
        /\ client' = [client EXCEPT ![c] = Away]
  BY DEF Reset, Reaches
<1>2. conns[i] \in Conn /\ client[c] \in Peer
  BY DEF NetOK
<1>4. /\ conns'[i] = [conns[i] EXCEPT !.pcb = None, !.eof = TRUE]
      /\ client'[c] = Away
      /\ \A j \in Slots : j # i => conns'[j] = conns[j]
      /\ \A d \in Clients : d # c => client'[d] = client[d]
      /\ conns' = [conns EXCEPT ![i] = conns'[i]]
  BY <1>1 DEF NetOK
<1>5. /\ conns'[i].refs = conns[i].refs /\ conns'[i].state = conns[i].state
      /\ conns'[i].sent = conns[i].sent /\ conns'[i].pcb = None
      /\ conns'[i].rx = conns[i].rx
  BY ONLY <1>2, <1>4 DEF Conn
<1>6. conns'[i] \in Conn
  BY ONLY <1>2, <1>4 DEF Conn
<1>9. NetOK'
  BY <1>1, <1>4, <1>6, AwayType DEF NetOK
<1>. QED
  BY <1>1, <1>4, <1>5, <1>9 DEF Elsewhere

LEMMA Expires ==
  ASSUME NetOK, NEW i \in Slots, Expire(i)
  PROVE  /\ NetOK' /\ client' = client /\ conns[i].state # "FREE"
         /\ \A j \in Slots : j # i => conns'[j] = conns[j]
         /\ conns'[i].refs = conns[i].refs /\ conns'[i].state = conns[i].state
         /\ conns'[i].sent = conns[i].sent /\ conns'[i].pcb = conns[i].pcb
         /\ conns'[i].rx = conns[i].rx
<1>1. conns' = [conns EXCEPT ![i].due = TRUE] /\ client' = client /\ conns[i].state # "FREE"
  BY DEF Expire
<1>2. conns[i] \in Conn
  BY DEF NetOK
<1>4. /\ conns'[i] = [conns[i] EXCEPT !.due = TRUE]
      /\ \A j \in Slots : j # i => conns'[j] = conns[j]
      /\ conns' = [conns EXCEPT ![i] = conns'[i]]
  BY <1>1 DEF NetOK
<1>5. /\ conns'[i].refs = conns[i].refs /\ conns'[i].state = conns[i].state
      /\ conns'[i].sent = conns[i].sent /\ conns'[i].pcb = conns[i].pcb
      /\ conns'[i].rx = conns[i].rx
  BY ONLY <1>2, <1>4 DEF Conn
<1>6. conns'[i] \in Conn
  BY ONLY <1>2, <1>4 DEF Conn
<1>9. NetOK'
  BY <1>1, <1>4, <1>6 DEF NetOK
<1>. QED
  BY <1>1, <1>4, <1>5, <1>9

LEMMA TableNetwork ==
  ASSUME TableInv, Network \/ Time
  PROVE  TableStep
<1>1. ASSUME NEW c \in Clients, Connect(c)
      PROVE  TableStep
  <2>1. UNCHANGED <<streams, pc, serverVars>>
    BY <1>1 DEF Connect
  <2>2. /\ NetOK'
        /\ \A i \in Slots : \/ conns[i].state = "FREE" /\ conns'[i].refs = 0
                            \/ conns'[i].refs = conns[i].refs /\ conns'[i].state = conns[i].state
    <3>1. /\ NetOK'
          /\ \/ conns' = conns
             \/ \E i \in Slots : /\ conns[i].state = "FREE" /\ conns'[i].refs = 0
                                 /\ \A j \in Slots : j # i => conns'[j] = conns[j]
      <4>1. NetOK
        BY TableParts
      <4>2. /\ NetOK'
            /\ \/ conns' = conns /\ client'[c] = Away
               \/ /\ client'[c].up = TRUE /\ client'[c].got = <<>>
                  /\ \E i \in Slots :
                       /\ conns[i].state = "FREE"
                       /\ conns'[i].pcb = c /\ conns'[i].state = "PENDING" /\ conns'[i].rx = <<>>
                       /\ conns'[i].refs = 0
                       /\ \A j \in Slots : j # i => conns'[j] = conns[j]
        BY ONLY <1>1, <4>1, c \in Clients, Connects
      <4>. QED
        BY ONLY <4>2
    <3>. QED
      BY ONLY <3>1
  <2>. QED
    BY <2>1, <2>2, Meanwhile
<1>2. ASSUME NEW c \in Clients, Send(c) \/ Finish(c) \/ Reset(c)
      PROVE  TableStep
  <2>1. UNCHANGED <<streams, pc, serverVars>>
    BY <1>2 DEF Send, Finish, Reset
  <2>2. NetOK' /\ \E i \in Slots : Elsewhere(i, c)
    <3>1. NetOK
      BY TableParts
    <3>2. CASE Send(c)
      BY <3>1, <3>2, Sends
    <3>3. CASE Finish(c)
      BY <3>1, <3>3, Finishes
    <3>4. CASE Reset(c)
      BY <3>1, <3>4, Resets
    <3>. QED
      BY <1>2, <3>2, <3>3, <3>4
  <2>3. \A i \in Slots : conns'[i].refs = conns[i].refs /\ conns'[i].state = conns[i].state
    BY <2>2 DEF Elsewhere
  <2>. QED
    BY <2>1, <2>2, <2>3, Meanwhile
<1>3. ASSUME NEW j \in Slots, Expire(j)
      PROVE  TableStep
  <2>1. UNCHANGED <<streams, pc, serverVars>>
    BY <1>3 DEF Expire
  <2>2. /\ NetOK'
        /\ \A i \in Slots : conns'[i].refs = conns[i].refs /\ conns'[i].state = conns[i].state
    BY <1>3, TableParts, Expires
  <2>. QED
    BY <2>1, <2>2, Meanwhile
<1>. QED
  BY <1>1, <1>2, <1>3 DEF Network, Time

LEMMA TableNext ==
  ASSUME TableInv, [Next]_vars
  PROVE  TableStep
<1>1. CASE UNCHANGED vars
  <2>1. NetOK'
    BY <1>1, TableParts DEF NetOK, vars, netVars
  <2>. QED
    BY <1>1, <2>1, TableParts, GoesOn DEF vars, netVars, serverVars, ServerOK
<1>2. CASE Interpreter
  BY <1>2, TableIdle, TableAnnounce, TableAnnounced, TableAccept, TableOpenIn, TableOpenOut,
     TableRead, TableReadLine, TableReadEnd, TableReply, TableOpenNote, TableClose
     DEF Interpreter
<1>3. CASE Main
  BY <1>3, TableFailAll, TableCloseStreams, TableRestart DEF Main
<1>. QED
  BY <1>1, <1>2, <1>3, TableCrash, TableExhausted, TableIdle, TablePromptOpen, TableNetwork DEF Next

(***************************************************************************)
(* main's own state, and its counting of the runs that took nothing.       *)
(***************************************************************************)
LEMMA AddQuiet ==
  ASSUME NEW s \in Seq(BOOLEAN), NEW b \in BOOLEAN
  PROVE  /\ Append(s, b) \in Seq(BOOLEAN) /\ Len(Append(s, b)) = Len(s) + 1
         /\ Append(s, b)[Len(s) + 1] = b /\ Len(s) \in Nat
         /\ \A j \in 1..Len(s) : Append(s, b)[j] = s[j]
BY AppendProperties, LenProperties

LEMMA MainCrash ==
  ASSUME TypeOK, IdleInv, Crash
  PROVE  MainOK' /\ IdleInv'
<1>1. MainOK /\ bound' = bound /\ crashes' = crashes + 1 /\ crashes < bound.crashes
  BY TypesSplit DEF Crash
<1>2. bound.crashes \in Nat /\ bound.prompts \in Nat /\ crashes \in Nat
  BY <1>1 DEF MainOK
<1>3. pc \notin Tidying /\ pc # "prompt"
  BY DEF Crash, Working, Tidying
<1>4. CASE run = "prompt"
  <2>1. pc' = "prompt" /\ idle' = idle /\ quiet' = quiet
    BY <1>4 DEF Crash, Goto
  <2>2. MainOK'
    <3>1. crashes' \in 0..bound'.crashes
      BY <1>1, <1>2
    <3>. QED
      BY <1>1, <2>1, <3>1 DEF MainOK, Crash
  <2>3. IdleInv'
    BY <1>1, <1>3, <2>1 DEF IdleInv, Tidying
  <2>. QED
    BY <2>2, <2>3
<1>5. CASE run # "prompt"
  <2>1. pc' = "fail all" /\ idle' = (IF took THEN 0 ELSE idle) /\ quiet' = Append(quiet, ~took)
    BY <1>5 DEF Crash, Goto
  <2>2. quiet \in Seq(BOOLEAN) /\ idle \in 0..3 /\ (~took) \in BOOLEAN
    BY <1>1 DEF MainOK
  <2>3. /\ quiet' \in Seq(BOOLEAN) /\ Len(quiet') = Len(quiet) + 1 /\ Len(quiet) \in Nat
        /\ quiet'[Len(quiet) + 1] = ~took
        /\ \A j \in 1..Len(quiet) : quiet'[j] = quiet[j]
    BY ONLY <2>1, <2>2, AddQuiet
  <2>4. MainOK'
    <3>1. idle' \in 0..3
      <4>1. idle' = 0 \/ idle' = idle
        BY <2>1
      <4>. QED
        BY <2>2, <4>1
    <3>2. crashes' \in 0..bound'.crashes
      BY ONLY <1>1, <1>2
    <3>. QED
      BY <1>1, <2>1, <2>3, <3>1, <3>2 DEF MainOK, Crash, Tidying
  <2>5. /\ idle <= Len(quiet) /\ idle <= 2
        /\ \A j \in 1..idle - 1 : quiet[Len(quiet) + 1 - j]
    BY <1>3, <1>5 DEF IdleInv
  <2>6. CASE took
    <3>1. idle' = 0
      BY <2>1, <2>6
    <3>2. idle' <= 2 /\ idle' + 1 <= Len(quiet') /\ 1..idle' = {}
      BY ONLY <2>3, <3>1
    <3>. QED
      BY <2>1, <2>4, <3>2 DEF IdleInv, Tidying
  <2>7. CASE ~took
    <3>1. idle' = idle /\ quiet'[Len(quiet) + 1]
      BY <2>1, <2>3, <2>7
    <3>2. \A j \in 1..idle' : quiet'[Len(quiet') + 1 - j]
      <4> TAKE j \in 1..idle'
      <4>1. CASE j = 1
        BY <2>2, <2>3, <3>1, <4>1
      <4>2. CASE j # 1
        <5>1. /\ j - 1 \in 1..idle - 1 /\ Len(quiet) + 1 - (j - 1) = Len(quiet') + 1 - j
              /\ Len(quiet') + 1 - j \in 1..Len(quiet)
          BY <2>2, <2>3, <2>5, <3>1, <4>2
        <5>2. quiet[Len(quiet) + 1 - (j - 1)]
          BY <5>1, <2>5
        <5>. QED
          BY <5>1, <5>2, <2>3
      <4>. QED
        BY <4>1, <4>2
    <3>3. idle' <= 2 /\ idle' + 1 <= Len(quiet')
      BY <2>2, <2>3, <2>5, <3>1
    <3>. QED
      BY <2>1, <2>4, <3>2, <3>3 DEF IdleInv, Tidying
  <2>. QED
    BY <2>6, <2>7
<1>. QED
  BY <1>4, <1>5

LEMMA MainNext ==
  ASSUME TypeOK, IdleInv, [Next]_vars
  PROVE  MainOK' /\ IdleInv'
<1>1. MainOK
  BY TypesSplit
<1>2. bound.crashes \in Nat /\ bound.raises \in Nat /\ bound.prompts \in Nat
  BY <1>1 DEF MainOK
<1>3. CASE UNCHANGED vars
  <2>1. /\ UNCHANGED <<listening, pc, bound, run, idle, crashes, raised, prompts, quiet>> /\ took' = took
    BY <1>3 DEF vars, mainVars
  <2>. QED
    BY <1>1, <2>1 DEF MainOK, IdleInv
<1>4. CASE Interpreter
  <2>1. /\ UNCHANGED <<bound, run, idle, crashes, raised, prompts, quiet>>
        /\ took' \in {took, took \/ run = "serve"}
        /\ pc \notin Tidying /\ pc # "prompt"
    BY <1>4 DEF Interpreter, Listen, Announce, Announced, tcp_accept_next, OpenIn, OpenOut, OpenStream,
       tcp_stream_read, Reading, ReadLine, ReadEnd, ReplyHead, ReplyBody, log, request_failed, OpenNote,
       CloseNote, CloseIn, CloseOut, CloseStream, Keep, mainVars, Tidying
  <2>2. pc' \in Serving \cup {"announce", "announced", "accept", "prompt"} /\ listening' \in BOOLEAN
    BY <1>1, <1>4 DEF Interpreter, Listen, Announce, Announced, tcp_accept_next, OpenIn, OpenOut, OpenStream,
       tcp_stream_read, Reading, ReadLine, ReadEnd, ReplyHead, ReplyBody, log, request_failed, OpenNote,
       CloseNote, CloseIn, CloseOut, CloseStream, Keep, Goto, Serving, InOpen, MainOK
  <2>3. pc' \notin Tidying
    BY <2>2 DEF Tidying, Serving, InOpen
  <2>4. MainOK'
    BY <1>1, <2>1, <2>2 DEF MainOK
  <2>. QED
    BY <2>1, <2>3, <2>4 DEF IdleInv
<1>5. CASE tcp_fail_all \/ trilog_close_streams
  <2>1. UNCHANGED <<listening, mainVars>> /\ pc \in Tidying /\ pc' \in Tidying
    BY <1>5 DEF tcp_fail_all, trilog_close_streams, Keep, Goto, Tidying
  <2>. QED
    BY <1>1, <2>1 DEF MainOK, IdleInv, mainVars
<1>6. CASE Restart
  <2>1. /\ idle' = idle + 1 /\ UNCHANGED <<listening, bound, crashes, raised, prompts, quiet>>
        /\ \/ idle' = 3 /\ pc' = "prompt" /\ run' = run /\ took' = took
           \/ idle' # 3 /\ pc' = "listen" /\ run' = "serve" /\ took' = FALSE
        /\ pc \in Tidying
    BY <1>6 DEF Restart, Goto, Tidying
  <2>2. /\ idle <= 2 /\ idle + 1 <= Len(quiet) /\ idle \in 0..3
        /\ \A j \in 1..idle : quiet[Len(quiet) + 1 - j]
    BY <1>1, <2>1 DEF IdleInv, MainOK
  <2>3. MainOK'
    <3>1. idle' \in 0..3
      BY <2>1, <2>2
    <3>2. run' \in {"main", "serve", "prompt"} /\ took' \in BOOLEAN
      BY <1>1, <2>1 DEF MainOK
    <3>. QED
      BY <1>1, <2>1, <3>1, <3>2 DEF MainOK
  <2>4. IdleInv'
    <3>1. pc' \notin Tidying
      BY <2>1 DEF Tidying
    <3>2. /\ idle' <= Len(quiet') /\ \A j \in 1..idle' - 1 : quiet'[Len(quiet') + 1 - j]
          /\ pc' # "prompt" => idle' <= 2
      BY <2>1, <2>2
    <3>. QED
      BY <3>1, <3>2 DEF IdleInv
  <2>. QED
    BY <2>3, <2>4
<1>7. CASE Interrupt
  BY <1>1, <1>7 DEF Interrupt, Goto, MainOK, IdleInv, mainVars, Tidying
<1>8. CASE PromptServe \/ PromptOpen
  <2>1. /\ UNCHANGED <<listening, bound, idle, took, crashes, raised, quiet>> /\ run' \in {run, "prompt"}
        /\ prompts' = prompts + 1 /\ prompts < bound.prompts
        /\ pc = "prompt" /\ pc' \in {"listen", "prompt"} /\ (pc' = "listen" => run' = "prompt")
    BY <1>8 DEF PromptServe, PromptOpen, Asked, Goto
  <2>2. prompts' \in 0..bound'.prompts
    BY <1>1, <1>2, <2>1 DEF MainOK
  <2>3. MainOK'
    BY <1>1, <2>1, <2>2 DEF MainOK
  <2>. QED
    BY <2>1, <2>3 DEF IdleInv, Tidying
<1>9. CASE Network \/ Time
  <2>1. UNCHANGED <<listening, pc, mainVars>>
    BY <1>9 DEF Network, Time, Connect, Send, Finish, Reset, Expire
  <2>. QED
    BY <1>1, <2>1 DEF MainOK, IdleInv, mainVars
<1>10. CASE HeapExhausted
  <2>1. /\ UNCHANGED <<listening, bound, run, idle, took, crashes, prompts, quiet>>
        /\ raised' = raised + 1 /\ raised < bound.raises
        /\ pc \notin Tidying /\ pc' \in {"failed", "prompt"}
    BY <1>10 DEF HeapExhausted, Working, Goto, Tidying
  <2>2. raised' \in 0..bound'.raises
    BY <1>1, <1>2, <2>1 DEF MainOK
  <2>3. MainOK'
    BY <1>1, <2>1, <2>2 DEF MainOK, Serving, InOpen
  <2>4. pc # "prompt"
    BY <1>10 DEF HeapExhausted, Working
  <2>. QED
    BY <2>1, <2>3, <2>4 DEF IdleInv, Tidying
<1>. QED
  BY <1>3, <1>4, <1>5, <1>6, <1>7, <1>8, <1>9, <1>10, MainCrash DEF Next, Main

(***************************************************************************)
(* What is open while serve/1 waits.                                       *)
(***************************************************************************)

\* A step that opens and closes nothing, and accepts no connection.
LEMMA SameOpen ==
  ASSUME NothingElse, streams' = streams, fd' = fd, cur' = cur, run' = run,
         \A i \in Slots : conns'[i].state = "ACCEPTED" => conns[i].state = "ACCEPTED",
         \/ pc' = pc
         \/ {pc, pc'} \subseteq (InOpen \cap OutOpen) \ NoteOpen
         \/ pc = "listen" /\ pc' = "announce"
         \/ pc' = "prompt"
         \/ pc \in Tidying /\ pc' \in {"fail all", "close all"}
  PROVE  NothingElse'
<1>1. EntriesHeld'
  BY DEF NothingElse, EntriesHeld, Watching, HeldEntry, Tidying, InOpen, OutOpen, NoteOpen
<1>2. OnlyServed'
  BY DEF NothingElse, OnlyServed, Tidying, InOpen, OutOpen, NoteOpen, Serving
<1>3. Watched'
  BY DEF NothingElse, Watched, Tidying, InOpen, OutOpen
<1>. QED
  BY <1>1, <1>2, <1>3 DEF NothingElse

\* While the user's own query runs there is nothing to show.
LEMMA UserRuns ==
  ASSUME NothingElse, run = "prompt", run' = run, pc' \notin Tidying
  PROVE  NothingElse'
BY DEF NothingElse, EntriesHeld, Watching, OnlyServed, Watched

LEMMA OpenAnnounce ==
  ASSUME TableInv, NothingElse, Announce, run # "prompt"
  PROVE  NothingElse'
<1>1. CASE stream_open(Mail, "aux") /\ pc' = "announced"
  <2>1. \A k \in 1..Entries : streams[k] \in {None, Log}
    BY DEF NothingElse, EntriesHeld, Watching, HeldEntry, Announce, InOpen, OutOpen, NoteOpen
  <2>2. /\ \A k \in 1..Entries : k # fd'["aux"] => streams'[k] = streams[k]
        /\ \A i \in Slots : SameBut(conns'[i], conns[i])
    BY <1>1, TableParts, Opens DEF Fds
  <2>3. EntriesHeld'
    BY <1>1, <2>1, <2>2 DEF EntriesHeld, Watching, HeldEntry, NoteOpen
  <2>4. OnlyServed'
    BY <1>1, <2>2 DEF NothingElse, OnlyServed, SameBut, Announce, Tidying, Serving, InOpen, Keep, mainVars
  <2>. QED
    BY <1>1, <2>3, <2>4 DEF NothingElse, Watched, Tidying
<1>2. CASE pc' = "prompt" /\ UNCHANGED <<netVars, streams, fd>>
  BY <1>2 DEF NothingElse, EntriesHeld, Watching, OnlyServed, Watched, Tidying
<1>. QED
  BY <1>1, <1>2 DEF Announce, Goto

LEMMA OpenAnnounced ==
  ASSUME TableInv, NothingElse, Announced, run # "prompt"
  PROVE  NothingElse'
<1>1. /\ fd["aux"] \in 1..Entries /\ streams[fd["aux"]] \in {Mail, Log}
      /\ pc = "announced" /\ pc' = "accept" /\ run' = run
  BY TableParts DEF OwnEntries, NoteOpen, Announced, Goto, Keep, mainVars
<1>2. \A k \in 1..Entries : streams[k] # None => k = fd["aux"] \/ streams[k] = Log
  BY <1>1 DEF NothingElse, EntriesHeld, Watching, HeldEntry, InOpen, OutOpen
<1>3. /\ streams'[fd["aux"]] = None
      /\ \A k \in 1..Entries : k # fd["aux"] => streams'[k] = streams[k]
      /\ \A i \in Slots : i # streams[fd["aux"]] => conns'[i] = conns[i]
  BY <1>1, TableParts, Closes DEF Announced
<1>4. \A k \in 1..Entries : streams'[k] \in {None, Log}
  BY <1>2, <1>3
<1>5. \A i \in Slots : conns'[i] = conns[i]
  BY <1>1, <1>3
<1>6. \A i \in Slots : conns[i].state # "ACCEPTED"
  BY <1>1 DEF NothingElse, OnlyServed, Tidying, Serving, InOpen
<1>. QED
  BY <1>1, <1>4, <1>5, <1>6 DEF NothingElse, EntriesHeld, Watching, OnlyServed, Watched, Tidying

LEMMA OpenAccept ==
  ASSUME TableInv, NothingElse, tcp_accept_next, run # "prompt"
  PROVE  NothingElse'
<1>1. /\ pc = "accept" /\ pc' = "open in" /\ run' = run /\ streams' = streams /\ fd' = fd
      /\ \E i \in Slots : cur' = i /\ conns' = [conns EXCEPT ![i].state = "ACCEPTED"]
  <2>1. {j \in Slots : conns[j].state = "PENDING"} \subseteq Nat
    BY DEF Slots
  <2>. QED
    BY <2>1, MinOfNats DEF tcp_accept_next, Goto
<1>2. \A i \in Slots : conns'[i].state = "ACCEPTED" => i = cur' \/ conns[i].state = "ACCEPTED"
  BY <1>1, TableParts DEF NetOK
<1>3. /\ \A k \in 1..Entries : streams[k] \in {None, Log}
      /\ \A i \in Slots : conns[i].state # "ACCEPTED"
  BY <1>1 DEF NothingElse, EntriesHeld, Watching, OnlyServed, HeldEntry, Tidying, Serving, InOpen, OutOpen, NoteOpen
<1>. QED
  BY <1>1, <1>2, <1>3 DEF NothingElse, EntriesHeld, Watching, OnlyServed, Watched, Tidying, Serving, InOpen

\* The streams of a request find an entry free, beside those that were left.
LEMMA Room ==
  ASSUME TableInv, NothingElse, LostFew, Roomy, run # "prompt", pc \in {"open in", "open out"}
  PROVE  ~full
<1> DEFINE used == {k \in 1..Entries : streams[k] # None}
<1>1. /\ Watching /\ pc \notin NoteOpen
      /\ pc = "open in" => \A k \in 1..Entries : ~HeldEntry(k)
      /\ pc = "open out" => \A k \in 1..Entries : HeldEntry(k) => k = fd["in"]
  BY DEF Watching, HeldEntry, InOpen, OutOpen, NoteOpen
<1>2. used \subseteq Lost \cup {fd["in"]}
  BY <1>1 DEF NothingElse, EntriesHeld, Lost
<1>3. IsFiniteSet(1..Entries) /\ Cardinality(1..Entries) = Entries /\ Entries \in Nat
  <2>0. Entries \in Nat /\ Entries # 0
    BY ONLY SizeAssumption
  <2>1. 1 \in Int /\ Entries \in Int /\ ~(1 > Entries) /\ Entries - 1 + 1 = Entries /\ Entries \in Nat
    BY ONLY <2>0
  <2>2. IsFiniteSet(1..Entries) /\ Cardinality(1..Entries) = Entries - 1 + 1
    BY <2>1, FS_Interval
  <2>. QED
    BY <2>1, <2>2
<1>4. IsFiniteSet(Lost) /\ Cardinality(Lost) \in Nat
  <2>1. Lost \in SUBSET (1..Entries)
    BY DEF Lost
  <2>. QED
    BY <1>3, <2>1, FS_Subset, FS_CardinalityType
<1>5. /\ IsFiniteSet(Lost \cup {fd["in"]})
      /\ Cardinality(Lost \cup {fd["in"]}) <= Cardinality(Lost) + 1
      /\ Cardinality(Lost \cup {fd["in"]}) \in Nat
  <2>1. /\ IsFiniteSet(Lost \cup {fd["in"]})
        /\ \/ Cardinality(Lost \cup {fd["in"]}) = Cardinality(Lost)
           \/ Cardinality(Lost \cup {fd["in"]}) = Cardinality(Lost) + 1
    BY <1>4, FS_AddElement
  <2>. QED
    BY ONLY <1>4, <2>1
<1>6. /\ Cardinality(Lost) <= raised /\ raised \in Nat
      /\ raised + 2 <= Entries
  <2>1. raised \in 0..bound.raises /\ bound.raises \in Nat /\ Entries >= bound.raises + 2
    BY TypesSplit DEF TableInv, MainOK, Roomy
  <2>2. Cardinality(Lost) <= raised
    BY <1>1 DEF LostFew
  <2>. QED
    BY ONLY <1>3, <2>1, <2>2
<1>7. ASSUME full
      PROVE  FALSE
  <2>1. 1..Entries \subseteq Lost \cup {fd["in"]}
    BY <1>2, <1>7 DEF full
  <2>2. Cardinality(1..Entries) <= Cardinality(Lost \cup {fd["in"]})
    BY <1>5, <2>1, FS_Subset
  <2>. QED
    BY ONLY <1>3, <1>4, <1>5, <1>6, <2>2
<1>. QED
  BY <1>7

LEMMA OpenStreams ==
  ASSUME TableInv, NothingElse, LostFew, Roomy, OpenIn \/ OpenOut, run # "prompt"
  PROVE  NothingElse'
<1> DEFINE f == IF pc = "open in" THEN "in" ELSE "out"
<1>1. /\ pc \in {"open in", "open out"} /\ run' = run /\ cur \in Slots
      /\ \/ /\ stream_open(cur, f) /\ cur' = cur
            /\ pc' = IF pc = "open in" THEN "open out" ELSE "read line"
         \/ ~CanOpen(cur)
  BY TableParts DEF OpenIn, OpenOut, OpenStream, Goto, Keep, mainVars
<1>2. /\ pc = "open in" => \A k \in 1..Entries : streams[k] \in {None, Log}
      /\ pc = "open out" => \A k \in 1..Entries : streams[k] # None => k = fd["in"] \/ streams[k] = Log
      /\ \A i \in Slots : conns[i].state = "ACCEPTED" => i = cur
  BY <1>1 DEF NothingElse, EntriesHeld, Watching, OnlyServed, HeldEntry, Tidying, Serving, InOpen, OutOpen, NoteOpen
<1>3. ~full
  BY <1>1, Room
<1>4. conns[cur].state = "ACCEPTED" /\ conns[cur].refs <= 1
  <2>1. CASE pc = "open in"
    <3>1. conns[cur].state = "ACCEPTED" /\ conns[cur].refs = 0
      BY <2>1, TableParts DEF OwnEntries
    <3>. QED
      BY ONLY <3>1
  <2>2. CASE pc = "open out"
    <3>1. conns[cur].refs = 1 /\ (conns[cur].refs > 0 => conns[cur].state = "ACCEPTED")
      BY <1>1, <2>2, TableParts DEF OwnEntries, StreamsOwnConns
    <3>. QED
      BY ONLY <3>1
  <2>. QED
    BY <1>1, <2>1, <2>2
<1>5. stream_open(cur, f) /\ cur' = cur /\ pc' = IF pc = "open in" THEN "open out" ELSE "read line"
  BY <1>1, <1>3, <1>4 DEF CanOpen
<1>6. /\ \A k \in 1..Entries : k # fd'[f] => streams'[k] = streams[k]
      /\ \A e \in Fds \ {f} : fd'[e] = fd[e]
      /\ \A i \in Slots : SameBut(conns'[i], conns[i])
  <2>1. cur \in Slots \cup {Mail, Log}
    BY <1>1
  <2>2. f \in Fds
    BY <1>1 DEF Fds
  <2>3. cur \in Slots => conns[cur].refs <= 1
    BY <1>4
  <2>4. NetOK /\ TableOK /\ StreamsOwnConns /\ fd \in [Fds -> 0..Entries]
    BY TableParts
  <2>5. stream_open(cur, f)
    BY <1>5
  <2> HIDE DEF f
  <2>6. /\ NetOK' /\ TableOK' /\ StreamsOwnConns' /\ fd' \in [Fds -> 0..Entries]
        /\ fd'[f] \in 1..Entries /\ streams'[fd'[f]] = cur
        /\ streams[fd'[f]] = None
        /\ \A k \in 1..Entries : k # fd'[f] => streams'[k] = streams[k]
        /\ \A e \in Fds \ {f} : fd'[e] = fd[e]
        /\ \A i \in Slots : SameBut(conns'[i], conns[i])
        /\ \A i \in Slots : conns'[i].refs = conns[i].refs + (IF i = cur THEN 1 ELSE 0)
        /\ client' = client
    BY ONLY <2>1, <2>2, <2>3, <2>4, <2>5, Opens
  <2>. QED
    BY ONLY <2>6
<1>7. EntriesHeld'
  <2>1. CASE pc = "open in"
    BY <1>2, <1>5, <1>6, <2>1 DEF EntriesHeld, Watching, HeldEntry, InOpen
  <2>2. CASE pc = "open out"
    BY <1>2, <1>5, <1>6, <2>2 DEF EntriesHeld, Watching, HeldEntry, InOpen, OutOpen, Fds
  <2>. QED
    BY <1>1, <2>1, <2>2
<1>8. OnlyServed'
  BY <1>2, <1>5, <1>6 DEF OnlyServed, SameBut, Serving, InOpen
<1>. QED
  BY <1>1, <1>5, <1>7, <1>8 DEF NothingElse, Watched, Tidying

LEMMA OpenNotes ==
  ASSUME TableInv, NothingElse, log \/ request_failed, run # "prompt"
  PROVE  NothingElse'
<1>1. /\ pc \in {"log", "failed"} /\ cur' = cur /\ run' = run
      /\ \/ \E what \in {Mail, Log} : stream_open(what, "aux") /\ pc' \in {"logged", "told"}
         \/ pc' = "close in" /\ UNCHANGED <<netVars, streams, fd>>
  BY DEF log, request_failed, OpenNote, Goto, Keep, mainVars
<1>2. ASSUME NEW what \in {Mail, Log}, stream_open(what, "aux"), pc' \in {"logged", "told"}
      PROVE  NothingElse'
  <2>1. /\ \A k \in 1..Entries : k # fd'["aux"] => streams'[k] = streams[k]
        /\ \A e \in Fds \ {"aux"} : fd'[e] = fd[e]
        /\ \A i \in Slots : SameBut(conns'[i], conns[i])
    <3>1. /\ what \in Slots \cup {Mail, Log} /\ "aux" \in Fds
          /\ what \in Slots => conns[what].refs <= 1
      BY DEF Fds
    <3>2. NetOK /\ TableOK /\ StreamsOwnConns /\ fd \in [Fds -> 0..Entries]
      BY TableParts
    <3>. QED
      BY ONLY <1>2, <3>1, <3>2, Opens
  <2>2. fd'["in"] = fd["in"] /\ fd'["out"] = fd["out"]
    BY <2>1 DEF Fds
  <2>3. EntriesHeld'
    BY <1>1, <1>2, <2>1, <2>2 DEF NothingElse, EntriesHeld, Watching, HeldEntry, InOpen, OutOpen, NoteOpen
  <2>4. OnlyServed'
    BY <1>1, <1>2, <2>1 DEF NothingElse, OnlyServed, SameBut, Serving, InOpen, Tidying
  <2>. QED
    BY <1>2, <2>3, <2>4 DEF NothingElse, Watched, Tidying
<1>3. CASE pc' = "close in" /\ UNCHANGED <<netVars, streams, fd>>
  BY <1>1, <1>3, SameOpen DEF netVars, InOpen, OutOpen, NoteOpen
<1>. QED
  BY <1>1, <1>2, <1>3

LEMMA OpenClose ==
  ASSUME TableInv, NothingElse, CloseNote \/ CloseIn \/ CloseOut, run # "prompt"
  PROVE  NothingElse'
<1> DEFINE f == IF pc = "close in" THEN "in" ELSE IF pc = "close out" THEN "out" ELSE "aux"
<1>1. /\ pc \in {"logged", "told", "close in", "close out"} /\ run' = run
      /\ stream_close(fd[f])
      /\ \/ pc = "close out" /\ pc' = "accept"
         \/ /\ fd' = [fd EXCEPT ![f] = 0] /\ cur' = cur
            /\ pc # "close out" /\ pc' = IF pc = "close in" THEN "close out" ELSE "close in"
  BY DEF CloseNote, CloseIn, CloseOut, CloseStream, Goto, Keep, mainVars
<1>2. /\ fd[f] \in 1..Entries /\ streams[fd[f]] # None /\ cur \in Slots
      /\ pc \in {"close in", "close out"} => streams[fd[f]] = cur
      /\ \A k \in 1..Entries : streams[k] # None => HeldEntry(k) \/ streams[k] = Log
      /\ \A i \in Slots : conns[i].state = "ACCEPTED" => i = cur
  BY <1>1, TableParts DEF OwnEntries, NothingElse, EntriesHeld, Watching, OnlyServed, InOpen, OutOpen, NoteOpen, Tidying
<1>3. /\ NetOK' /\ StreamsOwnConns'
      /\ streams'[fd[f]] = None
      /\ \A k \in 1..Entries : k # fd[f] => streams'[k] = streams[k]
      /\ \A i \in Slots : i # streams[fd[f]] => conns'[i] = conns[i]
      /\ \A i \in Slots : i = streams[fd[f]] =>
           \/ Released(i) /\ conns[i].refs = 1
           \/ /\ SameBut(conns'[i], conns[i]) /\ conns'[i].refs = conns[i].refs - 1
              /\ conns'[i].refs > 0 /\ client' = client
  <2>1. NetOK /\ TableOK /\ StreamsOwnConns
    BY TableParts
  <2>. QED
    BY ONLY <1>1, <1>2, <2>1, Closes
<1>4. /\ \A i \in Slots : conns'[i].state = "ACCEPTED" => i = cur
      /\ \A i \in Slots : i = streams[fd[f]] => conns'[i].state # "ACCEPTED" \/ conns'[i].refs > 0
  <2>1. \A i \in Slots : i = streams[fd[f]] =>
          \/ conns'[i] = Free
          \/ conns'[i].state = conns[i].state /\ conns'[i].refs > 0
    BY ONLY <1>3 DEF Released, SameBut
  <2>2. Free.state = "FREE"
    BY DEF Free
  <2>3. \A i \in Slots : conns'[i].state = "ACCEPTED" => conns[i].state = "ACCEPTED"
    BY ONLY <1>3, <2>1, <2>2
  <2>4. \A i \in Slots : i = streams[fd[f]] => conns'[i].state # "ACCEPTED" \/ conns'[i].refs > 0
    BY ONLY <2>1, <2>2
  <2>. QED
    BY ONLY <1>2, <2>3, <2>4
<1>5. CASE pc = "close out" /\ pc' = "accept"
  <2>1. \A k \in 1..Entries : streams'[k] \in {None, Log}
    BY <1>2, <1>3, <1>5 DEF HeldEntry, InOpen, OutOpen, NoteOpen
  <2>2. conns'[cur].refs = 0
    <3>1. \A k \in 1..Entries : streams'[k] # cur
      BY <1>2, <2>1
    <3>2. Cardinality(Holders(streams', cur)) = 0
      BY <3>1, HoldersSome
    <3>. QED
      BY <1>2, <1>3, <3>2 DEF StreamsOwnConns, Holders
  <2>3. conns'[cur].state # "ACCEPTED"
    <3>1. conns'[cur].state # "ACCEPTED" \/ conns'[cur].refs > 0
      BY <1>2, <1>4, <1>5
    <3>. QED
      BY ONLY <2>2, <3>1
  <2>. QED
    BY <1>4, <1>5, <2>1, <2>3 DEF NothingElse, EntriesHeld, Watching, OnlyServed, Watched, Tidying
<1>6. CASE /\ fd' = [fd EXCEPT ![f] = 0] /\ cur' = cur
           /\ pc # "close out" /\ pc' = IF pc = "close in" THEN "close out" ELSE "close in"
  <2>1. \A e \in Fds \ {f} : fd'[e] = fd[e]
    <3>1. f \in Fds /\ fd \in [Fds -> 0..Entries]
      BY TableParts DEF Fds
    <3>. QED
      BY ONLY <1>6, <3>1
  <2>2. OnlyServed'
    BY <1>4, <1>6 DEF OnlyServed, Serving, InOpen
  <2>3. CASE pc = "close in"
    <3>1. f = "in" /\ fd'["out"] = fd["out"] /\ pc' = "close out"
      BY <1>6, <2>1, <2>3 DEF Fds
    <3>2. \A k \in 1..Entries : streams[k] # None => k \in {fd["in"], fd["out"]} \/ streams[k] = Log
      BY <1>2, <2>3 DEF HeldEntry, NoteOpen
    <3>3. \A k \in 1..Entries : streams'[k] # None => k = fd'["out"] \/ streams'[k] = Log
      BY <1>3, <3>1, <3>2
    <3>4. EntriesHeld'
      BY <3>1, <3>3 DEF EntriesHeld, Watching, HeldEntry, OutOpen
    <3>. QED
      BY <1>6, <2>2, <2>3, <3>4 DEF NothingElse, Watched, Tidying
  <2>4. CASE pc # "close in"
    <3>1. f = "aux" /\ fd'["in"] = fd["in"] /\ fd'["out"] = fd["out"]
      BY <1>6, <2>1, <2>4 DEF Fds
    <3>2. EntriesHeld'
      BY <1>1, <1>2, <1>3, <1>6, <2>4, <3>1 DEF EntriesHeld, Watching, HeldEntry, InOpen, OutOpen, NoteOpen
    <3>. QED
      BY <1>6, <2>2, <2>4, <3>2 DEF NothingElse, Watched, Tidying
  <2>. QED
    BY <2>3, <2>4
<1>. QED
  BY <1>1, <1>5, <1>6

LEMMA OpenMain ==
  ASSUME TableInv, NothingElse, Main \/ Crash
  PROVE  NothingElse'
<1>1. CASE tcp_fail_all
  BY <1>1 DEF tcp_fail_all, Goto, Keep, mainVars, NothingElse, EntriesHeld, Watching, OnlyServed, Watched, Tidying
<1>2. CASE trilog_close_streams
  <2>1. /\ pc = "close all" /\ pc' \in {"close all", "drop all"} /\ run' = run
        /\ pc' = "drop all" => \A k \in 1..Entries : streams'[k] = None
    BY <1>2 DEF trilog_close_streams, Goto, Keep, mainVars
  <2>. QED
    BY <2>1 DEF NothingElse, EntriesHeld, Watching, OnlyServed, Watched, Tidying
<1>3. CASE Restart
  <2>1. /\ streams' = streams /\ pc' \in {"prompt", "listen"}
        /\ conns' = [i \in Slots |-> IF conns[i].state = "ACCEPTED" THEN Free ELSE conns[i]]
        /\ \A k \in 1..Entries : streams[k] = None
    BY <1>3, TableParts DEF Restart, tcp_drop_all, Goto, OwnEntries
  <2>2. \A i \in Slots : conns'[i].state # "ACCEPTED"
    BY <2>1 DEF Free
  <2>. QED
    BY <2>1, <2>2 DEF NothingElse, EntriesHeld, Watching, OnlyServed, Watched, Tidying
<1>4. CASE Crash
  <2>1. run' = run /\ pc' = IF run = "prompt" THEN "prompt" ELSE "fail all"
    BY <1>4 DEF Crash, Goto
  <2>. QED
    BY <2>1 DEF NothingElse, EntriesHeld, Watching, OnlyServed, Watched, Tidying
<1>. QED
  BY <1>1, <1>2, <1>3, <1>4 DEF Main

\* An exhausted heap leaves what log/1 had open.
LEMMA OpenExhausted ==
  ASSUME TableInv, NothingElse, HeapExhausted
  PROVE  NothingElse'
<1>1. streams' = streams /\ conns' = conns /\ run' = run /\ pc \notin Tidying \cup {"prompt"}
  BY DEF HeapExhausted, netVars, Working, Tidying
<1>2. CASE pc' = "prompt"
  BY <1>1, <1>2 DEF NothingElse, EntriesHeld, Watching, OnlyServed, Watched, Tidying
<1>3. CASE Handling /\ pc' = "failed" /\ fd' = fd /\ cur' = cur
  <2>1. EntriesHeld'
    BY <1>1, <1>3, TableParts DEF NothingElse, EntriesHeld, Watching, HeldEntry, Handling, OwnEntries,
       Tidying, InOpen, OutOpen, NoteOpen
  <2>2. OnlyServed'
    BY <1>1, <1>3 DEF NothingElse, OnlyServed, Serving, InOpen, Tidying
  <2>. QED
    BY <1>1, <1>3, <2>1, <2>2 DEF NothingElse, Watched, Tidying
<1>. QED
  BY <1>2, <1>3 DEF HeapExhausted, Goto, serverVars

LEMMA OpenNetwork ==
  ASSUME TableInv, NothingElse, Network \/ Time
  PROVE  NothingElse'
<1>1. UNCHANGED <<streams, pc, fd, cur, run>>
  BY DEF Network, Time, Connect, Send, Finish, Reset, Expire, serverVars, mainVars
<1>2. \A i \in Slots : conns'[i].state = "ACCEPTED" => conns[i].state = "ACCEPTED"
  <2>1. NetOK
    BY TableParts
  <2>2. ASSUME NEW c \in Clients, Connect(c)
        PROVE  \A i \in Slots : conns'[i].state = "ACCEPTED" => conns[i].state = "ACCEPTED"
    <3>1. \/ conns' = conns /\ client'[c] = Away
          \/ /\ client'[c].up = TRUE /\ client'[c].got = <<>>
             /\ \E i \in Slots :
                  /\ conns[i].state = "FREE"
                  /\ conns'[i].pcb = c /\ conns'[i].state = "PENDING" /\ conns'[i].rx = <<>>
                  /\ conns'[i].refs = 0
                  /\ \A j \in Slots : j # i => conns'[j] = conns[j]
      BY ONLY <2>1, <2>2, c \in Clients, Connects
    <3>2. \/ conns' = conns
          \/ \E i \in Slots : /\ conns'[i].state = "PENDING"
                              /\ \A j \in Slots : j # i => conns'[j] = conns[j]
      BY ONLY <3>1
    <3>. QED
      BY ONLY <3>2
  <2>3. ASSUME NEW c \in Clients, Send(c) \/ Finish(c) \/ Reset(c)
        PROVE  \E i \in Slots : Elsewhere(i, c)
    <3>1. CASE Send(c)
      BY <2>1, <3>1, Sends
    <3>2. CASE Finish(c)
      BY <2>1, <3>2, Finishes
    <3>3. CASE Reset(c)
      BY <2>1, <3>3, Resets
    <3>. QED
      BY <2>3, <3>1, <3>2, <3>3
  <2>4. ASSUME NEW j \in Slots, Expire(j)
        PROVE  \A i \in Slots : conns'[i].state = conns[i].state
    BY <2>1, <2>4, Expires
  <2>. QED
    BY <2>2, <2>3, <2>4 DEF Network, Time, Elsewhere
<1>. QED
  BY <1>1, <1>2, SameOpen

\* Reading and replying.
LEMMA OpenReads ==
  ASSUME TableInv, NothingElse, tcp_stream_read \/ ReadLine \/ ReadEnd \/ ReplyHead \/ ReplyBody
  PROVE  NothingElse'
<1>1. /\ streams' = streams /\ fd' = fd /\ cur' = cur /\ run' = run /\ cur \in Slots
      /\ {pc, pc'} \subseteq (InOpen \cap OutOpen) \ NoteOpen
  BY TableParts DEF tcp_stream_read, ReadLine, ReadEnd, ReplyHead, ReplyBody, Reading, Keep, Goto, serverVars,
     mainVars, InOpen, OutOpen, NoteOpen
<1>2. NetOK /\ \A i \in Slots : conns[i] \in Conn
  BY TableParts
<1>3. \A i \in Slots : conns'[i].state = "ACCEPTED" => conns[i].state = "ACCEPTED"
  <2>1. CASE tcp_stream_read \/ ReadEnd
    <3>1. CASE tcp_stream_read
      <4>1. PICK x : conns' = [conns EXCEPT ![cur] = [conns[cur] EXCEPT !.rx = x]]
        BY <3>1 DEF tcp_stream_read
      <4>2. conns'[cur] = [conns[cur] EXCEPT !.rx = x] /\ \A i \in Slots : i # cur => conns'[i] = conns[i]
        BY <1>1, <1>2, <4>1 DEF NetOK
      <4>3. conns'[cur].state = conns[cur].state
        BY ONLY <1>1, <1>2, <4>2 DEF Conn
      <4>. QED
        BY <4>2, <4>3
    <3>2. CASE ReadEnd
      <4>1. conns' = [conns EXCEPT ![cur] = [conns[cur] EXCEPT !.eof = TRUE]]
        BY <3>2 DEF ReadEnd
      <4>2. conns'[cur] = [conns[cur] EXCEPT !.eof = TRUE] /\ \A i \in Slots : i # cur => conns'[i] = conns[i]
        BY <1>1, <1>2, <4>1 DEF NetOK
      <4>3. conns'[cur].state = conns[cur].state
        BY ONLY <1>1, <1>2, <4>2 DEF Conn
      <4>. QED
        BY <4>2, <4>3
    <3>. QED
      BY <2>1, <3>1, <3>2
  <2>2. CASE ReadLine
    BY <2>2 DEF ReadLine, netVars
  <2>3. CASE ReplyHead \/ ReplyBody
    <3>1. line \in Clients \cup {None}
      BY TableParts DEF ServerOK
    <3>2. <<"head", line>> \in Notes /\ <<"body", line>> \in Notes
      BY <3>1 DEF Notes
    <3>3. conns' = conns \/ \E what \in Notes : Wrote(cur, what)
      BY <2>3, <3>2 DEF ReplyHead, ReplyBody, GaveUp, netVars
    <3>4. ASSUME NEW what \in Notes, Wrote(cur, what)
          PROVE  Touches(cur)
      BY <1>1, <1>2, <3>4, Writes
    <3>. QED
      BY <3>3, <3>4 DEF Touches
  <2>. QED
    BY <2>1, <2>2, <2>3
<1>. QED
  BY <1>1, <1>3, SameOpen

LEMMA OpenNext ==
  ASSUME TableInv, NothingElse, LostFew, Roomy, [Next]_vars
  PROVE  NothingElse'
<1>1. CASE UNCHANGED vars
  BY <1>1, SameOpen DEF vars, netVars, serverVars, mainVars
<1>2. CASE Interpreter
  <2>1. run' = run /\ pc' \notin Tidying
    BY <1>2 DEF Interpreter, Listen, Announce, Announced, tcp_accept_next, OpenIn, OpenOut, OpenStream,
       tcp_stream_read, Reading, ReadLine, ReadEnd, ReplyHead, ReplyBody, log, request_failed, OpenNote,
       CloseNote, CloseIn, CloseOut, CloseStream, Keep, mainVars, Tidying, Goto
  <2>2. CASE run = "prompt"
    BY <2>1, <2>2, UserRuns
  <2>3. CASE run # "prompt" /\ Listen
    BY <2>1, <2>3, SameOpen DEF Listen, netVars, serverVars, Goto
  <2>4. CASE run # "prompt" /\ ~Listen
    BY <1>2, <2>4, OpenAnnounce, OpenAnnounced, OpenAccept, OpenStreams, OpenReads, OpenNotes, OpenClose
       DEF Interpreter
  <2>. QED
    BY <2>2, <2>3, <2>4
<1>3. CASE Interrupt
  BY <1>3, SameOpen DEF Interrupt, netVars, serverVars, mainVars, Goto
<1>4. CASE PromptServe \/ PromptOpen
  <2>1. pc' \in {"listen", "prompt"} /\ (pc' = "listen" => run' = "prompt")
    BY <1>4 DEF PromptServe, PromptOpen, Asked, Goto
  <2>. QED
    BY <2>1 DEF NothingElse, EntriesHeld, Watching, OnlyServed, Watched, Tidying
<1>. QED
  BY <1>1, <1>2, <1>3, <1>4, OpenMain, OpenExhausted, OpenNetwork DEF Next

\* An entry of the log is of log/1, or was left before.
LEMMA LostKept ==
  ASSUME LostFew, Watching, raised' = raised, raised \in Nat,
         \A k \in 1..Entries : streams'[k] = Log =>
           \/ streams[k] = Log /\ ~(pc \in NoteOpen /\ k = fd["aux"])
           \/ pc' \in NoteOpen /\ k = fd'["aux"]
  PROVE  LostFew'
<1>1. Lost' \subseteq Lost
  BY DEF Lost
<1>2. IsFiniteSet(Lost) /\ Cardinality(Lost) <= raised
  <2>1. Lost \in SUBSET (1..Entries) /\ IsFiniteSet(1..Entries)
    BY FS_Interval DEF Lost
  <2>. QED
    BY <2>1, FS_Subset DEF LostFew
<1>3. Cardinality(Lost') <= Cardinality(Lost) /\ Cardinality(Lost') \in Nat /\ Cardinality(Lost) \in Nat
  BY <1>1, <1>2, FS_Subset, FS_CardinalityType
<1>. QED
  BY <1>2, <1>3 DEF LostFew

LEMMA NoneLost ==
  ASSUME raised' \in Nat, \A k \in 1..Entries : streams'[k] # Log
  PROVE  LostFew'
<1>1. Lost' = {}
  BY DEF Lost
<1>. QED
  BY <1>1, FS_EmptySet DEF LostFew

LEMMA LostExhausted ==
  ASSUME LostFew, raised \in Nat, HeapExhausted
  PROVE  LostFew'
<1>1. /\ streams' = streams /\ raised' = raised + 1 /\ run' = run
      /\ \/ pc' = "prompt"
         \/ pc' = "failed" /\ fd' = fd /\ Handling
  BY DEF HeapExhausted, Goto, serverVars
<1>2. CASE pc' = "prompt" \/ run = "prompt"
  BY <1>1, <1>2 DEF LostFew, Watching
<1>3. CASE pc' = "failed" /\ fd' = fd /\ Handling /\ run # "prompt"
  <2>1. Watching /\ Lost' \subseteq Lost \cup {fd["aux"]}
    BY <1>1, <1>3 DEF Watching, Handling, Lost, NoteOpen
  <2>2. IsFiniteSet(Lost) /\ Cardinality(Lost) <= raised /\ Cardinality(Lost) \in Nat
    <3>1. Lost \in SUBSET (1..Entries) /\ IsFiniteSet(1..Entries)
      BY FS_Interval DEF Lost
    <3>. QED
      BY <2>1, <3>1, FS_Subset, FS_CardinalityType DEF LostFew
  <2>3. /\ IsFiniteSet(Lost \cup {fd["aux"]})
        /\ \/ Cardinality(Lost \cup {fd["aux"]}) = Cardinality(Lost)
           \/ Cardinality(Lost \cup {fd["aux"]}) = Cardinality(Lost) + 1
    BY <2>2, FS_AddElement
  <2>4. /\ Cardinality(Lost') <= Cardinality(Lost \cup {fd["aux"]})
        /\ Cardinality(Lost') \in Nat /\ Cardinality(Lost \cup {fd["aux"]}) \in Nat
    BY <2>1, <2>3, FS_Subset, FS_CardinalityType
  <2>5. Cardinality(Lost') <= raised'
    BY ONLY <1>1, <2>2, <2>3, <2>4, raised \in Nat
  <2>. QED
    BY <2>5 DEF LostFew
<1>. QED
  BY <1>1, <1>2, <1>3

LEMMA LostServer ==
  ASSUME TableInv, LostFew, Interpreter, run # "prompt", raised \in Nat
  PROVE  LostFew'
<1>1. Watching /\ raised' = raised
  BY DEF Watching, Interpreter, Listen, Announce, Announced, tcp_accept_next, OpenIn, OpenOut, OpenStream,
     tcp_stream_read, Reading, ReadLine, ReadEnd, ReplyHead, ReplyBody, log, request_failed, OpenNote,
     CloseNote, CloseIn, CloseOut, CloseStream, Keep, mainVars
<1>2. CASE streams' = streams /\ pc \notin NoteOpen
  BY <1>1, <1>2, LostKept
<1>3. NetOK /\ TableOK /\ StreamsOwnConns /\ fd \in [Fds -> 0..Entries] /\ cur \in Slots
  BY TableParts
<1>4. ASSUME NEW h \in Slots \cup {Mail, Log}, NEW f \in Fds, stream_open(h, f),
             h \in Slots => conns[h].refs <= 1, pc \notin NoteOpen,
             h = Log => f = "aux" /\ pc' \in NoteOpen
      PROVE  LostFew'
  <2>1. /\ streams'[fd'[f]] = h
        /\ \A k \in 1..Entries : k # fd'[f] => streams'[k] = streams[k]
    BY ONLY <1>3, <1>4, Opens
  <2>. QED
    BY <1>1, <1>4, <2>1, LostKept
<1>5. ASSUME NEW f \in Fds, stream_close(fd[f]), fd[f] \in 1..Entries, streams[fd[f]] # None,
             pc \in NoteOpen => f = "aux"
      PROVE  LostFew'
  <2>1. /\ streams'[fd[f]] = None
        /\ \A k \in 1..Entries : k # fd[f] => streams'[k] = streams[k]
    BY ONLY <1>3, <1>5, Closes
  <2>. QED
    BY <1>1, <1>5, <2>1, LostKept
<1>6. CASE Listen \/ tcp_accept_next \/ tcp_stream_read \/ ReadLine \/ ReadEnd \/ ReplyHead \/ ReplyBody
  BY <1>2, <1>6 DEF Listen, tcp_accept_next, tcp_stream_read, ReadLine, ReadEnd, ReplyHead, ReplyBody, Reading,
     NoteOpen
<1>7. CASE Announce \/ log \/ request_failed
  <2>1. /\ pc \notin NoteOpen
        /\ \/ \E what \in {Mail, Log} : /\ stream_open(what, "aux")
                                        /\ pc' \in NoteOpen
           \/ streams' = streams
    BY <1>7 DEF Announce, log, request_failed, OpenNote, Goto, NoteOpen
  <2>2. ASSUME NEW what \in {Mail, Log}
        PROVE  what \in Slots \cup {Mail, Log} /\ what \notin Slots /\ "aux" \in Fds
    BY DEF Fds
  <2>. QED
    BY <1>2, <1>4, <2>1, <2>2
<1>8. CASE OpenIn \/ OpenOut
  <2>1. /\ pc \in {"open in", "open out"} /\ pc \notin NoteOpen
        /\ \/ \E f \in Fds : stream_open(cur, f)
           \/ streams' = streams
    BY <1>8 DEF OpenIn, OpenOut, OpenStream, Fds, NoteOpen
  <2>2. conns[cur].refs <= 1
    <3>1. conns[cur].refs = 0 \/ conns[cur].refs = 1
      BY <2>1, TableParts DEF OwnEntries
    <3>. QED
      BY ONLY <3>1
  <2>. QED
    BY <1>2, <1>3, <1>4, <2>1, <2>2
<1>9. CASE Announced \/ CloseNote \/ CloseIn \/ CloseOut
  <2>1. \E f \in Fds : /\ stream_close(fd[f]) /\ fd[f] \in 1..Entries /\ streams[fd[f]] # None
                       /\ pc \in NoteOpen => f = "aux"
    BY <1>9, TableParts DEF Announced, CloseNote, CloseIn, CloseOut, CloseStream, OwnEntries, Fds, InOpen,
       OutOpen, NoteOpen
  <2>. QED
    BY <1>5, <2>1
<1>. QED
  BY <1>6, <1>7, <1>8, <1>9 DEF Interpreter

LEMMA LostNext ==
  ASSUME TableInv, NothingElse, LostFew, [Next]_vars
  PROVE  LostFew'
<1>1. raised \in Nat
  <2>1. raised \in 0..bound.raises
    BY TypesSplit DEF TableInv, MainOK
  <2>. QED
    BY <2>1
<1>2. CASE Interpreter
  <2>1. run' = run
    BY <1>2 DEF Interpreter, Listen, Announce, Announced, tcp_accept_next, OpenIn, OpenOut, OpenStream,
       tcp_stream_read, Reading, ReadLine, ReadEnd, ReplyHead, ReplyBody, log, request_failed, OpenNote,
       CloseNote, CloseIn, CloseOut, CloseStream, Keep, mainVars
  <2>. QED
    BY <1>1, <1>2, <2>1, LostServer DEF LostFew, Watching
<1>3. CASE Main
  <2>1. CASE tcp_fail_all
    BY <2>1 DEF tcp_fail_all, Goto, LostFew, Watching
  <2>2. CASE trilog_close_streams
    <3>1. /\ pc' = "close all" \/ \A k \in 1..Entries : streams'[k] = None
          /\ raised' = raised
      BY <2>2 DEF trilog_close_streams, Goto, Keep, mainVars
    <3>. QED
      BY <1>1, <3>1, NoneLost DEF LostFew, Watching
  <2>3. CASE Restart
    <3>1. raised' = raised /\ \A k \in 1..Entries : streams'[k] = None
      BY <2>3, TableParts DEF Restart, OwnEntries
    <3>. QED
      BY <1>1, <3>1, NoneLost
  <2>. QED
    BY <1>3, <2>1, <2>2, <2>3 DEF Main
<1>4. CASE Crash \/ Interrupt \/ PromptServe \/ PromptOpen
  <2>1. pc' \in {"prompt", "fail all"} \/ run' = "prompt"
    BY <1>4 DEF Crash, Interrupt, PromptServe, PromptOpen, Asked, Goto
  <2>. QED
    BY <2>1 DEF LostFew, Watching
<1>5. CASE Network \/ Time \/ UNCHANGED vars
  <2>1. UNCHANGED <<streams, pc, fd, run, raised>>
    BY <1>5 DEF Network, Time, Connect, Send, Finish, Reset, Expire, vars, serverVars, mainVars
  <2>. QED
    BY <2>1 DEF LostFew, Watching, Lost
<1>. QED
  BY <1>1, <1>2, <1>3, <1>4, <1>5, LostExhausted DEF Next

(***************************************************************************)
(* The peers: who has sent what, and what each has got.                    *)
(***************************************************************************)
LEMMA NoSenders == Senders(<<>>) = {}
BY DEF Senders

LEMMA SendersAppend ==
  ASSUME NEW s \in Seq(Clients), NEW e \in Clients
  PROVE  Senders(Append(s, e)) = Senders(s) \cup {e}
<1>1. /\ Len(Append(s, e)) = Len(s) + 1 /\ Len(s) \in Nat
      /\ Append(s, e)[Len(s) + 1] = e
      /\ \A n \in 1..Len(s) : Append(s, e)[n] = s[n]
  BY AppendProperties, LenProperties
<1>. QED
  BY <1>1 DEF Senders

LEMMA SendersTail ==
  ASSUME NEW s \in Seq(Clients), s # <<>>
  PROVE  Head(s) \in Senders(s) /\ Senders(Tail(s)) \subseteq Senders(s)
<1>1. /\ Len(s) \in Nat /\ Len(s) >= 1 /\ Head(s) = s[1]
      /\ Len(Tail(s)) = Len(s) - 1 /\ \A n \in 1..Len(Tail(s)) : Tail(s)[n] = s[n + 1]
  BY HeadTailProperties, LenProperties, EmptySeq
<1>. QED
  BY <1>1 DEF Senders

LEMMA SendersSub ==
  ASSUME NEW s \in Seq(Clients), NEW m \in 1..Len(s) + 1, NEW n \in m - 1..Len(s)
  PROVE  Senders(SubSeq(s, m, n)) \subseteq Senders(s)
<1>1. /\ Len(s) \in Nat /\ Len(SubSeq(s, m, n)) = n - m + 1
      /\ \A i \in 1..n - m + 1 : SubSeq(s, m, n)[i] = s[m + i - 1]
  BY LenProperties, SubSeqProperties
<1>. QED
  BY <1>1 DEF Senders

\* A step that makes no connection and sends nothing: a connection may end, and its
\* peer be away.
Quiet ==
  /\ \A i \in Slots :
       /\ conns'[i].pcb # None =>
            /\ conns'[i].pcb = conns[i].pcb /\ conns'[i].sent = conns[i].sent
            /\ client'[conns[i].pcb].up = client[conns[i].pcb].up
       /\ Senders(conns'[i].rx) \subseteq Senders(conns[i].rx)
  /\ \A c \in Clients : client'[c].got \in {client[c].got, <<>>}

LEMMA QuietKeeps ==
  ASSUME NetOK, NetOK', OneConn, GotOwn, Quiet
  PROVE  OneConn' /\ GotOwn'
<1>1. \A i \in Slots : conns'[i].pcb \in Clients \cup {None}
  BY DEF NetOK, Conn
<1>2. OneConn'
  BY <1>1 DEF OneConn, Quiet
<1>3. GotOwn'
  BY DEF GotOwn, Quiet
<1>. QED
  BY <1>2, <1>3

\* serve/1 has left the request behind, or goes on with what has come of it.
Goes ==
  \/ line' = None /\ inbuf' = <<>>
  \/ /\ pc \in Serving /\ pc' \in Serving /\ cur' = cur
     /\ line' \in {line, None} \cup Senders(inbuf)
     /\ Senders(inbuf') \subseteq Senders(inbuf) \cup Senders(conns[cur].rx)

LEMMA OwnersKept ==
  ASSUME NetOK, OneOwner, Goes,
         \A i \in Slots : /\ conns'[i].pcb \in {conns[i].pcb, None}
                          /\ Senders(conns'[i].rx) \subseteq Senders(conns[i].rx)
  PROVE  OneOwner'
<1>1. ASSUME NEW i \in Slots, NEW x \in Clients \cup {None}, FromOne(i, x)
      PROVE  FromOne(i, x)'
  <2>1. CASE line' = None /\ inbuf' = <<>>
    BY <1>1, <2>1, NoSenders DEF FromOne
  <2>2. CASE /\ pc \in Serving /\ pc' \in Serving /\ cur' = cur
             /\ line' \in {line, None} \cup Senders(inbuf)
             /\ Senders(inbuf') \subseteq Senders(inbuf) \cup Senders(conns[cur].rx)
    BY <1>1, <2>2 DEF FromOne
  <2>. QED
    BY <2>1, <2>2 DEF Goes
<1>2. \A i \in Slots : \E x \in Clients \cup {None} : FromOne(i, x)'
  BY <1>1 DEF OneOwner
<1>3. pc' \notin Serving => line' = None /\ inbuf' = <<>>
  BY DEF Goes
<1>. QED
  BY <1>2, <1>3 DEF OneOwner

LEMMA QuietGoes ==
  ASSUME NetOK, NetOK', PeersInv, Quiet, Goes
  PROVE  PeersInv'
<1>1. OneConn' /\ GotOwn'
  BY QuietKeeps DEF PeersInv
<1>2. \A i \in Slots : conns'[i].pcb \in {conns[i].pcb, None}
  BY DEF Quiet
<1>3. OneOwner'
  BY <1>2, OwnersKept DEF PeersInv, Quiet
<1>. QED
  BY <1>1, <1>3 DEF PeersInv

\* The peers of the connections that are released find them closed, and the others
\* have none of them.
LEMMA GoneQuiet ==
  ASSUME NetOK, OneConn, NEW gone \in SUBSET Slots,
         client' = HungUp(client, Peers(gone)),
         \A i \in Slots : IF i \in gone THEN conns'[i] = Free ELSE conns'[i] = conns[i]
  PROVE  Quiet
<1>1. \A c \in Clients : client'[c] = IF c \in Peers(gone) THEN Away ELSE client[c]
  BY DEF HungUp
<1>2. Away.got = <<>> /\ Free.pcb = None /\ Free.rx = <<>>
  BY DEF Away, Free
<1>3. \A i \in Slots : conns[i].pcb \in Clients \cup {None}
  BY DEF NetOK, Conn
<1>4. \A i \in Slots \ gone : conns[i].pcb # None => conns[i].pcb \notin Peers(gone)
  BY DEF OneConn, Peers
<1>5. \A c \in Clients : client'[c].got \in {client[c].got, <<>>}
  BY <1>1, <1>2
<1>6. \A i \in Slots :
        /\ conns'[i].pcb # None =>
             /\ conns'[i].pcb = conns[i].pcb /\ conns'[i].sent = conns[i].sent
             /\ client'[conns[i].pcb].up = client[conns[i].pcb].up
        /\ Senders(conns'[i].rx) \subseteq Senders(conns[i].rx)
  BY <1>1, <1>2, <1>3, <1>4, NoSenders
<1>. QED
  BY <1>5, <1>6 DEF Quiet

LEMMA SameQuiet ==
  ASSUME \A i \in Slots : SameBut(conns'[i], conns[i]), client' = client
  PROVE  Quiet
BY DEF Quiet, SameBut

LEMMA CloseQuiet ==
  ASSUME NetOK, TableOK, StreamsOwnConns, OneConn,
         NEW k \in 1..Entries, streams[k] # None, stream_close(k)
  PROVE  Quiet
<1>1. /\ \A i \in Slots : i # streams[k] => conns'[i] = conns[i]
      /\ \A i \in Slots : i = streams[k] =>
           \/ Released(i) /\ conns[i].refs = 1
           \/ /\ SameBut(conns'[i], conns[i]) /\ conns'[i].refs = conns[i].refs - 1
              /\ conns'[i].refs > 0 /\ client' = client
      /\ streams[k] \notin Slots => client' = client
  BY Closes
<1>2. CASE streams[k] \in Slots /\ Released(streams[k])
  BY <1>1, <1>2, GoneQuiet DEF Released
<1>3. CASE ~(streams[k] \in Slots /\ Released(streams[k]))
  <2>1. client' = client /\ \A i \in Slots : SameBut(conns'[i], conns[i])
    BY <1>1, <1>3 DEF SameBut
  <2>. QED
    BY <2>1, SameQuiet
<1>. QED
  BY <1>2, <1>3

LEMMA OpenQuiet ==
  ASSUME NetOK, TableOK, StreamsOwnConns, fd \in [Fds -> 0..Entries],
         NEW h \in Slots \cup {Mail, Log}, NEW f \in Fds, stream_open(h, f),
         h \in Slots => conns[h].refs <= 1
  PROVE  Quiet
<1>1. client' = client /\ \A i \in Slots : SameBut(conns'[i], conns[i])
  BY Opens
<1>. QED
  BY <1>1, SameQuiet

LEMMA OpensQuiet ==
  ASSUME TableInv, Announce \/ OpenIn \/ OpenOut \/ log \/ request_failed
  PROVE  Quiet
<1>1. NetOK /\ TableOK /\ StreamsOwnConns /\ fd \in [Fds -> 0..Entries] /\ cur \in Slots
  BY TableParts
<1>2. ASSUME NEW what \in {Mail, Log}, stream_open(what, "aux")
      PROVE  Quiet
  <2>1. what \in Slots \cup {Mail, Log} /\ "aux" \in Fds /\ (what \in Slots => conns[what].refs <= 1)
    BY DEF Fds
  <2>. QED
    BY ONLY <1>1, <1>2, <2>1, OpenQuiet
<1>3. CASE UNCHANGED netVars
  BY <1>3, SameQuiet DEF netVars, SameBut
<1>4. CASE Announce \/ log \/ request_failed
  BY <1>2, <1>3, <1>4 DEF Announce, log, request_failed, OpenNote, netVars
<1>5. ASSUME NEW f \in Fds, stream_open(cur, f), pc \in {"open in", "open out"}
      PROVE  Quiet
  <2>1. conns[cur].refs = 0 \/ conns[cur].refs = 1
    BY <1>5, TableParts DEF OwnEntries
  <2>2. conns[cur].refs <= 1
    BY ONLY <2>1
  <2>3. cur \in Slots \cup {Mail, Log}
    BY <1>1
  <2>. QED
    BY ONLY <1>1, <1>5, <2>2, <2>3, OpenQuiet
<1>6. CASE OpenIn \/ OpenOut
  BY <1>3, <1>5, <1>6 DEF OpenIn, OpenOut, OpenStream, Fds, netVars
<1>. QED
  BY <1>4, <1>6

LEMMA ClosesQuiet ==
  ASSUME TableInv, OneConn,
         Announced \/ CloseNote \/ CloseIn \/ CloseOut \/ trilog_close_streams
  PROVE  Quiet
<1>1. NetOK /\ TableOK /\ StreamsOwnConns
  BY TableParts
<1>2. \/ \E k \in 1..Entries : streams[k] # None /\ stream_close(k)
      \/ conns' = conns /\ client' = client
  <2>1. CASE Announced
    BY <2>1, TableParts DEF Announced, OwnEntries, NoteOpen
  <2>2. CASE CloseNote \/ CloseIn \/ CloseOut
    <3>1. \E f \in {"in", "out", "aux"} :
            fd[f] \in 1..Entries /\ streams[fd[f]] # None /\ stream_close(fd[f])
      BY <2>2, TableParts DEF CloseNote, CloseIn, CloseOut, CloseStream, OwnEntries, InOpen, OutOpen, NoteOpen
    <3>. QED
      BY <3>1
  <2>3. CASE trilog_close_streams
    <3> DEFINE open == {k \in 1..Entries : streams[k] # None}
    <3>1. open # {} => Min(open) \in 1..Entries /\ streams[Min(open)] # None
      BY MinOfNats
    <3>2. \/ open # {} /\ stream_close(Min(open))
          \/ conns' = conns /\ client' = client
      BY <2>3 DEF trilog_close_streams, netVars
    <3>. QED
      BY <3>1, <3>2
  <2>. QED
    BY <2>1, <2>2, <2>3
<1>3. ASSUME NEW k \in 1..Entries, streams[k] # None, stream_close(k)
      PROVE  Quiet
  BY ONLY <1>1, <1>3, OneConn, CloseQuiet
<1>4. CASE conns' = conns /\ client' = client
  BY <1>4, SameQuiet DEF SameBut
<1>. QED
  BY <1>2, <1>3, <1>4

\* A connection of which only fields change that say nothing of its peer.
LEMMA OneQuiet ==
  ASSUME NEW i \in Slots, client' = client,
         \A j \in Slots : j # i => conns'[j] = conns[j],
         conns'[i].pcb = conns[i].pcb, conns'[i].sent = conns[i].sent,
         Senders(conns'[i].rx) \subseteq Senders(conns[i].rx)
  PROVE  Quiet
BY DEF Quiet

LEMMA ReadsQuiet ==
  ASSUME TableInv, tcp_stream_read
  PROVE  Quiet /\ Senders(inbuf') \subseteq Senders(conns[cur].rx)
<1>1. PICK n \in 1..Len(conns[cur].rx) :
        /\ inbuf' = SubSeq(conns[cur].rx, 1, n)
        /\ conns' = [conns EXCEPT ![cur].rx = SubSeq(@, n + 1, Len(@))]
  BY DEF tcp_stream_read
<1>2. cur \in Slots /\ conns[cur] \in Conn /\ conns[cur].rx \in Seq(Clients) /\ Len(conns[cur].rx) \in Nat
  BY TableParts, LenProperties DEF Conn
<1>3. /\ conns'[cur] = [conns[cur] EXCEPT !.rx = SubSeq(conns[cur].rx, n + 1, Len(conns[cur].rx))]
      /\ \A j \in Slots : j # cur => conns'[j] = conns[j]
      /\ client' = client
  BY <1>1, <1>2, TableParts DEF NetOK, tcp_stream_read
<1>4. /\ conns'[cur].pcb = conns[cur].pcb /\ conns'[cur].sent = conns[cur].sent
      /\ conns'[cur].rx = SubSeq(conns[cur].rx, n + 1, Len(conns[cur].rx))
  BY ONLY <1>2, <1>3 DEF Conn
<1>5. /\ 1 \in 1..Len(conns[cur].rx) + 1 /\ n \in 1 - 1..Len(conns[cur].rx)
      /\ n + 1 \in 1..Len(conns[cur].rx) + 1 /\ Len(conns[cur].rx) \in n + 1 - 1..Len(conns[cur].rx)
  BY <1>1, <1>2
<1>6. Senders(inbuf') \subseteq Senders(conns[cur].rx)
  BY <1>1, <1>2, <1>5, SendersSub
<1>7. Senders(conns'[cur].rx) \subseteq Senders(conns[cur].rx)
  BY <1>2, <1>4, <1>5, SendersSub
<1>. QED
  BY <1>2, <1>3, <1>4, <1>6, <1>7, OneQuiet

LEMMA OthersQuiet ==
  ASSUME TableInv, OneConn,
         \/ tcp_accept_next \/ ReadEnd \/ Restart \/ Time
         \/ \E c \in Clients : Finish(c) \/ Reset(c)
         \/ UNCHANGED netVars
  PROVE  Quiet
<1>1. NetOK /\ cur \in Slots
  BY TableParts
<1>2. CASE tcp_accept_next
  <2>1. \E i \in Slots : conns' = [conns EXCEPT ![i].state = "ACCEPTED"]
    <3>1. {j \in Slots : conns[j].state = "PENDING"} \subseteq Nat
      BY DEF Slots
    <3>. QED
      BY <1>2, <3>1, MinOfNats DEF tcp_accept_next
  <2>2. PICK i \in Slots : conns' = [conns EXCEPT ![i].state = "ACCEPTED"]
    BY <2>1
  <2>3. /\ conns[i] \in Conn /\ conns'[i] = [conns[i] EXCEPT !.state = "ACCEPTED"]
        /\ \A j \in Slots : j # i => conns'[j] = conns[j]
    BY <1>1, <2>2 DEF NetOK
  <2>4. conns'[i].pcb = conns[i].pcb /\ conns'[i].sent = conns[i].sent /\ conns'[i].rx = conns[i].rx
    BY ONLY <2>3 DEF Conn
  <2>. QED
    BY <1>2, <2>3, <2>4, OneQuiet DEF tcp_accept_next
<1>3. CASE ReadEnd
  <2>1. /\ conns[cur] \in Conn /\ conns'[cur] = [conns[cur] EXCEPT !.eof = TRUE]
        /\ \A j \in Slots : j # cur => conns'[j] = conns[j]
    BY <1>1, <1>3 DEF NetOK, ReadEnd
  <2>2. conns'[cur].pcb = conns[cur].pcb /\ conns'[cur].sent = conns[cur].sent /\ conns'[cur].rx = conns[cur].rx
    BY ONLY <2>1 DEF Conn
  <2>. QED
    BY <1>1, <1>3, <2>1, <2>2, OneQuiet DEF ReadEnd
<1>4. CASE Restart
  <2> DEFINE gone == {i \in Slots : conns[i].state = "ACCEPTED"}
  <2>1. /\ gone \in SUBSET Slots /\ client' = HungUp(client, Peers(gone))
        /\ \A i \in Slots : IF i \in gone THEN conns'[i] = Free ELSE conns'[i] = conns[i]
    BY <1>4 DEF Restart, tcp_drop_all
  <2>. QED
    BY <1>1, <2>1, GoneQuiet
<1>5. CASE Time
  <2>1. PICK i \in Slots : Expire(i)
    BY <1>5 DEF Time
  <2>2. /\ client' = client /\ \A j \in Slots : j # i => conns'[j] = conns[j]
        /\ conns'[i].sent = conns[i].sent /\ conns'[i].pcb = conns[i].pcb /\ conns'[i].rx = conns[i].rx
    BY ONLY <1>1, <2>1, Expires
  <2>. QED
    BY <2>2, OneQuiet
<1>6. ASSUME NEW c \in Clients, Finish(c)
      PROVE  Quiet
  <2>1. PICK i \in Slots :
          /\ conns[i].pcb = c /\ Elsewhere(i, c)
          /\ conns'[i].pcb = c /\ conns'[i].rx = conns[i].rx
          /\ client'[c].up = client[c].up /\ client'[c].got = client[c].got
    BY ONLY <1>1, <1>6, Finishes
  <2>2. \A j \in Slots : conns[j].pcb # None => conns[j].pcb \in Clients
    BY <1>1 DEF NetOK, Conn
  <2>. QED
    BY <2>1, <2>2, NoSenders DEF Quiet, Elsewhere
<1>7. ASSUME NEW c \in Clients, Reset(c)
      PROVE  Quiet
  <2>1. PICK i \in Slots :
          /\ conns[i].pcb = c /\ Elsewhere(i, c)
          /\ conns'[i].pcb = None /\ conns'[i].rx = conns[i].rx
          /\ client'[c] = Away
    BY ONLY <1>1, <1>7, Resets
  <2>2. Away.got = <<>>
    BY DEF Away
  <2>3. \A j \in Slots : j # i /\ conns[j].pcb # None => conns[j].pcb # c /\ conns[j].pcb \in Clients
    BY <1>1, <2>1 DEF OneConn, NetOK, Conn
  <2>. QED
    BY <2>1, <2>2, <2>3, NoSenders DEF Quiet, Elsewhere
<1>8. CASE UNCHANGED netVars
  BY <1>8, SameQuiet DEF netVars, SameBut
<1>. QED
  BY <1>2, <1>3, <1>4, <1>5, <1>6, <1>7, <1>8

\* serve/1 reads on, answers with what it has read, or is done with it.
LEMMA ServerGoes ==
  ASSUME TableInv, OneOwner, [Next]_vars
  PROVE  Goes
<1>1. inbuf \in Seq(Clients)
  BY TableParts DEF ServerOK
<1>2. CASE cur' = cur /\ inbuf' = inbuf /\ line' = line /\ (pc \in Serving => pc' \in Serving)
  BY <1>2 DEF Goes, OneOwner
<1>3. CASE Unbound
  BY <1>3 DEF Unbound, Goes
<1>4. CASE UNCHANGED <<inbuf, line>> /\ pc \notin Serving
  BY <1>4 DEF Goes, OneOwner
<1>5. CASE tcp_stream_read
  <2>1. Senders(inbuf') \subseteq Senders(conns[cur].rx)
    BY <1>5, ReadsQuiet
  <2>2. pc' = pc /\ pc \in Serving /\ cur' = cur /\ line' = line
    BY <1>5 DEF tcp_stream_read, Reading, Serving, InOpen
  <2>. QED
    BY <2>1, <2>2 DEF Goes
<1>6. CASE ReadLine
  <2>1. /\ inbuf # <<>> /\ inbuf' = Tail(inbuf) /\ cur' = cur
        /\ line' \in {line, Head(inbuf)} /\ pc \in Serving /\ pc' \in Serving
    BY <1>6 DEF ReadLine, Reading, Goto, Serving, InOpen
  <2>. QED
    BY <1>1, <2>1, SendersTail DEF Goes
<1>7. CASE Interpreter
  BY <1>2, <1>3, <1>4, <1>5, <1>6, <1>7 DEF Interpreter, Listen, Announce, Announced, tcp_accept_next, OpenIn,
     OpenOut, OpenStream, ReadEnd, Reading, ReplyHead, ReplyBody, log, request_failed, OpenNote, CloseNote,
     CloseIn, CloseOut, CloseStream, Goto, serverVars, Serving, InOpen
<1>8. CASE Main \/ PromptServe \/ PromptOpen \/ Interrupt
  BY <1>4, <1>8 DEF Main, tcp_fail_all, trilog_close_streams, Restart, PromptServe, PromptOpen, Interrupt, Asked,
     serverVars, Serving, InOpen
<1>9. CASE Crash
  BY <1>3, <1>9 DEF Crash
<1>10. CASE Network \/ Time \/ UNCHANGED vars
  BY <1>2, <1>10 DEF Network, Time, Connect, Send, Finish, Reset, Expire, vars, serverVars
<1>11. CASE HeapExhausted
  BY <1>2, <1>3, <1>11 DEF HeapExhausted, Handling, Goto, serverVars, Serving, InOpen
<1>. QED
  BY <1>7, <1>8, <1>9, <1>10, <1>11 DEF Next

\* The connection that serve/1 serves is accepted and not yet released.
LEMMA ServingAccepted ==
  ASSUME TableInv, pc \in Serving
  PROVE  cur \in Slots /\ conns[cur].state = "ACCEPTED"
<1>1. cur \in Slots
  BY TableParts
<1>2. CASE pc = "open in"
  BY <1>1, <1>2, TableParts DEF OwnEntries
<1>3. CASE pc # "open in"
  <2>1. \E k \in 1..Entries : streams[k] = cur
    BY <1>3, TableParts DEF OwnEntries, Serving, InOpen, OutOpen
  <2>2. conns[cur].refs # 0
    BY <1>1, <2>1, TableParts, CountsAre, HoldersSome
  <2>3. conns[cur].refs \in 0..2 /\ (conns[cur].refs > 0 => conns[cur].state = "ACCEPTED")
    BY <1>1, TableParts, CountsAre DEF Conn
  <2>. QED
    BY <1>1, <2>2, <2>3
<1>. QED
  BY <1>2, <1>3

\* tcp_stream_write, to the peer of the connection.
LEMMA ReplyKeeps ==
  ASSUME NetOK, PeersInv, Goes, NEW i \in Slots, NEW what \in Notes, Wrote(i, what),
         what[2] \in {conns[i].pcb, None}, what[1] = "500" => ~conns[i].sent
  PROVE  PeersInv'
<1>1. /\ NetOK' /\ Touches(i)
      /\ conns[i].pcb \in Clients
      /\ conns'[i].pcb = conns[i].pcb /\ conns'[i].rx = conns[i].rx /\ conns'[i].sent = TRUE
      /\ \A c \in Clients : /\ client'[c].up = client[c].up
                            /\ client'[c].got = IF c = conns[i].pcb THEN Append(client[c].got, what)
                                                ELSE client[c].got
  BY Writes
<1>2. \A j \in Slots : conns'[j].pcb = conns[j].pcb /\ conns'[j].rx = conns[j].rx
  BY <1>1 DEF Touches
<1>3. OneOwner'
  BY <1>1, <1>2, OwnersKept DEF PeersInv
<1>4. OneConn'
  <2>1. \A j \in Slots : conns[j].pcb # None => conns[j].pcb \in Clients
    BY DEF NetOK, Conn
  <2>2. \A j \in Slots : j # i /\ conns[j].pcb # None =>
          /\ conns[j].pcb # conns[i].pcb
          /\ client'[conns[j].pcb].got = client[conns[j].pcb].got
    BY <1>1, <2>1 DEF PeersInv, OneConn
  <2>. QED
    BY <1>1, <1>2, <2>1, <2>2 DEF PeersInv, OneConn, Touches
<1>5. GotOwn'
  <2> SUFFICES ASSUME NEW c \in Clients, NEW n \in 1..Len(client'[c].got)
               PROVE  /\ client'[c].got[n][2] \in {c, None}
                      /\ client'[c].got[n][1] = "500" => n = 1
    BY DEF GotOwn
  <2>1. CASE c # conns[i].pcb
    BY <1>1, <2>1 DEF PeersInv, GotOwn
  <2>2. CASE c = conns[i].pcb
    <3>1. client[c].got \in Seq(Notes)
      BY DEF NetOK, Peer
    <3>2. /\ Len(client[c].got) \in Nat /\ Len(client'[c].got) = Len(client[c].got) + 1
          /\ client'[c].got[Len(client[c].got) + 1] = what
          /\ \A m \in 1..Len(client[c].got) : client'[c].got[m] = client[c].got[m]
      <4>1. client'[c].got = Append(client[c].got, what)
        BY <1>1, <2>2
      <4>. QED
        BY ONLY <3>1, <4>1, what \in Notes, AppendProperties, LenProperties
    <3>3. CASE n \in 1..Len(client[c].got)
      <4>1. client'[c].got[n] = client[c].got[n]
        BY ONLY <3>2, <3>3
      <4>2. client[c].got[n][2] \in {c, None} /\ (client[c].got[n][1] = "500" => n = 1)
        BY <3>3 DEF PeersInv, GotOwn
      <4>. QED
        BY ONLY <4>1, <4>2
    <3>4. CASE n = Len(client[c].got) + 1
      <4>1. what[1] = "500" => client[c].got = <<>>
        BY <1>1, <2>2 DEF PeersInv, OneConn
      <4>2. what[1] = "500" => n = 1
        BY <3>1, <3>4, <4>1, EmptySeq
      <4>3. client'[c].got[n] = what
        BY <3>2, <3>4
      <4>. QED
        BY <2>2, <4>2, <4>3
    <3>5. n \in 1..Len(client[c].got) \/ n = Len(client[c].got) + 1
      <4>1. n \in 1..Len(client'[c].got)
        OBVIOUS
      <4>. QED
        BY ONLY <3>2, <4>1
    <3>. QED
      BY ONLY <3>3, <3>4, <3>5
  <2>. QED
    BY <2>1, <2>2
<1>. QED
  BY <1>3, <1>4, <1>5 DEF PeersInv

\* serve/1 answers the peer whose line it has read, and tcp_fail_all says of no
\* request that it failed where something was sent.
LEMMA Replies ==
  ASSUME TableInv, PeersInv, Goes, ReplyHead \/ ReplyBody \/ tcp_fail_all
  PROVE  PeersInv'
<1>1. NetOK /\ cur \in Slots /\ line \in Clients \cup {None}
  BY TableParts DEF ServerOK
<1>2. CASE conns' = conns /\ client' = client
  <2>1. Quiet
    BY <1>2, SameQuiet DEF SameBut
  <2>2. NetOK'
    BY <1>1, <1>2 DEF NetOK
  <2>. QED
    BY ONLY <1>1, <2>1, <2>2, PeersInv, Goes, QuietGoes
<1>3. CASE ReplyHead \/ ReplyBody
  <2>1. pc \in Serving /\ \/ \E what \in {"head", "body"} : Wrote(cur, <<what, line>>)
                          \/ conns' = conns /\ client' = client
    BY <1>3 DEF ReplyHead, ReplyBody, GaveUp, netVars, Serving, InOpen
  <2>2. ASSUME NEW what \in {"head", "body"}, Wrote(cur, <<what, line>>)
        PROVE  PeersInv'
    <3>1. <<what, line>> \in Notes /\ <<what, line>>[1] # "500" /\ <<what, line>>[2] = line
      BY <1>1 DEF Notes
    <3>2. line \in {conns[cur].pcb, None}
      <4>1. conns[cur].pcb # None
        BY <2>2 DEF Wrote
      <4>2. PICK x \in Clients \cup {None} : FromOne(cur, x)
        BY <1>1 DEF PeersInv, OneOwner
      <4>. QED
        BY <2>1, <4>1, <4>2 DEF FromOne
    <3>. QED
      BY <1>1, <2>2, <3>1, <3>2, ReplyKeeps
  <2>. QED
    BY <1>2, <2>1, <2>2
<1>4. CASE tcp_fail_all
  <2>1. \/ \E what \in {"crashed", "500"} :
             Wrote(cur, <<what, None>>) /\ (what = "500" => ~conns[cur].sent)
        \/ conns' = conns /\ client' = client
    BY <1>4 DEF tcp_fail_all, GaveUp, netVars
  <2>2. ASSUME NEW what \in {"crashed", "500"}, Wrote(cur, <<what, None>>), what = "500" => ~conns[cur].sent
        PROVE  PeersInv'
    <3>1. <<what, None>> \in Notes /\ <<what, None>>[1] = what /\ <<what, None>>[2] = None
      BY DEF Notes
    <3>. QED
      BY <1>1, <2>2, <3>1, ReplyKeeps
  <2>. QED
    BY <1>2, <2>1, <2>2
<1>. QED
  BY <1>3, <1>4

LEMMA ConnectKeeps ==
  ASSUME TableInv, PeersInv, Goes, NEW c \in Clients, Connect(c)
  PROVE  PeersInv'
<1>1. NetOK /\ cur' = cur /\ pc' = pc /\ inbuf' = inbuf /\ line' = line
  BY TableParts DEF Connect, serverVars
<1>2. /\ NetOK' /\ ~client[c].up
      /\ \A d \in Clients : d # c => client'[d] = client[d]
      /\ \/ conns' = conns /\ client'[c] = Away
         \/ /\ client'[c].up = TRUE /\ client'[c].got = <<>>
            /\ \E i \in Slots :
                 /\ conns[i].state = "FREE"
                 /\ conns'[i].pcb = c /\ conns'[i].state = "PENDING" /\ conns'[i].rx = <<>>
                 /\ conns'[i].refs = 0
                 /\ \A j \in Slots : j # i => conns'[j] = conns[j]
  BY ONLY <1>1, c \in Clients, Connect(c), Connects
<1>3. \A i \in Slots : conns[i].pcb # None => conns[i].pcb # c /\ conns[i].pcb \in Clients
  BY <1>1, <1>2 DEF PeersInv, OneConn, NetOK, Conn
<1>4. CASE conns' = conns /\ client'[c] = Away
  <2>1. Away.got = <<>>
    BY DEF Away
  <2>2. Quiet
    BY <1>2, <1>3, <1>4, <2>1, NoSenders DEF Quiet
  <2>. QED
    BY <1>1, <1>2, <2>2, QuietGoes
<1>5. ASSUME NEW i \in Slots,
             client'[c].up = TRUE, client'[c].got = <<>>,
             conns[i].state = "FREE", conns'[i].pcb = c, conns'[i].rx = <<>>,
             \A j \in Slots : j # i => conns'[j] = conns[j]
      PROVE  PeersInv'
  <2>1. pc \in Serving => i # cur
    BY <1>5, ServingAccepted
  <2>2. OneOwner'
    <3>1. FromOne(i, c)'
      BY <1>1, <1>5, <2>1, NoSenders DEF FromOne
    <3>2. \A j \in Slots \ {i} : \E x \in Clients \cup {None} : FromOne(j, x)'
      BY <1>1, <1>5 DEF PeersInv, OneOwner, FromOne
    <3>. QED
      <4>1. \A j \in Slots : \E x \in Clients \cup {None} : FromOne(j, x)'
        BY ONLY <3>1, <3>2, c \in Clients
      <4>. QED
        BY <1>1, <4>1 DEF PeersInv, OneOwner
  <2>3. OneConn'
    BY <1>2, <1>3, <1>5 DEF PeersInv, OneConn
  <2>4. GotOwn'
    BY <1>2, <1>5 DEF PeersInv, GotOwn
  <2>. QED
    BY <2>2, <2>3, <2>4 DEF PeersInv
<1>. QED
  BY <1>2, <1>4, <1>5

LEMMA SendKeeps ==
  ASSUME TableInv, PeersInv, Goes, NEW c \in Clients, Send(c)
  PROVE  PeersInv'
<1>1. NetOK /\ cur' = cur /\ pc' = pc /\ inbuf' = inbuf /\ line' = line
  BY TableParts DEF Send, serverVars
<1>2. /\ NetOK' /\ client' = client
      /\ \E i \in Slots :
           /\ conns[i].pcb = c /\ Elsewhere(i, c)
           /\ conns'[i].pcb = c /\ conns'[i].rx = Append(conns[i].rx, c)
  BY ONLY <1>1, c \in Clients, Send(c), Sends
<1>3. PICK i \in Slots :
        /\ conns[i].pcb = c /\ Elsewhere(i, c)
        /\ conns'[i].pcb = c /\ conns'[i].rx = Append(conns[i].rx, c)
  BY <1>2
<1>5. Senders(conns'[i].rx) = Senders(conns[i].rx) \cup {c}
  <2>1. conns[i].rx \in Seq(Clients) /\ c \in Clients
    BY <1>1 DEF NetOK, Conn
  <2>2. Senders(conns'[i].rx) = Senders(conns[i].rx) \cup {c}
    BY <1>3, <2>1, SendersAppend
  <2>. QED
    BY <2>2
<1>6. OneOwner'
  <2>1. FromOne(i, c)
    BY <1>3 DEF PeersInv, OneOwner, FromOne
  <2>2. FromOne(i, c)'
    BY <1>1, <1>3, <1>5, <2>1 DEF FromOne
  <2>3. \A j \in Slots \ {i} : \E x \in Clients \cup {None} : FromOne(j, x)'
    <3> TAKE j \in Slots \ {i}
    <3>1. PICK x \in Clients \cup {None} : FromOne(j, x)
      BY DEF PeersInv, OneOwner
    <3>2. conns'[j] = conns[j]
      BY <1>3 DEF Elsewhere
    <3>3. FromOne(j, x)'
      BY <1>1, <3>1, <3>2 DEF FromOne
    <3>. QED
      BY ONLY <3>3
  <2>. QED
    <3>1. \A j \in Slots : \E x \in Clients \cup {None} : FromOne(j, x)'
      BY ONLY <2>2, <2>3, c \in Clients
    <3>. QED
      BY <1>1, <3>1 DEF PeersInv, OneOwner
<1>7. client' = client
  BY <1>2
<1>8. \A j \in Slots : conns'[j].pcb = conns[j].pcb /\ conns'[j].sent = conns[j].sent
  BY <1>3 DEF Elsewhere
<1>9. \A j \in Slots : conns[j].pcb # None => conns[j].pcb \in Clients
  BY <1>1 DEF NetOK, Conn
<1>10. OneConn'
  BY <1>7, <1>8, <1>9 DEF PeersInv, OneConn
<1>11. GotOwn'
  BY <1>7 DEF PeersInv, GotOwn
<1>. QED
  BY <1>6, <1>10, <1>11 DEF PeersInv

LEMMA PeersNext ==
  ASSUME TableInv, PeersInv, [Next]_vars
  PROVE  PeersInv'
<1>1. NetOK /\ NetOK' /\ Goes /\ OneConn
  BY TableParts, TableNext, ServerGoes DEF TableStep, PeersInv
<1>2. ASSUME Quiet
      PROVE  PeersInv'
  BY <1>1, <1>2, QuietGoes
<1>3. CASE Interpreter
  <2>1. CASE Listen \/ ReadLine
    BY <1>2, <2>1, OthersQuiet, <1>1 DEF Listen, ReadLine
  <2>2. CASE Announce \/ OpenIn \/ OpenOut \/ log \/ request_failed
    BY <1>2, <2>2, OpensQuiet
  <2>3. CASE Announced \/ CloseNote \/ CloseIn \/ CloseOut
    BY <1>1, <1>2, <2>3, ClosesQuiet
  <2>4. CASE tcp_stream_read
    BY <1>2, <2>4, ReadsQuiet
  <2>5. CASE tcp_accept_next \/ ReadEnd
    BY <1>1, <1>2, <2>5, OthersQuiet
  <2>6. CASE ReplyHead \/ ReplyBody
    BY <1>1, <2>6, Replies
  <2>. QED
    BY <1>3, <2>1, <2>2, <2>3, <2>4, <2>5, <2>6 DEF Interpreter
<1>4. CASE Main
  <2>1. CASE tcp_fail_all
    BY <1>1, <2>1, Replies
  <2>2. CASE trilog_close_streams
    BY <1>1, <1>2, <2>2, ClosesQuiet
  <2>3. CASE Restart
    BY <1>1, <1>2, <2>3, OthersQuiet
  <2>. QED
    BY <1>4, <2>1, <2>2, <2>3 DEF Main
<1>5. CASE Crash \/ HeapExhausted \/ Interrupt \/ PromptServe \/ PromptOpen \/ UNCHANGED vars
  <2>1. UNCHANGED netVars
    BY <1>5 DEF Crash, HeapExhausted, Interrupt, PromptServe, PromptOpen, vars
  <2>. QED
    BY <1>1, <1>2, <2>1, OthersQuiet
<1>6. CASE Network
  <2>1. PICK c \in Clients : Connect(c) \/ Send(c) \/ Finish(c) \/ Reset(c)
    BY <1>6 DEF Network
  <2>2. CASE Finish(c) \/ Reset(c)
    BY <1>1, <1>2, <2>2, OthersQuiet
  <2>. QED
    BY <1>1, <2>1, <2>2, ConnectKeeps, SendKeeps
<1>7. CASE Time
  BY <1>1, <1>2, <1>7, OthersQuiet
<1>. QED
  BY <1>3, <1>4, <1>5, <1>6, <1>7 DEF Next

(***************************************************************************)
(* Theorems of every behaviour.                                            *)
(***************************************************************************)
LEMMA InitHolds ==
  ASSUME Init
  PROVE  TableInv /\ IdleInv /\ NothingElse /\ LostFew
<1>1. NetOK /\ TableOK
  BY FreeType, AwayType DEF Init, NetOK, TableOK, Handles
<1>2. ServerOK
  BY EmptySeq DEF Init, ServerOK, Slots
<1>3. MainOK
  <2>1. 0 \in 0..bound.crashes /\ 0 \in 0..bound.raises /\ 0 \in 0..bound.prompts /\ bound \in Histories
    BY DEF Init
  <2>2. <<>> \in Seq(BOOLEAN) /\ 0 \in 0..3
    BY EmptySeq
  <2>3. listening \in BOOLEAN /\ took \in BOOLEAN
    BY Zenon DEF Init
  <2>. QED
    BY <2>1, <2>2, <2>3 DEF Init, MainOK
<1>4. StreamsOwnConns
  <2> SUFFICES ASSUME NEW i \in Slots
               PROVE  conns[i].refs = Cardinality(Holders(streams, i)) /\ conns[i].refs = 0
    BY DEF StreamsOwnConns, Holders
  <2>1. \A k \in 1..Entries : streams[k] # i
    BY DEF Init
  <2>. QED
    BY <2>1, HoldersSome DEF Init, Free
<1>5. OwnEntries /\ NothingElse /\ IdleInv
  BY EmptySeq DEF Init, OwnEntries, NothingElse, EntriesHeld, Watching, OnlyServed, Watched, IdleInv, InOpen, OutOpen,
     NoteOpen, Tidying, Free
<1>6. LostFew
  <2>1. Lost = {} /\ raised = 0
    BY DEF Init, Lost
  <2>. QED
    BY <2>1, FS_EmptySet DEF LostFew
<1>. QED
  BY <1>1, <1>2, <1>3, <1>4, <1>5, <1>6, TypesSplit DEF TableInv

LEMMA StepHolds ==
  ASSUME TableInv, IdleInv, [Next]_vars
  PROVE  TableInv' /\ IdleInv'
<1>1. TypeOK
  BY DEF TableInv
<1>2. TableStep
  BY TableNext
<1>3. MainOK' /\ IdleInv'
  BY <1>1, MainNext
<1>. QED
  BY <1>2, <1>3, TypesSplitNext DEF TableStep, TableInv

\* The state is of its type; what serve/1 has open are entries of its own; and
\* idle counts the last crashes that took no request.
THEOREM TableAndMain == Spec => [](TableInv /\ IdleInv)
<1>1. Init => TableInv /\ IdleInv
  BY InitHolds
<1>2. TableInv /\ IdleInv /\ [Next]_vars => (TableInv /\ IdleInv)'
  BY StepHolds
<1>. QED
  BY <1>1, <1>2, PTL DEF Spec

\* Type correctness of the board's state: conns, the stream table, serve/1, main.
THEOREM TypeCorrect == Spec => []TypeOK
<1>1. TableInv => TypeOK
  BY DEF TableInv
<1>. QED
  BY <1>1, TableAndMain, PTL

\* The references of a connection are the entries of the stream table that are
\* of it, and only a connection that is accepted has any (tcp_stream_open,
\* tcp_stream_close, tcp_drop_all): no entry of a released slot is left behind to
\* close its next connection.
THEOREM ConnsAreOwned == Spec => []StreamsOwnConns
<1>1. TableInv => StreamsOwnConns
  BY DEF TableInv
<1>. QED
  BY <1>1, TableAndMain, PTL

\* serve/1 comes back to tcp_accept with no connection accepted, and with no entry
\* open but a note of log/1 for each time the heap was exhausted, whatever fails, is
\* reset, raises or crashes in the requests before, until the prompt is back.  The
\* assumption is that two entries are more than those notes (MAX_OPEN_STREAMS is 16).
THEOREM NothingIsLeft ==
  ASSUME \A h \in Histories : Entries >= h.raises + 2
  PROVE  Spec => []WaitsWithNothing
<1>1. Init => TableInv /\ IdleInv /\ NothingElse /\ LostFew
  BY InitHolds
<1>2. TableInv /\ IdleInv /\ NothingElse /\ LostFew /\ [Next]_vars
        => (TableInv /\ IdleInv /\ NothingElse /\ LostFew)'
  <2>1. Roomy
    BY DEF Roomy
  <2>. QED
    BY <2>1, StepHolds, OpenNext, LostNext
<1>3. NothingElse /\ LostFew => WaitsWithNothing
  <2> SUFFICES ASSUME NothingElse, LostFew, pc = "accept", run # "prompt"
               PROVE  /\ \A k \in 1..Entries : streams[k] \in {None, Log}
                      /\ Cardinality({k \in 1..Entries : streams[k] = Log}) <= raised
                      /\ \A i \in Slots : conns[i].state # "ACCEPTED"
    BY DEF WaitsWithNothing
  <2>1. Watching /\ pc \notin NoteOpen /\ {k \in 1..Entries : streams[k] = Log} = Lost
    BY DEF Watching, NoteOpen, Lost
  <2>2. \A k \in 1..Entries : ~HeldEntry(k)
    BY DEF HeldEntry, InOpen, OutOpen, NoteOpen
  <2>. QED
    BY <2>1, <2>2 DEF NothingElse, EntriesHeld, OnlyServed, LostFew, Tidying, Serving, InOpen
<1>. QED
  BY <1>1, <1>2, <1>3, PTL DEF Spec

\* main gives up only after two more crashes that took no request: the loop of
\* main.c, with took reset before each run and idle before it counts.
THEOREM GivesUpIdle == Spec => []StopsOnlyIdle
<1>1. TableInv /\ IdleInv => StopsOnlyIdle
  <2> SUFFICES ASSUME TableInv, IdleInv, idle = 3
               PROVE  Len(quiet) >= 3 /\ quiet[Len(quiet)] /\ quiet[Len(quiet) - 1]
    BY DEF StopsOnlyIdle
  <2>1. quiet \in Seq(BOOLEAN) /\ Len(quiet) \in Nat
    BY TypesSplit, LenProperties DEF TableInv, MainOK
  <2>2. pc \notin Tidying
    BY DEF IdleInv
  <2>3. Len(quiet) >= 3 /\ \A j \in 1..2 : quiet[Len(quiet) + 1 - j]
    BY <2>2 DEF IdleInv
  <2>4. quiet[Len(quiet) + 1 - 1] /\ quiet[Len(quiet) + 1 - 2]
    BY <2>3
  <2>5. Len(quiet) + 1 - 1 = Len(quiet) /\ Len(quiet) + 1 - 2 = Len(quiet) - 1
    BY <2>1
  <2>. QED
    BY <2>3, <2>4, <2>5
<1>. QED
  BY <1>1, TableAndMain, PTL
LEMMA PeersInit ==
  ASSUME Init
  PROVE  PeersInv
<1>1. /\ \A i \in Slots : conns[i].pcb = None /\ conns[i].rx = <<>>
      /\ \A c \in Clients : client[c].got = <<>>
      /\ line = None /\ inbuf = <<>>
  BY DEF Init, Free, Away
<1>2. OneOwner
  BY <1>1, NoSenders DEF OneOwner, FromOne
<1>3. OneConn /\ GotOwn
  BY <1>1, EmptySeq DEF OneConn, GotOwn
<1>. QED
  BY <1>2, <1>3 DEF PeersInv

\* A peer has one connection at a time, all that has come through it is from that
\* peer, and what the peer has got is for it.
THEOREM PeersAreApart == Spec => [](TableInv /\ IdleInv /\ PeersInv)
<1>1. Init => TableInv /\ IdleInv /\ PeersInv
  BY InitHolds, PeersInit
<1>2. TableInv /\ IdleInv /\ PeersInv /\ [Next]_vars => (TableInv /\ IdleInv /\ PeersInv)'
  BY StepHolds, PeersNext
<1>. QED
  BY <1>1, <1>2, PTL DEF Spec

\* What a peer receives was written for the request it sent itself, over any reuse
\* of its slot, and what serve/1 reads for a request came from its peer.
THEOREM RepliesAreOwn == Spec => []OwnReply
<1>1. TableInv /\ PeersInv => OwnReply
  <2> SUFFICES ASSUME TableInv, PeersInv
               PROVE  OwnReply
    OBVIOUS
  <2>1. ASSUME line # None
        PROVE  \A n \in 1..Len(inbuf) : inbuf[n] = line
    <3>1. pc \in Serving /\ cur \in Slots
      BY <2>1, TableParts DEF PeersInv, OneOwner
    <3>2. PICK x \in Clients \cup {None} : FromOne(cur, x)
      BY <3>1 DEF PeersInv, OneOwner
    <3>. QED
      BY <2>1, <3>1, <3>2 DEF FromOne, Senders
  <2>. QED
    BY <2>1 DEF OwnReply, PeersInv, GotOwn
<1>. QED
  BY <1>1, PeersAreApart, PTL

\* A peer that has received anything gets no second status line after it, when the
\* request crashes (sent, tcp_fail_all).
THEOREM StatusIsOne == Spec => []OneStatus
<1>1. PeersInv => OneStatus
  BY DEF PeersInv, GotOwn, OneStatus
<1>. QED
  BY <1>1, PeersAreApart, PTL

\* The steps that end a connection end one that is accepted.
LEMMA ClosesKeep ==
  ASSUME TableInv, NEW k \in 1..Entries, streams[k] # None, stream_close(k),
         NEW i \in Slots, conns[i].state = "PENDING"
  PROVE  conns'[i].state = "PENDING"
<1>1. streams[k] # i
  <2>1. conns[i].refs = Cardinality(Holders(streams, i)) /\ conns[i].refs \in 0..2
        /\ (conns[i].refs > 0 => conns[i].state = "ACCEPTED")
    BY TableParts, CountsAre DEF Conn
  <2>2. conns[i].refs = 0
    BY <2>1
  <2>. QED
    BY <2>1, <2>2, HoldersSome
<1>2. NetOK /\ TableOK /\ StreamsOwnConns
  BY TableParts
<1>3. \A j \in Slots : j # streams[k] => conns'[j] = conns[j]
  BY <1>2, Closes
<1>. QED
  BY <1>1, <1>3

LEMMA WaitingStep ==
  ASSUME TableInv, [Next]_vars, NEW i \in Slots, conns[i].state = "PENDING"
  PROVE  conns'[i].state \in {"PENDING", "ACCEPTED"}
<1>1. NetOK /\ TableOK /\ StreamsOwnConns /\ cur \in Slots /\ fd \in [Fds -> 0..Entries]
  BY TableParts
<1>2. ASSUME NEW k \in 1..Entries, streams[k] # None, stream_close(k)
      PROVE  conns'[i].state = "PENDING"
  BY <1>2, ClosesKeep
<1>3. ASSUME NEW j \in Slots, NEW what \in Notes, Wrote(j, what)
      PROVE  conns'[i].state = "PENDING"
  <2>1. conns'[j].state = conns[j].state /\ \A k \in Slots : k # j => conns'[k] = conns[k]
    BY <1>1, <1>3, Writes DEF Touches
  <2>. QED
    BY <2>1
<1>4. ASSUME NEW h \in Slots \cup {Mail, Log}, NEW f \in Fds, stream_open(h, f),
             h \in Slots => conns[h].refs <= 1
      PROVE  conns'[i].state = "PENDING"
  <2>1. \A j \in Slots : SameBut(conns'[j], conns[j])
    BY ONLY <1>1, <1>4, Opens
  <2>. QED
    BY <2>1 DEF SameBut
<1>5. CASE UNCHANGED netVars
  BY <1>5 DEF netVars
<1>6. CASE Interpreter
  <2>1. CASE Listen \/ ReadLine
    BY <1>5, <2>1 DEF Listen, ReadLine
  <2>2. CASE Announce \/ log \/ request_failed
    <3>1. \/ \E what \in {Mail, Log} : stream_open(what, "aux")
          \/ UNCHANGED netVars
      BY <2>2 DEF Announce, log, request_failed, OpenNote, netVars
    <3>2. ASSUME NEW what \in {Mail, Log}
          PROVE  what \in Slots \cup {Mail, Log} /\ what \notin Slots /\ "aux" \in Fds
      BY DEF Fds
    <3>. QED
      BY <1>4, <1>5, <3>1, <3>2
  <2>3. CASE OpenIn \/ OpenOut
    <3>1. \/ \E f \in Fds : stream_open(cur, f) /\ pc \in {"open in", "open out"}
          \/ UNCHANGED netVars
      BY <2>3 DEF OpenIn, OpenOut, OpenStream, Fds, netVars
    <3>2. ASSUME pc \in {"open in", "open out"}
          PROVE  cur \in Slots \cup {Mail, Log} /\ conns[cur].refs <= 1
      <4>1. conns[cur].refs = 0 \/ conns[cur].refs = 1
        BY <3>2, TableParts DEF OwnEntries
      <4>2. conns[cur].refs <= 1
        BY ONLY <4>1
      <4>. QED
        BY <1>1, <4>2
    <3>. QED
      BY <1>4, <1>5, <3>1, <3>2
  <2>4. CASE Announced
    <3>1. fd["aux"] \in 1..Entries /\ streams[fd["aux"]] # None /\ stream_close(fd["aux"])
      BY <2>4, TableParts DEF Announced, OwnEntries, NoteOpen
    <3>. QED
      BY <1>2, <3>1
  <2>5. CASE CloseNote \/ CloseIn \/ CloseOut
    <3>1. \E f \in {"in", "out", "aux"} :
            fd[f] \in 1..Entries /\ streams[fd[f]] # None /\ stream_close(fd[f])
      BY <2>5, TableParts DEF CloseNote, CloseIn, CloseOut, CloseStream, OwnEntries, InOpen, OutOpen, NoteOpen
    <3>. QED
      BY <1>2, <3>1
  <2>6. CASE tcp_accept_next
    <3>1. \E j \in Slots : conns' = [conns EXCEPT ![j].state = "ACCEPTED"]
      <4>1. {j \in Slots : conns[j].state = "PENDING"} \subseteq Nat
        BY DEF Slots
      <4>. QED
        BY <2>6, <4>1, MinOfNats DEF tcp_accept_next
    <3>2. PICK j \in Slots : conns' = [conns EXCEPT ![j].state = "ACCEPTED"]
      BY <3>1
    <3>3. conns[i] \in Conn /\ conns'[i] = IF i = j THEN [conns[i] EXCEPT !.state = "ACCEPTED"] ELSE conns[i]
      BY <1>1, <3>2 DEF NetOK
    <3>. QED
      BY ONLY <3>3, conns[i].state = "PENDING" DEF Conn
  <2>7. CASE tcp_stream_read
    <3>1. PICK x : conns' = [conns EXCEPT ![cur].rx = x]
      BY <2>7 DEF tcp_stream_read
    <3>2. conns[i] \in Conn /\ conns'[i] = IF i = cur THEN [conns[i] EXCEPT !.rx = x] ELSE conns[i]
      BY <1>1, <3>1 DEF NetOK
    <3>. QED
      BY ONLY <3>2, conns[i].state = "PENDING" DEF Conn
  <2>8. CASE ReadEnd
    <3>1. conns[i] \in Conn /\ conns'[i] = IF i = cur THEN [conns[i] EXCEPT !.eof = TRUE] ELSE conns[i]
      BY <1>1, <2>8 DEF NetOK, ReadEnd
    <3>. QED
      BY ONLY <3>1, conns[i].state = "PENDING" DEF Conn
  <2>9. CASE ReplyHead \/ ReplyBody
    <3>1. <<"head", line>> \in Notes /\ <<"body", line>> \in Notes
      BY TableParts DEF Notes, ServerOK
    <3>2. UNCHANGED netVars \/ \E what \in Notes : Wrote(cur, what)
      BY <2>9, <3>1 DEF ReplyHead, ReplyBody, GaveUp
    <3>. QED
      BY <1>1, <1>3, <1>5, <3>2
  <2>. QED
    BY <1>6, <2>1, <2>2, <2>3, <2>4, <2>5, <2>6, <2>7, <2>8, <2>9 DEF Interpreter
<1>7. CASE Main
  <2>1. CASE tcp_fail_all
    <3>1. <<"crashed", None>> \in Notes /\ <<"500", None>> \in Notes
      BY DEF Notes
    <3>2. UNCHANGED netVars \/ \E what \in Notes : Wrote(cur, what)
      BY <2>1, <3>1 DEF tcp_fail_all, GaveUp
    <3>. QED
      BY <1>1, <1>3, <1>5, <3>2
  <2>2. CASE trilog_close_streams
    <3> DEFINE open == {k \in 1..Entries : streams[k] # None}
    <3>1. open # {} => Min(open) \in 1..Entries /\ streams[Min(open)] # None
      BY MinOfNats
    <3>2. \/ open # {} /\ stream_close(Min(open))
          \/ UNCHANGED netVars
      BY <2>2 DEF trilog_close_streams, netVars
    <3>. QED
      BY <1>2, <1>5, <3>1, <3>2
  <2>3. CASE Restart
    <3>1. conns' = [j \in Slots |-> IF conns[j].state = "ACCEPTED" THEN Free ELSE conns[j]]
      BY <2>3 DEF Restart, tcp_drop_all
    <3>. QED
      BY <3>1
  <2>. QED
    BY <1>7, <2>1, <2>2, <2>3 DEF Main
<1>8. CASE Crash \/ HeapExhausted \/ Interrupt \/ PromptServe \/ PromptOpen \/ UNCHANGED vars
  BY <1>5, <1>8 DEF Crash, HeapExhausted, Interrupt, PromptServe, PromptOpen, vars
<1>9. CASE Network \/ Time
  <2>1. ASSUME NEW c \in Clients, Connect(c)
        PROVE  conns'[i].state = "PENDING"
    <3>1. \/ conns' = conns /\ client'[c] = Away
          \/ /\ client'[c].up = TRUE /\ client'[c].got = <<>>
             /\ \E j \in Slots :
                  /\ conns[j].state = "FREE"
                  /\ conns'[j].pcb = c /\ conns'[j].state = "PENDING" /\ conns'[j].rx = <<>>
                  /\ conns'[j].refs = 0
                  /\ \A k \in Slots : k # j => conns'[k] = conns[k]
      <4>1. NetOK
        BY <1>1
      <4>. QED
        BY ONLY <2>1, <4>1, c \in Clients, Connects
    <3>. QED
      BY ONLY <3>1, i \in Slots, conns[i].state = "PENDING"
  <2>2. ASSUME NEW c \in Clients, Send(c) \/ Finish(c) \/ Reset(c)
        PROVE  conns'[i].state = "PENDING"
    <3>1. CASE Send(c)
      BY <1>1, <3>1, Sends DEF Elsewhere
    <3>2. CASE Finish(c)
      BY <1>1, <3>2, Finishes DEF Elsewhere
    <3>3. CASE Reset(c)
      BY <1>1, <3>3, Resets DEF Elsewhere
    <3>. QED
      BY <2>2, <3>1, <3>2, <3>3
  <2>3. ASSUME NEW j \in Slots, Expire(j)
        PROVE  conns'[i].state = "PENDING"
    BY <1>1, <2>3, Expires
  <2>. QED
    BY <1>9, <2>1, <2>2, <2>3 DEF Network, Time
<1>. QED
  BY <1>6, <1>7, <1>8, <1>9 DEF Next

\* A connection that waits in the queue stays until the interpreter accepts it:
\* neither a crash and what main does after it, nor the end of another connection,
\* takes it away.
THEOREM WaitingStays == Spec => WaitingKept
<1>1. TableInv /\ [Next]_vars =>
        [\A i \in Slots : conns[i].state = "PENDING" => conns'[i].state \in {"PENDING", "ACCEPTED"}]_vars
  BY WaitingStep
<1>. QED
  BY <1>1, TableAndMain, PTL DEF Spec, WaitingKept
=============================================================================
