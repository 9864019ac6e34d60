------------------------------- MODULE WsHub --------------------------------
(***************************************************************************)
(* The broadcast hub of the control plane (internal/ws/hub.go): handlers   *)
(* broadcast job and alert messages to the room of an organisation, every  *)
(* client of the room has a buffered channel, and Serve runs two           *)
(* goroutines per client, a reader that only detects the end of the        *)
(* connection and a writer that drains the channel.                        *)
(*                                                                         *)
(* A message is <<s, n>>: the n-th one of sender s.  Broadcast holds the   *)
(* read lock while it offers its message to the clients of the room one by *)
(* one, so broadcasts of several senders interleave; add and remove take   *)
(* the write lock, and a waiting writer keeps new readers out              *)
(* (sync.RWMutex).                                                         *)
(***************************************************************************)
EXTENDS Naturals, Sequences, FiniteSets

CONSTANTS
    Client,      \* connections
    Sender,      \* goroutines that broadcast
    Room,        \* organisations
    RoomOf,      \* the room of each client and each sender
    Cap,         \* capacity of a client's channel (32 in the code)
    MaxSent      \* bound: messages each sender broadcasts

ASSUME HubAssumption ==
    /\ RoomOf \in [Client \cup Sender -> Room]
    /\ Cap \in Nat \ {0}
    /\ MaxSent \in Nat
    /\ Client \cap Sender = {}

VARIABLES
    rooms,    \* h.rooms: the members of each room that has an entry
    send,     \* the channel of each client
    reader,   \* the state of the reader goroutine of each client
    writer,   \* the state of Serve, which becomes the writer
    peer,     \* is the other end of the connection there?
    sent,     \* messages each sender has begun to broadcast
    offer,    \* clients the broadcast of each sender has yet to reach
    busy,     \* senders inside Broadcast, holding the read lock
    got,      \* history: messages written to each client
    lossy     \* history: clients whose channel has been full

vars == <<rooms, send, reader, writer, peer, sent, offer, busy, got, lossy>>

Message == Sender \X (1..MaxSent)

ReaderState == {"none", "reading", "removing", "ended"}
WriterState == {"none", "adding", "greeting", "draining", "returned"}

TypeOK ==
    /\ \E live \in SUBSET Room : rooms \in [live -> SUBSET Client]
    /\ send \in [Client -> Seq(Message)]
    /\ \A c \in Client : Len(send[c]) <= Cap
    /\ reader \in [Client -> ReaderState]
    /\ writer \in [Client -> WriterState]
    /\ peer \in [Client -> BOOLEAN]
    /\ sent \in [Sender -> 0..MaxSent]
    /\ offer \in [Sender -> SUBSET Client]
    /\ busy \subseteq Sender
    /\ got \in [Client -> Seq(Message)]
    /\ lossy \subseteq Client

Init ==
    /\ rooms = [r \in {} |-> {}]
    /\ send = [c \in Client |-> <<>>]
    /\ reader = [c \in Client |-> "none"]
    /\ writer = [c \in Client |-> "none"]
    /\ peer = [c \in Client |-> FALSE]
    /\ sent = [s \in Sender |-> 0]
    /\ offer = [s \in Sender |-> {}]
    /\ busy = {}
    /\ got = [c \in Client |-> <<>>]
    /\ lossy = {}

-----------------------------------------------------------------------------
(* Helpers *)

\* Faulty variant: the clients of every room.
Members_AnyRoom(r) == UNION {rooms[q] : q \in DOMAIN rooms}

Members(r) == IF r \in DOMAIN rooms THEN rooms[r] ELSE {}

\* Clients that wait for the write lock.
Waiting == {c \in Client : writer[c] = "adding" \/ reader[c] = "removing"}

WithMember(c) ==
    [r \in DOMAIN rooms \cup {RoomOf[c]} |->
        IF r = RoomOf[c] THEN Members(r) \cup {c} ELSE rooms[r]]

\* Faulty variant: the last member leaves an empty entry behind.
WithoutMember_KeepsRoom(c) ==
    [r \in DOMAIN rooms |-> IF r = RoomOf[c] THEN rooms[r] \ {c} ELSE rooms[r]]

\* The entry of a room is deleted with its last member.
WithoutMember(c) ==
    LET left == Members(RoomOf[c]) \ {c}
        keep == IF left = {} THEN DOMAIN rooms \ {RoomOf[c]} ELSE DOMAIN rooms IN
    [r \in keep |-> IF r = RoomOf[c] THEN left ELSE rooms[r]]

-----------------------------------------------------------------------------
(* Broadcast *)

Broadcast(s) ==
    /\ s \notin busy
    /\ sent[s] < MaxSent
    /\ Waiting = {}
    /\ busy' = busy \cup {s}
    /\ sent' = [sent EXCEPT ![s] = @ + 1]
    /\ offer' = [offer EXCEPT ![s] = Members(RoomOf[s])]
    /\ UNCHANGED <<rooms, send, reader, writer, peer, got, lossy>>

\* Faulty variant: a queue without a bound.
Offer_Unbounded(s, c) ==
    /\ s \in busy
    /\ c \in offer[s]
    /\ offer' = [offer EXCEPT ![s] = @ \ {c}]
    /\ send' = [send EXCEPT ![c] = Append(@, <<s, sent[s]>>)]
    /\ UNCHANGED <<rooms, reader, writer, peer, sent, busy, got, lossy>>

\* Faulty variant: the newest message is queued first.
Offer_Newest(s, c) ==
    /\ s \in busy
    /\ c \in offer[s]
    /\ offer' = [offer EXCEPT ![s] = @ \ {c}]
    /\ IF Len(send[c]) < Cap
       THEN send' = [send EXCEPT ![c] = <<<<s, sent[s]>>>> \o @] /\ UNCHANGED lossy
       ELSE lossy' = lossy \cup {c} /\ UNCHANGED send
    /\ UNCHANGED <<rooms, reader, writer, peer, sent, busy, got>>

\* Faulty variant: a channel with one free place is taken for a full one.
Offer_OneLess(s, c) ==
    /\ s \in busy
    /\ c \in offer[s]
    /\ offer' = [offer EXCEPT ![s] = @ \ {c}]
    /\ IF Len(send[c]) + 1 < Cap
       THEN send' = [send EXCEPT ![c] = Append(@, <<s, sent[s]>>)] /\ UNCHANGED lossy
       ELSE /\ lossy' = IF Len(send[c]) = Cap THEN lossy \cup {c} ELSE lossy
            /\ UNCHANGED send
    /\ UNCHANGED <<rooms, reader, writer, peer, sent, busy, got>>

\* Faulty variant: the send has no default and waits for a place.
Offer_Blocking(s, c) ==
    /\ s \in busy
    /\ c \in offer[s]
    /\ Len(send[c]) < Cap
    /\ offer' = [offer EXCEPT ![s] = @ \ {c}]
    /\ send' = [send EXCEPT ![c] = Append(@, <<s, sent[s]>>)]
    /\ UNCHANGED <<rooms, reader, writer, peer, sent, busy, got, lossy>>

\* select { case c.send <- data: default: }
Offer(s, c) ==
    /\ s \in busy
    /\ c \in offer[s]
    /\ offer' = [offer EXCEPT ![s] = @ \ {c}]
    /\ IF Len(send[c]) < Cap
       THEN send' = [send EXCEPT ![c] = Append(@, <<s, sent[s]>>)] /\ UNCHANGED lossy
       ELSE lossy' = lossy \cup {c} /\ UNCHANGED send
    /\ UNCHANGED <<rooms, reader, writer, peer, sent, busy, got>>

Release(s) ==
    /\ s \in busy
    /\ offer[s] = {}
    /\ busy' = busy \ {s}
    /\ UNCHANGED <<rooms, send, reader, writer, peer, sent, offer, got, lossy>>

-----------------------------------------------------------------------------
(* Serve *)

Connect(c) ==
    /\ writer[c] = "none"
    /\ writer' = [writer EXCEPT ![c] = "adding"]
    /\ peer' = [peer EXCEPT ![c] = TRUE]
    /\ UNCHANGED <<rooms, send, reader, sent, offer, busy, got, lossy>>

\* h.add, then the reader is started.
Add(c) ==
    /\ writer[c] = "adding"
    /\ busy = {}
    /\ rooms' = WithMember(c)
    /\ reader' = [reader EXCEPT ![c] = "reading"]
    /\ writer' = [writer EXCEPT ![c] = "greeting"]
    /\ UNCHANGED <<send, peer, sent, offer, busy, got, lossy>>

\* The error of the first write is ignored.
Greet(c) ==
    /\ writer[c] = "greeting"
    /\ writer' = [writer EXCEPT ![c] = "draining"]
    /\ UNCHANGED <<rooms, send, reader, peer, sent, offer, busy, got, lossy>>

\* A write may still succeed after the peer has left; it fails for certain once
\* the reader has closed the connection, and Serve then returns.
Drain(c) ==
    /\ writer[c] = "draining"
    /\ send[c] # <<>>
    /\ send' = [send EXCEPT ![c] = Tail(@)]
    /\ \/ /\ reader[c] # "ended"
          /\ got' = [got EXCEPT ![c] = Append(@, Head(send[c]))]
          /\ UNCHANGED writer
       \/ /\ ~peer[c]
          /\ writer' = [writer EXCEPT ![c] = "returned"]
          /\ UNCHANGED got
    /\ UNCHANGED <<rooms, reader, peer, sent, offer, busy, lossy>>

Leave(c) ==
    /\ peer[c]
    /\ peer' = [peer EXCEPT ![c] = FALSE]
    /\ UNCHANGED <<rooms, send, reader, writer, sent, offer, busy, got, lossy>>

ReadError(c) ==
    /\ reader[c] = "reading"
    /\ ~peer[c]
    /\ reader' = [reader EXCEPT ![c] = "removing"]
    /\ UNCHANGED <<rooms, send, writer, peer, sent, offer, busy, got, lossy>>

\* h.remove; conn.Close().  The channel stays open.
Remove(c) ==
    /\ reader[c] = "removing"
    /\ busy = {}
    /\ rooms' = WithoutMember(c)
    /\ reader' = [reader EXCEPT ![c] = "ended"]
    /\ UNCHANGED <<send, writer, peer, sent, offer, busy, got, lossy>>

-----------------------------------------------------------------------------

Send(s) == Broadcast(s) \/ (\E c \in Client : Offer(s, c)) \/ Release(s)

Next ==
    \/ \E s \in Sender : Send(s)
    \/ \E c \in Client :
         \/ Connect(c) \/ Add(c) \/ Greet(c) \/ Drain(c)
         \/ Leave(c) \/ ReadError(c) \/ Remove(c)

Spec == Init /\ [][Next]_vars

\* Goroutines inside the hub are scheduled; a broken connection is noticed.  A
\* peer need not connect, leave or read what is written to it, so nothing makes
\* the writer progress.
HubFairness ==
    /\ \A s \in Sender :
         /\ WF_vars(Release(s))
         /\ \A c \in Client : WF_vars(Offer(s, c))
    /\ \A c \in Client : WF_vars(Add(c)) /\ WF_vars(ReadError(c)) /\ WF_vars(Remove(c))

FairSpec == Spec /\ HubFairness

-----------------------------------------------------------------------------
(* Properties *)

\* What a client was sent, or has waiting for it.
Stream(c) == got[c] \o send[c]

\* Each client sees the messages of one sender in the order they were broadcast
\* and none twice (job.created before job.updated), and none of another room,
\* however the broadcasts of several senders interleave.
StreamsInOrder ==
    \A c \in Client : \A i, j \in 1..Len(Stream(c)) :
      LET m == Stream(c)[i]
          n == Stream(c)[j] IN
      /\ RoomOf[m[1]] = RoomOf[c]
      /\ (i < j /\ m[1] = n[1]) => m[2] < n[2]

\* Only a full channel loses messages: a connected client that got the first
\* message of a sender and whose channel was never full has, or will get, every
\* later message whose broadcast is over, as long as no write to it failed.
LosesOnlyWhenFull ==
    \A c \in Client, s \in Sender :
      (/\ reader[c] = "reading" /\ writer[c] # "returned" /\ c \notin lossy
       /\ \E i \in 1..Len(Stream(c)) : Stream(c)[i] = <<s, 1>>) =>
      \A n \in 1..sent[s] :
        \/ \E i \in 1..Len(Stream(c)) : Stream(c)[i] = <<s, n>>
        \/ n = sent[s] /\ c \in offer[s]

\* A client is a member of its room exactly while its reader runs: a connection
\* that ends before it is served long cannot be left behind in the hub, and no
\* empty room keeps an entry.
MembersAreConnected ==
    /\ \A c \in Client :
         c \in Members(RoomOf[c]) <=> reader[c] \in {"reading", "removing"}
    /\ \A r \in DOMAIN rooms : rooms[r] # {}

\* A broadcast always ends, and a closed client is always removed, even if no
\* client ever reads (the default branch of the select).
HubNeverBlocks ==
    /\ \A s \in Sender : s \in busy ~> s \notin busy
    /\ \A c \in Client : reader[c] = "removing" ~> reader[c] = "ended"
=============================================================================
